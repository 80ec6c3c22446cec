# TLA+ models of lmalpha

lmalpha is a library and agent for quantitative factors: `src/eal` is a
portability layer (locks, shared memory, a publish-subscribe message ring,
events, timers, asynchronous i/o), `src/lmapi` is what a factor program links
against (configuration, market data, a database store for results, console log),
`src/lmlib` and `src/lmagent` tie them together.

This directory holds the TLA+ modules that model it, the TLC configurations that
check them on small instances, and proofs for all instances that `tlapm` checks.
`PROJECT.json` names every run, its properties, the source lines of every
definition, the hazards of the code and the theorems.

    tlc -workers 2 -config SpinLock.cfg MCSpinLock.tla
    tlapm SPRingProofs.tla

## 1. Inventory

| Component | State | Operations | Hard behaviour | What makes it correct | Module |
|---|---|---|---|---|---|
| Spin lock, `eal/lmice_eal_spinlock.c` | one word | lock, trylock, unlock | every interleaving; a trylock that gives up as the word becomes free; no owner check in unlock | one thread inside; trylock returns; the word is never lost | `SpinLock` |
| Reader-writer ticket lock, `eal/lmice_eal_rwlock.h` | a 32-bit word with three byte counters | r/w lock, unlock, trylock | non-atomic byte updates beside atomic ones, wrap-around, a carry out of `users` | many readers or one writer; in order; nobody waits for ever | `RWTicketLock` |
| SP-Ring messages, `eal/lmice_ring.c` | in shared memory: lock, length, status list, data blocks | write, readn, readp, release | publishers and subscribers in several processes; blocks read without the lock; deaths; stale and oversized messages | a held message is not overwritten; list order; pin counts; the lock is given back | `SPRing` |
| SP-Ring attaching, `eal/lmice_ring.c`, `eal/lmice_eal_shm.c` | names, mappings, reference counts | create, open, delete | opening what is half made, also between two stores of its header; closing together | two handles that go together do not both destroy it | `SPRingAttach` |
| Result store, `lmapi/lm_result_store.cpp`, `lmapi/lmsql.cpp` | database tables, session, `err_msg`, `row_count` | open, store, close | statements that fail one at a time, no transaction, lost links, deaths | what is published is whole; success means stored | `ResultStore` |
| Network services, `eal/lmice_eal_wsa.*`, `lmice_eal_iocp.h` (and `lmice_eal_aio.*`) | chained slabs of handles and of i/o data, sockets | create tcp, udp, multicast services, accept | a dozen error paths over several addresses; accept threads that append to the creator's chains | one user per element; handles and sockets given back on every path; what a posted receive needs stays with its service | `NetService` |
| Events, `eal/lmice_eal_event.c` | named semaphores, which outlive processes | create, open, close, wait, awake, destroy | a name left by a process that died; a refused creation unlinks the name of the one that exists, as a second call | a creation is refused by a name once, and what it creates is new | `NamedEvent` |
| Timers, `eal/lmice_eal_time.c` | next wait or due time, quit flag | create, handler thread, stop | unsigned wait after a slow handler; a clock that runs on between reading and sleeping | a call is not early; no sleep is longer than an interval | `Timer` |
| Console log, `lmapi/lm_console_log.cpp` | one record per console: count, thread, name, begin time | open, write a line | threads change the record without a lock; `count` wraps | a line names its thread and its short stamp can be dated, once overlapping calls are over | `Console` |
| Data load, `lmapi/lm_data_load.cpp` | a range of hours; bars read block by block | open, ticks, bars | calendar arithmetic across time zones, years and leap days; last blocks; unreadable files, reads that fail | bars are those of the range, in order; the days of ticks follow one another, as many as the range has | `DataLoad` |
| Configuration, `lmapi/lm_config_read.cpp`, `include/lmjson.h`, `include/lmxml.h`, `lmapi/lmapi.cpp` | a parsed file; the api object's settings | open, get_string, get_int | cutting names into keys; files that cannot be read; two files that hold the same setting | an answer is of the name asked for; XML before JSON | `ConfigKeys` |
| Character conversion, `lmapi/lmstrencode.cpp` | the caller's buffer and its size | convert a string; the loops of `lmsql.cpp` that do it for each parameter | the buffer's real size and the size the caller was told differ from call to call | a conversion stays in the buffer, has room, and is what the query gets | `StrEncode` |
| Factor program, `example/factor_test/factor_main.cpp` | results by stock, threads | size, solve in threads, join, store | division of the stocks; threads that share one result vector; joining before storing | what is stored is whole; no two threads write one stock's results | `FactorRun` |

Not modelled, and why: sockets and local datagrams, trace and logger, hash,
endian, malloc, bson (thin or stateless wrappers); the bloom filter and market
data packing (sequential arithmetic on one buffer or one record, floating-point
sizes); the query side of `lmsql.cpp` (conversion column by column of what OTL
returns); the rest of the api facade, library and agent (glue that loads a factor and calls
the parts above); the explorer (a user interface skeleton) and the vendored
headers: `include/otlv4.h` and `lmexplorer/Include/` alone are most of the lines in `src/`.

Interactions.  Every SP-Ring operation runs inside `eal_spin_lock` /
`eal_spin_unlock` on a word in the ring's own shared memory; `SpinLock` and the
critical sections of `SPRing` therefore implement the same abstract module,
`Mutex`.  The ring's blocks are the shared-memory objects of
`lmice_eal_shm.c`; `SPRingAttach` has both.  The result store calls
`sql_internal`, which hides the OTL library and the database; both are external
here, modelled from how `lmsql.cpp` uses them.  `sql_internal` converts its
parameters with the one buffer of `StrEncode`.  A factor program (`FactorRun`)
gets its data from the loading of `DataLoad` and gives its results to the
store; both hand over whole vectors in calls, and share no state with it.

## 2. Modules

**`Mutex`** is the abstract mutual-exclusion lock, **`RWLock`** the abstract
reader-writer lock.

**`SpinLock`.**  `lock` is the word, `pc` the place of a thread in
`eal_spin_lock`, `eal_spin_trylock` or its caller, `rounds` is `sleep_times`.
A failed compare-and-swap changes nothing, so the `LOCK_LOOP_COUNT` attempts of
one round are one step: `TryTake` when one finds the word free, `TryRound` when
all fail.  `Unlock` subtracts whatever the word holds, as the code does.
Callers pair their calls, as every caller in `src/` does.

**`SPRing`.**  `st`, `length` and `lock` are the fields of `lmspr_info`; `blob[s]`
is the stamp of the message data block `s` holds; `wr` is a publisher's
arguments and loop index; `got` is a subscriber's private copy of the elements
it pinned.  `lmspr_write` is one action per lock step, per check, per turn of
its loop and per copy (`WriteLock`, `WriteCheck`, `WriteScan`, `WriteCopy`,
`WriteUnlock`), since subscribers read blocks meanwhile without the lock.
What `readn`, `readp` and `release` do under the lock touches only the list,
which nobody sees without the lock, and is one step (`ReadN`, `ReadP`, `ReleaseUnpin`).
`release` gets what the read returned, all of it.
`Maintain` is external: no code in `src/` raises `info->length`; the header of
`lmice_ring.h` leaves that to the one maintainer of the machine.  `Crash` kills
a thread anywhere, also between lock and unlock.
Names: LMSPR_WRONLY and LMSPR_RDWR are the states 0 and 1, a status above 1
counts subscribers.

**`RWTicketLock`.**  `u` is the word, byte by byte, with the top byte that
`users` carries into; `me` and `reg` are what a thread has loaded.  Every load,
store and atomic instruction of the six operations is a step, so the two loads
of a trylock and the load-then-store of `wunlock` interleave with the rest.
Reads of the source's `unsigned char` fields are taken as single accesses.

**`SPRingAttach`.**  `named` is the names that exist, `rcount` the counts in the
header, `count` and `mapped` a handle's view; `reg` is what a `++` has loaded,
and `RaiseData` is its store.  A creation may be refused, have no data block
(`CreateSmall`), or fail at either block; the names and mappings it leaves
behind stay.  An opener that finds no ring follows an uninitialised pointer in
the code; here its thread stops in the state "fault".  The header's stores
are steps where an opener that has mapped it can tell: `StoreBlkcount` and
`StoreRcount`, `AnnounceData` and `ClearData`.  `early` is history: the threads
that are detaching and lowered the header's count between the first two, whose
decrement the second overwrites.

**`ResultStore`.**  `db` is the database as the session sees it, `disk` what is
committed.  Each SQL statement is one action that runs or fails; `err` is
`err_msg` and survives from statement to statement as in the code, and `rows`
is `row_count`, which a failed select leaves alone.  OTL opens the session with
autocommit off: an output stream that flushed rows commits, `direct_exec` does
not, `logoff` commits.  A commit is taken to fail only with the link.
`LoseLink` and `Crash` may happen between any two statements and roll back what
is not committed.

**`NetService`.**  `hlist` and `ilist` are the chains of slabs; `hd` and `data`
say which element each service and each accepted connection has; `found` is what
the scan of a thread in `append` has found, so that finding and marking are two
steps.  Thread 0 creates the services of `Program`, one after the other, each
with parameters of its own; thread k accepts for server k.  A creation is a step
per system call, and each call may fail: `Abort` is an error path that gives
socket and handle back, `NextAddress` one that goes on, `NoAddress` the end of
the addresses.  The application is external: it calls `eal_wsa_bind_handle_cp`
and `eal_wsa_arecv_data` for a multicast service, and gives accept threads the
same i/o chain as services (they use the global `ilist`).  `Post` appends the
data and calls `WSARecv` or `WSARecvFrom`; whether that failed is not looked at,
so the step goes on and reports success either way, and `receiving` is history: the users whose
receive was posted.  No code in `src/` takes back the handle of a service once created, so nothing here does.

**`Timer`.**  `clock` is external and may run on between any two steps, so that
sleeping and handlers take any time.  The Mac thread sleeps until `now`, calls
the handler and computes the next `wait` as an unsigned difference (`Left`,
modulo `Word`); the Windows thread polls the clock, where `wait` is the time the
next call is due.  `Stop` is the owner who sets `*quit_flag`.

**`NamedEvent`.**  `link` says which semaphore has the name; the semaphores and
the name are the system's, and outlive processes that crash.  `CreateRefused`
and `UnlinkRefused` are the two calls of one refused `eal_event_create`.
`CreateNew` is `sem_open` with O_EXCL of a free name.  `own`, `found` and `met`
are history: the semaphore a process has created, its value at that moment, and
the one that last refused it a creation.

**`Console`.**  `con` is the record, `my` what a thread has loaded from it.
`con->count++` is a load and a store; an assignment to `thread_name` is two
steps, and a reader between them finds a torn name.  `dated`, `gap`, `alone`
and `named` are history: the last full stamp, the lines since, and whether
calls overlapped, which the property needs in order to say what still holds.

**`ConfigKeys`** with the inputs of **`ConfigFiles`.**  A name is a sequence of
keys, a file a function from names to texts and attributes.  The names, the
files and the settings are constants; `ConfigForm` says what they are, and
`ConfigFiles` has all files of a small form.  `KeyAt` is
`obj_get`'s cutting of keys with a position for a length; `Found`, `Content`
and `Attribute` what the JSON and XML readers then find.  `ApiOpenXml`,
`ApiOpenJson` and `ApiDone` are the constructor of the api object.

**`DataLoad`.**  Time is in hours.  `DayNumber` is what `mktime` makes of a
`struct tm`, `DateOfDay` what `gmtime` makes of a time.  `Open` is the
constructor, `TickDay` one turn of `get_tick`, `BarsBlock` one `fread` of
`get_kdata` with the loop that keeps the bars of the range (`Selected`),
`NextInstrument` the loop of `get_ticks` and `get_kdatas`.  An `fread` may
fail: `BarsFail` gives fewer bars than there are, and ends the loop when it gives none, as
`if (size == 0) break` does; `BarsTear` stops inside a bar, after which the
rest of the file is read across its bars and yields any dates.  Nobody looks at
`ferror`.  `here` and `seen` are history: what the instrument under way and
those done met with on the disk.  `LoadForm` says what dates, files, zones and
blocks are.  The calendar names the days of the years 2000 to 2040.

**`StrEncode`.**  `size` is what `*out_buff` really has and `bytes` what the
caller was told.  `Direct`, `OnStack` and `Large` are the three buffers of
`str_encode_c`; `Call` and `Give` are the callers' loop, which hands on the
buffer whatever the call has left.  iconv is external: it needs at most
`Growth` bytes for one, and fails on a bad string.

**`FactorRun`.**  `StockBegin` and `StockEnd` divide the stocks; a thread is
`factor_solver`.  A result records which window it was computed of.

**`Components`** puts `SPRingAttach` and the seven modules above into one
specification, `MCComponents` gives its constants values. They share no state
in the code, so a behaviour is one of a single part, which `part` names; their
state spaces add and do not multiply. Each part has variables of its own,
substituted into an `INSTANCE`, and its properties are stated again under the
names their modules give them.

Modules named `MC...` give the constants small values.  Definitions marked
`Bug` are variants of the definition after them with a plausible mistake: a
mutant uses the variant for the original, and the property it is listed with
must then fail.

## 3. Runs

| Run | Instance | Shows |
|---|---|---|
| `spin_lock` | 3 threads, 2 rounds; 1 087 states | the word says whether somebody is inside; implements `Mutex`; a trylock returns though the holder never leaves; while holders unlock, the word keeps moving |
| `ring_pins` | 1 publisher, 2 subscribers, 3 elements, window 2, stamps 1-3, all sizes; 492 454 states | list order, distinct blocks, pin counts, what `release` finds again, what a write may drop, no publisher touches a held block |
| `ring_race` | 2 publishers, 1 subscriber, everybody mortal; 158 102 states | a held message is whole and the one asked for; the newest stamp never goes back; implements `Mutex` despite deaths; only a death inside keeps the lock |
| `ring_duplicates` | 1 publisher, 1 subscriber | **fails**: one write stamps several elements (below) |
| `rw_ticket_lock` | 3 threads, two of them trylockers, bytes modulo 4; 341 056 states | implements `RWLock`, first come first served, trylocks overtake nobody and fail only for a reason, no increment lost, every waiter served |
| `attach_refcount` | a creator, 2 openers, 3 opens | **fails**: the header's count is not the number of handles (below) |
| `result_store` | 3 codes (one empty), 2 openings, 2 stores each, 2 faults; 8 660 states | published data is whole datasets; a second info row needs a failed select; success means everything is stored; only the last code with rows is at risk after success |
| `net_services` | tcp server last of 5 services of all kinds, 2 connections, 2 addresses, slabs of 2; 501 218 states | elements have one user each over several slabs; handles and sockets are accounted for whichever step fails; a udp service reported as created has asked for a receive, and what was posted keeps its data, handle and socket |
| `net_services_race` | a server, then a udp service | **fails**: two threads take one handle (below) |
| `components` | eight parts, each alone, 575 690 states: attaching with a creator, 2 openers and 4 opens; a timer of interval 3 until tick 14; 3 processes that may die and 3 semaphores; a console of 2 threads, 7 lines, a full stamp every 3, `count` modulo 5, one overlap; names of three keys at most in files with two values (XML: and an attribute); ticks and bars from dates across a new year and a leap day, three time zones, blocks of 2, reads that fail anywhere; 5 stocks on 3 threads; 4 strings that need the caller's buffer, the stack's or a larger one | the ring's blocks are destroyed at most once, but by threads that detached too early; a timer's calls are not early and its sleeps not long; a name left over refuses a process once, and a created event is new; lines read right once overlaps are over; answers are of the name; XML before JSON; the bars loaded are those of the range, or of a first part of the file; ticks are looked for on days that follow one another, as many as the range a month later has; whole results; room for every string |
| `config_nested` | the same | **fails**: a value under three keys is not read (below) |
| `tick_dates` | the same | **fails**: ticks of another month (below) |

Why the bounds suffice.  Three elements let a held one sit between two free
ones and be pushed by a move of length 1 and 2; two subscribers make pins
overlap (status 3); a third stamp makes one write older than a message already
there after another has been recycled.  Two publishers are what a race for the
lock needs.  With bytes modulo 4 and three threads the counters wrap while
waiters stand in line, which 256 only does later; the lock needs fewer threads
than byte values, which the assumption states.  Two rounds distinguish a
trylock that goes on from one that gives up.  Two faults let a drop fail and
then the create that depends on it, and a retry follow both.  Bounds are
`MaxTs`, `MaxOpens`, `MaxRuns`, `MaxStores`, `MaxFaults`, `MaxAccepts`,
`MaxClock`, `MaxMade`, `MaxPosts`, `MaxLines`, `MaxOverlaps`, `MaxDays` and
`MaxCalls`, each named where it guards.  Slabs of 2 make five services and two
connections need four of them, and two addresses tell a failure that goes on
from the last.  In `components`, 14 ticks of interval 3 let a handler miss several beats and the
thread catch up; a third semaphore is what a refused creation leaves room for;
seven lines pass two full stamps and the end of `count`, and one overlap is
enough to spoil the record and see it recover; five stocks on three threads
divide unevenly, and some have no window; a growth of 4 and a stack of 8 make
strings of 1 to 3 bytes use all three buffers in every order.  The subscribers of `ring_pins` are symmetric, and that run has no
liveness property.

Deadlock is checked where the system can always go on.  It is not in
`ring_race` (everybody may have died), `attach_refcount` (the openings are
bounded, and threads fault), `components` and the two runs of it that fail
(a part ends: a timer is stopped, a program done, the lines or calls used up),
`result_store` and `net_services` (openings, calls, services and connections
are bounded).

Fairness.  `SpinLock` assumes only that a thread inside a trylock runs: the
scheduler does that.  That holders unlock is a premise of `WordKeepsMoving` and
not part of the specification.  Nobody is promised entry: the spin lock is not fair.
`RWTicketLock` assumes running threads and holders that give the lock back, by
calling unlock, as a caller of a lock must.  `SPRing` assumes that a
living thread inside an operation runs.  A call that waits for `info->lock` is
only weakly fair, so the runs claim that the lock is given back and not that
one thread gets it.  The other modules claim safety only.

## 4. What is proved

Eight modules of proofs are checked by `tlapm`, for every value of the constants
that the assumptions named below admit.  Those called `...Assumption` are
`ASSUME`s of the modules; the others are premises of the theorems.  TLC evaluates
the first kind on the runs of their modules, and of the second `ConfigForm` and `LoadForm`, which
`MCComponents` assumes of its files.

*Spin lock* (`SpinAssumption`: at least one round, `NoOwner` is no thread).
The invariant is type correctness, `WordIsHolder`, and that a trylock under way
has rounds left (without it a trylock could be under way past its last round,
and `rounds` would leave its type).  From it: `WordIsHolderAlways`, and
`SpinLockIsMutex`, the refinement of `Mutex`, by one case per action.

*SP-Ring* (`RingAssumption`: a finite set of subscribers disjoint from the
publishers, capacity at most the number of elements).  `NewestFirst` and
`BlocksDistinct` are not inductive alone.  That a move to the head keeps the
list in order needs that the writer's stamp is not older than the head
(`WriterInLoop`), which survives other threads' steps only because one thread
is inside at a time (`OneInside`); that it stays inside the array and past the
window needs the loop index, and the window that it shows written elements
(`WindowWritten`).  The conjunction `IInv` is inductive; one lemma per
operation.  From it: `RingInvariant`, `NewestFirstAlways`,
`BlocksDistinctAlways`, the action property `HeadNeverGoesBackAlways`, and
`RingIsMutex`, that the critical sections implement `Mutex` whoever dies.

*SP-Ring, what subscribers hold.*  A second invariant, `PinInv`, stands on the
first.  `PinsInPlace`: the elements of a subscriber are a row of neighbours, as
many as it copied, with only newer stamps before it.  A read takes such a row
since the list is in order (a window by time has no gap, and a set of positions
has a first and a last one: `LeastNatural`); recycling moves it down by one or
leaves it alone, as the element recycled is held by nobody, which is what
`StatusCountsPins` tells the publisher; and `release` finds its start again
because stamps before it are newer.  A publisher in its loop has a stamp newer than
all that is held (`NewerThanHeld`), so the head it stamps is not taken for a
held element.  From it: `ReleaseFindsItsElementsAlways`,
`StatusCountsPinsAlways`, `DroppedOnlyIfStaleOrPinnedAlways` and the action
property `HeldBlocksUntouchedAlways`; and, when `SizesUsed` has only sizes that fit,
`HeldMessagesIntactAlways`: every message is in its block but for one that
nobody holds, which a publisher is copying or died in copying (`MessagesStored`).

*Attaching* (no assumption; any number of openers).  `DestroyedAtMostOnce` needs
that only the creator writes the header, each field once (`Creating`), and that the
header's count, 1 after that, only falls: whoever has blocks to release and is
not one of the `early` has lowered it since, so who of them finds 0 is the first
to (`CountFalls`).  The exception is what the proof needs and what the code
does: a thread that lowers the count after `blkcount` is stored (line 102) and
before `block[0].rcount` is (line 105), and looks at it after that, may find
the 0 that another brought it to, and then both destroy the blocks.  From it:
`DestroyedAtMostOnceAlways`.

*Ticket lock* (`TicketAssumption`: fewer threads than a byte has values).  The
three counters are read as points on a circle: `read` is as many places past
`write` as there are readers inside, and `users` as many past `read` as there
are threads in the queue (`Counters`).  The tickets of the queue are different
and within its length of `read` (`Tickets`), which holds across the wrap only
because there are fewer threads than values.  Whoever is passing the turn on or
writing has the ticket that `read` is at (`Turns`), and what a thread has loaded
of a byte and is about to store is still there (`Loaded`): so the updates that
are not atomic lose nothing.  From it: `TicketLockIsRWLock`, the refinement of
`RWLock`; the action properties `FirstComeFirstServedAlways`,
`TryNeverOvertakesAlways` and `TryFailsForAReasonAlways`; and
`CountersAgreeAtRestAlways`.

*Result store* (`StoreAssumption`: at least one code, a bound for each counter).
A table that does not exist has no rows, and the temporary table is empty when it
is filled, since one that is left over makes its creation fail
(`TempIsDataset`).  `Done` and `Flushed` say which codes have been published and
which of them a later flush has committed; the session has the first
(`Seen`), the disk the second (`Committed`), and after the only call since the
opening they are there in order (`SeenInOrder`), as the table was new
(`StartsEmpty`).  The rows of the info table are one more than the failed
selects at most (`InfoCounted`).  From it: `WholeDatasetsAlways`,
`OneInfoRowAlways`, `SuccessMeansStoredAlways`, `OnlyTheLastIsAtRiskAlways`, for
any number of codes, empty ones among them, and any number of faults.

*Network services* (`ServiceAssumption`; `ServerOnlyLast`: a tcp server comes
last, without which `net_services_race` refutes `OneUserEach`).  One thread at a
time appends then: the main thread until the server listens, its accept thread
from then on (`OneAppends`).  The chain is all slabs in their order, an element
is used exactly when it is somebody's place, no two have one (`Handles`,
`Data`), and what a scan has found is still free when it is marked (`Finding`).
The handle of a creation carries its owner as long as that goes on to use it
(`Attached`), and the sockets open for it are those of the address it is at
(`Sockets`).  Data that somebody has is under its user's id, with a handle that
has the same id and a socket that is open (`Receives`): `DataKept` is the
lemma that a failing creation disturbs none of it.  From it: `OneUserEachAlways`, `HandlesAccountedForAlways`,
`SocketsClosedAlways`, `ReceivesReachTheirUserAlways`, for any program of services, any
length of slabs and any number of addresses and connections.

*Timer* (`TimerWide`: clock and interval together fit the unsigned word).  The
invariant says in each place when the next call is due: not before the
intervals there have been and not later than one from now, in `clock + wait`
or in `now` on Mac and in `wait` on Windows.  `NeverEarlyAlways` and
`NeverSleepsPastABeatAlways` follow; without `TimerWide` the wrapped difference of a
slow handler could be taken for a short wait.

*Events* (no assumption).  `StartsAfresh` is inductive once the semaphores are
numbered in the order they are made: what anybody has created or been refused by
is one of those made so far (`EventIInv`), so that a creation's is another.  From it:
`StartsAfreshAlways`.

*Console* (`ConsoleForm`: the period of full stamps, 100 in the code, is above 1,
and the word of `count` does not have remainder 1 by it; 2^32 has 96.  With
remainder 1 the first line after the wrap would come one late for its full
stamp).  As long as the name or the date of the record can be trusted, every
call under way is alone (`Lone`, `Quiet`); a thread that is alone finds the
record as it left it (`OwnRecord`), and the lines since the last full stamp are
what `count` says, less 1 and modulo the period (`LinesSinceDate`), which takes
lemmas about remainders.  From it: `LinesReadRightAlways`.

*Configuration* (`ConfigForm`: names are sequences of keys, a file that was not
read holds nothing, only nested names have attributes).  Lemmas say which keys
are cut out of a name of one, of two and of more keys, and from that what the
readers find.  The invariant: an answer is what the file says now, and a setting
what the files taken so far give it.  From it: `AnswersAreOfTheNameAlways`,
`XmlBeforeJsonAlways`.

*Data load* (`LoadForm`: dates of natural numbers, zones of whole hours from
-12 to 14, blocks of at least one record).  What is selected of a file is a function defined
along a sequence: lemmas show by a least counterexample that such a function
exists and is what it is meant to be, and from this that two parts of a file
give what the one gives and then the other (`SelectedOfBoth`, `MoreIsTaken`).
While a file is read, what is loaded is what a first part of it gives, and the
rest is still to be read (`BarsUntil`), unless a read was torn.  For ticks,
`now` is as many days past `tm_begin` as have been looked for, and passes
`tm_end` after as many as lie between the two dates a month later
(`TicksSoFar`, `DayIsAMonthLater`).  From it: `BarsOfTheRangeAlways`,
`TicksOfEachDayAlways`.  That `DateOfDay` is the calendar's is not proved: the
theorem is about which days are looked for, and TLC evaluates their dates.

*Conversions* (`EncodeSizes`: lengths, growth and stack size are natural numbers).
What is told never exceeds what the buffer has, and a good string's result fits
`Growth` times its length, so each of the three buffers has room for it; one lemma per buffer.
From it: `RoomForEveryStringAlways`.

*Factor program* (`Inputs`: numbers of stocks and bars, at least one thread and
a window of one bar).  The ranges of the threads cover the stocks and do not
overlap: a fact about integer division that the prover needs in lemmas of its
own.  The invariant says how far each thread has come in its range and that
everything before that point is there; after the joins all ranges are done.
From it: `ResultsWholeAlways`, and `WritesApartAlways`, which no run lists: that
two threads never work on the results of one stock and that a thread writes
inside what `clear_result` has sized.

*Composition* (the premises above).  A behaviour of `Components` is one of the
timer, of the event and so on, as a step of another part is a stutter of
theirs.  `ComponentsProofs` has the proofs of the timer, the event, the console,
the configuration, the loading and the conversions in that form, with the variables
the composition gives them, and takes the program's from `FactorRunProofs`
(`ResultsWholeAmongOthers`): so the theorems are about what the run checks, for
all constants.

Each invariant has its module's type correctness as a part; where it says no
more than the variables' types it is proved and not run.

Only model-checked: what must happen in the end (a trylock returns, the word keeps
moving, waiters are served, the ring's lock is given back), since liveness under
fairness is out of the prover's reach; every safety invariant and action
property of the passing runs is proved.

What the proofs changed in the models: `Content` of `ConfigKeys` had a second
case that could hold together with the first; the proof of `XmlAnswer` did not go
through, and it is now what the code does, in its order.  That the element a
multicast service is given later is still its own was not evident: the
invariant of `NetService` first failed at the place "joined".  And the condition
on the word of `count` was found by the proof of the console, not by a run.

## 5. What the models show about the code

Five runs refute something the sources say.

* `ring_duplicates`: `lmice_ring.c:317` says "Find a free element in list".
  The loop does not stop at the first one: each free element from
  `info->length` on is moved to the head, stamped and given the message.  With
  duplicates at the head the messages that were readable leave the window
  sooner, and `readn` returns one message several times.
* `attach_refcount`: `lmice_ring.h:70` calls `rcount` a reference count.  For
  the header block it stays 1 whatever is opened, since `lmspr_open` raises the
  copy in the caller's own `lmblk_info`; the first handle deleted brings it to 0
  and goes the way of the last, `lmblk_delete`.  Which names that unlinks is
  open, as it does not set the name it unlinks.
* `net_services_race`: `lmice_eal_wsa.c:21` calls what `eal_wsa_append_handle`
  yields a single-handle structure associated with the socket.  The scan marks
  the element it found with no lock (`lmice_eal_wsa.h:80`; the list's `lock` is
  unused), and an accept thread appends to the list that the creating thread
  appends to: both can take one element.  `net_services` creates its server
  last, so that no two threads append at once.
* `config_nested`: `doc/lmalpha_design.tex:416` has parameters read by names
  with a dot for each nested object.  `obj_get` (`lmjson.h:23`, `lmxml.h:43`)
  gives `substr` an end where it takes a length: the keys in the middle of a
  name of three or more come with the text after them, and nothing is found.
* `tick_dates`: `doc/lmalpha_design.tex:568` calls `start_date` the first date
  of the data.  `lm_data_load.cpp:119` gives `mktime` the month as written, where
  it counts from 0, and files are named by `tm_mon + 1`: the ticks are those of
  the month after, and of the day before where local time is ahead of UTC.

Other behaviour worth knowing, which holds in the models and contradicts no
text: after 256 tickets `users` has carried into the unused top byte of the
word, and the trylocks of `RWTicketLock`, which expect a zero there, answer
EBUSY until it wraps (`TryFailsForAReason` states it).  A message larger than a
block is not copied, but its stamp is already at the head, so `HeldMessagesIntact`
is for publishers that keep to their size.  A thread that dies inside an
operation leaves the ring locked for good.  A failed select before the insert
of a factor's info makes a second row of it.  `store` of several codes is not
atomic: what was published before a failure stays, and without a reopening a
second call publishes it again.  A tcp client
none of whose remote addresses answered is reported as created, and so is a
server whose accept thread did not start.  A creation that runs out of local
addresses keeps its handle.  An accept thread that cannot attach a connection
ends with the accepted socket open, and its server goes on listening for nobody.
`get_int` answers an int that was never set when a JSON file has no such name,
and any read after an XML file that could not be opened follows a null
document.  A refused `eal_event_create` takes the name away from the event that
exists, and processes that open it later cannot meet the earlier ones; no
property forbids it.  A `WSARecv` or `WSARecvFrom` that fails is not noticed
(`lmice_eal_wsa.h:308`, `:426`, `lmice_eal_wsa.c:59`): a udp service is
reported as created and never receives.  Two threads that detach from a ring, one of
them between two stores of `lmspr_create`, may both destroy its blocks.  A read
of bars that fails ends in a shorter `vec` and no error, and one that stops
inside a bar in bars that the file does not hold.  A query
parameter that cannot be converted is given as what the buffer last held.
Console lines written at once may carry another thread's name, or a time that
counts from nowhere.

## 6. Not modelled

In `SPRing`: 64-bit overflow of `ts + period`, a second creation under attached
processes. In `SPRingAttach`: a second creation of the ring. Memory is
sequentially consistent throughout. In `ResultStore`: conversion of names and
texts, `stocks` and `results` of different lengths. In `NetService`: memory
that runs out, the threads that reap completions, the kqueue and aio context of
`lmice_eal_aio.c`, the buffer lists of `lmice_eal_iocp.h`. In `Timer`: the
thread that reads the performance counter. In `NamedEvent`: Windows, where the
system does it all, and callers that do not zero an event before they create
it. In `Console`: the types of console that print less. In `ConfigKeys`: the
readers of floats and of arrays. In `DataLoad`: names of files, and
reads of ticks that fail (line 179 does not look, and loads zeros). In `StrEncode`:
the unit of the lengths the wrappers return. In `FactorRun`: a
`hardware_concurrency` of 0, for which no thread is started.

## 7. Plan

What a next step would add, the most important first.

1. A restarted maintainer in `SPRing` and `SPRingAttach`, and the width of
   `ts + period`.
2. Proofs: that the calendar of `DataLoad` names every day of its years once.
3. The threads that reap completions, with the lists of buffers they share, in
   a module beside `NetService`.
