--------------------------- MODULE ComponentsProofs ---------------------------
(***************************************************************************)
(* Proofs about the components that share no state: of each, the inductive *)
(* invariant its step keeps; and that it holds of the component among the  *)
(* others, for a step of another one is a stutter of its own.              *)
(***************************************************************************)
EXTENDS Components, SequenceTheorems, FiniteSetTheorems, NaturalsInduction,
        WellFoundedInduction, TLAPS

FP == INSTANCE FactorRunProofs WITH
  Count <- Window,
  result <- f_result, stored <- f_stored, main <- f_main, next <- f_next, pc <- f_pc,
  stock <- f_stock, bar <- f_bar, slot <- f_slot

allVars == <<part, vars, timer, event, console, config, load, run, encode>>

-----------------------------------------------------------------------------
(* The timer thread, for every interval and every length of the run, as    *)
(* long as unsigned numbers are wide enough for both together.             *)
TimerWide == /\ Interval \in Nat
             /\ MaxClock \in Nat
             /\ Word \in Nat
             /\ MaxClock + Interval < Word

TimerTypeOK == /\ t_system \in {"none", "mac", "win"}
               /\ t_clock \in 0 .. MaxClock
               /\ t_now \in Nat
               /\ t_wait \in Nat
               /\ t_quit \in BOOLEAN
               /\ t_pc \in {"new", "loop", "asleep", "handler", "ended"}
               /\ t_calls \in Nat

(* No call is due before (calls + 1) * Interval, and none later than one   *)
(* interval from now: for Mac the due time is clock + wait before the      *)
(* thread sleeps and now while it sleeps, for Windows it is wait.          *)
CallDue(time) == t_calls * Interval + Interval <= time /\ time <= t_clock + Interval

NextCallDue ==
  /\ t_pc = "new" => t_system = "none" /\ t_calls = 0
  /\ t_pc = "loop" => \/ t_system = "mac" /\ CallDue(t_clock + t_wait) /\ t_wait <= Interval
                      \/ t_system = "win" /\ CallDue(t_wait)
  /\ t_pc = "asleep" => \/ t_system = "mac" /\ CallDue(t_now)
                        \/ t_system = "win" /\ CallDue(t_wait)
  /\ t_pc = "handler" => /\ t_system \in {"mac", "win"}
                         /\ t_calls * Interval <= t_now
                         /\ t_now <= t_clock

TimerIInv == TimerTypeOK /\ T!NeverEarly /\ NextCallDue

LEMMA TimerInitHolds == ASSUME TimerWide PROVE T!Init => TimerIInv
<1>1. 0 * Interval = 0
  BY DEF TimerWide
<1>2. T!Init => TimerTypeOK
  <2>1. 0 \in 0 .. MaxClock
    BY DEF TimerWide
  <2>2. T!Init => t_quit \in BOOLEAN
    BY Zenon DEF T!Init
  <2> QED
    BY <2>1, <2>2 DEF T!Init, TimerTypeOK
<1>3. T!Init => T!NeverEarly /\ NextCallDue
  BY <1>1 DEF TimerWide, T!Init, T!NeverEarly, NextCallDue
<1> QED
  BY <1>2, <1>3 DEF TimerIInv

(* The wait that the Mac thread computes ends at the next beat, or at once *)
(* when that is over: the unsigned difference is then above an interval.   *)
LEMMA WaitEndsAtBeat ==
  ASSUME TimerWide, TimerTypeOK, t_now <= t_clock
  PROVE  /\ T!WaitForBeat \in Nat
         /\ T!WaitForBeat <= Interval
         /\ t_now + Interval <= t_clock + T!WaitForBeat
  BY DEF TimerWide, TimerTypeOK, T!WaitForBeat, T!Left

LEMMA TimerStepHolds == ASSUME TimerWide, TimerIInv, [T!Next]_T!vars PROVE TimerIInv'
<1> USE DEF TimerWide, TimerIInv, TimerTypeOK, T!NeverEarly, NextCallDue, CallDue
<1>1. CASE T!Tick
  BY <1>1 DEF T!Tick
<1>2. CASE T!Stop
  BY <1>2 DEF T!Stop
<1>3. CASE T!MacStart
  BY <1>3 DEF T!MacStart, T!Start
<1>4. CASE T!MacSleep
  BY <1>4 DEF T!MacSleep, T!Goto
<1>5. CASE T!MacCall
  <2>1. t_calls' * Interval = t_calls * Interval + Interval
    BY <1>5 DEF T!MacCall, T!Call
  <2> QED
    BY <1>5, <2>1 DEF T!MacCall, T!Goto, T!Call
<1>6. CASE T!MacNext
  BY <1>6, WaitEndsAtBeat DEF T!MacNext, T!Goto
<1>7. CASE T!Quit("mac") \/ T!Quit("win")
  BY <1>7 DEF T!Quit, T!Goto
<1>8. CASE T!WinStart
  BY <1>8 DEF T!WinStart, T!Start
<1>9. CASE T!WinCall
  <2>1. t_calls' * Interval = t_calls * Interval + Interval
    BY <1>9 DEF T!WinCall, T!Call
  <2> QED
    BY <1>9, <2>1 DEF T!WinCall, T!WinLook, T!Goto, T!Call
<1>10. CASE T!WinSleep \/ T!WinYield
  BY <1>10 DEF T!WinSleep, T!WinYield, T!WinLook, T!Goto
<1>11. CASE T!WinAwake
  BY <1>11 DEF T!WinAwake, T!Goto
<1>12. CASE T!WinNext
  BY <1>12 DEF T!WinNext, T!Goto
<1>13. CASE UNCHANGED T!vars
  BY <1>13 DEF T!vars
<1> QED
  BY <1>1, <1>2, <1>3, <1>4, <1>5, <1>6, <1>7, <1>8, <1>9, <1>10, <1>11, <1>12, <1>13
  DEF T!Next, T!Thread

(* The composition begins as the timer does, and takes its steps or        *)
(* stutters; so it is for the other parts.                                 *)
LEMMA TimerInvariant == ASSUME TimerWide PROVE ComponentsSpec => []TimerIInv
<1>1. ComponentsInit => T!Init
  BY DEF ComponentsInit
<1>2. [ComponentsNext]_allVars => [T!Next]_T!vars
  BY DEF ComponentsNext, allVars, timer, T!vars
<1>3. TimerIInv /\ [T!Next]_T!vars => TimerIInv'
  BY TimerStepHolds
<1> QED
  BY <1>1, <1>2, <1>3, TimerInitHolds, PTL DEF ComponentsSpec, allVars

(* However late the thread wakes and however long handlers run, the k-th   *)
(* call begins after k intervals at the earliest, on both systems.         *)
THEOREM NeverEarlyAlways == ASSUME TimerWide PROVE ComponentsSpec => []NeverEarly
<1>1. TimerIInv => NeverEarly
  BY DEF TimerIInv, NeverEarly
<1> QED
  BY <1>1, TimerInvariant, PTL

(* A thread that sleeps has at most one interval to go, also when the      *)
(* handler was slower than the interval and the difference wrapped around. *)
THEOREM NeverSleepsPastABeatAlways ==
  ASSUME TimerWide PROVE ComponentsSpec => []NeverSleepsPastABeat
<1>1. TimerWide /\ TimerIInv => NeverSleepsPastABeat
  BY DEF TimerWide, TimerIInv, TimerTypeOK, NextCallDue, CallDue,
         NeverSleepsPastABeat, T!NeverSleepsPastABeat
<1> QED
  BY <1>1, TimerInvariant, PTL
-----------------------------------------------------------------------------
(* Events shared by name, for any set of processes and any number of       *)
(* semaphores and posts.  What makes StartsAfresh inductive is that the    *)
(* semaphores are numbered in the order they are made: a new one has not   *)
(* refused anybody and is nobody's.                                        *)
EventTypeOK == /\ e_link \in Nat
               /\ e_made \in Nat
               /\ DOMAIN e_pc = Party
               /\ e_own \in [Party -> Nat]
               /\ e_found \in [Party -> Nat]
               /\ e_met \in [Party -> Nat]

InOrderMade == /\ e_link <= e_made
               /\ \A p \in Party : e_own[p] <= e_made /\ e_met[p] <= e_made

EventIInv == EventTypeOK /\ InOrderMade /\ E!StartsAfresh

LEMMA EventInitHolds == E!Init => EventIInv
  BY DEF E!Init, EventIInv, EventTypeOK, InOrderMade, E!StartsAfresh, E!None

LEMMA EventCreateHolds == ASSUME EventIInv, NEW p \in Party, E!Create(p) PROVE EventIInv'
<1>1. /\ e_link' = e_made + 1 /\ e_made' = e_made + 1
      /\ e_own' = [e_own EXCEPT ![p] = e_made + 1]
      /\ e_found' = [e_found EXCEPT ![p] = 0]
      /\ UNCHANGED <<e_pc, e_met>>
  BY DEF E!Create, E!CreateNew
<1>2. EventTypeOK'
  BY <1>1 DEF EventIInv, EventTypeOK
<1>3. InOrderMade'
  BY <1>1 DEF EventIInv, EventTypeOK, InOrderMade
<1>4. E!StartsAfresh'
  BY <1>1 DEF EventIInv, EventTypeOK, InOrderMade, E!StartsAfresh, E!Idle, E!None
<1> QED
  BY <1>2, <1>3, <1>4 DEF EventIInv

LEMMA EventStepHolds == ASSUME EventIInv, [E!Next]_E!vars PROVE EventIInv'
<1> USE DEF EventIInv, EventTypeOK, InOrderMade, E!StartsAfresh, E!Idle, E!None
<1>1. ASSUME NEW p \in Party, E!CreateRefused(p) PROVE EventIInv'
  BY <1>1 DEF E!CreateRefused
<1>2. ASSUME NEW p \in Party, E!UnlinkRefused(p) PROVE EventIInv'
  BY <1>2 DEF E!UnlinkRefused, E!Unlink
<1>3. ASSUME NEW p \in Party, E!Destroy(p) PROVE EventIInv'
  BY <1>3 DEF E!Destroy, E!Unlink
<1>4. ASSUME NEW p \in Party, E!Close(p) PROVE EventIInv'
  BY <1>4 DEF E!Close
<1>5. ASSUME NEW p \in Party, E!Crash(p) PROVE EventIInv'
  BY <1>5 DEF E!Crash
<1>6. ASSUME UNCHANGED <<e_link, e_made, e_pc, e_own, e_found, e_met>> PROVE EventIInv'
  BY <1>6
<1>7. ASSUME NEW p \in Party, E!Open(p) \/ E!Awake(p) \/ E!Wait(p) PROVE EventIInv'
  BY <1>6, <1>7 DEF E!Open, E!Awake, E!Wait
<1>8. CASE UNCHANGED E!vars
  BY <1>6, <1>8 DEF E!vars
<1> QED
  BY <1>1, <1>2, <1>3, <1>4, <1>5, <1>7, <1>8, EventCreateHolds DEF E!Next

(* However processes create, open, close and die: who starts again is      *)
(* refused once at most by an event that was left, and has the event it    *)
(* then creates for its own.                                               *)
THEOREM StartsAfreshAlways == ComponentsSpec => []StartsAfresh
<1>1. ComponentsInit => E!Init
  BY DEF ComponentsInit
<1>2. [ComponentsNext]_allVars => [E!Next]_E!vars
  BY DEF ComponentsNext, allVars, event, E!vars
<1>3. EventIInv /\ [E!Next]_E!vars => EventIInv'
  BY EventStepHolds
<1>4. EventIInv => StartsAfresh
  BY DEF EventIInv, StartsAfresh
<1> QED
  BY <1>1, <1>2, <1>3, <1>4, EventInitHolds, PTL DEF ComponentsSpec, allVars
-----------------------------------------------------------------------------
(* The reuse of one buffer by conversions, for strings of any length, a    *)
(* stack buffer of any size and any number of calls.                       *)
EncodeSizes == Lengths \subseteq Nat /\ Growth \in Nat /\ Stack \in Nat

EncodeTypeOK == /\ s_pc \in {"idle", "convert", "converted", "done"}
                /\ s_param \in Nat
                /\ s_from \in [length : Nat, out : Nat, valid : BOOLEAN]
                /\ s_size \in Nat
                /\ s_bytes \in Nat
                /\ s_written \in Nat

(* The room that a string needs at most, by the factor of its encoding *)
EncodeFits == s_from.out <= Growth * s_from.length

EncodeConverted ==
  /\ s_pc = "converted" /\ s_from.valid => s_bytes = s_from.out /\ s_text = s_param
  /\ s_pc = "idle" /\ s_param > 0 /\ s_from.valid => s_given = s_param

EncodeIInv == /\ EncodeTypeOK
              /\ EncodeFits
              /\ s_pc # "done" => s_written <= s_size /\ s_bytes <= s_size
              /\ EncodeConverted

LEMMA EncodeInitHolds == ASSUME EncodeSizes PROVE S!Init => EncodeIInv
<1> SUFFICES ASSUME S!Init PROVE EncodeIInv
  OBVIOUS
<1>1. Growth * 0 = 0
  BY DEF EncodeSizes
<1>2. s_from.length = 0 /\ s_from.out = 0 /\ s_from \in [length : Nat, out : Nat, valid : BOOLEAN]
  BY DEF S!Init
<1> QED
  BY <1>1, <1>2 DEF S!Init, EncodeIInv, EncodeTypeOK, EncodeFits, EncodeConverted

LEMMA EncodeCallHolds ==
  ASSUME EncodeSizes, EncodeIInv, NEW length \in Lengths, NEW out \in 1 .. Growth * length,
         NEW valid \in BOOLEAN, S!Call(length, out, valid)
  PROVE  EncodeIInv'
<1>1. length \in Nat /\ out \in Nat /\ Growth * length \in Nat
  BY DEF EncodeSizes
<1>2. s_from'.length = length /\ s_from'.out = out
      /\ s_from' \in [length : Nat, out : Nat, valid : BOOLEAN]
  BY <1>1 DEF S!Call
<1> QED
  BY <1>1, <1>2 DEF EncodeIInv, EncodeTypeOK, EncodeFits, EncodeConverted, S!Call, S!Goto

(* With enough room a string without bad characters is converted whole.    *)
LEMMA EnoughConverts ==
  ASSUME EncodeSizes, EncodeTypeOK, EncodeFits, NEW room \in Nat, S!Enough(room)
  PROVE  /\ S!Converts(room) <=> s_from.valid
         /\ s_from.out <= room
<1>1. Growth * s_from.length \in Nat
  BY DEF EncodeSizes, EncodeTypeOK
<1> QED
  BY <1>1 DEF EncodeTypeOK, EncodeFits, S!Enough, S!Converts

LEMMA EncodeIntoHolds ==
  ASSUME EncodeSizes, EncodeIInv, NEW room \in Nat, S!Enough(room), S!Into(room),
         room <= s_size', s_size' \in Nat, S!Goto("convert", "converted"),
         UNCHANGED <<s_param, s_from, s_given>>
  PROVE  EncodeIInv'
<1>1. s_from.valid => s_bytes' = s_from.out /\ s_text' = s_param /\ s_written' = s_from.out
  BY EnoughConverts DEF EncodeIInv, S!Into, S!OutBytes
<1>2. ~s_from.valid => s_bytes' = 0 /\ s_written' \in 0 .. room
  BY EnoughConverts DEF EncodeIInv, EncodeTypeOK, S!Into, S!OutBytes
<1>3. s_from.out <= room /\ s_from.valid \in BOOLEAN
  BY EnoughConverts DEF EncodeIInv, EncodeTypeOK
<1> QED
  BY <1>1, <1>2, <1>3 DEF EncodeIInv, EncodeTypeOK, EncodeFits, EncodeConverted, S!Goto

LEMMA EncodeOnStackHolds == ASSUME EncodeSizes, EncodeIInv, S!OnStack PROVE EncodeIInv'
<1>1. (S!Converts(Stack) <=> s_from.valid) /\ s_from.out <= Stack
  BY EnoughConverts DEF EncodeSizes, EncodeIInv, S!OnStack
<1>2. CASE s_from.valid
  BY <1>1, <1>2 DEF S!OnStack, S!OutBytes, S!Goto,
                     EncodeIInv, EncodeTypeOK, EncodeFits, EncodeConverted
<1>3. CASE ~s_from.valid
  BY <1>1, <1>3 DEF S!OnStack, S!OutBytes, S!Goto,
                     EncodeIInv, EncodeTypeOK, EncodeFits, EncodeConverted
<1> QED
  BY <1>2, <1>3

LEMMA EncodeStepHolds == ASSUME EncodeSizes, EncodeIInv, [S!Next]_S!vars PROVE EncodeIInv'
<1>1. ASSUME NEW length \in Lengths, NEW out \in 1 .. Growth * length,
             NEW valid \in BOOLEAN, S!Call(length, out, valid)
      PROVE  EncodeIInv'
  BY <1>1, EncodeCallHolds
<1>2. CASE S!Direct
  BY <1>2, EncodeIntoHolds DEF S!Direct, EncodeIInv, EncodeTypeOK, S!Goto
<1>3. CASE S!OnStack
  BY <1>3, EncodeOnStackHolds
<1>4. CASE S!Large
  <2>1. Growth * s_from.length \in Nat
    BY DEF EncodeSizes, EncodeIInv, EncodeTypeOK
  <2>2. S!Enough(s_size')
    BY <1>4, <2>1 DEF S!Large, S!Enough
  <2> QED
    BY <1>4, <2>1, <2>2, EncodeIntoHolds DEF S!Large, S!Goto
<1>5. CASE S!Give
  BY <1>5 DEF S!Give, S!Goto, EncodeIInv, EncodeTypeOK, EncodeFits, EncodeConverted
<1>6. CASE S!Finish
  BY <1>6 DEF S!Finish, S!Goto, EncodeIInv, EncodeTypeOK, EncodeFits, EncodeConverted
<1>7. CASE UNCHANGED S!vars
  BY <1>7 DEF S!vars, EncodeIInv, EncodeTypeOK, EncodeFits, EncodeConverted
<1> QED
  BY <1>1, <1>2, <1>3, <1>4, <1>5, <1>6, <1>7 DEF S!Next

(* Through any sequence of calls, failed ones among them, nothing is       *)
(* written past the buffer, what is reported lies in it, and every string  *)
(* without bad characters is converted whole and given to the query.       *)
THEOREM RoomForEveryStringAlways ==
  ASSUME EncodeSizes PROVE ComponentsSpec => []RoomForEveryString
<1>1. ComponentsInit => S!Init
  BY DEF ComponentsInit
<1>2. [ComponentsNext]_allVars => [S!Next]_S!vars
  BY DEF ComponentsNext, allVars, encode, S!vars
<1>3. EncodeSizes /\ EncodeIInv /\ [S!Next]_S!vars => EncodeIInv'
  BY EncodeStepHolds
<1>4. EncodeIInv => RoomForEveryString
  BY DEF EncodeIInv, EncodeConverted, RoomForEveryString, S!RoomForEveryString
<1> QED
  BY <1>1, <1>2, <1>3, <1>4, EncodeInitHolds, PTL DEF ComponentsSpec, allVars

-----------------------------------------------------------------------------
(* The factor program's run, which FactorRunProofs proves about.  That     *)
(* module and the composition each have an instance of FactorRun, of the   *)
(* same variables: a step of one is a step of the other.                   *)
LEMMA SameProgram == F!Next <=> FP!Next
  BY DEF F!Next, F!Clear, F!Spawn, F!Advance, F!Join, F!Store, F!Thread, F!Short, F!Begin,
         F!Solve, F!NextStock, F!Finish, F!Stock, F!Task, F!Blank, F!StockBegin,
         F!StockEnd, F!Windows, F!program, F!threadVars,
         FP!Next, FP!Clear, FP!Spawn, FP!Advance, FP!Join, FP!Store, FP!Thread, FP!Short,
         FP!Begin, FP!Solve, FP!NextStock, FP!Finish, FP!Stock, FP!Task, FP!Blank,
         FP!StockBegin, FP!StockEnd, FP!Windows, FP!program, FP!threadVars

LEMMA ProgramAmongOthers == ComponentsSpec => FP!Spec
<1>1. ComponentsInit => FP!Init
  BY DEF ComponentsInit, F!Init, FP!Init, F!Stock, FP!Stock, F!Task, FP!Task
<1>2. [ComponentsNext]_allVars => [FP!Next]_FP!vars
  BY SameProgram DEF ComponentsNext, allVars, run, FP!vars, FP!threadVars
<1> QED
  BY <1>1, <1>2, PTL DEF ComponentsSpec, allVars, FP!Spec

(* The results stored are whole, for all stocks, bars, threads and windows *)
(* (FactorRunProofs).                                                      *)
THEOREM ResultsWholeAmongOthers ==
  ASSUME FP!Inputs PROVE ComponentsSpec => []ResultsWhole
<1>1. FP!Spec => []FP!ResultsWhole
  BY FP!ResultsWholeAlways, PTL
<1>2. FP!ResultsWhole <=> ResultsWhole
  BY DEF ResultsWhole, F!ResultsWhole, FP!ResultsWhole, F!Stock, FP!Stock, F!Windows, FP!Windows
<1> QED
  BY <1>1, <1>2, ProgramAmongOthers, PTL
-----------------------------------------------------------------------------
(* Remainders, for the numbers of lines *)
LEMMA RemRange == ASSUME NEW a \in Nat, NEW b \in Nat, b > 0 PROVE a % b \in 0 .. b - 1
  BY SMT

LEMMA RemDiv ==
  ASSUME NEW a \in Nat, NEW b \in Nat, b > 0
  PROVE  a \div b \in Int /\ a = (a \div b) * b + (a % b)
  BY SMT

(* A number has one remainder *)
LEMMA RemUnique ==
  ASSUME NEW b \in Nat, b > 0, NEW k \in Int, NEW l \in Int, NEW r \in 0 .. b - 1, NEW s \in 0 .. b - 1,
         k * b + r = l * b + s
  PROVE  r = s
<1>1. CASE k = l
  BY <1>1
<1>2. CASE k > l
  <2>1. k - l >= 1
    BY <1>2
  <2>2. (k - l) * b = s - r
    BY SMT
  <2>3. (k - l) * b >= b
    BY <2>1, SMT
  <2> QED
    BY <2>2, <2>3
<1>3. CASE l > k
  <2>1. l - k >= 1
    BY <1>3
  <2>2. (l - k) * b = r - s
    BY SMT
  <2>3. (l - k) * b >= b
    BY <2>1, SMT
  <2> QED
    BY <2>2, <2>3
<1> QED
  BY <1>1, <1>2, <1>3

(* The remainder of the next number is the next one, or 0 *)
LEMMA RemSucc ==
  ASSUME NEW a \in Nat, NEW d, d = a + 1, NEW b \in Nat, b > 0
  PROVE  d % b = IF a % b = b - 1 THEN 0 ELSE (a % b) + 1
<1> DEFINE k == a \div b
           l == d \div b
           r == a % b
           s == d % b
<1>1. k \in Int /\ r \in 0 .. b - 1 /\ a = k * b + r
  BY RemDiv, RemRange
<1>2. l \in Int /\ s \in 0 .. b - 1 /\ a + 1 = l * b + s
  BY RemDiv, RemRange
<1> HIDE DEF k, l, r, s
<1>3. CASE r = b - 1
  <2>1. (k + 1) * b + 0 = l * b + s
    BY <1>1, <1>2, <1>3
  <2>2. 0 \in 0 .. b - 1 /\ k + 1 \in Int
    BY <1>1
  <2>3. s = 0
    BY <1>2, <2>1, <2>2, RemUnique
  <2> QED
    BY <1>3, <2>3 DEF r, s
<1>4. CASE r # b - 1
  <2>1. k * b + (r + 1) = l * b + s
    BY <1>1, <1>2
  <2>2. r + 1 \in 0 .. b - 1
    BY <1>1, <1>4
  <2>3. s = r + 1
    BY <1>1, <1>2, <2>1, <2>2, RemUnique
  <2> QED
    BY <1>4, <2>3 DEF r, s
<1> QED
  BY <1>3, <1>4

LEMMA RemOne == ASSUME NEW b \in Nat, b > 1 PROVE 1 % b = 1 /\ 0 % b = 0
  BY SMT
-----------------------------------------------------------------------------
(* The console, for any number of lines between two full stamps and any    *)
(* word that count wraps at, unless its length is 1 modulo that number (in *)
(* the code they are 100 and 2^32): then count would come to 1 one line    *)
(* late, and a short stamp would be that number of lines from its date.    *)
ConsoleForm == /\ Every \in Nat /\ Every > 1
               /\ CountWord \in Nat /\ CountWord > 0 /\ CountWord % Every # 1
               /\ First \in Writers

Calling(w) == c_pc[w] # "idle"
Stamped(w) == c_pc[w] \in {"who", "naming", "named", "print"}

CallSteps == {"count", "time", "stamp", "who", "naming", "named", "print"}

ConsoleTypeOK ==
  /\ c_con \in [count : 0 .. CountWord - 1, begin : Nat, tid : Writers,
                name : Writers \cup {C!Torn}]
  /\ c_clock \in Nat
  /\ DOMAIN c_my = Writers
  /\ \A w \in Writers :
       c_my[w] = [count |-> c_my[w].count, now |-> c_my[w].now,
                  full |-> c_my[w].full, passed |-> c_my[w].passed]
  /\ \A w \in Writers : c_my[w].now \in Nat /\ c_my[w].passed \in Int
                         /\ c_my[w].count \in 0 .. CountWord - 1
  /\ c_pc \in [Writers -> CallSteps \cup {"idle"}]
  /\ c_dated \in Nat \cup {C!Undated}
  /\ c_gap \in Nat
  /\ DOMAIN c_alone = Writers

(* Whose call no other has overlapped is alone; and while the record can   *)
(* be trusted, every call under way is such a call.                        *)
Lone == \A v, w \in Writers : c_alone[v] /\ Calling(v) /\ w # v => ~Calling(w)

Quiet == c_named \/ c_dated # C!Undated => \A w \in Writers : Calling(w) => c_alone[w]

(* The record is of the thread that is alone with it: its name, its count, *)
(* and the stamp it has computed.                                          *)
OwnRecord == \A w \in Writers : c_alone[w] =>
  /\ c_pc[w] \in {"naming", "named", "print"} => c_con.tid = w
  /\ c_pc[w] = "count" => c_my[w].count = c_con.count
  /\ Stamped(w) =>
       IF c_my[w].full
         THEN c_con.count % Every = 1 /\ c_con.begin = c_my[w].now
         ELSE c_con.count % Every # 1 /\ c_my[w].now = c_con.begin + c_my[w].passed

(* Between calls, the name is of the thread noted beside it, and stamps    *)
(* count from the last full one.                                           *)
NameOfTid ==
  c_named /\ (\A w \in Writers : c_pc[w] \notin {"naming", "named"}) => c_con.name = c_con.tid

BaseOfStamps ==
  c_dated # C!Undated /\ (\A w \in Writers : Stamped(w) => ~c_my[w].full) => c_con.begin = c_dated

(* The lines since the last full stamp are what count says, and fewer than *)
(* Every: at rest the first formula, from counting a line until it is      *)
(* written the second.  Count is 0 at the start and where it wraps.        *)
BetweenLines(c, g) == IF c = 0 THEN g < Every ELSE g = (c - 1) % Every
DuringLine(c, g) == c % Every # 1 => g + 1 < Every /\ (c # 0 => g + 1 = (c - 1) % Every)

LinesSinceDate ==
  c_dated # C!Undated =>
    IF \A w \in Writers : c_pc[w] \in {"idle", "count"}
      THEN BetweenLines(c_con.count, c_gap) ELSE DuringLine(c_con.count, c_gap)

ConsoleIInv == /\ ConsoleTypeOK
               /\ Lone /\ Quiet /\ OwnRecord /\ NameOfTid /\ BaseOfStamps /\ LinesSinceDate

(* Writing a line with a full stamp, or a short one *)
LEMMA RestWhenFull ==
  ASSUME ConsoleForm, NEW c \in Nat, c % Every = 1 PROVE BetweenLines(c, 0)
<1>1. c # 0
  BY RemOne DEF ConsoleForm
<1>2. (c - 1) \in Nat /\ c = (c - 1) + 1 /\ Every > 0 /\ Every \in Nat
  BY <1>1 DEF ConsoleForm
<1>3. c % Every = IF (c - 1) % Every = Every - 1 THEN 0 ELSE ((c - 1) % Every) + 1
  BY <1>2, RemSucc, Zenon
<1>4. (c - 1) % Every \in 0 .. Every - 1
  BY <1>2, RemRange DEF ConsoleForm
<1> QED
  BY <1>1, <1>3, <1>4 DEF BetweenLines, ConsoleForm

LEMMA RestWhenShort ==
  ASSUME ConsoleForm, NEW c \in Nat, NEW g \in Nat, DuringLine(c, g), c % Every # 1
  PROVE  BetweenLines(c, g + 1)
  BY DEF DuringLine, BetweenLines

(* Counting a line, also when count wraps around *)
LEMMA BeforeWhenCounted ==
  ASSUME ConsoleForm, NEW c \in 0 .. CountWord - 1, NEW g \in Nat, BetweenLines(c, g)
  PROVE  DuringLine((c + 1) % CountWord, g)
<1> DEFINE m == (c - 1) % Every
<1>1. CASE c = 0
  <2>1. CountWord > 1
    <3>1. CountWord # 1
      BY RemOne DEF ConsoleForm
    <3> QED
      BY <3>1 DEF ConsoleForm
  <2>2. (c + 1) % CountWord = 1
    BY <1>1, <2>1, RemOne DEF ConsoleForm
  <2>3. 1 % Every = 1
    BY RemOne DEF ConsoleForm
  <2> QED
    BY <2>2, <2>3 DEF DuringLine
<1>2. CASE c # 0
  <2>1. c - 1 \in Nat /\ c \in Nat /\ c = (c - 1) + 1 /\ Every > 0 /\ Every \in Nat
    BY <1>2 DEF ConsoleForm
  <2>2. m \in 0 .. Every - 1
    BY <2>1, RemRange DEF ConsoleForm
  <2>3. c % Every = IF m = Every - 1 THEN 0 ELSE m + 1
    BY <2>1, RemSucc, Zenon
  <2>4. (c + 1) % Every = IF c % Every = Every - 1 THEN 0 ELSE (c % Every) + 1
    BY <2>1, RemSucc, Zenon
  <2>5. g = m
    BY <1>2 DEF BetweenLines
  <2> HIDE DEF m
  <2>6. CASE c = CountWord - 1
    <3>1. c + 1 = CountWord /\ CountWord % CountWord = 0
      <4>1. c + 1 = CountWord
        BY <2>6 DEF ConsoleForm
      <4>2. CountWord % CountWord = 0
        <5>1. c % CountWord = c
          BY SMT DEF ConsoleForm
        <5>2. CountWord \in Nat /\ CountWord > 0
          BY DEF ConsoleForm
        <5>3. (c + 1) % CountWord = IF c % CountWord = CountWord - 1
                                       THEN 0 ELSE (c % CountWord) + 1
          BY <2>1, <5>2, RemSucc, Zenon
        <5> QED
          BY <4>1, <5>1, <5>3, <2>6
      <4> QED
        BY <4>1, <4>2
    <3>2. (c + 1) % Every # 1
      BY <3>1 DEF ConsoleForm
    <3>3. g + 1 < Every
      BY <2>2, <2>3, <2>4, <2>5, <3>2 DEF ConsoleForm
    <3> QED
      BY <3>1, <3>3 DEF DuringLine
  <2>7. CASE c # CountWord - 1
    <3>1. (c + 1) % CountWord = c + 1
      <4>1. c + 1 \in 0 .. CountWord - 1
        BY <2>7 DEF ConsoleForm
      <4> QED
        BY <4>1, SMT DEF ConsoleForm
    <3>2. ASSUME (c + 1) % Every # 1 PROVE g + 1 < Every /\ g + 1 = ((c + 1) - 1) % Every
      <4>1. m # Every - 1
        BY <3>2, <2>3, <2>4 DEF ConsoleForm
      <4>2. (c + 1) - 1 = c
        BY <2>1
      <4> QED
        BY <2>2, <2>3, <2>5, <4>1, <4>2 DEF ConsoleForm
    <3> QED
      BY <3>1, <3>2 DEF DuringLine
  <2> QED
    BY <2>6, <2>7
<1> QED
  BY <1>1, <1>2

LEMMA ConsoleInitHolds == ASSUME ConsoleForm PROVE C!Init => ConsoleIInv
<1> SUFFICES ASSUME C!Init PROVE ConsoleIInv
  OBVIOUS
<1>1. \A w \in Writers : c_pc[w] = "idle"
  BY DEF C!Init
<1>2. ConsoleTypeOK
  <2>1. 0 \in 0 .. CountWord - 1
    BY DEF ConsoleForm
  <2>2. DOMAIN c_alone = Writers /\ DOMAIN c_my = Writers
    BY DEF C!Init
  <2>3. \A w \in Writers : c_my[w] = [count |-> 0, now |-> 0, full |-> FALSE, passed |-> 0]
    BY DEF C!Init
  <2>4. c_con = [count |-> 0, begin |-> 0, tid |-> First, name |-> First]
    BY DEF C!Init
  <2>5. \A w \in Writers :
          c_my[w] = [count |-> c_my[w].count, now |-> c_my[w].now,
                     full |-> c_my[w].full, passed |-> c_my[w].passed]
    BY <2>3
  <2>6. \A w \in Writers : c_my[w].now \in Nat /\ c_my[w].passed \in Int
                           /\ c_my[w].count \in 0 .. CountWord - 1
    BY <2>1, <2>3
  <2>7. c_pc \in [Writers -> CallSteps \cup {"idle"}]
    BY DEF C!Init
  <2> QED
    BY <2>1, <2>2, <2>4, <2>5, <2>6, <2>7 DEF C!Init, ConsoleTypeOK, ConsoleForm
<1>3. Lone /\ Quiet /\ OwnRecord
  BY <1>1 DEF Lone, Quiet, OwnRecord, Calling, Stamped
<1>4. NameOfTid /\ BaseOfStamps /\ LinesSinceDate
  BY <1>1 DEF C!Init, ConsoleForm, NameOfTid, BaseOfStamps, LinesSinceDate, BetweenLines
<1> QED
  BY <1>2, <1>3, <1>4 DEF ConsoleIInv

LEMMA ConsoleLoadHolds ==
  ASSUME ConsoleForm, ConsoleIInv, NEW p \in Writers, C!Load(p) PROVE ConsoleIInv'
<1> DEFINE others == {q \in Writers \ {p} : c_pc[q] # "idle"}
<1>1. c_pc[p] = "idle" /\ c_pc'[p] = "count" /\ \A w \in Writers : w # p => c_pc'[w] = c_pc[w]
  BY DEF C!Load, C!Goto, ConsoleIInv, ConsoleTypeOK
<1>2. c_con' = c_con /\ c_gap' = c_gap /\ c_clock' = c_clock
  BY DEF C!Load
<1>3. c_alone'[p] <=> others = {}
  BY Zenon DEF C!Load
<1>4. \A w \in Writers : w # p => (c_alone'[w] <=> c_pc[w] = "idle" /\ c_alone[w])
  BY Zenon DEF C!Load
<1>5. c_named' <=> c_named /\ others = {}
  BY Zenon DEF C!Load
<1>6. c_dated' = IF others = {} THEN c_dated ELSE C!Undated
  BY DEF C!Load
<1>7. c_my' = [c_my EXCEPT ![p].count = c_con.count]
  BY DEF C!Load
<1>8. /\ c_my'[p].count = c_con.count /\ c_my'[p].now = c_my[p].now
      /\ c_my'[p].full = c_my[p].full /\ c_my'[p].passed = c_my[p].passed
      /\ c_my'[p] = [count |-> c_my'[p].count, now |-> c_my'[p].now,
                     full |-> c_my'[p].full, passed |-> c_my'[p].passed]
  BY <1>7 DEF ConsoleIInv, ConsoleTypeOK
<1>9. \A w \in Writers : w # p => c_my'[w] = c_my[w]
  BY <1>7 DEF ConsoleIInv, ConsoleTypeOK
<1>10. DOMAIN c_my' = Writers /\ DOMAIN c_alone' = Writers
  BY <1>7 DEF C!Load, ConsoleIInv, ConsoleTypeOK
<1>11. c_pc' \in [Writers -> CallSteps \cup {"idle"}]
  BY DEF C!Load, C!Goto, ConsoleIInv, ConsoleTypeOK, CallSteps
<1>12. others = {} <=> \A w \in Writers : w # p => c_pc[w] = "idle"
  OBVIOUS
<1> HIDE DEF others
<1>13. ConsoleTypeOK'
  BY <1>2, <1>6, <1>8, <1>9, <1>10, <1>11 DEF ConsoleIInv, ConsoleTypeOK
<1>14. Lone'
  BY <1>1, <1>3, <1>4, <1>12 DEF ConsoleIInv, Lone, Calling
<1>15. Quiet'
  BY <1>1, <1>3, <1>4, <1>5, <1>6, <1>12 DEF ConsoleIInv, Quiet, Calling
<1>16. OwnRecord'
  BY <1>1, <1>2, <1>4, <1>8, <1>9 DEF ConsoleIInv, OwnRecord, Stamped
<1>17. NameOfTid'
  BY <1>1, <1>2, <1>5 DEF ConsoleIInv, NameOfTid
<1>18. BaseOfStamps'
  BY <1>1, <1>2, <1>6, <1>9 DEF ConsoleIInv, BaseOfStamps, Stamped
<1>19. LinesSinceDate'
  BY <1>1, <1>2, <1>6, <1>12 DEF ConsoleIInv, LinesSinceDate
<1> QED
  BY <1>13, <1>14, <1>15, <1>16, <1>17, <1>18, <1>19 DEF ConsoleIInv

LEMMA ConsoleGoto ==
  ASSUME ConsoleTypeOK, NEW p \in Writers, NEW from, NEW to \in CallSteps \cup {"idle"},
         C!Goto(p, from, to)
  PROVE  /\ c_pc[p] = from /\ c_pc'[p] = to
         /\ \A w \in Writers : w # p => c_pc'[w] = c_pc[w]
         /\ c_pc' \in [Writers -> CallSteps \cup {"idle"}]
  BY DEF C!Goto, ConsoleTypeOK

(* A step inside a call changes nothing about which calls overlap *)
LEMMA LoneInside ==
  ASSUME Lone, NEW p \in Writers, Calling(p), UNCHANGED c_alone,
         \A w \in Writers : w # p => c_pc'[w] = c_pc[w]
  PROVE  Lone'
  BY DEF Lone, Calling

LEMMA QuietInside ==
  ASSUME Quiet, NEW p \in Writers, Calling(p), UNCHANGED c_alone,
         c_named' \/ c_dated' # C!Undated => c_named \/ c_dated # C!Undated \/ c_alone[p],
         Lone,
         \A w \in Writers : w # p => c_pc'[w] = c_pc[w]
  PROVE  Quiet'
  BY DEF Quiet, Calling, Lone

(* While a call is under way and calls are quiet, no other is              *)
LEMMA OnlyCaller ==
  ASSUME Lone, Quiet, c_named \/ c_dated # C!Undated, NEW p \in Writers, Calling(p)
  PROVE  c_alone[p] /\ \A w \in Writers : w # p => c_pc[w] = "idle"
  BY DEF Lone, Quiet, Calling

LEMMA ConsoleCountHolds ==
  ASSUME ConsoleForm, ConsoleIInv, NEW p \in Writers, C!Count(p) PROVE ConsoleIInv'
<1> DEFINE after == (c_my[p].count + 1) % CountWord
<1>1. /\ c_pc[p] = "count" /\ c_pc'[p] = "time"
      /\ \A w \in Writers : w # p => c_pc'[w] = c_pc[w]
      /\ c_pc' \in [Writers -> CallSteps \cup {"idle"}]
  BY ConsoleGoto DEF C!Count, ConsoleIInv, CallSteps
<1>2. c_con' = [c_con EXCEPT !.count = after]
  BY DEF C!Count
<1>3. after \in 0 .. CountWord - 1
  <2>1. c_my[p].count + 1 \in Nat /\ CountWord \in Nat /\ CountWord > 0
    BY DEF ConsoleIInv, ConsoleTypeOK, ConsoleForm
  <2> QED
    BY <2>1, RemRange
<1> HIDE DEF after
<1>4. /\ c_con'.count = after /\ c_con'.begin = c_con.begin
      /\ c_con'.tid = c_con.tid /\ c_con'.name = c_con.name
  BY <1>2 DEF ConsoleIInv, ConsoleTypeOK
<1>5. UNCHANGED <<c_clock, c_my, c_dated, c_gap, c_alone, c_named>>
  BY DEF C!Count, C!printed
<1>6. ConsoleTypeOK'
  BY <1>1, <1>2, <1>3, <1>5 DEF ConsoleIInv, ConsoleTypeOK
<1>7. Calling(p)
  BY <1>1 DEF Calling
<1>8. Lone' /\ Quiet'
  BY <1>1, <1>5, <1>7, LoneInside, QuietInside DEF ConsoleIInv
<1>9. OwnRecord'
  <2>1. \A w \in Writers : c_alone[w] /\ w # p => c_pc[w] = "idle"
    BY <1>7 DEF ConsoleIInv, Lone, Calling
  <2> QED
    BY <1>1, <1>4, <1>5, <2>1 DEF OwnRecord, Stamped
<1>10. NameOfTid' /\ BaseOfStamps'
  BY <1>1, <1>4, <1>5 DEF ConsoleIInv, NameOfTid, BaseOfStamps, Stamped
<1>11. LinesSinceDate'
  <2> SUFFICES ASSUME c_dated # C!Undated PROVE DuringLine(after, c_gap)
    BY <1>1, <1>4, <1>5 DEF LinesSinceDate
  <2>1. c_alone[p] /\ \A w \in Writers : w # p => c_pc[w] = "idle"
    BY <1>7, OnlyCaller DEF ConsoleIInv
  <2>2. c_my[p].count = c_con.count
    BY <1>1, <2>1 DEF ConsoleIInv, OwnRecord
  <2>3. \A w \in Writers : c_pc[w] \in {"idle", "count"}
    BY <1>1, <2>1
  <2>4. BetweenLines(c_con.count, c_gap)
    BY <2>3 DEF ConsoleIInv, LinesSinceDate
  <2>5. c_con.count \in 0 .. CountWord - 1 /\ c_gap \in Nat
    BY DEF ConsoleIInv, ConsoleTypeOK
  <2> QED
    BY <2>2, <2>4, <2>5, BeforeWhenCounted DEF after
<1> QED
  BY <1>6, <1>8, <1>9, <1>10, <1>11 DEF ConsoleIInv

LEMMA ConsoleTimeHolds ==
  ASSUME ConsoleForm, ConsoleIInv, NEW p \in Writers, C!Time(p) PROVE ConsoleIInv'
<1>1. /\ c_pc[p] = "time" /\ c_pc'[p] = "stamp"
      /\ \A w \in Writers : w # p => c_pc'[w] = c_pc[w]
      /\ c_pc' \in [Writers -> CallSteps \cup {"idle"}]
  BY ConsoleGoto DEF C!Time, ConsoleIInv, CallSteps
<1>2. c_my' = [c_my EXCEPT ![p].now = c_clock'] /\ c_clock' = c_clock + 1
  BY DEF C!Time
<1>3. DOMAIN c_my' = Writers /\ \A w \in Writers : w # p => c_my'[w] = c_my[w]
  BY <1>2 DEF ConsoleIInv, ConsoleTypeOK
<1>4. /\ c_my'[p].count = c_my[p].count /\ c_my'[p].now = c_clock'
      /\ c_my'[p].full = c_my[p].full /\ c_my'[p].passed = c_my[p].passed
      /\ c_my'[p] = [count |-> c_my'[p].count, now |-> c_my'[p].now,
                     full |-> c_my'[p].full, passed |-> c_my'[p].passed]
  BY <1>2 DEF ConsoleIInv, ConsoleTypeOK
<1>5. UNCHANGED <<c_con, c_dated, c_gap, c_alone, c_named>>
  BY DEF C!Time, C!printed
<1>6. ConsoleTypeOK'
  BY <1>1, <1>2, <1>3, <1>4, <1>5 DEF ConsoleIInv, ConsoleTypeOK
<1>7. Calling(p)
  BY <1>1 DEF Calling
<1>8. Lone' /\ Quiet'
  BY <1>1, <1>5, <1>7, LoneInside, QuietInside DEF ConsoleIInv
<1>9. OwnRecord'
  BY <1>1, <1>3, <1>4, <1>5 DEF ConsoleIInv, OwnRecord, Stamped
<1>10. NameOfTid' /\ BaseOfStamps'
  BY <1>1, <1>3, <1>5 DEF ConsoleIInv, NameOfTid, BaseOfStamps, Stamped
<1>11. LinesSinceDate'
  BY <1>1, <1>5 DEF ConsoleIInv, LinesSinceDate
<1> QED
  BY <1>6, <1>8, <1>9, <1>10, <1>11 DEF ConsoleIInv

LEMMA ConsoleFullStampHolds ==
  ASSUME ConsoleForm, ConsoleIInv, NEW p \in Writers, C!FullStamp(p) PROVE ConsoleIInv'
<1>1. /\ c_pc[p] = "stamp" /\ c_pc'[p] = "who"
      /\ \A w \in Writers : w # p => c_pc'[w] = c_pc[w]
      /\ c_pc' \in [Writers -> CallSteps \cup {"idle"}]
  BY ConsoleGoto DEF C!FullStamp, ConsoleIInv, CallSteps
<1>2. c_con' = [c_con EXCEPT !.begin = c_my[p].now] /\ c_con.count % Every = 1
  BY DEF C!FullStamp
<1>3. /\ c_con'.count = c_con.count /\ c_con'.begin = c_my[p].now
      /\ c_con'.tid = c_con.tid /\ c_con'.name = c_con.name
  BY <1>2 DEF ConsoleIInv, ConsoleTypeOK
<1> DEFINE yes == TRUE
<1>4. c_my' = [c_my EXCEPT ![p].full = yes]
  BY DEF C!FullStamp
<1> HIDE DEF yes
<1>5. DOMAIN c_my' = Writers /\ \A w \in Writers : w # p => c_my'[w] = c_my[w]
  BY <1>4 DEF ConsoleIInv, ConsoleTypeOK
<1>6. /\ c_my'[p].count = c_my[p].count /\ c_my'[p].now = c_my[p].now
      /\ c_my'[p].full = yes /\ c_my'[p].passed = c_my[p].passed
      /\ c_my'[p] = [count |-> c_my'[p].count, now |-> c_my'[p].now,
                     full |-> c_my'[p].full, passed |-> c_my'[p].passed]
  BY <1>4 DEF ConsoleIInv, ConsoleTypeOK
<1>7. UNCHANGED <<c_clock, c_dated, c_gap, c_alone, c_named>>
  BY DEF C!FullStamp, C!printed
<1>8. ConsoleTypeOK'
  BY <1>1, <1>2, <1>5, <1>6, <1>7 DEF ConsoleIInv, ConsoleTypeOK
<1>9. Calling(p)
  BY <1>1 DEF Calling
<1>10. Lone' /\ Quiet'
  BY <1>1, <1>7, <1>9, LoneInside, QuietInside DEF ConsoleIInv
<1>11. OwnRecord'
  <2>1. \A w \in Writers : c_alone[w] /\ w # p => c_pc[w] = "idle"
    BY <1>9 DEF ConsoleIInv, Lone, Calling
  <2> QED
    BY <1>1, <1>2, <1>3, <1>6, <1>7, <2>1 DEF OwnRecord, Stamped, yes
<1>12. NameOfTid' /\ BaseOfStamps'
  BY <1>1, <1>3, <1>6, <1>7 DEF ConsoleIInv, NameOfTid, BaseOfStamps, Stamped, yes
<1>13. LinesSinceDate'
  BY <1>1, <1>2, <1>3, <1>7 DEF ConsoleIInv, LinesSinceDate, DuringLine
<1> QED
  BY <1>8, <1>10, <1>11, <1>12, <1>13 DEF ConsoleIInv

LEMMA ConsoleShortStampHolds ==
  ASSUME ConsoleForm, ConsoleIInv, NEW p \in Writers, C!ShortStamp(p) PROVE ConsoleIInv'
<1>1. /\ c_pc[p] = "stamp" /\ c_pc'[p] = "who"
      /\ \A w \in Writers : w # p => c_pc'[w] = c_pc[w]
      /\ c_pc' \in [Writers -> CallSteps \cup {"idle"}]
  BY ConsoleGoto DEF C!ShortStamp, ConsoleIInv, CallSteps
<1>2. c_con.count % Every # 1
  BY DEF C!ShortStamp
<1> DEFINE no == FALSE
           gone == c_my[p].now - c_con.begin
<1>3. c_my' = [c_my EXCEPT ![p].full = no, ![p].passed = gone]
  BY DEF C!ShortStamp
<1> HIDE DEF no, gone
<1>4. DOMAIN c_my' = Writers /\ \A w \in Writers : w # p => c_my'[w] = c_my[w]
  BY <1>3 DEF ConsoleIInv, ConsoleTypeOK
<1>5. /\ c_my'[p].count = c_my[p].count /\ c_my'[p].now = c_my[p].now
      /\ c_my'[p].full = no /\ c_my'[p].passed = gone
      /\ c_my'[p] = [count |-> c_my'[p].count, now |-> c_my'[p].now,
                     full |-> c_my'[p].full, passed |-> c_my'[p].passed]
  <2> DEFINE first == [c_my EXCEPT ![p].full = no]
  <2>1. c_my' = [first EXCEPT ![p].passed = gone]
    BY <1>3, Zenon
  <2>2. /\ first[p].count = c_my[p].count /\ first[p].now = c_my[p].now
        /\ first[p].full = no /\ first[p].passed = c_my[p].passed
        /\ first[p] = [count |-> first[p].count, now |-> first[p].now,
                       full |-> first[p].full, passed |-> first[p].passed]
        /\ DOMAIN first = Writers
    BY DEF ConsoleIInv, ConsoleTypeOK
  <2> HIDE DEF first
  <2> QED
    BY <2>1, <2>2
<1>6. UNCHANGED <<c_con, c_clock, c_dated, c_gap, c_alone, c_named>>
  BY DEF C!ShortStamp, C!printed
<1>7. c_my'[p].passed \in Int /\ c_my'[p].now = c_con.begin + c_my'[p].passed
  BY <1>5 DEF ConsoleIInv, ConsoleTypeOK, gone
<1>8. ConsoleTypeOK'
  BY <1>1, <1>4, <1>5, <1>6, <1>7 DEF ConsoleIInv, ConsoleTypeOK
<1>9. Calling(p)
  BY <1>1 DEF Calling
<1>10. Lone' /\ Quiet'
  BY <1>1, <1>6, <1>9, LoneInside, QuietInside DEF ConsoleIInv
<1>11. OwnRecord'
  BY <1>1, <1>2, <1>4, <1>5, <1>6, <1>7 DEF ConsoleIInv, OwnRecord, Stamped, no
<1>12. NameOfTid' /\ BaseOfStamps'
  BY <1>1, <1>4, <1>6 DEF ConsoleIInv, NameOfTid, BaseOfStamps, Stamped
<1>13. LinesSinceDate'
  BY <1>1, <1>6 DEF ConsoleIInv, LinesSinceDate
<1> QED
  BY <1>8, <1>10, <1>11, <1>12, <1>13 DEF ConsoleIInv

LEMMA ConsoleNameHolds ==
  ASSUME ConsoleForm, ConsoleIInv, NEW p \in Writers,
         C!SameThread(p) \/ C!NewThread(p) \/ C!Assign(p) \/ C!Named(p)
  PROVE  ConsoleIInv'
<1>1. /\ c_pc[p] \in {"who", "naming", "named"} /\ c_pc'[p] \in {"naming", "named", "print"}
      /\ \A w \in Writers : w # p => c_pc'[w] = c_pc[w]
      /\ c_pc' \in [Writers -> CallSteps \cup {"idle"}]
  <2>1. CASE C!SameThread(p)
    BY <2>1, ConsoleGoto DEF C!SameThread, ConsoleIInv, CallSteps
  <2>2. CASE C!NewThread(p)
    BY <2>2, ConsoleGoto DEF C!NewThread, ConsoleIInv, CallSteps
  <2>3. CASE C!Assign(p)
    BY <2>3, ConsoleGoto DEF C!Assign, ConsoleIInv, CallSteps
  <2>4. CASE C!Named(p)
    BY <2>4, ConsoleGoto DEF C!Named, ConsoleIInv, CallSteps
  <2> QED
    BY <2>1, <2>2, <2>3, <2>4
<1>2. UNCHANGED <<c_clock, c_my, c_dated, c_gap, c_alone>>
  BY DEF C!SameThread, C!NewThread, C!Assign, C!Named, C!printed
<1>3. c_con' \in [count : 0 .. CountWord - 1, begin : Nat, tid : Writers,
                  name : Writers \cup {C!Torn}]
  BY DEF C!SameThread, C!NewThread, C!Assign, C!Named, ConsoleIInv, ConsoleTypeOK
<1>4. c_con'.count = c_con.count /\ c_con'.begin = c_con.begin
  BY DEF C!SameThread, C!NewThread, C!Assign, C!Named, ConsoleIInv, ConsoleTypeOK
<1>5. \/ c_pc'[p] = "print" /\ c_pc[p] = "who" /\ c_con.tid = p /\ c_con' = c_con
      \/ c_pc'[p] = "naming" /\ c_con'.tid = p
      \/ c_pc'[p] = "named" /\ c_pc[p] = "naming" /\ c_con'.tid = c_con.tid
      \/ c_pc'[p] = "print" /\ c_pc[p] = "named" /\ c_con'.tid = c_con.tid /\ c_con'.name = p
  <2>1. CASE C!SameThread(p)
    BY <2>1, ConsoleGoto DEF C!SameThread, ConsoleIInv, CallSteps
  <2>2. CASE C!NewThread(p)
    BY <2>2, ConsoleGoto DEF C!NewThread, ConsoleIInv, ConsoleTypeOK, CallSteps
  <2>3. CASE C!Assign(p)
    BY <2>3, ConsoleGoto DEF C!Assign, ConsoleIInv, ConsoleTypeOK, CallSteps
  <2>4. CASE C!Named(p)
    BY <2>4, ConsoleGoto DEF C!Named, ConsoleIInv, ConsoleTypeOK, CallSteps
  <2> QED
    BY <2>1, <2>2, <2>3, <2>4
<1>6. c_named' => c_named \/ (c_alone[p] /\ c_pc[p] = "named" /\ c_pc'[p] = "print")
  <2>1. CASE C!Named(p)
    <3>1. c_pc[p] = "named" /\ c_pc'[p] = "print"
      BY <2>1, ConsoleGoto DEF C!Named, ConsoleIInv, CallSteps
    <3>2. c_named' = (c_named \/ c_alone[p])
      BY <2>1 DEF C!Named
    <3> QED
      BY <3>1, <3>2, Zenon
  <2>2. CASE ~C!Named(p)
    BY <2>2, Zenon DEF C!SameThread, C!NewThread, C!Assign
  <2> QED
    BY <2>1, <2>2
<1>7. ConsoleTypeOK'
  BY <1>1, <1>2, <1>3 DEF ConsoleIInv, ConsoleTypeOK
<1>8. Calling(p)
  BY <1>1 DEF Calling
<1>9. Lone' /\ Quiet'
  BY <1>1, <1>2, <1>6, <1>8, LoneInside, QuietInside DEF ConsoleIInv
<1>10. OwnRecord'
  <2>1. \A w \in Writers : c_alone[w] /\ w # p => c_pc[w] = "idle"
    BY <1>8 DEF ConsoleIInv, Lone, Calling
  <2>2. c_alone[p] /\ c_pc[p] \in {"naming", "named", "print"} => c_con.tid = p
    BY DEF ConsoleIInv, OwnRecord
  <2>3. Stamped(p)
    BY <1>1 DEF Stamped
  <2> QED
    BY <1>1, <1>2, <1>4, <1>5, <2>1, <2>2, <2>3 DEF ConsoleIInv, OwnRecord, Stamped
<1>11. NameOfTid'
  <2> SUFFICES ASSUME c_named', \A w \in Writers : c_pc'[w] \notin {"naming", "named"}
               PROVE  c_con'.name = c_con'.tid
    BY DEF NameOfTid
  <2>1. c_pc'[p] = "print"
    BY <1>1
  <2>2. CASE c_pc[p] = "who"
    <3>1. c_con' = c_con /\ c_named
      BY <1>5, <1>6, <2>1, <2>2
    <3>2. \A w \in Writers : c_pc[w] \notin {"naming", "named"}
      BY <1>1, <2>2
    <3> QED
      BY <3>1, <3>2 DEF ConsoleIInv, NameOfTid
  <2>3. CASE c_pc[p] = "named"
    <3>1. c_alone[p]
      BY <1>6, <1>8 DEF ConsoleIInv, Quiet
    <3> QED
      BY <1>5, <2>1, <2>3, <3>1 DEF ConsoleIInv, OwnRecord
  <2> QED
    BY <1>5, <2>1, <2>2, <2>3
<1>12. BaseOfStamps'
  BY <1>1, <1>2, <1>4 DEF ConsoleIInv, BaseOfStamps, Stamped
<1>13. LinesSinceDate'
  BY <1>1, <1>2, <1>4 DEF ConsoleIInv, LinesSinceDate
<1> QED
  BY <1>7, <1>9, <1>10, <1>11, <1>12, <1>13 DEF ConsoleIInv

LEMMA ConsoleWriteHolds ==
  ASSUME ConsoleForm, ConsoleIInv, NEW p \in Writers, C!Write(p) PROVE ConsoleIInv'
<1>1. /\ c_pc[p] = "print" /\ c_pc'[p] = "idle"
      /\ \A w \in Writers : w # p => c_pc'[w] = c_pc[w]
      /\ c_pc' \in [Writers -> CallSteps \cup {"idle"}]
  BY ConsoleGoto DEF C!Write, ConsoleIInv, CallSteps
<1>2. UNCHANGED <<c_con, c_clock, c_my, c_alone, c_named>>
  BY DEF C!Write
<1>3. c_dated' = IF c_my[p].full /\ c_alone[p] THEN c_my[p].now ELSE c_dated
  BY Zenon DEF C!Write
<1>4. c_gap' = IF c_my[p].full THEN 0 ELSE c_gap + 1
  BY Zenon DEF C!Write
<1>5. ConsoleTypeOK'
  BY <1>1, <1>2, <1>3, <1>4 DEF ConsoleIInv, ConsoleTypeOK
<1>6. Calling(p)
  BY <1>1 DEF Calling
<1>7. Lone' /\ Quiet'
  BY <1>1, <1>2, <1>3, <1>6, LoneInside, QuietInside DEF ConsoleIInv
<1>8. OwnRecord' /\ NameOfTid'
  BY <1>1, <1>2 DEF ConsoleIInv, OwnRecord, NameOfTid, Stamped
<1>9. ASSUME c_dated' # C!Undated
      PROVE  c_alone[p] /\ \A w \in Writers : w # p => c_pc[w] = "idle"
  BY <1>3, <1>6, <1>9, OnlyCaller DEF ConsoleIInv, Lone, Calling
<1>10. BaseOfStamps'
  <2> SUFFICES ASSUME c_dated' # C!Undated PROVE c_con.begin = c_dated'
    BY <1>2 DEF BaseOfStamps
  <2>1. CASE c_my[p].full
    BY <1>1, <1>3, <1>9, <2>1 DEF ConsoleIInv, OwnRecord, Stamped
  <2>2. CASE ~c_my[p].full
    <3>1. \A w \in Writers : Stamped(w) => ~c_my[w].full
      BY <1>9, <2>2 DEF Stamped
    <3> QED
      BY <1>3, <2>2, <3>1 DEF ConsoleIInv, BaseOfStamps
  <2> QED
    BY <2>1, <2>2
<1>11. LinesSinceDate'
  <2> SUFFICES ASSUME c_dated' # C!Undated PROVE BetweenLines(c_con.count, c_gap')
    BY <1>1, <1>2, <1>9 DEF LinesSinceDate
  <2>1. c_con.count \in Nat /\ c_gap \in Nat
    BY DEF ConsoleIInv, ConsoleTypeOK
  <2>2. CASE c_my[p].full
    BY <1>1, <1>4, <1>9, <2>1, <2>2, RestWhenFull DEF ConsoleIInv, OwnRecord, Stamped
  <2>3. CASE ~c_my[p].full
    <3>1. c_con.count % Every # 1
      BY <1>1, <1>9, <2>3 DEF ConsoleIInv, OwnRecord, Stamped
    <3>2. DuringLine(c_con.count, c_gap)
      BY <1>1, <1>3, <2>3 DEF ConsoleIInv, LinesSinceDate
    <3> QED
      BY <1>4, <2>1, <2>3, <3>1, <3>2, RestWhenShort
  <2> QED
    BY <2>2, <2>3
<1> QED
  BY <1>5, <1>7, <1>8, <1>10, <1>11 DEF ConsoleIInv

LEMMA ConsoleStepHolds ==
  ASSUME ConsoleForm, ConsoleIInv, [C!Next]_C!vars PROVE ConsoleIInv'
<1>1. CASE C!Next
  <2>1. PICK p \in Writers : \/ C!Load(p) \/ C!Count(p) \/ C!Time(p)
                             \/ C!FullStamp(p) \/ C!ShortStamp(p)
                             \/ C!SameThread(p) \/ C!NewThread(p) \/ C!Assign(p) \/ C!Named(p)
                             \/ C!Write(p)
    BY <1>1 DEF C!Next
  <2> QED
    BY <2>1, ConsoleLoadHolds, ConsoleCountHolds, ConsoleTimeHolds, ConsoleFullStampHolds,
       ConsoleShortStampHolds, ConsoleNameHolds, ConsoleWriteHolds
<1>2. CASE UNCHANGED C!vars
  BY <1>2 DEF C!vars, C!history, ConsoleIInv, ConsoleTypeOK, Lone, Quiet, OwnRecord, NameOfTid,
     BaseOfStamps, LinesSinceDate, Calling, Stamped
<1> QED
  BY <1>1, <1>2

(* However calls overlap, and also when the count of lines wraps around:   *)
(* once the name is assigned by a call alone, and until calls overlap      *)
(* again, lines name their thread; once such a call has printed the date,  *)
(* the stamps after it count from it, and it is less than Every lines back *)
THEOREM LinesReadRightAlways ==
  ASSUME ConsoleForm PROVE ComponentsSpec => []LinesReadRight
<1>1. ComponentsInit => C!Init
  BY DEF ComponentsInit
<1>2. [ComponentsNext]_allVars => [C!Next]_C!vars
  BY DEF ComponentsNext, allVars, console, C!vars, C!history
<1>3. ConsoleIInv /\ [C!Next]_C!vars => ConsoleIInv'
  BY ConsoleStepHolds
<1>4. ConsoleIInv => LinesReadRight
  <2> SUFFICES ASSUME ConsoleIInv, NEW p \in Writers, c_pc[p] = "print"
               PROVE  /\ c_named => c_con.name = p
                      /\ c_dated # C!Undated /\ ~c_my[p].full =>
                           /\ c_gap + 1 < Every
                           /\ c_dated + c_my[p].passed = c_my[p].now
    BY DEF LinesReadRight, C!LinesReadRight
  <2>1. ASSUME c_named \/ c_dated # C!Undated
        PROVE  c_alone[p] /\ \A w \in Writers : w # p => c_pc[w] = "idle"
    BY <2>1, OnlyCaller DEF ConsoleIInv, Calling
  <2>2. ASSUME c_named PROVE c_con.name = p
    BY <2>1, <2>2 DEF ConsoleIInv, OwnRecord, NameOfTid
  <2>3. ASSUME c_dated # C!Undated, ~c_my[p].full
        PROVE  c_gap + 1 < Every /\ c_dated + c_my[p].passed = c_my[p].now
    <3>1. Stamped(p) /\ \A w \in Writers : Stamped(w) => w = p
      BY <2>1, <2>3 DEF Stamped
    <3>2. c_con.begin = c_dated
      BY <2>3, <3>1 DEF ConsoleIInv, BaseOfStamps
    <3>3. c_con.count % Every # 1 /\ c_my[p].now = c_con.begin + c_my[p].passed
      BY <2>1, <2>3, <3>1 DEF ConsoleIInv, OwnRecord
    <3>4. DuringLine(c_con.count, c_gap)
      BY <2>3 DEF ConsoleIInv, LinesSinceDate
    <3> QED
      BY <3>2, <3>3, <3>4 DEF DuringLine
  <2> QED
    BY <2>2, <2>3
<1> QED
  BY <1>1, <1>2, <1>3, <1>4, ConsoleInitHolds, PTL DEF ComponentsSpec, allVars
-----------------------------------------------------------------------------
(* The configuration, for all names and files of the form they have *)

(* The keys obj_get cuts out of a name of one key or two are its keys; of  *)
(* a longer name they are of none.                                         *)
LEMMA PathOfShort ==
  ASSUME NEW Key, NEW n \in Seq(Key), Len(n) > 0, Len(n) <= 2 PROVE K!Path(n) = n
<1>1. \A i \in 1 .. Len(n) : i \in {1, Len(n)}
  OBVIOUS
<1>2. K!Path(n) = [i \in 1 .. Len(n) |-> n[i]]
  BY <1>1 DEF K!Path, K!KeyAt
<1>3. n = [i \in 1 .. Len(n) |-> n[i]]
  OBVIOUS
<1> QED
  BY <1>2, <1>3

LEMMA PathOfLong ==
  ASSUME K!ConfigForm, NEW Key, NEW n \in Seq(Key), Len(n) > 2 PROVE ~K!Found(n)
<1>1. 2 \in DOMAIN K!Path(n) /\ K!Path(n)[2] = K!Remnant
  BY DEF K!Path, K!KeyAt
<1> QED
  BY <1>1 DEF K!Found, K!ConfigForm

LEMMA FrontAndLast ==
  ASSUME NEW Key, NEW n \in Seq(Key), Len(n) > 1
  PROVE  /\ K!Front(n) \in Seq(Key) /\ Len(K!Front(n)) = Len(n) - 1
         /\ K!Within(K!Front(n), n)
         /\ Append(K!Front(n), K!Last(n)) = n
<1>1. K!Front(n) \in Seq(Key) /\ Len(K!Front(n)) = Len(n) - 1
  BY DEF K!Front
<1>2. K!Within(K!Front(n), n)
  BY <1>1 DEF K!Within, K!Front
<1>3. Append(K!Front(n), K!Last(n)) = n
  BY DEF K!Front, K!Last
<1> QED
  BY <1>1, <1>2, <1>3

(* What a name of one key or two is found to hold as a text is its own     *)
LEMMA FoundText ==
  ASSUME K!ConfigForm, NEW n \in Name, Len(n) <= 2
  PROVE  /\ K!Path(n) = n
         /\ ~K!Found(n) => k_file.text[n] = K!Nothing
<1>1. K!Path(n) = n
  BY PathOfShort DEF K!ConfigForm
<1> QED
  BY <1>1 DEF K!Found, K!Exists

(* The attribute: of a name of two or three keys its own, otherwise none   *)
LEMMA AttributeOfName ==
  ASSUME K!ConfigForm, NEW n \in Name
  PROVE  /\ Len(n) \in {2, 3} => K!Attribute(n) = k_file.attr[n]
         /\ Len(n) \notin {2, 3} => K!Attribute(n) = K!Nothing
<1> DEFINE front == K!Front(n)
           long == Len(n)
           got == K!Attribute(n)
           own == k_file.attr[n]
<1>1. n \in Seq(STRING)
  BY DEF K!ConfigForm
<1>2. long \in Nat /\ long > 0
  BY DEF K!ConfigForm
<1>3. long = 1 => got = K!Nothing
  BY DEF K!Attribute
<1>4. ASSUME long > 1
      PROVE  /\ long \in {2, 3} => got = own
             /\ long \notin {2, 3} => got = K!Nothing
  <2>1. front \in Seq(STRING)
    BY <1>1, <1>4, FrontAndLast
  <2>2. /\ Len(front) = long - 1
        /\ K!Within(front, n)
        /\ Append(front, K!Last(n)) = n
    BY <1>1, <1>4, FrontAndLast
  <2>3. front \in Name
    BY <1>4 DEF K!ConfigForm
  <2>4. /\ K!Found(front) => got = k_file.attr[Append(K!Path(front), K!Last(n))]
        /\ ~K!Found(front) => got = K!Nothing
    BY <1>4 DEF K!Attribute
  <2>5. long > 3 => ~K!Found(front)
    <3>1. long > 3 => Len(front) > 2
      BY <1>2, <2>2
    <3> QED
      BY <2>1, <3>1, PathOfLong
  <2>6. long <= 3 => K!Path(front) = front
    <3>1. long <= 3 => Len(front) > 0 /\ Len(front) <= 2
      BY <1>2, <1>4, <2>2
    <3> QED
      BY <2>1, <3>1, PathOfShort
  <2>7. long <= 3 /\ K!Found(front) => got = own
    BY <2>2, <2>4, <2>6, Zenon
  <2>8. long <= 3 /\ ~K!Found(front) => own = K!Nothing
    BY <2>2, <2>3, <2>6 DEF K!Found, K!Exists
  <2> HIDE DEF front, long, got, own
  <2> QED
    BY <1>2, <1>4, <2>4, <2>5, <2>7, <2>8
<1> HIDE DEF long, got, own
<1>5. /\ long \in {2, 3} => got = own
      /\ long \notin {2, 3} => got = K!Nothing
  BY <1>2, <1>3, <1>4
<1> QED
  BY <1>5, Zenon DEF long, got, own

(* What an XML file and a JSON file answer                                 *)
LEMMA XmlAnswer ==
  ASSUME K!ConfigForm, NEW n \in Name, Len(n) = 1 => k_file.attr[n] = K!Nothing
  PROVE  /\ Len(n) <= 2 => K!XmlString(n) \in {K!Inside, K!Written(K!Held(n))}
         /\ K!LookedUp(n, K!Held(n)) => K!XmlString(n) \in {K!Inside, K!Written(K!Held(n))}
         /\ K!XmlString(n) \in {K!Inside, K!Nothing, k_file.text[n], k_file.attr[n]}
<1> DEFINE long == Len(n)
           content == K!Content(n)
           attribute == K!Attribute(n)
           answer == K!XmlString(n)
           text == k_file.text[n]
           attr == k_file.attr[n]
           written == K!Written(K!Held(n))
<1>1. /\ content # K!Nothing => answer = content
      /\ content = K!Nothing => answer = attribute
  BY DEF K!XmlString
<1>2. /\ text # K!Nothing => written = text
      /\ text = K!Nothing => written = attr
  BY DEF K!Written, K!Held
<1>3. K!LookedUp(n, K!Held(n)) <=> long <= 2 \/ (long = 3 /\ text = K!Nothing)
  BY DEF K!LookedUp, K!Held
<1>4. long \in Nat /\ long > 0
  BY DEF K!ConfigForm
<1>5. /\ long \in {2, 3} => attribute = attr
      /\ long \notin {2, 3} => attribute = K!Nothing
  BY AttributeOfName
<1>6. long > 2 => content = K!Nothing
  <2>1. n \in Seq(STRING)
    BY DEF K!ConfigForm
  <2>2. long > 2 => ~K!Found(n)
    BY <2>1, PathOfLong
  <2> QED
    BY <2>2 DEF K!Content
<1>7. long <= 2 => content \in {K!Inside, text}
  <2> SUFFICES ASSUME long <= 2 PROVE content \in {K!Inside, text}
    OBVIOUS
  <2>1. K!Path(n) = n /\ (~K!Found(n) => text = K!Nothing)
    BY FoundText
  <2> QED
    BY <2>1 DEF K!Content
<1>8. long = 1 => attr = K!Nothing
  OBVIOUS
<1> HIDE DEF long, content, attribute, answer, text, attr, written
<1>9. long <= 2 => answer \in {K!Inside, written}
  BY <1>1, <1>2, <1>4, <1>5, <1>7, <1>8 DEF K!Inside, K!Nothing
<1>10. long > 2 => answer = attribute
  BY <1>1, <1>6
<1>11. long = 3 /\ text = K!Nothing => answer = written
  BY <1>2, <1>5, <1>10
<1>12. answer \in {K!Inside, K!Nothing, text, attr}
  BY <1>2, <1>4, <1>5, <1>9, <1>10
<1>13. K!LookedUp(n, K!Held(n)) => answer \in {K!Inside, written}
  BY <1>3, <1>9, <1>11
<1> QED
  BY <1>9, <1>12, <1>13, Zenon DEF long, answer, text, attr, written

LEMMA JsonAnswer ==
  ASSUME K!ConfigForm, NEW n \in Name
  PROVE  /\ Len(n) <= 2 => K!JsonString(n) = k_file.text[n]
         /\ K!JsonString(n) \in {K!Nothing, k_file.text[n]}
<1>1. n \in Seq(STRING) /\ Len(n) \in Nat /\ Len(n) > 0
  BY DEF K!ConfigForm
<1>2. CASE Len(n) <= 2
  BY <1>2, FoundText DEF K!JsonString
<1>3. CASE Len(n) > 2
  <2>1. K!JsonString(n) = K!Nothing
    BY <1>1, <1>3, PathOfLong DEF K!JsonString
  <2>2. ~(Len(n) <= 2)
    BY <1>1, <1>3
  <2> QED
    BY <2>1, <2>2, Zenon
<1>4. Len(n) <= 2 \/ Len(n) > 2
  BY <1>1
<1> QED
  BY <1>2, <1>3, <1>4, Zenon

(* While a program's config object is open, its file is of its kind, and   *)
(* what it last answered is what the file says now, as neither changes.    *)
FileOfKind(of) == \/ of = "xml" /\ k_file \in XmlFiles
                  \/ of = "json" /\ k_file \in JsonFiles

AnswerOfFile ==
  k_asked.by # "nobody" =>
    /\ k_use = "program" /\ FileOfKind(k_kind) /\ k_asked.name \in Name
    /\ k_asked.by = "string" /\ k_file.read => k_answer = K!String(k_asked.name)

(* The api object's setting, as far as the files it has taken say it       *)
SettingOfXml(n) ==
  /\ K!LookedUp(n, k_inXml[n]) /\ K!Written(k_inXml[n]) # K!Nothing
       => k_setting[n] \in {K!Written(k_inXml[n]), K!Inside}
  /\ k_setting[n] \in {K!Nothing, K!Inside, k_inXml[n].text, k_inXml[n].attr}

ConfigIInv ==
  /\ k_use = "program" => FileOfKind(k_kind)
  /\ AnswerOfFile
  /\ k_use = "api xml" => k_file \in XmlFiles
  /\ k_use = "api json" => k_file \in JsonFiles /\ \A n \in Settings : SettingOfXml(n)
  /\ K!XmlBeforeJson

LEMMA ConfigInitHolds == ASSUME K!ConfigForm PROVE K!Init => ConfigIInv
  BY DEF K!Init, ConfigIInv, AnswerOfFile, K!XmlBeforeJson

(* Nobody has asked unless the program has the object *)
LEMMA AskHolds ==
  ASSUME K!ConfigForm, ConfigIInv, NEW name \in Name, NEW reader \in {"string", "int"},
         NEW result, K!Ask(reader, name, result),
         reader = "string" => result = K!String(name)
  PROVE  ConfigIInv'
<1>1. k_use = "program" /\ UNCHANGED <<k_use, k_kind, k_file, k_setting, k_inXml>>
  BY DEF K!Ask
<1>2. k_asked'.by = reader /\ k_asked'.name = name
  BY DEF K!Ask
<1>3. k_file.read => k_answer' = result
  BY DEF K!Ask
<1>4. K!String(name)' = K!String(name)
  BY <1>1 DEF K!String, K!XmlString, K!JsonString, K!Content, K!Attribute, K!Found, K!Exists,
     K!HasTextInside
<1>5. AnswerOfFile'
  BY <1>1, <1>2, <1>3, <1>4 DEF ConfigIInv, AnswerOfFile, FileOfKind
<1> QED
  BY <1>1, <1>5 DEF ConfigIInv, FileOfKind, K!XmlBeforeJson

LEMMA OpenHolds ==
  ASSUME ConfigIInv, NEW k, NEW f, (k = "xml" /\ f \in XmlFiles) \/ (k = "json" /\ f \in JsonFiles),
         K!Open(k, f)
  PROVE  ConfigIInv'
<1>1. /\ k_use = "none" /\ k_use' = "program" /\ k_kind' = k /\ k_file' = f
      /\ UNCHANGED <<k_asked, k_setting, k_inXml>>
  BY DEF K!Open
<1>2. k_asked.by = "nobody"
  BY <1>1 DEF ConfigIInv, AnswerOfFile
<1> QED
  BY <1>1, <1>2 DEF ConfigIInv, AnswerOfFile, FileOfKind, K!XmlBeforeJson

LEMMA ApiOpenXmlHolds ==
  ASSUME ConfigIInv, NEW f \in XmlFiles, K!ApiOpenXml(f) PROVE ConfigIInv'
<1>1. k_use = "none" /\ k_use' = "api xml" /\ k_file' = f /\ UNCHANGED k_asked
  BY DEF K!ApiOpenXml, K!ApiOpen
<1>2. k_asked.by = "nobody"
  BY <1>1 DEF ConfigIInv, AnswerOfFile
<1> QED
  BY <1>1, <1>2 DEF ConfigIInv, AnswerOfFile, K!XmlBeforeJson

LEMMA ApiOpenJsonHolds ==
  ASSUME K!ConfigForm, ConfigIInv, NEW f \in JsonFiles, K!ApiOpenJson(f) PROVE ConfigIInv'
<1>1. /\ k_use = "api xml" /\ k_use' = "api json" /\ k_file' = f /\ UNCHANGED k_asked
      /\ k_file \in XmlFiles
  BY DEF K!ApiOpenJson, K!ApiOpen, ConfigIInv
<1>2. k_asked.by = "nobody"
  BY <1>1 DEF ConfigIInv, AnswerOfFile
<1>3. ASSUME NEW n \in Settings PROVE SettingOfXml(n)'
  <2> DEFINE held == K!Held(n)
             written == K!Written(held)
  <2>1. n \in Name
    BY DEF K!ConfigForm
  <2>2. k_inXml'[n] = held
    BY DEF K!ApiOpenJson
  <2>3. /\ k_file.read => k_setting'[n] = K!XmlString(n)
        /\ ~k_file.read => k_setting'[n] = K!Nothing
    BY DEF K!ApiOpenJson
  <2>4. held.text = k_file.text[n] /\ held.attr = k_file.attr[n]
    BY DEF K!Held
  <2>5. Len(n) = 1 => k_file.attr[n] = K!Nothing
    BY <1>1, <2>1 DEF K!ConfigForm
  <2>6. k_file.read =>
          /\ K!LookedUp(n, held) => k_setting'[n] \in {K!Inside, written}
          /\ k_setting'[n] \in {K!Inside, K!Nothing, held.text, held.attr}
    <3>1. /\ K!LookedUp(n, held) => K!XmlString(n) \in {K!Inside, written}
          /\ K!XmlString(n) \in {K!Inside, K!Nothing, k_file.text[n], k_file.attr[n]}
      BY <2>1, <2>5, XmlAnswer
    <3> QED
      BY <2>3, <2>4, <3>1, Zenon
  <2>7. ~k_file.read => written = K!Nothing
    <3>1. ~k_file.read => k_file.text = K!Blank /\ k_file.attr = K!Blank
      BY <1>1 DEF K!ConfigForm
    <3>2. K!Blank[n] = K!Nothing
      BY <2>1 DEF K!Blank
    <3> QED
      BY <2>4, <3>1, <3>2 DEF K!Written
  <2> HIDE DEF held, written
  <2>8. K!Written(k_inXml'[n]) = written /\ (K!LookedUp(n, k_inXml'[n]) <=> K!LookedUp(n, held))
    BY <2>2, Zenon DEF written
  <2> QED
    BY <2>2, <2>3, <2>6, <2>7, <2>8 DEF SettingOfXml, K!Written, K!LookedUp
<1> QED
  BY <1>1, <1>2, <1>3 DEF ConfigIInv, AnswerOfFile, K!XmlBeforeJson

LEMMA ApiDoneHolds ==
  ASSUME K!ConfigForm, ConfigIInv, K!ApiDone PROVE ConfigIInv'
<1>1. /\ k_use = "api json" /\ k_use' = "api"
      /\ UNCHANGED <<k_kind, k_file, k_asked, k_answer, k_inXml>>
      /\ k_file \in JsonFiles /\ \A n \in Settings : SettingOfXml(n)
  BY DEF K!ApiDone, ConfigIInv
<1>2. k_asked.by = "nobody"
  BY <1>1 DEF ConfigIInv, AnswerOfFile
<1>3. ASSUME NEW n \in Settings
      PROVE  /\ K!LookedUp(n, k_inXml[n]) /\ K!Written(k_inXml[n]) # K!Nothing
                  => k_setting'[n] \in {K!Written(k_inXml[n]), K!Inside}
             /\ k_setting'[n] \in {K!Nothing, K!Inside, k_inXml[n].text, k_inXml[n].attr,
                                   k_file.text[n]}
  <2>1. \/ k_setting[n] # K!Nothing /\ k_setting'[n] = k_setting[n]
        \/ k_setting[n] = K!Nothing /\ k_setting'[n] \in {K!Nothing, K!JsonString(n)}
    BY DEF K!ApiDone, K!Take
  <2>2. K!JsonString(n) \in {K!Nothing, k_file.text[n]}
    BY JsonAnswer DEF K!ConfigForm
  <2>3. SettingOfXml(n)
    BY <1>1
  <2> QED
    BY <2>1, <2>2, <2>3 DEF SettingOfXml, K!Inside, K!Nothing
<1>4. K!XmlBeforeJson'
  BY <1>1, <1>3 DEF K!XmlBeforeJson, K!LookedUp, K!Written
<1> QED
  BY <1>1, <1>2, <1>4 DEF ConfigIInv, AnswerOfFile

LEMMA ConfigStepHolds ==
  ASSUME K!ConfigForm, ConfigIInv, [K!Next]_K!vars PROVE ConfigIInv'
<1>1. ASSUME NEW k \in {"json", "xml"}, NEW f \in IF k = "xml" THEN XmlFiles ELSE JsonFiles,
             K!Open(k, f)
      PROVE  ConfigIInv'
  <2>1. (k = "xml" /\ f \in XmlFiles) \/ (k = "json" /\ f \in JsonFiles)
    BY <1>1
  <2> QED
    BY <1>1, <2>1, OpenHolds
<1>2. ASSUME NEW name \in Name, K!GetString(name) PROVE ConfigIInv'
  BY <1>2, AskHolds DEF K!GetString
<1>3. ASSUME NEW name \in Name, K!GetInt(name) PROVE ConfigIInv'
  <2> DEFINE result == IF k_kind = "json" /\ K!String(name) = K!Nothing
                         THEN K!Garbage ELSE K!String(name)
  <2>1. K!Ask("int", name, result)
    BY <1>3 DEF K!GetInt
  <2> HIDE DEF result
  <2> QED
    BY <2>1, AskHolds
<1>4. ASSUME NEW f \in XmlFiles, K!ApiOpenXml(f) PROVE ConfigIInv'
  BY <1>4, ApiOpenXmlHolds
<1>5. ASSUME NEW f \in JsonFiles, K!ApiOpenJson(f) PROVE ConfigIInv'
  BY <1>5, ApiOpenJsonHolds
<1>6. CASE UNCHANGED K!vars
  <2>1. \A name : K!String(name)' = K!String(name)
    BY <1>6 DEF K!vars, K!String, K!XmlString, K!JsonString, K!Content, K!Attribute, K!Found,
       K!Exists, K!HasTextInside
  <2> QED
    BY <1>6, <2>1 DEF K!vars, ConfigIInv, AnswerOfFile, FileOfKind, SettingOfXml, K!XmlBeforeJson
<1> QED
  BY <1>1, <1>2, <1>3, <1>4, <1>5, <1>6, ApiDoneHolds DEF K!Next

LEMMA ConfigInvariant == ASSUME K!ConfigForm PROVE ComponentsSpec => []ConfigIInv
<1>1. ComponentsInit => K!Init
  BY DEF ComponentsInit
<1>2. [ComponentsNext]_allVars => [K!Next]_K!vars
  BY DEF ComponentsNext, allVars, config, K!vars
<1>3. ConfigIInv /\ [K!Next]_K!vars => ConfigIInv'
  BY ConfigStepHolds
<1> QED
  BY <1>1, <1>2, <1>3, ConfigInitHolds, PTL DEF ComponentsSpec, allVars

(* Whatever a file holds, a name of one or two keys is answered with what  *)
(* is under that name, and a longer one never with another name's value.   *)
THEOREM AnswersAreOfTheNameAlways ==
  ASSUME K!ConfigForm PROVE ComponentsSpec => []AnswersAreOfTheName
<1>1. ConfigIInv => AnswersAreOfTheName
  <2> SUFFICES ASSUME ConfigIInv, K!Asked("string"), k_answer # K!Inside
               PROVE  /\ Len(k_asked.name) <= 2 => k_answer = K!Written(K!Held(k_asked.name))
                      /\ k_answer \in {K!Nothing, K!Held(k_asked.name).text,
                                       K!Held(k_asked.name).attr}
    BY DEF AnswersAreOfTheName, K!AnswersAreOfTheName
  <2>1. /\ FileOfKind(k_kind) /\ k_asked.name \in Name
        /\ k_answer = K!String(k_asked.name)
    BY DEF ConfigIInv, AnswerOfFile, K!Asked
  <2>2. PICK n \in Name : n = k_asked.name
    BY <2>1
  <2>3. K!Held(n).text = k_file.text[n] /\ K!Held(n).attr = k_file.attr[n]
    BY DEF K!Held
  <2>4. CASE k_kind = "xml"
    <3>1. Len(n) = 1 => k_file.attr[n] = K!Nothing
      BY <2>1, <2>4 DEF FileOfKind, K!ConfigForm
    <3>2. k_answer = K!XmlString(n)
      BY <2>1, <2>2, <2>4 DEF K!String
    <3>3. /\ Len(n) <= 2 => K!XmlString(n) \in {K!Inside, K!Written(K!Held(n))}
          /\ K!XmlString(n) \in {K!Inside, K!Nothing, k_file.text[n], k_file.attr[n]}
      BY <3>1, XmlAnswer
    <3> QED
      BY <2>2, <2>3, <3>2, <3>3, Zenon
  <2>5. CASE k_kind # "xml"
    <3>1. k_file.attr = K!Blank /\ K!Blank[n] = K!Nothing
      BY <2>1, <2>5 DEF FileOfKind, K!ConfigForm, K!Blank
    <3>2. k_answer = K!JsonString(n)
      BY <2>1, <2>2, <2>5 DEF K!String
    <3>3. /\ Len(n) <= 2 => K!JsonString(n) = k_file.text[n]
          /\ K!JsonString(n) \in {K!Nothing, k_file.text[n]}
      BY JsonAnswer
    <3>4. K!Written(K!Held(n)) = k_file.text[n]
      BY <2>3, <3>1 DEF K!Written
    <3> QED
      BY <2>2, <2>3, <3>2, <3>3, <3>4, Zenon
  <2> QED
    BY <2>4, <2>5
<1> QED
  BY <1>1, ConfigInvariant, PTL

(* Whatever the two files hold, the api object has a setting that the XML  *)
(* file has, where that is looked up, from it, and otherwise no value that *)
(* neither file holds under the name.                                      *)
THEOREM XmlBeforeJsonAlways ==
  ASSUME K!ConfigForm PROVE ComponentsSpec => []XmlBeforeJson
<1>1. ConfigIInv => XmlBeforeJson
  BY DEF ConfigIInv, XmlBeforeJson
<1> QED
  BY <1>1, ConfigInvariant, PTL
-----------------------------------------------------------------------------
(* Loading from files.  What is loaded is defined by going along a         *)
(* sequence; so what is needed first is that such a function exists, and   *)
(* what it gives of a sequence that has become longer.                     *)

(* Every set of numbers has a least element; so what holds of 0 and goes   *)
(* on to the next number holds of all.                                     *)
LEMMA LeastNumber ==
  ASSUME NEW V, V \subseteq Nat, V # {}
  PROVE  \E x \in V : \A y \in V : x <= y
<1> DEFINE Below == OpToRel(<, Nat)
<1>1. PICK x \in V : \A y \in V : <<y, x>> \notin Below
  BY NatLessThanWellFounded, WFMin, Zenon
<1>2. \A y \in Nat : y < x => <<y, x>> \in Below
  BY DEF OpToRel
<1>3. ASSUME NEW y \in V PROVE ~(y < x)
  <2> HIDE DEF Below
  <2> QED
    BY <1>1, <1>2, Zenon
<1> QED
  BY <1>3

LEMMA UpTo ==
  ASSUME NEW N \in Nat, NEW V, 0 \in V, \A i \in 1 .. N : i - 1 \in V => i \in V
  PROVE  0 .. N \subseteq V
<1> DEFINE Missing == {i \in 0 .. N : i \notin V}
<1> SUFFICES ASSUME Missing # {} PROVE FALSE
  OBVIOUS
<1>1. Missing \subseteq Nat
  OBVIOUS
<1>2. PICK x \in Missing : \A y \in Missing : x <= y
  <2> HIDE DEF Missing
  <2> QED
    BY <1>1, LeastNumber
<1>3. x # 0 /\ x \in 1 .. N
  BY <1>2
<1>4. x - 1 \notin Missing
  BY <1>2, <1>3
<1>5. x - 1 \in V
  BY <1>3, <1>4
<1> QED
  BY <1>2, <1>3, <1>5

(* A function can be defined by what it is at 0 and by one step, which is  *)
(* given as a function here.                                               *)
Built(f, N, V, b, step) ==
  f \in [0 .. N -> V] /\ f[0] = b /\ \A i \in 1 .. N : f[i] = step[i][f[i - 1]]

LEMMA StepByStep ==
  ASSUME NEW N \in Nat, NEW V, NEW b \in V, NEW step, step \in [1 .. N -> [V -> V]]
  PROVE  \E f : Built(f, N, V, b, step)
<1> DEFINE Begun(n) == \E f \in [0 .. n -> V] :
                         f[0] = b /\ \A i \in 1 .. n : f[i] = step[i][f[i - 1]]
           Ends == {n \in 0 .. N : Begun(n)}
<1>1. 0 \in Ends
  <2> DEFINE f == [i \in 0 .. 0 |-> b]
  <2>1. f \in [0 .. 0 -> V] /\ f[0] = b /\ \A i \in 1 .. 0 : f[i] = step[i][f[i - 1]]
    OBVIOUS
  <2> HIDE DEF f
  <2>2. Begun(0)
    BY <2>1
  <2> QED
    BY <2>2
<1>2. ASSUME NEW n \in 1 .. N, n - 1 \in Ends PROVE n \in Ends
  <2>1. PICK f \in [0 .. n - 1 -> V] :
          f[0] = b /\ \A i \in 1 .. n - 1 : f[i] = step[i][f[i - 1]]
    BY <1>2
  <2> DEFINE last == step[n][f[n - 1]]
             g == [i \in 0 .. n |-> IF i = n THEN last ELSE f[i]]
  <2>2. f[n - 1] \in V
    BY <2>1
  <2>3. last \in V
    BY <2>2
  <2>4. g \in [0 .. n -> V] /\ g[n] = last /\ \A i \in 0 .. n - 1 : g[i] = f[i]
    <3> HIDE DEF last
    <3> QED
      BY <2>1, <2>3
  <2> HIDE DEF g
  <2>5. g[0] = b
    BY <2>1, <2>4
  <2>6. ASSUME NEW i \in 1 .. n PROVE g[i] = step[i][g[i - 1]]
    <3>1. g[i - 1] = f[i - 1]
      BY <2>4
    <3>2. CASE i = n
      BY <2>4, <3>1, <3>2
    <3>3. CASE i # n
      <4>1. i \in 1 .. n - 1 /\ i \in 0 .. n - 1
        BY <3>3
      <4> QED
        BY <2>1, <2>4, <3>1, <4>1
    <3> QED
      BY <3>2, <3>3
  <2>7. Begun(n)
    BY <2>4, <2>5, <2>6
  <2> QED
    BY <2>7
<1>3. 0 .. N \subseteq Ends
  <2> HIDE DEF Ends
  <2> QED
    BY <1>1, <1>2, UpTo
<1>4. PICK f \in [0 .. N -> V] : f[0] = b /\ \A i \in 1 .. N : f[i] = step[i][f[i - 1]]
  BY <1>3
<1> QED
  BY <1>4 DEF Built

(* What is selected of a sequence is the last of a row of sequences, which *)
(* grow by the elements in the range.                                      *)
Taking(s, from, to, f) ==
  /\ f[0] = <<>>
  /\ \A i \in 1 .. Len(s) : f[i] = IF D!InRange(s[i], from, to) THEN Append(f[i - 1], s[i]) ELSE f[i - 1]

LEMMA TakingFunction ==
  ASSUME NEW from, NEW to, NEW Bar, NEW s \in Seq(Bar)
  PROVE  \E f \in [0 .. Len(s) -> Seq(Bar)] : Taking(s, from, to, f)
<1> DEFINE N == Len(s)
           kept(x, i) == IF D!InRange(s[i], from, to) THEN Append(x, s[i]) ELSE x
           step == [i \in 1 .. N |-> [x \in Seq(Bar) |-> kept(x, i)]]
<1>1. N \in Nat /\ <<>> \in Seq(Bar) /\ \A i \in 1 .. N : s[i] \in Bar
  OBVIOUS
<1>2. ASSUME NEW i \in 1 .. N, NEW x \in Seq(Bar) PROVE kept(x, i) \in Seq(Bar)
  BY <1>1
<1> HIDE DEF N, kept
<1>3. step \in [1 .. N -> [Seq(Bar) -> Seq(Bar)]]
  BY <1>2
<1>4. PICK f : Built(f, N, Seq(Bar), <<>>, step)
  BY <1>1, <1>3, StepByStep, Zenon
<1>5. ASSUME NEW i \in 1 .. N PROVE f[i] = kept(f[i - 1], i)
  <2>1. f[i - 1] \in Seq(Bar)
    <3>1. i - 1 \in 0 .. N
      BY <1>1
    <3> QED
      BY <1>4, <3>1, Zenon DEF Built
  <2> QED
    BY <1>4, <2>1 DEF Built
<1> QED
  BY <1>4, <1>5 DEF N, kept, Taking, Built

LEMMA SelectedIsTaken ==
  ASSUME NEW from, NEW to, NEW Bar, NEW s \in Seq(Bar), NEW f, Taking(s, from, to, f)
  PROVE  D!Selected(s, from, to) = f[Len(s)]
<1> DEFINE N == Len(s)
           next(g, i) == IF i = 0 THEN <<>>
                         ELSE IF D!InRange(s[i], from, to) THEN Append(g[i - 1], s[i]) ELSE g[i - 1]
           taken == CHOOSE g : g = [i \in 0 .. N |-> next(g, i)]
<1>1. D!Selected(s, from, to) = taken[N]
  BY DEF D!Selected
<1>2. N \in Nat
  OBVIOUS
<1>3. taken = [i \in 0 .. N |-> next(taken, i)]
  <2> DEFINE h == [i \in 0 .. N |-> f[i]]
  <2>1. ASSUME NEW i \in 0 .. N PROVE h[i] = next(h, i)
    <3>1. CASE i = 0
      BY <3>1 DEF Taking
    <3>2. CASE i # 0
      <4>1. i \in 1 .. N /\ i - 1 \in 0 .. N
        BY <3>2
      <4>2. f[i] = IF D!InRange(s[i], from, to) THEN Append(f[i - 1], s[i]) ELSE f[i - 1]
        BY <4>1 DEF Taking
      <4> QED
        BY <3>2, <4>1, <4>2
    <3> QED
      BY <3>1, <3>2
  <2>2. h = [i \in 0 .. N |-> next(h, i)]
    <3> HIDE DEF next
    <3> QED
      BY <2>1
  <2> HIDE DEF h, next
  <2> QED
    BY <2>2, Zenon
<1> HIDE DEF taken
<1>4. taken[0] = <<>> /\ \A i \in 1 .. N :
        taken[i] = IF D!InRange(s[i], from, to) THEN Append(taken[i - 1], s[i]) ELSE taken[i - 1]
  <2>1. \A i \in 0 .. N : taken[i] = next(taken, i)
    <3> HIDE DEF next
    <3> QED
      BY <1>3, Zenon
  <2>2. taken[0] = <<>>
    BY <1>2, <2>1
  <2>3. ASSUME NEW i \in 1 .. N
        PROVE  taken[i] = IF D!InRange(s[i], from, to) THEN Append(taken[i - 1], s[i]) ELSE taken[i - 1]
    <3>1. i \in 0 .. N /\ i # 0
      BY <1>2
    <3> QED
      BY <2>1, <3>1, Zenon
  <2> QED
    BY <2>2, <2>3
<1> DEFINE Same == {i \in 0 .. N : taken[i] = f[i]}
<1>5. 0 \in Same
  BY <1>2, <1>4 DEF Taking
<1>6. ASSUME NEW i \in 1 .. N, i - 1 \in Same PROVE i \in Same
  BY <1>4, <1>6 DEF Taking
<1>7. 0 .. N \subseteq Same
  <2> HIDE DEF Same, N
  <2> QED
    BY <1>2, <1>5, <1>6, UpTo
<1> QED
  BY <1>1, <1>2, <1>7

LEMMA SelectedIsSeq ==
  ASSUME NEW from, NEW to, NEW Bar, NEW s \in Seq(Bar) PROVE D!Selected(s, from, to) \in Seq(Bar)
<1>1. PICK f \in [0 .. Len(s) -> Seq(Bar)] : Taking(s, from, to, f)
  BY TakingFunction
<1>2. D!Selected(s, from, to) = f[Len(s)]
  BY <1>1, SelectedIsTaken
<1>3. Len(s) \in 0 .. Len(s)
  OBVIOUS
<1> QED
  BY <1>1, <1>2, <1>3, Zenon

LEMMA SelectedOfNone ==
  ASSUME NEW from, NEW to PROVE D!Selected(<<>>, from, to) = <<>>
<1>1. <<>> \in Seq({}) /\ Len(<<>>) = 0
  OBVIOUS
<1>2. PICK f : Taking(<<>>, from, to, f)
  BY <1>1, TakingFunction, Zenon
<1>3. D!Selected(<<>>, from, to) = f[0]
  BY <1>1, <1>2, SelectedIsTaken, Zenon
<1> QED
  BY <1>2, <1>3 DEF Taking

Joined(x, y, e) == Append(x \o y, e) = x \o Append(y, e)

LEMMA AppendToBoth ==
  ASSUME NEW Bar, NEW x \in Seq(Bar), NEW y \in Seq(Bar), NEW e \in Bar
  PROVE  Joined(x, y, e)
BY DEF Joined

(* Of two files one after the other, or of a file and what follows in it,  *)
(* is selected what is of the one and then what is of the other.           *)
OfBoth(s, t, from, to) ==
  D!Selected(s \o t, from, to) = D!Selected(s, from, to) \o D!Selected(t, from, to)

LEMMA SelectedOfBoth ==
  ASSUME NEW from, NEW to, NEW Bar, NEW s \in Seq(Bar), NEW t \in Seq(Bar)
  PROVE  OfBoth(s, t, from, to)
<1> DEFINE m == Len(s)
           n == Len(t)
           st == s \o t
<1>1. st \in Seq(Bar) /\ Len(st) = m + n /\ m \in Nat /\ n \in Nat
  OBVIOUS
<1>2. /\ \A i \in 1 .. m : st[i] = s[i]
      /\ \A i \in 1 .. n : st[m + i] = t[i]
  OBVIOUS
<1>3. PICK f \in [0 .. m -> Seq(Bar)] : Taking(s, from, to, f)
  BY TakingFunction
<1>4. PICK g \in [0 .. n -> Seq(Bar)] : Taking(t, from, to, g)
  BY TakingFunction
<1>5. PICK h \in [0 .. Len(st) -> Seq(Bar)] : Taking(st, from, to, h)
  <2> HIDE DEF st
  <2> QED
    BY <1>1, TakingFunction
<1>6. D!Selected(s, from, to) = f[m] /\ D!Selected(t, from, to) = g[n]
  BY <1>3, <1>4, SelectedIsTaken
<1>7. D!Selected(st, from, to) = h[m + n]
  <2> HIDE DEF st, m, n
  <2> QED
    BY <1>1, <1>5, SelectedIsTaken
<1> HIDE DEF st
<1> DEFINE Same == {i \in 0 .. m : h[i] = f[i]}
<1>8. 0 .. m \subseteq Same
  <2>1. 0 \in Same
    BY <1>1, <1>3, <1>5 DEF Taking
  <2>2. ASSUME NEW i \in 1 .. m, i - 1 \in Same PROVE i \in Same
    <3>1. i \in 1 .. Len(st) /\ st[i] = s[i] /\ h[i - 1] = f[i - 1]
      BY <1>1, <1>2, <2>2
    <3>2. f[i] = IF D!InRange(s[i], from, to) THEN Append(f[i - 1], s[i]) ELSE f[i - 1]
      BY <1>3 DEF Taking
    <3>3. h[i] = IF D!InRange(st[i], from, to) THEN Append(h[i - 1], st[i]) ELSE h[i - 1]
      BY <1>5, <3>1 DEF Taking
    <3> QED
      BY <1>1, <3>1, <3>2, <3>3
  <2> HIDE DEF Same, m
  <2> QED
    BY <1>1, <2>1, <2>2, UpTo
<1>9. h[m] = f[m] /\ f[m] \in Seq(Bar) /\ \A i \in 0 .. n : g[i] \in Seq(Bar)
  <2>1. m \in 0 .. m
    BY <1>1
  <2>2. m \in Same
    BY <1>8, <2>1, Zenon
  <2> QED
    BY <1>3, <1>4, <2>1, <2>2, Zenon
<1> DEFINE After == {i \in 0 .. n : h[m + i] = f[m] \o g[i]}
<1>10. 0 .. n \subseteq After
  <2>1. 0 \in After
    <3>1. g[0] = <<>> /\ m + 0 = m /\ 0 \in 0 .. n
      BY <1>1, <1>4 DEF Taking
    <3>2. f[m] \o <<>> = f[m]
      BY <1>9, ConcatEmptySeq
    <3>3. h[m + 0] = f[m] \o g[0]
      BY <1>9, <3>1, <3>2, Zenon
    <3> QED
      BY <3>1, <3>3, Zenon
  <2>2. ASSUME NEW i \in 1 .. n, i - 1 \in After PROVE i \in After
    <3>1. /\ m + i \in 1 .. Len(st) /\ st[m + i] = t[i] /\ (m + i) - 1 = m + (i - 1)
          /\ t[i] \in Bar
      BY <1>1, <1>2
    <3>2. g[i] = IF D!InRange(t[i], from, to) THEN Append(g[i - 1], t[i]) ELSE g[i - 1]
      BY <1>4 DEF Taking
    <3>3. h[m + i] = IF D!InRange(t[i], from, to) THEN Append(h[m + (i - 1)], t[i]) ELSE h[m + (i - 1)]
      BY <1>5, <3>1 DEF Taking
    <3>4. h[m + (i - 1)] = f[m] \o g[i - 1]
      BY <2>2
    <3>5. f[m] \in Seq(Bar) /\ g[i - 1] \in Seq(Bar)
      <4>1. i - 1 \in 0 .. n
        BY <1>1
      <4> QED
        BY <1>9, <4>1, Zenon
    <3>6. Append(f[m] \o g[i - 1], t[i]) = f[m] \o Append(g[i - 1], t[i])
      <4>1. Joined(f[m], g[i - 1], t[i])
        BY <3>1, <3>5, AppendToBoth, Zenon
      <4> QED
        BY <4>1, Zenon DEF Joined
    <3>7. h[m + i] = f[m] \o g[i]
      BY <3>2, <3>3, <3>4, <3>6, Zenon
    <3> QED
      BY <1>1, <3>7
  <2> HIDE DEF After, n
  <2> QED
    BY <1>1, <2>1, <2>2, UpTo
<1>11. h[m + n] = f[m] \o g[n]
  <2>1. n \in 0 .. n
    BY <1>1
  <2> QED
    BY <1>10, <2>1, Zenon
<1> QED
  BY <1>6, <1>7, <1>11, Zenon DEF st, OfBoth

-----------------------------------------------------------------------------
(* Dates have a number, whatever their year.                               *)
DayOf(date) == D!DayNumber(date.year, date.month, date.day)

LEMMA DayOfDate == ASSUME NEW date \in D!AnyDate PROVE DayOf(date) \in Int
<1> DEFINE y == date.year + date.month \div 12
           m == date.month % 12
           leaps == {z \in D!FirstYear .. y - 1 : D!Leap(z)}
           start == D!MonthStart[m + 1]
           more == IF D!Leap(y) /\ m > 1 THEN 1 ELSE 0
<1>1. date.year \in Nat /\ date.month \in Nat /\ date.day \in Nat
  BY DEF D!AnyDate
<1>2. y \in Int /\ m \in 0 .. 11
  BY <1>1
<1>3. Cardinality(leaps) \in Nat
  <2>1. D!FirstYear \in Int /\ y - 1 \in Int
    BY <1>2 DEF D!FirstYear
  <2>2. IsFiniteSet(D!FirstYear .. y - 1)
    BY <2>1, FS_Interval
  <2>3. leaps \in SUBSET (D!FirstYear .. y - 1)
    OBVIOUS
  <2> HIDE DEF leaps
  <2>4. IsFiniteSet(leaps)
    BY <2>2, <2>3, FS_Subset
  <2> QED
    BY <2>4, FS_CardinalityType
<1>4. start \in Int
  <2>1. m + 1 \in 1 .. 12
    BY <1>2
  <2> HIDE DEF m
  <2> QED
    BY <2>1 DEF D!MonthStart
<1>5. more \in Int
  OBVIOUS
<1>6. D!Cardinality(leaps) = Cardinality(leaps)
  <2> HIDE DEF leaps
  <2> QED
    BY Zenon DEF D!Cardinality, Cardinality
<1>7. DayOf(date) = 365 * (y - D!FirstYear) + D!Cardinality(leaps) + start + more + date.day - 1
  BY Zenon DEF DayOf, D!DayNumber
<1> HIDE DEF y, m, leaps, start, more
<1> QED
  BY <1>1, <1>2, <1>3, <1>4, <1>5, <1>6, <1>7 DEF D!FirstYear

(* which is that of the date a month later in the calendar                 *)
LEMMA DayIsAMonthLater ==
  ASSUME NEW date \in D!AnyDate PROVE D!CalendarDay(D!MonthLater(date)) = DayOf(date)
<1>1. /\ D!MonthLater(date).year = date.year
      /\ D!MonthLater(date).month = date.month + 1
      /\ D!MonthLater(date).day = date.day
  BY DEF D!MonthLater, D!AnyDate
<1>2. (date.month + 1) - 1 = date.month
  BY DEF D!AnyDate
<1> QED
  BY <1>1, <1>2, Zenon DEF D!CalendarDay, DayOf

(* How a loading goes.  Bars: unless a read has failed inside a record,    *)
(* vec is what is selected of a first part of the file, and rest is what   *)
(* follows.  Ticks: the days looked for follow one another from that of    *)
(* tm_begin on, as many as now says, and the last was in the range.        *)
Entry == D!AnyDate \cup {D!DateOfDay(n) : n \in Int}
Met == [there : Seq(Entry), visited : Seq(Entry), reads : {"whole", "failed", "torn"}]

LoadTypeOK ==
  /\ d_pc \in {"new", "ticks", "ticks done", "bars", "reading", "read", "bars done"}
  /\ d_begin \in Int /\ d_stop \in Int /\ d_now \in Int
  /\ d_vec \in Seq(Entry) /\ d_rest \in Seq(Entry)
  /\ d_result \in Seq(Seq(Entry))
  /\ d_here \in Met /\ d_seen \in Seq(Met) /\ Len(d_seen) = Len(d_result)

NothingYet == d_pc = "new" => /\ d_vec = <<>> /\ d_rest = <<>> /\ d_result = <<>>
                              /\ d_here = D!Nothing /\ d_seen = <<>>

RangeAsked == d_pc # "new" =>
  /\ d_start \in D!AnyDate /\ d_end \in D!AnyDate
  /\ d_stop = d_begin + 24 * (DayOf(d_end) - DayOf(d_start)) + 1
  /\ d_begin \div 24 \in {DayOf(d_start) - 1, DayOf(d_start)}

BarsOf(v, m, from, to) ==
  m.reads # "torn" =>
    \E n \in 0 .. Len(m.there) : /\ v = D!Selected(SubSeq(m.there, 1, n), from, to)
                                 /\ m.reads = "whole" => n = Len(m.there)

BarsUntil(v, m, r, n, from, to) ==
  /\ n \in 0 .. Len(m.there)
  /\ v = D!Selected(SubSeq(m.there, 1, n), from, to)
  /\ r = SubSeq(m.there, n + 1, Len(m.there))

BarsSoFar ==
  /\ d_pc = "bars" => d_vec = <<>> /\ d_here = D!Nothing
  /\ d_pc = "reading" /\ d_here.reads # "torn" =>
       \E n \in Nat : BarsUntil(d_vec, d_here, d_rest, n, d_start, d_end)
  /\ d_pc = "read" => BarsOf(d_vec, d_here, d_start, d_end)
  /\ d_pc \in {"bars", "reading", "read", "bars done"} =>
       \A i \in 1 .. Len(d_result) : BarsOf(d_result[i], d_seen[i], d_start, d_end)

TicksOf(v, m, begin) ==
  /\ v = m.there
  /\ \A j \in 1 .. Len(m.visited) : m.visited[j] = D!DateOfDay(begin \div 24 + j - 1)

DayCount == LET n == DayOf(d_end) - DayOf(d_start) + 1 IN IF n > 0 THEN n ELSE 0

TicksSoFar ==
  /\ d_pc = "ticks" => /\ TicksOf(d_vec, d_here, d_begin)
                       /\ d_now = d_begin + 24 * Len(d_here.visited)
                       /\ Len(d_here.visited) = 0 \/ d_now - 24 < d_stop
  /\ d_pc \in {"ticks", "ticks done"} =>
       \A i \in 1 .. Len(d_result) : /\ TicksOf(d_result[i], d_seen[i], d_begin)
                                     /\ Len(d_seen[i].visited) = DayCount

LoadIInv == LoadTypeOK /\ NothingYet /\ RangeAsked /\ BarsSoFar /\ TicksSoFar

LEMMA NothingIs ==
  /\ D!Nothing \in Met /\ D!Nothing.there = <<>> /\ D!Nothing.visited = <<>>
  /\ D!Nothing.reads = "whole"
<1>1. <<>> \in Seq(Entry)
  BY EmptySeq, Zenon
<1> QED
  BY <1>1 DEF D!Nothing, Met

LEMMA NoBars == ASSUME NEW from, NEW to PROVE BarsOf(<<>>, D!Nothing, from, to)
<1>1. SubSeq(<<>>, 1, 0) = <<>> /\ Len(<<>>) = 0 /\ 0 \in 0 .. 0
  BY SubSeqEmpty
<1>2. D!Selected(SubSeq(<<>>, 1, 0), from, to) = <<>>
  BY <1>1, SelectedOfNone, Zenon
<1> QED
  BY <1>1, <1>2, NothingIs, Zenon DEF BarsOf

LEMMA LoadInitHolds == D!Init => LoadIInv
<1> SUFFICES ASSUME D!Init PROVE LoadIInv
  OBVIOUS
<1>1. /\ <<>> \in Seq(Entry) /\ <<>> \in Seq(Seq(Entry)) /\ <<>> \in Seq(Met)
      /\ Len(<<>>) = 0 /\ 0 \in Int
  BY EmptySeq
<1>2. /\ d_pc = "new" /\ d_begin = 0 /\ d_stop = 0 /\ d_now = 0 /\ d_vec = <<>> /\ d_rest = <<>>
      /\ d_here = D!Nothing /\ d_seen = <<>> /\ d_result = <<>>
  BY Zenon DEF D!Init
<1>3. LoadTypeOK /\ NothingYet
  BY <1>1, <1>2, NothingIs, Zenon DEF LoadTypeOK, NothingYet
<1>4. RangeAsked /\ BarsSoFar /\ TicksSoFar
  BY <1>2 DEF RangeAsked, BarsSoFar, TicksSoFar
<1> QED
  BY <1>3, <1>4 DEF LoadIInv

(* Where a day begins elsewhere, it is the same day in UTC or the one      *)
(* before.                                                                 *)
LEMMA DayInUTC ==
  ASSUME NEW day \in Int, NEW zone \in -12 .. 14
  PROVE  (24 * day - zone) \div 24 \in {day - 1, day}
<1>1. CASE zone > 0
  <2>1. 24 * day - zone = 24 * (day - 1) + (24 - zone) /\ 24 - zone \in 0 .. 23
    BY <1>1
  <2> QED
    BY <2>1
<1>2. CASE zone <= 0
  BY <1>2
<1> QED
  BY <1>1, <1>2

LEMMA LoadOpenHolds ==
  ASSUME D!LoadForm, LoadIInv, NEW from \in Dates, NEW to \in Dates, NEW zone \in Zones,
         NEW for \in {"ticks", "bars"}, D!Open(for, from, to, zone)
  PROVE  LoadIInv'
<1>1. from \in D!AnyDate /\ to \in D!AnyDate /\ zone \in -12 .. 14 /\ zone \in Int
  BY DEF D!LoadForm
<1>2. /\ d_pc = "new" /\ d_pc' = for
      /\ d_start' = from /\ d_end' = to
      /\ d_begin' = D!mktime(from, 0, zone)
      /\ d_stop' = D!mktime(to, 1, zone)
      /\ d_now' = d_begin'
      /\ UNCHANGED <<d_rest, d_vec, d_result, d_here, d_seen>>
  BY Zenon DEF D!Open, D!EndOf
<1>3. DayOf(from) \in Int /\ DayOf(to) \in Int
  BY <1>1, DayOfDate
<1>4. /\ D!mktime(from, 0, zone) = 24 * DayOf(from) - zone
      /\ D!mktime(to, 1, zone) = 24 * DayOf(to) + 1 - zone
  <2>1. /\ D!mktime(from, 0, zone) = 24 * DayOf(from) + 0 - zone
        /\ D!mktime(to, 1, zone) = 24 * DayOf(to) + 1 - zone
    BY Zenon DEF D!mktime, DayOf
  <2> QED
    BY <1>1, <1>3, <2>1
<1>5. /\ d_begin' \in Int /\ d_stop' \in Int /\ d_now' \in Int
      /\ d_stop' = d_begin' + 24 * (DayOf(to) - DayOf(from)) + 1
  <2> HIDE DEF DayOf
  <2> QED
    BY <1>1, <1>2, <1>3, <1>4
<1>6. d_begin' \div 24 \in {DayOf(from) - 1, DayOf(from)}
  <2>1. (24 * DayOf(from) - zone) \div 24 \in {DayOf(from) - 1, DayOf(from)}
    BY <1>1, <1>3, DayInUTC, Zenon
  <2> QED
    BY <1>2, <1>4, <2>1, Zenon
<1>7. /\ d_vec = <<>> /\ d_rest = <<>> /\ d_result = <<>> /\ d_here = D!Nothing /\ d_seen = <<>>
  BY <1>2 DEF LoadIInv, NothingYet
<1>8. LoadTypeOK'
  BY <1>2, <1>5, Zenon DEF LoadIInv, LoadTypeOK
<1>9. NothingYet' /\ RangeAsked'
  <2>1. DayOf(d_start)' = DayOf(from) /\ DayOf(d_end)' = DayOf(to)
    BY <1>2, Zenon DEF DayOf
  <2> HIDE DEF DayOf
  <2> QED
    BY <1>1, <1>2, <1>5, <1>6, <2>1 DEF NothingYet, RangeAsked
<1>10. Len(d_result') = 0
  BY <1>2, <1>7
<1>11. BarsSoFar'
  BY <1>2, <1>7, <1>10 DEF BarsSoFar
<1>12. TicksSoFar'
  <2>1. d_here'.there = <<>> /\ d_here'.visited = <<>> /\ Len(<<>>) = 0
    BY <1>2, <1>7, NothingIs
  <2>2. TicksOf(d_vec', d_here', d_begin')
    BY <1>2, <1>7, <2>1 DEF TicksOf
  <2>3. d_now' = d_begin' + 24 * Len(d_here'.visited) /\ Len(d_here'.visited) = 0
    BY <1>2, <1>5, <2>1
  <2> QED
    BY <1>10, <2>2, <2>3 DEF TicksSoFar
<1> QED
  BY <1>8, <1>9, <1>11, <1>12 DEF LoadIInv

-----------------------------------------------------------------------------
(* The next instrument                                                     *)
LEMMA NextIsDone ==
  ASSUME LoadTypeOK, d_result' = Append(d_result, d_vec), d_seen' = Append(d_seen, d_here),
         d_vec' = <<>>, d_here' = D!Nothing
  PROVE  /\ d_vec' \in Seq(Entry) /\ d_here' \in Met
         /\ d_result' \in Seq(Seq(Entry)) /\ d_seen' \in Seq(Met)
         /\ Len(d_seen') = Len(d_result')
         /\ \A i \in 1 .. Len(d_result') :
              \/ i \in 1 .. Len(d_result) /\ d_result'[i] = d_result[i] /\ d_seen'[i] = d_seen[i]
              \/ d_result'[i] = d_vec /\ d_seen'[i] = d_here
<1>1. PICK r \in Seq(Seq(Entry)) : r = d_result
  BY Zenon DEF LoadTypeOK
<1>2. PICK v \in Seq(Entry) : v = d_vec
  BY Zenon DEF LoadTypeOK
<1>3. PICK q \in Seq(Met) : q = d_seen
  BY Zenon DEF LoadTypeOK
<1>4. PICK m \in Met : m = d_here
  BY Zenon DEF LoadTypeOK
<1> DEFINE n == Len(r)
<1>5. n \in Nat /\ Len(q) = n
  <2>1. Len(r) \in Nat
    BY LenProperties, Zenon
  <2> QED
    BY <1>1, <1>3, <2>1, Zenon DEF LoadTypeOK
<1>6. /\ Append(r, v) \in Seq(Seq(Entry)) /\ Len(Append(r, v)) = n + 1
      /\ \A i \in 1 .. n : Append(r, v)[i] = r[i]
      /\ Append(r, v)[n + 1] = v
  BY AppendProperties
<1>7. /\ Append(q, m) \in Seq(Met) /\ Len(Append(q, m)) = n + 1
      /\ \A i \in 1 .. n : Append(q, m)[i] = q[i]
      /\ Append(q, m)[n + 1] = m
  BY <1>5, AppendProperties
<1>8. \A i \in 1 .. n + 1 : i \in 1 .. n \/ i = n + 1
  BY <1>5
<1>9. d_result' = Append(r, v) /\ d_seen' = Append(q, m) /\ <<>> \in Seq(Entry)
  BY <1>1, <1>2, <1>3, <1>4, EmptySeq, Zenon
<1> HIDE DEF n
<1>10. \A i \in 1 .. Len(d_result') : i \in 1 .. n \/ i = n + 1
  BY <1>6, <1>8, <1>9, Zenon
<1>11. \A i \in 1 .. n : d_result'[i] = r[i] /\ d_seen'[i] = q[i]
  BY <1>6, <1>7, <1>9, Zenon
<1>12. d_result'[n + 1] = v /\ d_seen'[n + 1] = m
  BY <1>6, <1>7, <1>9, Zenon
<1>13. \A i \in 1 .. Len(d_result') :
         \/ i \in 1 .. Len(d_result) /\ d_result'[i] = d_result[i] /\ d_seen'[i] = d_seen[i]
         \/ d_result'[i] = d_vec /\ d_seen'[i] = d_here
  BY <1>1, <1>2, <1>3, <1>4, <1>10, <1>11, <1>12, Zenon DEF n
<1> QED
  BY <1>6, <1>7, <1>9, <1>13, NothingIs, Zenon

(* The next instrument, with no file or with one that has been read        *)
LEMMA BarsNextHolds ==
  ASSUME LoadIInv, d_pc \in {"bars", "read"}, D!NextInstrument("bars", "bars done"),
         UNCHANGED <<d_now, d_rest>>
  PROVE  LoadIInv'
<1>1. /\ d_result' = Append(d_result, d_vec) /\ d_vec' = <<>>
      /\ d_seen' = Append(d_seen, d_here) /\ d_here' = D!Nothing
      /\ d_pc' \in {"bars", "bars done"}
      /\ UNCHANGED <<d_start, d_end, d_begin, d_stop>>
  BY DEF D!NextInstrument, D!range
<1>2. LoadTypeOK
  BY DEF LoadIInv
<1>3. /\ d_vec' \in Seq(Entry) /\ d_here' \in Met
      /\ d_result' \in Seq(Seq(Entry)) /\ d_seen' \in Seq(Met)
      /\ Len(d_seen') = Len(d_result')
      /\ \A i \in 1 .. Len(d_result') :
           \/ i \in 1 .. Len(d_result) /\ d_result'[i] = d_result[i] /\ d_seen'[i] = d_seen[i]
           \/ d_result'[i] = d_vec /\ d_seen'[i] = d_here
  BY <1>1, <1>2, NextIsDone, Zenon
<1>4. /\ d_pc' \in {"new", "ticks", "ticks done", "bars", "reading", "read", "bars done"}
      /\ d_pc' \notin {"new", "ticks", "ticks done", "reading", "read"}
      /\ d_pc \in {"bars", "reading", "read", "bars done"} /\ d_pc # "new"
  BY <1>1
<1>5. LoadTypeOK'
  BY <1>1, <1>2, <1>3, <1>4, Zenon DEF LoadTypeOK
<1>6. NothingYet' /\ RangeAsked'
  BY <1>1, <1>4 DEF LoadIInv, NothingYet, RangeAsked
<1>7. BarsOf(d_vec, d_here, d_start, d_end)
  <2>1. CASE d_pc = "bars"
    BY <2>1, NoBars, Zenon DEF LoadIInv, BarsSoFar
  <2>2. CASE d_pc = "read"
    BY <2>2, Zenon DEF LoadIInv, BarsSoFar
  <2> QED
    BY <2>1, <2>2
<1>8. \A i \in 1 .. Len(d_result) : BarsOf(d_result[i], d_seen[i], d_start, d_end)
  BY <1>4, Zenon DEF LoadIInv, BarsSoFar
<1>9. \A i \in 1 .. Len(d_result') : BarsOf(d_result'[i], d_seen'[i], d_start', d_end')
  BY <1>1, <1>3, <1>7, <1>8, Zenon
<1>10. BarsSoFar'
  BY <1>1, <1>4, <1>9 DEF BarsSoFar
<1>11. TicksSoFar'
  BY <1>4 DEF TicksSoFar
<1> QED
  BY <1>5, <1>6, <1>10, <1>11 DEF LoadIInv

(* A step with the file of one instrument                                  *)
LEMMA BarsStepHolds ==
  ASSUME LoadIInv, LoadTypeOK', d_pc \in {"bars", "reading"}, d_pc' \in {"reading", "read"},
         UNCHANGED <<d_start, d_end, d_begin, d_stop, d_result, d_seen>>,
         d_pc' = "reading" /\ d_here'.reads # "torn" =>
           \E n \in Nat : BarsUntil(d_vec', d_here', d_rest', n, d_start, d_end),
         d_pc' = "read" => BarsOf(d_vec', d_here', d_start, d_end)
  PROVE  LoadIInv'
<1>1. NothingYet' /\ RangeAsked'
  BY DEF LoadIInv, NothingYet, RangeAsked
<1>2. \A i \in 1 .. Len(d_result') : BarsOf(d_result'[i], d_seen'[i], d_start', d_end')
  BY DEF LoadIInv, BarsSoFar
<1>3. BarsSoFar'
  BY <1>2 DEF BarsSoFar
<1>4. TicksSoFar'
  BY DEF TicksSoFar
<1> QED
  BY <1>1, <1>3, <1>4 DEF LoadIInv

LEMMA BarsOpenHolds ==
  ASSUME D!LoadForm, LoadIInv, NEW file \in BarFiles, D!BarsOpen(file) PROVE LoadIInv'
<1>1. /\ d_pc = "bars" /\ d_pc' = "reading" /\ d_rest' = file
      /\ d_here' = [d_here EXCEPT !.there = file]
      /\ UNCHANGED <<d_start, d_end, d_begin, d_stop, d_now, d_vec, d_result, d_seen>>
  BY Zenon DEF D!BarsOpen, D!range
<1>2. LoadTypeOK /\ d_vec = <<>> /\ d_here = D!Nothing
  BY <1>1 DEF LoadIInv, BarsSoFar
<1>3. file \in Seq(Entry)
  <2>1. file \in Seq(D!AnyDate) /\ D!AnyDate \subseteq Entry
    BY Zenon DEF D!LoadForm, Entry
  <2> QED
    BY <2>1, SeqMonotonic, Zenon
<1>4. d_here' \in Met /\ d_here'.there = file
  <2>1. d_here \in Met
    BY <1>2, NothingIs
  <2> QED
    BY <1>1, <1>3, <2>1 DEF Met
<1>5. LoadTypeOK'
  <2>1. d_pc' \in {"new", "ticks", "ticks done", "bars", "reading", "read", "bars done"}
    BY <1>1
  <2> QED
    BY <1>1, <1>2, <1>3, <1>4, <2>1, Zenon DEF LoadTypeOK
<1>6. BarsUntil(<<>>, d_here', file, 0, d_start, d_end)
  <2>1. Len(file) \in Nat /\ SubSeq(file, 1, Len(file)) = file
    BY <1>3, LenProperties, SubSeqFull, Zenon
  <2>2. SubSeq(file, 1, 0) = <<>>
    BY SubSeqEmpty
  <2>3. 0 \in 0 .. Len(file) /\ 0 + 1 = 1
    BY <2>1
  <2>4. D!Selected(<<>>, d_start, d_end) = <<>>
    BY SelectedOfNone, Zenon
  <2> QED
    BY <1>4, <2>1, <2>2, <2>3, <2>4, Zenon DEF BarsUntil
<1>7. \E n \in Nat : BarsUntil(d_vec', d_here', d_rest', n, d_start, d_end)
  <2>1. 0 \in Nat
    OBVIOUS
  <2> QED
    BY <1>1, <1>2, <1>6, <2>1, Zenon
<1>8. d_pc \in {"bars", "reading"} /\ d_pc' \in {"reading", "read"} /\ d_pc' # "read"
  BY <1>1
<1> QED
  BY <1>1, <1>5, <1>7, <1>8, BarsStepHolds, Zenon

(* Two sequences that agree from i to j, the second shifted by n           *)
LEMMA SamePart ==
  ASSUME NEW r, NEW s, NEW n \in Nat, NEW i \in Int, NEW j \in Int,
         \A h \in i .. j : r[h] \in Entry /\ r[h] = s[n + h]
  PROVE  SubSeq(r, i, j) = SubSeq(s, n + i, n + j)
<1> DEFINE l == IF i <= j THEN j - i + 1 ELSE 0
<1>1. n + i \in Int /\ n + j \in Int /\ l \in Nat
  OBVIOUS
<1>2. \A h \in n + i .. n + j : h - n \in i .. j /\ n + (h - n) = h
  OBVIOUS
<1>3. (\A h \in i .. j : r[h] \in Entry) /\ \A h \in n + i .. n + j : s[h] \in Entry
  BY <1>2, Zenon
<1> DEFINE x == SubSeq(r, i, j)
           y == SubSeq(s, n + i, n + j)
<1>4. /\ x \in Seq(Entry) /\ Len(x) = l
      /\ \A h \in 1 .. j - i + 1 : x[h] = r[i + h - 1]
  BY <1>3, SubSeqProperties
<1>5. /\ y \in Seq(Entry)
      /\ Len(y) = (IF n + i <= n + j THEN (n + j) - (n + i) + 1 ELSE 0)
      /\ \A h \in 1 .. (n + j) - (n + i) + 1 : y[h] = s[(n + i) + h - 1]
  BY <1>1, <1>3, SubSeqProperties
<1> HIDE DEF x, y
<1>6. Len(y) = l
  BY <1>5
<1>7. ASSUME NEW h \in 1 .. l PROVE x[h] = y[h]
  <2>1. /\ h \in 1 .. j - i + 1 /\ h \in 1 .. (n + j) - (n + i) + 1
        /\ i + h - 1 \in i .. j /\ n + (i + h - 1) = (n + i) + h - 1
    OBVIOUS
  <2> QED
    BY <1>4, <1>5, <2>1, Zenon
<1> HIDE DEF l
<1>8. x = y
  BY <1>4, <1>5, <1>6, <1>7, SeqEqual, Zenon
<1> QED
  BY <1>8, Zenon DEF x, y

(* Reading k records more of a file of which n have been read              *)
RestAfter(r, s, n) == r = SubSeq(s, n + 1, Len(s))

TakenOf(s, n, r, k, from, to) ==
  /\ n + k \in 0 .. Len(s)
  /\ k = Len(r) => n + k = Len(s)
  /\ SubSeq(r, k + 1, Len(r)) = SubSeq(s, (n + k) + 1, Len(s))
  /\ D!Selected(SubSeq(s, 1, n + k), from, to)
       = D!Selected(SubSeq(s, 1, n), from, to) \o D!Selected(SubSeq(r, 1, k), from, to)

LEMMA MoreIsTaken ==
  ASSUME NEW s \in Seq(Entry), NEW n \in 0 .. Len(s), NEW r, RestAfter(r, s, n),
         NEW k \in 0 .. Len(r), NEW from, NEW to
  PROVE  TakenOf(s, n, r, k, from, to)
<1> DEFINE N == Len(s)
<1>1. N \in Nat /\ n \in Nat /\ n <= N /\ \A i \in 1 .. N : s[i] \in Entry
  BY LenProperties, ElementOfSeq
<1> HIDE DEF N
<1>2. /\ r \in Seq(Entry) /\ Len(r) = N - n
      /\ \A i \in 1 .. N - n : r[i] = s[n + i]
  <2>1. n + 1 \in Int /\ N \in Int /\ \A i \in n + 1 .. N : s[i] \in Entry
    BY <1>1
  <2>2. /\ SubSeq(s, n + 1, N) \in Seq(Entry)
        /\ Len(SubSeq(s, n + 1, N)) = IF n + 1 <= N THEN N - (n + 1) + 1 ELSE 0
        /\ \A i \in 1 .. N - (n + 1) + 1 : SubSeq(s, n + 1, N)[i] = s[(n + 1) + i - 1]
    BY <2>1, SubSeqProperties
  <2>3. r = SubSeq(s, n + 1, N)
    BY Zenon DEF N, RestAfter
  <2>4. (IF n + 1 <= N THEN N - (n + 1) + 1 ELSE 0) = N - n /\ N - (n + 1) + 1 = N - n
    BY <1>1
  <2>5. \A i \in 1 .. N - n : (n + 1) + i - 1 = n + i
    BY <1>1
  <2>6. r \in Seq(Entry) /\ Len(r) = N - n
    BY <2>2, <2>3, <2>4, Zenon
  <2>7. \A i \in 1 .. N - n : r[i] = s[n + i]
    BY <2>2, <2>3, <2>4, <2>5, Zenon
  <2> QED
    BY <2>6, <2>7
<1>3. k \in Nat /\ k <= N - n /\ n + k \in 0 .. N /\ (k = Len(r) => n + k = N)
  BY <1>1, <1>2
<1>4. ASSUME NEW i \in Int, NEW j \in Int, 1 <= i, j <= N - n
      PROVE  SubSeq(r, i, j) = SubSeq(s, n + i, n + j)
  <2>1. \A h \in i .. j : r[h] \in Entry /\ r[h] = s[n + h]
    BY <1>1, <1>2, <1>4
  <2>2. n \in Nat
    BY <1>1
  <2> QED
    BY <2>1, <2>2, SamePart
<1>5. SubSeq(r, k + 1, Len(r)) = SubSeq(s, (n + k) + 1, N)
  <2>1. k + 1 \in Int /\ N - n \in Int /\ 1 <= k + 1 /\ N - n <= N - n
    BY <1>1, <1>3
  <2>2. SubSeq(r, k + 1, N - n) = SubSeq(s, n + (k + 1), n + (N - n))
    BY <1>4, <2>1, Zenon
  <2>3. n + (k + 1) = (n + k) + 1 /\ n + (N - n) = N
    BY <1>1, <1>3
  <2> QED
    BY <1>2, <2>2, <2>3, Zenon
<1>6. SubSeq(r, 1, k) = SubSeq(s, n + 1, n + k)
  BY <1>1, <1>3, <1>4
<1>7. /\ SubSeq(s, 1, n) \in Seq(Entry) /\ SubSeq(s, n + 1, n + k) \in Seq(Entry)
      /\ SubSeq(s, 1, n) \o SubSeq(s, n + 1, n + k) = SubSeq(s, 1, n + k)
  <2>1. /\ 1 \in 1 .. N + 1 /\ n \in 1 - 1 .. N /\ n + k \in n .. N
        /\ 1 \in Int /\ n \in Int /\ n + 1 \in Int /\ n + k \in Int
    BY <1>1, <1>3
  <2>2. SubSeq(s, 1, n) \o SubSeq(s, n + 1, n + k) = SubSeq(s, 1, n + k)
    BY <2>1, ConcatAdjacentSubSeq, Zenon DEF N
  <2>3. (\A i \in 1 .. n : s[i] \in Entry) /\ \A i \in n + 1 .. n + k : s[i] \in Entry
    BY <1>1, <1>3
  <2> QED
    BY <2>1, <2>2, <2>3, SubSeqProperties, Zenon
<1>8. OfBoth(SubSeq(s, 1, n), SubSeq(s, n + 1, n + k), from, to)
  BY <1>7, SelectedOfBoth, Zenon
<1> QED
  BY <1>3, <1>5, <1>6, <1>7, <1>8, Zenon DEF OfBoth, TakenOf, N

(* What a read of k records does to what has been read                     *)
LEMMA TakeHolds ==
  ASSUME LoadTypeOK, NEW k \in 0 .. Len(d_rest), D!Take(k), d_rest' = D!Unread(k)
  PROVE  /\ d_vec' \in Seq(Entry) /\ d_rest' \in Seq(Entry)
         /\ \A n \in Nat :
              BarsUntil(d_vec, d_here, d_rest, n, d_start, d_end) =>
                /\ BarsUntil(d_vec', d_here, d_rest', n + k, d_start, d_end)
                /\ k = Len(d_rest) => n + k = Len(d_here.there)
<1>1. PICK r \in Seq(Entry) : r = d_rest
  BY Zenon DEF LoadTypeOK
<1>2. PICK v \in Seq(Entry) : v = d_vec
  BY Zenon DEF LoadTypeOK
<1>3. PICK s \in Seq(Entry) : s = d_here.there
  BY DEF LoadTypeOK, Met
<1>4. /\ d_vec' = v \o D!Selected(SubSeq(r, 1, k), d_start, d_end)
      /\ d_rest' = SubSeq(r, k + 1, Len(r))
  BY <1>1, <1>2, Zenon DEF D!Take, D!Read, D!Unread
<1>5. SubSeq(r, 1, k) \in Seq(Entry) /\ SubSeq(r, k + 1, Len(r)) \in Seq(Entry)
  <2>1. /\ 1 \in Int /\ k \in Int /\ k + 1 \in Int /\ Len(r) \in Int
        /\ (\A i \in 1 .. k : i \in 1 .. Len(r))
        /\ \A i \in k + 1 .. Len(r) : i \in 1 .. Len(r)
    BY <1>1
  <2>2. (\A i \in 1 .. k : r[i] \in Entry) /\ \A i \in k + 1 .. Len(r) : r[i] \in Entry
    BY <2>1, ElementOfSeq, Zenon
  <2> QED
    BY <2>1, <2>2, SubSeqProperties, Zenon
<1>6. d_vec' \in Seq(Entry)
  BY <1>4, <1>5, SelectedIsSeq, ConcatProperties, Zenon
<1>7. ASSUME NEW n \in Nat, BarsUntil(d_vec, d_here, d_rest, n, d_start, d_end)
      PROVE  /\ BarsUntil(d_vec', d_here, d_rest', n + k, d_start, d_end)
             /\ k = Len(d_rest) => n + k = Len(d_here.there)
  <2>1. /\ n \in 0 .. Len(s) /\ v = D!Selected(SubSeq(s, 1, n), d_start, d_end)
        /\ RestAfter(r, s, n) /\ k \in 0 .. Len(r)
    BY <1>1, <1>2, <1>3, <1>7, Zenon DEF BarsUntil, RestAfter
  <2>2. TakenOf(s, n, r, k, d_start, d_end)
    BY <2>1, MoreIsTaken, Zenon
  <2> QED
    BY <1>1, <1>3, <1>4, <2>1, <2>2, Zenon DEF BarsUntil, TakenOf
<1> QED
  BY <1>4, <1>5, <1>6, <1>7, Zenon

LEMMA BarsBlockHolds == ASSUME D!LoadForm, LoadIInv, D!BarsBlock PROVE LoadIInv'
<1> DEFINE k == D!Left
<1>1. /\ d_pc = "reading" /\ d_rest' = D!Unread(k) /\ D!Take(k)
      /\ d_pc' = IF k < FullBlock THEN "read" ELSE "reading"
      /\ UNCHANGED <<d_start, d_end, d_begin, d_stop, d_now, d_result, d_here, d_seen>>
  BY Zenon DEF D!BarsBlock, D!range
<1>2. LoadTypeOK /\ Len(d_rest) \in Nat
  <2>1. LoadTypeOK /\ d_rest \in Seq(Entry)
    BY Zenon DEF LoadIInv, LoadTypeOK
  <2> QED
    BY <2>1, LenProperties, Zenon
<1>3. k \in 0 .. Len(d_rest) /\ (k < FullBlock => k = Len(d_rest)) /\ k \in Nat
  <2>1. FullBlock \in Nat
    BY DEF D!LoadForm
  <2> QED
    BY <1>2, <2>1 DEF D!Left
<1> HIDE DEF k
<1>4. /\ d_vec' \in Seq(Entry) /\ d_rest' \in Seq(Entry)
      /\ \A n \in Nat :
           BarsUntil(d_vec, d_here, d_rest, n, d_start, d_end) =>
             /\ BarsUntil(d_vec', d_here, d_rest', n + k, d_start, d_end)
             /\ k = Len(d_rest) => n + k = Len(d_here.there)
  BY <1>1, <1>2, <1>3, TakeHolds, Zenon
<1>5. d_pc \in {"bars", "reading"} /\ d_pc' \in {"reading", "read"}
      /\ d_pc' \in {"new", "ticks", "ticks done", "bars", "reading", "read", "bars done"}
      /\ (d_pc' = "read" => k < FullBlock)
  BY <1>1
<1>6. LoadTypeOK'
  BY <1>1, <1>2, <1>4, <1>5, Zenon DEF LoadTypeOK
<1>7. ASSUME d_here.reads # "torn"
      PROVE  \E n \in Nat : /\ BarsUntil(d_vec', d_here', d_rest', n, d_start, d_end)
                            /\ d_pc' = "read" => n = Len(d_here.there)
  <2>1. PICK n \in Nat : BarsUntil(d_vec, d_here, d_rest, n, d_start, d_end)
    BY <1>1, <1>7, Zenon DEF LoadIInv, BarsSoFar
  <2>2. n + k \in Nat
    BY <1>3
  <2> QED
    BY <1>1, <1>3, <1>4, <1>5, <2>1, <2>2, Zenon
<1>8. d_pc' = "reading" /\ d_here'.reads # "torn" =>
        \E n \in Nat : BarsUntil(d_vec', d_here', d_rest', n, d_start, d_end)
  BY <1>1, <1>7, Zenon
<1>9. d_pc' = "read" => BarsOf(d_vec', d_here', d_start, d_end)
  BY <1>1, <1>7, Zenon DEF BarsOf, BarsUntil
<1> QED
  BY <1>1, <1>5, <1>6, <1>8, <1>9, BarsStepHolds, Zenon

LEMMA BarsFailHolds ==
  ASSUME LoadIInv, NEW k \in 0 .. Len(d_rest), D!BarsFail(k) PROVE LoadIInv'
<1>1. /\ d_pc = "reading" /\ d_rest' = D!Unread(k) /\ D!Take(k)
      /\ d_here' = [d_here EXCEPT !.reads = IF @ = "torn" THEN @ ELSE "failed"]
      /\ d_pc' \in {"read", "reading"}
      /\ UNCHANGED <<d_start, d_end, d_begin, d_stop, d_now, d_result, d_seen>>
  BY DEF D!BarsFail, D!range
<1>2. LoadTypeOK /\ d_here \in Met
  BY Zenon DEF LoadIInv, LoadTypeOK
<1>3. /\ d_here' \in Met /\ d_here'.there = d_here.there
      /\ d_here'.reads # "torn" => d_here.reads # "torn" /\ d_here'.reads # "whole"
  BY <1>1, <1>2 DEF Met
<1>4. /\ d_vec' \in Seq(Entry) /\ d_rest' \in Seq(Entry)
      /\ \A n \in Nat :
           BarsUntil(d_vec, d_here, d_rest, n, d_start, d_end) =>
             BarsUntil(d_vec', d_here, d_rest', n + k, d_start, d_end)
  BY <1>1, <1>2, TakeHolds, Zenon
<1>5. d_pc \in {"bars", "reading"} /\ d_pc' \in {"reading", "read"}
      /\ d_pc' \in {"new", "ticks", "ticks done", "bars", "reading", "read", "bars done"}
  BY <1>1
<1>6. LoadTypeOK'
  BY <1>1, <1>2, <1>3, <1>4, <1>5, Zenon DEF LoadTypeOK
<1>7. d_here'.reads # "torn" =>
        \E n \in Nat : BarsUntil(d_vec', d_here', d_rest', n, d_start, d_end)
  <2> SUFFICES ASSUME d_here'.reads # "torn"
               PROVE  \E n \in Nat : BarsUntil(d_vec', d_here', d_rest', n, d_start, d_end)
    OBVIOUS
  <2>1. PICK n \in Nat : BarsUntil(d_vec, d_here, d_rest, n, d_start, d_end)
    BY <1>1, <1>3, Zenon DEF LoadIInv, BarsSoFar
  <2>2. n + k \in Nat
    OBVIOUS
  <2>3. BarsUntil(d_vec', d_here', d_rest', n + k, d_start, d_end)
    BY <1>3, <1>4, <2>1, Zenon DEF BarsUntil
  <2> QED
    BY <2>2, <2>3, Zenon
<1>8. BarsOf(d_vec', d_here', d_start, d_end)
  BY <1>3, <1>7, Zenon DEF BarsOf, BarsUntil
<1> QED
  BY <1>1, <1>5, <1>6, <1>7, <1>8, BarsStepHolds, Zenon

LEMMA BarsTearHolds ==
  ASSUME LoadIInv, NEW k \in 0 .. Len(d_rest), D!BarsTear(k) PROVE LoadIInv'
<1>1. /\ d_pc = "reading" /\ D!Take(k) /\ k < Len(d_rest)
      /\ d_rest' \in [1 .. Len(d_rest) - k - 1 -> {d_start, D!NoDate}]
      /\ d_here' = [d_here EXCEPT !.reads = "torn"]
      /\ UNCHANGED <<d_pc, d_start, d_end, d_begin, d_stop, d_now, d_result, d_seen>>
  BY Zenon DEF D!BarsTear, D!range
<1>2. LoadTypeOK /\ d_here \in Met /\ d_start \in D!AnyDate
  BY <1>1, Zenon DEF LoadIInv, LoadTypeOK, RangeAsked
<1>3. d_here' \in Met /\ d_here'.reads = "torn"
  BY <1>1, <1>2 DEF Met
<1>4. d_rest' \in Seq(Entry)
  <2>1. {d_start, D!NoDate} \subseteq Entry
    <3>1. D!NoDate \in D!AnyDate
      BY DEF D!NoDate, D!AnyDate
    <3> QED
      BY <1>2, <3>1, Zenon DEF Entry
  <2>2. Len(d_rest) - k - 1 \in Nat
    <3>1. d_rest \in Seq(Entry)
      BY <1>2, Zenon DEF LoadTypeOK
    <3>2. Len(d_rest) \in Nat
      BY <3>1, LenProperties, Zenon
    <3> QED
      BY <1>1, <3>2
  <2>3. PICK n \in Nat : d_rest' \in [1 .. n -> {d_start, D!NoDate}]
    BY <1>1, <2>2, Zenon
  <2>4. d_rest' \in [1 .. n -> Entry]
    BY <2>1, <2>3
  <2> QED
    BY <2>4
<1>5. d_vec' \in Seq(Entry)
  <2>1. PICK r \in Seq(Entry) : r = d_rest
    BY <1>2, Zenon DEF LoadTypeOK
  <2>2. 1 \in Int /\ k \in Int /\ \A i \in 1 .. k : i \in 1 .. Len(r)
    BY <2>1
  <2>3. SubSeq(r, 1, k) \in Seq(Entry)
    BY <2>2, ElementOfSeq, SubSeqProperties, Zenon
  <2>4. d_vec \in Seq(Entry)
    BY <1>2, Zenon DEF LoadTypeOK
  <2>5. d_vec' = d_vec \o D!Selected(SubSeq(r, 1, k), d_start, d_end)
    BY <1>1, <2>1, Zenon DEF D!Take, D!Read
  <2> QED
    BY <2>3, <2>4, <2>5, SelectedIsSeq, ConcatProperties, Zenon
<1>6. LoadTypeOK'
  BY <1>1, <1>2, <1>3, <1>4, <1>5, Zenon DEF LoadTypeOK
<1>7. d_pc \in {"bars", "reading"} /\ d_pc' \in {"reading", "read"} /\ d_pc' # "read"
  BY <1>1
<1> QED
  BY <1>1, <1>3, <1>6, <1>7, BarsStepHolds, Zenon

-----------------------------------------------------------------------------
LEMMA TickDayHolds == ASSUME LoadIInv, NEW readable \in BOOLEAN, D!TickDay(readable) PROVE LoadIInv'
<1> DEFINE day == D!DateOf(d_now)
           seen == d_here.visited
           found == d_here.there
<1>1. LoadTypeOK /\ d_here \in Met
  BY Zenon DEF LoadIInv, LoadTypeOK
<1>2. /\ d_pc = "ticks" /\ d_now < d_stop /\ d_now' = d_now + 24
      /\ UNCHANGED <<d_pc, d_start, d_end, d_begin, d_stop, d_rest, d_result, d_seen>>
  BY Zenon DEF D!TickDay, D!range
<1>3. \/ /\ d_vec' = Append(d_vec, day)
         /\ d_here' = [d_here EXCEPT !.visited = Append(@, day), !.there = Append(@, day)]
      \/ /\ d_vec' = d_vec
         /\ d_here' = [d_here EXCEPT !.visited = Append(@, day)]
  BY Zenon DEF D!TickDay
<1>4. /\ d_vec = found /\ d_now = d_begin + 24 * Len(seen)
      /\ \A j \in 1 .. Len(seen) : seen[j] = D!DateOfDay(d_begin \div 24 + j - 1)
  BY <1>2, Zenon DEF LoadIInv, TicksSoFar, TicksOf
<1>5. d_now \in Int /\ d_begin \in Int /\ d_stop \in Int
  BY <1>1, Zenon DEF LoadTypeOK
<1>6. day \in Entry
  <2>1. d_now \div 24 \in Int
    BY <1>5
  <2> QED
    BY <2>1, Zenon DEF Entry, D!DateOf
<1>7. seen \in Seq(Entry) /\ found \in Seq(Entry)
  BY <1>1 DEF Met
<1>8. Len(seen) \in Nat
  BY <1>7, LenProperties, Zenon
<1>9. day = D!DateOfDay(d_begin \div 24 + (Len(seen) + 1) - 1)
  <2>1. d_now \div 24 = d_begin \div 24 + (Len(seen) + 1) - 1
    <3>1. PICK n \in Nat : n = Len(seen)
      BY <1>8, Zenon
    <3>2. d_now = d_begin + 24 * n
      BY <1>4, <3>1, Zenon
    <3>3. d_now \div 24 = d_begin \div 24 + (n + 1) - 1
      BY <1>5, <3>2
    <3> QED
      BY <3>1, <3>3, Zenon
  <2> QED
    BY <2>1, Zenon DEF D!DateOf
<1> HIDE DEF day
<1>10. /\ Append(seen, day) \in Seq(Entry) /\ Len(Append(seen, day)) = Len(seen) + 1
       /\ \A j \in 1 .. Len(seen) : Append(seen, day)[j] = seen[j]
       /\ Append(seen, day)[Len(seen) + 1] = day
       /\ Append(found, day) \in Seq(Entry)
  BY <1>6, <1>7, AppendProperties
<1>11. /\ d_here' \in Met /\ d_here'.visited = Append(seen, day)
       /\ d_here'.there = d_vec' /\ d_vec' \in Seq(Entry)
  <2> DEFINE longer == Append(seen, day)
             more == Append(found, day)
  <2>1. longer \in Seq(Entry) /\ more \in Seq(Entry)
    BY <1>10
  <2>2. \/ d_vec' = more /\ d_here' = [d_here EXCEPT !.visited = longer, !.there = more]
        \/ d_vec' = found /\ d_here' = [d_here EXCEPT !.visited = longer]
    BY <1>3, <1>4, Zenon
  <2> HIDE DEF longer, more
  <2>3. CASE d_vec' = more /\ d_here' = [d_here EXCEPT !.visited = longer, !.there = more]
    BY <1>1, <2>1, <2>3 DEF Met, longer
  <2>4. CASE d_vec' = found /\ d_here' = [d_here EXCEPT !.visited = longer]
    BY <1>1, <2>1, <2>4 DEF Met, longer
  <2> QED
    BY <2>2, <2>3, <2>4
<1>12. LoadTypeOK'
  <2>1. d_now' \in Int
    BY <1>2, <1>5
  <2> QED
    BY <1>1, <1>2, <1>11, <2>1, Zenon DEF LoadTypeOK
<1>13. NothingYet' /\ RangeAsked' /\ BarsSoFar'
  BY <1>2 DEF LoadIInv, NothingYet, RangeAsked, BarsSoFar
<1>14. ASSUME NEW j \in 1 .. Len(seen) + 1
       PROVE  Append(seen, day)[j] = D!DateOfDay(d_begin \div 24 + j - 1)
  <2>1. j \in 1 .. Len(seen) \/ j = Len(seen) + 1
    BY <1>8
  <2> QED
    BY <1>4, <1>9, <1>10, <2>1, Zenon
<1>15. TicksOf(d_vec', d_here', d_begin')
  BY <1>2, <1>10, <1>11, <1>14, Zenon DEF TicksOf
<1>16. d_now' = d_begin' + 24 * Len(d_here'.visited) /\ d_now' - 24 < d_stop'
  <2>1. Len(d_here'.visited) = Len(seen) + 1
    BY <1>10, <1>11, Zenon
  <2>2. PICK n \in Nat : n = Len(seen)
    BY <1>8, Zenon
  <2>3. d_now = d_begin + 24 * n /\ Len(d_here'.visited) = n + 1
    BY <1>4, <2>1, <2>2, Zenon
  <2> QED
    BY <1>2, <1>5, <2>3
<1>17. \A i \in 1 .. Len(d_result) : /\ TicksOf(d_result[i], d_seen[i], d_begin)
                                     /\ Len(d_seen[i].visited) = DayCount
  BY <1>2, Zenon DEF LoadIInv, TicksSoFar
<1>18. DayCount' = DayCount
  BY <1>2, Zenon DEF DayCount
<1>19. TicksSoFar'
  BY <1>2, <1>15, <1>16, <1>17, <1>18, Zenon DEF TicksSoFar
<1> QED
  BY <1>12, <1>13, <1>19 DEF LoadIInv

LEMMA TicksEndHolds == ASSUME LoadIInv, D!TicksEnd PROVE LoadIInv'
<1>1. /\ d_pc = "ticks" /\ d_now >= d_stop /\ d_now' = d_begin /\ d_rest' = d_rest
      /\ d_result' = Append(d_result, d_vec) /\ d_vec' = <<>>
      /\ d_seen' = Append(d_seen, d_here) /\ d_here' = D!Nothing
      /\ d_pc' \in {"ticks", "ticks done"}
      /\ UNCHANGED <<d_start, d_end, d_begin, d_stop>>
  BY DEF D!TicksEnd, D!NextInstrument, D!range
<1>2. LoadTypeOK
  BY DEF LoadIInv
<1>3. /\ d_vec' \in Seq(Entry) /\ d_here' \in Met
      /\ d_result' \in Seq(Seq(Entry)) /\ d_seen' \in Seq(Met)
      /\ Len(d_seen') = Len(d_result')
      /\ \A i \in 1 .. Len(d_result') :
           \/ i \in 1 .. Len(d_result) /\ d_result'[i] = d_result[i] /\ d_seen'[i] = d_seen[i]
           \/ d_result'[i] = d_vec /\ d_seen'[i] = d_here
  BY <1>1, <1>2, NextIsDone, Zenon
<1>4. /\ d_pc' \in {"new", "ticks", "ticks done", "bars", "reading", "read", "bars done"}
      /\ d_pc' \notin {"new", "bars", "reading", "read", "bars done"}
      /\ d_pc \in {"ticks", "ticks done"} /\ d_pc # "new"
  BY <1>1
<1>5. d_now \in Int /\ d_begin \in Int /\ d_stop \in Int
  BY <1>2, Zenon DEF LoadTypeOK
<1>6. LoadTypeOK'
  BY <1>1, <1>2, <1>3, <1>4, <1>5, Zenon DEF LoadTypeOK
<1>7. NothingYet' /\ RangeAsked' /\ BarsSoFar'
  BY <1>1, <1>4 DEF LoadIInv, NothingYet, RangeAsked, BarsSoFar
<1>8. /\ TicksOf(d_vec, d_here, d_begin)
      /\ d_now = d_begin + 24 * Len(d_here.visited)
      /\ Len(d_here.visited) = 0 \/ d_now - 24 < d_stop
      /\ \A i \in 1 .. Len(d_result) : /\ TicksOf(d_result[i], d_seen[i], d_begin)
                                       /\ Len(d_seen[i].visited) = DayCount
  BY <1>1, <1>4, Zenon DEF LoadIInv, TicksSoFar
<1>9. Len(d_here.visited) = DayCount
  <2>1. Len(d_here.visited) \in Nat
    <3>1. d_here.visited \in Seq(Entry)
      BY <1>2 DEF LoadTypeOK, Met
    <3> QED
      BY <3>1, LenProperties, Zenon
  <2>2. PICK n \in Nat : n = Len(d_here.visited)
    BY <2>1, Zenon
  <2>3. DayOf(d_start) \in Int /\ DayOf(d_end) \in Int
        /\ d_stop = d_begin + 24 * (DayOf(d_end) - DayOf(d_start)) + 1
    BY <1>4, DayOfDate, Zenon DEF LoadIInv, RangeAsked
  <2>4. PICK a \in Int : a = DayOf(d_start)
    BY <2>3, Zenon
  <2>5. PICK b \in Int : b = DayOf(d_end)
    BY <2>3, Zenon
  <2>6. d_stop = d_begin + 24 * (b - a) + 1 /\ d_now = d_begin + 24 * n
        /\ (n = 0 \/ d_now - 24 < d_stop)
    BY <1>8, <2>2, <2>3, <2>4, <2>5, Zenon
  <2>7. n = IF b - a + 1 > 0 THEN b - a + 1 ELSE 0
    <3>1. PICK x \in Int : x = d_begin
      BY <1>5, Zenon
    <3>2. PICK y \in Int : y = d_stop
      BY <1>5, Zenon
    <3>3. PICK z \in Int : z = d_now
      BY <1>5, Zenon
    <3>4. /\ y = x + 24 * (b - a) + 1 /\ z = x + 24 * n
          /\ (n = 0 \/ z - 24 < y) /\ z >= y
      BY <1>1, <2>6, <3>1, <3>2, <3>3, Zenon
    <3> QED
      BY <3>4
  <2> QED
    BY <2>2, <2>4, <2>5, <2>7, Zenon DEF DayCount
<1>10. DayCount' = DayCount
  BY <1>1, Zenon DEF DayCount
<1>11. \A i \in 1 .. Len(d_result') : /\ TicksOf(d_result'[i], d_seen'[i], d_begin')
                                      /\ Len(d_seen'[i].visited) = DayCount'
  BY <1>1, <1>3, <1>8, <1>9, <1>10, Zenon
<1>12. /\ TicksOf(d_vec', d_here', d_begin') /\ d_now' = d_begin' + 24 * Len(d_here'.visited)
       /\ Len(d_here'.visited) = 0
  <2>1. d_here'.there = <<>> /\ d_here'.visited = <<>> /\ Len(<<>>) = 0
    BY <1>1, NothingIs
  <2>2. (\A j \in 1 .. 0 : FALSE) /\ d_begin + 24 * 0 = d_begin
    BY <1>5
  <2>3. TicksOf(d_vec', d_here', d_begin')
    BY <1>1, <2>1, <2>2, Zenon DEF TicksOf
  <2> QED
    BY <1>1, <2>1, <2>2, <2>3, Zenon
<1>13. TicksSoFar'
  BY <1>11, <1>12, Zenon DEF TicksSoFar
<1> QED
  BY <1>6, <1>7, <1>13 DEF LoadIInv

LEMMA LoadStepHolds == ASSUME D!LoadForm, LoadIInv, [D!Next]_D!vars PROVE LoadIInv'
<1>1. ASSUME NEW from \in Dates, NEW to \in Dates, NEW zone \in Zones,
             D!OpenTicks(from, to, zone) \/ D!OpenBars(from, to, zone)
      PROVE  LoadIInv'
  <2>1. PICK for \in {"ticks", "bars"} : D!Open(for, from, to, zone)
    BY <1>1 DEF D!OpenTicks, D!OpenBars
  <2> QED
    BY <2>1, LoadOpenHolds
<1>2. ASSUME NEW readable \in BOOLEAN, D!TickDay(readable) PROVE LoadIInv'
  BY <1>2, TickDayHolds
<1>3. ASSUME NEW file \in BarFiles, D!BarsOpen(file) PROVE LoadIInv'
  BY <1>3, BarsOpenHolds
<1>4. CASE D!BarsUnreadable
  BY <1>4, BarsNextHolds DEF D!BarsUnreadable
<1>5. CASE D!BarsEnd
  BY <1>5, BarsNextHolds DEF D!BarsEnd
<1>6. ASSUME NEW k \in 0 .. Len(d_rest), D!BarsFail(k) \/ D!BarsTear(k) PROVE LoadIInv'
  BY <1>6, BarsFailHolds, BarsTearHolds
<1>7. CASE UNCHANGED D!vars
  <2>1. UNCHANGED <<d_pc, d_start, d_end, d_begin, d_stop, d_now, d_rest, d_vec, d_result,
                    d_here, d_seen>>
    BY <1>7, Zenon DEF D!vars, D!range
  <2>2. DayCount' = DayCount
    BY <2>1, Zenon DEF DayCount
  <2>3. LoadTypeOK' /\ NothingYet' /\ RangeAsked'
    BY <2>1, Zenon DEF LoadIInv, LoadTypeOK, NothingYet, RangeAsked
  <2>4. BarsSoFar'
    BY <2>1, Zenon DEF LoadIInv, BarsSoFar
  <2>5. TicksSoFar'
    BY <2>1, <2>2, Zenon DEF LoadIInv, TicksSoFar
  <2> QED
    BY <2>3, <2>4, <2>5 DEF LoadIInv
<1> QED
  BY <1>1, <1>2, <1>3, <1>4, <1>5, <1>6, <1>7, TicksEndHolds, BarsBlockHolds DEF D!Next

LEMMA LoadInvariant == ASSUME D!LoadForm PROVE ComponentsSpec => []LoadIInv
<1>1. ComponentsInit => D!Init
  BY DEF ComponentsInit
<1>2. [ComponentsNext]_allVars => [D!Next]_D!vars
  BY DEF ComponentsNext, allVars, load, D!vars, D!range
<1>3. LoadIInv /\ [D!Next]_D!vars => LoadIInv'
  BY LoadStepHolds
<1> QED
  BY <1>1, <1>2, <1>3, LoadInitHolds, PTL DEF ComponentsSpec, allVars

(* Whatever files of bars there are, and however many records are read at  *)
(* once, the bars loaded for an instrument are those of the range, in      *)
(* their order: of the whole file if no read failed, of a first part of it *)
(* if one failed between two records.                                      *)
THEOREM BarsOfTheRangeAlways ==
  ASSUME D!LoadForm PROVE ComponentsSpec => []BarsOfTheRange
<1>1. LoadIInv => BarsOfTheRange
  BY Zenon DEF LoadIInv, BarsSoFar, BarsOf, BarsOfTheRange, D!BarsOfTheRange
<1> QED
  BY <1>1, LoadInvariant, PTL

(* Whatever the range, the time zone and the number of instruments, and    *)
(* whichever days can be read, the days an instrument's ticks are looked   *)
(* for on follow one another and are as many as there are from a month     *)
(* after start_date to a month after end_date; they begin there, or a day  *)
(* before.                                                                 *)
THEOREM TicksOfEachDayAlways ==
  ASSUME D!LoadForm PROVE ComponentsSpec => []TicksOfEachDay
<1>1. LoadIInv => TicksOfEachDay
  <2> DEFINE first == D!CalendarDay(D!MonthLater(d_start))
             days == D!CalendarDay(D!MonthLater(d_end)) - first + 1
  <2> SUFFICES ASSUME LoadIInv, d_pc \in {"ticks", "ticks done"}, NEW i \in 1 .. Len(d_result)
               PROVE  /\ d_result[i] = d_seen[i].there
                      /\ Len(d_seen[i].visited) = IF days > 0 THEN days ELSE 0
                      /\ \E zero \in {first - 1, first} :
                           \A j \in 1 .. Len(d_seen[i].visited) :
                             d_seen[i].visited[j] = D!DateOfDay(zero + j - 1)
    BY Zenon DEF TicksOfEachDay, D!TicksOfEachDay
  <2>1. d_start \in D!AnyDate /\ d_end \in D!AnyDate
        /\ d_begin \div 24 \in {DayOf(d_start) - 1, DayOf(d_start)}
    BY DEF LoadIInv, RangeAsked
  <2>2. first = DayOf(d_start) /\ days = DayOf(d_end) - DayOf(d_start) + 1
    BY <2>1, DayIsAMonthLater, Zenon
  <2>3. TicksOf(d_result[i], d_seen[i], d_begin) /\ Len(d_seen[i].visited) = DayCount
    BY Zenon DEF LoadIInv, TicksSoFar
  <2> HIDE DEF first, days
  <2>4. Len(d_seen[i].visited) = IF days > 0 THEN days ELSE 0
    BY <2>2, <2>3, Zenon DEF DayCount
  <2>5. d_begin \div 24 \in {first - 1, first}
    BY <2>1, <2>2, Zenon
  <2> QED
    BY <2>3, <2>4, <2>5, Zenon DEF TicksOf
<1> QED
  BY <1>1, LoadInvariant, PTL
=============================================================================
