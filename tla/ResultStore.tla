---------------------------- MODULE ResultStore ----------------------------
(***************************************************************************)
(* The store of factor results, lmapi/lm_result_store.cpp, over the        *)
(* database session of lmapi/lmsql.cpp.  Opening a store drops and creates *)
(* the factor's table; store() writes the factor's row in factor_info and  *)
(* then, for every stock code, fills a temporary table and copies it into  *)
(* the factor's table with one statement.                                  *)
(*                                                                         *)
(* There is no transaction in the code.  The session runs with autocommit  *)
(* off; what commits is an output stream that flushes rows (lmsql.cpp:267  *)
(* and :388) and logoff.  A statement that fails leaves its text in        *)
(* err_msg, and row_count as an earlier select set it.                     *)
(*                                                                         *)
(* The database is external: a statement it can execute may also fail, the *)
(* link may be lost, the process may die.  A commit fails only with the    *)
(* link.                                                                   *)
(***************************************************************************)
EXTENDS Integers, Sequences, FiniteSets

CONSTANTS Codes,      \* stocks.size(); a code is its position in stocks
          Empty,      \* codes whose dataset has no rows
          MaxRuns,    \* bound: how often the store is opened
          MaxStores,  \* bound: calls of store() on one opened store
          MaxFaults   \* bound: statements that fail although they could run

ASSUME StoreAssumption == /\ Codes \in Nat \ {0}
                          /\ Empty \subseteq 1 .. Codes
                          /\ MaxRuns \in Nat /\ MaxStores \in Nat /\ MaxFaults \in Nat

VARIABLES db,      \* the database as this session sees it
          disk,    \* what is committed
          up,      \* the session is logged on
          err,     \* err_msg is not empty
          rows,    \* row_count
          hasInfo, \* exists_info
          pc,
          i,       \* the code store() is at
          ret,     \* what store() returned last: "none", "ok" or "failed"
          run, stores, faults

vars == <<db, disk, up, err, rows, hasInfo, pc, i, ret, run, stores, faults>>

(* tables: those that exist.  info: how many rows factor_info has for the  *)
(* factor.  temp: the rows of #temp_result.  result: the factor's table,   *)
(* one element for what one statement added.                               *)
Nothing == [tables |-> {}, info |-> 0, result |-> <<>>, temp |-> <<>>]

Has(table) == table \in db.tables
Create(table) == [db EXCEPT !.tables = @ \cup {table}]
Dropped(d, table) == LET gone == [d EXCEPT !.tables = @ \ {table}] IN
                     IF table = "temp" THEN [gone EXCEPT !.temp = <<>>]
                                       ELSE [gone EXCEPT !.result = <<>>]

(* The rows of a code's dataset, as run r of the program stores them *)
Dataset(r, c) == IF c \in Empty THEN <<>> ELSE <<<<r, c, 1>>, <<r, c, 2>>>>

Init == /\ db = Nothing /\ disk = Nothing
        /\ up = FALSE /\ err = FALSE
        /\ rows = 0 /\ hasInfo = 0
        /\ pc = "closed" /\ i = 0 /\ ret = "none"
        /\ run = 0 /\ stores = 0 /\ faults = 0

-----------------------------------------------------------------------------
(* sql_internal: what one statement does, if the database can execute it.  *)

Runs(can, new) == /\ up /\ can
                  /\ db' = new
                  /\ UNCHANGED faults

Fails(can) == /\ IF up /\ can THEN faults < MaxFaults /\ faults' = faults + 1
                              ELSE UNCHANGED faults
              /\ UNCHANGED db

(* execute() by a caller that clears err_msg afterwards, and by one that   *)
(* looks at it                                                             *)
ExecuteAnyhow(can, new) == /\ Runs(can, new) \/ Fails(can)
                           /\ err' = FALSE
                           /\ UNCHANGED disk

Executed(can, new) == Runs(can, new) /\ UNCHANGED <<err, disk>>
NotExecuted(can) == Fails(can) /\ err' = TRUE /\ UNCHANGED disk

(* select(): a failed one leaves row_count as it was *)
Select(can, n) == \/ /\ Runs(can, db)
                     /\ rows' = n
                     /\ UNCHANGED <<err, disk>>
                  \/ /\ NotExecuted(can)
                     /\ UNCHANGED rows

Goto(from, to) == pc = from /\ pc' = to

-----------------------------------------------------------------------------
(* factor_result::factor_result *)

(* connect *)
Open ==
  /\ run < MaxRuns
  /\ run' = run + 1
  /\ stores' = 0 /\ ret' = "none" /\ rows' = 0 /\ i' = 0 /\ hasInfo' = 0
  /\ \/ /\ Goto("closed", "askInfo")
        /\ up' = TRUE /\ err' = FALSE
     \/ /\ Goto("closed", "idle")
        /\ up' = FALSE /\ err' = TRUE
  /\ UNCHANGED <<db, disk, faults>>

AskInfo == /\ Goto("askInfo", "askResult")
           /\ Select(TRUE, IF Has("info") THEN 1 ELSE 0)
           /\ hasInfo' = rows'
           /\ UNCHANGED <<up, i, ret, run, stores>>

(* It asks for a table factor_result, which this code does not create.     *)
AskResult == /\ Goto("askResult", IF hasInfo = 0 THEN "makeInfo" ELSE "dropTable")
             /\ \E n \in {0, 1} : Select(TRUE, n)
             /\ UNCHANGED <<up, hasInfo, i, ret, run, stores>>

MakeInfo == /\ Goto("makeInfo", "dropTable")
            /\ ExecuteAnyhow(~Has("info"), Create("info"))
            /\ UNCHANGED <<up, rows, hasInfo, i, ret, run, stores>>

DropTable == /\ Goto("dropTable", "makeTable")
             /\ ExecuteAnyhow(Has("result"), Dropped(db, "result"))
             /\ UNCHANGED <<up, rows, hasInfo, i, ret, run, stores>>

MakeTable == /\ Goto("makeTable", "idle")
             /\ \/ Executed(~Has("result"), Create("result"))
                \/ NotExecuted(~Has("result"))
             /\ UNCHANGED <<up, rows, hasInfo, i, ret, run, stores>>

-----------------------------------------------------------------------------
(* factor_result::store *)

StoreCall == /\ Goto("idle", "askFactor")
             /\ stores < MaxStores
             /\ stores' = stores + 1
             /\ ret' = "none"
             /\ UNCHANGED <<db, disk, up, err, rows, hasInfo, i, run, faults>>

(* store_factor *)
AskFactor == /\ Goto("askFactor", "putFactor")
             /\ Select(Has("info"), IF db.info > 0 THEN 1 ELSE 0)
             /\ UNCHANGED <<up, hasInfo, i, ret, run, stores>>

(* Return 1: store() clears err_msg. *)
Return1(from) == Goto(from, "idle") /\ ret' = "failed" /\ err' = FALSE /\ UNCHANGED i

(* The output stream flushes one row and commits.  err_msg may also be     *)
(* left over from the select.                                              *)
PutWith(new) ==
  /\ \/ /\ Runs(Has("info"), new)
        /\ disk' = new
        /\ IF err THEN Return1("putFactor")
                  ELSE /\ Goto("putFactor", "dropTemp")
                       /\ i' = 1
                       /\ UNCHANGED <<ret, err>>
     \/ /\ Fails(Has("info"))
        /\ Return1("putFactor")
        /\ UNCHANGED disk
  /\ UNCHANGED <<up, rows, hasInfo, run, stores>>
WithRow == [db EXCEPT !.info = @ + 1]

(* Bug: an insert where the row may exist *)
PutFactorAgain == PutWith(WithRow)

PutFactor == PutWith(IF rows >= 1 THEN db ELSE WithRow)

(* store_result for code i *)
DropTemp == /\ Goto("dropTemp", "makeTemp")
            /\ ExecuteAnyhow(Has("temp"), Dropped(db, "temp"))
            /\ UNCHANGED <<up, rows, hasInfo, i, ret, run, stores>>

(* A statement of store_result that ends it when it fails, and the bug of  *)
(* a statement whose failure is not looked at                              *)
Then(from, to, can, new) ==
  \/ /\ Goto(from, to)
     /\ Executed(can, new)
     /\ UNCHANGED <<i, ret>>
  \/ /\ Fails(can)
     /\ Return1(from)
     /\ UNCHANGED disk
ThenAnyhow(from, to, can, new) == /\ Goto(from, to)
                                  /\ ExecuteAnyhow(can, new)
                                  /\ UNCHANGED <<i, ret>>

(* Bug *)
MakeTempUnchecked == /\ ThenAnyhow("makeTemp", "fill", ~Has("temp"), Create("temp"))
                     /\ UNCHANGED <<up, rows, hasInfo, run, stores>>

MakeTemp == /\ Then("makeTemp", "fill", ~Has("temp"), Create("temp"))
            /\ UNCHANGED <<up, rows, hasInfo, run, stores>>

(* insert(format, f1, f2, rd): the stream flushes its rows when it is      *)
(* destroyed.  It commits if there were any; if the batch fails, a part of *)
(* the rows may be in the table.                                           *)
FillWith(commits) ==
  /\ LET data == Dataset(run, i)
         new == [db EXCEPT !.temp = @ \o data]
     IN
     \/ /\ Goto("fill", "publish")
        /\ Runs(Has("temp"), new)
        /\ disk' = IF commits /\ data # <<>> THEN new ELSE disk
        /\ UNCHANGED <<i, ret, err>>
     \/ /\ up /\ Has("temp") /\ faults < MaxFaults
        /\ faults' = faults + 1
        /\ \E n \in 0 .. Len(data) : db' = [db EXCEPT !.temp = @ \o SubSeq(data, 1, n)]
        /\ Return1("fill")
        /\ UNCHANGED disk
     \/ /\ ~(up /\ Has("temp"))
        /\ UNCHANGED <<db, faults>>
        /\ Return1("fill")
        /\ UNCHANGED disk
  /\ UNCHANGED <<up, rows, hasInfo, run, stores>>

(* Bug: a stream that does not commit *)
FillTempUncommitted == FillWith(FALSE)

FillTemp == FillWith(TRUE)

(* insert into factor_result_... select ... from #temp_result.  An empty   *)
(* temporary table adds nothing.                                           *)
Published == [db EXCEPT !.result = IF db.temp = <<>> THEN @ ELSE Append(@, db.temp)]

(* Bug *)
PublishUnchecked == /\ ThenAnyhow("publish", "clean", Has("result") /\ Has("temp"), Published)
                    /\ UNCHANGED <<up, rows, hasInfo, run, stores>>

Publish == /\ Then("publish", "clean", Has("result") /\ Has("temp"), Published)
           /\ UNCHANGED <<up, rows, hasInfo, run, stores>>

(* The temporary table goes; the next code, or return 0. *)
Clean ==
  /\ ExecuteAnyhow(Has("temp"), Dropped(db, "temp"))
  /\ IF i < Codes
       THEN Goto("clean", "dropTemp") /\ i' = i + 1 /\ UNCHANGED ret
       ELSE Goto("clean", "idle") /\ ret' = "ok" /\ UNCHANGED i
  /\ UNCHANGED <<up, rows, hasInfo, run, stores>>

-----------------------------------------------------------------------------
(* What the server keeps of a session that ends without a commit *)
RolledBack == Dropped(disk, "temp")

(* factor_result::~factor_result, disconnect: logoff commits, and nobody   *)
(* looks at whether it could.                                              *)
Close == /\ Goto("idle", "closed")
         /\ \/ up /\ db' = Dropped(db, "temp") /\ disk' = db'
            \/ db' = RolledBack /\ disk' = db'
         /\ up' = FALSE /\ err' = FALSE
         /\ UNCHANGED <<rows, hasInfo, i, ret, run, stores, faults>>

LoseLink == /\ up
            /\ up' = FALSE
            /\ db' = RolledBack /\ disk' = db'
            /\ UNCHANGED <<err, rows, hasInfo, pc, i, ret, run, stores, faults>>

Crash == /\ pc # "closed" /\ pc' = "closed"
         /\ up' = FALSE /\ err' = FALSE
         /\ db' = RolledBack /\ disk' = db'
         /\ UNCHANGED <<rows, hasInfo, i, ret, run, stores, faults>>

Next == \/ Open \/ AskInfo \/ AskResult \/ MakeInfo \/ DropTable \/ MakeTable
        \/ StoreCall \/ AskFactor \/ PutFactor
        \/ DropTemp \/ MakeTemp \/ FillTemp \/ Publish \/ Clean
        \/ Close \/ LoseLink \/ Crash

Spec == Init /\ [][Next]_vars
-----------------------------------------------------------------------------
(* The codes whose dataset has rows, and a code's place among them *)
Full == (1 .. Codes) \ Empty
Place(c) == Cardinality((1 .. c) \ Empty)

(* Each statement that published rows published one code's whole dataset,  *)
(* nothing twice and nothing of another code, in what the session sees and *)
(* in what is committed, whichever statements failed, whenever the link or *)
(* the process was lost, and however often the caller tried again.         *)
WholeDatasets ==
  \A t \in {db, disk} : \A k \in DOMAIN t.result :
    \E r \in 1 .. run, c \in Full : t.result[k] = Dataset(r, c)

(* factor_info gets a second row for the factor only when a select failed: *)
(* each failure, a stale row_count taken for an answer, adds at most one.  *)
OneInfoRow == db.info <= 1 + faults /\ disk.info <= 1 + faults

(* When the first store() of an opened store returns 0, the factor's table *)
(* holds every code's dataset, once and in order, and nothing older, and   *)
(* factor_info has the factor.                                             *)
SuccessMeansStored ==
  pc = "idle" /\ ret = "ok" /\ up /\ stores = 1 =>
    /\ DOMAIN db.result = 1 .. Place(Codes)
    /\ \A c \in Full : db.result[Place(c)] = Dataset(run, c)
    /\ db.info >= 1

(* A store() that returned 0 has committed every code but those after the  *)
(* last flush: a crash, a lost link or a failed logoff afterwards takes    *)
(* the last code that has rows, and no other.                              *)
OnlyTheLastIsAtRisk ==
  ret = "ok" => \A c, d \in Full :
    c < d => \E j \in DOMAIN disk.result : disk.result[j] = Dataset(run, c)
=============================================================================
