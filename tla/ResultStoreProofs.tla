--------------------------- MODULE ResultStoreProofs ---------------------------
(***************************************************************************)
(* Proofs about the result store, for any number of stock codes, any of    *)
(* them without rows, and any number of runs, calls and failing            *)
(* statements.  While store() is under way the session sees the datasets   *)
(* of the codes that are done, and the disk has those that a later flush   *)
(* has committed; nothing else of the program touches either until the     *)
(* next run drops the table.  The temporary table is empty when it is      *)
(* filled, because a table that is left over makes its creation fail.      *)
(***************************************************************************)
EXTENDS ResultStore, FiniteSetTheorems, TLAPS

Row == Nat \X Nat \X {1, 2}
Database == [tables : SUBSET {"info", "result", "temp"}, info : Nat,
             result : Seq(Seq(Row)), temp : Seq(Row)]

Opening == {"askInfo", "askResult", "makeInfo", "dropTable", "makeTable"}
Asking == {"askFactor", "putFactor"}
Loop == {"dropTemp", "makeTemp", "fill", "publish", "clean"}

TypeOK == /\ db \in Database /\ disk \in Database
          /\ rows \in {0, 1} /\ hasInfo \in {0, 1}
          /\ pc \in {"closed", "idle"} \cup Opening \cup Asking \cup Loop
          /\ i \in Nat
          /\ ret \in {"none", "ok", "failed"}
          /\ run \in Nat /\ stores \in Nat /\ faults \in Nat

(* A table that does not exist has no rows *)
NoTableNoRows == \A t \in {db, disk} : /\ "temp" \notin t.tables => t.temp = <<>>
                                       /\ "result" \notin t.tables => t.result = <<>>

(* Where the program is *)
WhereItIs == /\ pc = "closed" => ~up
             /\ pc # "closed" => run >= 1
             /\ pc \in Loop => i \in 1 .. Codes
             /\ pc \in Asking \cup Loop => ret = "none" /\ stores >= 1
             /\ pc \in Opening => stores = 0
             /\ ret = "ok" => pc \in {"idle", "closed"} /\ stores >= 1

(* The temporary table holds the dataset of the code store() is at *)
TempIsDataset == up => /\ pc = "fill" => db.temp = <<>>
                       /\ pc = "publish" => db.temp = Dataset(run, i)

(* What the select of store_factor answered *)
InfoCounted == /\ OneInfoRow
               /\ pc = "putFactor" /\ up /\ Has("info") =>
                    /\ rows = 0 => db.info <= faults
                    /\ ~err /\ rows # 0 => db.info >= 1

(* The codes published and those whose rows have been flushed *)
Done == IF pc \in Loop THEN IF pc = "clean" THEN i ELSE i - 1 ELSE Codes
Flushed == IF pc \in Loop THEN IF pc \in {"publish", "clean"} THEN i ELSE i - 1 ELSE Codes

Among(result, c) == \E j \in DOMAIN result : result[j] = Dataset(run, c)
InOrder(result, n) == /\ DOMAIN result = 1 .. Place(n)
                      /\ \A c \in Full : c <= n => result[Place(c)] = Dataset(run, c)

Storing == pc \in Loop \/ ret = "ok"

Committed == Storing => \A c, d \in Full : c < d /\ d <= Flushed => Among(disk.result, c)
Seen == Storing /\ up => \A c \in Full : c <= Done => Among(db.result, c)
SeenInOrder == Storing /\ up /\ stores = 1 => InOrder(db.result, Done) /\ db.info >= 1

(* The table a store() starts from is new, or err_msg says that it is not *)
Fresh == \/ pc = "idle" /\ stores = 0
         \/ pc \in Asking /\ stores = 1
StartsEmpty == up /\ ~err /\ Fresh => db.result = <<>>

IInv == /\ TypeOK /\ NoTableNoRows /\ WhereItIs /\ TempIsDataset /\ InfoCounted
        /\ WholeDatasets /\ Committed /\ Seen /\ SeenInOrder /\ StartsEmpty

-----------------------------------------------------------------------------
(* What the statements make of a database *)
LEMMA Rows ==
  ASSUME NEW r \in Nat, NEW c \in Nat
  PROVE  /\ Dataset(r, c) \in Seq(Row)
         /\ c \in Empty <=> Dataset(r, c) = <<>>
  BY DEF Dataset, Row

Tables == SUBSET {"info", "result", "temp"}

(* What the fields of a database are *)
LEMMA Fields ==
  ASSUME NEW d \in Database
  PROVE  /\ d.tables \in Tables /\ d.info \in Nat
         /\ d.result \in Seq(Seq(Row)) /\ d.temp \in Seq(Row)
  BY DEF Database, Tables

(* A database with one of its fields changed *)
LEMMA WithTables ==
  ASSUME NEW d \in Database, NEW t \in Tables
  PROVE  /\ [d EXCEPT !.tables = t] \in Database
         /\ [d EXCEPT !.tables = t].tables = t
         /\ [d EXCEPT !.tables = t].info = d.info
         /\ [d EXCEPT !.tables = t].result = d.result
         /\ [d EXCEPT !.tables = t].temp = d.temp
  BY DEF Database, Tables

LEMMA WithInfo ==
  ASSUME NEW d \in Database, NEW n \in Nat
  PROVE  /\ [d EXCEPT !.info = n] \in Database
         /\ [d EXCEPT !.info = n].tables = d.tables
         /\ [d EXCEPT !.info = n].info = n
         /\ [d EXCEPT !.info = n].result = d.result
         /\ [d EXCEPT !.info = n].temp = d.temp
  BY DEF Database

LEMMA WithResult ==
  ASSUME NEW d \in Database, NEW r \in Seq(Seq(Row))
  PROVE  /\ [d EXCEPT !.result = r] \in Database
         /\ [d EXCEPT !.result = r].tables = d.tables
         /\ [d EXCEPT !.result = r].info = d.info
         /\ [d EXCEPT !.result = r].result = r
         /\ [d EXCEPT !.result = r].temp = d.temp
  BY DEF Database

LEMMA WithTemp ==
  ASSUME NEW d \in Database, NEW m \in Seq(Row)
  PROVE  /\ [d EXCEPT !.temp = m] \in Database
         /\ [d EXCEPT !.temp = m].tables = d.tables
         /\ [d EXCEPT !.temp = m].info = d.info
         /\ [d EXCEPT !.temp = m].result = d.result
         /\ [d EXCEPT !.temp = m].temp = m
  BY DEF Database

(* drop table, create table *)
LEMMA TempDropped ==
  ASSUME NEW d \in Database
  PROVE  /\ Dropped(d, "temp") \in Database
         /\ Dropped(d, "temp").tables = d.tables \ {"temp"}
         /\ Dropped(d, "temp").info = d.info
         /\ Dropped(d, "temp").result = d.result
         /\ Dropped(d, "temp").temp = <<>>
<1> DEFINE t == d.tables \ {"temp"}
           none == <<>>
           gone == [d EXCEPT !.tables = t]
<1>1. t \in Tables /\ none \in Seq(Row)
  BY Fields DEF Tables
<1>2. Dropped(d, "temp") = [gone EXCEPT !.temp = none]
  BY DEF Dropped
<1> HIDE DEF t, none
<1>3. gone \in Database /\ gone.tables = t /\ gone.info = d.info /\ gone.result = d.result
  BY <1>1, WithTables
<1> HIDE DEF gone
<1> DEFINE e == [gone EXCEPT !.temp = none]
<1>4. /\ e \in Database /\ e.tables = gone.tables /\ e.info = gone.info
      /\ e.result = gone.result /\ e.temp = none
  BY <1>1, <1>3, WithTemp
<1> HIDE DEF e
<1> QED
  BY <1>2, <1>3, <1>4 DEF t, none, e

LEMMA ResultDropped ==
  ASSUME NEW d \in Database
  PROVE  /\ Dropped(d, "result") \in Database
         /\ Dropped(d, "result").tables = d.tables \ {"result"}
         /\ Dropped(d, "result").info = d.info
         /\ Dropped(d, "result").result = <<>>
         /\ Dropped(d, "result").temp = d.temp
<1> DEFINE t == d.tables \ {"result"}
           none == <<>>
           gone == [d EXCEPT !.tables = t]
<1>1. t \in Tables /\ none \in Seq(Seq(Row))
  BY Fields DEF Tables
<1>2. Dropped(d, "result") = [gone EXCEPT !.result = none]
  BY DEF Dropped
<1> HIDE DEF t, none
<1>3. gone \in Database /\ gone.tables = t /\ gone.info = d.info /\ gone.temp = d.temp
  BY <1>1, WithTables
<1> HIDE DEF gone
<1> DEFINE e == [gone EXCEPT !.result = none]
<1>4. /\ e \in Database /\ e.tables = gone.tables /\ e.info = gone.info
      /\ e.temp = gone.temp /\ e.result = none
  BY <1>1, <1>3, WithResult
<1> HIDE DEF e
<1> QED
  BY <1>2, <1>3, <1>4 DEF t, none, e

LEMMA Created ==
  ASSUME TypeOK, NEW table \in {"info", "result", "temp"}
  PROVE  /\ Create(table) \in Database
         /\ Create(table).tables = db.tables \cup {table}
         /\ Create(table).info = db.info
         /\ Create(table).result = db.result
         /\ Create(table).temp = db.temp
<1> DEFINE t == db.tables \cup {table}
<1>1. t \in Tables /\ db \in Database
  BY Fields DEF Tables, TypeOK
<1>2. Create(table) = [db EXCEPT !.tables = t]
  BY DEF Create
<1> HIDE DEF t
<1> QED
  BY <1>1, <1>2, WithTables DEF t

(* insert ... select: the rows of the temporary table, if there are any *)
LEMMA PublishedRows ==
  ASSUME TypeOK
  PROVE  /\ Published \in Database
         /\ Published.tables = db.tables /\ Published.info = db.info /\ Published.temp = db.temp
         /\ Published.result = IF db.temp = <<>> THEN db.result ELSE Append(db.result, db.temp)
<1> DEFINE new == IF db.temp = <<>> THEN db.result ELSE Append(db.result, db.temp)
<1>1. new \in Seq(Seq(Row)) /\ db \in Database
  BY Fields DEF TypeOK
<1>2. Published = [db EXCEPT !.result = new]
  BY DEF Published
<1> HIDE DEF new
<1> QED
  BY <1>1, <1>2, WithResult DEF new

(* The rows of a stream's batch, or a part of them *)
LEMMA Filled ==
  ASSUME TypeOK, NEW more \in Seq(Row), NEW d, d = [db EXCEPT !.temp = @ \o more]
  PROVE  /\ d \in Database
         /\ d.tables = db.tables /\ d.info = db.info /\ d.result = db.result
         /\ db.temp = <<>> => d.temp = more
<1> DEFINE new == db.temp \o more
<1>1. new \in Seq(Row) /\ db \in Database /\ (db.temp = <<>> => new = more)
  BY Fields DEF TypeOK
<1> HIDE DEF new
<1>2. d = [db EXCEPT !.temp = new]
  BY DEF new
<1>3. LET e == [db EXCEPT !.temp = new]
      IN  e \in Database /\ e.tables = db.tables /\ e.info = db.info
          /\ e.result = db.result /\ e.temp = new
  BY <1>1, WithTemp
<1> QED
  BY <1>1, <1>2, <1>3

(* The factor's row, and the server's rollback *)
LEMMA InfoRow ==
  ASSUME TypeOK
  PROVE  /\ WithRow \in Database
         /\ WithRow.tables = db.tables /\ WithRow.info = db.info + 1
         /\ WithRow.result = db.result /\ WithRow.temp = db.temp
<1> DEFINE n == db.info + 1
<1>1. n \in Nat /\ db \in Database
  BY Fields DEF TypeOK
<1>2. WithRow = [db EXCEPT !.info = n]
  BY DEF WithRow
<1> HIDE DEF n
<1> QED
  BY <1>1, <1>2, WithInfo DEF n

LEMMA RolledBackRows ==
  ASSUME TypeOK
  PROVE  /\ RolledBack \in Database
         /\ RolledBack.tables = disk.tables \ {"temp"} /\ RolledBack.info = disk.info
         /\ RolledBack.result = disk.result /\ RolledBack.temp = <<>>
  BY TempDropped DEF TypeOK, RolledBack
-----------------------------------------------------------------------------
(* Type correctness, action by action *)
LEMMA TypeStep == TypeOK /\ [Next]_vars => TypeOK'
<1> SUFFICES ASSUME TypeOK, [Next]_vars PROVE TypeOK'
  OBVIOUS
<1> USE DEF Goto, Opening, Asking, Loop
<1>1. CASE Open
  BY <1>1 DEF Open, TypeOK
<1>2. CASE AskInfo
  BY <1>2 DEF AskInfo, Select, Runs, NotExecuted, Fails, TypeOK
<1>3. CASE AskResult
  BY <1>3 DEF AskResult, Select, Runs, NotExecuted, Fails, TypeOK
<1>4. CASE MakeInfo
  BY <1>4, Created DEF MakeInfo, ExecuteAnyhow, Runs, Fails, TypeOK
<1>5. CASE DropTable
  BY <1>5, ResultDropped DEF DropTable, ExecuteAnyhow, Runs, Fails, TypeOK
<1>6. CASE MakeTable
  BY <1>6, Created DEF MakeTable, Executed, NotExecuted, Runs, Fails, TypeOK
<1>7. CASE StoreCall
  BY <1>7 DEF StoreCall, TypeOK
<1>8. CASE AskFactor
  BY <1>8 DEF AskFactor, Select, Runs, NotExecuted, Fails, TypeOK
<1>9. CASE PutFactor
  BY <1>9, InfoRow DEF PutFactor, PutWith, Return1, Runs, Fails, TypeOK
<1>10. CASE DropTemp
  BY <1>10, TempDropped DEF DropTemp, ExecuteAnyhow, Runs, Fails, TypeOK
<1>11. CASE MakeTemp
  BY <1>11, Created DEF MakeTemp, Then, Executed, Return1, Runs, Fails, TypeOK
<1>12. CASE FillTemp
  <2>1. Dataset(run, i) \in Seq(Row)
    BY Rows DEF TypeOK
  <2>2. \A n \in 0 .. Len(Dataset(run, i)) : SubSeq(Dataset(run, i), 1, n) \in Seq(Row)
    BY <2>1
  <2>3. db' \in Database /\ disk' \in Database
    BY <1>12, <2>1, <2>2, Filled DEF FillTemp, FillWith, Runs, TypeOK
  <2> QED
    BY <1>12, <2>3 DEF FillTemp, FillWith, Return1, Runs, TypeOK
<1>13. CASE Publish
  BY <1>13, PublishedRows DEF Publish, Then, Executed, Return1, Runs, Fails, TypeOK
<1>14. CASE Clean
  BY <1>14, TempDropped DEF Clean, ExecuteAnyhow, Runs, Fails, TypeOK
<1>15. CASE Close
  BY <1>15, TempDropped, RolledBackRows DEF Close, TypeOK
<1>16. CASE LoseLink
  BY <1>16, RolledBackRows DEF LoseLink, TypeOK
<1>17. CASE Crash
  BY <1>17, RolledBackRows DEF Crash, TypeOK
<1>18. CASE UNCHANGED vars
  BY <1>18 DEF vars, TypeOK
<1> QED
  BY <1>1, <1>2, <1>3, <1>4, <1>5, <1>6, <1>7, <1>8, <1>9, <1>10, <1>11, <1>12, <1>13,
     <1>14, <1>15, <1>16, <1>17, <1>18 DEF Next

-----------------------------------------------------------------------------
(* What FillTemp does to the database *)
LEMMA Filling ==
  ASSUME TypeOK, FillTemp
  PROVE  /\ db' \in Database
         /\ db'.tables = db.tables /\ db'.info = db.info /\ db'.result = db.result
         /\ "temp" \notin db.tables => db' = db
         /\ pc = "fill"
         /\ \/ /\ pc' = "publish" /\ up /\ UNCHANGED <<i, ret, err, faults>>
               /\ db.temp = <<>> => db'.temp = Dataset(run, i)
               /\ disk' = IF Dataset(run, i) # <<>> THEN db' ELSE disk
            \/ /\ Return1("fill") /\ UNCHANGED disk
               /\ faults' \in Nat /\ faults' >= faults
         /\ UNCHANGED <<up, rows, hasInfo, run, stores>>
<1>1. Dataset(run, i) \in Seq(Row)
  BY Rows DEF TypeOK
<1>2. \A n \in 0 .. Len(Dataset(run, i)) : SubSeq(Dataset(run, i), 1, n) \in Seq(Row)
  BY <1>1
<1>3. db' \in Database /\ db'.tables = db.tables /\ db'.info = db.info /\ db'.result = db.result
  <2>1. db' = db \/ \E more \in Seq(Row) : db' = [db EXCEPT !.temp = @ \o more]
    BY <1>1, <1>2 DEF FillTemp, FillWith, Runs
  <2>2. CASE db' = db
    BY <2>2 DEF TypeOK
  <2>3. ASSUME NEW more \in Seq(Row), db' = [db EXCEPT !.temp = @ \o more]
        PROVE  /\ db' \in Database /\ db'.tables = db.tables
               /\ db'.info = db.info /\ db'.result = db.result
    BY <2>3, Filled
  <2> QED
    BY <2>1, <2>2, <2>3
<1>4. "temp" \notin db.tables => db' = db
  BY DEF FillTemp, FillWith, Runs, Has
<1>5. CASE pc' = "publish"
  BY <1>1, <1>3, <1>4, <1>5, Filled DEF FillTemp, FillWith, Runs, Return1, Goto
<1>6. CASE pc' # "publish"
  BY <1>3, <1>4, <1>6 DEF FillTemp, FillWith, Return1, Goto, TypeOK
<1> QED
  BY <1>5, <1>6

(* A table that is created is empty, and one that is dropped loses its rows *)
LEMMA TablesStep == TypeOK /\ NoTableNoRows /\ [Next]_vars => NoTableNoRows'
<1> SUFFICES ASSUME TypeOK, NoTableNoRows, [Next]_vars PROVE NoTableNoRows'
  OBVIOUS
<1> USE DEF TypeOK, NoTableNoRows
<1>1. CASE Open
  BY <1>1 DEF Open
<1>2. CASE AskInfo
  BY <1>2 DEF AskInfo, Select, Runs, NotExecuted, Fails
<1>3. CASE AskResult
  BY <1>3 DEF AskResult, Select, Runs, NotExecuted, Fails
<1>4. CASE MakeInfo
  BY <1>4, Created DEF MakeInfo, ExecuteAnyhow, Runs, Fails, Has
<1>5. CASE DropTable
  BY <1>5, ResultDropped DEF DropTable, ExecuteAnyhow, Runs, Fails, Has
<1>6. CASE MakeTable
  BY <1>6, Created DEF MakeTable, Executed, NotExecuted, Runs, Fails, Has
<1>7. CASE StoreCall
  BY <1>7 DEF StoreCall
<1>8. CASE AskFactor
  BY <1>8 DEF AskFactor, Select, Runs, NotExecuted, Fails, Has
<1>9. CASE PutFactor
  BY <1>9, InfoRow DEF PutFactor, PutWith, Return1, Runs, Fails, Has
<1>10. CASE DropTemp
  BY <1>10, TempDropped DEF DropTemp, ExecuteAnyhow, Runs, Fails, Has
<1>11. CASE MakeTemp
  BY <1>11, Created DEF MakeTemp, Then, Executed, Return1, Runs, Fails, Has
<1>12. CASE FillTemp
  BY <1>12, Filling
<1>13. CASE Publish
  BY <1>13, PublishedRows DEF Publish, Then, Executed, Return1, Runs, Fails, Has
<1>14. CASE Clean
  BY <1>14, TempDropped DEF Clean, ExecuteAnyhow, Runs, Fails, Has
<1>15. CASE Close
  BY <1>15, TempDropped, RolledBackRows DEF Close
<1>16. CASE LoseLink
  BY <1>16, RolledBackRows DEF LoseLink
<1>17. CASE Crash
  BY <1>17, RolledBackRows DEF Crash
<1>18. CASE UNCHANGED vars
  BY <1>18 DEF vars
<1> QED
  BY <1>1, <1>2, <1>3, <1>4, <1>5, <1>6, <1>7, <1>8, <1>9, <1>10, <1>11, <1>12, <1>13,
     <1>14, <1>15, <1>16, <1>17, <1>18 DEF Next

(* Where the program may be *)
LEMMA WhereStep == TypeOK /\ WhereItIs /\ [Next]_vars => WhereItIs'
<1> SUFFICES ASSUME TypeOK, WhereItIs, [Next]_vars PROVE WhereItIs'
  OBVIOUS
<1> USE DEF TypeOK, WhereItIs, Goto, Return1, Opening, Asking, Loop
<1>1. CASE Open
  BY <1>1, StoreAssumption DEF Open
<1>2. CASE AskInfo
  BY <1>2, StoreAssumption DEF AskInfo, Select, Runs, NotExecuted, Fails
<1>3. CASE AskResult
  BY <1>3, StoreAssumption DEF AskResult, Select, Runs, NotExecuted, Fails
<1>4. CASE MakeInfo
  BY <1>4, Created, StoreAssumption DEF MakeInfo, ExecuteAnyhow, Runs, Fails, Has
<1>5. CASE DropTable
  BY <1>5, ResultDropped, StoreAssumption DEF DropTable, ExecuteAnyhow, Runs, Fails, Has
<1>6. CASE MakeTable
  BY <1>6, Created, StoreAssumption DEF MakeTable, Executed, NotExecuted, Runs, Fails, Has
<1>7. CASE StoreCall
  BY <1>7, StoreAssumption DEF StoreCall
<1>8. CASE AskFactor
  BY <1>8, StoreAssumption DEF AskFactor, Select, Runs, NotExecuted, Fails, Has
<1>9. CASE PutFactor
  BY <1>9, InfoRow, StoreAssumption DEF PutFactor, PutWith, Return1, Runs, Fails, Has
<1>10. CASE DropTemp
  BY <1>10, TempDropped, StoreAssumption DEF DropTemp, ExecuteAnyhow, Runs, Fails, Has
<1>11. CASE MakeTemp
  BY <1>11, Created, StoreAssumption DEF MakeTemp, Then, Executed, Return1, Runs, Fails, Has
<1>12. CASE FillTemp
  BY <1>12, Filling, StoreAssumption
<1>13. CASE Publish
  BY <1>13, PublishedRows, StoreAssumption DEF Publish, Then, Executed, Return1, Runs,
     Fails, Has
<1>14. CASE Clean
  BY <1>14, TempDropped, StoreAssumption DEF Clean, ExecuteAnyhow, Runs, Fails, Has
<1>15. CASE Close
  BY <1>15, TempDropped, RolledBackRows, StoreAssumption DEF Close
<1>16. CASE LoseLink
  BY <1>16, RolledBackRows, StoreAssumption DEF LoseLink
<1>17. CASE Crash
  BY <1>17, RolledBackRows, StoreAssumption DEF Crash
<1>18. CASE UNCHANGED vars
  BY <1>18 DEF vars
<1> QED
  BY <1>1, <1>2, <1>3, <1>4, <1>5, <1>6, <1>7, <1>8, <1>9, <1>10, <1>11, <1>12, <1>13,
     <1>14, <1>15, <1>16, <1>17, <1>18 DEF Next

(* The temporary table is filled empty and published as it was filled *)
LEMMA TempStep == TypeOK /\ NoTableNoRows /\ TempIsDataset /\ [Next]_vars => TempIsDataset'
<1> SUFFICES ASSUME TypeOK, NoTableNoRows, TempIsDataset, [Next]_vars PROVE TempIsDataset'
  OBVIOUS
<1> USE DEF TypeOK, NoTableNoRows, TempIsDataset, Goto, Return1
<1>1. CASE Open
  BY <1>1 DEF Open
<1>2. CASE AskInfo
  BY <1>2 DEF AskInfo, Select, Runs, NotExecuted, Fails
<1>3. CASE AskResult
  BY <1>3 DEF AskResult, Select, Runs, NotExecuted, Fails
<1>4. CASE MakeInfo
  BY <1>4, Created DEF MakeInfo, ExecuteAnyhow, Runs, Fails, Has
<1>5. CASE DropTable
  BY <1>5, ResultDropped DEF DropTable, ExecuteAnyhow, Runs, Fails, Has
<1>6. CASE MakeTable
  BY <1>6, Created DEF MakeTable, Executed, NotExecuted, Runs, Fails, Has
<1>7. CASE StoreCall
  BY <1>7 DEF StoreCall
<1>8. CASE AskFactor
  BY <1>8 DEF AskFactor, Select, Runs, NotExecuted, Fails, Has
<1>9. CASE PutFactor
  BY <1>9, InfoRow DEF PutFactor, PutWith, Return1, Runs, Fails, Has
<1>10. CASE DropTemp
  BY <1>10, TempDropped DEF DropTemp, ExecuteAnyhow, Runs, Fails, Has
<1>11. CASE MakeTemp
  BY <1>11, Created DEF MakeTemp, Then, Executed, Return1, Runs, Fails, Has
<1>12. CASE FillTemp
  BY <1>12, Filling
<1>13. CASE Publish
  BY <1>13, PublishedRows DEF Publish, Then, Executed, Return1, Runs, Fails, Has
<1>14. CASE Clean
  BY <1>14, TempDropped DEF Clean, ExecuteAnyhow, Runs, Fails, Has
<1>15. CASE Close
  BY <1>15, TempDropped, RolledBackRows DEF Close
<1>16. CASE LoseLink
  BY <1>16, RolledBackRows DEF LoseLink
<1>17. CASE Crash
  BY <1>17, RolledBackRows DEF Crash
<1>18. CASE UNCHANGED vars
  BY <1>18 DEF vars
<1> QED
  BY <1>1, <1>2, <1>3, <1>4, <1>5, <1>6, <1>7, <1>8, <1>9, <1>10, <1>11, <1>12, <1>13,
     <1>14, <1>15, <1>16, <1>17, <1>18 DEF Next

(* A second row of factor_info takes a select that failed *)
LEMMA InfoStep == TypeOK /\ InfoCounted /\ [Next]_vars => InfoCounted'
<1> SUFFICES ASSUME TypeOK, InfoCounted, [Next]_vars PROVE InfoCounted'
  OBVIOUS
<1> USE DEF TypeOK, InfoCounted, OneInfoRow, Has, Goto, Return1
<1>1. CASE Open
  BY <1>1, Fields DEF Open
<1>2. CASE AskInfo
  BY <1>2, Fields DEF AskInfo, Select, Runs, NotExecuted, Fails
<1>3. CASE AskResult
  BY <1>3, Fields DEF AskResult, Select, Runs, NotExecuted, Fails
<1>4. CASE MakeInfo
  BY <1>4, Created, Fields DEF MakeInfo, ExecuteAnyhow, Runs, Fails, Has
<1>5. CASE DropTable
  BY <1>5, ResultDropped, Fields DEF DropTable, ExecuteAnyhow, Runs, Fails, Has
<1>6. CASE MakeTable
  BY <1>6, Created, Fields DEF MakeTable, Executed, NotExecuted, Runs, Fails, Has
<1>7. CASE StoreCall
  BY <1>7, Fields DEF StoreCall
<1>8. CASE AskFactor
  BY <1>8, Fields DEF AskFactor, Select, Runs, NotExecuted, Fails, Has
<1>9. CASE PutFactor
  BY <1>9, InfoRow, Fields DEF PutFactor, PutWith, Return1, Runs, Fails, Has
<1>10. CASE DropTemp
  BY <1>10, TempDropped, Fields DEF DropTemp, ExecuteAnyhow, Runs, Fails, Has
<1>11. CASE MakeTemp
  BY <1>11, Created, Fields DEF MakeTemp, Then, Executed, Return1, Runs, Fails, Has
<1>12. CASE FillTemp
  <2>1. /\ db'.info = db.info
        /\ \/ pc' = "publish" /\ faults' = faults /\ (disk' = db' \/ disk' = disk)
           \/ pc' = "idle" /\ faults' \in Nat /\ faults' >= faults /\ disk' = disk
    BY <1>12, Filling
  <2>2. db.info \in Nat /\ disk.info \in Nat
    BY Fields
  <2> QED
    BY <2>1, <2>2
<1>13. CASE Publish
  BY <1>13, PublishedRows, Fields DEF Publish, Then, Executed, Return1, Runs, Fails, Has
<1>14. CASE Clean
  BY <1>14, TempDropped, Fields DEF Clean, ExecuteAnyhow, Runs, Fails, Has
<1>15. CASE Close
  BY <1>15, TempDropped, RolledBackRows, Fields DEF Close
<1>16. CASE LoseLink
  BY <1>16, RolledBackRows, Fields DEF LoseLink
<1>17. CASE Crash
  BY <1>17, RolledBackRows, Fields DEF Crash
<1>18. CASE UNCHANGED vars
  BY <1>18 DEF vars
<1> QED
  BY <1>1, <1>2, <1>3, <1>4, <1>5, <1>6, <1>7, <1>8, <1>9, <1>10, <1>11, <1>12, <1>13,
     <1>14, <1>15, <1>16, <1>17, <1>18 DEF Next

(* A table that could not be dropped leaves a message in err_msg *)
LEMMA FreshStep == TypeOK /\ NoTableNoRows /\ WhereItIs
    /\ StartsEmpty /\ [Next]_vars => StartsEmpty'
<1> SUFFICES ASSUME TypeOK, NoTableNoRows, WhereItIs, StartsEmpty, [Next]_vars
             PROVE StartsEmpty'
  OBVIOUS
<1> USE DEF TypeOK, NoTableNoRows, WhereItIs, StartsEmpty, Fresh, Asking, Opening, Loop, Goto, Return1
<1>1. CASE Open
  BY <1>1 DEF Open
<1>2. CASE AskInfo
  BY <1>2 DEF AskInfo, Select, Runs, NotExecuted, Fails
<1>3. CASE AskResult
  BY <1>3 DEF AskResult, Select, Runs, NotExecuted, Fails
<1>4. CASE MakeInfo
  BY <1>4, Created DEF MakeInfo, ExecuteAnyhow, Runs, Fails, Has
<1>5. CASE DropTable
  BY <1>5, ResultDropped DEF DropTable, ExecuteAnyhow, Runs, Fails, Has
<1>6. CASE MakeTable
  BY <1>6, Created DEF MakeTable, Executed, NotExecuted, Runs, Fails, Has
<1>7. CASE StoreCall
  BY <1>7 DEF StoreCall
<1>8. CASE AskFactor
  BY <1>8 DEF AskFactor, Select, Runs, NotExecuted, Fails, Has
<1>9. CASE PutFactor
  BY <1>9, InfoRow DEF PutFactor, PutWith, Return1, Runs, Fails, Has
<1>10. CASE DropTemp
  BY <1>10, TempDropped DEF DropTemp, ExecuteAnyhow, Runs, Fails, Has
<1>11. CASE MakeTemp
  BY <1>11, Created DEF MakeTemp, Then, Executed, Return1, Runs, Fails, Has
<1>12. CASE FillTemp
  <2>1. pc' \in {"publish", "idle"} /\ stores' >= 1
    BY <1>12, Filling
  <2> QED
    BY <2>1
<1>13. CASE Publish
  BY <1>13, PublishedRows DEF Publish, Then, Executed, Return1, Runs, Fails, Has
<1>14. CASE Clean
  BY <1>14, TempDropped DEF Clean, ExecuteAnyhow, Runs, Fails, Has
<1>15. CASE Close
  BY <1>15, TempDropped, RolledBackRows DEF Close
<1>16. CASE LoseLink
  BY <1>16, RolledBackRows DEF LoseLink
<1>17. CASE Crash
  BY <1>17, RolledBackRows DEF Crash
<1>18. CASE UNCHANGED vars
  BY <1>18 DEF vars
<1> QED
  BY <1>1, <1>2, <1>3, <1>4, <1>5, <1>6, <1>7, <1>8, <1>9, <1>10, <1>11, <1>12, <1>13,
     <1>14, <1>15, <1>16, <1>17, <1>18 DEF Next

-----------------------------------------------------------------------------
(* The rows of the factor's table *)
LEMMA Appending ==
  ASSUME TypeOK, i \in 1 .. Codes, db.temp = Dataset(run, i)
  PROVE  /\ i \in Empty => Published.result = db.result
         /\ i \notin Empty => Published.result = Append(db.result, Dataset(run, i))
  BY Rows, PublishedRows DEF TypeOK

LEMMA AppendedRow ==
  ASSUME NEW s \in Seq(Seq(Row)), NEW e \in Seq(Row)
  PROVE  /\ DOMAIN Append(s, e) = DOMAIN s \cup {Len(s) + 1}
         /\ \A k \in DOMAIN s : Append(s, e)[k] = s[k]
         /\ Append(s, e)[Len(s) + 1] = e
  OBVIOUS

(* Every element of a result is the whole dataset of one of r runs *)
WholeResult(result, r) ==
  \A k \in DOMAIN result : \E q \in 1 .. r, c \in Full : result[k] = Dataset(q, c)

(* Every step but Publish leaves results as they are, takes one of them for *)
(* the other or empties what the session sees.                              *)
NoNewRows == /\ db'.result \in {db.result, disk.result, <<>>}
             /\ disk'.result \in {db.result, disk.result}
             /\ run' \in {run, run + 1}

(* Which steps leave the rows of the results alone *)
LEMMA OldRows == TypeOK /\ [Next]_vars => Publish \/ NoNewRows
<1> SUFFICES ASSUME TypeOK, [Next]_vars PROVE Publish \/ NoNewRows
  OBVIOUS
<1> USE DEF TypeOK, NoNewRows
<1>1. CASE Open
  BY <1>1 DEF Open
<1>2. CASE AskInfo
  BY <1>2 DEF AskInfo, Select, Runs, NotExecuted, Fails
<1>3. CASE AskResult
  BY <1>3 DEF AskResult, Select, Runs, NotExecuted, Fails
<1>4. CASE MakeInfo
  BY <1>4, Created DEF MakeInfo, ExecuteAnyhow, Runs, Fails, Has
<1>5. CASE DropTable
  BY <1>5, ResultDropped DEF DropTable, ExecuteAnyhow, Runs, Fails, Has
<1>6. CASE MakeTable
  BY <1>6, Created DEF MakeTable, Executed, NotExecuted, Runs, Fails, Has
<1>7. CASE StoreCall
  BY <1>7 DEF StoreCall
<1>8. CASE AskFactor
  BY <1>8 DEF AskFactor, Select, Runs, NotExecuted, Fails, Has
<1>9. CASE PutFactor
  BY <1>9, InfoRow DEF PutFactor, PutWith, Return1, Runs, Fails, Has
<1>10. CASE DropTemp
  BY <1>10, TempDropped DEF DropTemp, ExecuteAnyhow, Runs, Fails, Has
<1>11. CASE MakeTemp
  BY <1>11, Created DEF MakeTemp, Then, Executed, Return1, Runs, Fails, Has
<1>12. CASE FillTemp
  BY <1>12, Filling
<1>13. CASE Publish
  BY <1>13, PublishedRows DEF Publish, Then, Executed, Return1, Runs, Fails, Has
<1>14. CASE Clean
  BY <1>14, TempDropped DEF Clean, ExecuteAnyhow, Runs, Fails, Has
<1>15. CASE Close
  BY <1>15, TempDropped, RolledBackRows DEF Close
<1>16. CASE LoseLink
  BY <1>16, RolledBackRows DEF LoseLink
<1>17. CASE Crash
  BY <1>17, RolledBackRows DEF Crash
<1>18. CASE UNCHANGED vars
  BY <1>18 DEF vars
<1> QED
  BY <1>1, <1>2, <1>3, <1>4, <1>5, <1>6, <1>7, <1>8, <1>9, <1>10, <1>11, <1>12, <1>13,
     <1>14, <1>15, <1>16, <1>17, <1>18 DEF Next

LEMMA WholeStep == TypeOK /\ WhereItIs /\ TempIsDataset /\ WholeDatasets /\ [Next]_vars
                     => WholeDatasets'
<1> SUFFICES ASSUME TypeOK, WhereItIs, TempIsDataset, WholeDatasets, [Next]_vars
             PROVE  WholeDatasets'
  OBVIOUS
<1>1. WholeResult(db.result, run) /\ WholeResult(disk.result, run)
  BY DEF WholeDatasets, WholeResult
<1>2. run \in Nat
  BY DEF TypeOK
<1>3. CASE NoNewRows
  <2>1. run' \in Nat /\ run' >= run
    BY <1>2, <1>3 DEF NoNewRows
  <2>2. WholeResult(<<>>, run)
    BY DEF WholeResult
  <2>3. WholeResult(db'.result, run) /\ WholeResult(disk'.result, run)
    BY <1>1, <1>3, <2>2 DEF NoNewRows
  <2>4. WholeResult(db'.result, run') /\ WholeResult(disk'.result, run')
    BY <1>2, <2>1, <2>3 DEF WholeResult
  <2> QED
    BY <2>4 DEF WholeDatasets, WholeResult
<1>4. CASE Publish
  <2>1. /\ run' = run /\ disk' = disk
        /\ db' = db \/ (db' = Published /\ up /\ pc = "publish")
    BY <1>4 DEF Publish, Then, Executed, Goto, Runs, Fails
  <2>2. CASE db' = db
    BY <2>1, <2>2 DEF WholeDatasets
  <2>3. CASE db' = Published /\ up /\ pc = "publish"
    <3>1. i \in 1 .. Codes /\ db.temp = Dataset(run, i) /\ run >= 1
      BY <2>3 DEF WhereItIs, TempIsDataset, Loop
    <3>2. CASE i \in Empty
      BY <1>1, <2>1, <2>3, <3>1, <3>2, Appending DEF WholeDatasets, WholeResult
    <3>3. CASE i \notin Empty
      <4>1. db'.result = Append(db.result, Dataset(run, i))
        BY <2>3, <3>1, <3>3, Appending
      <4>2. Dataset(run, i) \in Seq(Row) /\ db.result \in Seq(Seq(Row))
        BY Rows, Fields DEF TypeOK
      <4>3. WholeResult(db'.result, run)
        <5>1. i \in Full /\ run \in 1 .. run
          BY <1>2, <3>1, <3>3 DEF Full
        <5> QED
          BY <1>1, <4>1, <4>2, <5>1, AppendedRow DEF WholeResult
      <4> QED
        BY <1>1, <2>1, <4>3 DEF WholeDatasets, WholeResult
    <3> QED
      BY <3>2, <3>3
  <2> QED
    BY <2>1, <2>2, <2>3
<1> QED
  BY <1>3, <1>4, OldRows

-----------------------------------------------------------------------------
(* What is committed, and what the session sees *)

(* A flush commits the codes published before it, logoff all of them *)
LEMMA CommittedStep == TypeOK /\ WhereItIs /\ Seen /\ Committed /\ [Next]_vars => Committed'
<1> SUFFICES ASSUME TypeOK, WhereItIs, Seen, Committed, [Next]_vars PROVE Committed'
  OBVIOUS
<1> USE DEF TypeOK, WhereItIs, Committed, Storing, Flushed, Among, Goto, Return1, Opening, Asking, Loop
<1>1. CASE Open
  BY <1>1, StoreAssumption DEF Open
<1>2. CASE AskInfo
  BY <1>2, StoreAssumption DEF AskInfo, Select, Runs, NotExecuted, Fails
<1>3. CASE AskResult
  BY <1>3, StoreAssumption DEF AskResult, Select, Runs, NotExecuted, Fails
<1>4. CASE MakeInfo
  BY <1>4, Created, StoreAssumption DEF MakeInfo, ExecuteAnyhow, Runs, Fails, Has
<1>5. CASE DropTable
  BY <1>5, ResultDropped, StoreAssumption DEF DropTable, ExecuteAnyhow, Runs, Fails, Has
<1>6. CASE MakeTable
  BY <1>6, Created, StoreAssumption DEF MakeTable, Executed, NotExecuted, Runs, Fails, Has
<1>7. CASE StoreCall
  BY <1>7, StoreAssumption DEF StoreCall
<1>8. CASE AskFactor
  BY <1>8, StoreAssumption DEF AskFactor, Select, Runs, NotExecuted, Fails, Has
<1>9. CASE PutFactor
  <2>1. \/ pc' = "dropTemp" /\ i' = 1
        \/ pc' = "idle" /\ ret' = "failed"
    BY <1>9 DEF PutFactor, PutWith
  <2>2. \A d \in Full : ~(d <= 0)
    BY StoreAssumption DEF Full
  <2> QED
    BY <2>1, <2>2
<1>10. CASE DropTemp
  BY <1>10, TempDropped, StoreAssumption DEF DropTemp, ExecuteAnyhow, Runs, Fails, Has
<1>11. CASE MakeTemp
  BY <1>11, Created, StoreAssumption DEF MakeTemp, Then, Executed, Return1, Runs, Fails, Has
<1>12. CASE FillTemp
  <2>0. i \in 1 .. Codes /\ pc = "fill" /\ run' = run /\ ret = "none"
    BY <1>12, Filling
  <2>1. CASE pc' = "publish"
    <3>1. /\ up /\ i' = i /\ db'.result = db.result
          /\ disk' = IF Dataset(run, i) # <<>> THEN db' ELSE disk
      BY <1>12, <2>1, Filling
    <3>2. CASE i \in Full
      <4>1. disk'.result = db.result
        BY <2>0, <3>1, <3>2, Rows DEF Full
      <4>2. \A c \in Full : c <= i - 1 => Among(db.result, c)
        BY <2>0, <3>1 DEF Seen, Done
      <4> QED
        BY <2>0, <2>1, <3>1, <4>1, <4>2 DEF Full
    <3>3. CASE i \notin Full
      <4>1. disk' = disk
        BY <2>0, <3>1, <3>3, Rows DEF Full
      <4>2. \A c, d \in Full : c < d /\ d <= i - 1 => Among(disk.result, c)
        BY <2>0
      <4> QED
        BY <2>0, <2>1, <3>1, <3>3, <4>1, <4>2 DEF Full
    <3> QED
      BY <3>2, <3>3
  <2>2. CASE pc' # "publish"
    BY <1>12, <2>2, Filling
  <2> QED
    BY <2>1, <2>2
<1>13. CASE Publish
  BY <1>13, PublishedRows, StoreAssumption DEF Publish, Then, Executed, Return1, Runs,
     Fails, Has
<1>14. CASE Clean
  BY <1>14, TempDropped, StoreAssumption DEF Clean, ExecuteAnyhow, Runs, Fails, Has
<1>15. CASE Close
  <2>1. pc = "idle" /\ pc' = "closed" /\ run' = run /\ ret' = ret
    BY <1>15 DEF Close
  <2>2. \/ up /\ disk'.result = db.result
        \/ disk'.result = disk.result
    BY <1>15, TempDropped, RolledBackRows DEF Close
  <2>3. CASE disk'.result = disk.result
    BY <2>1, <2>3
  <2>4. CASE up /\ disk'.result = db.result
    <3>1. ret = "ok" => \A c \in Full : c <= Codes => Among(db.result, c)
      BY <2>1, <2>4 DEF Seen, Done
    <3>2. \A c \in Full : c <= Codes
      BY StoreAssumption DEF Full
    <3> QED
      BY <2>1, <2>4, <3>1, <3>2
  <2> QED
    BY <2>2, <2>3, <2>4
<1>16. CASE LoseLink
  BY <1>16, RolledBackRows, StoreAssumption DEF LoseLink
<1>17. CASE Crash
  BY <1>17, RolledBackRows, StoreAssumption DEF Crash
<1>18. CASE UNCHANGED vars
  BY <1>18 DEF vars
<1> QED
  BY <1>1, <1>2, <1>3, <1>4, <1>5, <1>6, <1>7, <1>8, <1>9, <1>10, <1>11, <1>12, <1>13,
     <1>14, <1>15, <1>16, <1>17, <1>18 DEF Next

(* What the session has published it sees while it is up *)
LEMMA SeenStep == TypeOK /\ WhereItIs /\ TempIsDataset /\ Seen /\ [Next]_vars => Seen'
<1> SUFFICES ASSUME TypeOK, WhereItIs, TempIsDataset, Seen, [Next]_vars PROVE Seen'
  OBVIOUS
<1> USE DEF TypeOK, WhereItIs, Seen, Storing, Done, Among, Goto, Return1, Opening, Asking, Loop
<1>1. CASE Open
  BY <1>1, StoreAssumption DEF Open
<1>2. CASE AskInfo
  BY <1>2, StoreAssumption DEF AskInfo, Select, Runs, NotExecuted, Fails
<1>3. CASE AskResult
  BY <1>3, StoreAssumption DEF AskResult, Select, Runs, NotExecuted, Fails
<1>4. CASE MakeInfo
  BY <1>4, Created, StoreAssumption DEF MakeInfo, ExecuteAnyhow, Runs, Fails, Has
<1>5. CASE DropTable
  BY <1>5, ResultDropped, StoreAssumption DEF DropTable, ExecuteAnyhow, Runs, Fails, Has
<1>6. CASE MakeTable
  BY <1>6, Created, StoreAssumption DEF MakeTable, Executed, NotExecuted, Runs, Fails, Has
<1>7. CASE StoreCall
  BY <1>7, StoreAssumption DEF StoreCall
<1>8. CASE AskFactor
  BY <1>8, StoreAssumption DEF AskFactor, Select, Runs, NotExecuted, Fails, Has
<1>9. CASE PutFactor
  <2>1. \/ pc' = "dropTemp" /\ i' = 1
        \/ pc' = "idle" /\ ret' = "failed"
    BY <1>9 DEF PutFactor, PutWith
  <2>2. \A d \in Full : ~(d <= 0)
    BY StoreAssumption DEF Full
  <2> QED
    BY <2>1, <2>2
<1>10. CASE DropTemp
  BY <1>10, TempDropped, StoreAssumption DEF DropTemp, ExecuteAnyhow, Runs, Fails, Has
<1>11. CASE MakeTemp
  BY <1>11, Created, StoreAssumption DEF MakeTemp, Then, Executed, Return1, Runs, Fails, Has
<1>12. CASE FillTemp
  BY <1>12, Filling, StoreAssumption
<1>13. CASE Publish
  <2>1. \/ pc' = "idle" /\ ret' = "failed"
        \/ up /\ pc' = "clean" /\ i' = i /\ db' = Published
    BY <1>13 DEF Publish, Then, Executed, Runs
  <2>2. i \in 1 .. Codes /\ run' = run
    BY <1>13 DEF Publish, Then
  <2>3. CASE up /\ pc' = "clean" /\ i' = i /\ db' = Published
    <3>1. \A c \in Full : c <= i - 1 => Among(db.result, c)
      BY <1>13, <2>3 DEF Publish, Then
    <3>2. db.temp = Dataset(run, i) /\ Dataset(run, i) \in Seq(Row) /\ db.result \in Seq(Seq(Row))
      BY <1>13, <2>3, Rows, Fields DEF TempIsDataset, Publish, Then
    <3>3. CASE i \in Empty
      BY <2>2, <2>3, <3>1, <3>2, <3>3, Appending DEF Full
    <3>4. CASE i \notin Empty
      <4>1. db'.result = Append(db.result, Dataset(run, i))
        BY <2>2, <2>3, <3>2, <3>4, Appending
      <4>2. \A c \in Full : c <= i - 1 => Among(db'.result, c)
        BY <3>1, <3>2, <4>1, AppendedRow
      <4>3. Among(db'.result, i)
        BY <3>2, <4>1, AppendedRow
      <4> QED
        BY <2>2, <2>3, <4>2, <4>3 DEF Full
    <3> QED
      BY <3>3, <3>4
  <2> QED
    BY <2>1, <2>3
<1>14. CASE Clean
  BY <1>14, TempDropped, StoreAssumption DEF Clean, ExecuteAnyhow, Runs, Fails, Has
<1>15. CASE Close
  BY <1>15, TempDropped, RolledBackRows, StoreAssumption DEF Close
<1>16. CASE LoseLink
  BY <1>16, RolledBackRows, StoreAssumption DEF LoseLink
<1>17. CASE Crash
  BY <1>17, RolledBackRows, StoreAssumption DEF Crash
<1>18. CASE UNCHANGED vars
  BY <1>18 DEF vars
<1> QED
  BY <1>1, <1>2, <1>3, <1>4, <1>5, <1>6, <1>7, <1>8, <1>9, <1>10, <1>11, <1>12, <1>13,
     <1>14, <1>15, <1>16, <1>17, <1>18 DEF Next

-----------------------------------------------------------------------------
(* The place of a code among those that have rows *)
LEMMA Places ==
  /\ Place(0) = 0
  /\ \A n \in 1 .. Codes :
       /\ Place(n) \in Nat /\ Place(n - 1) \in Nat
       /\ Place(n) = IF n \in Empty THEN Place(n - 1) ELSE Place(n - 1) + 1
  /\ \A n \in 0 .. Codes : \A c \in Full : c <= n => Place(c) \in 1 .. Place(n)
<1>1. \A n \in 0 .. Codes : IsFiniteSet((1 .. n) \ Empty) /\ Place(n) \in Nat
  <2>1. ASSUME NEW n \in 0 .. Codes
        PROVE  IsFiniteSet((1 .. n) \ Empty) /\ Place(n) \in Nat
    <3>1. IsFiniteSet(1 .. n)
      BY StoreAssumption, FS_Interval
    <3>2. IsFiniteSet((1 .. n) \ Empty)
      BY <3>1, FS_Difference
    <3> QED
      BY <3>2, FS_CardinalityType DEF Place
  <2> QED
    BY <2>1
<1>2. Place(0) = 0
  <2>1. (1 .. 0) \ Empty = {}
    OBVIOUS
  <2> QED
    BY <2>1, FS_EmptySet DEF Place
<1>3. ASSUME NEW n \in 1 .. Codes
      PROVE  /\ Place(n) \in Nat /\ Place(n - 1) \in Nat
             /\ Place(n) = IF n \in Empty THEN Place(n - 1) ELSE Place(n - 1) + 1
  <2> DEFINE S == (1 .. n - 1) \ Empty
  <2>1. n \in 0 .. Codes /\ n - 1 \in 0 .. Codes
    BY StoreAssumption
  <2>2. n \in Empty => (1 .. n) \ Empty = S
    BY StoreAssumption
  <2>3. n \notin Empty => (1 .. n) \ Empty = S \cup {n}
    BY StoreAssumption
  <2>4. IsFiniteSet(S) /\ n \notin S /\ Place(n - 1) = Cardinality(S)
    BY <1>1, <2>1, StoreAssumption DEF Place
  <2> HIDE DEF S
  <2>5. Cardinality(S \cup {n}) = Cardinality(S) + 1
    BY <2>4, FS_AddElement
  <2> QED
    BY <1>1, <2>1, <2>2, <2>3, <2>4, <2>5 DEF Place
<1>4. ASSUME NEW n \in 0 .. Codes, NEW c \in Full, c <= n
      PROVE  Place(c) \in 1 .. Place(n)
  <2>1. c \in 0 .. Codes /\ c \in (1 .. c) \ Empty /\ (1 .. c) \ Empty \subseteq (1 .. n) \ Empty
    BY <1>4, StoreAssumption DEF Full
  <2>2. Place(c) \in Nat /\ Place(n) \in Nat
    BY <1>1, <2>1
  <2>3. Place(c) <= Place(n)
    BY <1>1, <2>1, FS_Subset DEF Place
  <2>4. Place(c) # 0
    <3>1. IsFiniteSet((1 .. c) \ Empty) /\ (1 .. c) \ Empty # {}
      BY <1>1, <2>1
    <3> QED
      BY <3>1, FS_EmptySet DEF Place
  <2> QED
    BY <2>2, <2>3, <2>4
<1> QED
  BY <1>1, <1>2, <1>3, <1>4

(* One more code: its dataset is appended if it has rows, and its place is *)
(* then the last.                                                          *)
LEMMA NextInOrder ==
  ASSUME NEW s \in Seq(Seq(Row)), NEW n \in 1 .. Codes, InOrder(s, n - 1),
         NEW e \in Seq(Row), e = Dataset(run, n)
  PROVE  InOrder(IF n \in Empty THEN s ELSE Append(s, e), n)
<1>1. Place(n) \in Nat /\ Place(n - 1) \in Nat /\ n \in Nat
      /\ Place(n) = IF n \in Empty THEN Place(n - 1) ELSE Place(n - 1) + 1
  BY Places
<1>2. \A c \in Full : c \in Nat /\ (c <= n - 1 => Place(c) \in 1 .. Place(n - 1))
  BY Places, StoreAssumption DEF Full
<1>3. CASE n \in Empty
  BY <1>1, <1>2, <1>3 DEF InOrder, Full
<1>4. CASE n \notin Empty
  <2>1. Len(s) = Place(n - 1)
    BY <1>1 DEF InOrder
  <2>2. DOMAIN Append(s, e) = 1 .. Place(n)
    BY <1>1, <1>4, <2>1
  <2>3. \A k \in 1 .. Place(n - 1) : Append(s, e)[k] = s[k]
    BY <2>1
  <2>4. Append(s, e)[Place(n)] = e
    BY <1>1, <1>4, <2>1
  <2>5. ASSUME NEW c \in Full, c <= n PROVE Append(s, e)[Place(c)] = Dataset(run, c)
    <3>1. CASE c = n
      BY <2>4, <3>1
    <3>2. CASE c <= n - 1
      <4>1. Place(c) \in 1 .. Place(n - 1) /\ s[Place(c)] = Dataset(run, c)
        BY <1>2, <3>2 DEF InOrder
      <4> QED
        BY <2>3, <4>1
    <3>3. c \in Nat
      BY StoreAssumption DEF Full
    <3>4. c = n \/ c <= n - 1
      BY <1>1, <2>5, <3>3
    <3> QED
      BY <3>1, <3>2, <3>4
  <2> QED
    BY <1>4, <2>2, <2>5 DEF InOrder
<1> QED
  BY <1>3, <1>4

(* A first store() appends the datasets in the order of the codes *)
LEMMA OrderStep == TypeOK /\ WhereItIs /\ TempIsDataset /\ InfoCounted /\ StartsEmpty
    /\ SeenInOrder /\ [Next]_vars => SeenInOrder'
<1> SUFFICES ASSUME TypeOK, WhereItIs, TempIsDataset, InfoCounted, StartsEmpty, SeenInOrder, [Next]_vars
             PROVE SeenInOrder'
  OBVIOUS
<1> USE DEF TypeOK, WhereItIs, SeenInOrder, Storing, Done, Goto, Return1, Opening, Asking, Loop
<1>1. CASE Open
  BY <1>1, StoreAssumption DEF Open
<1>2. CASE AskInfo
  BY <1>2, StoreAssumption DEF AskInfo, Select, Runs, NotExecuted, Fails
<1>3. CASE AskResult
  BY <1>3, StoreAssumption DEF AskResult, Select, Runs, NotExecuted, Fails
<1>4. CASE MakeInfo
  BY <1>4, Created, StoreAssumption DEF MakeInfo, ExecuteAnyhow, Runs, Fails, Has
<1>5. CASE DropTable
  BY <1>5, ResultDropped, StoreAssumption DEF DropTable, ExecuteAnyhow, Runs, Fails, Has
<1>6. CASE MakeTable
  BY <1>6, Created, StoreAssumption DEF MakeTable, Executed, NotExecuted, Runs, Fails, Has
<1>7. CASE StoreCall
  BY <1>7, StoreAssumption DEF StoreCall
<1>8. CASE AskFactor
  BY <1>8, StoreAssumption DEF AskFactor, Select, Runs, NotExecuted, Fails, Has
<1>9. CASE PutFactor
  <2>1. \/ pc' = "idle" /\ ret' = "failed"
        \/ /\ pc' = "dropTemp" /\ i' = 1
           /\ up /\ ~err /\ Has("info") /\ pc = "putFactor" /\ stores' = stores
           /\ db' = IF rows >= 1 THEN db ELSE WithRow
    BY <1>9 DEF PutFactor, PutWith, Runs
  <2>2. CASE pc' = "dropTemp" /\ stores = 1
    <3>1. db.result = <<>> /\ (rows # 0 => db.info >= 1) /\ db.info \in Nat
      BY <2>1, <2>2, Fields DEF StartsEmpty, Fresh, InfoCounted
    <3>2. db'.result = <<>> /\ db'.info >= 1
      BY <2>1, <2>2, <3>1, InfoRow
    <3>3. \A c \in Full : ~(c <= 0)
      BY StoreAssumption DEF Full
    <3>4. InOrder(<<>>, 0)'
      BY <3>3, Places DEF InOrder, Place
    <3>5. Done' = 0
      BY <2>1, <2>2
    <3> QED
      BY <3>2, <3>4, <3>5
  <2> QED
    BY <2>1, <2>2
<1>10. CASE DropTemp
  BY <1>10, TempDropped, StoreAssumption DEF DropTemp, ExecuteAnyhow, Runs, Fails, Has,
     InOrder
<1>11. CASE MakeTemp
  BY <1>11, Created, StoreAssumption DEF MakeTemp, Then, Executed, Return1, Runs, Fails,
     Has, InOrder
<1>12. CASE FillTemp
  BY <1>12, Filling, StoreAssumption DEF InOrder
<1>13. CASE Publish
  <2>1. /\ pc = "publish" /\ run' = run /\ stores' = stores
        /\ \/ pc' = "idle" /\ ret' = "failed"
           \/ up /\ pc' = "clean" /\ i' = i /\ db' = Published
    BY <1>13 DEF Publish, Then, Executed, Runs
  <2>2. CASE up /\ pc' = "clean" /\ i' = i /\ db' = Published /\ stores = 1
    <3>1. InOrder(db.result, i - 1) /\ db.info >= 1 /\ i \in 1 .. Codes
      BY <2>1, <2>2
    <3>2. db.temp = Dataset(run, i) /\ Dataset(run, i) \in Seq(Row) /\ db.result \in Seq(Seq(Row))
      BY <2>1, <2>2, Rows, Fields DEF TempIsDataset
    <3>3. db'.result = IF i \in Empty THEN db.result ELSE Append(db.result, Dataset(run, i))
      BY <2>2, <3>1, <3>2, Appending
    <3>4. InOrder(db'.result, i) /\ db'.info >= 1
      BY <2>2, <3>1, <3>2, <3>3, NextInOrder, PublishedRows
    <3>5. Done' = i
      BY <2>2
    <3> QED
      BY <2>1, <3>4, <3>5 DEF InOrder
  <2> QED
    BY <2>1, <2>2
<1>14. CASE Clean
  BY <1>14, TempDropped, StoreAssumption DEF Clean, ExecuteAnyhow, Runs, Fails, Has, InOrder
<1>15. CASE Close
  BY <1>15, TempDropped, RolledBackRows, StoreAssumption DEF Close
<1>16. CASE LoseLink
  BY <1>16, RolledBackRows, StoreAssumption DEF LoseLink, InOrder
<1>17. CASE Crash
  BY <1>17, RolledBackRows, StoreAssumption DEF Crash
<1>18. CASE UNCHANGED vars
  BY <1>18 DEF vars, InOrder
<1> QED
  BY <1>1, <1>2, <1>3, <1>4, <1>5, <1>6, <1>7, <1>8, <1>9, <1>10, <1>11, <1>12, <1>13,
     <1>14, <1>15, <1>16, <1>17, <1>18 DEF Next

-----------------------------------------------------------------------------
LEMMA InitHolds == Init => IInv
<1> SUFFICES ASSUME Init PROVE IInv
  OBVIOUS
<1>1. Nothing \in Database
  BY DEF Nothing, Database
<1>2. TypeOK
  BY <1>1 DEF Init, TypeOK
<1>3. NoTableNoRows /\ WhereItIs /\ TempIsDataset /\ InfoCounted /\ WholeDatasets
  BY DEF Init, Nothing, NoTableNoRows, WhereItIs, TempIsDataset, InfoCounted, OneInfoRow,
         WholeDatasets, Opening, Asking, Loop
<1>4. Committed /\ Seen /\ SeenInOrder /\ StartsEmpty
  BY DEF Init, Committed, Seen, SeenInOrder, StartsEmpty, Storing, Loop
<1> QED
  BY <1>2, <1>3, <1>4 DEF IInv

LEMMA StepHolds == IInv /\ [Next]_vars => IInv'
<1> SUFFICES ASSUME IInv, [Next]_vars PROVE IInv'
  OBVIOUS
<1>1. /\ TypeOK /\ NoTableNoRows /\ WhereItIs /\ TempIsDataset /\ InfoCounted
      /\ WholeDatasets /\ Committed /\ Seen /\ SeenInOrder /\ StartsEmpty
  BY DEF IInv
<1>2. TypeOK' /\ NoTableNoRows' /\ WhereItIs' /\ TempIsDataset' /\ InfoCounted'
  BY <1>1, TypeStep, TablesStep, WhereStep, TempStep, InfoStep
<1>3. WholeDatasets' /\ Committed' /\ Seen' /\ SeenInOrder' /\ StartsEmpty'
  BY <1>1, WholeStep, CommittedStep, SeenStep, OrderStep, FreshStep
<1> QED
  BY <1>2, <1>3 DEF IInv

LEMMA Invariant == Spec => []IInv
  BY InitHolds, StepHolds, PTL DEF Spec

(* Whatever fails and whenever the link or the process is lost, what one   *)
(* statement published is one code's dataset, in the session and on disk.  *)
THEOREM WholeDatasetsAlways == Spec => []WholeDatasets
<1>1. IInv => WholeDatasets
  BY DEF IInv
<1> QED
  BY <1>1, Invariant, PTL

(* One row of factor_info for the factor, and one more at most for every   *)
(* select that failed.                                                     *)
THEOREM OneInfoRowAlways == Spec => []OneInfoRow
<1>1. IInv => OneInfoRow
  BY DEF IInv, InfoCounted
<1> QED
  BY <1>1, Invariant, PTL

(* When the first store() of an opened store returns 0, the session sees   *)
(* every code's dataset, in the order of the codes, and nothing else.      *)
THEOREM SuccessMeansStoredAlways == Spec => []SuccessMeansStored
<1>1. IInv => SuccessMeansStored
  <2> SUFFICES ASSUME IInv, pc = "idle", ret = "ok", up, stores = 1
               PROVE  /\ DOMAIN db.result = 1 .. Place(Codes)
                      /\ \A c \in Full : db.result[Place(c)] = Dataset(run, c)
                      /\ db.info >= 1
    BY DEF SuccessMeansStored
  <2>1. InOrder(db.result, Codes) /\ db.info >= 1
    BY DEF IInv, SeenInOrder, Storing, Done, Loop
  <2>2. \A c \in Full : c <= Codes
    BY StoreAssumption DEF Full
  <2> QED
    BY <2>1, <2>2 DEF InOrder
<1> QED
  BY <1>1, Invariant, PTL

(* After a store() that returned 0 nothing but the last code that has rows *)
(* can still be lost, although there is no transaction.                    *)
THEOREM OnlyTheLastIsAtRiskAlways == Spec => []OnlyTheLastIsAtRisk
<1>1. IInv => OnlyTheLastIsAtRisk
  <2> SUFFICES ASSUME IInv, ret = "ok", NEW c \in Full, NEW d \in Full, c < d
               PROVE  \E j \in DOMAIN disk.result : disk.result[j] = Dataset(run, c)
    BY DEF OnlyTheLastIsAtRisk
  <2>1. d <= Flushed
    BY StoreAssumption DEF Full, IInv, WhereItIs, Flushed, Loop
  <2> QED
    BY <2>1 DEF IInv, Committed, Storing, Among
<1> QED
  BY <1>1, Invariant, PTL
=============================================================================
