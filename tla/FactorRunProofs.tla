--------------------------- MODULE FactorRunProofs ---------------------------
(***************************************************************************)
(* A proof about a factor program's run, for any number of stocks, bars    *)
(* and processors and any length of the window.  That the threads' ranges  *)
(* cover the stocks and do not overlap is a fact about division; the       *)
(* invariant says how far each thread has come in its own range.           *)
(***************************************************************************)
EXTENDS FactorRun, TLAPS

Inputs == /\ Stocks \in Nat
          /\ Threads \in Nat \ {0}
          /\ Count \in Nat \ {0}
          /\ Bars \in [Stock -> Nat]

-----------------------------------------------------------------------------
(* The division of the stocks among the threads *)

LEMMA Division ==
  ASSUME NEW a \in Nat, NEW b \in Nat \ {0}
  PROVE  /\ a \div b \in Nat
         /\ (a \div b) * b <= a
         /\ a < (a \div b) * b + b
  OBVIOUS

LEMMA ProductsKeepOrder ==
  ASSUME NEW a \in Int, NEW b \in Int, NEW c \in Nat, a <= b
  PROVE  a * c <= b * c
<1>1. b - a \in Nat /\ (b - a) * c >= 0
  OBVIOUS
<1> QED
  BY <1>1

LEMMA ProductsTellOrder ==
  ASSUME NEW a \in Int, NEW b \in Int, NEW c \in Nat, a * c < b * c
  PROVE  a < b
<1>1. CASE b <= a
  BY <1>1, ProductsKeepOrder
<1> QED
  BY <1>1

LEMMA QuotientAtMost ==
  ASSUME NEW a \in Nat, NEW b \in Nat \ {0}, NEW c \in Int, a < (c + 1) * b
  PROVE  a \div b <= c
<1>1. (a \div b) * b < (c + 1) * b /\ a \div b \in Nat
  BY Division
<1> QED
  BY <1>1, ProductsTellOrder

LEMMA QuotientAtLeast ==
  ASSUME NEW a \in Nat, NEW b \in Nat \ {0}, NEW c \in Int, c * b <= a
  PROVE  c <= a \div b
<1>1. c * b < (a \div b + 1) * b /\ a \div b \in Nat
  BY Division
<1> QED
  BY <1>1, ProductsTellOrder

LEMMA RangesInside ==
  ASSUME Inputs, NEW r \in Task
  PROVE  /\ StockBegin(r) \in Nat
         /\ StockEnd(r) \in Nat
         /\ StockBegin(r) <= StockEnd(r)
         /\ StockEnd(r) <= Stocks
<1>1. /\ r * Stocks \in Nat
      /\ (r + 1) * Stocks \in Nat
      /\ r * Stocks <= (r + 1) * Stocks
  BY DEF Inputs, Task
<1>2. StockBegin(r) \in Nat /\ StockEnd(r) \in Nat
  BY <1>1, Division DEF Inputs, StockBegin, StockEnd
<1>3. StockBegin(r) <= StockEnd(r)
  <2>1. StockBegin(r) * Threads <= (r + 1) * Stocks
    BY <1>1, <1>2, Division DEF Inputs, StockBegin
  <2> QED
    BY <1>1, <1>2, <2>1, QuotientAtLeast DEF Inputs, StockEnd
<1>4. StockEnd(r) <= Stocks
  <2>1. (r + 1) * Stocks <= Threads * Stocks
    BY ProductsKeepOrder DEF Inputs, Task
  <2>2. (r + 1) * Stocks < (Stocks + 1) * Threads
    BY <1>1, <2>1 DEF Inputs
  <2> QED
    BY <1>1, <2>2, QuotientAtMost DEF Inputs, StockEnd
<1> QED
  BY <1>2, <1>3, <1>4

LEMMA RangesApart ==
  ASSUME Inputs, NEW r \in Task, NEW s \in Task, r < s
  PROVE  StockEnd(r) <= StockBegin(s)
<1>1. r + 1 <= s /\ r \in Nat /\ s \in Nat
  BY DEF Task, Inputs
<1>2. (r + 1) * Stocks <= s * Stocks
  BY <1>1, ProductsKeepOrder DEF Inputs
<1>3. (r + 1) * Stocks \in Nat /\ s * Stocks \in Nat
  BY <1>1 DEF Inputs
<1>4. StockEnd(r) * Threads <= s * Stocks /\ StockEnd(r) \in Nat
  BY <1>2, <1>3, Division DEF Inputs, StockEnd
<1> QED
  BY <1>3, <1>4, QuotientAtLeast DEF Inputs, StockBegin

LEMMA EveryStockInARange ==
  ASSUME Inputs, NEW i \in Stock
  PROVE  \E r \in Task : StockBegin(r) <= i /\ i < StockEnd(r)
<1> DEFINE last == (i + 1) * Threads - 1
           r == last \div Stocks
<1>1. /\ i \in Nat
      /\ Stocks \in Nat \ {0}
      /\ i + 1 <= Stocks
  BY DEF Inputs, Stock
<1>2. (i + 1) * Threads >= 1 * Threads
  BY <1>1, ProductsKeepOrder DEF Inputs
<1>3. last \in Nat
  BY <1>1, <1>2 DEF Inputs
<1>4. /\ r \in Nat
      /\ r * Stocks <= last
      /\ last < (r + 1) * Stocks
  BY <1>1, <1>3, Division
<1>5. r < Threads
  <2>1. (i + 1) * Threads <= Stocks * Threads
    BY <1>1, ProductsKeepOrder DEF Inputs
  <2>2. r * Stocks < Threads * Stocks
    BY <1>1, <1>4, <2>1 DEF Inputs
  <2> QED
    BY <1>1, <1>4, <2>2, ProductsTellOrder DEF Inputs
<1>6. /\ r * Stocks \in Nat
      /\ (r + 1) * Stocks \in Nat
      /\ r * Stocks < (i + 1) * Threads
      /\ (i + 1) * Threads <= (r + 1) * Stocks
  BY <1>1, <1>3, <1>4 DEF Inputs
<1>7. StockBegin(r) <= i
  <2> HIDE DEF r
  <2>1. (r * Stocks) \div Threads <= i
    BY <1>1, <1>6, QuotientAtMost DEF Inputs
  <2> QED
    BY <2>1 DEF StockBegin
<1>8. i + 1 <= StockEnd(r)
  BY <1>1, <1>6, QuotientAtLeast DEF Inputs, StockEnd
<1>9. r \in Task /\ StockEnd(r) \in Nat
  BY <1>4, <1>5, RangesInside DEF Task, Inputs
<1> QED
  BY <1>1, <1>7, <1>8, <1>9

LEMMA OneRangeEach ==
  ASSUME Inputs, NEW r \in Task, NEW s \in Task, NEW i \in Int,
         StockBegin(r) <= i, i < StockEnd(r), StockBegin(s) <= i, i < StockEnd(s)
  PROVE  r = s
<1>1. r \in Int /\ s \in Int
  BY DEF Task, Inputs
<1>2. /\ StockBegin(r) \in Nat /\ StockEnd(r) \in Nat
      /\ StockBegin(s) \in Nat /\ StockEnd(s) \in Nat
  BY RangesInside
<1>3. ~ (r < s)
  BY <1>2, RangesApart
<1>4. ~ (s < r)
  BY <1>2, RangesApart
<1> QED
  BY <1>1, <1>3, <1>4

-----------------------------------------------------------------------------
(* The inductive invariant *)

Column(i) == [0 .. Windows(i) - 1 -> Int]
Columns == UNION {Column(i) : i \in Stock}
Whole(column, i) == column = [k \in 0 .. Windows(i) - 1 |-> k]

TypeOK == /\ main \in {"clear", "spawn", "join", "joined", "stored"}
          /\ next \in Task
          /\ pc \in [Task -> {"none", "stock", "window", "done"}]
          /\ stock \in [Task -> Nat]
          /\ bar \in [Task -> Nat]
          /\ slot \in [Task -> Nat]

Sized == main # "clear" => /\ result \in [Stock -> Columns]
                           /\ \A i \in Stock : result[i] \in Column(i)

(* Where the program is tells which threads run *)
Phases == /\ main = "clear" => next = 0
          /\ \A r \in Task :
               /\ main = "clear" => pc[r] = "none"
               /\ main = "spawn" => (pc[r] = "none" <=> next <= r)
               /\ main = "join" => pc[r] # "none" /\ (r < next => pc[r] = "done")
               /\ main \in {"joined", "stored"} => pc[r] = "done"

(* A thread has done the stocks of its range before the one it is at, and  *)
(* of that one the windows before slot                                     *)
InRange(r) == StockBegin(r) <= stock[r] /\ stock[r] <= StockEnd(r)

Behind(r) ==
  \A i \in Stock : StockBegin(r) <= i /\ i < stock[r] => Whole(result[i], i)

AtWindow(r) == /\ stock[r] < StockEnd(r)
               /\ Count <= Bars[stock[r]]
               /\ Count <= bar[r]
               /\ bar[r] <= Bars[stock[r]] + 1
               /\ slot[r] = bar[r] - Count
               /\ \A k \in 0 .. slot[r] - 1 : result[stock[r]][k] = k

Work(r) == /\ pc[r] # "none" => InRange(r) /\ Behind(r)
           /\ pc[r] = "window" => AtWindow(r)
           /\ pc[r] = "done" => stock[r] = StockEnd(r)

Progress == \A r \in Task : Work(r)

IInv == TypeOK /\ Sized /\ Phases /\ Progress /\ ResultsWhole

LEMMA WindowsOfAStock ==
  ASSUME Inputs, NEW i \in Stock
  PROVE  /\ Windows(i) \in Nat
         /\ Bars[i] \in Nat
         /\ Count <= Bars[i] => Windows(i) = Bars[i] - Count + 1
         /\ Bars[i] < Count => Windows(i) = 0
  BY DEF Inputs, Windows

LEMMA InitHolds == ASSUME Inputs PROVE Init => IInv
<1> SUFFICES ASSUME Init PROVE IInv
  OBVIOUS
<1>1. 0 \in Task
  BY DEF Inputs, Task
<1>2. TypeOK
  BY <1>1 DEF Init, TypeOK
<1>3. Sized /\ Phases /\ Progress /\ ResultsWhole
  BY DEF Init, Sized, Phases, Progress, Work, ResultsWhole
<1> QED
  BY <1>2, <1>3 DEF IInv

-----------------------------------------------------------------------------
(* The steps of the program *)

LEMMA ClearHolds == ASSUME Inputs, IInv, Clear PROVE IInv'
<1>1. \A i \in Stock : result'[i] \in Column(i)
  BY DEF Clear, Column, Blank
<1>2. result' \in [Stock -> Columns]
  BY <1>1 DEF Clear, Columns
<1>3. TypeOK' /\ Sized'
  BY <1>1, <1>2 DEF IInv, TypeOK, Sized, Clear, threadVars
<1>4. Phases'
  BY DEF IInv, TypeOK, Phases, Clear, threadVars, Task, Inputs
<1>5. Progress' /\ ResultsWhole'
  BY DEF IInv, Phases, Progress, Work, ResultsWhole, Clear, threadVars
<1> QED
  BY <1>3, <1>4, <1>5 DEF IInv

LEMMA AdvanceFacts ==
  ASSUME Inputs, TypeOK, NEW from, NEW to, Advance(from, to)
  PROVE  /\ main = from
         /\ next' \in Task
         /\ \/ main' = from /\ next' = next + 1
            \/ main' = to /\ next' = 0 /\ next = Threads - 1
  BY DEF Inputs, TypeOK, Advance, Task

LEMMA SpawnHolds == ASSUME Inputs, IInv, Spawn PROVE IInv'
<1>1. /\ main = "spawn"
      /\ next' \in Task
      /\ \/ main' = "spawn" /\ next' = next + 1
         \/ main' = "join" /\ next' = 0 /\ next = Threads - 1
  BY AdvanceFacts DEF IInv, Spawn
<1>2. next \in Task /\ pc[next] = "none"
  BY <1>1 DEF IInv, TypeOK, Phases, Task
<1>3. StockBegin(next) \in Nat /\ StockBegin(next) <= StockEnd(next)
  BY <1>2, RangesInside
<1>4. TypeOK' /\ Sized' /\ ResultsWhole'
  BY <1>1, <1>2, <1>3 DEF IInv, TypeOK, Sized, ResultsWhole, Spawn
<1>5. Phases'
  <2>1. \A r \in Task : /\ r \in Int /\ r <= Threads - 1
                        /\ pc[r] = "none" <=> next <= r
                        /\ pc'[r] = IF r = next THEN "stock" ELSE pc[r]
    BY <1>1 DEF IInv, TypeOK, Phases, Spawn, Task, Inputs
  <2>2. next \in Int /\ Threads \in Int
    BY <1>2 DEF Task, Inputs
  <2>3. CASE main' = "spawn" /\ next' = next + 1
    BY <2>1, <2>2, <2>3 DEF Phases
  <2>4. CASE main' = "join" /\ next' = 0 /\ next = Threads - 1
    <3>1. \A r \in Task : pc'[r] # "none" /\ ~(r < next')
      BY <2>1, <2>2, <2>4 DEF Task
    <3> QED
      BY <2>4, <3>1 DEF Phases
  <2> QED
    BY <1>1, <2>3, <2>4
<1>6. Progress'
  <2> SUFFICES ASSUME NEW r \in Task PROVE Work(r)'
    BY DEF Progress
  <2>1. CASE r = next
    BY <1>2, <1>3, <2>1 DEF IInv, TypeOK, Spawn, Work, InRange, Behind, Stock
  <2>2. CASE r # next
    BY <1>2, <2>2 DEF IInv, TypeOK, Progress, Spawn, Work, InRange, Behind, AtWindow
  <2> QED
    BY <2>1, <2>2
<1> QED
  BY <1>4, <1>5, <1>6 DEF IInv

LEMMA JoinHolds == ASSUME Inputs, IInv, Join PROVE IInv'
<1>1. /\ main = "join"
      /\ next' \in Task
      /\ \/ main' = "join" /\ next' = next + 1
         \/ main' = "joined" /\ next' = 0 /\ next = Threads - 1
  BY AdvanceFacts DEF IInv, Join
<1>2. next \in Task /\ pc[next] = "done"
  BY DEF IInv, TypeOK, Join
<1>3. TypeOK' /\ Sized' /\ ResultsWhole'
  BY <1>1 DEF IInv, TypeOK, Sized, ResultsWhole, Join, threadVars
<1>4. Phases'
  <2>1. \A r \in Task : /\ r \in Int /\ r <= Threads - 1
                        /\ pc[r] # "none" /\ (r < next => pc[r] = "done")
                        /\ pc'[r] = pc[r]
    BY <1>1 DEF IInv, Phases, Join, threadVars, Task, Inputs
  <2>2. next \in Int /\ Threads \in Int
    BY <1>2 DEF Task, Inputs
  <2>3. CASE main' = "join" /\ next' = next + 1
    BY <1>2, <2>1, <2>2, <2>3 DEF Phases
  <2>4. CASE main' = "joined" /\ next' = 0 /\ next = Threads - 1
    <3>1. \A r \in Task : pc'[r] = "done"
      BY <1>2, <2>1, <2>2, <2>4
    <3> QED
      BY <2>4, <3>1 DEF Phases
  <2> QED
    BY <1>1, <2>3, <2>4
<1>5. Progress'
  BY DEF IInv, Progress, Join, threadVars, Work, InRange, Behind, AtWindow
<1> QED
  BY <1>3, <1>4, <1>5 DEF IInv

(* When all threads are done every stock lies behind one of them.          *)
LEMMA StoreHolds == ASSUME Inputs, IInv, Store PROVE IInv'
<1>1. \A i \in Stock : Whole(result[i], i)
  <2> SUFFICES ASSUME NEW i \in Stock PROVE Whole(result[i], i)
    OBVIOUS
  <2>1. PICK r \in Task : StockBegin(r) <= i /\ i < StockEnd(r)
    BY EveryStockInARange
  <2>2. pc[r] = "done"
    BY DEF IInv, Phases, Store
  <2>3. Behind(r) /\ stock[r] = StockEnd(r)
    BY <2>2 DEF IInv, Progress, Work
  <2> QED
    BY <2>1, <2>3 DEF Behind
<1>2. TypeOK' /\ Sized' /\ Phases'
  BY DEF IInv, TypeOK, Sized, Phases, Store, threadVars
<1>3. Progress'
  BY DEF IInv, Progress, Store, threadVars, Work, InRange, Behind, AtWindow
<1>4. ResultsWhole'
  BY <1>1 DEF Store, ResultsWhole, Whole
<1> QED
  BY <1>2, <1>3, <1>4 DEF IInv

-----------------------------------------------------------------------------
(* The steps of the threads *)

(* A thread runs between its creation and its end; while it does the       *)
(* results are sized, not stored, and the program waits for it or others.  *)
LEMMA Running ==
  ASSUME Inputs, IInv, NEW r \in Task, pc[r] \in {"stock", "window"},
         NEW to \in {"stock", "window", "done"},
         pc' = [pc EXCEPT ![r] = to], UNCHANGED program
  PROVE  /\ main # "clear" /\ main # "stored"
         /\ Phases'
         /\ ResultsWhole'
         /\ pc' \in [Task -> {"none", "stock", "window", "done"}]
         /\ main' \in {"clear", "spawn", "join", "joined", "stored"}
         /\ next' \in Task
<1>1. main \in {"spawn", "join"} /\ next' = next /\ main' = main
  BY DEF IInv, TypeOK, Phases, program
<1>2. \A s \in Task : pc'[s] = IF s = r THEN to ELSE pc[s]
  BY DEF IInv, TypeOK
<1>3. Phases'
  BY <1>1, <1>2 DEF IInv, Phases
<1> QED
  BY <1>1, <1>3 DEF IInv, TypeOK, ResultsWhole

(* What one thread does in its range is of no matter to the others.        *)
LEMMA OthersHold ==
  ASSUME Inputs, IInv, NEW r \in Task, NEW s \in Task, s # r,
         pc'[s] = pc[s], stock'[s] = stock[s], bar'[s] = bar[s], slot'[s] = slot[s],
         \A i \in Stock : ~(StockBegin(r) <= i /\ i < StockEnd(r)) => result'[i] = result[i]
  PROVE  Work(s)'
<1>1. Work(s) /\ stock[s] \in Nat
  BY DEF IInv, Progress, TypeOK
<1>2. StockEnd(s) <= Stocks /\ StockEnd(s) \in Nat /\ StockBegin(s) \in Nat
  BY RangesInside
<1>3. \A i \in Stock : StockBegin(s) <= i /\ i < StockEnd(s) => result'[i] = result[i]
  BY OneRangeEach DEF Stock
<1>4. ASSUME pc[s] # "none" PROVE InRange(s)' /\ Behind(s)'
  <2>1. InRange(s) /\ Behind(s)
    BY <1>1, <1>4 DEF Work
  <2>2. InRange(s)'
    BY <2>1 DEF InRange
  <2>3. ASSUME NEW i \in Stock, StockBegin(s) <= i, i < stock'[s]
        PROVE  Whole(result'[i], i)
    <3>1. i \in Int /\ i < stock[s] /\ i < StockEnd(s)
      BY <1>1, <1>2, <2>1, <2>3 DEF InRange, Stock
    <3> QED
      BY <1>3, <2>1, <2>3, <3>1 DEF Behind, Whole
  <2> QED
    BY <2>2, <2>3 DEF Behind
<1>5. ASSUME pc[s] = "window" PROVE AtWindow(s)'
  <2>1. AtWindow(s) /\ InRange(s)
    BY <1>1, <1>5 DEF Work
  <2>2. stock[s] \in Stock /\ result'[stock[s]] = result[stock[s]]
    BY <1>1, <1>2, <1>3, <2>1 DEF AtWindow, InRange, Stock, Inputs
  <2> QED
    BY <2>1, <2>2 DEF AtWindow
<1> QED
  BY <1>1, <1>4, <1>5 DEF Work

LEMMA ThreadProgress ==
  ASSUME Inputs, IInv, NEW r \in Task, Work(r)', Thread(r),
         \A i \in Stock : ~(StockBegin(r) <= i /\ i < StockEnd(r)) => result'[i] = result[i]
  PROVE  Progress'
<1> SUFFICES ASSUME NEW s \in Task PROVE Work(s)'
  BY DEF Progress
<1>1. CASE s = r
  BY <1>1
<1>2. CASE s # r
  <2>1. /\ pc'[s] = pc[s] /\ stock'[s] = stock[s]
        /\ bar'[s] = bar[s] /\ slot'[s] = slot[s]
    BY <1>2 DEF IInv, TypeOK, Thread, Short, Begin, Solve, NextStock, Finish
  <2> QED
    BY <1>2, <2>1, OthersHold
<1> QED
  BY <1>1, <1>2

(* A thread that is in its range is at a stock of the list.                *)
LEMMA AtAStock ==
  ASSUME Inputs, IInv, NEW r \in Task, pc[r] # "none", stock[r] < StockEnd(r)
  PROVE  /\ stock[r] \in Stock
         /\ stock[r] \in Nat
         /\ StockBegin(r) \in Nat /\ StockEnd(r) \in Nat
         /\ StockBegin(r) <= stock[r]
         /\ Behind(r)
         /\ result \in [Stock -> Columns]
         /\ \A i \in Stock : result[i] \in Column(i)
         /\ stock \in [Task -> Nat] /\ bar \in [Task -> Nat] /\ slot \in [Task -> Nat]
<1>1. Work(r) /\ TypeOK /\ stock[r] \in Nat
  BY DEF IInv, Progress, TypeOK
<1>2. InRange(r) /\ Behind(r)
  BY <1>1 DEF Work
<1>3. StockEnd(r) <= Stocks /\ StockEnd(r) \in Nat /\ StockBegin(r) \in Nat
  BY RangesInside
<1>4. stock[r] \in Stock
  BY <1>1, <1>3 DEF Stock, Inputs
<1>5. main # "clear"
  BY DEF IInv, Phases
<1> QED
  BY <1>1, <1>2, <1>3, <1>4, <1>5 DEF InRange, IInv, TypeOK, Sized

LEMMA ShortHolds ==
  ASSUME Inputs, IInv, NEW r \in Task, Short(r)
  PROVE  IInv'
<1>1. /\ pc[r] = "stock" /\ stock[r] < StockEnd(r) /\ Bars[stock[r]] < Count
      /\ stock' = [stock EXCEPT ![r] = @ + 1]
      /\ UNCHANGED <<program, result, pc, bar, slot>>
  BY DEF Short
<1>2. /\ stock[r] \in Stock /\ stock[r] \in Nat
      /\ StockBegin(r) \in Nat /\ StockEnd(r) \in Nat
      /\ StockBegin(r) <= stock[r] /\ Behind(r)
      /\ \A i \in Stock : result[i] \in Column(i)
      /\ stock' \in [Task -> Nat] /\ stock'[r] = stock[r] + 1
  BY <1>1, AtAStock
<1>3. pc' = [pc EXCEPT ![r] = "stock"] /\ UNCHANGED program
  BY <1>1 DEF IInv, TypeOK
<1>4. Phases' /\ ResultsWhole' /\ TypeOK' /\ Sized'
  BY <1>1, <1>2, <1>3, Running DEF IInv, TypeOK, Sized, program
<1>5. Whole(result[stock[r]], stock[r])
  <2>1. Windows(stock[r]) = 0 /\ 0 .. 0 - 1 = {}
    BY <1>1, <1>2, WindowsOfAStock
  <2>2. result[stock[r]] \in [0 .. 0 - 1 -> Int]
    BY <1>2, <2>1 DEF Column
  <2> QED
    BY <2>1, <2>2 DEF Whole
<1>6. Behind(r)'
  <2> SUFFICES ASSUME NEW i \in Stock, StockBegin(r) <= i, i < stock'[r]
               PROVE  Whole(result[i], i)
    BY <1>1 DEF Behind, Whole, Windows
  <2>1. i \in Int
    BY DEF Stock
  <2> QED
    BY <1>2, <1>5, <2>1 DEF Behind
<1>7. Work(r)'
  BY <1>1, <1>2, <1>6 DEF Work, InRange
<1>8. Progress'
  BY <1>1, <1>7, ThreadProgress DEF Thread
<1> QED
  BY <1>4, <1>8 DEF IInv

LEMMA BeginHolds ==
  ASSUME Inputs, IInv, NEW r \in Task, Begin(r)
  PROVE  IInv'
<1>1. /\ pc[r] = "stock" /\ stock[r] < StockEnd(r) /\ Bars[stock[r]] >= Count
      /\ pc' = [pc EXCEPT ![r] = "window"]
      /\ bar' = [bar EXCEPT ![r] = Count] /\ slot' = [slot EXCEPT ![r] = 0]
      /\ UNCHANGED <<program, result, stock>>
  BY DEF Begin
<1>2. /\ stock[r] \in Stock /\ stock[r] \in Nat
      /\ StockBegin(r) \in Nat /\ StockEnd(r) \in Nat
      /\ StockBegin(r) <= stock[r] /\ Behind(r)
      /\ bar \in [Task -> Nat] /\ slot \in [Task -> Nat]
      /\ Bars[stock[r]] \in Nat /\ Count \in Nat
  BY <1>1, AtAStock, WindowsOfAStock DEF Inputs
<1>3. /\ bar' \in [Task -> Nat] /\ slot' \in [Task -> Nat]
      /\ bar'[r] = Count /\ slot'[r] = 0 /\ pc'[r] = "window"
  BY <1>1, <1>2 DEF IInv, TypeOK
<1>4. Phases' /\ ResultsWhole' /\ TypeOK' /\ Sized'
  BY <1>1, <1>3, Running DEF IInv, TypeOK, Sized, program
<1>5. Behind(r)' /\ InRange(r)'
  BY <1>1, <1>2 DEF Behind, InRange, Whole
<1>6. AtWindow(r)'
  BY <1>1, <1>2, <1>3 DEF AtWindow
<1>7. Work(r)'
  BY <1>3, <1>5, <1>6 DEF Work
<1>8. Progress'
  BY <1>1, <1>7, ThreadProgress DEF Thread
<1> QED
  BY <1>4, <1>8 DEF IInv

LEMMA SolveHolds ==
  ASSUME Inputs, IInv, NEW r \in Task, Solve(r)
  PROVE  IInv'
<1> DEFINE i == stock[r]
           k == slot[r]
<1>1. /\ pc[r] = "window" /\ bar[r] <= Bars[i]
      /\ result' = [result EXCEPT ![i][k] = bar[r] - Count]
      /\ bar' = [bar EXCEPT ![r] = @ + 1] /\ slot' = [slot EXCEPT ![r] = @ + 1]
      /\ UNCHANGED <<program, pc, stock>>
  BY DEF Solve
<1>2. AtWindow(r) /\ i < StockEnd(r)
  BY <1>1 DEF IInv, Progress, Work, AtWindow
<1>3. /\ i \in Stock /\ i \in Nat
      /\ StockBegin(r) \in Nat /\ StockEnd(r) \in Nat
      /\ StockBegin(r) <= i /\ Behind(r)
      /\ result \in [Stock -> Columns]
      /\ \A j \in Stock : result[j] \in Column(j)
      /\ bar \in [Task -> Nat] /\ slot \in [Task -> Nat]
      /\ bar[r] \in Nat /\ k \in Nat
      /\ Bars[i] \in Nat /\ Count \in Nat
      /\ Windows(i) = Bars[i] - Count + 1
  BY <1>1, <1>2, AtAStock, WindowsOfAStock DEF Inputs, AtWindow
<1>4. /\ bar' \in [Task -> Nat] /\ slot' \in [Task -> Nat]
      /\ bar'[r] = bar[r] + 1 /\ slot'[r] = k + 1
      /\ bar[r] - Count = k /\ k \in 0 .. Windows(i) - 1
  BY <1>1, <1>2, <1>3 DEF AtWindow
<1> HIDE DEF i, k
<1>5. /\ result'[i] = [result[i] EXCEPT ![k] = k]
      /\ \A j \in Stock : j # i => result'[j] = result[j]
      /\ DOMAIN result' = Stock
      /\ result' = [j \in Stock |-> result'[j]]
  BY <1>1, <1>3, <1>4
<1>6. result'[i] \in Column(i) /\ \A m \in 0 .. k : result'[i][m] = IF m = k THEN k ELSE result[i][m]
  <2>1. result[i] \in [0 .. Windows(i) - 1 -> Int] /\ k \in Int /\ k \in 0 .. Windows(i) - 1
    BY <1>3, <1>4 DEF Column
  <2>2. result'[i] \in [0 .. Windows(i) - 1 -> Int]
    BY <1>5, <2>1
  <2>3. \A m \in 0 .. k : m \in 0 .. Windows(i) - 1
    BY <1>3, <1>4
  <2>4. \A m \in 0 .. k : result'[i][m] = IF m = k THEN k ELSE result[i][m]
    BY <1>5, <2>1, <2>3
  <2> QED
    BY <2>2, <2>4 DEF Column
<1>7. \A j \in Stock : result'[j] \in Column(j)
  BY <1>3, <1>5, <1>6
<1>8. result' \in [Stock -> Columns]
  BY <1>5, <1>7 DEF Columns
<1>9. pc' = [pc EXCEPT ![r] = "window"]
  BY <1>1 DEF IInv, TypeOK
<1>10. Phases' /\ ResultsWhole' /\ TypeOK' /\ Sized'
  <2>1. Phases' /\ ResultsWhole'
    BY <1>1, <1>9, Running
  <2>2. TypeOK'
    BY <1>1, <1>4 DEF IInv, TypeOK, program
  <2>3. Sized'
    BY <1>7, <1>8 DEF Sized, Column, Windows
  <2> QED
    BY <2>1, <2>2, <2>3
<1>11. InRange(r)' /\ Behind(r)'
  <2>1. InRange(r)'
    BY <1>1 DEF IInv, Progress, Work, InRange
  <2>2. ASSUME NEW j \in Stock, StockBegin(r) <= j, j < stock'[r]
        PROVE  Whole(result'[j], j)
    <3>1. j \in Int /\ j < i
      BY <1>1, <2>2 DEF i, Stock
    <3>2. result'[j] = result[j] /\ Whole(result[j], j)
      BY <1>3, <1>5, <2>2, <3>1 DEF Behind, i
    <3> QED
      BY <3>2
  <2> QED
    BY <2>1, <2>2 DEF Behind, Whole
<1>12. AtWindow(r)'
  <2>1. /\ stock'[r] = i /\ i < StockEnd(r) /\ Count <= Bars[i]
        /\ Count <= bar[r] /\ bar[r] <= Bars[i] /\ k = bar[r] - Count
        /\ \A m \in 0 .. k - 1 : result[i][m] = m
    BY <1>1, <1>2 DEF AtWindow, i, k
  <2>2. \A m \in 0 .. slot'[r] - 1 : result'[i][m] = m
    BY <1>3, <1>4, <1>6, <2>1
  <2>3. Count <= bar'[r] /\ bar'[r] <= Bars[i] + 1 /\ slot'[r] = bar'[r] - Count
    BY <1>3, <1>4, <2>1
  <2> QED
    BY <2>1, <2>2, <2>3 DEF AtWindow
<1>13. Work(r)'
  BY <1>1, <1>11, <1>12 DEF Work
<1>14. \A j \in Stock : ~(StockBegin(r) <= j /\ j < StockEnd(r)) => result'[j] = result[j]
  BY <1>2, <1>3, <1>5
<1>15. Progress'
  BY <1>13, <1>14, ThreadProgress DEF Thread
<1> QED
  BY <1>10, <1>15 DEF IInv

LEMMA NextStockHolds ==
  ASSUME Inputs, IInv, NEW r \in Task, NextStock(r)
  PROVE  IInv'
<1> DEFINE i == stock[r]
<1>1. /\ pc[r] = "window" /\ bar[r] > Bars[i]
      /\ pc' = [pc EXCEPT ![r] = "stock"]
      /\ stock' = [stock EXCEPT ![r] = @ + 1]
      /\ UNCHANGED <<program, result, bar, slot>>
  BY DEF NextStock
<1>2. AtWindow(r) /\ i < StockEnd(r)
  BY <1>1 DEF IInv, Progress, Work, AtWindow
<1>3. /\ i \in Stock /\ i \in Nat
      /\ StockBegin(r) \in Nat /\ StockEnd(r) \in Nat
      /\ StockBegin(r) <= i /\ Behind(r)
      /\ result[i] \in Column(i)
      /\ stock' \in [Task -> Nat] /\ stock'[r] = i + 1
      /\ bar[r] \in Nat
      /\ Bars[i] \in Nat /\ Count \in Nat
      /\ Windows(i) = Bars[i] - Count + 1
  BY <1>1, <1>2, AtAStock, WindowsOfAStock DEF Inputs, AtWindow
<1>4. Whole(result[i], i)
  <2>1. slot[r] = Windows(i) /\ \A k \in 0 .. slot[r] - 1 : result[i][k] = k
    BY <1>1, <1>2, <1>3 DEF AtWindow
  <2>2. result[i] \in [0 .. Windows(i) - 1 -> Int]
    BY <1>3 DEF Column
  <2> HIDE DEF i
  <2> QED
    BY <2>1, <2>2 DEF Whole
<1>5. Phases' /\ ResultsWhole' /\ TypeOK' /\ Sized'
  BY <1>1, <1>3, Running DEF IInv, TypeOK, Sized, program
<1>6. Behind(r)'
  <2> SUFFICES ASSUME NEW j \in Stock, StockBegin(r) <= j, j < stock'[r]
               PROVE  Whole(result[j], j)
    BY <1>1 DEF Behind, Whole
  <2>1. j \in Int
    BY DEF Stock
  <2> QED
    BY <1>3, <1>4, <2>1 DEF Behind
<1>7. pc'[r] = "stock"
  BY <1>1 DEF IInv, TypeOK
<1>8. Work(r)'
  BY <1>2, <1>3, <1>6, <1>7 DEF Work, InRange
<1>9. Progress'
  BY <1>1, <1>8, ThreadProgress DEF Thread
<1> QED
  BY <1>5, <1>9 DEF IInv

LEMMA FinishHolds ==
  ASSUME Inputs, IInv, NEW r \in Task, Finish(r)
  PROVE  IInv'
<1>1. /\ pc[r] = "stock" /\ stock[r] >= StockEnd(r)
      /\ pc' = [pc EXCEPT ![r] = "done"]
      /\ UNCHANGED <<program, result, stock, bar, slot>>
  BY DEF Finish
<1>2. InRange(r) /\ Behind(r) /\ stock[r] \in Nat
  BY <1>1 DEF IInv, TypeOK, Progress, Work
<1>3. Phases' /\ ResultsWhole' /\ TypeOK' /\ Sized'
  BY <1>1, Running DEF IInv, TypeOK, Sized, program
<1>4. InRange(r)' /\ Behind(r)'
  BY <1>1, <1>2 DEF InRange, Behind, Whole
<1>5. stock'[r] = StockEnd(r)
  BY <1>1, <1>2, RangesInside DEF InRange
<1>6. pc'[r] = "done"
  BY <1>1 DEF IInv, TypeOK
<1>7. Work(r)'
  BY <1>4, <1>5, <1>6 DEF Work
<1>8. Progress'
  BY <1>1, <1>7, ThreadProgress DEF Thread
<1> QED
  BY <1>3, <1>8 DEF IInv

-----------------------------------------------------------------------------
LEMMA StepHolds == ASSUME Inputs PROVE IInv /\ [Next]_vars => IInv'
<1> SUFFICES ASSUME IInv, [Next]_vars PROVE IInv'
  OBVIOUS
<1>1. CASE Clear \/ Spawn \/ Join \/ Store
  BY <1>1, ClearHolds, SpawnHolds, JoinHolds, StoreHolds
<1>2. ASSUME NEW r \in Task, Thread(r) PROVE IInv'
  BY <1>2, ShortHolds, BeginHolds, SolveHolds, NextStockHolds, FinishHolds DEF Thread
<1>3. CASE UNCHANGED vars
  BY <1>3 DEF vars, IInv, TypeOK, Sized, Phases, Progress, Work, InRange, Behind,
              AtWindow, Whole, ResultsWhole
<1> QED
  BY <1>1, <1>2, <1>3 DEF Next

(* What the program stores has, for every stock, every window in its place *)
(* (factor_main.cpp): whatever the numbers of stocks, bars and processors, *)
(* the threads' ranges miss no stock and the joins wait for all of them.   *)
THEOREM ResultsWholeAlways == ASSUME Inputs PROVE Spec => []ResultsWhole
<1>1. Init => IInv
  BY InitHolds
<1>2. IInv /\ [Next]_vars => IInv'
  BY StepHolds
<1>3. IInv => ResultsWhole
  BY DEF IInv
<1> QED
  BY <1>1, <1>2, <1>3, PTL DEF Spec

(* No two threads work on one stock's results at a time, and none writes   *)
(* outside what clear_result has sized (factor_main.cpp), so the results   *)
(* need no lock.                                                           *)
THEOREM WritesApartAlways == ASSUME Inputs PROVE Spec => []WritesApart
<1>1. IInv => WritesApart
  <2> SUFFICES ASSUME IInv, NEW r \in Task, pc[r] = "window"
               PROVE  /\ bar[r] <= Bars[stock[r]] => slot[r] \in 0 .. Windows(stock[r]) - 1
                      /\ \A s \in Task \ {r} : pc[s] = "window" => stock[s] # stock[r]
    BY DEF WritesApart
  <2>1. \A s \in Task : pc[s] = "window" =>
          /\ AtWindow(s) /\ stock[s] < StockEnd(s)
          /\ stock[s] \in Stock /\ stock[s] \in Int /\ StockBegin(s) <= stock[s]
    BY AtAStock DEF IInv, Progress, Work, AtWindow
  <2>2. bar[r] \in Nat /\ Count \in Nat
    BY DEF IInv, TypeOK, Inputs
  <2>3. bar[r] <= Bars[stock[r]] => slot[r] \in 0 .. Windows(stock[r]) - 1
    BY <2>1, <2>2, WindowsOfAStock DEF AtWindow
  <2>4. \A s \in Task \ {r} : pc[s] = "window" => stock[s] # stock[r]
    BY <2>1, OneRangeEach
  <2> QED
    BY <2>3, <2>4
<1> QED
  BY <1>1, InitHolds, StepHolds, PTL DEF Spec
=============================================================================
