------------------------------ MODULE FactorRun ------------------------------
(***************************************************************************)
(* How a factor program computes (example/factor_test/factor_main.cpp):    *)
(* the results are sized, one thread per processor works through a range   *)
(* of the stocks, the program joins the threads and stores the results.    *)
(* A window is Count consecutive bars of a stock; its result records where *)
(* the window begins.  The regression itself is left out.                  *)
(***************************************************************************)
EXTENDS Integers

CONSTANTS Stocks,    \* stock_list.size()
          Threads,   \* hardware_concurrency(), taken to be known: not 0
          Count,     \* step_count, the length of a window
          Bars       \* stock_kmin1[i].size(), by stock

Stock == 0 .. Stocks - 1
Task == 0 .. Threads - 1
Blank == -1          \* a result that resize() has made

VARIABLES result,    \* result_list: by stock, the windows' results
          stored,    \* what FACTOR_RESULT is given
          main,      \* where the program is
          next,      \* its loop index over tasks
          pc,        \* where each thread is
          stock,     \* i of a thread
          bar,       \* bar_pos
          slot       \* result_idx

vars == <<result, stored, main, next, pc, stock, bar, slot>>
threadVars == <<pc, stock, bar, slot>>

Init == /\ result = [i \in Stock |-> <<>>]
        /\ stored = <<>>
        /\ main = "clear"
        /\ next = 0
        /\ pc = [r \in Task |-> "none"]
        /\ stock = [r \in Task |-> 0]
        /\ bar = [r \in Task |-> 0]
        /\ slot = [r \in Task |-> 0]

-----------------------------------------------------------------------------
(* The division of the stocks *)
StockBegin(r) == (r * Stocks) \div Threads

StockEnd(r) == ((r + 1) * Stocks) \div Threads

Windows(i) == IF Bars[i] < Count THEN 0 ELSE Bars[i] - Count + 1

-----------------------------------------------------------------------------
(* The program *)
Clear == /\ main = "clear"
         /\ main' = "spawn"
         /\ result' = [i \in Stock |-> [k \in 0 .. Windows(i) - 1 |-> Blank]]
         /\ UNCHANGED <<stored, next, threadVars>>

(* The loop over the tasks goes on, or the program passes to the next loop *)
Advance(from, to) == /\ main = from
                     /\ next' = IF next + 1 = Threads THEN 0 ELSE next + 1
                     /\ main' = IF next + 1 = Threads THEN to ELSE from

Spawn == /\ Advance("spawn", "join")
         /\ pc' = [pc EXCEPT ![next] = "stock"]
         /\ stock' = [stock EXCEPT ![next] = StockBegin(next)]
         /\ UNCHANGED <<result, stored, bar, slot>>

(* Bug: the threads are let go, not waited for. *)
JoinNobody == /\ Advance("join", "joined")
              /\ UNCHANGED <<result, stored, threadVars>>

Join == /\ Advance("join", "joined")
        /\ pc[next] = "done"
        /\ UNCHANGED <<result, stored, threadVars>>

Store == /\ main = "joined"
         /\ main' = "stored"
         /\ stored' = result
         /\ UNCHANGED <<result, next, threadVars>>

-----------------------------------------------------------------------------
(* A thread: factor_solver *)
program == <<stored, main, next>>

Short(r) == /\ pc[r] = "stock"
            /\ stock[r] < StockEnd(r)
            /\ Bars[stock[r]] < Count
            /\ stock' = [stock EXCEPT ![r] = @ + 1]
            /\ UNCHANGED <<program, result, pc, bar, slot>>

Begin(r) == /\ pc[r] = "stock"
            /\ stock[r] < StockEnd(r)
            /\ Bars[stock[r]] >= Count
            /\ pc' = [pc EXCEPT ![r] = "window"]
            /\ bar' = [bar EXCEPT ![r] = Count]
            /\ slot' = [slot EXCEPT ![r] = 0]
            /\ UNCHANGED <<program, result, stock>>

Solve(r) == /\ pc[r] = "window"
            /\ bar[r] <= Bars[stock[r]]
            /\ result' = [result EXCEPT ![stock[r]][slot[r]] = bar[r] - Count]
            /\ bar' = [bar EXCEPT ![r] = @ + 1]
            /\ slot' = [slot EXCEPT ![r] = @ + 1]
            /\ UNCHANGED <<program, pc, stock>>

NextStock(r) == /\ pc[r] = "window"
                /\ bar[r] > Bars[stock[r]]
                /\ pc' = [pc EXCEPT ![r] = "stock"]
                /\ stock' = [stock EXCEPT ![r] = @ + 1]
                /\ UNCHANGED <<program, result, bar, slot>>

Finish(r) == /\ pc[r] = "stock"
             /\ stock[r] >= StockEnd(r)
             /\ pc' = [pc EXCEPT ![r] = "done"]
             /\ UNCHANGED <<program, result, stock, bar, slot>>

Thread(r) == Short(r) \/ Begin(r) \/ Solve(r) \/ NextStock(r) \/ Finish(r)

Next == Clear \/ Spawn \/ Join \/ Store \/ \E r \in Task : Thread(r)

Spec == Init /\ [][Next]_vars
-----------------------------------------------------------------------------
(* What is stored has, for every stock, every window in its place, however *)
(* the threads were scheduled and however the stocks divide among them.    *)
ResultsWhole ==
  main = "stored" => \A i \in Stock : stored[i] = [k \in 0 .. Windows(i) - 1 |-> k]

(* No two threads work on the results of one stock at a time, and a thread *)
(* writes inside the results that clear_result has sized.                  *)
WritesApart ==
  \A r \in Task : pc[r] = "window" =>
    /\ bar[r] <= Bars[stock[r]] => slot[r] \in 0 .. Windows(stock[r]) - 1
    /\ \A s \in Task \ {r} : pc[s] = "window" => stock[s] # stock[r]
=============================================================================
