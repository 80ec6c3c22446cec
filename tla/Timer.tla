-------------------------------- MODULE Timer --------------------------------
(***************************************************************************)
(* The timer thread of eal/lmice_eal_time.c, for Mac and for Windows: it   *)
(* calls a handler at every interval until its owner sets the quit flag.   *)
(* The clock runs on between any two of its steps, so sleeps and handlers  *)
(* may take any time.  The Mac thread sleeps until a beat and computes the *)
(* next wait with unsigned numbers; the Windows thread polls the clock.    *)
(***************************************************************************)
EXTENDS Integers

CONSTANTS Interval,   \* ticks between two calls; a millisecond is one tick
          Word,       \* 2^64: unsigned numbers are taken modulo Word
          MaxClock    \* bound: the last tick; MaxClock + Interval < Word

VARIABLES system, clock,
          now, wait,  \* now and time_to_wait of the thread
          quit,       \* *quit_flag
          pc,
          calls       \* calls of the handler begun

vars == <<system, clock, now, wait, quit, pc, calls>>

Init == /\ system = "none"
        /\ clock = 0
        /\ now = 0
        /\ wait = 0
        /\ quit = FALSE
        /\ pc = "new"
        /\ calls = 0

Goto(on, from, to) == /\ system = on
                      /\ pc = from
                      /\ pc' = to

-----------------------------------------------------------------------------
(* The clock, and the owner that stops the timer *)
Tick == /\ pc # "new"
        /\ clock < MaxClock
        /\ clock' = clock + 1
        /\ UNCHANGED <<system, now, wait, quit, pc, calls>>

Stop == /\ pc # "new"
        /\ ~quit
        /\ quit' = TRUE
        /\ UNCHANGED <<system, clock, now, wait, pc, calls>>

(* eal_timer_create2 *)
Start(on, first) == /\ pc = "new"
                    /\ pc' = "loop"
                    /\ system' = on
                    /\ wait' = first
                    /\ UNCHANGED <<clock, now, quit, calls>>

Quit(on) == /\ Goto(on, "loop", "ended")
            /\ quit
            /\ UNCHANGED <<system, clock, now, wait, quit, calls>>

Call == calls' = calls + 1

-----------------------------------------------------------------------------
(* Mac *)
MacStart == Start("mac", Interval)

MacSleep == /\ Goto("mac", "loop", "asleep")
            /\ ~quit
            /\ now' = clock + wait
            /\ UNCHANGED <<system, clock, wait, quit, calls>>

MacCall == /\ Goto("mac", "asleep", "handler")
           /\ clock >= now
           /\ Call
           /\ UNCHANGED <<system, clock, now, wait, quit>>

(* The time from the clock to the next beat, as an unsigned difference *)
Left(beat) == IF beat >= clock THEN beat - clock ELSE Word + beat - clock

(* Bug: the test for a wait that wrapped around is missing. *)
WaitUnclamped == Left(now + Interval)

(* Bug: the beat that has passed is taken for the next. *)
WaitForLast == IF Left(now) > Interval THEN 0 ELSE Left(now)

WaitForBeat == IF Left(now + Interval) > Interval THEN 0 ELSE Left(now + Interval)

MacNext == /\ Goto("mac", "handler", "loop")
           /\ wait' = WaitForBeat
           /\ UNCHANGED <<system, clock, now, quit, calls>>

-----------------------------------------------------------------------------
(* Windows: wait is the time at which the next call is due *)
WinStart == Start("win", clock + Interval)

WinLook(to) == /\ Goto("win", "loop", to)
               /\ ~quit
               /\ now' = clock

WinCall == /\ WinLook("handler")
           /\ clock > wait
           /\ Call
           /\ UNCHANGED <<system, clock, wait, quit>>

WinSleep == /\ WinLook("asleep")
            /\ clock + 1 < wait
            /\ UNCHANGED <<system, clock, wait, quit, calls>>

(* Sleep(0) *)
WinYield == /\ WinLook("loop")
            /\ clock \in {wait - 1, wait}
            /\ UNCHANGED <<system, clock, wait, quit, calls>>

WinAwake == /\ Goto("win", "asleep", "loop")
            /\ clock >= wait
            /\ UNCHANGED <<system, clock, now, wait, quit, calls>>

WinNext == /\ Goto("win", "handler", "loop")
           /\ wait' = now + Interval
           /\ UNCHANGED <<system, clock, now, quit, calls>>

-----------------------------------------------------------------------------
Thread == \/ MacStart \/ MacSleep \/ MacCall \/ MacNext \/ Quit("mac")
          \/ WinStart \/ WinCall \/ WinSleep \/ WinYield \/ WinAwake \/ WinNext
          \/ Quit("win")

Next == Tick \/ Stop \/ Thread

Spec == Init /\ [][Next]_vars
-----------------------------------------------------------------------------
(* However late the thread wakes and however long handlers run, calls that *)
(* were missed are not made up: the k-th begins after k intervals.         *)
NeverEarly == calls * Interval <= clock

(* A handler slower than the interval, after which the unsigned difference *)
(* wraps around, never makes the thread sleep for more than one interval.  *)
NeverSleepsPastABeat ==
  pc = "asleep" => clock + Interval >= IF system = "mac" THEN now ELSE wait
=============================================================================
