------------------------------- MODULE Console -------------------------------
(***************************************************************************)
(* The console log of lmapi/lm_console_log.cpp: threads of a factor        *)
(* program write lines through one console object, whose record they       *)
(* change without a lock.  Every hundredth line has the full date and      *)
(* time; the lines after it only the time that has passed since.           *)
(* The console has the type LMAPI_LOG_ALL: time, process and thread.       *)
(***************************************************************************)
EXTENDS Integers

CONSTANTS Thread, Creator,   \* the threads; the one that opens the console
          Every,             \* 100
          Word,              \* 2^32: count is an unsigned int
          MaxLines,          \* bound: lines begun
          MaxOverlaps        \* bound: calls begun during another one

Torn == "torn"   \* a name read while another thread assigns it
Undated == -1

VARIABLES con,      \* count, begin_time, tid, thread_name
          clock,    \* get_system_time
          my,       \* what a thread has loaded: count, now, full, passed
          pc,
          dated,    \* the time on the last full line, if no call overlapped since
          gap,      \* lines printed since that one
          begun, overlaps, \* lines begun, and those begun during another
          alone,    \* by thread: no call has overlapped its call
          named     \* the name was assigned by a call alone, and none overlapped since

history == <<begun, overlaps>>
vars == <<con, clock, my, pc, dated, gap, history, alone, named>>

Init == /\ con = [count |-> 0, begin |-> 0, tid |-> Creator, name |-> Creator]
        /\ clock = 0
        /\ my = [p \in Thread |-> [count |-> 0, now |-> 0, full |-> FALSE, passed |-> 0]]
        /\ pc = [p \in Thread |-> "idle"]
        /\ dated = 0
        /\ gap = 0
        /\ begun = 0
        /\ overlaps = 0
        /\ alone = [p \in Thread |-> TRUE]
        /\ named = TRUE

Goto(p, from, to) == /\ pc[p] = from
                     /\ pc' = [pc EXCEPT ![p] = to]
printed == <<dated, gap>>

-----------------------------------------------------------------------------
(* con->count++ *)
Load(p) ==
  LET others == {q \in Thread \ {p} : pc[q] # "idle"} IN
  /\ begun < MaxLines
  /\ others # {} => overlaps < MaxOverlaps
  /\ begun' = begun + 1
  /\ overlaps' = IF others = {} THEN overlaps ELSE overlaps + 1
  /\ alone' = [q \in Thread |-> IF q = p THEN others = {}
                                 ELSE q \notin others /\ alone[q]]
  /\ named' = (named /\ others = {})
  /\ dated' = IF others = {} THEN dated ELSE Undated
  /\ Goto(p, "idle", "count")
  /\ my' = [my EXCEPT ![p].count = con.count]
  /\ UNCHANGED <<con, clock, gap>>

Count(p) == /\ Goto(p, "count", "time")
            /\ con' = [con EXCEPT !.count = (my[p].count + 1) % Word]
            /\ UNCHANGED <<clock, my, printed, history, alone, named>>

(* time_string *)
Time(p) == /\ Goto(p, "time", "stamp")
           /\ clock' = clock + 1
           /\ my' = [my EXCEPT ![p].now = clock']
           /\ UNCHANGED <<con, printed, history, alone, named>>

FullStamp(p) == /\ Goto(p, "stamp", "who")
                /\ con.count % Every = 1
                /\ con' = [con EXCEPT !.begin = my[p].now]
                /\ my' = [my EXCEPT ![p].full = TRUE]
                /\ UNCHANGED <<clock, printed, history, alone, named>>

(* Bug: the base of the short stamps moves with every line. *)
ShortStampMoving(p) == /\ Goto(p, "stamp", "who")
                       /\ con.count % Every # 1
                       /\ con' = [con EXCEPT !.begin = my[p].now]
                       /\ my' = [my EXCEPT ![p].full = FALSE,
                                           ![p].passed = my[p].now - con.begin]
                       /\ UNCHANGED <<clock, printed, history, alone, named>>

ShortStamp(p) == /\ Goto(p, "stamp", "who")
                 /\ con.count % Every # 1
                 /\ my' = [my EXCEPT ![p].full = FALSE,
                                     ![p].passed = my[p].now - con.begin]
                 /\ UNCHANGED <<con, clock, printed, history, alone, named>>

-----------------------------------------------------------------------------
(* console_logging: the thread's name is kept until another thread logs *)
SameThread(p) == /\ Goto(p, "who", "print")
                 /\ con.tid = p
                 /\ UNCHANGED <<con, clock, my, printed, history, alone, named>>

NewThread(p) == /\ Goto(p, "who", "naming")
                /\ con.tid # p
                /\ con' = [con EXCEPT !.tid = p]
                /\ UNCHANGED <<clock, my, printed, history, alone, named>>

Assign(p) == /\ Goto(p, "naming", "named")
             /\ con' = [con EXCEPT !.name = Torn]
             /\ UNCHANGED <<clock, my, printed, history, alone, named>>

Named(p) == /\ Goto(p, "named", "print")
            /\ con' = [con EXCEPT !.name = p]
            /\ named' = (named \/ alone[p])
            /\ UNCHANGED <<clock, my, printed, history, alone>>

(* console_write *)
Write(p) == /\ Goto(p, "print", "idle")
            /\ dated' = IF my[p].full /\ alone[p] THEN my[p].now ELSE dated
            /\ gap' = IF my[p].full THEN 0 ELSE gap + 1
            /\ UNCHANGED <<con, clock, my, history, alone, named>>

Next == \E p \in Thread : \/ Load(p) \/ Count(p) \/ Time(p)
                          \/ FullStamp(p) \/ ShortStamp(p)
                          \/ SameThread(p) \/ NewThread(p) \/ Assign(p) \/ Named(p)
                          \/ Write(p)

Spec == Init /\ [][Next]_vars
-----------------------------------------------------------------------------
(* Calls that overlap may print another thread's name and stamps that      *)
(* count from nowhere; the damage ends.  Once a call alone has assigned    *)
(* the name, lines name the thread that wrote them until calls overlap     *)
(* again; once one has printed the full date, the short stamps count from  *)
(* that, which is never Every lines back, also when count wraps around.    *)
LinesReadRight ==
  \A p \in Thread : pc[p] = "print" =>
    /\ named => con.name = p
    /\ dated # Undated /\ ~my[p].full =>
         /\ gap + 1 < Every
         /\ dated + my[p].passed = my[p].now
=============================================================================
