----------------------------- MODULE Components -----------------------------
(***************************************************************************)
(* The components that keep state of their own and share none, each with   *)
(* its constants.  A behaviour is one of the component that part names.    *)
(***************************************************************************)
EXTENDS SPRingAttach

CONSTANTS
  Interval, Word, MaxClock,                                 \* of Timer
  Party, MaxMade, MaxPosts,                                 \* of NamedEvent
  Writers, First, Every, CountWord, MaxLines, MaxOverlaps,  \* of Console
  Name, XmlFiles, JsonFiles, Settings,                      \* of ConfigKeys
  Instruments, Zones, FullBlock, Dates, BarFiles, MaxDays,  \* of DataLoad
  Stocks, Threads, Window, Bars,                            \* of FactorRun
  Lengths, Growth, Stack, MaxCalls                          \* of StrEncode

VARIABLES part,
  t_system, t_clock, t_now, t_wait, t_quit, t_pc, t_calls,
  e_link, e_value, e_made, e_fd, e_pc, e_own, e_found, e_met,
  c_con, c_clock, c_my, c_pc, c_dated, c_gap, c_begun, c_overlaps, c_alone, c_named,
  k_use, k_kind, k_file, k_asked, k_answer, k_setting, k_inXml,
  d_pc, d_start, d_end, d_begin, d_stop, d_now, d_rest, d_vec, d_result, d_here, d_seen,
  f_result, f_stored, f_main, f_next, f_pc, f_stock, f_bar, f_slot,
  s_pc, s_param, s_from, s_size, s_bytes, s_text, s_written, s_given

timer == <<t_system, t_clock, t_now, t_wait, t_quit, t_pc, t_calls>>
event == <<e_link, e_value, e_made, e_fd, e_pc, e_own, e_found, e_met>>
console == <<c_con, c_clock, c_my, c_pc, c_dated, c_gap, c_begun, c_overlaps,
             c_alone, c_named>>
config == <<k_use, k_kind, k_file, k_asked, k_answer, k_setting, k_inXml>>
load == <<d_pc, d_start, d_end, d_begin, d_stop, d_now, d_rest, d_vec,
          d_result, d_here, d_seen>>
run == <<f_result, f_stored, f_main, f_next, f_pc, f_stock, f_bar, f_slot>>
encode == <<s_pc, s_param, s_from, s_size, s_bytes, s_text, s_written,
            s_given>>

T == INSTANCE Timer WITH
  system <- t_system, clock <- t_clock, now <- t_now, wait <- t_wait,
  quit <- t_quit, pc <- t_pc, calls <- t_calls

E == INSTANCE NamedEvent WITH
  link <- e_link, value <- e_value, made <- e_made, fd <- e_fd, pc <- e_pc,
  own <- e_own, found <- e_found, met <- e_met

C == INSTANCE Console WITH
  Thread <- Writers, Creator <- First, Word <- CountWord,
  con <- c_con, clock <- c_clock, my <- c_my, pc <- c_pc, dated <- c_dated, gap <- c_gap,
  begun <- c_begun, overlaps <- c_overlaps, alone <- c_alone, named <- c_named

K == INSTANCE ConfigKeys WITH
  use <- k_use, kind <- k_kind, file <- k_file, asked <- k_asked, answer <- k_answer,
  setting <- k_setting, inXml <- k_inXml

D == INSTANCE DataLoad WITH
  Block <- FullBlock,
  pc <- d_pc, start <- d_start, end <- d_end, tm_begin <- d_begin, tm_end <- d_stop,
  now <- d_now, rest <- d_rest, vec <- d_vec, result <- d_result, here <- d_here,
  seen <- d_seen

F == INSTANCE FactorRun WITH
  Count <- Window,
  result <- f_result, stored <- f_stored, main <- f_main, next <- f_next, pc <- f_pc,
  stock <- f_stock, bar <- f_bar, slot <- f_slot

S == INSTANCE StrEncode WITH
  pc <- s_pc, param <- s_param, from <- s_from, size <- s_size, bytes <- s_bytes,
  text <- s_text, written <- s_written, given <- s_given

Parts == {"attach", "timer", "event", "console", "config", "load", "run", "encode"}

ComponentsInit ==
  /\ part \in Parts
  /\ Init /\ T!Init /\ E!Init /\ C!Init /\ K!Init /\ D!Init /\ F!Init /\ S!Init

ComponentsNext ==
  \/ part = "attach" /\ Next /\ UNCHANGED <<part, timer, event, console, config, load, run, encode>>
  \/ part = "timer" /\ T!Next /\ UNCHANGED <<part, vars, event, console, config, load, run, encode>>
  \/ part = "event" /\ E!Next /\ UNCHANGED <<part, vars, timer, console, config, load, run, encode>>
  \/ part = "console" /\ C!Next /\ UNCHANGED <<part, vars, timer, event, config, load, run, encode>>
  \/ part = "config" /\ K!Next /\ UNCHANGED <<part, vars, timer, event, console, load, run, encode>>
  \/ part = "load" /\ D!Next /\ UNCHANGED <<part, vars, timer, event, console, config, run, encode>>
  \/ part = "run" /\ F!Next /\ UNCHANGED <<part, vars, timer, event, console, config, load, encode>>
  \/ part = "encode" /\ S!Next /\ UNCHANGED <<part, vars, timer, event, console, config, load, run>>

ComponentsSpec ==
  ComponentsInit /\ [][ComponentsNext]_<<part, vars, timer, event, console, config, load, run, encode>>
-----------------------------------------------------------------------------
(* The properties of the parts, as their modules state and explain them *)

(* The timer's calls are never early (Timer) *)
NeverEarly == T!NeverEarly

(* The timer never sleeps past a beat (Timer) *)
NeverSleepsPastABeat == T!NeverSleepsPastABeat

(* A process that starts again gets an event of its own (NamedEvent) *)
StartsAfresh == E!StartsAfresh

(* A console's lines name their thread and can be dated (Console) *)
LinesReadRight == C!LinesReadRight

(* A name is answered with its own value, if with any (ConfigKeys) *)
AnswersAreOfTheName == K!AnswersAreOfTheName

(* The api object's settings come from XML before JSON (ConfigKeys) *)
XmlBeforeJson == K!XmlBeforeJson

(* The bars loaded are those of the range (DataLoad) *)
BarsOfTheRange == D!BarsOfTheRange

(* The ticks loaded are of each day once (DataLoad) *)
TicksOfEachDay == D!TicksOfEachDay

(* The results stored are whole (FactorRun) *)
ResultsWhole == F!ResultsWhole

(* A value is read under a name of any length (ConfigKeys) *)
NestedNamesRead == K!NestedNamesRead

(* The ticks loaded are of dates in the range (DataLoad) *)
TickDatesAsAsked == D!TickDatesAsAsked

(* A conversion has room and gives what it was asked for (StrEncode) *)
RoomForEveryString == S!RoomForEveryString
=============================================================================
