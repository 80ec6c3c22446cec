------------------------------ MODULE DataLoad -------------------------------
(***************************************************************************)
(* Loading time series from files (lmapi/lm_data_load.cpp): for each       *)
(* instrument either the ticks, one file per day of the range, or the bars *)
(* (k-data), one file whose records carry their dates and which is read a  *)
(* block at a time.  A time is a number of hours; a date has a year, a     *)
(* month and a day.  A bar is modelled by its date.  Of a day's ticks only *)
(* the date is: the code does not look whether it could read them, and     *)
(* loads zeros for those it could not.                                     *)
(***************************************************************************)
EXTENDS Integers, Sequences, FiniteSets

CONSTANTS Instruments, \* how many instruments there are
          Zones,       \* hours that the local time may be ahead of UTC
          Block,       \* records read at once: 128
          Dates,       \* dates that a program may ask for
          BarFiles,    \* files of bars
          MaxDays      \* bound: the days in a range of ticks

(* What the constants are, in the program *)
AnyDate == [year : Nat, month : Nat, day : Nat]
LoadForm == /\ Dates \subseteq AnyDate
            /\ BarFiles \subseteq Seq(AnyDate)
            /\ Zones \subseteq -12 .. 14
            /\ Block \in Nat \ {0}

VARIABLES pc,
          start, end,       \* start_date, end_date
          tm_begin, tm_end, \* in hours
          now,              \* tm_now
          rest,             \* what has not been read of a file of bars
          vec,              \* of the instrument under way: serial or vec
          result,           \* of the instruments done
          here,             \* what the instrument under way met with
          seen              \* what those done did

range == <<start, end, tm_begin, tm_end>>
vars == <<pc, range, now, rest, vec, result, here, seen>>

(* What an instrument meets with: the days whose files can be read, or the *)
(* bars of its file; the days looked for; and whether a read failed, and   *)
(* whether inside a record ("torn")                                        *)
Nothing == [there |-> <<>>, visited |-> <<>>, reads |-> "whole"]

NoDate == [year |-> 0, month |-> 0, day |-> 0]

Init == /\ pc = "new"
        /\ start = NoDate
        /\ end = NoDate
        /\ tm_begin = 0
        /\ tm_end = 0
        /\ now = 0
        /\ rest = <<>>
        /\ vec = <<>>
        /\ result = <<>>
        /\ here = Nothing
        /\ seen = <<>>

-----------------------------------------------------------------------------
(* The calendar.  tm_year counts from 1900, and tm_mon from 0: the code    *)
(* gives the year and the month of the date as they are written.           *)
Leap(year) == LET y == year + 1900 IN y % 4 = 0 /\ (y % 100 # 0 \/ y % 400 = 0)
FirstYear == 2000
Year == FirstYear .. FirstYear + 40
MonthStart == <<0, 31, 59, 90, 120, 151, 181, 212, 243, 273, 304, 334>>

(* mktime carries months and days that are too many *)
DayNumber(tm_year, tm_mon, tm_mday) ==
  LET y == tm_year + tm_mon \div 12
      m == tm_mon % 12
  IN 365 * (y - FirstYear) + Cardinality({z \in FirstYear .. y - 1 : Leap(z)})
     + MonthStart[m + 1] + (IF Leap(y) /\ m > 1 THEN 1 ELSE 0) + tm_mday - 1

mktime(date, hour, zone) ==
  24 * DayNumber(date.year, date.month, date.day) + hour - zone

(* gmtime, and the number that names a file; its month is tm_mon + 1 *)
DateOfDay(n) ==
  LET y == CHOOSE y \in Year : DayNumber(y, 0, 1) <= n /\ n < DayNumber(y + 1, 0, 1)
      m == CHOOSE m \in 0 .. 11 : DayNumber(y, m, 1) <= n /\ n < DayNumber(y, m + 1, 1)
  IN [year |-> y, month |-> m + 1, day |-> n - DayNumber(y, m, 1) + 1]

DateOf(time) == DateOfDay(time \div 24)

Number(date) == 10000 * date.year + 100 * date.month + date.day
InRange(date, from, to) == Number(from) <= Number(date) /\ Number(date) <= Number(to)

(* The loop that fills vec *)
Selected(bars, from, to) ==
  LET taken[i \in 0 .. Len(bars)] ==
        IF i = 0 THEN <<>>
        ELSE IF InRange(bars[i], from, to) THEN Append(taken[i - 1], bars[i]) ELSE taken[i - 1]
  IN taken[Len(bars)]

-----------------------------------------------------------------------------
(* Bug: the end of the range is the beginning of its last day. *)
EndAtMidnight(date, zone) == mktime(date, 0, zone)

EndOf(date, zone) == mktime(date, 1, zone)

(* serial_dataset *)
Open(for, from, to, zone) == /\ pc = "new"
                             /\ pc' = for
                             /\ start' = from
                             /\ end' = to
                             /\ tm_begin' = mktime(from, 0, zone)
                             /\ tm_end' = EndOf(to, zone)
                             /\ now' = tm_begin'
                             /\ UNCHANGED <<rest, vec, result, here, seen>>

OpenTicks(from, to, zone) == /\ Open("ticks", from, to, zone)
                             /\ tm_end' - tm_begin' <= 24 * MaxDays

OpenBars(from, to, zone) == Open("bars", from, to, zone)

(* get_ticks, get_kdatas: the next instrument, if there is one *)
NextInstrument(again, done) ==
  /\ result' = Append(result, vec)
  /\ vec' = <<>>
  /\ seen' = Append(seen, here)
  /\ here' = Nothing
  /\ pc' = IF Len(result') = Instruments THEN done ELSE again
  /\ UNCHANGED range

-----------------------------------------------------------------------------
(* get_tick: the file of a day is read if it is there and its size is a    *)
(* multiple of a tick's                                                    *)
TickDay(readable) ==
  /\ pc = "ticks"
  /\ now < tm_end
  /\ IF readable
     THEN /\ vec' = Append(vec, DateOf(now))
          /\ here' = [here EXCEPT !.visited = Append(@, DateOf(now)),
                                  !.there = Append(@, DateOf(now))]
     ELSE /\ here' = [here EXCEPT !.visited = Append(@, DateOf(now))]
          /\ UNCHANGED vec
  /\ now' = now + 24
  /\ UNCHANGED <<pc, range, rest, result, seen>>

TicksEnd == /\ pc = "ticks"
            /\ now >= tm_end
            /\ now' = tm_begin
            /\ UNCHANGED rest
            /\ NextInstrument("ticks", "ticks done")

-----------------------------------------------------------------------------
(* get_kdata *)
BarsOpen(file) == /\ pc = "bars"
                  /\ pc' = "reading"
                  /\ rest' = file
                  /\ here' = [here EXCEPT !.there = file]
                  /\ UNCHANGED <<range, now, vec, result, seen>>

(* No file, or one whose size is not a multiple of a bar's *)
BarsUnreadable == /\ pc = "bars"
                  /\ UNCHANGED <<now, rest>>
                  /\ NextInstrument("bars", "bars done")

Read(n) == SubSeq(rest, 1, n)
Unread(n) == SubSeq(rest, n + 1, Len(rest))
Left == IF Len(rest) < Block THEN Len(rest) ELSE Block
Take(n) == vec' = vec \o Selected(Read(n), start, end)

(* Bug: a block that is not full is not looked at. *)
BarsBlockFullOnly == /\ pc = "reading"
                     /\ IF Left < Block THEN UNCHANGED vec ELSE Take(Left)
                     /\ rest' = Unread(Left)
                     /\ pc' = IF Left < Block THEN "read" ELSE "reading"
                     /\ UNCHANGED <<range, now, result, here, seen>>

(* feof is set when fewer records are left than were asked for *)
BarsBlock == /\ pc = "reading"
             /\ Take(Left)
             /\ rest' = Unread(Left)
             /\ pc' = IF Left < Block THEN "read" ELSE "reading"
             /\ UNCHANGED <<range, now, result, here, seen>>

(* fread fails after n records.  The loop ends if it gave nothing, and     *)
(* nobody looks at ferror.                                                 *)
BarsFail(n) == /\ pc = "reading"
               /\ n < Block
               /\ Take(n)
               /\ rest' = Unread(n)
               /\ here' = [here EXCEPT !.reads = IF @ = "torn" THEN @ ELSE "failed"]
               /\ pc' = IF n = 0 THEN "read" ELSE "reading"
               /\ UNCHANGED <<range, now, result, seen>>

(* It fails inside the record after: what is read from there on is cut     *)
(* across the records, and its dates are in the range or not.              *)
BarsTear(n) == /\ pc = "reading"
               /\ n < Block /\ n < Len(rest)
               /\ Take(n)
               /\ rest' \in [1 .. Len(rest) - n - 1 -> {start, NoDate}]
               /\ here' = [here EXCEPT !.reads = "torn"]
               /\ UNCHANGED <<pc, range, now, result, seen>>

BarsEnd == /\ pc = "read"
           /\ UNCHANGED <<now, rest>>
           /\ NextInstrument("bars", "bars done")

Next == \/ \E from, to \in Dates, zone \in Zones :
             OpenTicks(from, to, zone) \/ OpenBars(from, to, zone)
        \/ \E readable \in BOOLEAN : TickDay(readable)
        \/ TicksEnd
        \/ \E file \in BarFiles : BarsOpen(file)
        \/ BarsUnreadable
        \/ BarsBlock
        \/ \E n \in 0 .. Len(rest) : BarsFail(n) \/ BarsTear(n)
        \/ BarsEnd

Spec == Init /\ [][Next]_vars
-----------------------------------------------------------------------------
(* The bars loaded for an instrument are those of the range that its file *)
(* holds, in their order, whatever blocks they come in.  After a read that *)
(* failed between two records they are those of a first part of the file,  *)
(* and the caller cannot tell; after one that failed inside a record they  *)
(* are not spoken of.                                                      *)
BarsOfTheRange ==
  pc \in {"bars", "reading", "read", "bars done"} =>
    \A i \in 1 .. Len(result) :
      LET file == seen[i].there IN
      seen[i].reads # "torn" =>
        \E n \in 0 .. Len(file) :
          /\ result[i] = Selected(SubSeq(file, 1, n), start, end)
          /\ seen[i].reads = "whole" => n = Len(file)

(* A date's day, its month counted from 1, and the date a month later.     *)
CalendarDay(date) == DayNumber(date.year, date.month - 1, date.day)
MonthLater(date) == [date EXCEPT !.month = @ + 1]

(* The days an instrument's ticks are looked for on follow one another,    *)
(* across months, years and leap days, each once and the same for every    *)
(* instrument, and all that can be read are loaded.  They are as many as   *)
(* there are from a month after start_date to a month after end_date: none *)
(* when that is no range.  They begin a month after start_date, and ahead  *)
(* of UTC a day before that.  (The days of a year are those of 1900 years  *)
(* later.)  TickDatesAsAsked says that they are not the days asked for.    *)
TicksOfEachDay ==
  LET first == CalendarDay(MonthLater(start))
      days == CalendarDay(MonthLater(end)) - first + 1
  IN pc \in {"ticks", "ticks done"} =>
       \A i \in 1 .. Len(result) :
         /\ result[i] = seen[i].there
         /\ Len(seen[i].visited) = IF days > 0 THEN days ELSE 0
         /\ \E zero \in {first - 1, first} :
              \A j \in 1 .. Len(seen[i].visited) : seen[i].visited[j] = DateOfDay(zero + j - 1)

(* "start_date: the first date of the data ... yyyymmdd" and "end_date:    *)
(* the last date of the data" (doc/lmalpha_design.tex:568-570): the ticks  *)
(* loaded are of dates from the one to the other.                          *)
TickDatesAsAsked == pc = "ticks" => \A i \in 1 .. Len(vec) : InRange(vec[i], start, end)
=============================================================================
