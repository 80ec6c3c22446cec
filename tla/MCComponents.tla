---------------------------- MODULE MCComponents ----------------------------
(* Values for the constants of each component *)
EXTENDS Components, ConfigFiles

CONSTANTS o1, o2, p, q, r

TwoOpeners == {o1, o2}

(* One process has the event, one makes it again, one opens it *)
ThreeProcesses == {p, q, r}
TwoThreads == {p, q}

MCName == FileNames
MCXmlFiles == FilesOfXml
MCJsonFiles == FilesOfJson
MCSettings == {<<"root", "path">>, <<"root", "path", "path">>}
ASSUME FilesAssumption == K!ConfigForm

(* Ranges that the code reads across a new year and a leap day, and files  *)
(* of bars that end with a full block and with half a block                *)
Date(y, m, d) == [year |-> y, month |-> m, day |-> d]

MCZones == {-5, 0, 8}
MCDates == {Date(2019, 11, 30), Date(2019, 12, 1), Date(2020, 1, 28), Date(2020, 1, 30)}
MCBarFiles == {<<>>,
               <<Date(2019, 11, 30), Date(2019, 12, 1)>>,
               <<Date(2019, 11, 30), Date(2020, 1, 28), Date(2020, 1, 29),
                 Date(2020, 1, 30), Date(2020, 1, 30)>>}
ASSUME LoadAssumption == D!LoadForm

(* More stocks than threads and no multiple, some without a window *)
MCBars == [i \in 0 .. 4 |-> <<3, 1, 2, 0, 4>>[i + 1]]

(* Strings for which the stack's buffer is enough, or not, in every order *)
MCLengths == 1 .. 3
=============================================================================
