------------------------------ MODULE StrEncode ------------------------------
(***************************************************************************)
(* Converting strings between encodings (lmapi/lmstrencode.cpp) with a     *)
(* buffer that the caller keeps from one call to the next, as the          *)
(* parameters of a query are converted (sql_internal::execute_utf8str in   *)
(* lmapi/lmsql.cpp) and the parts of an error message (exception_utf8).    *)
(* A call is told the size of the last result and leaves the size of its   *)
(* own, or 0 when iconv fails.  iconv makes at most Growth bytes of one;   *)
(* it fails on a bad string or for lack of room, with a piece converted.   *)
(***************************************************************************)
EXTENDS Integers

CONSTANTS Lengths,   \* of the strings, in bytes
          Growth,    \* 4
          Stack,     \* bytes of the buffer in str_encode_c: 1024
          MaxCalls   \* bound: parameters of a query

Piece == -1          \* what a conversion leaves that fails
None == 0

VARIABLES pc,
          param,     \* the number of the parameter under way
          from,      \* its string: length, result's length, no bad character
          size,      \* bytes that *out_buff really has
          bytes,     \* *out_bytes: as the last call left it
          text,      \* the parameter whose conversion *out_buff holds
          written,   \* bytes this call has written to *out_buff
          given      \* what the query was given last

vars == <<pc, param, from, size, bytes, text, written, given>>

Init == /\ pc = "idle"
        /\ param = 0
        /\ from = [length |-> 0, out |-> 0, valid |-> TRUE]
        /\ size = 0
        /\ bytes = 0
        /\ text = None
        /\ written = 0
        /\ given = None

Goto(from_, to) == /\ pc = from_
                   /\ pc' = to

(* The next parameter of the caller *)
Call(length, out, valid) == /\ Goto("idle", "convert")
                            /\ param < MaxCalls
                            /\ param' = param + 1
                            /\ out <= Growth * length
                            /\ from' = [length |-> length, out |-> out, valid |-> valid]
                            /\ written' = 0
                            /\ UNCHANGED <<size, bytes, text, given>>

-----------------------------------------------------------------------------
(* str_encode_c *)
Enough(room) == room >= Growth * from.length

(* iconv into a buffer of that many bytes *)
Converts(room) == from.valid /\ from.out <= room
OutBytes(room) == bytes' = IF Converts(room) THEN from.out ELSE 0

Into(room) == /\ OutBytes(room)
              /\ text' = IF Converts(room) THEN param ELSE Piece
              /\ written' \in IF Converts(room) THEN {from.out}
                              ELSE 0 .. IF from.out < room THEN from.out ELSE room

(* Bug: the growth of the string is forgotten. *)
DirectTight == /\ Goto("convert", "converted")
               /\ bytes >= from.length
               /\ Into(bytes)
               /\ UNCHANGED <<param, from, size, given>>

(* What the caller has is enough *)
Direct == /\ Goto("convert", "converted")
          /\ Enough(bytes)
          /\ Into(bytes)
          /\ UNCHANGED <<param, from, size, given>>

(* The buffer on the stack is enough: it is copied to the caller's, which  *)
(* is made larger, or smaller, unless the last result was as long          *)
OnStack == /\ Goto("convert", "converted")
           /\ ~Enough(bytes)
           /\ Enough(Stack)
           /\ OutBytes(Stack)
           /\ IF Converts(Stack)
                THEN /\ size' = IF bytes >= from.out THEN size ELSE from.out
                     /\ text' = param
                     /\ written' = from.out
                ELSE UNCHANGED <<size, text, written>>
           /\ UNCHANGED <<param, from, given>>

Large == /\ Goto("convert", "converted")
         /\ ~Enough(bytes)
         /\ ~Enough(Stack)
         /\ size' = Growth * from.length
         /\ Into(size')
         /\ UNCHANGED <<param, from, given>>

-----------------------------------------------------------------------------
(* The caller gives the buffer to the query, whatever the call has left *)
Give == /\ Goto("converted", "idle")
        /\ given' = text
        /\ UNCHANGED <<param, from, size, bytes, text, written>>

Finish == /\ Goto("idle", "done")
          /\ size' = 0
          /\ text' = None
          /\ UNCHANGED <<param, from, bytes, written, given>>

Next == \/ \E length \in Lengths : \E out \in 1 .. Growth * length :
             \E valid \in BOOLEAN : Call(length, out, valid)
        \/ Direct \/ OnStack \/ Large \/ Give \/ Finish

Spec == Init /\ [][Next]_vars
-----------------------------------------------------------------------------
(* Whichever buffers the calls before have left, a call writes within the  *)
(* buffer and reports no more than it has; a string without bad characters *)
(* never lacks room, and what the query is given is its conversion.        *)
RoomForEveryString ==
  /\ pc # "done" => written <= size /\ bytes <= size
  /\ pc = "converted" /\ from.valid => bytes = from.out
  /\ pc = "idle" /\ param > 0 /\ from.valid => given = param
=============================================================================
