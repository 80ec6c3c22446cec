--------------------------- MODULE MCNetService ---------------------------
(* Bounds for NetService: slabs of two elements, names of two addresses.   *)
EXTENDS NetService

(* The server last: nobody else takes elements while it accepts. *)
ServerLast == <<"udp", "client", "mc", "udp", "server">>
ServerFirst == <<"server", "udp">>
=============================================================================
