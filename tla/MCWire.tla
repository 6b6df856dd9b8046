------------------------------- MODULE MCWire -------------------------------
(***************************************************************************)
(* Instance of Wire: bodies from none to one cell more than either end     *)
(* accepts, on a connection that cannot hold a whole message.              *)
(***************************************************************************)
EXTENDS Wire
MCLengths == 0 .. 4
=============================================================================
