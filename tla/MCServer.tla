------------------------------ MODULE MCServer ------------------------------
(***************************************************************************)
(* Instance of Server: two clients and two slaves, so that one statement   *)
(* finds the database in use by another, and a signal of each kind.        *)
(***************************************************************************)
EXTENDS Server
CONSTANTS c1, c2, s1, s2
MCClients == {c1, c2}
MCSlaves == {s1, s2}
=============================================================================
