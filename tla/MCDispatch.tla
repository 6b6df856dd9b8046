----------------------------- MODULE MCDispatch -----------------------------
(***************************************************************************)
(* Instance of Dispatch: two slaves and two descriptors, so that a         *)
(* descriptor is reused while a job of its former connection is around,    *)
(* and two jobs, so that a request and the disconnection of its connection *)
(* are in the system together.                                             *)
(*                                                                         *)
(* Slaves and descriptors are interchangeable in Dispatch (the order in    *)
(* which the core visits descriptors is left open), so runs without a      *)
(* liveness property may use them as symmetry sets.                        *)
(***************************************************************************)
EXTENDS Dispatch, TLC
CONSTANTS fd1, fd2, s1, s2
MCFds == {fd1, fd2}
MCOneSlave == {s1}
MCSlaves == {s1, s2}
Interchangeable == Permutations(MCFds) \cup Permutations(MCSlaves)
=============================================================================
