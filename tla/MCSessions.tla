---------------------------- MODULE MCSessions ----------------------------
(***************************************************************************)
(* Instance of Sessions: two users and two descriptors, so that a name is  *)
(* claimed from two connections and a descriptor is used again, and a pool *)
(* of two slaves.                                                          *)
(*                                                                         *)
(* Users, descriptors and slaves are interchangeable in Sessions, and the  *)
(* run is about safety, so it uses them as symmetry sets.                  *)
(***************************************************************************)
EXTENDS Sessions, TLC
CONSTANTS fd1, fd2, s1, s2, u1, u2
MCFds == {fd1, fd2}
MCUsers == {u1, u2}
MCSlaves == {s1, s2}
Interchangeable ==
    Permutations(MCFds) \cup Permutations(MCUsers) \cup Permutations(MCSlaves)
=============================================================================
