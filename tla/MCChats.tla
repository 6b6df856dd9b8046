------------------------------ MODULE MCChats ------------------------------
(***************************************************************************)
(* Instance of Chats: two names of users, so that there is somebody to     *)
(* write to, and one of a group; two slaves; two descriptors, so that one  *)
(* user is online elsewhere.  Rows that are no chats or messages have the  *)
(* numbers of the first two that are.  Names of users, descriptors and     *)
(* slaves are interchangeable.                                             *)
(***************************************************************************)
EXTENDS Chats, TLC
CONSTANTS n1, n2, n3, fd1, fd2, s1, s2
MCUserNames == {n1, n2}
MCGroupNames == {n3}
MCFds == {fd1, fd2}
MCSlaves == {s1, s2}
Interchangeable ==
    Permutations(MCUserNames) \cup Permutations(MCFds) \cup Permutations(MCSlaves)
=============================================================================
