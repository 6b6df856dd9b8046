----------------------------- MODULE MCDelivery -----------------------------
(***************************************************************************)
(* Instance of Delivery: three users for two descriptors, so that the      *)
(* number of a receiver can be somebody else's when it is written on, two  *)
(* of them in the group, and a pool of two slaves.                         *)
(***************************************************************************)
EXTENDS Delivery
CONSTANTS ann, bob, zoe, s1, s2, fd1, fd2
MCUsers == {ann, bob, zoe}
MCAskers == {ann, zoe}
MCMembers == {ann, bob}
MCFds == {fd1, fd2}
MCSlaves == {s1, s2}
=============================================================================
