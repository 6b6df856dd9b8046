---------------------------- MODULE MCFdWriteLock ----------------------------
(***************************************************************************)
(* Instance of FdWriteLock: three slaves (slave 0, and two others so that  *)
(* the exclusion above slave 0 is not vacuous) and two descriptors (so     *)
(* that a broadcast also wakes slaves that wait for the other one).        *)
(***************************************************************************)
EXTENDS FdWriteLock
CONSTANTS fd1, fd2
MCFds == {fd1, fd2}
=============================================================================
