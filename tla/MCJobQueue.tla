----------------------------- MODULE MCJobQueue -----------------------------
(***************************************************************************)
(* Instance of JobQueue: three slaves, so that one can take the job        *)
(* another was woken for while a third sleeps, and three jobs; the slaves  *)
(* do not know the operation of one of them.                               *)
(***************************************************************************)
EXTENDS JobQueue
CONSTANTS s1, s2, s3, j1, j2, j3
MCSlaves == {s1, s2, s3}
MCJobs == {j1, j2, j3}
MCUnknown == {j3}
=============================================================================
