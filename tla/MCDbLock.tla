------------------------------ MODULE MCDbLock ------------------------------
(***************************************************************************)
(* Instance of DbLock: three threads, so that a reader and a writer can    *)
(* sleep behind a third one, and two calls each, so that a woken thread    *)
(* can be overtaken by a new call.                                         *)
(***************************************************************************)
EXTENDS DbLock
CONSTANTS t1, t2, t3
MCThreads == {t1, t2, t3}
=============================================================================
