--------------------------- MODULE ReadersWriters ---------------------------
(***************************************************************************)
(* What exec_query (queries.c) promises about the database: statements     *)
(* that only read run side by side, a statement that writes runs alone.    *)
(* The comment at queries.c:167-170 states it.  DbLock is the code's way   *)
(* of keeping this promise and is checked, and proved, to implement it.    *)
(***************************************************************************)
CONSTANT Threads

VARIABLES
    readers,   \* threads with a SELECT running
    writers    \* threads with an INSERT, DELETE, UPDATE or CREATE running

rwVars == <<readers, writers>>

Init == readers = {} /\ writers = {}

BeginRead(t) ==
    /\ t \notin readers
    /\ writers = {}
    /\ readers' = readers \cup {t}
    /\ UNCHANGED writers

EndRead(t) ==
    /\ t \in readers
    /\ readers' = readers \ {t}
    /\ UNCHANGED writers

BeginWrite(t) ==
    /\ readers = {} /\ writers = {}
    /\ writers' = {t}
    /\ UNCHANGED readers

EndWrite(t) ==
    /\ t \in writers
    /\ writers' = writers \ {t}
    /\ UNCHANGED readers

Next == \E t \in Threads : BeginRead(t) \/ EndRead(t) \/ BeginWrite(t) \/ EndWrite(t)

Spec == Init /\ [][Next]_rwVars
=============================================================================
