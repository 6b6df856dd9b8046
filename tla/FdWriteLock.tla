----------------------------- MODULE FdWriteLock -----------------------------
(***************************************************************************)
(* The write lock of slaves.c: the table writing_fd[] that says on which   *)
(* descriptor each slave is writing, start_safe_writing / stop_safe_writing*)
(* around it, and the two functions that send a frame under it:            *)
(* send_message (header, then data) and send_ack (header only).            *)
(*                                                                         *)
(* Everything the C code does between lock and unlock (or cond_wait) of    *)
(* access_writing_fd is one step.  The writes on the socket happen with    *)
(* the mutex released, so each of them is a step of its own.               *)
(***************************************************************************)
EXTENDS Integers

CONSTANTS
    NoSlaves,         \* no_slaves, the size of the pool (core.c reads it from the configuration)
    Fds,              \* the descriptors of the connected clients
    VOID_FD,          \* the value of writing_fd[i] when slave i is not writing
    MaxSends,         \* bound: frames each slave sends
    SpuriousWakeups   \* TRUE: pthread_cond_wait may also return without a broadcast

ASSUME NoSlavesAssumption == NoSlaves \in Nat \ {0}
ASSUME VoidFdAssumption   == VOID_FD \notin Fds
ASSUME MaxSendsAssumption == MaxSends \in Nat
ASSUME SpuriousAssumption == SpuriousWakeups \in BOOLEAN

\* The ids handed to the threads by init_slaves: the indices of writing_fd.
Slaves == 0 .. NoSlaves - 1

VARIABLES
    writing_fd,   \* writing_fd[t]: the descriptor slave t has reserved, or VOID_FD
    pc,           \* where slave t is in send_message / send_ack
    want,         \* the fd argument of the call slave t is in
    frame,        \* "message" (header and data) or "ack" (header only)
    sent          \* frames slave t has begun, bounded by MaxSends

vars == <<writing_fd, pc, want, frame, sent>>

(***************************************************************************)
(* idle     outside send_message / send_ack                                *)
(* blocked  asleep in pthread_cond_wait                                    *)
(* woken    out of the wait, about to take the mutex and scan again        *)
(* header   writing_fd[t] is set, the header is not written yet            *)
(* data     header written, data not yet (send_message only)               *)
(* written  the frame is on the socket, stop_safe_writing not yet called   *)
(***************************************************************************)
PCs == {"idle", "blocked", "woken", "header", "data", "written"}

InSafeWriting(t) == pc[t] \in {"header", "data", "written"}

\* Mutant of Init: the loop of init_slaves that sets VOID_FD is missing.
InitUnset ==
    /\ writing_fd = [t \in Slaves |-> "uninitialised"]
    /\ pc    = [t \in Slaves |-> "idle"]
    /\ want  = [t \in Slaves |-> VOID_FD]
    /\ frame = [t \in Slaves |-> "ack"]
    /\ sent  = [t \in Slaves |-> 0]

Init ==
    /\ writing_fd = [t \in Slaves |-> VOID_FD]
    /\ pc    = [t \in Slaves |-> "idle"]
    /\ want  = [t \in Slaves |-> VOID_FD]
    /\ frame = [t \in Slaves |-> "ack"]
    /\ sent  = [t \in Slaves |-> 0]

\* What the loop of start_safe_writing finds when it runs from index `from`:
\* another slave whose entry is fd.
BusyFrom(from, t, fd) ==
    \E i \in Slaves : i >= from /\ i # t /\ writing_fd[i] = fd

\* Mutants of FirstIndex and RescanIndex: each pass begins one entry later.
FirstIndexLate  == 1
RescanIndexLate == 2

\* The first pass runs over the whole table.  After a wait the body sets i = 0
\* and the loop increment makes it 1, so the pass that follows starts there.
FirstIndex  == 0
RescanIndex == 1

Reserve(t, fd) ==
    /\ writing_fd' = [writing_fd EXCEPT ![t] = fd]
    /\ pc' = [pc EXCEPT ![t] = "header"]

GoToSleep(t) ==
    /\ pc' = [pc EXCEPT ![t] = "blocked"]
    /\ UNCHANGED writing_fd

\* Call of send_message or send_ack up to the end of start_safe_writing, or to
\* its first wait.
Start(t, fd, f) ==
    /\ pc[t] = "idle"
    /\ sent[t] < MaxSends
    /\ sent'  = [sent EXCEPT ![t] = @ + 1]
    /\ want'  = [want EXCEPT ![t] = fd]
    /\ frame' = [frame EXCEPT ![t] = f]
    /\ \/ ~BusyFrom(FirstIndex, t, fd) /\ Reserve(t, fd)
       \/ BusyFrom(FirstIndex, t, fd) /\ GoToSleep(t)

\* The wait returns and the loop runs again.
Rescan(t) ==
    /\ pc[t] = "woken"
    /\ \/ ~BusyFrom(RescanIndex, t, want[t]) /\ Reserve(t, want[t])
       \/ BusyFrom(RescanIndex, t, want[t]) /\ GoToSleep(t)
    /\ UNCHANGED <<want, frame, sent>>

WriteHeader(t) ==
    /\ pc[t] = "header"
    /\ pc' = [pc EXCEPT ![t] = IF frame[t] = "message" THEN "data" ELSE "written"]
    /\ UNCHANGED <<writing_fd, want, frame, sent>>

WriteData(t) ==
    /\ pc[t] = "data"
    /\ pc' = [pc EXCEPT ![t] = "written"]
    /\ UNCHANGED <<writing_fd, want, frame, sent>>

\* Mutants of Stop: one sleeper only is signalled; nobody is woken.
StopWakes(t, S) ==
    /\ pc[t] = "written"
    /\ writing_fd' = [writing_fd EXCEPT ![t] = VOID_FD]
    /\ pc' = [s \in Slaves |-> IF s = t THEN "idle"
                               ELSE IF s \in S THEN "woken" ELSE pc[s]]
    /\ UNCHANGED <<want, frame, sent>>
StopSignals(t) ==
    LET B == {s \in Slaves : pc[s] = "blocked"}
    IN  IF B = {} THEN StopWakes(t, {}) ELSE \E s \in B : StopWakes(t, {s})
StopSilent(t) == StopWakes(t, {})

\* stop_safe_writing: clear the entry and wake everybody.
Stop(t) ==
    /\ pc[t] = "written"
    /\ writing_fd' = [writing_fd EXCEPT ![t] = VOID_FD]
    /\ pc' = [s \in Slaves |-> IF s = t THEN "idle"
                               ELSE IF pc[s] = "blocked" THEN "woken"
                               ELSE pc[s]]
    /\ UNCHANGED <<want, frame, sent>>

SpuriousWakeup(t) ==
    /\ SpuriousWakeups
    /\ pc[t] = "blocked"
    /\ pc' = [pc EXCEPT ![t] = "woken"]
    /\ UNCHANGED <<writing_fd, want, frame, sent>>

Slave(t) ==
    \/ \E fd \in Fds, f \in {"ack", "message"} : Start(t, fd, f)
    \/ Rescan(t)
    \/ WriteHeader(t)
    \/ WriteData(t)
    \/ Stop(t)

Next == \E t \in Slaves : Slave(t) \/ SpuriousWakeup(t)

\* A slave that is inside a send keeps running: the scheduler lets every thread
\* run and a client that is connected drains its socket.  Nothing forces a
\* slave to begin a send, and nothing forces a spurious wakeup.
Progress(t) == Rescan(t) \/ WriteHeader(t) \/ WriteData(t) \/ Stop(t)

Spec == Init /\ [][Next]_vars /\ \A t \in Slaves : WF_vars(Progress(t))

-----------------------------------------------------------------------------
(* Correctness.                                                            *)

TypeOK ==
    /\ writing_fd \in [Slaves -> Fds \cup {VOID_FD}]
    /\ pc    \in [Slaves -> PCs]
    /\ want  \in [Slaves -> Fds \cup {VOID_FD}]
    /\ frame \in [Slaves -> {"ack", "message"}]
    /\ sent  \in [Slaves -> 0 .. MaxSends]

\* The table agrees with what the slaves are doing: an entry is set exactly
\* while its slave is between start_safe_writing and stop_safe_writing, and it
\* is the descriptor that slave writes on (slaves.c:82, 96).
TableMatches ==
    \A t \in Slaves :
        /\ InSafeWriting(t)  => writing_fd[t] = want[t] /\ want[t] \in Fds
        /\ ~InSafeWriting(t) => writing_fd[t] = VOID_FD
        /\ pc[t] \in {"blocked", "woken"} => want[t] \in Fds

\* What the comment of start_safe_writing promises (slaves.c:60-62): when it
\* returns the thread has EXCLUSIVE write access on the descriptor.
ExclusiveWriting ==
    \A s, t \in Slaves :
        s # t /\ InSafeWriting(s) /\ InSafeWriting(t) => want[s] # want[t]

\* What the code does guarantee: slaves other than slave 0 never write on one
\* descriptor together, however the waits and broadcasts interleave, because
\* every scan, first or repeated, covers the entries from 1 on.
ExclusionAboveSlave0 ==
    \A s, t \in Slaves \ {0} :
        s # t /\ InSafeWriting(s) /\ InSafeWriting(t) => want[s] # want[t]

\* No wakeup is lost: a slave sleeps in start_safe_writing only while another
\* one holds the descriptor it wants, so the broadcast that frees it is still
\* to come (slaves.c:76-80, 96-97).
NoLostWakeup ==
    \A t \in Slaves :
        pc[t] = "blocked" =>
            \E s \in Slaves \ {t} : InSafeWriting(s) /\ want[s] = want[t]

\* A slave gets a descriptor that somebody is writing on in one way only: it
\* had been waiting, and the one writing is slave 0.  In particular slave 0
\* never breaks into a frame of another slave, and a slave that did not wait
\* never breaks into any frame (slaves.c:74-82).
OnlyRescanOverSlave0 ==
    [][\A s, t \in Slaves :
          (/\ s # t
           /\ writing_fd[t] = VOID_FD
           /\ writing_fd'[t] \in Fds
           /\ writing_fd[s] = writing_fd'[t]) => s = 0 /\ pc[t] = "woken"]_vars

\* Every send that was begun ends: a slave is never left asleep on a
\* descriptor nobody uses any more (slaves.c:67-99).
SendsComplete == \A t \in Slaves : (pc[t] # "idle") ~> (pc[t] = "idle")
=============================================================================
