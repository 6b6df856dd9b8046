------------------------------ MODULE Dispatch ------------------------------
(***************************************************************************)
(* How a request travels: the loop of the core thread (core.c, start_core),*)
(* which accepts connections, reads one message per ready descriptor and   *)
(* queues it, and the slaves (slaves.c), which pop it, enter the critical  *)
(* zone, serve it, and close the descriptor of a connection that is over.  *)
(*                                                                         *)
(* queue_push and queue_pop are single steps: JobQueue is the module about *)
(* how queues.c makes them so.  What a handler does to the database and to *)
(* the descriptors of other users is not part of this module; here serving *)
(* a request is the interval during which a slave uses the descriptor the  *)
(* request came from.                                                      *)
(***************************************************************************)
EXTENDS Naturals, Sequences, FiniteSets

CONSTANTS
    Slaves,      \* the pool of threads
    Fds,         \* descriptor numbers accept() may return
    VOID_FD,     \* an empty entry of critic_zone, an empty hand
    ClientOps,   \* the operations clients send
    MaxJobs      \* bound: requests read and not yet served

RequestOps == {"REGISTER_OP", "POSTTXT_OP", "POSTFILE_OP", "GETFILE_OP",
               "UNREGISTER_OP", "DISCONNECT_OP", "UNKNOWN"}

listen == "listen"   \* server_sock

ASSUME FdsAssumption == VOID_FD \notin Fds /\ listen \notin Fds
ASSUME OpsAssumption == ClientOps \subseteq RequestOps
ASSUME MaxJobsAssumption == MaxJobs \in Nat

VARIABLES
    open,          \* descriptors of client connections open in the process
    active_set,    \* the set start_core hands to select
    hungup,        \* open descriptors whose client has closed, all its data read
    core,          \* "select", "scan", "file" (waits for the file itself), "stopped"
    ready,         \* descriptors of read_set not visited yet; `listen` for server_sock
    file_fd,       \* while core = "file", the descriptor it reads from
    queue,         \* the jobs queued
    pc,            \* where slave t is in slave_routine
    curr_work,     \* the job slave t has in hand
    critic_zone,   \* critic_zone[t]: what slave t declares to be working on
    files,         \* descriptors of files open in the process
    file_no        \* the descriptor slave t got for the file it serves

coreVars  == <<active_set, hungup, core, ready, file_fd>>
fileVars  == <<files, file_no>>
slaveVars == <<pc, curr_work, critic_zone>>
vars == <<open, coreVars, queue, slaveVars, fileVars>>

(***************************************************************************)
(* A job is the operation and the descriptor it came from.  `orphan` is    *)
(* history: the connection it was read from has been closed since, so fd   *)
(* is nobody's, or the connection of another client.                       *)
(***************************************************************************)
Ops  == RequestOps \cup {"OP_MSG_TOOLONG"}
Jobs == [op : Ops, fd : Fds, orphan : BOOLEAN]
NoJob == [op |-> "none", fd |-> VOID_FD, orphan |-> FALSE]
NewJob(o, fd) == [op |-> o, fd |-> fd, orphan |-> FALSE]

(***************************************************************************)
(* pop      at queue_pop                                                   *)
(* check    has a job, about to call check_op_consistence                  *)
(* repush   the zone refused the job, about to put it back                 *)
(* serve    in the handler, using the descriptor                           *)
(* file     in manage_getfile, the file open                               *)
(* closed   in manage_getfile, the file closed with its stream             *)
(* clean    done, about to leave the critical zone                         *)
(***************************************************************************)
PCs == {"pop", "check", "repush", "serve", "file", "closed", "clean"}

\* The class check_op_consistence compares; "none" is answered outside the zone.
Class(o) ==
    CASE o = "REGISTER_OP" -> "signup"
      [] o \in {"UNREGISTER_OP", "DISCONNECT_OP"} -> "ending"
      [] o = "OP_MSG_TOOLONG" -> "none"
      [] OTHER -> "generic"

Free == [wop |-> "none", fd |-> VOID_FD]
Entries == [wop : {"signup", "generic", "ending"}, fd : Fds] \cup {Free}

Init ==
    /\ open = {} /\ active_set = {} /\ hungup = {}
    /\ core = "select"
    /\ ready = {}
    /\ file_fd = VOID_FD
    /\ queue = <<>>
    /\ pc = [t \in Slaves |-> "pop"]
    /\ curr_work = [t \in Slaves |-> NoJob]
    /\ critic_zone = [t \in Slaves |-> Free]
    /\ files = {}
    /\ file_no = [t \in Slaves |-> VOID_FD]

InHand == {t \in Slaves : curr_work[t] # NoJob}
HasRoom == Len(queue) + Cardinality(InHand) < MaxJobs

-----------------------------------------------------------------------------
(* The clients.                                                            *)

Hangup(fd) ==
    /\ fd \in open \ hungup
    /\ hungup' = hungup \cup {fd}
    /\ UNCHANGED <<open, active_set, core, ready, file_fd, queue, slaveVars, fileVars>>

-----------------------------------------------------------------------------
(* The core thread.                                                        *)

\* select returns some descriptors that are ready.  A hung up client stays
\* readable; the others, and the listening socket, are when the clients like.
\* A closed descriptor in the set makes select fail.
Select ==
    /\ core = "select"
    /\ active_set \subseteq open
    /\ \E R \in SUBSET (active_set \cup {listen}) :
          /\ R # {}
          /\ hungup \cap active_set \subseteq R
          /\ ready' = R
    /\ core' = "scan"
    /\ UNCHANGED <<open, active_set, hungup, file_fd, queue, slaveVars, fileVars>>

\* ... and start_core then stops the whole server.
SelectFails ==
    /\ core = "select"
    /\ ~(active_set \subseteq open)
    /\ core' = "stopped"
    /\ UNCHANGED <<open, active_set, hungup, ready, file_fd, queue, slaveVars, fileVars>>

\* The visit of x is over; after the last one the loop goes back to select.  The
\* code visits by increasing number, the model in any order.
Visited(x) ==
    /\ ready' = ready \ {x}
    /\ core' = IF ready = {x} THEN "select" ELSE "scan"
    /\ file_fd' = VOID_FD

\* Mutant of Accept: the result of a failed accept() is put into the set.
AcceptUnchecked ==
    /\ core = "scan"
    /\ listen \in ready
    /\ active_set' = active_set \cup {VOID_FD}
    /\ Visited(listen)
    /\ UNCHANGED <<open, hungup, queue, slaveVars, fileVars>>

Accept ==
    /\ core = "scan"
    /\ listen \in ready
    /\ \/ \E fd \in Fds \ (open \cup files) :
             /\ open' = open \cup {fd}
             /\ active_set' = active_set \cup {fd}
       \/ UNCHANGED <<open, active_set>>   \* accept failed
    /\ Visited(listen)
    /\ UNCHANGED <<hungup, queue, slaveVars, fileVars>>

Push(o, fd) == queue' = Append(queue, NewJob(o, fd))

\* Mutant of Dismiss: FD_CLR is missing.
DismissKeepsFd(fd) ==
    /\ Push("DISCONNECT_OP", fd)
    /\ Visited(fd)
    /\ UNCHANGED <<open, active_set, hungup, slaveVars, fileVars>>

\* A read that fails or finds the end of the stream: the descriptor leaves
\* active_set and a DISCONNECT_OP is queued on behalf of the client.
Dismiss(fd) ==
    /\ Push("DISCONNECT_OP", fd)
    /\ active_set' = active_set \ {fd}
    /\ Visited(fd)
    /\ UNCHANGED <<open, hungup, slaveVars, fileVars>>

ReadFails(fd) ==
    /\ core = "scan" /\ fd \in ready /\ HasRoom
    /\ fd \in hungup \/ fd \notin open
    /\ Dismiss(fd)

\* A whole message has been read; one that exceeds the size allowed is replaced
\* by OP_MSG_TOOLONG.  (One with a negative operation becomes an OP_FAIL, which
\* from here on is treated as OP_MSG_TOOLONG is.)
ReadRequest(fd) ==
    /\ core = "scan" /\ fd \in ready /\ HasRoom
    /\ fd \in open \ hungup
    /\ \E o \in ClientOps \ {"POSTFILE_OP"} : Push(o, fd) \/ Push("OP_MSG_TOOLONG", fd)
    /\ Visited(fd)
    /\ UNCHANGED <<open, active_set, hungup, slaveVars, fileVars>>

\* The first part of a file has been read: the core goes on reading from this
\* descriptor and serves nobody else until the second part is there.
ReadFileName(fd) ==
    /\ core = "scan" /\ fd \in ready /\ HasRoom
    /\ fd \in open \ hungup
    /\ "POSTFILE_OP" \in ClientOps
    /\ core' = "file"
    /\ file_fd' = fd
    /\ UNCHANGED <<open, active_set, hungup, ready, queue, slaveVars, fileVars>>

ReadFile(fd) ==
    /\ core = "file" /\ fd = file_fd
    /\ fd \in open \ hungup
    /\ Push("POSTFILE_OP", fd) \/ Push("OP_MSG_TOOLONG", fd)
    /\ Visited(fd)
    /\ UNCHANGED <<open, active_set, hungup, slaveVars, fileVars>>

\* Mutant of ReadFileFails: FD_CLR is missing in this copy of the code.
ReadFileFailsKeepsFd(fd) ==
    /\ core = "file" /\ fd = file_fd
    /\ fd \in hungup \/ fd \notin open
    /\ Push("DISCONNECT_OP", fd)
    /\ Visited(fd)
    /\ UNCHANGED <<open, active_set, hungup, slaveVars, fileVars>>

ReadFileFails(fd) ==
    /\ core = "file" /\ fd = file_fd
    /\ fd \in hungup \/ fd \notin open
    /\ Dismiss(fd)

Core ==
    \/ Select \/ SelectFails \/ Accept
    \/ \E fd \in Fds :
          \/ ReadFails(fd) \/ ReadRequest(fd) \/ ReadFileName(fd)
          \/ ReadFile(fd) \/ ReadFileFails(fd)

-----------------------------------------------------------------------------
(* The slaves.                                                             *)

Pop(t) ==
    /\ pc[t] = "pop"
    /\ queue # <<>>
    /\ curr_work' = [curr_work EXCEPT ![t] = Head(queue)]
    /\ queue' = Tail(queue)
    /\ pc' = [pc EXCEPT ![t] = "check"]
    /\ UNCHANGED <<open, coreVars, critic_zone, fileVars>>

\* Mutant of Conflict: an ending is refused only beside generic operations.
ConflictWithGenericOnly(t, w, fd) ==
    \E s \in Slaves \ {t} :
        /\ critic_zone[s].fd = fd
        /\ \/ w = "ending" /\ critic_zone[s].wop = "generic"
           \/ w = "generic" /\ critic_zone[s].wop = "signup"

\* What check_op_consistence looks for: another slave on the same descriptor
\* whose declared work excludes class w.
Conflict(t, w, fd) ==
    \E s \in Slaves \ {t} :
        /\ critic_zone[s].fd = fd
        /\ w = "ending" \/ (w = "generic" /\ critic_zone[s].wop = "signup")

\* check_op_consistence: test and entry are one step under access_critic_zone.
\* OP_FAIL and OP_MSG_TOOLONG skip it.
Check(t) ==
    LET w  == Class(curr_work[t].op)
        fd == curr_work[t].fd
    IN  /\ pc[t] = "check"
        /\ \/ /\ w = "none"
              /\ pc' = [pc EXCEPT ![t] = "serve"]
              /\ UNCHANGED critic_zone
           \/ /\ w # "none" /\ Conflict(t, w, fd)
              /\ pc' = [pc EXCEPT ![t] = "repush"]
              /\ UNCHANGED critic_zone
           \/ /\ w # "none" /\ ~Conflict(t, w, fd)
              /\ pc' = [pc EXCEPT ![t] = "serve"]
              /\ critic_zone' = [critic_zone EXCEPT ![t] = [wop |-> w, fd |-> fd]]
        /\ UNCHANGED <<open, coreVars, queue, curr_work, fileVars>>

\* The job goes to the END of the queue.
Repush(t) ==
    /\ pc[t] = "repush"
    /\ queue' = Append(queue, curr_work[t])
    /\ curr_work' = [curr_work EXCEPT ![t] = NoJob]
    /\ pc' = [pc EXCEPT ![t] = "pop"]
    /\ UNCHANGED <<open, coreVars, critic_zone, fileVars>>

\* The handler of a request ends with its answer on the descriptor.
Answer(t) ==
    /\ pc[t] = "serve"
    /\ curr_work[t].op \notin {"DISCONNECT_OP", "UNKNOWN"}
    /\ pc' = [pc EXCEPT ![t] = "clean"]
    /\ UNCHANGED <<open, coreVars, queue, curr_work, critic_zone, fileVars>>

\* An operation the slave does not know: the answer is OP_FAIL, and `continue`
\* skips the exit from the critical zone.
AnswerUnknown(t) ==
    /\ pc[t] = "serve"
    /\ curr_work[t].op = "UNKNOWN"
    /\ curr_work' = [curr_work EXCEPT ![t] = NoJob]
    /\ pc' = [pc EXCEPT ![t] = "pop"]
    /\ UNCHANGED <<open, coreVars, queue, critic_zone, fileVars>>

\* The jobs of connection fd outlive it.
Orphaned(job, fd) == IF job.fd = fd THEN [job EXCEPT !.orphan = TRUE] ELSE job

\* close(fd), whatever it is the descriptor of.
Shut(fd) ==
    /\ open' = open \ {fd}
    /\ hungup' = hungup \ {fd}
    /\ files' = files \ {fd}
    /\ queue' = [i \in DOMAIN queue |-> Orphaned(queue[i], fd)]
    /\ curr_work' = [s \in Slaves |-> Orphaned(curr_work[s], fd)]

\* DISCONNECT_OP: the user is set offline and the descriptor is closed (nothing
\* happens if it is not open).
Close(t) ==
    /\ pc[t] = "serve"
    /\ curr_work[t].op = "DISCONNECT_OP"
    /\ Shut(curr_work[t].fd)
    /\ pc' = [pc EXCEPT ![t] = "clean"]
    /\ UNCHANGED <<active_set, core, ready, file_fd, critic_zone, file_no>>

\* manage_getfile: open and fdopen (if there is no such file the request ends with
\* Answer) ...
OpenFile(t) ==
    /\ pc[t] = "serve"
    /\ curr_work[t].op = "GETFILE_OP"
    /\ \E n \in Fds \ (open \cup files) :
          /\ files' = files \cup {n}
          /\ file_no' = [file_no EXCEPT ![t] = n]
    /\ pc' = [pc EXCEPT ![t] = "file"]
    /\ UNCHANGED <<open, coreVars, queue, curr_work, critic_zone>>

\* ... fclose, which closes the descriptor with the stream ...
CloseStream(t) ==
    /\ pc[t] = "file"
    /\ Shut(file_no[t])
    /\ pc' = [pc EXCEPT ![t] = "closed"]
    /\ UNCHANGED <<active_set, core, ready, file_fd, critic_zone, file_no>>

\* ... read and close on the descriptor, which may be another one by now (what the
\* read takes away from it is left out), and the answer.
CloseAgain(t) ==
    /\ pc[t] = "closed"
    /\ Shut(file_no[t])
    /\ file_no' = [file_no EXCEPT ![t] = VOID_FD]
    /\ pc' = [pc EXCEPT ![t] = "clean"]
    /\ UNCHANGED <<active_set, core, ready, file_fd, critic_zone>>

\* Mutant of Clean: clean_critic_zone is not called.
CleanKeepsEntry(t) ==
    /\ pc[t] = "clean"
    /\ curr_work' = [curr_work EXCEPT ![t] = NoJob]
    /\ pc' = [pc EXCEPT ![t] = "pop"]
    /\ UNCHANGED <<open, coreVars, queue, critic_zone, fileVars>>

\* clean_critic_zone, for the jobs that had entered it, and free_message.  The
\* class of an entry without a descriptor is never looked at: it is cleared too.
Clean(t) ==
    /\ pc[t] = "clean"
    /\ critic_zone' = IF Class(curr_work[t].op) = "none" THEN critic_zone
                      ELSE [critic_zone EXCEPT ![t] = Free]
    /\ curr_work' = [curr_work EXCEPT ![t] = NoJob]
    /\ pc' = [pc EXCEPT ![t] = "pop"]
    /\ UNCHANGED <<open, coreVars, queue, fileVars>>

Slave(t) ==
    \/ Pop(t) \/ Check(t) \/ Repush(t)
    \/ Answer(t) \/ AnswerUnknown(t) \/ Close(t) \/ Clean(t)
    \/ OpenFile(t) \/ CloseStream(t) \/ CloseAgain(t)

Next ==
    \/ \E fd \in Fds : Hangup(fd)
    \/ Core
    \/ \E t \in Slaves : Slave(t)

\* The core and every slave keep running.  Clients connect, send and hang up, or
\* do not, as they like.
Spec == Init /\ [][Next]_vars
        /\ WF_vars(Core)
        /\ \A t \in Slaves : WF_vars(Slave(t))

-----------------------------------------------------------------------------
(* Correctness.                                                            *)

TypeOK ==
    /\ open \subseteq Fds
    /\ active_set \subseteq Fds
    /\ hungup \subseteq open
    /\ core \in {"select", "scan", "file", "stopped"}
    /\ ready \subseteq Fds \cup {listen}
    /\ file_fd \in Fds \cup {VOID_FD}
    /\ queue \in Seq(Jobs)
    /\ pc \in [Slaves -> PCs]
    /\ curr_work \in [Slaves -> Jobs \cup {NoJob}]
    /\ critic_zone \in [Slaves -> Entries]
    /\ files \subseteq Fds
    /\ file_no \in [Slaves -> Fds \cup {VOID_FD}]

\* The disconnections still to be executed for fd: in the queue, or with a slave
\* that has not closed fd yet.
QueuedEnds(fd) == {i \in DOMAIN queue : queue[i].op = "DISCONNECT_OP" /\ queue[i].fd = fd}
HeldEnds(fd) ==
    {t \in Slaves : /\ pc[t] \in {"check", "repush", "serve"}
                    /\ curr_work[t].op = "DISCONNECT_OP"
                    /\ curr_work[t].fd = fd}

\* Every open descriptor has exactly one keeper: the core, which reads from it,
\* or one disconnection that will close it.  So none leaks, none is closed
\* twice, and the core never selects on, or reads from, a closed descriptor,
\* however often the number is reused (core.c:391-403, slaves.c:347-356).
DescriptorsKept ==
    /\ active_set \subseteq open
    /\ \A fd \in Fds :
          Cardinality(QueuedEnds(fd)) + Cardinality(HeldEnds(fd)) =
              IF fd \in open \ active_set THEN 1 ELSE 0

\* The connection a slave closes is the one whose end was read, never a later
\* connection that got the same descriptor (slaves.c:355).
ClosesOwnConnection ==
    [][\A fd \in Fds : fd \in open \ open' =>
          \E t \in Slaves : /\ pc[t] = "serve" /\ curr_work[t].fd = fd
                            /\ curr_work[t].op = "DISCONNECT_OP"
                            /\ ~curr_work[t].orphan]_vars

\* Two slaves are never both ending the same user, by a disconnection and an
\* unregistration for instance (slaves.c:213-221).  A generic operation that comes to
\* the zone after an ending is let in beside it, and is not what this is about.
EndingsExclusive ==
    \A s, t \in Slaves :
        /\ s # t
        /\ critic_zone[s].wop = "ending" /\ critic_zone[t].wop = "ending"
        => critic_zone[s].fd # critic_zone[t].fd

\* A connection whose client has gone is closed in the end, although its
\* disconnection may be put back any number of times, provided the core does
\* not wait for ever for the second part of somebody's file.
HangupCloses ==
    []<>(core # "file") => \A fd \in Fds : (fd \in hungup) ~> (fd \notin open)

\* slaves.c:353-354: "You can't call close() unless you know that all other threads
\* are no longer in a position to be using that file descriptor at all."
CloseUnused ==
    [][\A fd \in open \ open' : fd \notin active_set]_vars
=============================================================================
