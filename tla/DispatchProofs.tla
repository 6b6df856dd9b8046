--------------------------- MODULE DispatchProofs ---------------------------
(***************************************************************************)
(* What holds of the loop of the core and of the slaves for any number of  *)
(* descriptors, slaves and jobs.  The critical zone keeps two endings of a *)
(* connection apart whatever clients send.  If they send neither           *)
(* DISCONNECT_OP nor GETFILE_OP, every open descriptor has one keeper      *)
(* (Ends): the core, or the one job that will close it.                    *)
(***************************************************************************)
EXTENDS Dispatch, FiniteSetTheorems, TLAPS

USE FdsAssumption, OpsAssumption, MaxJobsAssumption

-----------------------------------------------------------------------------
(* Jobs and queues.                                                        *)

LEMMA JobFields ==
    ASSUME NEW j \in Jobs
    PROVE  j.op \in Ops /\ j.fd \in Fds /\ j.orphan \in BOOLEAN /\ j # NoJob
BY DEF Jobs, NoJob, Ops, RequestOps

LEMMA NewJobFields ==
    ASSUME NEW o \in Ops, NEW fd \in Fds
    PROVE  /\ NewJob(o, fd) \in Jobs
           /\ NewJob(o, fd).op = o /\ NewJob(o, fd).fd = fd /\ ~NewJob(o, fd).orphan
BY DEF NewJob, Jobs

LEMMA NoJobFields == NoJob.op = "none" /\ NoJob.fd = VOID_FD /\ NoJob \notin Jobs
BY DEF NoJob, Jobs, Ops, RequestOps

LEMMA OrphanedJob ==
    ASSUME NEW j \in Jobs \cup {NoJob}, NEW fd \in Fds
    PROVE  /\ Orphaned(j, fd) \in Jobs \cup {NoJob}
           /\ j \in Jobs => Orphaned(j, fd) \in Jobs
           /\ Orphaned(j, fd).op = j.op /\ Orphaned(j, fd).fd = j.fd
           /\ j.fd # fd => Orphaned(j, fd) = j
<1>1. CASE j = NoJob
  BY <1>1 DEF Orphaned, NoJob
<1>2. CASE j \in Jobs
  BY <1>2 DEF Orphaned, Jobs
<1> QED BY <1>1, <1>2

LEMMA MarkedQueue ==
    ASSUME queue \in Seq(Jobs), NEW fd \in Fds
    PROVE  [i \in DOMAIN queue |-> Orphaned(queue[i], fd)] \in Seq(Jobs)
<1> DEFINE n == Len(queue)
           q == [i \in 1 .. n |-> Orphaned(queue[i], fd)]
<1>1. n \in Nat /\ DOMAIN queue = 1 .. n
  OBVIOUS
<1>2. \A i \in 1 .. n : queue[i] \in Jobs
  OBVIOUS
<1>3. q \in [1 .. n -> Jobs]
  BY <1>2, OrphanedJob
<1> HIDE DEF q
<1>4. q \in Seq(Jobs)
  BY <1>1, <1>3
<1> QED BY <1>1, <1>4 DEF q

LEMMA HeadAndTail ==
    ASSUME queue \in Seq(Jobs), queue # <<>>
    PROVE  /\ Head(queue) = queue[1] /\ 1 \in DOMAIN queue /\ Head(queue) \in Jobs
           /\ Tail(queue) \in Seq(Jobs)
           /\ \A i \in DOMAIN Tail(queue) : /\ i + 1 \in DOMAIN queue /\ i + 1 # 1
                                            /\ Tail(queue)[i] = queue[i + 1]
           /\ \A i \in DOMAIN queue \ {1} : /\ i - 1 \in DOMAIN Tail(queue)
                                            /\ Tail(queue)[i - 1] = queue[i]
OBVIOUS

LEMMA AppendedJob ==
    ASSUME queue \in Seq(Jobs), NEW j \in Jobs
    PROVE  /\ Append(queue, j) \in Seq(Jobs)
           /\ \A i \in DOMAIN Append(queue, j) :
                 IF i \in DOMAIN queue THEN Append(queue, j)[i] = queue[i]
                 ELSE i = Len(queue) + 1 /\ Append(queue, j)[i] = j
           /\ \A i \in DOMAIN queue : i \in DOMAIN Append(queue, j)
           /\ Len(queue) + 1 \in DOMAIN Append(queue, j) \ DOMAIN queue
           /\ Append(queue, j)[Len(queue) + 1] = j
OBVIOUS

-----------------------------------------------------------------------------
(* Types.                                                                  *)

\* A slave past queue_pop has a job; one that closes a file has its descriptor.
Stages ==
    \A t \in Slaves :
        /\ pc[t] = "pop" => curr_work[t] = NoJob
        /\ pc[t] # "pop" => curr_work[t] \in Jobs
        /\ pc[t] \in {"file", "closed"} => file_no[t] \in Fds /\ curr_work[t].op = "GETFILE_OP"

LEMMA ShutTypes ==
    ASSUME TypeOK, Stages, NEW fd \in Fds, Shut(fd)
    PROVE  /\ open' \subseteq Fds /\ hungup' \subseteq open' /\ files' \subseteq Fds
           /\ queue' \in Seq(Jobs)
           /\ curr_work' \in [Slaves -> Jobs \cup {NoJob}]
           /\ \A s \in Slaves : /\ curr_work[s] \in Jobs => curr_work'[s] \in Jobs
                                /\ curr_work[s] = NoJob => curr_work'[s] = NoJob
                                /\ curr_work'[s].op = curr_work[s].op
<1>1. queue' \in Seq(Jobs)
  BY MarkedQueue DEF Shut, TypeOK
<1>2. \A s \in Slaves : curr_work[s] \in Jobs \cup {NoJob}
                        /\ curr_work'[s] = Orphaned(curr_work[s], fd)
  BY DEF Shut, TypeOK
<1>3. curr_work' \in [Slaves -> Jobs \cup {NoJob}]
  BY <1>2, OrphanedJob DEF Shut
<1> QED BY <1>1, <1>2, <1>3, OrphanedJob, NoJobFields DEF Shut, TypeOK

LEMMA TypeStep == TypeOK /\ Stages /\ [Next]_vars => TypeOK' /\ Stages'
<1> SUFFICES ASSUME TypeOK, Stages, [Next]_vars PROVE TypeOK' /\ Stages'
  OBVIOUS
<1> USE DEF coreVars, fileVars, slaveVars, vars
<1>1. ASSUME NEW fd \in Fds, Hangup(fd) PROVE TypeOK' /\ Stages'
  BY <1>1 DEF Hangup, TypeOK, Stages
<1>2. CASE Core
  <2>1. CASE Select \/ SelectFails
    BY <2>1 DEF Select, SelectFails, TypeOK, Stages
  <2>2. CASE Accept
    BY <2>2 DEF Accept, Visited, TypeOK, Stages
  <2>3. ASSUME NEW fd \in Fds, NEW o \in Ops, Push(o, fd)
        PROVE  queue' \in Seq(Jobs)
    BY <2>3, NewJobFields, AppendedJob DEF Push, TypeOK
  <2>4. ASSUME NEW fd \in Fds, ReadFails(fd) \/ ReadFileFails(fd) PROVE TypeOK' /\ Stages'
    <3>1. queue' \in Seq(Jobs)
      BY <2>3, <2>4 DEF ReadFails, ReadFileFails, Dismiss, Ops, RequestOps
    <3> QED BY <2>4, <3>1 DEF ReadFails, ReadFileFails, Dismiss, Visited, TypeOK, Stages
  <2>5. ASSUME NEW fd \in Fds, ReadRequest(fd) \/ ReadFile(fd) PROVE TypeOK' /\ Stages'
    <3>1. queue' \in Seq(Jobs)
      BY <2>3, <2>5 DEF ReadRequest, ReadFile, Ops, RequestOps
    <3> QED BY <2>5, <3>1 DEF ReadRequest, ReadFile, Visited, TypeOK, Stages
  <2>6. ASSUME NEW fd \in Fds, ReadFileName(fd) PROVE TypeOK' /\ Stages'
    BY <2>6 DEF ReadFileName, TypeOK, Stages
  <2> QED BY <1>2, <2>1, <2>2, <2>4, <2>5, <2>6 DEF Core
<1>3. ASSUME NEW t \in Slaves, Slave(t) PROVE TypeOK' /\ Stages'
  <2>1. CASE Pop(t)
    BY <2>1, HeadAndTail DEF Pop, TypeOK, Stages, PCs
  <2>2. CASE Check(t)
    <3>1. curr_work[t] \in Jobs /\ curr_work[t].fd \in Fds
      BY <2>2, JobFields DEF Check, Stages
    <3>2. Class(curr_work[t].op) # "none"
          => [wop |-> Class(curr_work[t].op), fd |-> curr_work[t].fd] \in Entries
      BY <3>1 DEF Class, Entries
    <3>3. critic_zone' \in [Slaves -> Entries]
      BY <2>2, <3>2 DEF Check, TypeOK
    <3>4. pc' \in [Slaves -> PCs]
      BY <2>2 DEF Check, TypeOK, PCs
    <3> QED BY <2>2, <3>1, <3>3, <3>4 DEF Check, TypeOK, Stages
  <2>3. CASE Repush(t)
    <3>1. queue' \in Seq(Jobs)
      BY <2>3, AppendedJob DEF Repush, TypeOK, Stages
    <3> QED BY <2>3, <3>1 DEF Repush, TypeOK, Stages, PCs
  <2>4. CASE Answer(t)
    BY <2>4 DEF Answer, TypeOK, Stages, PCs
  <2>5. CASE AnswerUnknown(t)
    BY <2>5 DEF AnswerUnknown, TypeOK, Stages, PCs
  <2>6. CASE Close(t)
    <3>1. curr_work[t].fd \in Fds
      BY <2>6, JobFields DEF Close, Stages
    <3> QED BY <2>6, <3>1, ShutTypes DEF Close, TypeOK, Stages, PCs
  <2>7. CASE OpenFile(t)
    BY <2>7 DEF OpenFile, TypeOK, Stages, PCs
  <2>8. CASE CloseStream(t)
    <3>1. file_no[t] \in Fds
      BY <2>8 DEF CloseStream, Stages
    <3> QED BY <2>8, <3>1, ShutTypes DEF CloseStream, TypeOK, Stages, PCs
  <2>9. CASE CloseAgain(t)
    <3>1. file_no[t] \in Fds
      BY <2>9 DEF CloseAgain, Stages
    <3> QED BY <2>9, <3>1, ShutTypes DEF CloseAgain, TypeOK, Stages, PCs
  <2>10. CASE Clean(t)
    <3>1. critic_zone' \in [Slaves -> Entries]
      BY <2>10 DEF Clean, TypeOK, Entries, Free
    <3> QED BY <2>10, <3>1 DEF Clean, TypeOK, Stages, PCs
  <2> QED BY <1>3, <2>1, <2>2, <2>3, <2>4, <2>5, <2>6, <2>7, <2>8, <2>9, <2>10 DEF Slave
<1>4. CASE UNCHANGED vars
  BY <1>4 DEF TypeOK, Stages
<1> QED BY <1>1, <1>2, <1>3, <1>4 DEF Next

LEMMA InitTypes == Init => TypeOK /\ Stages
<1> SUFFICES ASSUME Init PROVE TypeOK /\ Stages
  OBVIOUS
<1>1. queue \in Seq(Jobs)
  BY DEF Init
<1> QED BY <1>1 DEF Init, TypeOK, Stages, PCs, Entries

LEMMA Typed == Spec => [](TypeOK /\ Stages)
BY InitTypes, TypeStep, PTL DEF Spec

\* Every value is of its type: no read is from, and no close is of, anything but
\* the descriptor of a connection or of a file (core.c:366-475, slaves.c:259-357).
THEOREM TypeCorrect == Spec => []TypeOK
BY Typed, PTL

-----------------------------------------------------------------------------
(* The critical zone.                                                      *)

LEMMA EndingsStep == TypeOK /\ EndingsExclusive /\ [Next]_vars => EndingsExclusive'
<1> SUFFICES ASSUME TypeOK, EndingsExclusive, [Next]_vars PROVE EndingsExclusive'
  OBVIOUS
<1> USE DEF coreVars, fileVars, slaveVars, vars
<1>1. CASE UNCHANGED critic_zone
  BY <1>1 DEF EndingsExclusive
<1>2. ASSUME NEW t \in Slaves, Check(t) PROVE EndingsExclusive'
  BY <1>1, <1>2 DEF Check, Conflict, EndingsExclusive, TypeOK
<1>3. ASSUME NEW t \in Slaves, Clean(t) PROVE EndingsExclusive'
  BY <1>1, <1>3 DEF Clean, Free, EndingsExclusive, TypeOK
<1>4. ASSUME NEW t \in Slaves, Slave(t) PROVE EndingsExclusive'
  BY <1>1, <1>2, <1>3, <1>4 DEF Slave, Pop, Repush, Answer, AnswerUnknown, Close, OpenFile,
                                CloseStream, CloseAgain
<1>5. CASE Core
  BY <1>1, <1>5 DEF Core, Select, SelectFails, Accept, ReadFails, ReadRequest, ReadFileName,
                    ReadFile, ReadFileFails, Dismiss
<1> QED BY <1>1, <1>4, <1>5 DEF Next, Hangup

\* check_op_consistence lets at most one slave end the user of a connection, for
\* any pool and whatever the clients send (slaves.c:213-221).
THEOREM OneEnding == Spec => []EndingsExclusive
<1>1. Init => EndingsExclusive
  BY DEF Init, EndingsExclusive, Free
<1> QED BY <1>1, TypeCorrect, EndingsStep, PTL DEF Spec

-----------------------------------------------------------------------------
(* Keepers.                                                                *)

Ending(job) == job.op = "DISCONNECT_OP"
Queued == DOMAIN queue
Held(t) == pc[t] \in {"check", "repush", "serve"} /\ Ending(curr_work[t])

\* What the core is still to visit, it keeps.
Watched ==
    /\ active_set \subseteq open
    /\ ready \cap Fds \subseteq active_set
    /\ core = "file" => file_fd \in active_set

\* Without GETFILE_OP a slave closes nothing but the connection of its job.
NoFiles ==
    /\ \A i \in Queued : queue[i].op # "GETFILE_OP"
    /\ \A t \in Slaves : curr_work[t].op # "GETFILE_OP"

\* A job that ends a connection ends an open one the core has let go, its own.
Proper ==
    /\ \A i \in Queued : Ending(queue[i]) => queue[i].fd \in open \ active_set /\ ~queue[i].orphan
    /\ \A t \in Slaves :
          Held(t) => curr_work[t].fd \in open \ active_set /\ ~curr_work[t].orphan

\* No two jobs end one connection,
Unique ==
    /\ \A i, j \in Queued :
          Ending(queue[i]) /\ Ending(queue[j]) /\ i # j => queue[i].fd # queue[j].fd
    /\ \A s, t \in Slaves : Held(s) /\ Held(t) /\ s # t => curr_work[s].fd # curr_work[t].fd
    /\ \A t \in Slaves, i \in Queued :
          Held(t) /\ Ending(queue[i]) => curr_work[t].fd # queue[i].fd

\* and one ends every connection the core has let go.
Kept ==
    \A fd \in open \ active_set :
        \/ \E i \in Queued : Ending(queue[i]) /\ queue[i].fd = fd
        \/ \E t \in Slaves : Held(t) /\ curr_work[t].fd = fd

Ends == Watched /\ NoFiles /\ Proper /\ Unique /\ Kept

LEMMA OneKeeper == TypeOK /\ Ends => DescriptorsKept
<1> SUFFICES ASSUME TypeOK, Ends, NEW fd \in Fds
             PROVE  Cardinality(QueuedEnds(fd)) + Cardinality(HeldEnds(fd))
                    = IF fd \in open \ active_set THEN 1 ELSE 0
  BY DEF DescriptorsKept, Ends, Watched
<1> USE DEF QueuedEnds, HeldEnds, Ending, Queued, Held
<1>1. CASE fd \notin open \ active_set
  <2>1. QueuedEnds(fd) = {} /\ HeldEnds(fd) = {}
    BY <1>1 DEF Ends, Proper
  <2>2. Cardinality(QueuedEnds(fd)) = 0 /\ Cardinality(HeldEnds(fd)) = 0
    BY <2>1, FS_EmptySet
  <2> HIDE DEF QueuedEnds, HeldEnds
  <2> QED BY <1>1, <2>2
<1>2. ASSUME fd \in open \ active_set, NEW i \in Queued, Ending(queue[i]), queue[i].fd = fd
      PROVE  Cardinality(QueuedEnds(fd)) + Cardinality(HeldEnds(fd)) = 1
  <2>1. QueuedEnds(fd) = {i} /\ HeldEnds(fd) = {}
    BY <1>2 DEF Ends, Unique
  <2>2. Cardinality(QueuedEnds(fd)) = 1 /\ Cardinality(HeldEnds(fd)) = 0
    BY <2>1, FS_EmptySet, FS_Singleton
  <2> HIDE DEF QueuedEnds, HeldEnds
  <2> QED BY <2>2
<1>3. ASSUME fd \in open \ active_set, NEW t \in Slaves, Held(t), curr_work[t].fd = fd
      PROVE  Cardinality(QueuedEnds(fd)) + Cardinality(HeldEnds(fd)) = 1
  <2>1. QueuedEnds(fd) = {} /\ HeldEnds(fd) = {t}
    BY <1>3 DEF Ends, Unique
  <2>2. Cardinality(QueuedEnds(fd)) = 0 /\ Cardinality(HeldEnds(fd)) = 1
    BY <2>1, FS_EmptySet, FS_Singleton
  <2> HIDE DEF QueuedEnds, HeldEnds
  <2> QED BY <2>2
<1> QED BY <1>1, <1>2, <1>3 DEF Ends, Kept

\* A job the core queues changes nothing else; one that ends a connection is pushed
\* as the core lets the connection go.
LEMMA PushStep ==
    ASSUME TypeOK, Ends, NEW o \in Ops \ {"GETFILE_OP"}, NEW fd \in active_set, Push(o, fd),
           active_set' = IF o = "DISCONNECT_OP" THEN active_set \ {fd} ELSE active_set,
           UNCHANGED <<open, pc, curr_work>>
    PROVE  NoFiles' /\ Proper' /\ Unique' /\ Kept'
<1> DEFINE j == NewJob(o, fd)
<1>1. j \in Jobs /\ j.op = o /\ j.fd = fd /\ ~j.orphan
  BY NewJobFields DEF TypeOK
<1>2. queue' = Append(queue, j)
  BY DEF Push
<1> HIDE DEF j
<1> USE <1>1, <1>2, AppendedJob DEF TypeOK, Ends, Queued
<1>3. NoFiles'
  BY DEF NoFiles
<1>4. Proper'
  BY DEF Watched, Proper, Held, Ending
<1>5. Unique'
  BY DEF Watched, Proper, Unique, Held, Ending
<1>6. Kept'
  <2>1. SUFFICES ASSUME NEW f \in open \ active_set'
                 PROVE  \/ \E i \in Queued' : Ending(queue'[i]) /\ queue'[i].fd = f
                        \/ \E t \in Slaves : Held(t)' /\ curr_work'[t].fd = f
    BY DEF Kept
  <2>2. CASE f = fd
    <3>1. o = "DISCONNECT_OP"
      BY <2>1, <2>2
    <3> QED BY <2>2, <3>1 DEF Ending
  <2>3. CASE f # fd
    <3>1. CASE \E i \in Queued : Ending(queue[i]) /\ queue[i].fd = f
      BY <3>1 DEF Ending
    <3>2. CASE \E t \in Slaves : Held(t) /\ curr_work[t].fd = f
      BY <3>2 DEF Held, Ending
    <3> QED BY <2>1, <2>3, <3>1, <3>2 DEF Kept
  <2> QED BY <2>2, <2>3
<1> QED BY <1>3, <1>4, <1>5, <1>6

ClientsOrdinary == ClientOps \cap {"DISCONNECT_OP", "GETFILE_OP"} = {}

LEMMA CoreEnds ==
    ASSUME ClientsOrdinary, TypeOK, Stages, Ends, Core
    PROVE  Ends'
<1> USE DEF Ends, coreVars, fileVars, slaveVars
<1>1. CASE Select \/ SelectFails
  BY <1>1 DEF Select, SelectFails, TypeOK, Watched, NoFiles, Proper, Unique, Kept, Queued, Held
<1>2. CASE Accept
  <2>1. Watched'
    BY <1>2 DEF Accept, Visited, TypeOK, Watched
  <2> QED BY <1>2, <2>1 DEF Accept, TypeOK, Watched, NoFiles, Proper, Unique, Kept, Queued, Held
<1>3. ASSUME NEW fd \in Fds, ReadFails(fd) \/ ReadFileFails(fd) PROVE Ends'
  <2>1. fd \in active_set /\ Dismiss(fd)
    BY <1>3 DEF ReadFails, ReadFileFails, Watched
  <2>2. NoFiles' /\ Proper' /\ Unique' /\ Kept'
    BY <2>1, PushStep DEF Dismiss, Ops, RequestOps
  <2>3. Watched'
    BY <1>3, <2>1 DEF Dismiss, Visited, Watched, TypeOK
  <2> QED BY <2>2, <2>3
<1>4. ASSUME NEW fd \in Fds, ReadRequest(fd) \/ ReadFile(fd) PROVE Ends'
  <2>1. fd \in active_set /\ UNCHANGED <<open, active_set, pc, curr_work>>
    BY <1>4 DEF ReadRequest, ReadFile, Watched
  <2>2. PICK o \in Ops \ {"GETFILE_OP", "DISCONNECT_OP"} : Push(o, fd)
    BY <1>4 DEF ReadRequest, ReadFile, ClientsOrdinary, Ops, RequestOps
  <2>3. NoFiles' /\ Proper' /\ Unique' /\ Kept'
    BY <2>1, <2>2, PushStep
  <2>4. Watched'
    BY <1>4, <2>1 DEF ReadRequest, ReadFile, Visited, Watched, TypeOK
  <2> QED BY <2>3, <2>4
<1>5. ASSUME NEW fd \in Fds, ReadFileName(fd) PROVE Ends'
  BY <1>5 DEF ReadFileName, TypeOK, Watched, NoFiles, Proper, Unique, Kept, Queued, Held
<1> QED BY <1>1, <1>2, <1>3, <1>4, <1>5 DEF Core

LEMMA SlaveEnds ==
    ASSUME TypeOK, Stages, Ends, NEW t \in Slaves, Slave(t)
    PROVE  Ends'
<1> USE DEF coreVars, fileVars, slaveVars
<1>1. CASE Pop(t)
  <2>1. /\ pc[t] = "pop" /\ pc' = [pc EXCEPT ![t] = "check"] /\ queue # <<>>
        /\ queue' = Tail(queue) /\ curr_work' = [curr_work EXCEPT ![t] = Head(queue)]
        /\ UNCHANGED <<open, active_set, core, ready, file_fd>> /\ ~Held(t)
    BY <1>1 DEF Pop, Held
  <2> USE <2>1, HeadAndTail DEF Ends, TypeOK, Queued
  <2>2. Watched' /\ NoFiles'
    BY DEF Watched, NoFiles
  <2>3. Proper'
    BY DEF Proper, Held, Ending
  <2>4. Unique'
    BY DEF Unique, Held, Ending
  <2>5. Kept'
    <3>1. SUFFICES ASSUME NEW fd \in open \ active_set
                   PROVE  \/ \E i \in Queued' : Ending(queue'[i]) /\ queue'[i].fd = fd
                          \/ \E s \in Slaves : Held(s)' /\ curr_work'[s].fd = fd
      BY DEF Kept
    <3>2. CASE \E s \in Slaves : Held(s) /\ curr_work[s].fd = fd
      BY <3>2 DEF Held, Ending
    <3>3. ASSUME NEW i \in Queued, Ending(queue[i]), queue[i].fd = fd
          PROVE  \/ \E k \in Queued' : Ending(queue'[k]) /\ queue'[k].fd = fd
                 \/ \E s \in Slaves : Held(s)' /\ curr_work'[s].fd = fd
      <4>1. CASE i = 1
        BY <3>3, <4>1 DEF Held, Ending
      <4>2. CASE i # 1
        BY <3>3, <4>2 DEF Ending
      <4> QED BY <4>1, <4>2
    <3> QED BY <3>1, <3>2, <3>3 DEF Kept
  <2> QED BY <2>2, <2>3, <2>4, <2>5
<1>2. CASE Repush(t)
  <2>1. /\ pc[t] = "repush" /\ pc' = [pc EXCEPT ![t] = "pop"]
        /\ curr_work[t] \in Jobs /\ queue' = Append(queue, curr_work[t])
        /\ curr_work' = [curr_work EXCEPT ![t] = NoJob]
        /\ UNCHANGED <<open, active_set, core, ready, file_fd>>
        /\ Ending(curr_work[t]) => Held(t)
    BY <1>2 DEF Repush, Stages, Held
  <2> USE <2>1, AppendedJob, NoJobFields DEF Ends, TypeOK, Queued
  <2>2. Watched' /\ NoFiles'
    BY DEF Watched, NoFiles
  <2>3. Proper'
    BY DEF Proper, Held, Ending
  <2>4. Unique'
    BY DEF Unique, Held, Ending
  <2>5. Kept'
    <3>1. SUFFICES ASSUME NEW fd \in open \ active_set
                   PROVE  \/ \E i \in Queued' : Ending(queue'[i]) /\ queue'[i].fd = fd
                          \/ \E s \in Slaves : Held(s)' /\ curr_work'[s].fd = fd
      BY DEF Kept
    <3>2. ASSUME NEW s \in Slaves, Held(s), curr_work[s].fd = fd
          PROVE  \/ \E i \in Queued' : Ending(queue'[i]) /\ queue'[i].fd = fd
                 \/ \E r \in Slaves : Held(r)' /\ curr_work'[r].fd = fd
      <4>1. CASE s = t
        BY <3>2, <4>1 DEF Held, Ending
      <4>2. CASE s # t
        BY <3>2, <4>2 DEF Held, Ending
      <4> QED BY <4>1, <4>2
    <3>3. CASE \E i \in Queued : Ending(queue[i]) /\ queue[i].fd = fd
      BY <3>3 DEF Ending
    <3> QED BY <3>1, <3>2, <3>3 DEF Kept
  <2> QED BY <2>2, <2>3, <2>4, <2>5
<1>3. ASSUME UNCHANGED <<open, coreVars, queue>>,
             \A s \in Slaves : Held(s)' <=> Held(s),
             \A s \in Slaves : \/ curr_work'[s] = curr_work[s]
                               \/ curr_work'[s] = NoJob /\ ~Held(s)
      PROVE  Ends'
  BY <1>3, NoJobFields DEF Ends, Watched, NoFiles, Proper, Unique, Kept, Queued
<1>4. CASE Check(t)
  BY <1>3, <1>4 DEF Check, Held, TypeOK
<1>5. CASE Answer(t)
  BY <1>3, <1>5 DEF Answer, Held, TypeOK, Ending
<1>6. CASE AnswerUnknown(t) \/ Clean(t)
  BY <1>3, <1>6, NoJobFields DEF AnswerUnknown, Clean, Held, TypeOK, Ending
<1>7. CASE OpenFile(t) \/ CloseStream(t) \/ CloseAgain(t)
  BY <1>7 DEF OpenFile, CloseStream, CloseAgain, Stages, Ends, NoFiles
<1>8. CASE Close(t)
  <2> DEFINE f == curr_work[t].fd
  <2>1. f \in Fds /\ Held(t)
    BY <1>8, JobFields DEF Close, Stages, Held, Ending
  <2>2. /\ DOMAIN queue' = DOMAIN queue
        /\ \A i \in Queued : /\ queue'[i].op = queue[i].op /\ queue'[i].fd = queue[i].fd
                             /\ queue[i].fd # f => queue'[i] = queue[i]
    BY <1>8, <2>1, OrphanedJob DEF Close, Shut, TypeOK, Queued
  <2>3. \A s \in Slaves : /\ curr_work'[s].op = curr_work[s].op
                          /\ curr_work'[s].fd = curr_work[s].fd
                          /\ curr_work[s].fd # f => curr_work'[s] = curr_work[s]
    BY <1>8, <2>1, OrphanedJob DEF Close, Shut, TypeOK
  <2>4. open' = open \ {f} /\ UNCHANGED <<active_set, core, ready, file_fd>>
    BY <1>8 DEF Close, Shut
  <2>5. ~Held(t)' /\ \A s \in Slaves \ {t} : Held(s)' <=> Held(s)
    BY <1>8, <2>3 DEF Close, TypeOK, Held, Ending
  <2>6. f \in open \ active_set
    BY <2>1 DEF Ends, Proper
  <2> HIDE DEF f
  <2>7. Watched' /\ NoFiles'
    BY <2>2, <2>3, <2>4, <2>6 DEF Ends, Watched, NoFiles, Queued
  <2>8. \A s \in Slaves : Held(s)' => Held(s) /\ curr_work[s].fd # f
    BY <2>1, <2>5 DEF Ends, Unique, f
  <2>9. \A i \in Queued : Ending(queue[i]) => queue[i].fd # f
    BY <2>1 DEF Ends, Unique, f
  <2>10. Proper'
    BY <2>2, <2>3, <2>4, <2>8, <2>9 DEF Ends, Proper, Queued, Ending
  <2>11. Unique'
    BY <2>2, <2>3, <2>8 DEF Ends, Unique, Queued, Ending
  <2>12. Kept'
    BY <2>2, <2>3, <2>4, <2>5 DEF Ends, Kept, Queued, Ending, f
  <2> QED BY <2>7, <2>10, <2>11, <2>12 DEF Ends
<1> QED BY <1>1, <1>2, <1>4, <1>5, <1>6, <1>7, <1>8 DEF Slave

LEMMA EndsStep ==
    ASSUME ClientsOrdinary
    PROVE  TypeOK /\ Stages /\ Ends /\ [Next]_vars => Ends'
<1> SUFFICES ASSUME TypeOK, Stages, Ends, [Next]_vars PROVE Ends'
  OBVIOUS
<1>1. CASE \E fd \in Fds : Hangup(fd)
  BY <1>1 DEF Hangup, slaveVars, Ends, Watched, NoFiles, Proper, Unique, Kept, Queued, Held
<1>2. CASE UNCHANGED vars
  BY <1>2 DEF vars, coreVars, slaveVars, Ends, Watched, NoFiles, Proper, Unique, Kept, Queued, Held
<1> QED BY <1>1, <1>2, CoreEnds, SlaveEnds DEF Next

LEMMA InitEnds == Init => Ends
<1> SUFFICES ASSUME Init PROVE Ends
  OBVIOUS
<1>1. Queued = {} /\ \A t \in Slaves : ~Held(t) /\ curr_work[t].op = "none"
  BY NoJobFields DEF Init, Queued, Held
<1> QED BY <1>1 DEF Init, Ends, Watched, NoFiles, Proper, Unique, Kept

\* Unless clients send DISCONNECT_OP or GETFILE_OP, every open descriptor has one
\* keeper, the core or one job, for any number of connections and slaves
\* (core.c:391-403, slaves.c:347-356).
THEOREM Keepers == ASSUME ClientsOrdinary PROVE Spec => []DescriptorsKept
<1>1. TypeOK /\ Ends => DescriptorsKept
  BY OneKeeper
<1>2. TypeOK /\ Stages /\ Ends /\ [Next]_vars => Ends'
  BY EndsStep
<1> QED BY <1>1, <1>2, InitEnds, Typed, PTL DEF Spec

\* And what a slave closes is the connection whose end was read (slaves.c:355).
THEOREM OwnConnections == ASSUME ClientsOrdinary PROVE Spec => ClosesOwnConnection
<1>1. TypeOK /\ Stages /\ Ends /\ [Next]_vars
      => [\A fd \in Fds : fd \in open \ open' =>
             \E t \in Slaves : /\ pc[t] = "serve" /\ curr_work[t].fd = fd
                               /\ curr_work[t].op = "DISCONNECT_OP"
                               /\ ~curr_work[t].orphan]_vars
  <2> SUFFICES ASSUME TypeOK, Stages, Ends, Next, NEW fd \in Fds, fd \in open \ open'
               PROVE  \E t \in Slaves : /\ pc[t] = "serve" /\ curr_work[t].fd = fd
                                        /\ curr_work[t].op = "DISCONNECT_OP"
                                        /\ ~curr_work[t].orphan
    OBVIOUS
  <2>1. PICK t \in Slaves : Close(t) \/ CloseStream(t) \/ CloseAgain(t)
    BY DEF Next, Hangup, Core, Select, SelectFails, Accept, ReadFails, ReadRequest, ReadFileName,
           ReadFile, ReadFileFails, Dismiss, Slave, Pop, Check, Repush, Answer, AnswerUnknown,
           OpenFile, Clean
  <2>2. Close(t)
    BY <2>1 DEF CloseStream, CloseAgain, Stages, Ends, NoFiles
  <2>3. curr_work[t].fd = fd /\ Held(t)
    BY <2>2 DEF Close, Shut, Held, Ending
  <2> QED BY <2>2, <2>3 DEF Close, Ends, Proper
<1>2. TypeOK /\ Stages /\ Ends /\ [Next]_vars => Ends'
  BY EndsStep
<1> QED BY <1>1, <1>2, InitEnds, Typed, PTL DEF Spec, ClosesOwnConnection
=============================================================================
