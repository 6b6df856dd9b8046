------------------------------ MODULE Delivery ------------------------------
(***************************************************************************)
(* What a request puts on the wire, and who reads it: the branches of      *)
(* slave_routine (slaves.c) that answer a client and send a message on to  *)
(* its receivers, with the queries of queries.h that find the descriptors  *)
(* of the receivers, composed with the clients of client.c at the other    *)
(* end of the connections.                                                 *)
(*                                                                         *)
(* A frame is indivisible: FdWriteLock is the module about two slaves on   *)
(* one descriptor.  A query is one step: DbLock.  Messages in the database *)
(* are in Chats, the races of CONNECT_OP in Sessions, the core in          *)
(* Dispatch: a request is read and queued as it is sent.  Every name is    *)
(* registered, and there is one group.                                     *)
(***************************************************************************)
EXTENDS Integers, Sequences, FiniteSets, SequencesExt

CONSTANTS
    Users,          \* names, each with one client at a time
    Askers,         \* those whose clients send more than the first request
    Members,        \* the users in the group
    Group,          \* the name of the group
    Fds,            \* descriptor numbers accept() may return
    VOID_FD,        \* curr_fd of a user who is offline
    Nowhere,        \* a number that is no client's descriptor, such as 0
    Slaves,         \* the pool of threads
    Nobody,         \* no user
    Capacity,       \* frames the socket of a connection holds
    MaxHistory,     \* bound: messages in the answer to GETPREVMSGS_OP
    MaxEvents       \* bound: connections and requests after the first of a connection

ASSUME MembersAssumption  == Members \subseteq Users /\ Askers \subseteq Users /\ Group \notin Users
ASSUME FdsAssumption      == {VOID_FD, Nowhere} \cap Fds = {} /\ VOID_FD # Nowhere
ASSUME NobodyAssumption   == Nobody \notin Users \cup {Group}
ASSUME CapacityAssumption == Capacity \in Nat \ {0}
ASSUME BoundsAssumption   == {MaxHistory, MaxEvents} \subseteq Nat

Free == "free"   \* the number is not in use
Gone == "gone"   \* the client has closed its end, the server has not

ASSUME UsersAssumption    == IsFiniteSet(Users) /\ {Free, Gone} \cap Users = {}

VARIABLES
    client,     \* what the client of user u is doing
    left,       \* messages of the history it has still to read
    peer,       \* the user whose client is at the other end of descriptor fd
    stream,     \* the frames on their way to it
    curr_fd,    \* the table _User
    queue,      \* the jobs queued
    pc,         \* where slave t is
    work,       \* the job slave t has in hand: curr_work, and its entry in the zone
    vec,        \* the descriptors it has still to send the message to
    size,       \* the count its vector was made for, or the history it has to send
    verdict,    \* its answer
    grew,       \* history: somebody came online between the count and the list
    shrank,     \* history: somebody went offline in between
    events      \* connections and later requests so far

clientVars == <<client, left>>
localVars  == <<work, vec, size, verdict, grew, shrank>>
vars == <<clientVars, peer, stream, curr_fd, queue, pc, localVars, events>>

(***************************************************************************)
(* A frame is one call of send_message or send_ack.  `for` is the user it  *)
(* is meant for; `stale` is history: the descriptor it is written on has   *)
(* been closed since the slave learned it.  An entry of a vector is a      *)
(* descriptor, with the same two fields.                                   *)
(***************************************************************************)
AnswerKinds == {"OP_OK", "OP_FAIL", "OP_NICK_UNKNOWN"}
Frames == [kind : AnswerKinds \cup {"TXT_MESSAGE"}, count : 0 .. MaxHistory,
           for : Users \cup {Nobody}, stale : BOOLEAN]
Frame(kind, count, for, stale) ==
    [kind |-> kind, count |-> count, for |-> for, stale |-> stale]

Entries == [fd : Fds \cup {VOID_FD, Nowhere}, for : Users \cup {Nobody}, stale : BOOLEAN]
Entry(fd, for) == [fd |-> fd, for |-> for, stale |-> FALSE]

Ops == {"CONNECT_OP", "POSTTXT_OP", "POSTTXTALL_OP", "GETPREVMSGS_OP", "DISCONNECT_OP"}
Jobs == [op : Ops, fd : Fds, user : Users \cup {Nobody}, to : Users \cup {Group, Nobody}]
Job(op, fd, user, to) == [op |-> op, fd |-> fd, user |-> user, to |-> to]
NoJob == [op |-> "none", fd |-> VOID_FD, user |-> Nobody, to |-> Nobody]

Connected(u) == \E fd \in Fds : peer[fd] = u
FdOf(u) == CHOOSE fd \in Fds : peer[fd] = u

Init ==
    /\ client = [u \in Users |-> "away"]
    /\ left = [u \in Users |-> 0]
    /\ peer = [fd \in Fds |-> Free]
    /\ stream = [fd \in Fds |-> <<>>]
    /\ curr_fd = [u \in Users |-> VOID_FD]
    /\ queue = <<>>
    /\ pc = [t \in Slaves |-> "pop"]
    /\ work = [t \in Slaves |-> NoJob]
    /\ vec = [t \in Slaves |-> <<>>]
    /\ size = [t \in Slaves |-> 0]
    /\ verdict = [t \in Slaves |-> "none"]
    /\ grew = [t \in Slaves |-> FALSE]
    /\ shrank = [t \in Slaves |-> FALSE]
    /\ events = 0

-----------------------------------------------------------------------------
(* The clients.                                                            *)

Do(u, state) == client' = [client EXCEPT ![u] = state]

\* main of client.c: connect, then the first operation, which connects the user.
Arrive(u, fd) ==
    /\ client[u] = "away" /\ events < MaxEvents
    /\ peer[fd] = Free
    /\ peer' = [peer EXCEPT ![fd] = u]
    /\ queue' = Append(queue, Job("CONNECT_OP", fd, u, Nobody))
    /\ Do(u, "asking")
    /\ events' = events + 1
    /\ UNCHANGED <<left, stream, curr_fd, pc, localVars>>

\* manage_requestreply: the request is sent whole, nothing is read before.
Ask(u, op, to) ==
    /\ client[u] = "idle" /\ u \in Askers /\ events < MaxEvents
    /\ to # Nobody <=> op = "POSTTXT_OP"
    /\ queue' = Append(queue, Job(op, FdOf(u), u, to))
    /\ Do(u, "asking")
    /\ events' = events + 1
    /\ UNCHANGED <<left, peer, stream, curr_fd, pc, localVars>>

\* What the client makes of a frame.  Waiting for an answer it puts messages
\* aside (readMessage); after the answer to GETPREVMSGS_OP it reads as many
\* messages as that one announced, whichever they are; in manage_receive it reads
\* messages.
Heed(u, f) ==
    \/ /\ client[u] \in {"asking", "idle"} /\ f.kind = "TXT_MESSAGE"
       /\ UNCHANGED clientVars
    \/ /\ client[u] = "asking" /\ f.kind = "OP_OK"
       /\ Do(u, IF f.count > 0 THEN "history" ELSE "idle")
       /\ left' = [left EXCEPT ![u] = f.count]
    \/ /\ client[u] = "asking" /\ f.kind \in {"OP_FAIL", "OP_NICK_UNKNOWN"}
       /\ Do(u, "failed")
       /\ UNCHANGED left
    \/ /\ client[u] = "history"
       /\ Do(u, IF left[u] = 1 THEN "idle" ELSE "history")
       /\ left' = [left EXCEPT ![u] = @ - 1]

ReadFrame(u) ==
    LET fd == FdOf(u)
    IN  /\ Connected(u) /\ client[u] # "failed" /\ stream[fd] # <<>>
        /\ Heed(u, Head(stream[fd]))
        /\ stream' = [stream EXCEPT ![fd] = Tail(@)]
        /\ UNCHANGED <<peer, curr_fd, queue, pc, localVars, events>>

\* The end of main, after the last operation or one that failed: close(connfd),
\* and the core reads the end of the connection.
Leave(u) ==
    LET fd == FdOf(u)
    IN  /\ client[u] \in {"idle", "failed"}
        /\ peer' = [peer EXCEPT ![fd] = Gone]
        /\ stream' = [stream EXCEPT ![fd] = <<>>]
        /\ queue' = Append(queue, Job("DISCONNECT_OP", fd, Nobody, Nobody))
        /\ Do(u, "away")
        /\ UNCHANGED <<left, curr_fd, pc, localVars, events>>

Receivers == Users \cup {Group}
Client(u) ==
    \/ \E fd \in Fds : Arrive(u, fd)
    \/ \E to \in Receivers : Ask(u, "POSTTXT_OP", to)
    \/ \E op \in {"POSTTXTALL_OP", "GETPREVMSGS_OP"} : Ask(u, op, Nobody)
    \/ ReadFrame(u) \/ Leave(u)

-----------------------------------------------------------------------------
(* The slaves, up to the handler.                                          *)

Go(t, l) == pc' = [pc EXCEPT ![t] = l]
Decide(t, r) == verdict' = [verdict EXCEPT ![t] = r]

\* check_op_consistence: no disconnection beside other work for the connection.
Conflict(t, job) ==
    \E s \in Slaves \ {t} : job.op = "DISCONNECT_OP" /\ work[s].fd = job.fd

\* The first query of the handler; manage_postmessage refuses a sender who is the
\* receiver without one.
FirstStep(job) ==
    CASE job.op = "CONNECT_OP"     -> "connect"
      [] job.op = "POSTTXTALL_OP"  -> "count"
      [] job.op = "GETPREVMSGS_OP" -> "getprevmsgs"
      [] job.op = "DISCONNECT_OP"  -> "ending"
      [] job.op = "POSTTXT_OP"     ->
            IF job.to = job.user THEN "answer" ELSE IF job.to = Group THEN "count" ELSE "getuserfd"

\* queue_pop, the zone, and back to the end of the queue if it refuses.
Serve(t) ==
    LET job == Head(queue)
    IN  /\ pc[t] = "pop" /\ queue # <<>> /\ ~Conflict(t, job)
        /\ queue' = Tail(queue)
        /\ work' = [work EXCEPT ![t] = job]
        /\ Decide(t, IF job.to = job.user /\ job.op = "POSTTXT_OP" THEN "OP_FAIL" ELSE "OP_OK")
        /\ Go(t, FirstStep(job))
        /\ UNCHANGED <<clientVars, peer, stream, curr_fd, vec, size, grew, shrank, events>>

Refuse(t) ==
    /\ pc[t] = "pop" /\ queue # <<>> /\ Conflict(t, Head(queue))
    /\ queue' = Append(Tail(queue), Head(queue))
    /\ UNCHANGED <<clientVars, peer, stream, curr_fd, pc, localVars, events>>

-----------------------------------------------------------------------------
(* Who is online, and where.                                               *)

\* Whose rows the two queries about the receivers select.
Scope(t) == IF work[t].to = Group THEN Members ELSE Users
Online(us) == {u \in us : curr_fd[u] # VOID_FD}

\* The history of a change of the table between the two queries about the group.
Between(t) == pc[t] = "list" /\ work[t].to = Group
Noted(flag, us) == [t \in Slaves |-> flag[t] \/ (Between(t) /\ us \cap Scope(t) # {})]

\* manage_connectuser: the user may still be online on its last connection.
Connect(t) ==
    LET u == work[t].user
    IN  /\ pc[t] = "connect"
        /\ \/ /\ curr_fd[u] = VOID_FD
              /\ curr_fd' = [curr_fd EXCEPT ![u] = work[t].fd]
              /\ grew' = Noted(grew, {u})
              /\ UNCHANGED verdict
           \/ /\ curr_fd[u] # VOID_FD
              /\ Decide(t, "OP_FAIL")
              /\ UNCHANGED <<curr_fd, grew>>
        /\ Go(t, "answer")
        /\ UNCHANGED <<clientVars, peer, stream, queue, work, vec, size, shrank, events>>

\* manage_postmessage to a user, exec_getuserfd.
GetUserFd(t) ==
    /\ pc[t] = "getuserfd"
    /\ vec' = [vec EXCEPT ![t] = <<Entry(curr_fd[work[t].to], work[t].to)>>]
    /\ Go(t, "send")
    /\ UNCHANGED <<clientVars, peer, stream, curr_fd, queue, work, size, verdict, grew, shrank,
                   events>>

\* exec_getnumberonlineuser, exec_getnumberonlineusergroup: the size of the vector.
\* Without anybody online there is no list, and a sender cannot be in the group.
Count(t) ==
    LET n == Cardinality(Online(Scope(t)))
    IN  /\ pc[t] = "count"
        /\ size' = [size EXCEPT ![t] = n]
        /\ IF n > 0 THEN Go(t, "list") /\ UNCHANGED verdict
           ELSE /\ Go(t, "answer")
                /\ Decide(t, IF work[t].to = Group THEN "OP_NICK_UNKNOWN" ELSE "OP_OK")
        /\ UNCHANGED <<clientVars, peer, stream, curr_fd, queue, work, vec, grew, shrank,
                       events>>

\* Mutant of Filled: getlonglist_callback stops one entry too early.
FilledButOne(t, us) == us \subseteq Online(Scope(t)) /\ Cardinality(us) = size[t] - 1

\* The rows that fill the vector: all of them, or as many as it has entries.
Filled(t, us) ==
    LET rows == Online(Scope(t))
    IN  us \subseteq rows /\ Cardinality(us) = IF Cardinality(rows) < size[t]
                                               THEN Cardinality(rows) ELSE size[t]

\* What an entry without a row holds: 0 in the vector of exec_getonlineuserfd,
\* anything in that of exec_getonlineuser_in_group.
Unfilled(t) == IF work[t].to = Group THEN Fds \cup {Nowhere} ELSE {Nowhere}

\* exec_getonlineuserfd; exec_getonlineuser_in_group and the search for the
\* sender's descriptor among those of the group.
List(t) ==
    /\ pc[t] = "list"
    /\ \E us \in SUBSET Users, junk \in Unfilled(t) :
          LET rows == SetToSeq({Entry(curr_fd[u], u) : u \in us})
              list == rows \o [i \in 1 .. size[t] - Cardinality(us) |-> Entry(junk, Nobody)]
              refused == work[t].to = Group /\ \A i \in DOMAIN list : list[i].fd # work[t].fd
          IN  /\ Filled(t, us)
              /\ vec' = [vec EXCEPT ![t] = IF refused THEN <<>> ELSE list]
              /\ IF refused THEN Decide(t, "OP_NICK_UNKNOWN") ELSE UNCHANGED verdict
    /\ size' = [size EXCEPT ![t] = 0]
    /\ Go(t, "send")
    /\ UNCHANGED <<clientVars, peer, stream, curr_fd, queue, work, grew, shrank, events>>

\* manage_getprevmsgs: how many messages there are is in Chats.
GetPrevMsgs(t) ==
    /\ pc[t] = "getprevmsgs"
    /\ \E n \in 0 .. MaxHistory : size' = [size EXCEPT ![t] = n]
    /\ Go(t, "answer")
    /\ UNCHANGED <<clientVars, peer, stream, curr_fd, queue, work, vec, verdict, grew, shrank,
                   events>>

-----------------------------------------------------------------------------
(* The frames.                                                             *)

\* A write waits for room.  Written on a connection whose client is gone, or on a
\* number that is not open, it fails, and the slave does not look at the result.
Write(fd, f) ==
    IF fd \in Fds /\ peer[fd] \in Users
    THEN Len(stream[fd]) < Capacity /\ stream' = [stream EXCEPT ![fd] = Append(@, f)]
    ELSE UNCHANGED stream

\* A message to a group goes to its sender too.
Wanted(t, e) == e.fd # VOID_FD /\ (work[t].to = Group \/ e.fd # work[t].fd)

\* The loop over the vector, one entry a step.
Send(t) ==
    LET e == Head(vec[t])
    IN  /\ pc[t] = "send" /\ vec[t] # <<>>
        /\ IF Wanted(t, e) THEN Write(e.fd, Frame("TXT_MESSAGE", 0, e.for, e.stale))
           ELSE UNCHANGED stream
        /\ vec' = [vec EXCEPT ![t] = Tail(@)]
        /\ UNCHANGED <<clientVars, peer, curr_fd, queue, pc, work, size, verdict, grew, shrank,
                       events>>

\* Mutant of Answer: a sender who is not in the group gets no answer.
AnswerUnlessRefused(t) ==
    /\ pc[t] = "answer" \/ (pc[t] = "send" /\ vec[t] = <<>>)
    /\ IF verdict[t] = "OP_NICK_UNKNOWN" THEN UNCHANGED stream
       ELSE Write(work[t].fd, Frame(verdict[t], size[t], work[t].user, FALSE))
    /\ Go(t, IF size[t] > 0 THEN "history" ELSE "clean")
    /\ UNCHANGED <<clientVars, peer, curr_fd, queue, localVars, events>>

\* The answer: an acknowledgement, the list of the users online after CONNECT_OP,
\* the number of the messages that follow after GETPREVMSGS_OP.
Answer(t) ==
    /\ pc[t] = "answer" \/ (pc[t] = "send" /\ vec[t] = <<>>)
    /\ Write(work[t].fd, Frame(verdict[t], size[t], work[t].user, FALSE))
    /\ Go(t, IF size[t] > 0 THEN "history" ELSE "clean")
    /\ UNCHANGED <<clientVars, peer, curr_fd, queue, localVars, events>>

\* Mutant of SendHistory: the loop runs once too often.
SendHistoryAndOne(t) ==
    /\ pc[t] = "history"
    /\ Write(work[t].fd, Frame("TXT_MESSAGE", 0, work[t].user, FALSE))
    /\ size' = [size EXCEPT ![t] = @ - 1]
    /\ IF size[t] = 0 THEN Go(t, "clean") ELSE UNCHANGED pc
    /\ UNCHANGED <<clientVars, peer, curr_fd, queue, work, vec, verdict, grew, shrank, events>>

\* The messages of the history, one a step.
SendHistory(t) ==
    /\ pc[t] = "history"
    /\ Write(work[t].fd, Frame("TXT_MESSAGE", 0, work[t].user, FALSE))
    /\ size' = [size EXCEPT ![t] = @ - 1]
    /\ IF size[t] = 1 THEN Go(t, "clean") ELSE UNCHANGED pc
    /\ UNCHANGED <<clientVars, peer, curr_fd, queue, work, vec, verdict, grew, shrank, events>>

\* What a slave keeps of a job ends with it.
Forget(t) ==
    /\ work' = [work EXCEPT ![t] = NoJob]
    /\ grew' = [grew EXCEPT ![t] = FALSE]
    /\ Decide(t, "none")
    /\ Go(t, "pop")

\* clean_critic_zone, and the end of the job.
Clean(t) ==
    /\ pc[t] = "clean"
    /\ Forget(t)
    /\ shrank' = [shrank EXCEPT ![t] = FALSE]
    /\ UNCHANGED <<clientVars, peer, stream, curr_fd, queue, vec, size, events>>

Outdated(entries, fd) ==
    [i \in DOMAIN entries |-> IF entries[i].fd = fd THEN [entries[i] EXCEPT !.stale = TRUE]
                              ELSE entries[i]]

\* close(curr_work.fd): whatever was on its way is lost, and the number is free.
CloseFd(t) ==
    /\ peer' = [peer EXCEPT ![work[t].fd] = Free]
    /\ vec' = [s \in Slaves |-> Outdated(vec[s], work[t].fd)]
    /\ UNCHANGED <<clientVars, stream, queue, events>>

SignOff(t) ==
    LET gone == {u \in Users : curr_fd[u] = work[t].fd}
    IN  /\ curr_fd' = [u \in Users |-> IF u \in gone THEN VOID_FD ELSE curr_fd[u]]
        /\ shrank' = Noted(shrank, gone)

\* Mutant of Disconnect: the descriptor is closed first.
DisconnectClosesFirst(t) ==
    \/ /\ pc[t] = "ending"
       /\ CloseFd(t) /\ Go(t, "close")
       /\ UNCHANGED <<curr_fd, work, size, verdict, grew, shrank>>
    \/ /\ pc[t] = "close"
       /\ SignOff(t) /\ Forget(t)
       /\ UNCHANGED <<clientVars, peer, stream, queue, vec, size, events>>

\* DISCONNECT_OP: manage_disconnectuser, then close.
Disconnect(t) ==
    \/ /\ pc[t] = "ending"
       /\ SignOff(t) /\ Go(t, "close")
       /\ UNCHANGED <<clientVars, peer, stream, queue, work, vec, size, verdict, grew, events>>
    \/ /\ pc[t] = "close"
       /\ CloseFd(t) /\ Forget(t)
       /\ UNCHANGED <<curr_fd, size, shrank>>

Slave(t) ==
    \/ Serve(t) \/ Refuse(t)
    \/ Connect(t) \/ GetUserFd(t) \/ Count(t) \/ List(t) \/ GetPrevMsgs(t)
    \/ Send(t) \/ Answer(t) \/ SendHistory(t) \/ Clean(t) \/ Disconnect(t)

Next == (\E u \in Users : Client(u)) \/ (\E t \in Slaves : Slave(t))

\* A slave goes on.  A client goes on to its next operation or to the end of its
\* list, and reads while it waits for an answer.
Fairness ==
    /\ \A t \in Slaves : WF_vars(Slave(t))
    /\ \A u \in Users : WF_vars(ReadFrame(u) \/ Leave(u))

Spec == Init /\ [][Next]_vars /\ Fairness

-----------------------------------------------------------------------------
(* Correctness.                                                            *)

PCs == {"pop", "connect", "getuserfd", "count", "list", "getprevmsgs", "send", "answer",
        "history", "clean", "ending", "close"}

TypeOK ==
    /\ client \in [Users -> {"away", "idle", "asking", "history", "failed"}]
    /\ left \in [Users -> 0 .. MaxHistory]
    /\ peer \in [Fds -> Users \cup {Free, Gone}]
    /\ stream \in [Fds -> Seq(Frames)] /\ \A fd \in Fds : Len(stream[fd]) <= Capacity
    /\ curr_fd \in [Users -> Fds \cup {VOID_FD}]
    /\ queue \in Seq(Jobs)
    /\ pc \in [Slaves -> PCs]
    /\ work \in [Slaves -> Jobs \cup {NoJob}]
    /\ vec \in [Slaves -> Seq(Entries)]
    /\ size \in [Slaves -> Nat]
    /\ verdict \in [Slaves -> AnswerKinds \cup {"none"}]
    /\ grew \in [Slaves -> BOOLEAN] /\ shrank \in [Slaves -> BOOLEAN]
    /\ events \in 0 .. MaxEvents

\* Whatever is on its way to a client is meant for its user.  The exceptions are
\* a descriptor that was closed, and given to this client, after a slave had read
\* it for another user, and an entry of a group's vector that was never filled
\* (slaves.c:394-421, queries.h:904-925).  Answers and histories know neither.
OnlyStaleNumbersMislead ==
    \A fd \in Fds : \A i \in DOMAIN stream[fd] :
        LET f == stream[fd][i]
        IN  peer[fd] \in Users /\ f.for # peer[fd]
            => f.kind = "TXT_MESSAGE" /\ (f.stale \/ f.for = Nobody)

\* A message to the group is refused to those outside it and accepted from its
\* members, unless somebody went offline, or came online, between the query that
\* counts the members online and the one that lists them (queries.c:602-624,
\* queries.h:910-922).
GroupIsOfMembers ==
    \A t \in Slaves :
        work[t].op = "POSTTXT_OP" /\ work[t].to = Group /\ pc[t] \in {"send", "answer", "clean"}
        => IF work[t].user \in Members THEN verdict[t] = "OP_OK" \/ grew[t]
           ELSE verdict[t] = "OP_NICK_UNKNOWN" \/ shrank[t]

\* Every request of a client is answered, once, on its connection, and the
\* answer is read to its end, although slaves wait for clients that do not read
\* and clients for slaves (slaves.c:394-490, client.c:202-315).
Phase(u) ==
    LET frames == stream[FdOf(u)]
    IN  CASE client[u] = "away" -> "away"
          [] client[u] = "history" -> "answered"
          [] client[u] \notin {"away", "history"} ->
                IF \E i \in DOMAIN frames : frames[i].kind \in AnswerKinds THEN "answered"
                ELSE IF client[u] = "asking" THEN "asked" ELSE "idle"
RR == INSTANCE RequestReply WITH Clients <- Users, phase <- [u \in Users |-> Phase(u)]
ImplementsRequestReply == RR!Spec
=============================================================================
