------------------------------ MODULE Sessions ------------------------------
(***************************************************************************)
(* Who is registered and who is online: the table _User of the database    *)
(* (a name and curr_fd, the descriptor it is online on), and the handlers  *)
(* of queries.c that read and write it, run by the slaves of slaves.c for  *)
(* the requests of several connections at once.                            *)
(*                                                                         *)
(* A call of exec_query is one step: DbLock is the module about how        *)
(* exec_query makes it so.  Nothing protects a handler between two of its  *)
(* queries.  The core thread is reduced to what it does to descriptors and *)
(* to the queue; Dispatch is the module about its loop.  Groups and chats  *)
(* are in Chats; here a query about them is a choice over its answers.     *)
(***************************************************************************)
EXTENDS Integers, Sequences, FiniteSets

CONSTANTS
    Users,             \* names
    Fds,               \* descriptor numbers accept() may return
    Slaves,            \* the pool of threads
    DISCONNECTED_FD,   \* curr_fd of a registered user who is offline
    Absent,            \* the name has no row in _User
    ClientOps,         \* the operations clients send
    MaxEvents          \* bound: connections accepted plus requests read

RequestOps == {"REGISTER_OP", "CONNECT_OP", "UNREGISTER_OP", "USRLIST_OP"}

ASSUME UsersAssumption  == IsFiniteSet(Users)
ASSUME SlavesAssumption == IsFiniteSet(Slaves)
ASSUME FdsAssumption    == DISCONNECTED_FD \notin Fds /\ Absent \notin Fds
ASSUME AbsentAssumption == Absent # DISCONNECTED_FD
ASSUME OpsAssumption    == ClientOps \subseteq RequestOps
ASSUME EventsAssumption == MaxEvents \in Nat

VARIABLES
    curr_fd,     \* the table _User: curr_fd[u] is a descriptor, DISCONNECTED_FD or Absent
    open,        \* descriptors of client connections open in the process
    active_set,  \* those the core still reads from
    queue,       \* the jobs queued
    pc,          \* where slave t is
    curr_work,   \* the job slave t has in hand
    result,      \* the answer slave t has decided on
    nusers,      \* the counter of the registered users (sem_stats[nusers])
    events,      \* connections and requests so far, bounded by MaxEvents
    late         \* history: users put online for a connection already signed off

connVars  == <<open, active_set, queue, events>>
tableVars == <<curr_fd, late>>
vars == <<connVars, tableVars, result, pc, curr_work, nusers>>

(***************************************************************************)
(* A job is an operation, the descriptor it came from and the name in it   *)
(* (the sender).  `orphan` is history: its connection has been closed      *)
(* since.                                                                  *)
(***************************************************************************)
NoJob == [op |-> "none", fd |-> DISCONNECTED_FD, user |-> Absent, orphan |-> FALSE]
Jobs ==
    [op : RequestOps, fd : Fds, user : Users, orphan : BOOLEAN]
    \cup [op : {"DISCONNECT_OP"}, fd : Fds, user : {Absent}, orphan : BOOLEAN]

\* The steps of slave_routine, and of the handlers by the query about to be made.
HandlerPCs == {"checkexistname", "insertuser", "get_online_user", "disconnectuser",
               "stats", "checkexistuser", "getuserfd", "connectuser", "removeuser",
               "answer", "close"}
PCs == {"pop", "check", "repush"} \cup HandlerPCs

Working(t) == pc[t] \in HandlerPCs
Online == {u \in Users : curr_fd[u] \in Fds}
Registered == {u \in Users : curr_fd[u] # Absent}

Init ==
    /\ curr_fd = [u \in Users |-> Absent]
    /\ open = {} /\ active_set = {}
    /\ queue = <<>>
    /\ pc = [t \in Slaves |-> "pop"]
    /\ curr_work = [t \in Slaves |-> NoJob]
    /\ result = [t \in Slaves |-> "OP_NOOP"]
    /\ nusers = 0
    /\ events = 0
    /\ late = {}

Go(t, l) == pc' = [pc EXCEPT ![t] = l]
Decide(t, r) == result' = [result EXCEPT ![t] = r]

-----------------------------------------------------------------------------
(* The clients and the core thread.                                        *)

Accept(fd) ==
    /\ events < MaxEvents
    /\ fd \notin open
    /\ open' = open \cup {fd}
    /\ active_set' = active_set \cup {fd}
    /\ events' = events + 1
    /\ UNCHANGED <<queue, tableVars, result, pc, curr_work, nusers>>

Request(fd, o, u) ==
    /\ events < MaxEvents
    /\ fd \in active_set
    /\ queue' = Append(queue, [op |-> o, fd |-> fd, user |-> u, orphan |-> FALSE])
    /\ events' = events + 1
    /\ UNCHANGED <<open, active_set, tableVars, result, pc, curr_work, nusers>>

\* Mutant of Hangup: FD_CLR is missing.
HangupKeepsFd(fd) ==
    /\ fd \in active_set
    /\ Len(queue) < 3
    /\ queue' = Append(queue, [op |-> "DISCONNECT_OP", fd |-> fd, user |-> Absent,
                               orphan |-> FALSE])
    /\ UNCHANGED <<open, active_set, events, tableVars, result, pc, curr_work, nusers>>

\* The client goes away; all it sent has been read.
Hangup(fd) ==
    /\ fd \in active_set
    /\ active_set' = active_set \ {fd}
    /\ queue' = Append(queue, [op |-> "DISCONNECT_OP", fd |-> fd, user |-> Absent,
                               orphan |-> FALSE])
    /\ UNCHANGED <<open, events, tableVars, result, pc, curr_work, nusers>>

-----------------------------------------------------------------------------
(* The loop of a slave, up to the handler.                                 *)

Pop(t) ==
    /\ pc[t] = "pop"
    /\ queue # <<>>
    /\ curr_work' = [curr_work EXCEPT ![t] = Head(queue)]
    /\ queue' = Tail(queue)
    /\ Go(t, "check")
    /\ UNCHANGED <<open, active_set, events, tableVars, result, nusers>>

\* Another slave works for the same connection and check_op_consistence does not
\* let the job of t run beside it.
Conflict(t) ==
    \E s \in Slaves \ {t} :
        /\ Working(s)
        /\ curr_work[s].fd = curr_work[t].fd
        /\ \/ curr_work[t].op \in {"UNREGISTER_OP", "DISCONNECT_OP"}
           \/ curr_work[t].op # "REGISTER_OP" /\ curr_work[s].op = "REGISTER_OP"

FirstStep(o) ==
    CASE o = "REGISTER_OP"   -> "checkexistname"
      [] o = "CONNECT_OP"    -> "checkexistuser"
      [] o = "UNREGISTER_OP" -> "removeuser"
      [] o = "USRLIST_OP"    -> "get_online_user"
      [] o = "DISCONNECT_OP" -> "disconnectuser"

Check(t) ==
    /\ pc[t] = "check"
    /\ \/ Conflict(t) /\ Go(t, "repush")
       \/ ~Conflict(t) /\ Go(t, FirstStep(curr_work[t].op))
    /\ UNCHANGED <<connVars, tableVars, result, curr_work, nusers>>

\* What a slave keeps of a job ends with it.
Forget(t) ==
    /\ curr_work' = [curr_work EXCEPT ![t] = NoJob]
    /\ result' = [result EXCEPT ![t] = "OP_NOOP"]
    /\ Go(t, "pop")

Repush(t) ==
    /\ pc[t] = "repush"
    /\ queue' = Append(queue, curr_work[t])
    /\ Forget(t)
    /\ UNCHANGED <<open, active_set, events, tableVars, nusers>>

-----------------------------------------------------------------------------
(* The handlers, one query a step.                                         *)

Name(t) == curr_work[t].user
Fd(t)   == curr_work[t].fd

\* The row written now is for a connection that is, or is being, closed.
SignedOff(t) ==
    \/ curr_work[t].orphan
    \/ \E s \in Slaves : /\ curr_work[s].op = "DISCONNECT_OP" /\ curr_work[s].fd = Fd(t)
                         /\ pc[s] = "close"

SetOnline(t) ==
    /\ curr_fd' = [curr_fd EXCEPT ![Name(t)] = Fd(t)]
    /\ late' = IF SignedOff(t) THEN late \cup {Name(t)} ELSE late \ {Name(t)}

\* manage_insertuser, exec_checkexistname: the name is found in use if a user has
\* it and there is any chat at all, or if a group has it (the query counts the
\* product of _User and _Chat).
CheckExistName(t) ==
    /\ pc[t] = "checkexistname"
    /\ \/ Decide(t, "OP_NICK_ALREADY") /\ Go(t, "disconnectuser")
       \/ Go(t, "insertuser") /\ UNCHANGED result
    /\ UNCHANGED <<connVars, tableVars, curr_work, nusers>>

\* Mutant of InsertUser: INSERT OR IGNORE, a success also when the name is taken.
InsertOrIgnoreUser(t) ==
    /\ pc[t] = "insertuser"
    /\ IF curr_fd[Name(t)] = Absent THEN SetOnline(t) ELSE UNCHANGED tableVars
    /\ Decide(t, "OP_OK") /\ Go(t, "get_online_user")
    /\ UNCHANGED <<connVars, curr_work, nusers>>

\* exec_insertuser: the name is the primary key.
InsertUser(t) ==
    /\ pc[t] = "insertuser"
    /\ \/ /\ curr_fd[Name(t)] = Absent
          /\ SetOnline(t) /\ Decide(t, "OP_OK") /\ Go(t, "get_online_user")
       \/ /\ curr_fd[Name(t)] # Absent
          /\ Decide(t, "OP_NICK_ALREADY") /\ Go(t, "disconnectuser")
          /\ UNCHANGED tableVars
    /\ UNCHANGED <<connVars, curr_work, nusers>>

\* exec_get_online_user, which changes nothing: the list of the users is left out.
GetOnlineUser(t) ==
    /\ pc[t] = "get_online_user"
    /\ Decide(t, "OP_OK")
    /\ Go(t, IF curr_work[t].op = "REGISTER_OP" THEN "disconnectuser" ELSE "answer")
    /\ UNCHANGED <<connVars, tableVars, curr_work, nusers>>

AfterDisconnect(t) == IF curr_work[t].op = "REGISTER_OP" THEN "stats" ELSE "close"

\* Mutant of DisconnectUser: one of the rows only.
DisconnectOneUser(t) ==
    LET gone == {u \in Users : curr_fd[u] = Fd(t)}
    IN  /\ pc[t] = "disconnectuser"
        /\ \/ gone = {} /\ UNCHANGED tableVars
           \/ \E u \in gone : /\ curr_fd' = [curr_fd EXCEPT ![u] = DISCONNECTED_FD]
                              /\ late' = late \ {u}
        /\ Go(t, AfterDisconnect(t))
        /\ UNCHANGED <<connVars, result, curr_work, nusers>>

\* manage_disconnectuser: every row with this descriptor.  A registration ends
\* with it as well, whatever its result (MAKE_TEST_HAPPY).
DisconnectUser(t) ==
    LET gone == {u \in Users : curr_fd[u] = Fd(t)}
    IN  /\ pc[t] = "disconnectuser"
        /\ curr_fd' = [u \in Users |-> IF u \in gone THEN DISCONNECTED_FD ELSE curr_fd[u]]
        /\ late' = late \ gone
        /\ Go(t, AfterDisconnect(t))
        /\ UNCHANGED <<connVars, result, curr_work, nusers>>

\* The counter, after the handler of a REGISTER_OP.
UpdateStats(t) ==
    /\ pc[t] = "stats"
    /\ nusers' = IF result[t] = "OP_OK" THEN nusers + 1 ELSE nusers
    /\ Go(t, "answer")
    /\ UNCHANGED <<connVars, tableVars, result, curr_work>>

\* manage_connectuser, exec_checkexistuser.
CheckExistUser(t) ==
    /\ pc[t] = "checkexistuser"
    /\ \/ curr_fd[Name(t)] # Absent /\ Go(t, "getuserfd") /\ UNCHANGED result
       \/ curr_fd[Name(t)] = Absent /\ Decide(t, "OP_NICK_UNKNOWN") /\ Go(t, "answer")
    /\ UNCHANGED <<connVars, tableVars, curr_work, nusers>>

\* exec_getuserfd: online here already, online elsewhere (or unregistered since:
\* query_result is then still the 1 of the query before), or offline.
GetUserFd(t) ==
    LET fd == curr_fd[Name(t)]
    IN  /\ pc[t] = "getuserfd"
        /\ \/ /\ fd = Fd(t)
              /\ Go(t, "get_online_user") /\ UNCHANGED result
           \/ /\ fd = DISCONNECTED_FD
              /\ Go(t, "connectuser") /\ UNCHANGED result
           \/ /\ fd \notin {Fd(t), DISCONNECTED_FD}
              /\ Decide(t, "OP_FAIL") /\ Go(t, "answer")
        /\ UNCHANGED <<connVars, tableVars, curr_work, nusers>>

\* Mutant of ConnectUser: the UPDATE does not ask for curr_fd = -1.
ConnectUserAnyway(t) ==
    /\ pc[t] = "connectuser"
    /\ IF curr_fd[Name(t)] # Absent THEN SetOnline(t) ELSE UNCHANGED tableVars
    /\ Go(t, "get_online_user")
    /\ UNCHANGED <<connVars, result, curr_work, nusers>>

\* exec_connectuser: an UPDATE that may find no row to change, and is a success
\* all the same.
ConnectUser(t) ==
    /\ pc[t] = "connectuser"
    /\ IF curr_fd[Name(t)] = DISCONNECTED_FD THEN SetOnline(t) ELSE UNCHANGED tableVars
    /\ Go(t, "get_online_user")
    /\ UNCHANGED <<connVars, result, curr_work, nusers>>

\* manage_unregisteruser: a DELETE, a success also when there is no such row.
RemoveUser(t) ==
    /\ pc[t] = "removeuser"
    /\ curr_fd' = [curr_fd EXCEPT ![Name(t)] = Absent]
    /\ late' = late \ {Name(t)}
    /\ Decide(t, "OP_OK")
    /\ Go(t, "answer")
    /\ UNCHANGED <<connVars, curr_work, nusers>>

\* The answer to the client, what remains of the job, and the end of its work in
\* the critical zone.
Answer(t) ==
    /\ pc[t] = "answer"
    /\ nusers' = IF curr_work[t].op = "UNREGISTER_OP" THEN nusers - 1 ELSE nusers
    /\ Forget(t)
    /\ UNCHANGED <<connVars, tableVars>>

Orphaned(job, fd) == IF job.fd = fd THEN [job EXCEPT !.orphan = TRUE] ELSE job

\* The end of a DISCONNECT_OP: close, and the end of its work in the zone.
Close(t) ==
    /\ pc[t] = "close"
    /\ open' = open \ {Fd(t)}
    /\ queue' = [i \in DOMAIN queue |-> Orphaned(queue[i], Fd(t))]
    /\ curr_work' = [s \in Slaves |-> IF s = t THEN NoJob ELSE Orphaned(curr_work[s], Fd(t))]
    /\ Go(t, "pop")
    /\ UNCHANGED <<active_set, events, tableVars, result, nusers>>

Slave(t) ==
    \/ Pop(t) \/ Check(t) \/ Repush(t)
    \/ CheckExistName(t) \/ InsertUser(t) \/ GetOnlineUser(t)
    \/ DisconnectUser(t) \/ UpdateStats(t)
    \/ CheckExistUser(t) \/ GetUserFd(t) \/ ConnectUser(t)
    \/ RemoveUser(t) \/ Answer(t) \/ Close(t)

Next ==
    \/ \E fd \in Fds :
          \/ Accept(fd) \/ Hangup(fd)
          \/ \E o \in ClientOps, u \in Users : Request(fd, o, u)
    \/ \E t \in Slaves : Slave(t)

Spec == Init /\ [][Next]_vars

-----------------------------------------------------------------------------
(* Correctness.                                                            *)

TypeOK ==
    /\ curr_fd \in [Users -> Fds \cup {DISCONNECTED_FD, Absent}]
    /\ open \subseteq Fds
    /\ active_set \subseteq open
    /\ queue \in Seq(Jobs)
    /\ pc \in [Slaves -> PCs]
    /\ curr_work \in [Slaves -> Jobs \cup {NoJob}]
    /\ result \in [Slaves -> {"OP_NOOP", "OP_OK", "OP_FAIL", "OP_NICK_ALREADY",
                              "OP_NICK_UNKNOWN"}]
    /\ nusers \in Int
    /\ events \in 0 .. MaxEvents
    /\ late \subseteq Online

\* A user online on a descriptor is never moved to another one, by a connection
\* that raced with it or by a registration of the same name: it goes offline or
\* away first (queries.h:388-391, 402-403, queries.c:487-515).
NeverTakenOver ==
    [][\A u \in Users :
          curr_fd[u] \in Fds /\ curr_fd'[u] # curr_fd[u]
          => curr_fd'[u] \in {DISCONNECTED_FD, Absent}]_vars

\* Nobody stays online on a connection that was closed, or on a later one that
\* got its descriptor, except the users put online by requests that ran after,
\* or beside, the disconnection of their own connection (slaves.c:347-356,
\* queries.h:417-420).
OnlyOvertakenLinger ==
    \A u \in Online \ late :
        /\ curr_fd[u] \in open
        /\ \A t \in Slaves :
              pc[t] = "close" => Fd(t) # curr_fd[u]

\* The counter of the registered users never runs ahead of the table: every
\* registration counted has its row, whatever the races for a name
\* (slaves.c:308-317, 359-364, queries.c:419-443).
Uncounted == {t \in Slaves : /\ curr_work[t].op = "REGISTER_OP"
                             /\ result[t] = "OP_OK"
                             /\ pc[t] \in {"get_online_user", "disconnectuser", "stats"}}
Undiscounted == {t \in Slaves : curr_work[t].op = "UNREGISTER_OP" /\ pc[t] = "answer"}
NeverOvercounted ==
    nusers + Cardinality(Uncounted) - Cardinality(Undiscounted)
        <= Cardinality(Registered)
=============================================================================
