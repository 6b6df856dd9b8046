--------------------------- MODULE SessionsProofs ---------------------------
(***************************************************************************)
(* What holds of the table of the users for any number of users,           *)
(* connections, slaves and requests.  Three invariants lead there: which   *)
(* job a slave may have at each step (Stages), that a connection is ended  *)
(* by one job and is open and no longer read until that job closes it      *)
(* (Ends), and that a job whose connection has not been closed knows an    *)
(* open descriptor (Fresh).  The counter of the users is bounded by        *)
(* counting: every step that moves a slave into or out of Uncounted or     *)
(* Undiscounted moves nusers, or a row, with it (CountersStep).            *)
(***************************************************************************)
EXTENDS Sessions, FiniteSetTheorems, TLAPS

USE UsersAssumption, FdsAssumption, AbsentAssumption, OpsAssumption, EventsAssumption

-----------------------------------------------------------------------------
(* The invariants.                                                         *)

Types ==
    /\ curr_fd \in [Users -> Fds \cup {DISCONNECTED_FD, Absent}]
    /\ open \subseteq Fds /\ active_set \subseteq Fds
    /\ queue \in Seq(Jobs)
    /\ pc \in [Slaves -> PCs]
    /\ curr_work \in [Slaves -> Jobs \cup {NoJob}]
    /\ result \in [Slaves -> {"OP_NOOP", "OP_OK", "OP_FAIL", "OP_NICK_ALREADY",
                              "OP_NICK_UNKNOWN"}]
    /\ nusers \in Int
    /\ events \in 0 .. MaxEvents
    /\ late \subseteq Online

\* The jobs a slave may have at each step.
OpsAt(l) ==
    CASE l \in {"checkexistname", "insertuser", "stats"} -> {"REGISTER_OP"}
      [] l \in {"checkexistuser", "getuserfd", "connectuser"} -> {"CONNECT_OP"}
      [] l = "removeuser" -> {"UNREGISTER_OP"}
      [] l = "disconnectuser" -> {"REGISTER_OP", "DISCONNECT_OP"}
      [] l = "close" -> {"DISCONNECT_OP"}
      [] l = "get_online_user" -> {"REGISTER_OP", "CONNECT_OP", "USRLIST_OP"}
      [] l = "answer" -> RequestOps
      [] l \in {"check", "repush"} -> RequestOps \cup {"DISCONNECT_OP"}
      [] l = "pop" -> {"none"}

Stages == \A t \in Slaves : curr_work[t].op \in OpsAt(pc[t])

Ending(job) == job.op = "DISCONNECT_OP"
Queued == DOMAIN queue

\* A connection is ended by one job, queued or in hand.
Ends ==
    /\ active_set \subseteq open
    /\ \A i \in Queued : Ending(queue[i]) => queue[i].fd \in open \ active_set
    /\ \A t \in Slaves : Ending(curr_work[t]) => curr_work[t].fd \in open \ active_set
    /\ \A i, j \in Queued :
          Ending(queue[i]) /\ Ending(queue[j]) /\ i # j => queue[i].fd # queue[j].fd
    /\ \A s, t \in Slaves :
          Ending(curr_work[s]) /\ Ending(curr_work[t]) /\ s # t
          => curr_work[s].fd # curr_work[t].fd
    /\ \A t \in Slaves, i \in Queued :
          Ending(curr_work[t]) /\ Ending(queue[i]) => curr_work[t].fd # queue[i].fd

Fresh ==
    /\ \A i \in Queued : ~queue[i].orphan => queue[i].fd \in open
    /\ \A t \in Slaves : curr_work[t] # NoJob /\ ~curr_work[t].orphan => curr_work[t].fd \in open

-----------------------------------------------------------------------------
(* Jobs and queues.                                                        *)

LEMMA JobFields ==
    ASSUME NEW j \in Jobs
    PROVE  /\ j.op \in RequestOps \cup {"DISCONNECT_OP"} /\ j.op # "none"
           /\ j.fd \in Fds /\ j.orphan \in BOOLEAN /\ j # NoJob
           /\ j.op \in RequestOps => j.user \in Users
BY DEF Jobs, NoJob, RequestOps

LEMMA NoJobFields == NoJob.op = "none" /\ NoJob.fd = DISCONNECTED_FD /\ NoJob \notin Jobs
BY DEF NoJob, Jobs, RequestOps

LEMMA OrphanedJob ==
    ASSUME NEW j \in Jobs \cup {NoJob}, NEW fd \in Fds
    PROVE  /\ Orphaned(j, fd) \in Jobs \cup {NoJob}
           /\ j \in Jobs => Orphaned(j, fd) \in Jobs
           /\ Orphaned(j, fd).op = j.op /\ Orphaned(j, fd).fd = j.fd
           /\ j = NoJob <=> Orphaned(j, fd) = NoJob
           /\ j \in Jobs /\ ~Orphaned(j, fd).orphan => ~j.orphan /\ j.fd # fd
<1>1. CASE j = NoJob
  BY <1>1 DEF Orphaned, NoJob, Jobs, RequestOps
<1>2. CASE j \in Jobs /\ j.fd = fd
  <2>1. [j EXCEPT !.orphan = TRUE] \in Jobs
    BY <1>2 DEF Jobs
  <2>2. j \notin {NoJob} /\ [j EXCEPT !.orphan = TRUE].op = j.op
        /\ [j EXCEPT !.orphan = TRUE].fd = j.fd /\ [j EXCEPT !.orphan = TRUE].orphan
    BY <1>2 DEF Jobs, NoJob, RequestOps
  <2> QED BY <1>2, <2>1, <2>2, JobFields DEF Orphaned
<1>3. CASE j \in Jobs /\ j.fd # fd
  BY <1>3, JobFields DEF Orphaned
<1> QED BY <1>1, <1>2, <1>3

LEMMA HeadAndTail ==
    ASSUME queue \in Seq(Jobs), queue # <<>>
    PROVE  /\ Head(queue) = queue[1] /\ 1 \in Queued /\ Head(queue) \in Jobs
           /\ Tail(queue) \in Seq(Jobs)
           /\ \A i \in DOMAIN Tail(queue) : i + 1 \in Queued /\ Tail(queue)[i] = queue[i + 1]
                                            /\ i + 1 # 1
BY DEF Queued

LEMMA AppendedJob ==
    ASSUME queue \in Seq(Jobs), NEW j \in Jobs
    PROVE  /\ Append(queue, j) \in Seq(Jobs)
           /\ \A i \in DOMAIN Append(queue, j) :
                 IF i \in Queued THEN Append(queue, j)[i] = queue[i]
                 ELSE i = Len(queue) + 1 /\ Append(queue, j)[i] = j
BY DEF Queued

LEMMA MarkedQueue ==
    ASSUME queue \in Seq(Jobs), NEW fd \in Fds
    PROVE  [i \in DOMAIN queue |-> Orphaned(queue[i], fd)] \in Seq(Jobs)
<1> DEFINE n == Len(queue)
           q == [i \in 1 .. n |-> Orphaned(queue[i], fd)]
<1>1. n \in Nat /\ DOMAIN queue = 1 .. n
  OBVIOUS
<1>2. \A i \in 1 .. n : queue[i] \in Jobs
  OBVIOUS
<1>3. \A i \in 1 .. n : Orphaned(queue[i], fd) \in Jobs
  BY <1>2, OrphanedJob
<1>4. q \in [1 .. n -> Jobs]
  BY <1>3
<1> HIDE DEF q
<1>5. q \in Seq(Jobs)
  BY <1>1, <1>4
<1> QED BY <1>1, <1>5 DEF q

\* The table is written for a user of the table, with the descriptor of a connection.
LEMMA NameAndFd ==
    ASSUME Types, Stages, NEW t \in Slaves
    PROVE  /\ pc[t] # "pop" => curr_work[t] \in Jobs /\ Fd(t) \in Fds
           /\ pc[t] \notin {"pop", "check", "repush", "disconnectuser", "close"} => Name(t) \in Users
           /\ pc[t] = "pop" => curr_work[t] = NoJob
<1> DEFINE j == curr_work[t]
<1>1. j \in Jobs \cup {NoJob} /\ pc[t] \in PCs /\ j.op \in OpsAt(pc[t])
  BY DEF Types, Stages
<1>2. pc[t] = "pop" => j.op = "none"
  BY <1>1 DEF OpsAt
<1>3. pc[t] # "pop" => j.op # "none"
  BY <1>1 DEF OpsAt, RequestOps, PCs, HandlerPCs
<1>4. pc[t] \notin {"pop", "check", "repush", "disconnectuser", "close"} => j.op \in RequestOps
  BY <1>1 DEF OpsAt, RequestOps, PCs, HandlerPCs
<1> HIDE DEF j
<1> QED BY <1>1, <1>2, <1>3, <1>4, JobFields, NoJobFields DEF Fd, Name, j

LEMMA SetOnlineTypes ==
    ASSUME Types, NEW t \in Slaves, Name(t) \in Users, Fd(t) \in Fds, SetOnline(t)
    PROVE  curr_fd' \in [Users -> Fds \cup {DISCONNECTED_FD, Absent}] /\ late' \subseteq Online'
BY DEF Types, SetOnline, Online

LEMMA TypesStep == Types /\ Stages /\ [Next]_vars => Types'
<1> SUFFICES ASSUME Types, Stages, [Next]_vars PROVE Types'
  OBVIOUS
<1> USE DEF vars, connVars, tableVars
<1>1. ASSUME NEW fd \in Fds, Accept(fd) PROVE Types'
  BY <1>1 DEF Accept, Types, Online
<1>2. ASSUME NEW fd \in Fds, Hangup(fd) PROVE Types'
  <2>1. [op |-> "DISCONNECT_OP", fd |-> fd, user |-> Absent, orphan |-> FALSE] \in Jobs
    BY DEF Jobs
  <2>2. queue' \in Seq(Jobs)
    BY <1>2, <2>1, AppendedJob DEF Hangup, Types
  <2> QED BY <1>2, <2>2 DEF Hangup, Types, Online
<1>3. ASSUME NEW fd \in Fds, NEW o \in ClientOps, NEW u \in Users, Request(fd, o, u) PROVE Types'
  <2>1. [op |-> o, fd |-> fd, user |-> u, orphan |-> FALSE] \in Jobs
    BY DEF Jobs
  <2>2. queue' \in Seq(Jobs)
    BY <1>3, <2>1, AppendedJob DEF Request, Types
  <2>3. events' \in 0 .. MaxEvents
    BY <1>3 DEF Request, Types
  <2> QED BY <1>3, <2>2, <2>3 DEF Request, Types, Online
<1>4. ASSUME NEW t \in Slaves, Slave(t) PROVE Types'
  <2> USE DEF Go, Decide, PCs, HandlerPCs
  <2>1. CASE Pop(t)
    BY <2>1, HeadAndTail DEF Pop, Types, Online
  <2>2. CASE Check(t)
    <3>1. pc' \in [Slaves -> PCs]
      <4>1. curr_work[t].op \in RequestOps \cup {"DISCONNECT_OP"}
        BY <2>2, NameAndFd, JobFields DEF Check
      <4>2. FirstStep(curr_work[t].op) \in PCs
        BY <4>1 DEF FirstStep, RequestOps
      <4> QED BY <2>2, <4>2 DEF Check, Types
    <3> QED BY <2>2, <3>1 DEF Check, Types, Online
  <2>3. CASE Repush(t)
    <3>1. queue' \in Seq(Jobs)
      BY <2>3, NameAndFd, AppendedJob DEF Repush, Types
    <3> QED BY <2>3, <3>1 DEF Repush, Forget, Types, Online
  <2>4. CASE CheckExistName(t) \/ GetOnlineUser(t) \/ CheckExistUser(t) \/ GetUserFd(t)
    BY <2>4 DEF CheckExistName, GetOnlineUser, CheckExistUser, GetUserFd, Types, Online
  <2>5. CASE InsertUser(t)
    <3>1. Name(t) \in Users /\ Fd(t) \in Fds
      BY <2>5, NameAndFd DEF InsertUser
    <3>2. /\ curr_fd' \in [Users -> Fds \cup {DISCONNECTED_FD, Absent}]
          /\ late' \subseteq Online'
      BY <2>5, <3>1, SetOnlineTypes DEF InsertUser, Types, Online
    <3> QED BY <2>5, <3>2 DEF InsertUser, Types
  <2>6. CASE ConnectUser(t)
    <3>1. Name(t) \in Users /\ Fd(t) \in Fds
      BY <2>6, NameAndFd DEF ConnectUser
    <3>2. /\ curr_fd' \in [Users -> Fds \cup {DISCONNECTED_FD, Absent}]
          /\ late' \subseteq Online'
      BY <2>6, <3>1, SetOnlineTypes DEF ConnectUser, Types, Online
    <3> QED BY <2>6, <3>2 DEF ConnectUser, Types
  <2>7. CASE DisconnectUser(t)
    <3>1. AfterDisconnect(t) \in PCs
      BY DEF AfterDisconnect
    <3> QED BY <2>7, <3>1 DEF DisconnectUser, Types, Online
  <2>8. CASE UpdateStats(t) \/ Answer(t)
    BY <2>8 DEF UpdateStats, Answer, Forget, Types, Online
  <2>9. CASE RemoveUser(t)
    BY <2>9 DEF RemoveUser, Types, Online
  <2>10. CASE Close(t)
    <3>1. Fd(t) \in Fds
      BY <2>10, NameAndFd DEF Close
    <3>2. queue' \in Seq(Jobs)
      BY <2>10, <3>1, MarkedQueue DEF Close, Types
    <3>3. curr_work' \in [Slaves -> Jobs \cup {NoJob}]
      BY <2>10, <3>1, OrphanedJob DEF Close, Types
    <3> QED BY <2>10, <3>2, <3>3 DEF Close, Types, Online
  <2> QED BY <1>4, <2>1, <2>2, <2>3, <2>4, <2>5, <2>6, <2>7, <2>8, <2>9, <2>10 DEF Slave
<1>5. CASE UNCHANGED vars
  BY <1>5 DEF Types, Online
<1> QED BY <1>1, <1>2, <1>3, <1>4, <1>5 DEF Next

LEMMA StagesStep == Types /\ Stages /\ [Next]_vars => Stages'
<1> SUFFICES ASSUME Types, Stages, [Next]_vars PROVE Stages'
  OBVIOUS
<1> USE DEF vars, connVars, tableVars
<1>1. ASSUME NEW fd \in Fds, Accept(fd) \/ Hangup(fd) PROVE Stages'
  BY <1>1 DEF Accept, Hangup, Stages
<1>2. ASSUME NEW fd \in Fds, NEW o \in ClientOps, NEW u \in Users, Request(fd, o, u) PROVE Stages'
  BY <1>2 DEF Request, Stages
<1>3. ASSUME NEW t \in Slaves, Slave(t) PROVE Stages'
  <2>1. SUFFICES curr_work'[t].op \in OpsAt(pc'[t])
                 /\ \A s \in Slaves \ {t} : pc'[s] = pc[s] /\ curr_work'[s].op = curr_work[s].op
    BY DEF Stages
  <2>2. curr_work[t].op \in OpsAt(pc[t])
    BY DEF Stages
  <2> USE DEF Go, Decide
  <2>3. CASE Pop(t)
    <3>1. Head(queue).op \in RequestOps \cup {"DISCONNECT_OP"}
      BY <2>3, HeadAndTail, JobFields DEF Pop, Types
    <3> QED BY <2>3, <3>1 DEF Pop, Types, OpsAt
  <2>4. CASE Check(t)
    <3>1. curr_work[t].op \in RequestOps \cup {"DISCONNECT_OP"}
      BY <2>2, <2>4 DEF Check, OpsAt
    <3>2. curr_work[t].op \in OpsAt("repush") /\ curr_work[t].op \in OpsAt(FirstStep(curr_work[t].op))
      BY <3>1 DEF OpsAt, FirstStep, RequestOps
    <3> QED BY <2>4, <3>2 DEF Check, Types
  <2>5. CASE Repush(t) \/ Answer(t)
    BY <2>5, NoJobFields DEF Repush, Answer, Forget, Types, OpsAt
  <2>6. CASE CheckExistName(t) \/ InsertUser(t) \/ GetOnlineUser(t)
    BY <2>2, <2>6 DEF CheckExistName, InsertUser, GetOnlineUser, Types, OpsAt, RequestOps
  <2>7. CASE DisconnectUser(t) \/ UpdateStats(t) \/ RemoveUser(t)
    BY <2>2, <2>7 DEF DisconnectUser, AfterDisconnect, UpdateStats, RemoveUser, Types, OpsAt, RequestOps
  <2>8. CASE CheckExistUser(t) \/ GetUserFd(t) \/ ConnectUser(t)
    BY <2>2, <2>8 DEF CheckExistUser, GetUserFd, ConnectUser, Types, OpsAt, RequestOps
  <2>9. CASE Close(t)
    <3>1. Fd(t) \in Fds
      BY <2>9, NameAndFd DEF Close
    <3>2. \A s \in Slaves \ {t} : curr_work'[s].op = curr_work[s].op
      BY <2>9, <3>1, OrphanedJob DEF Close, Types
    <3> QED BY <2>9, <3>2, NoJobFields DEF Close, Types, OpsAt
  <2> QED BY <1>3, <2>3, <2>4, <2>5, <2>6, <2>7, <2>8, <2>9 DEF Slave
<1>4. CASE UNCHANGED vars
  BY <1>4 DEF Stages
<1> QED BY <1>1, <1>2, <1>3, <1>4 DEF Next

-----------------------------------------------------------------------------
(* Connections.                                                            *)

\* What the steps of a handler that leave the jobs alone have in common.
TableStep(t) ==
    \/ CheckExistName(t) \/ InsertUser(t) \/ GetOnlineUser(t) \/ DisconnectUser(t)
    \/ UpdateStats(t) \/ CheckExistUser(t) \/ GetUserFd(t) \/ ConnectUser(t) \/ RemoveUser(t)

LEMMA TableStepFrame ==
    ASSUME NEW t \in Slaves, Check(t) \/ TableStep(t)
    PROVE  UNCHANGED <<connVars, curr_work>>
BY DEF TableStep, Check, CheckExistName, InsertUser, GetOnlineUser, DisconnectUser,
       UpdateStats, CheckExistUser, GetUserFd, ConnectUser, RemoveUser, connVars

LEMMA EndsStep == Types /\ Stages /\ Ends /\ [Next]_vars => Ends'
<1> SUFFICES ASSUME Types, Stages, Ends, [Next]_vars PROVE Ends'
  OBVIOUS
<1> USE DEF connVars, tableVars
<1>1. ASSUME NEW fd \in Fds, Accept(fd) PROVE Ends'
  BY <1>1 DEF Accept, Ends, Queued, Ending
<1>2. ASSUME NEW fd \in Fds, Hangup(fd) PROVE Ends'
  <2> DEFINE j == [op |-> "DISCONNECT_OP", fd |-> fd, user |-> Absent, orphan |-> FALSE]
  <2>1. j \in Jobs /\ j.fd = fd
    BY DEF Jobs
  <2>2. fd \in open /\ fd \in active_set /\ active_set' = active_set \ {fd} /\ open' = open
        /\ queue' = Append(queue, j) /\ curr_work' = curr_work
    BY <1>2 DEF Hangup, Ends
  <2> HIDE DEF j
  <2> QED BY <2>1, <2>2, AppendedJob DEF Ends, Queued, Types
<1>3. ASSUME NEW fd \in Fds, NEW o \in ClientOps, NEW u \in Users, Request(fd, o, u) PROVE Ends'
  <2> DEFINE j == [op |-> o, fd |-> fd, user |-> u, orphan |-> FALSE]
  <2>1. j \in Jobs /\ ~Ending(j)
    BY DEF Jobs, Ending, RequestOps
  <2>2. active_set' = active_set /\ open' = open
        /\ queue' = Append(queue, j) /\ curr_work' = curr_work
    BY <1>3 DEF Request
  <2> HIDE DEF j
  <2> QED BY <2>1, <2>2, AppendedJob DEF Ends, Queued, Types
<1>4. ASSUME NEW t \in Slaves, Slave(t) PROVE Ends'
  <2>1. CASE Pop(t)
    <3>1. queue # <<>> /\ queue' = Tail(queue) /\ curr_work' = [curr_work EXCEPT ![t] = Head(queue)]
          /\ UNCHANGED <<open, active_set>> /\ ~Ending(curr_work[t])
      BY <2>1, NameAndFd, NoJobFields DEF Pop, Ending
    <3> QED BY <3>1, HeadAndTail DEF Ends, Queued, Types
  <2>2. CASE Repush(t)
    <3>1. curr_work[t] \in Jobs /\ queue' = Append(queue, curr_work[t])
          /\ curr_work' = [curr_work EXCEPT ![t] = NoJob]
          /\ UNCHANGED <<open, active_set>> /\ ~Ending(NoJob)
      BY <2>2, NameAndFd, NoJobFields DEF Repush, Forget, Ending
    <3> QED BY <3>1, AppendedJob DEF Ends, Queued, Types
  <2>3. CASE Check(t) \/ TableStep(t)
    BY <2>3, TableStepFrame DEF Ends, Queued
  <2>4. CASE Answer(t)
    <3>1. curr_work' = [curr_work EXCEPT ![t] = NoJob] /\ UNCHANGED connVars /\ ~Ending(NoJob)
      BY <2>4, NoJobFields DEF Answer, Forget, Ending
    <3> QED BY <3>1 DEF Ends, Queued, Types
  <2>5. CASE Close(t)
    <3>1. curr_work[t] \in Jobs /\ Fd(t) \in Fds /\ Ending(curr_work[t]) /\ ~Ending(NoJob)
      BY <2>5, NameAndFd, NoJobFields DEF Close, Ending, Stages, OpsAt
    <3>2. /\ DOMAIN queue' = DOMAIN queue
          /\ \A i \in Queued : queue'[i].op = queue[i].op /\ queue'[i].fd = queue[i].fd
      BY <2>5, <3>1, OrphanedJob DEF Close, Types, Queued
    <3>3. /\ curr_work'[t] = NoJob
          /\ \A s \in Slaves \ {t} : /\ curr_work'[s].op = curr_work[s].op
                                     /\ curr_work'[s].fd = curr_work[s].fd
      BY <2>5, <3>1, OrphanedJob DEF Close, Types
    <3>4. open' = open \ {curr_work[t].fd} /\ active_set' = active_set
      BY <2>5 DEF Close, Fd
    <3> QED BY <3>1, <3>2, <3>3, <3>4 DEF Ends, Queued, Ending
  <2> QED BY <1>4, <2>1, <2>2, <2>3, <2>4, <2>5 DEF Slave, TableStep
<1>5. CASE UNCHANGED vars
  BY <1>5 DEF Ends, Queued, vars
<1> QED BY <1>1, <1>2, <1>3, <1>4, <1>5 DEF Next

LEMMA FreshStep == Types /\ Stages /\ Ends /\ Fresh /\ [Next]_vars => Fresh'
<1> SUFFICES ASSUME Types, Stages, Ends, Fresh, [Next]_vars PROVE Fresh'
  OBVIOUS
<1> USE DEF connVars, tableVars
<1>1. ASSUME NEW fd \in Fds, Accept(fd) PROVE Fresh'
  BY <1>1 DEF Accept, Fresh, Queued
<1>2. ASSUME NEW fd \in Fds, NEW o, NEW u,
             queue' = Append(queue, [op |-> o, fd |-> fd, user |-> u, orphan |-> FALSE]),
             [op |-> o, fd |-> fd, user |-> u, orphan |-> FALSE] \in Jobs,
             fd \in open, UNCHANGED <<open, curr_work>>
      PROVE  Fresh'
  <2> DEFINE j == [op |-> o, fd |-> fd, user |-> u, orphan |-> FALSE]
  <2>1. j \in Jobs /\ j.fd = fd /\ queue' = Append(queue, j)
    BY <1>2
  <2> HIDE DEF j
  <2> QED BY <1>2, <2>1, AppendedJob DEF Fresh, Queued, Types
<1>3. ASSUME NEW fd \in Fds, Hangup(fd) PROVE Fresh'
  <2>1. [op |-> "DISCONNECT_OP", fd |-> fd, user |-> Absent, orphan |-> FALSE] \in Jobs
    BY DEF Jobs
  <2> QED BY <1>2, <1>3, <2>1 DEF Hangup, Ends
<1>4. ASSUME NEW fd \in Fds, NEW o \in ClientOps, NEW u \in Users, Request(fd, o, u) PROVE Fresh'
  <2>1. [op |-> o, fd |-> fd, user |-> u, orphan |-> FALSE] \in Jobs
    BY DEF Jobs
  <2> QED BY <1>2, <1>4, <2>1 DEF Request, Ends
<1>5. ASSUME NEW t \in Slaves, Slave(t) PROVE Fresh'
  <2>1. CASE Pop(t)
    <3>1. queue # <<>> /\ queue' = Tail(queue) /\ curr_work' = [curr_work EXCEPT ![t] = Head(queue)]
          /\ UNCHANGED open
      BY <2>1 DEF Pop
    <3> QED BY <3>1, HeadAndTail DEF Fresh, Queued, Types
  <2>2. CASE Repush(t)
    <3>1. curr_work[t] \in Jobs /\ queue' = Append(queue, curr_work[t])
          /\ curr_work' = [curr_work EXCEPT ![t] = NoJob] /\ UNCHANGED open
      BY <2>2, NameAndFd DEF Repush, Forget
    <3> QED BY <3>1, AppendedJob, NoJobFields DEF Fresh, Queued, Types
  <2>3. CASE Check(t) \/ TableStep(t)
    BY <2>3, TableStepFrame DEF Fresh, Queued
  <2>4. CASE Answer(t)
    BY <2>4 DEF Answer, Forget, Fresh, Queued, Types
  <2>5. CASE Close(t)
    <3>1. Fd(t) \in Fds /\ open' = open \ {Fd(t)}
      BY <2>5, NameAndFd DEF Close
    <3>2. \A i \in DOMAIN queue' :
             ~queue'[i].orphan => i \in Queued /\ ~queue[i].orphan /\ queue[i].fd # Fd(t)
                                  /\ queue'[i].fd = queue[i].fd
      <4>1. ASSUME NEW i \in Queued PROVE queue[i] \in Jobs /\ queue'[i] = Orphaned(queue[i], Fd(t))
        BY <2>5, <4>1 DEF Close, Types, Queued
      <4> QED BY <2>5, <3>1, <4>1, OrphanedJob DEF Close, Queued
    <3>3. \A s \in Slaves :
             curr_work'[s] # NoJob /\ ~curr_work'[s].orphan
             => curr_work[s] # NoJob /\ ~curr_work[s].orphan /\ curr_work[s].fd # Fd(t)
                /\ curr_work'[s].fd = curr_work[s].fd
      <4>1. ASSUME NEW s \in Slaves, curr_work'[s] # NoJob
            PROVE  /\ curr_work[s] \in Jobs \cup {NoJob}
                   /\ curr_work'[s] = Orphaned(curr_work[s], Fd(t))
        BY <2>5, <4>1 DEF Close, Types
      <4> QED BY <3>1, <4>1, OrphanedJob
    <3> QED BY <3>1, <3>2, <3>3 DEF Fresh, Queued
  <2> QED BY <1>5, <2>1, <2>2, <2>3, <2>4, <2>5 DEF Slave, TableStep
<1>6. CASE UNCHANGED vars
  BY <1>6 DEF Fresh, Queued, vars
<1> QED BY <1>1, <1>3, <1>4, <1>5, <1>6 DEF Next

IInv == Types /\ Stages /\ Ends /\ Fresh

LEMMA InitIInv == Init => IInv
<1> SUFFICES ASSUME Init PROVE IInv
  OBVIOUS
<1>1. queue \in Seq(Jobs) /\ Queued = {}
  BY DEF Init, Queued
<1>2. Types
  BY <1>1 DEF Init, Types, PCs
<1>3. Stages /\ \A t \in Slaves : ~Ending(curr_work[t]) /\ curr_work[t] = NoJob
  BY NoJobFields DEF Init, Stages, OpsAt, Ending
<1> QED BY <1>1, <1>2, <1>3 DEF Init, IInv, Ends, Fresh

LEMMA IInvStep == IInv /\ [Next]_vars => IInv'
BY TypesStep, StagesStep, EndsStep, FreshStep DEF IInv

LEMMA Invariance == Spec => []IInv
BY InitIInv, IInvStep, PTL DEF Spec

\* Every value is of its type, and the core reads from open connections only: the
\* one DISCONNECT_OP of a connection closes it after the core has let it go
\* (core.c:373-475, slaves.c:347-356).
THEOREM TypeCorrect == Spec => []TypeOK
<1>1. IInv => TypeOK
  BY DEF IInv, Types, Ends, TypeOK
<1> QED BY <1>1, Invariance, PTL

-----------------------------------------------------------------------------
(* Users and connections.                                                  *)

\* A user online is moved off its descriptor only by going offline or away,
\* whatever requests for the same name run beside each other (queries.h:388-391,
\* 402-403, queries.c:487-515).
THEOREM Takeovers == Spec => NeverTakenOver
<1> DEFINE Kept == \A u \in Users :
                      curr_fd[u] \in Fds /\ curr_fd'[u] # curr_fd[u]
                      => curr_fd'[u] \in {DISCONNECTED_FD, Absent}
<1>1. IInv /\ [Next]_vars => [Kept]_vars
  <2> SUFFICES ASSUME IInv, [Next]_vars, curr_fd' # curr_fd PROVE Kept
    OBVIOUS
  <2>1. PICK t \in Slaves : \/ InsertUser(t) \/ ConnectUser(t) \/ DisconnectUser(t) \/ RemoveUser(t)
    BY DEF Next, Accept, Hangup, Request, Slave, Pop, Check, Repush, CheckExistName,
           GetOnlineUser, UpdateStats, CheckExistUser, GetUserFd, Answer, Close, vars, tableVars
  <2> USE DEF IInv, Types
  <2>2. CASE InsertUser(t) \/ ConnectUser(t)
    BY <2>2 DEF InsertUser, ConnectUser, SetOnline, tableVars
  <2>3. CASE DisconnectUser(t) \/ RemoveUser(t)
    BY <2>3 DEF DisconnectUser, RemoveUser
  <2> QED BY <2>1, <2>2, <2>3
<1> QED BY <1>1, Invariance, PTL DEF NeverTakenOver, Spec

LEMMA LingerStep == IInv /\ OnlyOvertakenLinger /\ [Next]_vars => OnlyOvertakenLinger'
<1> SUFFICES ASSUME IInv, OnlyOvertakenLinger, [Next]_vars PROVE OnlyOvertakenLinger'
  OBVIOUS
<1> USE DEF IInv, connVars, tableVars, Fd
<1>1. ASSUME NEW fd \in Fds, Accept(fd) \/ Hangup(fd) PROVE OnlyOvertakenLinger'
  BY <1>1 DEF Accept, Hangup, OnlyOvertakenLinger, Online
<1>2. ASSUME NEW fd \in Fds, NEW o \in ClientOps, NEW u \in Users, Request(fd, o, u) PROVE OnlyOvertakenLinger'
  BY <1>2 DEF Request, OnlyOvertakenLinger, Online
<1>3. ASSUME NEW t \in Slaves, Slave(t) PROVE OnlyOvertakenLinger'
  <2> USE DEF Go, Decide
  <2>1. ASSUME UNCHANGED <<tableVars, open>>,
               \A s \in Slaves : pc'[s] = "close"
                                 => pc[s] = "close" /\ curr_work'[s].fd = curr_work[s].fd
        PROVE  OnlyOvertakenLinger'
    BY <2>1 DEF OnlyOvertakenLinger, Online
  <2>2. CASE Pop(t) \/ Repush(t)
    BY <2>1, <2>2 DEF Pop, Repush, Forget, Types
  <2>3. CASE Check(t)
    <3>1. FirstStep(curr_work[t].op) # "close"
      <4>1. curr_work[t].op \in RequestOps \cup {"DISCONNECT_OP"}
        BY <2>3, NameAndFd, JobFields DEF Check
      <4> QED BY <4>1 DEF FirstStep, RequestOps
    <3> QED BY <2>1, <2>3, <3>1 DEF Check, Types
  <2>4. CASE CheckExistName(t) \/ GetOnlineUser(t) \/ UpdateStats(t) \/ CheckExistUser(t)
             \/ GetUserFd(t) \/ Answer(t)
    BY <2>1, <2>4 DEF CheckExistName, GetOnlineUser, UpdateStats, CheckExistUser, GetUserFd,
                      Answer, Forget, Types
  <2>5. ASSUME SetOnline(t), UNCHANGED <<open, curr_work>>, curr_work[t] \in Jobs,
               Name(t) \in Users, pc[t] # "close", pc'[t] # "close",
               \A s \in Slaves \ {t} : pc'[s] = pc[s]
        PROVE  OnlyOvertakenLinger'
    <3>1. SUFFICES ASSUME NEW u \in Online' \ late'
                   PROVE  /\ curr_fd'[u] \in open
                          /\ \A s \in Slaves : pc'[s] = "close" => curr_work[s].fd # curr_fd'[u]
      BY <2>5 DEF OnlyOvertakenLinger
    <3>2. CASE u # Name(t)
      <4>1. u \in Online \ late /\ curr_fd'[u] = curr_fd[u]
        BY <2>5, <3>2 DEF SetOnline, Types, Online
      <4> QED BY <2>5, <4>1 DEF OnlyOvertakenLinger
    <3>3. CASE u = Name(t)
      <4>1. ~SignedOff(t) /\ curr_fd'[u] = curr_work[t].fd
        BY <2>5, <3>3 DEF SetOnline, Types, Fd
      <4>2. curr_work[t].fd \in open
        BY <2>5, <4>1, JobFields DEF SignedOff, Fresh
      <4>3. ASSUME NEW s \in Slaves, pc[s] = "close" PROVE curr_work[s].fd # curr_work[t].fd
        <5>1. curr_work[s].op = "DISCONNECT_OP"
          BY <4>3 DEF Stages, OpsAt
        <5> QED BY <4>1, <4>3, <5>1 DEF SignedOff, Fd
      <4> QED BY <2>5, <4>1, <4>2, <4>3
    <3> QED BY <3>2, <3>3
  <2>6. CASE InsertUser(t) \/ ConnectUser(t)
    <3>1. curr_work[t] \in Jobs /\ Name(t) \in Users
      BY <2>6, NameAndFd DEF InsertUser, ConnectUser
    <3>2. CASE SetOnline(t)
      BY <2>5, <2>6, <3>1, <3>2 DEF InsertUser, ConnectUser, Types
    <3>3. CASE UNCHANGED tableVars
      BY <2>1, <2>6, <3>3 DEF InsertUser, ConnectUser, Types
    <3> QED BY <2>6, <3>2, <3>3 DEF InsertUser, ConnectUser
  <2>7. CASE DisconnectUser(t)
    <3>1. ASSUME NEW u \in Online' \ late'
          PROVE  u \in Online \ late /\ curr_fd'[u] = curr_fd[u] /\ curr_fd[u] # Fd(t)
      BY <2>7 DEF DisconnectUser, Online, Types
    <3>2. /\ UNCHANGED <<open, curr_work>>
          /\ \A s \in Slaves \ {t} : pc'[s] = pc[s]
      BY <2>7 DEF DisconnectUser, Types
    <3>3. \A u \in Online' \ late' : curr_fd'[u] \in open'
      BY <3>1, <3>2 DEF OnlyOvertakenLinger
    <3>4. ASSUME NEW u \in Online' \ late', NEW s \in Slaves, pc'[s] = "close"
          PROVE  curr_work'[s].fd # curr_fd'[u]
      <4>1. CASE s = t
        BY <3>1, <3>2, <4>1 DEF Fd
      <4>2. CASE s # t
        BY <3>1, <3>2, <3>4, <4>2 DEF OnlyOvertakenLinger
      <4> QED BY <4>1, <4>2
    <3> QED BY <3>3, <3>4 DEF OnlyOvertakenLinger
  <2>8. CASE RemoveUser(t)
    <3>1. Name(t) \in Users
      BY <2>8, NameAndFd DEF RemoveUser
    <3> QED BY <2>8, <3>1 DEF RemoveUser, OnlyOvertakenLinger, Types, Online
  <2>9. CASE Close(t)
    <3>1. Fd(t) \in Fds /\ open' = open \ {Fd(t)} /\ UNCHANGED tableVars
      BY <2>9, NameAndFd DEF Close
    <3>2. \A u \in Online \ late : curr_fd[u] # Fd(t)
      BY <2>9 DEF Close, OnlyOvertakenLinger, Fd
    <3>3. \A s \in Slaves : pc'[s] = "close" => pc[s] = "close" /\ curr_work'[s].fd = curr_work[s].fd
      BY <2>9, <3>1, OrphanedJob DEF Close, Types
    <3> QED BY <3>1, <3>2, <3>3 DEF OnlyOvertakenLinger, Online
  <2> QED BY <1>3, <2>2, <2>3, <2>4, <2>6, <2>7, <2>8, <2>9 DEF Slave
<1>4. CASE UNCHANGED vars
  BY <1>4 DEF OnlyOvertakenLinger, Online, vars
<1> QED BY <1>1, <1>2, <1>3, <1>4 DEF Next

\* Whoever is left online on a descriptor that was closed was put online by a
\* request that ran beside, or after, the disconnection of its own connection, for
\* any number of them (slaves.c:347-356, queries.h:417-420).
THEOREM Lingering == Spec => []OnlyOvertakenLinger
<1>1. Init => OnlyOvertakenLinger
  BY DEF Init, OnlyOvertakenLinger, Online
<1> QED BY <1>1, Invariance, LingerStep, PTL DEF Spec

-----------------------------------------------------------------------------
(* The counter.                                                            *)

\* A registration that has come to its list of the users has its row.
Listed ==
    \A t \in Slaves :
        curr_work[t].op = "REGISTER_OP" /\ pc[t] = "get_online_user" => result[t] = "OP_OK"

LEMMA ListedStep == IInv /\ Listed /\ [Next]_vars => Listed'
<1> SUFFICES ASSUME IInv, Listed, [Next]_vars PROVE Listed'
  OBVIOUS
<1> USE DEF IInv, connVars, tableVars
<1>1. CASE UNCHANGED <<pc, curr_work, result>>
  BY <1>1 DEF Listed
<1>2. CASE \E fd \in Fds : \/ Accept(fd) \/ Hangup(fd)
                           \/ \E o \in ClientOps, u \in Users : Request(fd, o, u)
  BY <1>1, <1>2 DEF Accept, Hangup, Request
<1>3. ASSUME NEW t \in Slaves, Slave(t) PROVE Listed'
  <2> USE DEF Go, Decide
  <2>1. CASE Pop(t) \/ Repush(t) \/ Answer(t) \/ UpdateStats(t)
    BY <2>1 DEF Pop, Repush, Answer, UpdateStats, Forget, Types, Listed
  <2>2. CASE Check(t)
    <3>1. curr_work[t].op = "REGISTER_OP" => FirstStep(curr_work[t].op) # "get_online_user"
      BY DEF FirstStep
    <3> QED BY <2>2, <3>1 DEF Check, Types, Listed
  <2>3. CASE CheckExistName(t) \/ InsertUser(t) \/ GetOnlineUser(t)
    BY <2>3 DEF CheckExistName, InsertUser, GetOnlineUser, Types, Listed
  <2>4. CASE DisconnectUser(t) \/ RemoveUser(t)
    BY <2>4 DEF DisconnectUser, AfterDisconnect, RemoveUser, Types, Listed
  <2>5. CASE CheckExistUser(t) \/ GetUserFd(t) \/ ConnectUser(t)
    <3>1. curr_work[t].op # "REGISTER_OP"
      BY <2>5 DEF CheckExistUser, GetUserFd, ConnectUser, Stages, OpsAt
    <3> QED BY <2>5, <3>1 DEF CheckExistUser, GetUserFd, ConnectUser, Types, Listed
  <2>6. CASE Close(t)
    <3>1. Fd(t) \in Fds
      BY <2>6, NameAndFd DEF Close
    <3> QED BY <2>6, <3>1, OrphanedJob DEF Close, Types, Listed
  <2> QED BY <1>3, <2>1, <2>2, <2>3, <2>4, <2>5, <2>6 DEF Slave
<1> QED BY <1>1, <1>2, <1>3 DEF Next, vars

LEMMA CountsFinite ==
    /\ IsFiniteSet(Uncounted) /\ IsFiniteSet(Undiscounted) /\ IsFiniteSet(Registered)
    /\ {Cardinality(Uncounted), Cardinality(Undiscounted), Cardinality(Registered)} \subseteq Nat
<1>1. Uncounted \subseteq Slaves /\ Undiscounted \subseteq Slaves /\ Registered \subseteq Users
  BY DEF Uncounted, Undiscounted, Registered
<1> QED BY <1>1, SlavesAssumption, FS_Subset, FS_CardinalityType

\* What happens to the sets on both sides of the inequality at a step of slave t.
LEMMA CountersStep ==
    ASSUME IInv, Listed, NEW t \in Slaves, Slave(t)
    PROVE  \/ /\ Uncounted' = Uncounted /\ Undiscounted' = Undiscounted
              /\ Registered' = Registered /\ nusers' = nusers
           \/ /\ Uncounted' = Uncounted \cup {t} /\ Undiscounted' = Undiscounted /\ nusers' = nusers
              /\ \E u \in Users \ Registered : Registered' = Registered \cup {u}
           \/ /\ t \in Uncounted /\ Uncounted' = Uncounted \ {t} /\ Undiscounted' = Undiscounted
              /\ Registered' = Registered /\ nusers' = nusers + 1
           \/ /\ Uncounted' = Uncounted /\ t \notin Undiscounted
              /\ Undiscounted' = Undiscounted \cup {t} /\ nusers' = nusers
              /\ \E u \in Users : Registered' = Registered \ {u}
           \/ /\ Uncounted' = Uncounted /\ t \in Undiscounted /\ Undiscounted' = Undiscounted \ {t}
              /\ Registered' = Registered /\ nusers' = nusers - 1
<1> USE DEF IInv, connVars, tableVars, Go, Decide
<1> DEFINE Counts(s) == /\ curr_work[s].op = "REGISTER_OP" /\ result[s] = "OP_OK"
                        /\ pc[s] \in {"get_online_user", "disconnectuser", "stats"}
           Leaves(s) == curr_work[s].op = "UNREGISTER_OP" /\ pc[s] = "answer"
<1>1. \A s \in Slaves : (s \in Uncounted <=> Counts(s)) /\ (s \in Uncounted' <=> Counts(s)')
                        /\ (s \in Undiscounted <=> Leaves(s)) /\ (s \in Undiscounted' <=> Leaves(s)')
  BY DEF Uncounted, Undiscounted
<1>2. \A s \in Slaves \ {t} : (Counts(s)' <=> Counts(s)) /\ (Leaves(s)' <=> Leaves(s))
  <2>1. CASE Close(t)
    <3>1. Fd(t) \in Fds
      BY <2>1, NameAndFd DEF Close
    <3> QED BY <2>1, <3>1, OrphanedJob DEF Close, Types
  <2>2. CASE ~Close(t)
    BY <2>2 DEF Slave, Pop, Check, Repush, CheckExistName, InsertUser, GetOnlineUser,
                DisconnectUser, UpdateStats, CheckExistUser, GetUserFd, ConnectUser, RemoveUser,
                Answer, Forget, Types
  <2> QED BY <2>1, <2>2
<1>3. ASSUME Counts(t)' <=> Counts(t), Leaves(t)' <=> Leaves(t)
      PROVE  Uncounted' = Uncounted /\ Undiscounted' = Undiscounted
  BY <1>2, <1>3 DEF Uncounted, Undiscounted
<1>4. ASSUME \A u \in Users : curr_fd'[u] = Absent <=> curr_fd[u] = Absent
      PROVE  Registered' = Registered
  BY <1>4 DEF Registered
<1>5. CASE Pop(t) \/ Check(t) \/ Repush(t)
  <2>1. Counts(t)' <=> Counts(t)
    <3>1. CASE Check(t)
      <4>1. curr_work[t].op = "REGISTER_OP" => FirstStep(curr_work[t].op) = "checkexistname"
        BY DEF FirstStep
      <4> QED BY <3>1, <4>1 DEF Check, Types
    <3> QED BY <1>5, <3>1 DEF Pop, Repush, Forget, Types
  <2>2. Leaves(t)' <=> Leaves(t)
    <3>1. CASE Check(t)
      <4>1. curr_work[t].op = "UNREGISTER_OP" => FirstStep(curr_work[t].op) = "removeuser"
        BY DEF FirstStep
      <4> QED BY <3>1, <4>1 DEF Check, Types
    <3> QED BY <1>5, <3>1 DEF Pop, Repush, Forget, Types
  <2>3. UNCHANGED <<curr_fd, nusers>>
    BY <1>5 DEF Pop, Check, Repush
  <2> QED BY <1>3, <1>4, <2>1, <2>2, <2>3
<1>6. CASE CheckExistName(t) \/ CheckExistUser(t) \/ GetUserFd(t) \/ GetOnlineUser(t)
  <2>1. UNCHANGED <<curr_fd, nusers, curr_work>>
    BY <1>6 DEF CheckExistName, CheckExistUser, GetUserFd, GetOnlineUser
  <2>2. Counts(t)' <=> Counts(t)
    <3>1. CASE GetOnlineUser(t)
      BY <3>1 DEF GetOnlineUser, Listed, Types
    <3>2. CASE CheckExistName(t)
      BY <3>2 DEF CheckExistName, Types
    <3>3. CASE CheckExistUser(t) \/ GetUserFd(t)
      <4>1. curr_work[t].op = "CONNECT_OP"
        BY <3>3 DEF CheckExistUser, GetUserFd, Stages, OpsAt
      <4> QED BY <4>1, <2>1
    <3> QED BY <1>6, <3>1, <3>2, <3>3
  <2>3. Leaves(t)' <=> Leaves(t)
    <3>1. curr_work[t].op # "UNREGISTER_OP"
      BY <1>6 DEF CheckExistName, CheckExistUser, GetUserFd, GetOnlineUser, Stages, OpsAt
    <3> QED BY <2>1, <3>1
  <2> QED BY <1>3, <1>4, <2>1, <2>2, <2>3
<1>7. CASE InsertUser(t)
  <2>1. /\ curr_work[t].op = "REGISTER_OP" /\ UNCHANGED <<curr_work, nusers>>
        /\ pc[t] = "insertuser"
    BY <1>7 DEF InsertUser, Stages, OpsAt
  <2>2. Undiscounted' = Undiscounted
    BY <1>2, <2>1 DEF Undiscounted
  <2>3. Name(t) \in Users /\ Fd(t) \in Fds
    BY <1>7, NameAndFd DEF InsertUser
  <2>4. CASE curr_fd[Name(t)] = Absent
    <3>1. Registered' = Registered \cup {Name(t)} /\ Name(t) \notin Registered
      BY <1>7, <2>3, <2>4 DEF InsertUser, SetOnline, Registered, Types
    <3>2. Counts(t)'
      BY <1>7, <2>1, <2>4 DEF InsertUser, Types
    <3>3. Uncounted' = Uncounted \cup {t}
      BY <1>2, <3>2 DEF Uncounted
    <3> QED BY <2>1, <2>2, <2>3, <3>1, <3>3
  <2>5. CASE curr_fd[Name(t)] # Absent
    <3>1. ~Counts(t) /\ ~Counts(t)' /\ curr_fd' = curr_fd
      BY <1>7, <2>1, <2>5 DEF InsertUser, Types
    <3> QED BY <1>3, <1>4, <2>1, <3>1
  <2> QED BY <2>4, <2>5
<1>8. CASE DisconnectUser(t) \/ ConnectUser(t)
  <2>1. UNCHANGED <<nusers, curr_work, result>> /\ curr_work[t].op # "UNREGISTER_OP"
    BY <1>8 DEF DisconnectUser, ConnectUser, Stages, OpsAt
  <2>2. Counts(t)' <=> Counts(t)
    <3>1. CASE ConnectUser(t)
      BY <2>1, <3>1 DEF ConnectUser, Stages, OpsAt
    <3>2. CASE DisconnectUser(t)
      BY <2>1, <3>2 DEF DisconnectUser, AfterDisconnect, Types
    <3> QED BY <1>8, <3>1, <3>2
  <2>3. \A u \in Users : curr_fd'[u] = Absent <=> curr_fd[u] = Absent
    <3>1. CASE ConnectUser(t)
      <4>1. Fd(t) \in Fds /\ Name(t) \in Users
        BY <3>1, NameAndFd DEF ConnectUser
      <4> QED BY <3>1, <4>1 DEF ConnectUser, SetOnline, Types
    <3>2. CASE DisconnectUser(t)
      <4>1. Fd(t) \in Fds
        BY <3>2, NameAndFd DEF DisconnectUser
      <4> QED BY <3>2, <4>1 DEF DisconnectUser, Types
    <3> QED BY <1>8, <3>1, <3>2
  <2> QED BY <1>3, <1>4, <2>1, <2>2, <2>3
<1>9. CASE UpdateStats(t)
  <2>1. /\ curr_work[t].op = "REGISTER_OP" /\ UNCHANGED <<curr_work, result, curr_fd>>
        /\ pc[t] = "stats" /\ ~Counts(t)'
    BY <1>9 DEF UpdateStats, Stages, OpsAt, Types
  <2>2. Undiscounted' = Undiscounted
    BY <1>2, <2>1 DEF Undiscounted
  <2>3. CASE result[t] = "OP_OK"
    <3>1. t \in Uncounted /\ Uncounted' = Uncounted \ {t}
      BY <1>2, <2>1, <2>3 DEF Uncounted
    <3> QED BY <1>4, <1>9, <2>1, <2>2, <2>3, <3>1 DEF UpdateStats
  <2>4. CASE result[t] # "OP_OK"
    BY <1>3, <1>4, <1>9, <2>1, <2>4 DEF UpdateStats
  <2> QED BY <2>3, <2>4
<1>10. CASE RemoveUser(t)
  <2>1. /\ curr_work[t].op = "UNREGISTER_OP" /\ UNCHANGED <<curr_work, nusers>>
        /\ pc[t] = "removeuser" /\ Leaves(t)'
    BY <1>10 DEF RemoveUser, Stages, OpsAt, Types
  <2>2. Uncounted' = Uncounted
    BY <1>2, <2>1 DEF Uncounted
  <2>3. t \notin Undiscounted /\ Undiscounted' = Undiscounted \cup {t}
    BY <1>2, <2>1 DEF Undiscounted
  <2>4. Name(t) \in Users
    BY <1>10, NameAndFd DEF RemoveUser
  <2>5. Registered' = Registered \ {Name(t)}
    BY <1>10, <2>4 DEF RemoveUser, Registered, Types
  <2> QED BY <2>1, <2>2, <2>3, <2>4, <2>5
<1>11. CASE Answer(t)
  <2>1. ~Counts(t) /\ ~Counts(t)' /\ ~Leaves(t)' /\ curr_fd' = curr_fd /\ pc[t] = "answer"
    BY <1>11 DEF Answer, Forget, Types
  <2>2. Uncounted' = Uncounted
    BY <1>2, <2>1 DEF Uncounted
  <2>3. CASE curr_work[t].op = "UNREGISTER_OP"
    <3>1. t \in Undiscounted /\ Undiscounted' = Undiscounted \ {t}
      BY <1>2, <2>1, <2>3 DEF Undiscounted
    <3> QED BY <1>4, <1>11, <2>1, <2>2, <2>3, <3>1 DEF Answer
  <2>4. CASE curr_work[t].op # "UNREGISTER_OP"
    BY <1>3, <1>4, <1>11, <2>1, <2>4 DEF Answer
  <2> QED BY <2>3, <2>4
<1>12. CASE Close(t)
  <2>1. pc[t] = "close" /\ pc'[t] = "pop" /\ UNCHANGED <<curr_fd, nusers>>
    BY <1>12 DEF Close, Types
  <2> QED BY <1>3, <1>4, <2>1
<1> QED BY <1>5, <1>6, <1>7, <1>8, <1>9, <1>10, <1>11, <1>12 DEF Slave

LEMMA CounterStep == IInv /\ Listed /\ NeverOvercounted /\ [Next]_vars => NeverOvercounted'
<1> SUFFICES ASSUME IInv, Listed, NeverOvercounted, [Next]_vars PROVE NeverOvercounted'
  OBVIOUS
<1> DEFINE U == Cardinality(Uncounted)
           D == Cardinality(Undiscounted)
           R == Cardinality(Registered)
<1>1. /\ nusers \in Int /\ U \in Nat /\ D \in Nat /\ R \in Nat
      /\ nusers + U - D <= R
  BY CountsFinite DEF IInv, Types, NeverOvercounted
<1>2. ASSUME Uncounted' = Uncounted, Undiscounted' = Undiscounted, Registered' = Registered,
             nusers' = nusers
      PROVE  NeverOvercounted'
  BY <1>2 DEF NeverOvercounted
<1>3. CASE UNCHANGED <<pc, curr_work, result, curr_fd, nusers>>
  BY <1>2, <1>3 DEF Uncounted, Undiscounted, Registered
<1>4. CASE \E fd \in Fds : \/ Accept(fd) \/ Hangup(fd)
                           \/ \E o \in ClientOps, u \in Users : Request(fd, o, u)
  BY <1>3, <1>4 DEF Accept, Hangup, Request, tableVars
<1>5. ASSUME NEW t \in Slaves, Slave(t) PROVE NeverOvercounted'
  <2>1. CASE /\ Uncounted' = Uncounted \cup {t} /\ Undiscounted' = Undiscounted /\ nusers' = nusers
             /\ \E u \in Users \ Registered : Registered' = Registered \cup {u}
    <3>1. Cardinality(Registered') = R + 1
      BY <2>1, CountsFinite, FS_AddElement
    <3>2. Cardinality(Uncounted') \in {U, U + 1}
      BY <2>1, CountsFinite, FS_AddElement
    <3>3. nusers + Cardinality(Uncounted') - D <= R + 1
      <4>1. CASE Cardinality(Uncounted') = U
        BY <1>1, <4>1
      <4>2. CASE Cardinality(Uncounted') = U + 1
        BY <1>1, <4>2
      <4> QED BY <3>2, <4>1, <4>2
    <3> QED BY <2>1, <3>1, <3>3 DEF NeverOvercounted
  <2>2. CASE /\ t \in Uncounted /\ Uncounted' = Uncounted \ {t} /\ Undiscounted' = Undiscounted
             /\ Registered' = Registered /\ nusers' = nusers + 1
    <3>1. Cardinality(Uncounted') = U - 1
      BY <2>2, CountsFinite, FS_RemoveElement
    <3>2. (nusers + 1) + (U - 1) - D <= R
      BY <1>1
    <3> QED BY <2>2, <3>1, <3>2 DEF NeverOvercounted
  <2>3. CASE /\ Uncounted' = Uncounted /\ t \notin Undiscounted
             /\ Undiscounted' = Undiscounted \cup {t} /\ nusers' = nusers
             /\ \E u \in Users : Registered' = Registered \ {u}
    <3>1. Cardinality(Undiscounted') = D + 1
      BY <2>3, CountsFinite, FS_AddElement
    <3>2. Cardinality(Registered') \in {R, R - 1}
      BY <2>3, CountsFinite, FS_RemoveElement
    <3>3. nusers + U - (D + 1) <= Cardinality(Registered')
      <4>1. CASE Cardinality(Registered') = R
        BY <1>1, <4>1
      <4>2. CASE Cardinality(Registered') = R - 1
        BY <1>1, <4>2
      <4> QED BY <3>2, <4>1, <4>2
    <3> QED BY <2>3, <3>1, <3>3 DEF NeverOvercounted
  <2>4. CASE /\ Uncounted' = Uncounted /\ t \in Undiscounted /\ Undiscounted' = Undiscounted \ {t}
             /\ Registered' = Registered /\ nusers' = nusers - 1
    <3>1. Cardinality(Undiscounted') = D - 1
      BY <2>4, CountsFinite, FS_RemoveElement
    <3>2. (nusers - 1) + U - (D - 1) <= R
      BY <1>1
    <3> QED BY <2>4, <3>1, <3>2 DEF NeverOvercounted
  <2> QED BY <1>2, <1>5, <2>1, <2>2, <2>3, <2>4, CountersStep
<1> QED BY <1>3, <1>4, <1>5 DEF Next, vars, tableVars

\* The counter of the registered users, with the registrations still to be counted
\* and the removals still to be, never exceeds the rows of the table, for any number
\* of slaves racing for any names (slaves.c:308-317, 359-364, queries.c:419-443).
THEOREM Counter == Spec => []NeverOvercounted
<1>1. Init => Listed /\ NeverOvercounted
  <2> SUFFICES ASSUME Init PROVE Listed /\ NeverOvercounted
    OBVIOUS
  <2>1. Listed
    BY DEF Init, Listed, NoJob
  <2>2. Uncounted = {} /\ Undiscounted = {} /\ nusers = 0
    BY DEF Init, Uncounted, Undiscounted, NoJob
  <2>3. Cardinality(Uncounted) = 0 /\ Cardinality(Undiscounted) = 0
    BY <2>2, FS_EmptySet
  <2>4. Cardinality(Registered) \in Nat
    BY CountsFinite
  <2> QED BY <2>1, <2>2, <2>3, <2>4 DEF NeverOvercounted
<1> QED BY <1>1, Invariance, ListedStep, CounterStep, PTL DEF Spec
=============================================================================
