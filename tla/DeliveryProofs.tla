--------------------------- MODULE DeliveryProofs ---------------------------
(***************************************************************************)
(* Proofs of the invariants of Delivery, and that its dialogues are in the *)
(* order RequestReply promises, for any number of users, descriptors and   *)
(* slaves and any bound on frames, histories and events.                   *)
(*                                                                         *)
(* Whom a frame is meant for and whose client reads it are known in four   *)
(* places that change at different times: the table, the vectors of the    *)
(* slaves, the jobs and the connections.  Safe ties them together: as long *)
(* as a client is there the table, and an entry that is not stale, lead to *)
(* it or nowhere (Table, Vectors); a connection has one request, in the    *)
(* queue or in hand, or one answer (OneAtATime), so the client that waits  *)
(* waits for it; and a descriptor is closed when no other job has it       *)
(* (Alone).  GroupIsOfMembers needs more: that a client which was told it  *)
(* is connected is in the table (Registered), and that the members online  *)
(* are as many as were counted unless the two history variables tell why   *)
(* not (Counted).  There is one lemma for each action.                     *)
(***************************************************************************)
EXTENDS Delivery, FiniteSetTheorems, TLAPS

USE MembersAssumption, FdsAssumption, NobodyAssumption, CapacityAssumption, BoundsAssumption,
    UsersAssumption

-----------------------------------------------------------------------------
(* The invariants.                                                         *)

\* Where a slave has its answer still to give, has given it, and ends a connection.
Early == {"connect", "getuserfd", "count", "list", "getprevmsgs", "send", "answer"}
Late  == {"history", "clean"}
Ends  == {"ending", "close"}

Posts == {"POSTTXT_OP", "POSTTXTALL_OP"}
Asked == {"CONNECT_OP", "POSTTXT_OP", "POSTTXTALL_OP", "GETPREVMSGS_OP"}

\* The jobs a slave may have at each step.
OpsAt(l) ==
    CASE l = "connect" -> {"CONNECT_OP"}
      [] l = "getuserfd" -> {"POSTTXT_OP"}
      [] l \in {"count", "list", "send"} -> Posts
      [] l \in {"getprevmsgs", "history"} -> {"GETPREVMSGS_OP"}
      [] l \in {"answer", "clean"} -> Asked
      [] l \in Ends -> {"DISCONNECT_OP"}
      [] OTHER -> {"none"}

\* A client's request has its user, and one to somebody its receiver.
Proper(job) ==
    /\ job.op = "DISCONNECT_OP" <=> job.user = Nobody
    /\ job.op = "POSTTXT_OP" <=> job.to # Nobody

Stage(t) ==
    /\ work[t].op \in OpsAt(pc[t])
    /\ pc[t] # "pop" => Proper(work[t])
    /\ pc[t] = "getuserfd" => work[t].to \in Users
    /\ pc[t] \in {"count", "list", "getuserfd", "getprevmsgs"} => verdict[t] = "OP_OK"
    /\ pc[t] \in Early => verdict[t] \in AnswerKinds
    /\ size[t] # 0 => \/ pc[t] = "list"
                      \/ pc[t] \in {"answer", "history"} /\ work[t].op = "GETPREVMSGS_OP"
                         /\ size[t] <= MaxHistory
    /\ pc[t] = "history" => size[t] # 0

Stages == \A t \in Slaves : Stage(t)

Queue == \A i \in DOMAIN queue : Proper(queue[i])

\* A client that is there is at the end of one connection, and where no client is
\* nothing is on its way.
Clients ==
    /\ \A u \in Users : client[u] = "away" <=> ~Connected(u)
    /\ \A u \in Users : client[u] = "history" => left[u] # 0
    /\ \A f, g \in Fds : peer[f] \in Users /\ peer[f] = peer[g] => f = g
    /\ \A fd \in Fds : peer[fd] \notin Users => stream[fd] = <<>>

\* A request is of the client at the other end, which waits for the answer; a
\* connection is ended when its client is gone.
Waiting(job) ==
    IF job.op = "DISCONNECT_OP" THEN peer[job.fd] = Gone
    ELSE peer[job.fd] = job.user /\ client[job.user] = "asking"

Busy(t) == pc[t] \in Early \cup Ends

Requests ==
    /\ \A i \in DOMAIN queue : Waiting(queue[i])
    /\ \A t \in Slaves : Busy(t) => Waiting(work[t])
    /\ \A t \in Slaves : pc[t] \in Late => peer[work[t].fd] \in {work[t].user, Gone}

Answers(fd) == {i \in DOMAIN stream[fd] : stream[fd][i].kind \in AnswerKinds}

\* A connection has one job, queued or in hand, or one answer on its way, or none.
OneAtATime ==
    /\ \A i, k \in DOMAIN queue : queue[i].fd = queue[k].fd => i = k
    /\ \A i \in DOMAIN queue, t \in Slaves : Busy(t) => queue[i].fd # work[t].fd
    /\ \A s, t \in Slaves : Busy(s) /\ Busy(t) /\ work[s].fd = work[t].fd => s = t
    /\ \A fd \in Fds : \A i, k \in Answers(fd) : i = k
    /\ \A fd \in Fds :
          Answers(fd) # {} =>
              /\ client[peer[fd]] = "asking"
              /\ \A i \in DOMAIN queue : queue[i].fd # fd
              /\ \A t \in Slaves : Busy(t) => work[t].fd # fd

\* A connection is ended beside no other job for it.
Alone == \A t \in Slaves : pc[t] \in Ends => \A s \in Slaves \ {t} : work[s].fd # work[t].fd

\* The table leads to the user's client, as long as it is there.
Table ==
    /\ \A u \in Users : curr_fd[u] \in Fds => peer[curr_fd[u]] \in {u, Gone}
    /\ \A t \in Slaves : pc[t] = "close" => \A u \in Users : curr_fd[u] # work[t].fd

\* ... and so does an entry of a vector that was filled and is not stale.
Leads(e) == e.for # Nobody /\ ~e.stale /\ e.fd \in Fds => peer[e.fd] \in {e.for, Gone}
Vectors == \A t \in Slaves : \A i \in DOMAIN vec[t] : Leads(vec[t][i])

Safe == /\ TypeOK /\ Stages /\ Queue /\ Clients /\ Requests /\ OneAtATime /\ Alone
        /\ Table /\ Vectors /\ OnlyStaleNumbersMislead

\* The client at the other end of fd was told to be connected, or is about to be.
Told(fd) ==
    \/ client[peer[fd]] \in {"idle", "history"}
    \/ \E i \in DOMAIN queue : queue[i].fd = fd /\ queue[i].op \notin {"CONNECT_OP", "DISCONNECT_OP"}
    \/ \E t \in Slaves :
          /\ pc[t] \in Early /\ work[t].fd = fd
          /\ work[t].op # "CONNECT_OP" \/ (pc[t] = "answer" /\ verdict[t] = "OP_OK")
    \/ \E i \in DOMAIN stream[fd] : stream[fd][i].kind = "OP_OK"

\* Whoever was told to be connected is, on its client's connection, while that is there.
Registered == \A fd \in Fds : peer[fd] \in Users /\ Told(fd) => curr_fd[peer[fd]] = fd

\* The members online are as many as were counted, but for those who came and went.
Counted ==
    \A t \in Slaves :
        pc[t] = "list" /\ work[t].to = Group =>
            /\ grew[t] \/ Cardinality(Online(Members)) <= size[t]
            /\ shrank[t] \/ Cardinality(Online(Members)) >= size[t]

IInv == Safe /\ Registered /\ Counted /\ GroupIsOfMembers

-----------------------------------------------------------------------------
(* Sequences, and the list of the users online.                            *)

LEMMA Appended ==
    ASSUME NEW S, NEW s \in Seq(S), NEW x \in S
    PROVE  /\ Append(s, x) \in Seq(S) /\ Len(s) \in Nat /\ Len(Append(s, x)) = Len(s) + 1
           /\ DOMAIN Append(s, x) = DOMAIN s \cup {Len(s) + 1} /\ Len(s) + 1 \notin DOMAIN s
           /\ \A i \in DOMAIN s : Append(s, x)[i] = s[i]
           /\ Append(s, x)[Len(s) + 1] = x
OBVIOUS

\* The rest of a sequence, and where it comes from.
LEMMA Tailed ==
    ASSUME NEW S, NEW s \in Seq(S), s # <<>>
    PROVE  /\ Tail(s) \in Seq(S) /\ Len(s) \in Nat /\ Len(Tail(s)) = Len(s) - 1
           /\ Head(s) \in S /\ Head(s) = s[1] /\ 1 \in DOMAIN s
           /\ \A i \in DOMAIN Tail(s) : i + 1 \in DOMAIN s /\ i + 1 # 1 /\ Tail(s)[i] = s[i + 1]
           /\ \A i, k \in DOMAIN Tail(s) : i + 1 = k + 1 => i = k
OBVIOUS

\* Each element of a concatenation is of one of its parts.
LEMMA Joined ==
    ASSUME NEW S, NEW s \in Seq(S), NEW r \in Seq(S)
    PROVE  /\ s \o r \in Seq(S)
           /\ \A i \in DOMAIN s : i \in DOMAIN (s \o r) /\ (s \o r)[i] = s[i]
           /\ \A i \in DOMAIN (s \o r) \ DOMAIN s :
                 (s \o r)[i] = r[i - Len(s)] /\ i - Len(s) \in DOMAIN r
<1>1. Len(s) \in Nat /\ Len(r) \in Nat /\ DOMAIN s = 1 .. Len(s) /\ DOMAIN r = 1 .. Len(r)
  OBVIOUS
<1>2. s \o r \in Seq(S) /\ DOMAIN (s \o r) = 1 .. Len(s) + Len(r)
  OBVIOUS
<1>3. \A i \in 1 .. Len(s) + Len(r) : (s \o r)[i] = IF i <= Len(s) THEN s[i] ELSE r[i - Len(s)]
  OBVIOUS
<1> QED BY <1>1, <1>2, <1>3

\* A finite set as a sequence has all its elements and no others.
LEMMA SetAsSequence ==
    ASSUME NEW S, IsFiniteSet(S)
    PROVE  /\ SetToSeq(S) \in Seq(S)
           /\ \A x \in S : \E i \in DOMAIN SetToSeq(S) : SetToSeq(S)[i] = x
<1> DEFINE n == Cardinality(S)
<1>1. n \in Nat /\ \E f : f \in Bijection(1 .. n, S)
  BY FS_CardinalityType, FS_CountingElements DEF ExistsBijection
<1>2. \E f \in [1 .. n -> S] : IsInjective(f)
  BY <1>1 DEF Bijection, Injection
<1>3. SetToSeq(S) \in [1 .. n -> S] /\ IsInjective(SetToSeq(S))
  BY <1>2 DEF SetToSeq
<1>4. SetToSeq(S) \in Injection(1 .. n, S)
  BY <1>3 DEF Injection
<1>5. IsFiniteSet(1 .. n) /\ Cardinality(1 .. n) = n
  BY <1>1, FS_Interval
<1>6. SetToSeq(S) \in Surjection(1 .. n, S)
  BY <1>4, <1>5, FS_Injection
<1> QED BY <1>1, <1>3, <1>6 DEF Surjection

\* There are finitely many users online.
LEMMA OnlineFinite ==
    ASSUME NEW us \in SUBSET Users
    PROVE  /\ IsFiniteSet(us) /\ Cardinality(us) \in Nat
           /\ IsFiniteSet(Online(us)) /\ Cardinality(Online(us)) \in Nat
<1>1. Online(us) \subseteq Users
  BY DEF Online
<1> QED BY <1>1, FS_Subset, FS_CardinalityType

\* What List puts together from the rows of us, for a vector of n entries.
TheList(n, us, junk) ==
    SetToSeq({Entry(curr_fd[u], u) : u \in us})
        \o [i \in 1 .. n - Cardinality(us) |-> Entry(junk, Nobody)]

\* What the vector holds: the rows of us, all of them, and what was never filled.
LEMMA Listing ==
    ASSUME curr_fd \in [Users -> Fds \cup {VOID_FD}], NEW us \in SUBSET Users,
           NEW junk \in Fds \cup {Nowhere}, NEW n \in Nat, Cardinality(us) <= n
    PROVE  LET list == TheList(n, us, junk)
           IN  /\ list \in Seq(Entries)
               /\ \A i \in DOMAIN list :
                     \/ \E u \in us : list[i] = Entry(curr_fd[u], u)
                     \/ Cardinality(us) < n /\ list[i] = Entry(junk, Nobody)
               /\ \A u \in us : \E i \in DOMAIN list : list[i] = Entry(curr_fd[u], u)
<1> DEFINE S == {Entry(curr_fd[u], u) : u \in us}
           rows == SetToSeq(S)
           k == n - Cardinality(us)
           rest == [i \in 1 .. k |-> Entry(junk, Nobody)]
<1>1. IsFiniteSet(S)
  <2> DEFINE f == [u \in us |-> Entry(curr_fd[u], u)]
  <2>1. f \in Surjection(us, S)
    BY DEF Surjection
  <2> QED BY <2>1, OnlineFinite, FS_Surjection
<1>2. S \subseteq Entries /\ Entry(junk, Nobody) \in Entries
  <2>1. \A n1 \in Fds \cup {VOID_FD, Nowhere}, v \in Users \cup {Nobody} : Entry(n1, v) \in Entries
    BY DEF Entry, Entries
  <2>2. \A u \in us : curr_fd[u] \in Fds \cup {VOID_FD, Nowhere} /\ u \in Users \cup {Nobody}
    OBVIOUS
  <2>3. \A x \in S : \E u \in us : x = Entry(curr_fd[u], u)
    OBVIOUS
  <2> HIDE DEF S
  <2> QED BY <2>1, <2>2, <2>3
<1>3. rows \in Seq(S) /\ \A x \in S : \E i \in DOMAIN rows : rows[i] = x
  BY <1>1, SetAsSequence
<1>4. k \in Nat /\ (k > 0 => Cardinality(us) < n)
  BY OnlineFinite
<1> HIDE DEF S, rows, k
<1>5. rest \in Seq(Entries) /\ Len(rest) = k /\ \A i \in DOMAIN rest : rest[i] = Entry(junk, Nobody) /\ k > 0
  BY <1>2, <1>4
<1> HIDE DEF rest
<1>6. /\ rows \o rest \in Seq(Entries)
      /\ \A i \in DOMAIN rows : i \in DOMAIN (rows \o rest) /\ (rows \o rest)[i] = rows[i] /\ rows[i] \in S
      /\ \A i \in DOMAIN (rows \o rest) \ DOMAIN rows :
            (rows \o rest)[i] = rest[i - Len(rows)] /\ i - Len(rows) \in DOMAIN rest
  <2>1. rows \in Seq(Entries)
    BY <1>2, <1>3
  <2>2. \A i \in DOMAIN rows : rows[i] \in S
    BY <1>3
  <2> QED BY <1>5, <2>1, <2>2, Joined
<1> DEFINE list == rows \o rest
<1>7. ASSUME NEW i \in DOMAIN list
      PROVE  \/ list[i] \in S
             \/ Cardinality(us) < n /\ list[i] = Entry(junk, Nobody)
  BY <1>4, <1>5, <1>6
<1>8. \A x \in S : \E i \in DOMAIN list : list[i] = x
  BY <1>3, <1>6
<1>9. \A x : x \in S <=> \E u \in us : x = Entry(curr_fd[u], u)
  BY DEF S
<1>10. /\ list \in Seq(Entries)
       /\ \A i \in DOMAIN list :
             \/ \E u \in us : list[i] = Entry(curr_fd[u], u)
             \/ Cardinality(us) < n /\ list[i] = Entry(junk, Nobody)
       /\ \A u \in us : \E i \in DOMAIN list : list[i] = Entry(curr_fd[u], u)
  BY <1>6, <1>7, <1>8, <1>9
<1> QED BY <1>10 DEF TheList, S, rows, rest, k

-----------------------------------------------------------------------------
(* Jobs and connections.                                                   *)

LEMMA WorkFields ==
    ASSUME TypeOK, Stages, NEW t \in Slaves
    PROVE  /\ pc[t] = "pop" => work[t] = NoJob /\ work[t].fd \notin Fds
           /\ pc[t] # "pop" =>
                 /\ work[t] \in Jobs /\ work[t].fd \in Fds /\ Proper(work[t])
                 /\ work[t].user \in Users \cup {Nobody} /\ work[t].to \in Users \cup {Group, Nobody}
           /\ pc[t] \in Early \cup Late => work[t].user \in Users /\ work[t].op # "DISCONNECT_OP"
           /\ pc[t] \in Ends => work[t].op = "DISCONNECT_OP"
<1>1. /\ work[t] \in Jobs \cup {NoJob} /\ work[t].op \in OpsAt(pc[t]) /\ pc[t] \in PCs
      /\ pc[t] # "pop" => Proper(work[t])
  BY DEF TypeOK, Stages, Stage
<1>2. NoJob.op = "none" /\ NoJob.fd = VOID_FD
  BY DEF NoJob
<1>3. /\ pc[t] = "pop" => work[t].op = "none"
      /\ pc[t] # "pop" => work[t].op # "none"
      /\ pc[t] \in Early \cup Late => work[t].op # "DISCONNECT_OP"
      /\ pc[t] \in Ends => work[t].op = "DISCONNECT_OP"
  BY <1>1 DEF OpsAt, PCs, Early, Late, Ends, Posts, Asked
<1>4. work[t] \in Jobs => /\ work[t].op # "none" /\ work[t].fd \in Fds
                          /\ work[t].user \in Users \cup {Nobody} /\ work[t].to \in Users \cup {Group, Nobody}
  BY DEF Jobs, Ops
<1>5. "pop" \notin Early \cup Late
  BY DEF Early, Late
<1> QED BY <1>1, <1>2, <1>3, <1>4, <1>5 DEF Proper

\* A queued job is of a connection, and has the fields its operation needs.
LEMMA JobFields ==
    ASSUME TypeOK, Queue, NEW i \in DOMAIN queue
    PROVE  /\ queue[i] \in Jobs /\ queue[i].fd \in Fds /\ Proper(queue[i])
           /\ queue[i].op # "DISCONNECT_OP" => queue[i].user \in Users
           /\ queue[i].op = "DISCONNECT_OP" => queue[i].user = Nobody
<1>1. queue[i] \in Jobs /\ Proper(queue[i])
  BY DEF TypeOK, Queue
<1> QED BY <1>1 DEF Jobs, Proper

\* FdOf is the one connection of the client.
LEMMA Connection ==
    ASSUME Clients, NEW u \in Users, Connected(u)
    PROVE  FdOf(u) \in Fds /\ peer[FdOf(u)] = u /\ \A fd \in Fds : peer[fd] = u => fd = FdOf(u)
<1>1. FdOf(u) \in Fds /\ peer[FdOf(u)] = u
  BY DEF Connected, FdOf
<1> QED BY <1>1 DEF Clients

\* No request of the connection is waiting, and no answer on its way.
Quiet(fd) ==
    /\ \A i \in DOMAIN queue : queue[i].fd # fd
    /\ \A t \in Slaves : Busy(t) => work[t].fd # fd
    /\ Answers(fd) = {}

\* Nothing is going on for a client that does not wait.
LEMMA QuietClient ==
    ASSUME Safe, NEW fd \in Fds, peer[fd] \in Users, client[peer[fd]] # "asking"
    PROVE  Quiet(fd)
<1>1. ASSUME NEW i \in DOMAIN queue PROVE queue[i].fd # fd
  BY JobFields DEF Safe, Requests, Waiting
<1>2. ASSUME NEW t \in Slaves, Busy(t) PROVE work[t].fd # fd
  <2>1. Waiting(work[t]) /\ pc[t] \in Early \cup Ends
    BY <1>2 DEF Safe, Requests, Busy
  <2> QED BY <2>1, WorkFields DEF Safe, Waiting
<1>3. Answers(fd) = {}
  BY DEF Safe, OneAtATime
<1> QED BY <1>1, <1>2, <1>3 DEF Quiet

\* No job, row or current entry has the number of a connection that is not there.
LEMMA QuietFree ==
    ASSUME Safe, NEW fd \in Fds, peer[fd] = Free
    PROVE  /\ Quiet(fd) /\ stream[fd] = <<>>
           /\ \A t \in Slaves : work[t].fd # fd
           /\ \A u \in Users : curr_fd[u] # fd
           /\ \A t \in Slaves : \A i \in DOMAIN vec[t] :
                 vec[t][i].fd = fd => vec[t][i].for = Nobody \/ vec[t][i].stale
<1>1. Free # Gone /\ Free \notin Users
  BY DEF Free, Gone
<1>2. \A i \in DOMAIN queue : queue[i].fd # fd
  BY <1>1, JobFields DEF Safe, Requests, Waiting
<1>3. ASSUME NEW t \in Slaves PROVE work[t].fd # fd
  <2>1. CASE pc[t] = "pop"
    BY <2>1, WorkFields DEF Safe
  <2>2. CASE pc[t] # "pop"
    <3>1. pc[t] \in Early \cup Late \cup Ends
      BY <2>2 DEF Safe, TypeOK, PCs, Early, Late, Ends
    <3>2. peer[work[t].fd] \in Users \cup {Gone}
      BY <2>2, <3>1, WorkFields DEF Safe, Requests, Waiting, Busy
    <3> QED BY <1>1, <3>2
  <2> QED BY <2>1, <2>2
<1>4. stream[fd] = <<>> /\ Answers(fd) = {}
  BY <1>1 DEF Safe, Clients, Answers
<1>5. \A u \in Users : curr_fd[u] # fd
  BY <1>1 DEF Safe, Table
<1>6. ASSUME NEW t \in Slaves, NEW i \in DOMAIN vec[t], vec[t][i].fd = fd
      PROVE  vec[t][i].for = Nobody \/ vec[t][i].stale
  <2>1. Leads(vec[t][i]) /\ vec[t][i] \in Entries
    BY DEF Safe, Vectors, TypeOK
  <2>2. vec[t][i].for \in Users \cup {Nobody}
    BY <2>1 DEF Entries
  <2> QED BY <1>1, <1>6, <2>1, <2>2 DEF Leads
<1> QED BY <1>2, <1>3, <1>4, <1>5, <1>6 DEF Quiet

-----------------------------------------------------------------------------
(* The steps of a handler.                                                 *)

LEMMA Going ==
    ASSUME TypeOK, NEW t \in Slaves, NEW l \in PCs, Go(t, l)
    PROVE  /\ pc' \in [Slaves -> PCs] /\ pc'[t] = l
           /\ \A s \in Slaves \ {t} : pc'[s] = pc[s]
BY DEF TypeOK, Go

\* The verdict of one slave.
LEMMA Deciding ==
    ASSUME TypeOK, NEW t \in Slaves, NEW r \in AnswerKinds \cup {"none"}, Decide(t, r)
    PROVE  /\ verdict' \in [Slaves -> AnswerKinds \cup {"none"}] /\ verdict'[t] = r
           /\ \A s \in Slaves \ {t} : verdict'[s] = verdict[s]
BY DEF TypeOK, Decide

\* The stages of the others.
LEMMA OtherStages ==
    ASSUME Stages, NEW t \in Slaves, Stage(t)',
           \A s \in Slaves \ {t} : /\ pc'[s] = pc[s] /\ work'[s] = work[s]
                                   /\ verdict'[s] = verdict[s] /\ size'[s] = size[s]
    PROVE  Stages'
BY DEF Stages, Stage

\* A step between two queries that is not an answer changes no connection, request or frame.
LEMMA HandlerFrame ==
    ASSUME Safe, NEW t \in Slaves, pc[t] \in Early, NEW l \in Early, Go(t, l),
           UNCHANGED <<client, left, peer, stream, queue, work, events>>
    PROVE  /\ Queue' /\ Clients' /\ Requests' /\ OneAtATime' /\ Alone' /\ OnlyStaleNumbersMislead'
           /\ pc' \in [Slaves -> PCs] /\ pc'[t] = l
           /\ \A s \in Slaves \ {t} : pc'[s] = pc[s]
<1> USE DEF Safe
<1>1. pc' \in [Slaves -> PCs] /\ pc'[t] = l /\ \A s \in Slaves \ {t} : pc'[s] = pc[s]
  <2>1. l \in PCs
    BY DEF Early, PCs
  <2> QED BY <2>1, Going
<1>2. \A s \in Slaves : /\ (Busy(s)' <=> Busy(s)) /\ (pc'[s] \in Late <=> pc[s] \in Late)
                        /\ (pc'[s] \in Ends <=> pc[s] \in Ends)
  BY <1>1 DEF Busy, Early, Late, Ends
<1>3. Queue' /\ Clients'
  BY DEF Queue, Clients, Connected
<1>4. Requests'
  BY <1>2 DEF Requests, Waiting
<1>5. OneAtATime'
  BY <1>2 DEF OneAtATime, Answers
<1>6. Alone' /\ OnlyStaleNumbersMislead'
  BY <1>2 DEF Alone, OnlyStaleNumbersMislead
<1> QED BY <1>1, <1>3, <1>4, <1>5, <1>6

\* manage_connectuser (queries.c:456-533): the row of its own user only.
LEMMA ConnectStep == ASSUME Safe, NEW t \in Slaves, Connect(t) PROVE Safe'
<1> USE DEF Safe
<1> DEFINE u == work[t].user
<1>1. /\ pc[t] = "connect" /\ Go(t, "answer")
      /\ UNCHANGED <<client, left, peer, stream, queue, work, vec, size, shrank, events>>
  BY DEF Connect, clientVars
<1>2. pc[t] \in Early /\ "answer" \in Early
  BY <1>1 DEF Early
<1>3. /\ Queue' /\ Clients' /\ Requests' /\ OneAtATime' /\ Alone' /\ OnlyStaleNumbersMislead'
      /\ pc' \in [Slaves -> PCs] /\ pc'[t] = "answer" /\ \A s \in Slaves \ {t} : pc'[s] = pc[s]
  BY <1>1, <1>2, HandlerFrame
<1>4. u \in Users /\ work[t].fd \in Fds /\ work[t].op = "CONNECT_OP" /\ Waiting(work[t])
  <2>1. work[t].op = "CONNECT_OP"
    BY <1>1 DEF Stages, Stage, OpsAt, Ends, Posts, Asked
  <2> QED BY <1>1, <1>2, <2>1, WorkFields DEF Requests, Busy, Early
<1>5. /\ \/ curr_fd' = [curr_fd EXCEPT ![u] = work[t].fd]
         \/ curr_fd' = curr_fd
      /\ \/ verdict' = verdict
         \/ Decide(t, "OP_FAIL")
      /\ grew' \in [Slaves -> BOOLEAN]
  BY DEF Connect, Noted, TypeOK
<1>6. /\ verdict' \in [Slaves -> AnswerKinds \cup {"none"}] /\ verdict'[t] \in AnswerKinds
      /\ \A s \in Slaves \ {t} : verdict'[s] = verdict[s]
  <2>1. verdict[t] \in AnswerKinds /\ "OP_FAIL" \in AnswerKinds
    BY <1>2 DEF Stages, Stage, AnswerKinds
  <2> QED BY <1>5, <2>1, Deciding DEF TypeOK
<1>7. /\ curr_fd' \in [Users -> Fds \cup {VOID_FD}]
      /\ \A v \in Users : curr_fd'[v] = curr_fd[v] \/ (v = u /\ curr_fd'[v] = work[t].fd)
  BY <1>4, <1>5 DEF TypeOK
<1>8. TypeOK'
  BY <1>1, <1>3, <1>5, <1>6, <1>7 DEF TypeOK
<1>9. Stages'
  <2>1. work[t].op \in OpsAt("answer") /\ "answer" \notin {"pop", "list"}
    BY <1>4 DEF OpsAt, Asked, Ends, Posts
  <2>2. Stage(t)'
    BY <1>1, <1>2, <1>3, <1>6, <2>1 DEF Stages, Stage
  <2> QED BY <1>1, <1>3, <1>6, <2>2, OtherStages
<1>10. Table'
  <2>1. peer[work[t].fd] = u
    BY <1>4 DEF Waiting
  <2>2. ASSUME NEW v \in Users, curr_fd'[v] \in Fds PROVE peer'[curr_fd'[v]] \in {v, Gone}
    BY <1>1, <1>7, <2>1, <2>2 DEF Table
  <2>3. ASSUME NEW s \in Slaves, pc'[s] = "close", NEW v \in Users PROVE curr_fd'[v] # work'[s].fd
    <3>1. pc[s] = "close" /\ s # t /\ pc[s] \in Ends
      BY <1>3, <2>3 DEF Ends
    <3>2. work[s].fd # work[t].fd /\ curr_fd[v] # work[s].fd
      BY <3>1 DEF Alone, Table
    <3> QED BY <1>1, <1>7, <3>2
  <2> QED BY <2>2, <2>3 DEF Table
<1>11. Vectors'
  BY <1>1 DEF Vectors, Leads
<1> QED BY <1>3, <1>8, <1>9, <1>10, <1>11

\* A query that leaves the table alone.
LEMMA HandlerStep ==
    ASSUME Safe, NEW t \in Slaves, pc[t] \in Early, NEW l \in Early, Go(t, l), l # "pop",
           UNCHANGED <<client, left, peer, stream, curr_fd, queue, work, events, grew, shrank>>,
           vec' \in [Slaves -> Seq(Entries)], size' \in [Slaves -> Nat],
           verdict' \in [Slaves -> AnswerKinds \cup {"none"}],
           \A s \in Slaves \ {t} : verdict'[s] = verdict[s] /\ size'[s] = size[s] /\ vec'[s] = vec[s],
           Stage(t)', \A i \in DOMAIN vec'[t] : Leads(vec'[t][i])
    PROVE  Safe'
<1> USE DEF Safe
<1>1. /\ Queue' /\ Clients' /\ Requests' /\ OneAtATime' /\ Alone' /\ OnlyStaleNumbersMislead'
      /\ pc' \in [Slaves -> PCs] /\ pc'[t] = l /\ \A s \in Slaves \ {t} : pc'[s] = pc[s]
  BY HandlerFrame
<1>2. TypeOK' /\ Stages'
  BY <1>1, OtherStages DEF TypeOK
<1>3. Table'
  BY <1>1 DEF Table, Early
<1>4. Vectors'
  BY DEF Vectors, Leads
<1> QED BY <1>1, <1>2, <1>3, <1>4

\* What a row of the table says of a user is where its client is, or was.
LEMMA RowLeads ==
    ASSUME TypeOK, Table, NEW u \in Users
    PROVE  Entry(curr_fd[u], u) \in Entries /\ Leads(Entry(curr_fd[u], u))
<1>1. curr_fd[u] \in Fds \cup {VOID_FD}
  BY DEF TypeOK
<1>2. Entry(curr_fd[u], u) \in Entries
  BY <1>1 DEF Entry, Entries
<1>3. Leads(Entry(curr_fd[u], u))
  BY <1>1 DEF Leads, Table, Entry
<1> QED BY <1>2, <1>3

\* exec_getuserfd: the entry is a row of the table as it is now.
LEMMA GetUserFdStep == ASSUME Safe, NEW t \in Slaves, GetUserFd(t) PROVE Safe'
<1> DEFINE e == Entry(curr_fd[work[t].to], work[t].to)
<1>1. /\ pc[t] = "getuserfd" /\ Go(t, "send") /\ vec' = [vec EXCEPT ![t] = <<e>>]
      /\ UNCHANGED <<client, left, peer, stream, curr_fd, queue, work, size, verdict, events, grew, shrank>>
  BY DEF GetUserFd, clientVars
<1>2. pc[t] \in Early /\ "send" \in Early /\ "send" # "pop"
  BY <1>1 DEF Early
<1>3. e \in Entries /\ Leads(e)
  <2>1. work[t].to \in Users
    BY <1>1 DEF Safe, Stages, Stage
  <2> QED BY <2>1, RowLeads DEF Safe
<1> HIDE DEF e
<1>4. /\ vec' \in [Slaves -> Seq(Entries)] /\ vec'[t] = <<e>>
      /\ \A s \in Slaves \ {t} : vec'[s] = vec[s]
  BY <1>1, <1>3 DEF Safe, TypeOK
<1>5. Stage(t)'
  <2>1. work[t].op \in OpsAt("send") /\ verdict[t] \in AnswerKinds /\ size[t] = 0 /\ Proper(work[t])
    BY <1>1, <1>2 DEF Safe, Stages, Stage, OpsAt, Ends, Posts, Asked
  <2>2. pc'[t] = "send"
    BY <1>1 DEF Go, Safe, TypeOK
  <2> QED BY <1>1, <2>1, <2>2 DEF Stage
<1>6. \A i \in DOMAIN vec'[t] : Leads(vec'[t][i])
  <2>1. \A i \in DOMAIN vec'[t] : vec'[t][i] = e
    BY <1>4
  <2> QED BY <1>3, <2>1
<1> QED BY <1>1, <1>2, <1>4, <1>5, <1>6, HandlerStep DEF Safe, TypeOK

\* The count only decides where the handler goes on.
LEMMA CountStep == ASSUME Safe, NEW t \in Slaves, Count(t) PROVE Safe'
<1> DEFINE n == Cardinality(Online(Scope(t)))
<1>1. /\ pc[t] = "count" /\ size' = [size EXCEPT ![t] = n]
      /\ UNCHANGED <<client, left, peer, stream, curr_fd, queue, work, vec, events, grew, shrank>>
  BY DEF Count, clientVars
<1>2. pc[t] \in Early
  BY <1>1 DEF Early
<1>3. n \in Nat
  BY OnlineFinite DEF Scope
<1>4. PICK l \in {"list", "answer"}, r \in AnswerKinds :
         /\ Go(t, l) /\ verdict' = [verdict EXCEPT ![t] = r]
         /\ l = "list" => r = "OP_OK"
         /\ l = "answer" => n = 0
  <2>1. verdict[t] = "OP_OK" /\ verdict \in [Slaves -> AnswerKinds \cup {"none"}]
    BY <1>1 DEF Safe, Stages, Stage, TypeOK
  <2>2. CASE n > 0
    <3>1. Go(t, "list") /\ verdict' = verdict
      BY <2>2 DEF Count
    <3>2. verdict' = [verdict EXCEPT ![t] = "OP_OK"]
      BY <2>1, <3>1
    <3> QED BY <3>1, <3>2 DEF AnswerKinds
  <2>3. CASE ~(n > 0)
    <3>1. Go(t, "answer") /\ Decide(t, IF work[t].to = Group THEN "OP_NICK_UNKNOWN" ELSE "OP_OK")
      BY <2>3 DEF Count
    <3>2. n = 0
      BY <1>3, <2>3
    <3>3. ASSUME NEW r \in {"OP_NICK_UNKNOWN", "OP_OK"}, Decide(t, r)
          PROVE  r \in AnswerKinds /\ verdict' = [verdict EXCEPT ![t] = r]
      BY <3>3 DEF AnswerKinds, Decide
    <3> HIDE DEF n
    <3> QED BY <3>1, <3>2, <3>3
  <2> QED BY <2>2, <2>3
<1> HIDE DEF n
<1>5. l \in Early /\ l # "pop"
  BY DEF Early
<1>6. /\ size' \in [Slaves -> Nat] /\ size'[t] = n /\ verdict' \in [Slaves -> AnswerKinds \cup {"none"}]
      /\ verdict'[t] = r
      /\ \A s \in Slaves \ {t} : verdict'[s] = verdict[s] /\ size'[s] = size[s]
  BY <1>1, <1>3, <1>4 DEF Safe, TypeOK
<1>7. Stage(t)'
  <2>1. work[t].op \in OpsAt(l) /\ Proper(work[t])
    BY <1>1, <1>2 DEF Safe, Stages, Stage, OpsAt, Ends, Posts, Asked
  <2>2. pc'[t] = l
    BY <1>4 DEF Go, Safe, TypeOK
  <2> QED BY <1>1, <1>4, <1>6, <2>1, <2>2 DEF Stage
<1> QED BY <1>1, <1>2, <1>4, <1>5, <1>6, <1>7, HandlerStep DEF Safe, TypeOK, Vectors

\* manage_getprevmsgs: the number of messages.
LEMMA GetPrevMsgsStep == ASSUME Safe, NEW t \in Slaves, GetPrevMsgs(t) PROVE Safe'
<1>1. /\ pc[t] = "getprevmsgs" /\ Go(t, "answer")
      /\ UNCHANGED <<client, left, peer, stream, curr_fd, queue, work, vec, verdict, events, grew, shrank>>
  BY DEF GetPrevMsgs, clientVars
<1>2. PICK n \in 0 .. MaxHistory : size' = [size EXCEPT ![t] = n]
  BY DEF GetPrevMsgs
<1>3. pc[t] \in Early /\ "answer" \in Early /\ "answer" # "pop"
  BY <1>1 DEF Early
<1>4. n \in Nat /\ n <= MaxHistory
  OBVIOUS
<1>5. /\ size' \in [Slaves -> Nat] /\ size'[t] = n
      /\ \A s \in Slaves \ {t} : size'[s] = size[s]
  BY <1>2, <1>4 DEF Safe, TypeOK
<1>6. Stage(t)'
  <2>1. /\ work[t].op \in OpsAt("answer") /\ Proper(work[t]) /\ work[t].op = "GETPREVMSGS_OP"
        /\ verdict[t] \in AnswerKinds
    BY <1>1, <1>3 DEF Safe, Stages, Stage, OpsAt, Ends, Posts, Asked
  <2>2. pc'[t] = "answer"
    BY <1>1 DEF Go, Safe, TypeOK
  <2> QED BY <1>1, <1>4, <1>5, <2>1, <2>2 DEF Stage
<1> QED BY <1>1, <1>3, <1>5, <1>6, HandlerStep DEF Safe, TypeOK, Vectors

Refused(t, list) == work[t].to = Group /\ \A i \in DOMAIN list : list[i].fd # work[t].fd

\* What List chooses, without the way it puts the vector together.
LEMMA ListChoice ==
    ASSUME TypeOK, NEW t \in Slaves, List(t)
    PROVE  \E us \in SUBSET Users, list \in Seq(Entries) :
              /\ Filled(t, us)
              /\ \A i \in DOMAIN list :
                    \/ \E u \in us : list[i] = Entry(curr_fd[u], u)
                    \/ Cardinality(us) < size[t] /\ list[i].for = Nobody
              /\ \A u \in us : \E i \in DOMAIN list : list[i] = Entry(curr_fd[u], u)
              /\ vec' = [vec EXCEPT ![t] = IF Refused(t, list) THEN <<>> ELSE list]
              /\ IF Refused(t, list) THEN Decide(t, "OP_NICK_UNKNOWN") ELSE UNCHANGED verdict
<1>1. PICK us \in SUBSET Users, junk \in Unfilled(t) :
         /\ Filled(t, us)
         /\ vec' = [vec EXCEPT ![t] = IF Refused(t, TheList(size[t], us, junk)) THEN <<>> ELSE TheList(size[t], us, junk)]
         /\ IF Refused(t, TheList(size[t], us, junk)) THEN Decide(t, "OP_NICK_UNKNOWN") ELSE UNCHANGED verdict
  BY DEF List, TheList, Refused
<1>2. /\ curr_fd \in [Users -> Fds \cup {VOID_FD}] /\ junk \in Fds \cup {Nowhere} /\ size[t] \in Nat
  BY DEF TypeOK, Unfilled
<1>3. Cardinality(us) <= size[t]
  <2>1. Cardinality(Online(Scope(t))) \in Nat
    BY OnlineFinite DEF Scope
  <2> QED BY <1>1, <1>2, <2>1 DEF Filled
<1> DEFINE list == TheList(size[t], us, junk)
<1>4. /\ list \in Seq(Entries)
      /\ \A i \in DOMAIN list :
            \/ \E u \in us : list[i] = Entry(curr_fd[u], u)
            \/ Cardinality(us) < size[t] /\ list[i] = Entry(junk, Nobody)
      /\ \A u \in us : \E i \in DOMAIN list : list[i] = Entry(curr_fd[u], u)
  BY <1>2, <1>3, Listing
<1> HIDE DEF list
<1>5. \A i \in DOMAIN list :
         \/ \E u \in us : list[i] = Entry(curr_fd[u], u)
         \/ Cardinality(us) < size[t] /\ list[i].for = Nobody
  <2>1. Entry(junk, Nobody).for = Nobody
    BY DEF Entry
  <2> QED BY <1>4, <2>1
<1>6. /\ vec' = [vec EXCEPT ![t] = IF Refused(t, list) THEN <<>> ELSE list]
      /\ IF Refused(t, list) THEN Decide(t, "OP_NICK_UNKNOWN") ELSE UNCHANGED verdict
  BY <1>1 DEF list
<1>7. list \in Seq(Entries) /\ \A u \in us : \E i \in DOMAIN list : list[i] = Entry(curr_fd[u], u)
  BY <1>4
<1> QED BY <1>1, <1>5, <1>6, <1>7

\* exec_getonlineuserfd and exec_getonlineuser_in_group: rows as they are now, or nobody's.
LEMMA ListStep == ASSUME Safe, NEW t \in Slaves, List(t) PROVE Safe'
<1>1. /\ pc[t] = "list" /\ Go(t, "send") /\ size' = [size EXCEPT ![t] = 0]
      /\ UNCHANGED <<client, left, peer, stream, curr_fd, queue, work, events, grew, shrank>>
  BY DEF List, clientVars
<1>2. pc[t] \in Early /\ "send" \in Early /\ "send" # "pop"
  BY <1>1 DEF Early
<1>3. PICK us \in SUBSET Users, list \in Seq(Entries) :
         /\ \A i \in DOMAIN list : \/ \E u \in us : list[i] = Entry(curr_fd[u], u)
                                   \/ list[i].for = Nobody
         /\ vec' = [vec EXCEPT ![t] = IF Refused(t, list) THEN <<>> ELSE list]
         /\ IF Refused(t, list) THEN Decide(t, "OP_NICK_UNKNOWN") ELSE UNCHANGED verdict
  BY ListChoice DEF Safe
<1>4. \A i \in DOMAIN list : Leads(list[i])
  <2>1. \A u \in Users : Leads(Entry(curr_fd[u], u))
    BY RowLeads DEF Safe
  <2>2. \A e : e.for = Nobody => Leads(e)
    BY DEF Leads
  <2> QED BY <1>3, <2>1, <2>2
<1>5. PICK v \in Seq(Entries) : vec' = [vec EXCEPT ![t] = v] /\ \A i \in DOMAIN v : Leads(v[i])
  <2>1. <<>> \in Seq(Entries) /\ \A i \in DOMAIN <<>> : Leads(<<>>[i])
    OBVIOUS
  <2> QED BY <1>3, <1>4, <2>1
<1>6. /\ vec' \in [Slaves -> Seq(Entries)] /\ vec'[t] = v /\ size' \in [Slaves -> Nat] /\ size'[t] = 0
      /\ \A s \in Slaves \ {t} : vec'[s] = vec[s] /\ size'[s] = size[s]
  BY <1>1, <1>5 DEF Safe, TypeOK
<1>7. /\ verdict' \in [Slaves -> AnswerKinds \cup {"none"}] /\ verdict'[t] \in AnswerKinds
      /\ \A s \in Slaves \ {t} : verdict'[s] = verdict[s]
  <2>1. verdict[t] \in AnswerKinds /\ "OP_NICK_UNKNOWN" \in AnswerKinds
    BY <1>2 DEF Safe, Stages, Stage, AnswerKinds
  <2> QED BY <1>3, <2>1, Deciding DEF Safe, TypeOK
<1>8. Stage(t)'
  <2>1. work[t].op \in OpsAt("send") /\ Proper(work[t])
    BY <1>1, <1>2 DEF Safe, Stages, Stage, OpsAt, Ends, Posts, Asked
  <2>2. pc'[t] = "send"
    BY <1>1 DEF Go, Safe, TypeOK
  <2> QED BY <1>1, <1>6, <1>7, <2>1, <2>2 DEF Stage
<1> QED BY <1>1, <1>2, <1>5, <1>6, <1>7, <1>8, HandlerStep

-----------------------------------------------------------------------------
(* The frames.                                                             *)

LEMMA FrameFields ==
    ASSUME NEW k \in AnswerKinds \cup {"TXT_MESSAGE"}, NEW n \in 0 .. MaxHistory,
           NEW u \in Users \cup {Nobody}, NEW b \in BOOLEAN
    PROVE  /\ Frame(k, n, u, b) \in Frames /\ Frame(k, n, u, b).kind = k
           /\ Frame(k, n, u, b).for = u /\ Frame(k, n, u, b).stale = b
BY DEF Frame, Frames

\* The frames on their way after one was written, or not, on descriptor n.
LEMMA Written ==
    ASSUME TypeOK, NEW n, NEW f \in Frames, Write(n, f) \/ UNCHANGED stream
    PROVE  /\ stream' \in [Fds -> Seq(Frames)] /\ \A g \in Fds : Len(stream'[g]) <= Capacity
           /\ \A g \in Fds : \/ stream'[g] = stream[g]
                             \/ g = n /\ peer[g] \in Users /\ stream'[g] = Append(stream[g], f)
           /\ n \in Fds /\ peer[n] \in Users /\ Write(n, f) => stream'[n] = Append(stream[n], f)
           /\ \A g \in Fds : \A i \in DOMAIN stream'[g] :
                 \/ i \in DOMAIN stream[g] /\ stream'[g][i] = stream[g][i]
                 \/ g = n /\ peer[g] \in Users /\ stream'[g][i] = f /\ i = Len(stream[g]) + 1
<1>1. stream \in [Fds -> Seq(Frames)] /\ \A g \in Fds : Len(stream[g]) <= Capacity
  BY DEF TypeOK
<1>2. CASE UNCHANGED stream /\ ~(n \in Fds /\ peer[n] \in Users /\ Write(n, f))
  BY <1>1, <1>2
<1>3. CASE n \in Fds /\ peer[n] \in Users /\ Write(n, f)
  <2>1. Len(stream[n]) < Capacity /\ stream' = [stream EXCEPT ![n] = Append(stream[n], f)]
    BY <1>3 DEF Write
  <2>2. /\ Append(stream[n], f) \in Seq(Frames) /\ Len(stream[n]) \in Nat
        /\ Len(Append(stream[n], f)) = Len(stream[n]) + 1
        /\ DOMAIN Append(stream[n], f) = DOMAIN stream[n] \cup {Len(stream[n]) + 1}
        /\ \A i \in DOMAIN stream[n] : Append(stream[n], f)[i] = stream[n][i]
        /\ Append(stream[n], f)[Len(stream[n]) + 1] = f
    BY <1>1, <1>3, Appended
  <2>3. /\ stream' \in [Fds -> Seq(Frames)] /\ stream'[n] = Append(stream[n], f)
        /\ \A g \in Fds \ {n} : stream'[g] = stream[g]
    BY <1>1, <1>3, <2>1, <2>2
  <2>4. \A g \in Fds : Len(stream'[g]) <= Capacity
    BY <1>1, <2>1, <2>2, <2>3
  <2> QED BY <1>3, <2>2, <2>3, <2>4
<1>4. ~(n \in Fds /\ peer[n] \in Users) /\ Write(n, f) => UNCHANGED stream
  BY DEF Write
<1> QED BY <1>2, <1>3, <1>4

\* A message changes no dialogue.
LEMMA MessageWritten ==
    ASSUME Safe, NEW n, NEW f \in Frames, Write(n, f) \/ UNCHANGED stream, f.kind = "TXT_MESSAGE",
           n \in Fds /\ peer[n] \in Users => f.for = peer[n] \/ f.stale \/ f.for = Nobody,
           UNCHANGED <<client, left, peer, curr_fd, queue, work>>,
           \A s \in Slaves : (Busy(s)' <=> Busy(s)) /\ (pc'[s] \in Late => pc[s] \in Late)
    PROVE  Queue' /\ Clients' /\ Requests' /\ OneAtATime' /\ OnlyStaleNumbersMislead'
<1> USE DEF Safe
<1>1. /\ \A g \in Fds : \/ stream'[g] = stream[g]
                        \/ g = n /\ peer[g] \in Users /\ stream'[g] = Append(stream[g], f)
      /\ \A g \in Fds : \A i \in DOMAIN stream'[g] :
            \/ i \in DOMAIN stream[g] /\ stream'[g][i] = stream[g][i]
            \/ g = n /\ peer[g] \in Users /\ stream'[g][i] = f /\ i = Len(stream[g]) + 1
  BY Written
<1>2. Queue' /\ Requests'
  BY DEF Queue, Requests, Waiting
<1>3. Clients'
  BY <1>1 DEF Clients, Connected
<1>4. "TXT_MESSAGE" \notin AnswerKinds
  BY DEF AnswerKinds
<1>5. ASSUME NEW g \in Fds PROVE \A i \in DOMAIN stream'[g] :
         stream'[g][i].kind \in AnswerKinds => i \in Answers(g)
  BY <1>1, <1>4 DEF Answers
<1>6. OneAtATime'
  <2>1. \A g \in Fds : {i \in DOMAIN stream'[g] : stream'[g][i].kind \in AnswerKinds} \subseteq Answers(g)
    BY <1>5
  <2> QED BY <2>1 DEF OneAtATime, Answers
<1>7. OnlyStaleNumbersMislead'
  BY <1>1 DEF OnlyStaleNumbersMislead
<1> QED BY <1>2, <1>3, <1>6, <1>7

\* A message to the next entry of the vector (slaves.c:394-421).
LEMMA SendStep == ASSUME Safe, NEW t \in Slaves, Send(t) PROVE Safe'
<1> DEFINE e == Head(vec[t])
           f == Frame("TXT_MESSAGE", 0, e.for, e.stale)
<1>1. /\ pc[t] = "send" /\ vec[t] # <<>> /\ vec' = [vec EXCEPT ![t] = Tail(vec[t])]
      /\ Write(e.fd, f) \/ UNCHANGED stream
      /\ UNCHANGED <<client, left, peer, curr_fd, queue, pc, work, size, verdict, grew, shrank, events>>
  BY DEF Send, clientVars
<1>2. /\ vec[t] \in Seq(Entries) /\ e \in Entries /\ e = vec[t][1] /\ 1 \in DOMAIN vec[t]
      /\ Tail(vec[t]) \in Seq(Entries)
      /\ \A i \in DOMAIN Tail(vec[t]) : i + 1 \in DOMAIN vec[t] /\ Tail(vec[t])[i] = vec[t][i + 1]
  <2>1. vec[t] \in Seq(Entries)
    BY DEF Safe, TypeOK
  <2> QED BY <1>1, <2>1, Tailed
<1> HIDE DEF e
<1>3. f \in Frames /\ f.kind = "TXT_MESSAGE" /\ f.for = e.for /\ f.stale = e.stale
  <2>1. e.for \in Users \cup {Nobody} /\ e.stale \in BOOLEAN /\ 0 \in 0 .. MaxHistory
    BY <1>2 DEF Entries
  <2> QED BY <2>1, FrameFields
<1>4. e.fd \in Fds /\ peer[e.fd] \in Users => f.for = peer[e.fd] \/ f.stale \/ f.for = Nobody
  <2>1. Leads(e)
    BY <1>2 DEF Safe, Vectors
  <2> QED BY <1>3, <2>1 DEF Leads
<1> HIDE DEF f
<1>5. stream' \in [Fds -> Seq(Frames)] /\ \A g \in Fds : Len(stream'[g]) <= Capacity
  BY <1>1, <1>3, Written DEF Safe
<1>6. vec' \in [Slaves -> Seq(Entries)] /\ vec'[t] = Tail(vec[t]) /\ \A s \in Slaves \ {t} : vec'[s] = vec[s]
  BY <1>1, <1>2 DEF Safe, TypeOK
<1>7. TypeOK'
  BY <1>1, <1>5, <1>6 DEF Safe, TypeOK
<1>8. Queue' /\ Clients' /\ Requests' /\ OneAtATime' /\ OnlyStaleNumbersMislead'
  <2>1. \A s \in Slaves : (Busy(s)' <=> Busy(s)) /\ (pc'[s] \in Late => pc[s] \in Late)
    BY <1>1 DEF Busy
  <2> QED BY <1>1, <1>3, <1>4, <2>1, MessageWritten
<1>9. Stages' /\ Alone' /\ Table'
  BY <1>1 DEF Safe, Stages, Stage, Alone, Table
<1>10. Vectors'
  BY <1>1, <1>2, <1>6 DEF Safe, Vectors, Leads
<1> QED BY <1>7, <1>8, <1>9, <1>10 DEF Safe

\* A message of the history.
LEMMA SendHistoryStep == ASSUME Safe, NEW t \in Slaves, SendHistory(t) PROVE Safe'
<1> DEFINE f == Frame("TXT_MESSAGE", 0, work[t].user, FALSE)
           l == IF size[t] = 1 THEN "clean" ELSE "history"
<1>1. /\ pc[t] = "history" /\ Write(work[t].fd, f) /\ size' = [size EXCEPT ![t] = size[t] - 1]
      /\ IF size[t] = 1 THEN Go(t, "clean") ELSE UNCHANGED pc
      /\ UNCHANGED <<client, left, peer, curr_fd, queue, work, vec, verdict, grew, shrank, events>>
  BY DEF SendHistory, clientVars
<1>2. /\ work[t].user \in Users /\ work[t].fd \in Fds /\ size[t] \in Nat /\ size[t] # 0
      /\ work[t].op = "GETPREVMSGS_OP" /\ Proper(work[t]) /\ size[t] <= MaxHistory
      /\ peer[work[t].fd] \in {work[t].user, Gone}
  <2>1. pc[t] \in Late /\ pc[t] # "pop"
    BY <1>1 DEF Late
  <2> QED BY <1>1, <2>1, WorkFields DEF Safe, TypeOK, Stages, Stage, Requests
<1>3. f \in Frames /\ f.kind = "TXT_MESSAGE" /\ f.for = work[t].user
  <2>1. 0 \in 0 .. MaxHistory
    OBVIOUS
  <2> QED BY <1>2, <2>1 DEF Frame, Frames
<1>4. Gone \notin Users
  OBVIOUS
<1> HIDE DEF f
<1>5. stream' \in [Fds -> Seq(Frames)] /\ \A g \in Fds : Len(stream'[g]) <= Capacity
  BY <1>1, <1>3, Written DEF Safe
<1>6. /\ pc' \in [Slaves -> PCs] /\ pc'[t] = l /\ \A s \in Slaves \ {t} : pc'[s] = pc[s]
  <2>1. pc \in [Slaves -> PCs] /\ "clean" \in PCs
    BY DEF Safe, TypeOK, PCs
  <2>2. pc' = [pc EXCEPT ![t] = l]
    BY <1>1, <2>1 DEF Go
  <2> HIDE DEF l
  <2>3. l \in PCs
    BY <1>1, <2>1 DEF l
  <2> QED BY <2>1, <2>2, <2>3
<1>7. size' \in [Slaves -> Nat] /\ size'[t] = size[t] - 1 /\ \A s \in Slaves \ {t} : size'[s] = size[s]
  BY <1>1, <1>2 DEF Safe, TypeOK
<1>8. TypeOK'
  BY <1>1, <1>5, <1>6, <1>7 DEF Safe, TypeOK
<1>9. Queue' /\ Clients' /\ Requests' /\ OneAtATime' /\ OnlyStaleNumbersMislead'
  <2>1. \A s \in Slaves : (Busy(s)' <=> Busy(s)) /\ (pc'[s] \in Late => pc[s] \in Late)
    BY <1>1, <1>6 DEF Busy, Early, Late, Ends
  <2> QED BY <1>1, <1>2, <1>3, <1>4, <2>1, MessageWritten
<1>10. Stages'
  <2>1. work[t].op \in OpsAt("clean") /\ work[t].op \in OpsAt("history")
    BY <1>2 DEF OpsAt, Ends, Posts, Asked
  <2>2. Stage(t)'
    BY <1>1, <1>2, <1>6, <1>7, <2>1 DEF Stage, Early
  <2> QED BY <1>1, <1>6, <1>7, <2>2, OtherStages DEF Safe
<1>11. Alone' /\ Table' /\ Vectors'
  BY <1>1, <1>6 DEF Safe, Alone, Table, Vectors, Leads, Ends
<1> QED BY <1>8, <1>9, <1>10, <1>11 DEF Safe

\* The answer ends the dialogue's turn of the server.
LEMMA AnswerStep == ASSUME Safe, NEW t \in Slaves, Answer(t) PROVE Safe'
<1> USE DEF Safe
<1> DEFINE n == work[t].fd
           u == work[t].user
           f == Frame(verdict[t], size[t], u, FALSE)
           l == IF size[t] > 0 THEN "history" ELSE "clean"
<1>1. /\ pc[t] \in {"answer", "send"} /\ Write(n, f) /\ Go(t, l)
      /\ UNCHANGED <<client, left, peer, curr_fd, queue, work, vec, size, verdict, grew, shrank, events>>
  BY DEF Answer, clientVars, localVars
<1>2. /\ Busy(t) /\ u \in Users /\ n \in Fds /\ peer[n] = u /\ client[u] = "asking"
      /\ verdict[t] \in AnswerKinds /\ size[t] \in 0 .. MaxHistory /\ Proper(work[t])
      /\ size[t] # 0 => work[t].op = "GETPREVMSGS_OP"
      /\ work[t].op \in Asked
  <2>1. pc[t] \in Early /\ Busy(t) /\ pc[t] # "pop"
    BY <1>1 DEF Early, Busy
  <2>2. u \in Users /\ n \in Fds /\ work[t].op # "DISCONNECT_OP" /\ Proper(work[t])
    BY <2>1, WorkFields
  <2>3. Waiting(work[t])
    BY <2>1 DEF Requests
  <2>4. size[t] \in Nat
    BY DEF TypeOK
  <2>5. work[t].op \in Asked
    BY <1>1 DEF Stages, Stage, OpsAt, Ends, Posts, Asked
  <2>6. size[t] \in 0 .. MaxHistory /\ (size[t] # 0 => work[t].op = "GETPREVMSGS_OP")
    BY <1>1, <2>4 DEF Stages, Stage
  <2> QED BY <2>1, <2>2, <2>3, <2>5, <2>6 DEF Waiting, Stages, Stage
<1>3. f \in Frames /\ f.kind = verdict[t] /\ f.for = u
  BY <1>2 DEF Frame, Frames
<1> HIDE DEF f
<1>4. /\ stream' \in [Fds -> Seq(Frames)] /\ \A g \in Fds : Len(stream'[g]) <= Capacity
      /\ \A g \in Fds \ {n} : stream'[g] = stream[g]
      /\ \A i \in DOMAIN stream'[n] :
            \/ i \in DOMAIN stream[n] /\ stream'[n][i] = stream[n][i]
            \/ stream'[n][i] = f /\ i = Len(stream[n]) + 1
  BY <1>1, <1>2, <1>3, Written
<1>5. pc' \in [Slaves -> PCs] /\ pc'[t] = l /\ \A s \in Slaves \ {t} : pc'[s] = pc[s]
  <2>1. l \in PCs
    BY DEF PCs
  <2> QED BY <1>1, <2>1, Going
<1>6. TypeOK'
  BY <1>1, <1>4, <1>5 DEF TypeOK
<1>7. Stages'
  <2>1. work[t].op \in OpsAt("clean") /\ (size[t] # 0 => work[t].op \in OpsAt("history"))
    BY <1>2 DEF OpsAt, Ends, Posts, Asked
  <2>2. Stage(t)'
    BY <1>1, <1>2, <1>5, <2>1 DEF Stage, Early
  <2> QED BY <1>1, <1>5, <2>2, OtherStages
<1>8. ~Busy(t)' /\ \A s \in Slaves \ {t} : /\ (Busy(s)' <=> Busy(s)) /\ (pc'[s] \in Late <=> pc[s] \in Late)
                                          /\ (pc'[s] \in Ends <=> pc[s] \in Ends)
  BY <1>5 DEF Busy, Early, Late, Ends
<1>9. Queue' /\ Clients'
  BY <1>1, <1>2, <1>4 DEF Queue, Clients, Connected
<1>10. Requests'
  BY <1>1, <1>2, <1>8 DEF Requests, Waiting
<1>11. OneAtATime'
  <2>1. Answers(n) = {}
    BY <1>2 DEF OneAtATime
  <2>2. \A i \in DOMAIN stream'[n] : stream'[n][i].kind \in AnswerKinds => i = Len(stream[n]) + 1
    BY <1>4, <2>1 DEF Answers
  <2>3. /\ \A i \in DOMAIN queue : queue[i].fd # n
        /\ \A s \in Slaves \ {t} : Busy(s) => work[s].fd # n
    BY <1>2 DEF OneAtATime
  <2>4. \A g \in Fds \ {n} : Answers(g)' = Answers(g)
    BY <1>4 DEF Answers
  <2>5. \A i \in Answers(n)' : i = Len(stream[n]) + 1
    BY <1>1, <2>2 DEF Answers
  <2>6. \A g \in Fds : \A i, k \in Answers(g)' : i = k
    <3>1. TAKE g \in Fds
    <3>2. CASE g = n
      BY <1>1, <1>2, <2>2, <3>2 DEF Answers
    <3>3. CASE g # n
      BY <2>4, <3>3 DEF OneAtATime
    <3> QED BY <3>2, <3>3
  <2> QED BY <1>1, <1>2, <1>8, <2>3, <2>4, <2>6 DEF OneAtATime
<1>12. Alone' /\ Table' /\ Vectors'
  <2>1. l # "close" /\ l \notin Ends
    BY DEF Ends
  <2> HIDE DEF l
  <2>2. Alone' /\ Table'
    BY <1>1, <1>5, <2>1 DEF Alone, Table
  <2> QED BY <1>1, <2>2 DEF Vectors, Leads
<1>13. OnlyStaleNumbersMislead'
  <2>1. ASSUME NEW g \in Fds, NEW i \in DOMAIN stream'[g], peer[g] \in Users, stream'[g][i].for # peer[g]
        PROVE  /\ stream'[g][i].kind = "TXT_MESSAGE"
               /\ stream'[g][i].stale \/ stream'[g][i].for = Nobody
    <3>1. CASE i \in DOMAIN stream[g] /\ stream'[g][i] = stream[g][i]
      BY <2>1, <3>1 DEF OnlyStaleNumbersMislead
    <3>2. CASE g = n /\ stream'[n][i] = f
      BY <1>2, <1>3, <2>1, <3>2
    <3> QED BY <1>4, <2>1, <3>1, <3>2
  <2> QED BY <1>1, <2>1 DEF OnlyStaleNumbersMislead
<1> QED BY <1>6, <1>7, <1>9, <1>10, <1>11, <1>12, <1>13

\* A slave that has forgotten its job.
LEMMA Forgetting ==
    ASSUME TypeOK, NEW t \in Slaves, Forget(t)
    PROVE  /\ pc' \in [Slaves -> PCs] /\ pc'[t] = "pop"
           /\ work' \in [Slaves -> Jobs \cup {NoJob}] /\ work'[t] = NoJob
           /\ verdict' \in [Slaves -> AnswerKinds \cup {"none"}] /\ grew' \in [Slaves -> BOOLEAN]
           /\ \A s \in Slaves \ {t} : /\ pc'[s] = pc[s] /\ work'[s] = work[s] /\ verdict'[s] = verdict[s]
                                      /\ (Busy(s)' <=> Busy(s)) /\ (pc'[s] \in Late <=> pc[s] \in Late)
                                      /\ (pc'[s] \in Ends <=> pc[s] \in Ends)
           /\ ~Busy(t)' /\ pc'[t] \notin Late \cup Ends
           /\ size'[t] = 0 => Stage(t)'
<1>1. /\ pc' = [pc EXCEPT ![t] = "pop"] /\ work' = [work EXCEPT ![t] = NoJob]
      /\ grew' = [grew EXCEPT ![t] = FALSE] /\ verdict' = [verdict EXCEPT ![t] = "none"]
  BY DEF Forget, Go, Decide
<1>2. /\ pc' \in [Slaves -> PCs] /\ pc'[t] = "pop" /\ \A s \in Slaves \ {t} : pc'[s] = pc[s]
      /\ work' \in [Slaves -> Jobs \cup {NoJob}] /\ work'[t] = NoJob
      /\ \A s \in Slaves \ {t} : work'[s] = work[s]
  BY <1>1 DEF TypeOK, PCs
<1>3. /\ verdict' \in [Slaves -> AnswerKinds \cup {"none"}] /\ grew' \in [Slaves -> BOOLEAN]
      /\ verdict'[t] = "none" /\ \A s \in Slaves \ {t} : verdict'[s] = verdict[s]
  BY <1>1 DEF TypeOK
<1>4. ~Busy(t)' /\ pc'[t] \notin Early \cup Late \cup Ends
  BY <1>2 DEF Busy, Early, Late, Ends
<1>5. size'[t] = 0 => Stage(t)'
  <2>1. NoJob.op = "none" /\ "none" \in OpsAt("pop")
    BY DEF NoJob, OpsAt, Ends
  <2> QED BY <1>2, <1>4, <2>1 DEF Stage
<1> QED BY <1>2, <1>3, <1>4, <1>5 DEF Busy

\* clean_critic_zone: the job is nobody's any more.
LEMMA CleanStep == ASSUME Safe, NEW t \in Slaves, Clean(t) PROVE Safe'
<1> USE DEF Safe
<1>1. /\ pc[t] = "clean" /\ Forget(t) /\ shrank' = [shrank EXCEPT ![t] = FALSE]
      /\ UNCHANGED <<client, left, peer, stream, curr_fd, queue, vec, size, events>>
  BY DEF Clean, clientVars
<1>2. pc[t] \in Late
  BY <1>1 DEF Late
<1>3. TypeOK'
  BY <1>1, Forgetting DEF TypeOK
<1>4. Stages'
  <2>1. size'[t] = 0
    BY <1>1 DEF Stages, Stage
  <2> QED BY <1>1, <2>1, Forgetting, OtherStages
<1>5. Queue' /\ Clients' /\ OnlyStaleNumbersMislead' /\ Vectors'
  BY <1>1 DEF Queue, Clients, Connected, OnlyStaleNumbersMislead, Vectors, Leads
<1>6. \A s \in Slaves : /\ Busy(s)' => Busy(s) /\ work'[s] = work[s] /\ s # t
                        /\ pc'[s] \in Late => pc[s] \in Late /\ work'[s] = work[s]
                        /\ pc'[s] \in Ends => pc[s] \in Ends /\ work'[s] = work[s] /\ s # t
                        /\ pc'[s] = "close" => pc[s] = "close" /\ work'[s] = work[s]
  BY <1>1, Forgetting
<1>7. Requests' /\ Table'
  BY <1>1, <1>6 DEF Requests, Waiting, Table
<1>8. OneAtATime'
  BY <1>1, <1>6 DEF OneAtATime, Answers
<1>9. Alone'
  <2>1. ASSUME NEW s \in Slaves, pc'[s] \in Ends, NEW r \in Slaves \ {s} PROVE work'[r].fd # work'[s].fd
    <3>1. pc[s] \in Ends /\ work'[s] = work[s] /\ s # t
      BY <1>6, <2>1
    <3>2. CASE r = t
      <4>1. work'[t].fd = VOID_FD
        BY <1>1, Forgetting DEF NoJob
      <4>2. work[s].fd \in Fds
        BY <3>1, WorkFields DEF Ends
      <4> QED BY <3>1, <3>2, <4>1, <4>2
    <3>3. CASE r # t
      BY <1>1, <3>1, <3>3, Forgetting DEF Alone
    <3> QED BY <3>2, <3>3
  <2> QED BY <2>1 DEF Alone
<1> QED BY <1>3, <1>4, <1>5, <1>7, <1>8, <1>9

-----------------------------------------------------------------------------
(* The end of a connection.                                                *)

\* The user is offline: no row of the table has the descriptor any more.
LEMMA EndingStep ==
    ASSUME Safe, NEW t \in Slaves, pc[t] = "ending", SignOff(t), Go(t, "close"),
           UNCHANGED <<client, left, peer, stream, queue, work, vec, size, verdict, grew, events>>
    PROVE  Safe'
<1> USE DEF Safe
<1> DEFINE n == work[t].fd
<1>1. pc' \in [Slaves -> PCs] /\ pc'[t] = "close" /\ \A s \in Slaves \ {t} : pc'[s] = pc[s]
  <2>1. "close" \in PCs
    BY DEF PCs
  <2> QED BY <2>1, Going
<1>2. \A s \in Slaves : /\ (Busy(s)' <=> Busy(s)) /\ (pc'[s] \in Late <=> pc[s] \in Late)
                        /\ (pc'[s] \in Ends <=> pc[s] \in Ends)
  BY <1>1 DEF Busy, Early, Late, Ends
<1>3. n \in Fds /\ work[t].op = "DISCONNECT_OP" /\ pc[t] \in Ends
  BY WorkFields DEF Ends
<1>4. /\ curr_fd' \in [Users -> Fds \cup {VOID_FD}] /\ shrank' \in [Slaves -> BOOLEAN]
      /\ \A v \in Users : \/ curr_fd'[v] = curr_fd[v] /\ curr_fd[v] # n
                          \/ curr_fd[v] = n /\ curr_fd'[v] = VOID_FD
  BY DEF SignOff, Noted, TypeOK
<1>5. TypeOK'
  BY <1>1, <1>4 DEF TypeOK
<1>6. Stages'
  <2>1. work[t].op \in OpsAt("close") /\ "close" \notin {"count", "list", "getuserfd", "getprevmsgs", "history", "pop"}
    BY <1>3 DEF OpsAt, Ends
  <2>2. "close" \notin Early /\ size[t] = 0 /\ Proper(work[t])
    BY DEF Early, Stages, Stage
  <2>3. Stage(t)'
    BY <1>1, <2>1, <2>2 DEF Stage
  <2> QED BY <1>1, <2>3, OtherStages
<1>7. Queue' /\ Clients' /\ OnlyStaleNumbersMislead' /\ Vectors'
  BY DEF Queue, Clients, Connected, OnlyStaleNumbersMislead, Vectors, Leads
<1>8. Requests' /\ OneAtATime' /\ Alone'
  BY <1>2 DEF Requests, Waiting, OneAtATime, Answers, Alone
<1>9. Table'
  <2>1. ASSUME NEW v \in Users, curr_fd'[v] \in Fds PROVE peer'[curr_fd'[v]] \in {v, Gone}
    BY <1>4, <2>1 DEF Table
  <2>2. ASSUME NEW s \in Slaves, pc'[s] = "close", NEW v \in Users PROVE curr_fd'[v] # work'[s].fd
    <3>1. work[s].fd \in Fds
      BY <1>1, <1>3, <2>2, WorkFields DEF Ends
    <3>2. s # t => curr_fd[v] # work[s].fd
      BY <1>1, <2>2 DEF Table
    <3> QED BY <1>4, <3>1, <3>2
  <2> QED BY <2>1, <2>2 DEF Table
<1> QED BY <1>5, <1>6, <1>7, <1>8, <1>9

\* An entry whose descriptor is closed is stale, and no other entry changes.
LEMMA Outdating ==
    ASSUME NEW s \in Seq(Entries), NEW n
    PROVE  /\ Outdated(s, n) \in Seq(Entries)
           /\ \A i \in DOMAIN Outdated(s, n) :
                 /\ i \in DOMAIN s
                 /\ \/ s[i].fd = n /\ Outdated(s, n)[i].stale
                    \/ s[i].fd # n /\ Outdated(s, n)[i] = s[i]
<1>1. DOMAIN s = 1 .. Len(s) /\ Len(s) \in Nat /\ \A i \in DOMAIN s : s[i] \in Entries
  OBVIOUS
<1>2. \A e \in Entries : [e EXCEPT !.stale = TRUE] \in Entries /\ [e EXCEPT !.stale = TRUE].stale
  BY DEF Entries
<1>3. \A i \in DOMAIN s : Outdated(s, n)[i] = IF s[i].fd = n THEN [s[i] EXCEPT !.stale = TRUE] ELSE s[i]
  BY DEF Outdated
<1>4. DOMAIN Outdated(s, n) = DOMAIN s
  BY DEF Outdated
<1>5. Outdated(s, n) \in [1 .. Len(s) -> Entries]
  BY <1>1, <1>2 DEF Outdated
<1> DEFINE o == Outdated(s, n)
<1> HIDE DEF o
<1>6. o \in Seq(Entries)
  BY <1>1, <1>5 DEF o
<1>7. \A i \in DOMAIN s : \/ s[i].fd = n /\ Outdated(s, n)[i].stale
                          \/ s[i].fd # n /\ Outdated(s, n)[i] = s[i]
  BY <1>1, <1>2, <1>3
<1> QED BY <1>4, <1>6, <1>7 DEF o

\* close: the number is free, and every entry that has it is stale.
LEMMA CloseStep ==
    ASSUME Safe, NEW t \in Slaves, pc[t] = "close", CloseFd(t), Forget(t),
           UNCHANGED <<curr_fd, size, shrank>>
    PROVE  Safe'
<1> USE DEF Safe
<1> DEFINE n == work[t].fd
<1>1. /\ peer' = [peer EXCEPT ![n] = Free]
      /\ vec' = [s \in Slaves |-> Outdated(vec[s], n)]
      /\ UNCHANGED <<client, left, stream, queue, events>>
  BY DEF CloseFd, clientVars
<1>2. /\ n \in Fds /\ peer[n] = Gone /\ stream[n] = <<>> /\ pc[t] \in Ends /\ Busy(t)
      /\ \A u \in Users : curr_fd[u] # n
  <2>1. n \in Fds /\ work[t].op = "DISCONNECT_OP" /\ pc[t] \in Ends /\ Busy(t)
    BY WorkFields DEF Ends, Busy
  <2>2. peer[n] = Gone
    BY <2>1 DEF Requests, Waiting
  <2> QED BY <2>1, <2>2 DEF Clients, Table
<1>3. /\ peer' \in [Fds -> Users \cup {Free, Gone}] /\ peer'[n] = Free
      /\ \A g \in Fds \ {n} : peer'[g] = peer[g]
  BY <1>1, <1>2 DEF TypeOK
<1>4. Free \notin Users /\ Gone \notin Users /\ Free # Gone
  BY DEF Free, Gone
<1>5. \A s \in Slaves : /\ vec'[s] \in Seq(Entries)
                        /\ \A i \in DOMAIN vec'[s] :
                              /\ i \in DOMAIN vec[s]
                              /\ \/ vec[s][i].fd = n /\ vec'[s][i].stale
                                 \/ vec[s][i].fd # n /\ vec'[s][i] = vec[s][i]
  BY <1>1, Outdating DEF TypeOK
<1>6. TypeOK'
  <2>1. vec' \in [Slaves -> Seq(Entries)]
    BY <1>1, <1>5
  <2> QED BY <1>1, <1>3, <2>1, Forgetting DEF TypeOK
<1>7. Stages'
  <2>1. size'[t] = 0
    BY DEF Stages, Stage
  <2> QED BY <2>1, Forgetting, OtherStages
<1>8. Queue' /\ Clients'
  <2>1. \A u \in Users : Connected(u)' <=> Connected(u)
    BY <1>2, <1>3, <1>4 DEF Connected
  <2>2. Queue'
    BY <1>1 DEF Queue
  <2>3. \A g \in Fds : peer'[g] \in Users => peer'[g] = peer[g]
    BY <1>3, <1>4
  <2>4. Clients'
    BY <1>1, <1>2, <1>3, <2>1, <2>3 DEF Clients
  <2> QED BY <2>2, <2>4
<1>9. \A s \in Slaves : /\ Busy(s)' => Busy(s) /\ work'[s] = work[s] /\ s # t
                        /\ pc'[s] \in Late => pc[s] \in Late /\ work'[s] = work[s] /\ s # t
                        /\ pc'[s] \in Ends => pc[s] \in Ends /\ work'[s] = work[s] /\ s # t
                        /\ pc'[s] = "close" => pc[s] = "close" /\ work'[s] = work[s]
  BY Forgetting
<1>10. \A s \in Slaves \ {t} : work[s].fd # n
  BY <1>2 DEF Alone
<1>11. Requests'
  <2>1. ASSUME NEW i \in DOMAIN queue PROVE Waiting(queue[i]) /\ queue[i].fd # n /\ queue[i].fd \in Fds
    BY <1>2, JobFields DEF Requests, OneAtATime
  <2>2. ASSUME NEW s \in Slaves, Busy(s), s # t PROVE Waiting(work[s]) /\ work[s].fd # n /\ work[s].fd \in Fds
    <3>1. pc[s] # "pop"
      BY <2>2 DEF Busy, Early, Ends
    <3> QED BY <1>10, <2>2, <3>1, WorkFields DEF Requests
  <2>3. ASSUME NEW s \in Slaves, pc[s] \in Late, s # t PROVE work[s].fd # n /\ work[s].fd \in Fds
    BY <1>10, <2>3, WorkFields DEF Late
  <2>4. \A i \in DOMAIN queue' : Waiting(queue[i])'
    BY <1>1, <1>3, <2>1 DEF Waiting
  <2>5. \A s \in Slaves : Busy(s)' => Waiting(work[s])'
    BY <1>1, <1>3, <1>9, <2>2 DEF Waiting
  <2>6. \A s \in Slaves : pc'[s] \in Late => peer'[work'[s].fd] \in {work'[s].user, Gone}
    BY <1>3, <1>9, <2>3 DEF Requests
  <2> QED BY <1>1, <2>4, <2>5, <2>6 DEF Requests
<1>12. OneAtATime'
  <2>1. \A fd \in Fds : Answers(fd)' = Answers(fd) /\ (Answers(fd) # {} => fd # n)
    BY <1>1, <1>2 DEF Answers
  <2> QED BY <1>1, <1>3, <1>9, <2>1 DEF OneAtATime
<1>13. Alone'
  <2>1. ASSUME NEW s \in Slaves, pc'[s] \in Ends, NEW r \in Slaves \ {s} PROVE work'[r].fd # work'[s].fd
    <3>1. pc[s] \in Ends /\ work'[s] = work[s] /\ s # t
      BY <1>9, <2>1
    <3>2. CASE r = t
      <4>1. work'[t].fd = VOID_FD
        BY Forgetting DEF NoJob
      <4>2. work[s].fd \in Fds
        BY <3>1, WorkFields DEF Ends
      <4> QED BY <3>1, <3>2, <4>1, <4>2
    <3>3. CASE r # t
      BY <3>1, <3>3, Forgetting DEF Alone
    <3> QED BY <3>2, <3>3
  <2> QED BY <2>1 DEF Alone
<1>14. Table'
  BY <1>2, <1>3, <1>9 DEF Table
<1>15. Vectors'
  <2>1. ASSUME NEW s \in Slaves, NEW i \in DOMAIN vec'[s],
               vec'[s][i].for # Nobody, ~vec'[s][i].stale, vec'[s][i].fd \in Fds
        PROVE  peer'[vec'[s][i].fd] \in {vec'[s][i].for, Gone}
    BY <1>3, <1>5, <2>1 DEF Vectors, Leads
  <2> QED BY <2>1 DEF Vectors, Leads
<1>16. OnlyStaleNumbersMislead'
  BY <1>1, <1>3, <1>4 DEF OnlyStaleNumbersMislead
<1> QED BY <1>6, <1>7, <1>8, <1>11, <1>12, <1>13, <1>14, <1>15, <1>16

\* DISCONNECT_OP: offline first, closed after.
LEMMA DisconnectStep == ASSUME Safe, NEW t \in Slaves, Disconnect(t) PROVE Safe'
<1>1. CASE /\ pc[t] = "ending" /\ SignOff(t) /\ Go(t, "close")
           /\ UNCHANGED <<clientVars, peer, stream, queue, work, vec, size, verdict, grew, events>>
  BY <1>1, EndingStep DEF clientVars
<1>2. CASE /\ pc[t] = "close" /\ CloseFd(t) /\ Forget(t) /\ UNCHANGED <<curr_fd, size, shrank>>
  BY <1>2, CloseStep
<1> QED BY <1>1, <1>2 DEF Disconnect

-----------------------------------------------------------------------------
(* The queue.                                                              *)

LEMMA FirstStage ==
    ASSUME NEW job \in Jobs, Proper(job)
    PROVE  /\ FirstStep(job) \in (Early \cup {"ending"}) \ {"list", "send"}
           /\ job.op \in OpsAt(FirstStep(job))
           /\ FirstStep(job) = "ending" => job.op = "DISCONNECT_OP"
           /\ FirstStep(job) = "getuserfd" => job.to \in Users
           /\ FirstStep(job) \in {"count", "list", "getuserfd", "getprevmsgs"} =>
                 ~(job.to = job.user /\ job.op = "POSTTXT_OP")
<1>1. job.op \in Ops /\ job.to \in Users \cup {Group, Nobody}
  BY DEF Jobs
<1>2. CASE job.op # "POSTTXT_OP"
  BY <1>1, <1>2 DEF FirstStep, Ops, OpsAt, Early, Ends, Posts, Asked
<1>3. CASE job.op = "POSTTXT_OP"
  <2>1. FirstStep(job) = IF job.to = job.user THEN "answer" ELSE IF job.to = Group THEN "count" ELSE "getuserfd"
    BY <1>3 DEF FirstStep
  <2>2. job.to # Nobody
    BY <1>3 DEF Proper
  <2> QED BY <1>1, <1>3, <2>1, <2>2 DEF OpsAt, Early, Ends, Posts, Asked
<1> QED BY <1>2, <1>3

\* A job from the queue to a slave, when check_op_consistence lets it in.
LEMMA ServeStep == ASSUME Safe, NEW t \in Slaves, Serve(t) PROVE Safe'
<1> USE DEF Safe
<1> DEFINE job == Head(queue)
           r == IF job.to = job.user /\ job.op = "POSTTXT_OP" THEN "OP_FAIL" ELSE "OP_OK"
           l == FirstStep(job)
<1>1. /\ pc[t] = "pop" /\ queue # <<>> /\ ~Conflict(t, job) /\ queue' = Tail(queue)
      /\ work' = [work EXCEPT ![t] = job] /\ Decide(t, r) /\ Go(t, l)
      /\ UNCHANGED <<client, left, peer, stream, curr_fd, vec, size, grew, shrank, events>>
  BY DEF Serve, clientVars
<1>2. /\ queue' \in Seq(Jobs) /\ job = queue[1] /\ 1 \in DOMAIN queue
      /\ \A i \in DOMAIN queue' : i + 1 \in DOMAIN queue /\ i + 1 # 1 /\ queue'[i] = queue[i + 1]
      /\ \A i, k \in DOMAIN queue' : i + 1 = k + 1 => i = k
  <2>1. queue \in Seq(Jobs)
    BY DEF TypeOK
  <2> QED BY <1>1, <2>1, Tailed
<1>3. /\ job \in Jobs /\ job.fd \in Fds /\ Proper(job) /\ Waiting(job)
      /\ \A s \in Slaves : Busy(s) => job.fd # work[s].fd
      /\ \A i \in DOMAIN queue' : queue'[i].fd # job.fd
      /\ \A i \in Fds : Answers(i) # {} => job.fd # i
  <2>1. job \in Jobs /\ job.fd \in Fds /\ Proper(job)
    BY <1>2, JobFields
  <2>2. Waiting(job)
    BY <1>2 DEF Requests
  <2>3. /\ \A s \in Slaves : Busy(s) => job.fd # work[s].fd
        /\ \A i \in DOMAIN queue' : queue'[i].fd # job.fd
        /\ \A i \in Fds : Answers(i) # {} => job.fd # i
    BY <1>2 DEF OneAtATime
  <2> QED BY <2>1, <2>2, <2>3
<1>4. /\ l \in (Early \cup {"ending"}) \ {"list", "send"}
      /\ job.op \in OpsAt(l)
      /\ l = "ending" => job.op = "DISCONNECT_OP"
      /\ l = "getuserfd" => job.to \in Users
      /\ l \in {"count", "list", "getuserfd", "getprevmsgs"} => r = "OP_OK"
  BY <1>3, FirstStage
<1>5. l \in PCs /\ r \in AnswerKinds
  BY <1>4 DEF Early, PCs, AnswerKinds
<1> HIDE DEF job, r, l
<1>6. /\ pc' \in [Slaves -> PCs] /\ pc'[t] = l /\ \A s \in Slaves \ {t} : pc'[s] = pc[s]
      /\ verdict' \in [Slaves -> AnswerKinds \cup {"none"}] /\ verdict'[t] = r
      /\ \A s \in Slaves \ {t} : verdict'[s] = verdict[s]
  BY <1>1, <1>5, Going, Deciding
<1>7. work' \in [Slaves -> Jobs \cup {NoJob}] /\ work'[t] = job /\ \A s \in Slaves \ {t} : work'[s] = work[s]
  BY <1>1, <1>3 DEF TypeOK
<1>8. TypeOK'
  BY <1>1, <1>2, <1>6, <1>7 DEF TypeOK
<1>9. Stages'
  <2>1. size[t] = 0 /\ l # "history"
    BY <1>1, <1>4 DEF Stages, Stage, Early
  <2>2. Stage(t)'
    BY <1>1, <1>3, <1>4, <1>5, <1>6, <1>7, <2>1 DEF Stage
  <2> QED BY <1>1, <1>6, <1>7, <2>2, OtherStages
<1>10. Queue' /\ Clients'
  BY <1>1, <1>2 DEF Queue, Clients, Connected
<1>11. \A s \in Slaves \ {t} : /\ (Busy(s)' <=> Busy(s)) /\ (pc'[s] \in Late <=> pc[s] \in Late)
                               /\ (pc'[s] \in Ends <=> pc[s] \in Ends)
  BY <1>6 DEF Busy
<1>12. pc'[t] \notin Late /\ pc'[t] # "close" /\ (pc'[t] \in Ends => job.op = "DISCONNECT_OP")
  BY <1>4, <1>6 DEF Early, Late, Ends
<1>13. Requests'
  <2>1. \A i \in DOMAIN queue' : Waiting(queue'[i])
    BY <1>2 DEF Requests
  <2>2. \A s \in Slaves : Busy(s)' => Waiting(work'[s])
    BY <1>3, <1>7, <1>11 DEF Requests
  <2>3. \A s \in Slaves : pc'[s] \in Late => peer[work'[s].fd] \in {work'[s].user, Gone}
    BY <1>7, <1>11, <1>12 DEF Requests
  <2> QED BY <1>1, <2>1, <2>2, <2>3 DEF Requests, Waiting
<1>14. OneAtATime'
  <2>1. \A i, k \in DOMAIN queue' : queue'[i].fd = queue'[k].fd => i = k
    BY <1>2 DEF OneAtATime
  <2>2. \A i \in DOMAIN queue', s \in Slaves : Busy(s)' => queue'[i].fd # work'[s].fd
    BY <1>2, <1>3, <1>7, <1>11 DEF OneAtATime
  <2>3. \A s, q \in Slaves : Busy(s)' /\ Busy(q)' /\ work'[s].fd = work'[q].fd => s = q
    BY <1>3, <1>7, <1>11 DEF OneAtATime
  <2>4. \A fd \in Fds : Answers(fd)' = Answers(fd)
    BY <1>1 DEF Answers
  <2>5. ASSUME NEW fd \in Fds, Answers(fd) # {}
        PROVE  /\ client'[peer'[fd]] = "asking"
               /\ \A i \in DOMAIN queue' : queue'[i].fd # fd
               /\ \A s \in Slaves : Busy(s)' => work'[s].fd # fd
    BY <1>1, <1>2, <1>3, <1>7, <1>11, <2>5 DEF OneAtATime
  <2>6. \A fd \in Fds : \A i, k \in Answers(fd) : i = k
    BY DEF OneAtATime
  <2> QED BY <2>1, <2>2, <2>3, <2>4, <2>5, <2>6 DEF OneAtATime
<1>15. Alone'
  <2>1. ASSUME NEW s \in Slaves, pc'[s] \in Ends, NEW q \in Slaves \ {s} PROVE work'[q].fd # work'[s].fd
    <3>1. CASE s = t
      BY <1>1, <1>7, <1>12, <2>1, <3>1 DEF Conflict
    <3>2. CASE s # t
      <4>1. pc[s] \in Ends /\ Busy(s)
        BY <1>11, <2>1, <3>2 DEF Busy
      <4> QED BY <1>3, <1>7, <3>2, <4>1 DEF Alone
    <3> QED BY <3>1, <3>2
  <2> QED BY <2>1 DEF Alone
<1>16. Table'
  BY <1>1, <1>6, <1>7, <1>12 DEF Table
<1>17. Vectors' /\ OnlyStaleNumbersMislead'
  BY <1>1 DEF Vectors, Leads, OnlyStaleNumbersMislead
<1> QED BY <1>8, <1>9, <1>10, <1>13, <1>14, <1>15, <1>16, <1>17

\* A job that goes back to the end.
LEMMA RefuseStep == ASSUME Safe, NEW t \in Slaves, Refuse(t) PROVE Safe'
<1> USE DEF Safe
<1> DEFINE job == Head(queue)
<1>1. /\ queue # <<>> /\ queue' = Append(Tail(queue), job)
      /\ UNCHANGED <<client, left, peer, stream, curr_fd, pc, work, vec, size, verdict, grew, shrank, events>>
  BY DEF Refuse, clientVars, localVars
<1>2. /\ Tail(queue) \in Seq(Jobs) /\ job \in Jobs /\ job = queue[1] /\ 1 \in DOMAIN queue
      /\ \A i \in DOMAIN Tail(queue) : i + 1 \in DOMAIN queue /\ i + 1 # 1 /\ Tail(queue)[i] = queue[i + 1]
      /\ \A i, k \in DOMAIN Tail(queue) : i + 1 = k + 1 => i = k
  <2>1. queue \in Seq(Jobs)
    BY DEF TypeOK
  <2> QED BY <1>1, <2>1, Tailed
<1> DEFINE from(i) == IF i \in DOMAIN Tail(queue) THEN i + 1 ELSE 1
<1>3. /\ queue' \in Seq(Jobs)
      /\ \A i \in DOMAIN queue' : from(i) \in DOMAIN queue /\ queue'[i] = queue[from(i)]
      /\ \A i, k \in DOMAIN queue' : from(i) = from(k) => i = k
  <2>1. /\ queue' \in Seq(Jobs) /\ DOMAIN queue' = DOMAIN Tail(queue) \cup {Len(Tail(queue)) + 1}
        /\ \A i \in DOMAIN Tail(queue) : queue'[i] = Tail(queue)[i]
        /\ queue'[Len(Tail(queue)) + 1] = job /\ Len(Tail(queue)) + 1 \notin DOMAIN Tail(queue)
    BY <1>1, <1>2, Appended
  <2> HIDE DEF job
  <2> QED BY <1>2, <2>1
<1> HIDE DEF from, job
<1>4. TypeOK' /\ Queue'
  BY <1>1, <1>3 DEF TypeOK, Queue
<1>5. Stages' /\ Clients' /\ Alone' /\ Table' /\ Vectors' /\ OnlyStaleNumbersMislead'
  BY <1>1 DEF Stages, Stage, Clients, Connected, Alone, Table, Vectors, Leads, OnlyStaleNumbersMislead
<1>6. Requests'
  <2>1. \A i \in DOMAIN queue' : Waiting(queue'[i])
    BY <1>3 DEF Requests
  <2> QED BY <1>1, <2>1 DEF Requests, Waiting, Busy
<1>7. OneAtATime'
  <2>1. \A i, k \in DOMAIN queue' : queue'[i].fd = queue'[k].fd => i = k
    BY <1>3 DEF OneAtATime
  <2>2. \A i \in DOMAIN queue', s \in Slaves : Busy(s) => queue'[i].fd # work[s].fd
    BY <1>3 DEF OneAtATime
  <2>3. \A fd \in Fds : Answers(fd) # {} => \A i \in DOMAIN queue' : queue'[i].fd # fd
    BY <1>3 DEF OneAtATime
  <2> QED BY <1>1, <2>1, <2>2, <2>3 DEF OneAtATime, Answers, Busy
<1> QED BY <1>4, <1>5, <1>6, <1>7

-----------------------------------------------------------------------------
(* The clients.                                                            *)

\* A client that comes, asks or goes, at the end of connection fd, where nothing is
\* going on.
Turn(u, fd, job) ==
    /\ peer[fd] \in {u, Free} /\ peer'[fd] \in {u, Gone}
    /\ \A g \in Fds \ {fd} : peer[g] # u /\ peer'[g] = peer[g] /\ stream'[g] = stream[g]
    /\ stream'[fd] = IF peer'[fd] = u THEN stream[fd] ELSE <<>>
    /\ client'[u] \in {"asking", "away"}
    /\ client'[u] = "away" <=> peer'[fd] # u
    /\ \A v \in Users \ {u} : client'[v] = client[v]
    /\ queue' = Append(queue, job)

\* A client that comes, asks or goes has one job more in the queue, for a quiet connection.
LEMMA TurnStep ==
    ASSUME Safe, NEW u \in Users, NEW fd \in Fds, NEW job \in Jobs, Proper(job), job.fd = fd,
           Waiting(job)', Quiet(fd), Turn(u, fd, job),
           peer' \in [Fds -> Users \cup {Free, Gone}], stream' \in [Fds -> Seq(Frames)],
           client' \in [Users -> {"away", "idle", "asking", "history", "failed"}],
           events' \in 0 .. MaxEvents,
           UNCHANGED <<left, curr_fd, pc, work, vec, size, verdict, grew, shrank>>
    PROVE  Safe'
<1> USE DEF Safe
<1>1. Free \notin Users /\ Gone \notin Users /\ Free # Gone
  BY DEF Free, Gone
<1>2. /\ queue' \in Seq(Jobs) /\ DOMAIN queue' = DOMAIN queue \cup {Len(queue) + 1}
      /\ Len(queue) + 1 \notin DOMAIN queue
      /\ \A i \in DOMAIN queue : queue'[i] = queue[i]
      /\ queue'[Len(queue) + 1] = job
  BY Appended DEF TypeOK, Turn
<1>3. \A g \in Fds : stream'[g] \in {stream[g], <<>>}
  BY DEF Turn
<1>4. TypeOK'
  <2>1. \A g \in Fds : Len(stream'[g]) <= Capacity
    BY <1>3 DEF TypeOK
  <2> QED BY <1>2, <2>1 DEF TypeOK
<1>5. Stages' /\ Alone' /\ Queue'
  BY <1>2 DEF Stages, Stage, Alone, Queue
<1>6. Clients'
  <2>1. \A v \in Users \ {u} : Connected(v)' <=> Connected(v)
    BY <1>1 DEF Connected, Turn
  <2>2. Connected(u)' <=> peer'[fd] = u
    BY DEF Connected, Turn
  <2>3. \A v \in Users : client'[v] = "away" <=> ~Connected(v)'
    BY <2>1, <2>2 DEF Clients, Turn
  <2>4. ASSUME NEW v \in Users, client'[v] = "history" PROVE left'[v] # 0
    <3>1. v # u /\ client[v] = "history"
      BY <2>4 DEF Turn
    <3> QED BY <3>1 DEF Clients
  <2>5. ASSUME NEW f \in Fds, NEW g \in Fds, peer'[f] \in Users, peer'[f] = peer'[g] PROVE f = g
    <3>1. \A h \in Fds \ {fd} : peer'[h] = peer[h] /\ peer[h] # u
      BY DEF Turn
    <3>2. f # fd /\ g # fd => f = g
      BY <2>5, <3>1 DEF Clients
    <3>3. peer'[fd] \in {u, Gone}
      BY DEF Turn
    <3> QED BY <1>1, <2>5, <3>1, <3>2, <3>3
  <2>6. \A g \in Fds : peer'[g] \notin Users => stream'[g] = <<>>
    BY DEF Clients, Turn
  <2> QED BY <2>3, <2>4, <2>5, <2>6 DEF Clients
\* The others, queued, in hand or answered, are of other users on other connections.
<1>7. ASSUME NEW i \in DOMAIN queue PROVE Waiting(queue[i])' /\ queue[i].fd # fd
  <2>1. Waiting(queue[i]) /\ queue[i].fd # fd /\ queue[i].fd \in Fds
    BY JobFields DEF Requests, Quiet
  <2>2. queue[i].op # "DISCONNECT_OP" => queue[i].user \in Users
    BY JobFields
  <2>3. queue'[i] = queue[i]
    BY <1>2
  <2> QED BY <2>1, <2>2 DEF Waiting, Turn
<1>8. ASSUME NEW t \in Slaves, Busy(t) PROVE Waiting(work[t])' /\ work[t].fd # fd
  <2>1. pc[t] # "pop"
    BY <1>8 DEF Busy, Early, Ends
  <2>2. /\ Waiting(work[t]) /\ work[t].fd # fd /\ work[t].fd \in Fds
        /\ work[t].op # "DISCONNECT_OP" => work[t].user \in Users
    BY <1>8, <2>1, WorkFields DEF Requests, Quiet, Proper
  <2> QED BY <2>2 DEF Waiting, Turn
<1>9. Requests'
  <2>1. \A i \in DOMAIN queue' : i \in DOMAIN queue \/ queue'[i] = job
    BY <1>2
  <2>2. \A i \in DOMAIN queue' : Waiting(queue[i])'
    BY <1>7, <2>1 DEF Waiting
  <2>3. ASSUME NEW t \in Slaves, pc[t] \in Late PROVE peer'[work[t].fd] \in {work[t].user, Gone}
    <3>1. peer[work[t].fd] \in {work[t].user, Gone} /\ work[t].fd \in Fds /\ work[t].user \in Users
      BY <2>3, WorkFields DEF Requests, Late
    <3> QED BY <1>1, <3>1 DEF Turn
  <2> QED BY <1>7, <1>8, <2>2, <2>3 DEF Requests, Busy
<1>10. OneAtATime'
  <2>1. \A i, k \in DOMAIN queue' : queue'[i].fd = queue'[k].fd => i = k
    BY <1>2, <1>7 DEF OneAtATime
  <2>2. \A i \in DOMAIN queue', t \in Slaves : Busy(t) => queue'[i].fd # work[t].fd
    BY <1>2, <1>8 DEF OneAtATime
  <2>3. ASSUME NEW g \in Fds PROVE Answers(g)' \subseteq Answers(g)
    BY <1>3 DEF Answers
  <2>4. ASSUME NEW g \in Fds, Answers(g)' # {}
        PROVE  /\ client'[peer'[g]] = "asking"
               /\ \A i \in DOMAIN queue' : queue'[i].fd # g
               /\ \A t \in Slaves : Busy(t) => work[t].fd # g
    <3>1. Answers(g) # {} /\ g # fd
      BY <2>3, <2>4 DEF Quiet
    <3>2. peer[g] \in Users /\ peer[g] # u
      BY <3>1 DEF Answers, Clients, Turn
    <3>3. /\ client[peer[g]] = "asking" /\ \A i \in DOMAIN queue : queue[i].fd # g
          /\ \A t \in Slaves : Busy(t) => work[t].fd # g
      BY <3>1 DEF OneAtATime
    <3>4. client'[peer'[g]] = "asking"
      BY <3>1, <3>2, <3>3 DEF Turn
    <3>5. \A i \in DOMAIN queue' : queue'[i].fd # g
      BY <1>2, <3>1, <3>3
    <3> QED BY <3>3, <3>4, <3>5
  <2> QED BY <2>1, <2>2, <2>3, <2>4 DEF OneAtATime, Busy
<1>11. Table'
  <2>1. ASSUME NEW v \in Users, curr_fd[v] \in Fds PROVE peer'[curr_fd[v]] \in {v, Gone}
    <3>1. peer[curr_fd[v]] \in {v, Gone}
      BY <2>1 DEF Table
    <3>2. CASE curr_fd[v] = fd
      BY <1>1, <3>1, <3>2 DEF Turn
    <3>3. CASE curr_fd[v] # fd
      BY <2>1, <3>1, <3>3 DEF Turn
    <3> QED BY <3>2, <3>3
  <2> QED BY <2>1 DEF Table
<1>12. Vectors'
  <2>1. ASSUME NEW t \in Slaves, NEW i \in DOMAIN vec[t],
               vec[t][i].for # Nobody, ~vec[t][i].stale, vec[t][i].fd \in Fds
        PROVE  peer'[vec[t][i].fd] \in {vec[t][i].for, Gone}
    <3>1. vec[t][i] \in Entries /\ peer[vec[t][i].fd] \in {vec[t][i].for, Gone}
      BY <2>1 DEF Vectors, Leads, TypeOK
    <3>2. vec[t][i].for \in Users
      BY <2>1, <3>1 DEF Entries
    <3> QED BY <1>1, <2>1, <3>1, <3>2 DEF Turn
  <2> QED BY <2>1 DEF Vectors, Leads
<1>13. OnlyStaleNumbersMislead'
  <2>1. ASSUME NEW g \in Fds, NEW i \in DOMAIN stream'[g], peer'[g] \in Users, stream'[g][i].for # peer'[g]
        PROVE  /\ stream'[g][i].kind = "TXT_MESSAGE"
               /\ stream'[g][i].stale \/ stream'[g][i].for = Nobody
    <3>1. stream'[g] = stream[g] /\ stream[g] # <<>>
      BY <1>3, <2>1
    <3>2. peer'[g] = peer[g]
      BY <1>1, <2>1, <3>1 DEF Turn, Clients
    <3> QED BY <2>1, <3>1, <3>2 DEF OnlyStaleNumbersMislead
  <2> QED BY <2>1 DEF OnlyStaleNumbersMislead
<1> QED BY <1>4, <1>5, <1>6, <1>9, <1>10, <1>11, <1>12, <1>13

\* A connection on a number that is free, and with it the first request.
LEMMA ArriveStep == ASSUME Safe, NEW u \in Users, NEW fd \in Fds, Arrive(u, fd) PROVE Safe'
<1> DEFINE job == Job("CONNECT_OP", fd, u, Nobody)
<1>1. /\ client[u] = "away" /\ events < MaxEvents /\ peer[fd] = Free
      /\ peer' = [peer EXCEPT ![fd] = u] /\ queue' = Append(queue, job)
      /\ client' = [client EXCEPT ![u] = "asking"] /\ events' = events + 1
      /\ UNCHANGED <<left, stream, curr_fd, pc, work, vec, size, verdict, grew, shrank>>
  BY DEF Arrive, Do, localVars
<1>2. /\ job \in Jobs /\ Proper(job) /\ job.fd = fd /\ job.op = "CONNECT_OP" /\ job.user = u
  BY DEF Job, Jobs, Ops, Proper
<1> HIDE DEF job
<1>3. /\ peer' \in [Fds -> Users \cup {Free, Gone}] /\ peer'[fd] = u /\ \A g \in Fds \ {fd} : peer'[g] = peer[g]
      /\ client' \in [Users -> {"away", "idle", "asking", "history", "failed"}]
      /\ client'[u] = "asking" /\ \A v \in Users \ {u} : client'[v] = client[v]
      /\ stream' \in [Fds -> Seq(Frames)] /\ events' \in 0 .. MaxEvents
  BY <1>1 DEF Safe, TypeOK
<1>4. Quiet(fd) /\ stream[fd] = <<>>
  BY <1>1, QuietFree
<1>5. \A g \in Fds : peer[g] # u
  BY <1>1 DEF Safe, Clients, Connected
<1>6. Turn(u, fd, job) /\ Waiting(job)'
  BY <1>1, <1>2, <1>3, <1>4, <1>5 DEF Turn, Waiting
<1> QED BY <1>1, <1>2, <1>3, <1>4, <1>6, TurnStep

\* The connection of a client that is there and waits for no answer.
LEMMA AtRest ==
    ASSUME Safe, NEW u \in Users, client[u] \in {"idle", "failed"}
    PROVE  /\ FdOf(u) \in Fds /\ peer[FdOf(u)] = u /\ Quiet(FdOf(u))
           /\ \A g \in Fds \ {FdOf(u)} : peer[g] # u
<1>1. Connected(u)
  BY DEF Safe, Clients
<1>2. FdOf(u) \in Fds /\ peer[FdOf(u)] = u /\ \A g \in Fds \ {FdOf(u)} : peer[g] # u
  BY <1>1, Connection DEF Safe
<1> QED BY <1>2, QuietClient

\* The next request, after the answer to the last.
LEMMA AskStep ==
    ASSUME Safe, NEW u \in Users,
           NEW op \in {"POSTTXT_OP", "POSTTXTALL_OP", "GETPREVMSGS_OP"},
           NEW to \in Receivers \cup {Nobody}, Ask(u, op, to)
    PROVE  Safe'
<1> PICK fd : fd = FdOf(u)
  OBVIOUS
<1> DEFINE job == Job(op, fd, u, to)
<1>1. /\ client[u] = "idle" /\ events < MaxEvents /\ (to # Nobody <=> op = "POSTTXT_OP")
      /\ queue' = Append(queue, job) /\ client' = [client EXCEPT ![u] = "asking"] /\ events' = events + 1
      /\ UNCHANGED <<left, peer, stream, curr_fd, pc, work, vec, size, verdict, grew, shrank>>
  BY DEF Ask, Do, localVars
<1>2. /\ fd \in Fds /\ peer[fd] = u /\ Quiet(fd) /\ \A g \in Fds \ {fd} : peer[g] # u
  BY <1>1, AtRest
<1>3. /\ job \in Jobs /\ Proper(job) /\ job.fd = fd /\ job.op # "DISCONNECT_OP" /\ job.user = u
  BY <1>1, <1>2 DEF Job, Jobs, Ops, Proper, Receivers
<1> HIDE DEF job
<1>4. /\ client' \in [Users -> {"away", "idle", "asking", "history", "failed"}]
      /\ client'[u] = "asking" /\ \A v \in Users \ {u} : client'[v] = client[v]
      /\ stream' \in [Fds -> Seq(Frames)] /\ events' \in 0 .. MaxEvents
      /\ peer' \in [Fds -> Users \cup {Free, Gone}]
  BY <1>1 DEF Safe, TypeOK
<1>5. Turn(u, fd, job) /\ Waiting(job)'
  BY <1>1, <1>2, <1>3, <1>4 DEF Turn, Waiting
<1> QED BY <1>1, <1>2, <1>3, <1>4, <1>5, TurnStep

\* The end of a connection.
LEMMA LeaveStep == ASSUME Safe, NEW u \in Users, Leave(u) PROVE Safe'
<1> PICK fd : fd = FdOf(u)
  OBVIOUS
<1> DEFINE job == Job("DISCONNECT_OP", fd, Nobody, Nobody)
<1>1. /\ client[u] \in {"idle", "failed"} /\ peer' = [peer EXCEPT ![fd] = Gone]
      /\ stream' = [stream EXCEPT ![fd] = <<>>]
      /\ queue' = Append(queue, job) /\ client' = [client EXCEPT ![u] = "away"]
      /\ UNCHANGED <<left, curr_fd, pc, work, vec, size, verdict, grew, shrank, events>>
  BY DEF Leave, Do, localVars
<1>2. /\ fd \in Fds /\ peer[fd] = u /\ Quiet(fd) /\ \A g \in Fds \ {fd} : peer[g] # u
  BY <1>1, AtRest
<1>3. /\ job \in Jobs /\ Proper(job) /\ job.fd = fd /\ job.op = "DISCONNECT_OP"
  BY <1>2 DEF Job, Jobs, Ops, Proper
<1> HIDE DEF job
<1>4. /\ client' \in [Users -> {"away", "idle", "asking", "history", "failed"}]
      /\ client'[u] = "away" /\ \A v \in Users \ {u} : client'[v] = client[v]
      /\ events' \in 0 .. MaxEvents
      /\ peer' \in [Fds -> Users \cup {Free, Gone}] /\ peer'[fd] = Gone /\ \A g \in Fds \ {fd} : peer'[g] = peer[g]
      /\ stream' \in [Fds -> Seq(Frames)] /\ stream'[fd] = <<>> /\ \A g \in Fds \ {fd} : stream'[g] = stream[g]
  BY <1>1, <1>2 DEF Safe, TypeOK
<1>5. Turn(u, fd, job) /\ Waiting(job)'
  BY <1>1, <1>2, <1>3, <1>4 DEF Turn, Waiting
<1> QED BY <1>1, <1>2, <1>3, <1>4, <1>5, TurnStep

\* What a client makes of a frame: nothing, the end of its request, or a message of
\* its history.
LEMMA Heeding ==
    ASSUME TypeOK, Clients, NEW u \in Users, NEW f \in Frames, Heed(u, f)
    PROVE  /\ client' \in [Users -> {"away", "idle", "asking", "history", "failed"}]
           /\ left' \in [Users -> 0 .. MaxHistory]
           /\ \A v \in Users \ {u} : client'[v] = client[v] /\ left'[v] = left[v]
           /\ client[u] # "away" /\ client'[u] # "away"
           /\ client'[u] = "history" => left'[u] # 0
           /\ \/ client'[u] = client[u] /\ left'[u] = left[u] /\ f.kind = "TXT_MESSAGE"
                 /\ client[u] \in {"asking", "idle"}
              \/ /\ client[u] = "asking" /\ f.kind \in AnswerKinds
                 /\ client'[u] = IF f.kind # "OP_OK" THEN "failed" ELSE IF f.count > 0 THEN "history" ELSE "idle"
              \/ /\ client[u] = "history"
                 /\ client'[u] = IF left[u] = 1 THEN "idle" ELSE "history"
<1>1. /\ client \in [Users -> {"away", "idle", "asking", "history", "failed"}]
      /\ left \in [Users -> 0 .. MaxHistory]
      /\ f.count \in 0 .. MaxHistory
  BY DEF TypeOK, Frames
<1>2. CASE client[u] \in {"asking", "idle"} /\ f.kind = "TXT_MESSAGE" /\ UNCHANGED clientVars
  BY <1>1, <1>2 DEF Clients, clientVars
<1>3. CASE /\ client[u] = "asking" /\ f.kind = "OP_OK"
           /\ Do(u, IF f.count > 0 THEN "history" ELSE "idle")
           /\ left' = [left EXCEPT ![u] = f.count]
  BY <1>1, <1>3 DEF Do, AnswerKinds
<1>4. CASE /\ client[u] = "asking" /\ f.kind \in {"OP_FAIL", "OP_NICK_UNKNOWN"}
           /\ Do(u, "failed") /\ UNCHANGED left
  BY <1>1, <1>4 DEF Do, AnswerKinds
<1>5. CASE /\ client[u] = "history"
           /\ Do(u, IF left[u] = 1 THEN "idle" ELSE "history")
           /\ left' = [left EXCEPT ![u] = @ - 1]
  <2>1. left[u] \in 1 .. MaxHistory
    BY <1>1, <1>5 DEF Clients
  <2> QED BY <1>1, <1>5, <2>1 DEF Do
<1> QED BY <1>2, <1>3, <1>4, <1>5 DEF Heed

\* A client that reads its answer waits no longer, and there was one answer.
LEMMA ReadFrameStep == ASSUME Safe, NEW u \in Users, ReadFrame(u) PROVE Safe'
<1> USE DEF Safe
<1> PICK fd : fd = FdOf(u)
  OBVIOUS
<1> PICK f : f = Head(stream[fd])
  OBVIOUS
<1>1. /\ Connected(u) /\ client[u] # "failed" /\ stream[fd] # <<>> /\ Heed(u, f)
      /\ stream' = [stream EXCEPT ![fd] = Tail(stream[fd])]
      /\ UNCHANGED <<peer, curr_fd, queue, pc, work, vec, size, verdict, grew, shrank, events>>
  BY DEF ReadFrame, localVars
<1>2. fd \in Fds /\ peer[fd] = u /\ \A g \in Fds \ {fd} : peer[g] # u
  BY <1>1, Connection
<1>3. /\ Tail(stream[fd]) \in Seq(Frames) /\ Len(Tail(stream[fd])) <= Capacity
      /\ f \in Frames /\ f = stream[fd][1] /\ 1 \in DOMAIN stream[fd]
      /\ \A i \in DOMAIN Tail(stream[fd]) :
            i + 1 \in DOMAIN stream[fd] /\ i + 1 # 1 /\ Tail(stream[fd])[i] = stream[fd][i + 1]
      /\ \A i, k \in DOMAIN Tail(stream[fd]) : i + 1 = k + 1 => i = k
  <2>1. stream[fd] \in Seq(Frames) /\ Len(stream[fd]) <= Capacity /\ Capacity \in Nat
    BY <1>2 DEF TypeOK
  <2> QED BY <1>1, <2>1, Tailed
<1>4. /\ client' \in [Users -> {"away", "idle", "asking", "history", "failed"}]
      /\ left' \in [Users -> 0 .. MaxHistory]
      /\ \A v \in Users \ {u} : client'[v] = client[v] /\ left'[v] = left[v]
      /\ client[u] # "away" /\ client'[u] # "away"
      /\ client'[u] = "history" => left'[u] # 0
      /\ client'[u] = client[u] \/ (client[u] = "asking" /\ f.kind \in AnswerKinds) \/ client[u] = "history"
  BY <1>1, <1>3, Heeding
<1>5. /\ stream' \in [Fds -> Seq(Frames)] /\ stream'[fd] = Tail(stream[fd])
      /\ \A g \in Fds \ {fd} : stream'[g] = stream[g]
  BY <1>1, <1>2, <1>3 DEF TypeOK
\* A client that waits no longer has read the one answer there was.
<1>6. \/ client'[u] = client[u]
      \/ /\ \A i \in DOMAIN queue : queue[i].fd # fd
         /\ \A t \in Slaves : Busy(t) => work[t].fd # fd
         /\ \A i \in DOMAIN stream'[fd] : stream'[fd][i].kind \notin AnswerKinds
  <2>1. CASE client[u] = "asking" /\ f.kind \in AnswerKinds
    <3>1. 1 \in Answers(fd)
      BY <1>3, <2>1 DEF Answers
    <3>2. \A i \in Answers(fd) : i = 1
      BY <1>2, <3>1 DEF OneAtATime
    <3> QED BY <1>2, <1>3, <1>5, <3>1, <3>2 DEF OneAtATime, Answers
  <2>2. CASE client[u] = "history"
    <3>1. Quiet(fd)
      BY <1>2, <2>2, QuietClient
    <3> QED BY <1>3, <1>5, <3>1 DEF Quiet, Answers
  <2> QED BY <1>4, <2>1, <2>2
<1>7. TypeOK'
  <2>1. \A g \in Fds : Len(stream'[g]) <= Capacity
    BY <1>3, <1>5 DEF TypeOK
  <2> QED BY <1>1, <1>4, <1>5, <2>1 DEF TypeOK
<1>8. Stages' /\ Queue' /\ Alone' /\ Table' /\ Vectors'
  BY <1>1 DEF Stages, Stage, Queue, Alone, Table, Vectors, Leads
<1>9. Clients'
  <2>1. \A v \in Users : client'[v] = "away" <=> client[v] = "away"
    BY <1>4
  <2>2. \A v \in Users : client'[v] = "history" => left'[v] # 0
    BY <1>4 DEF Clients
  <2>3. \A g \in Fds : peer[g] \notin Users => stream'[g] = <<>>
    BY <1>2, <1>5 DEF Clients
  <2> QED BY <1>1, <2>1, <2>2, <2>3 DEF Clients, Connected
<1>10. Requests'
  <2>1. ASSUME NEW i \in DOMAIN queue PROVE Waiting(queue[i])'
    <3>1. Waiting(queue[i]) /\ queue[i].fd \in Fds /\ (queue[i].op # "DISCONNECT_OP" => queue[i].user \in Users)
      BY JobFields DEF Requests
    <3> QED BY <1>1, <1>2, <1>4, <1>6, <3>1 DEF Waiting
  <2>2. ASSUME NEW t \in Slaves, Busy(t) PROVE Waiting(work[t])'
    <3>1. pc[t] # "pop"
      BY <2>2 DEF Busy, Early, Ends
    <3>2. Waiting(work[t]) /\ work[t].fd \in Fds /\ (work[t].op # "DISCONNECT_OP" => work[t].user \in Users)
      BY <2>2, <3>1, WorkFields DEF Requests, Proper
    <3> QED BY <1>1, <1>2, <1>4, <1>6, <2>2, <3>2 DEF Waiting
  <2> QED BY <1>1, <2>1, <2>2 DEF Requests, Busy
<1>11. OneAtATime'
  <2>1. \A g \in Fds \ {fd} : Answers(g)' = Answers(g)
    BY <1>5 DEF Answers
  <2>2. \A i \in DOMAIN stream'[fd] : stream'[fd][i].kind \in AnswerKinds => i + 1 \in Answers(fd)
    BY <1>3, <1>5 DEF Answers
  <2>3. \A g \in Fds : \A i, k \in Answers(g)' : i = k
    <3>1. \A i, k \in Answers(fd)' : i \in DOMAIN stream'[fd] /\ k \in DOMAIN stream'[fd] /\ i + 1 \in Answers(fd) /\ k + 1 \in Answers(fd)
      BY <2>2 DEF Answers
    <3>2. \A i, k \in Answers(fd)' : i = k
      BY <1>2, <1>3, <1>5, <3>1 DEF OneAtATime
    <3> QED BY <2>1, <3>2 DEF OneAtATime
  <2>4. ASSUME NEW g \in Fds, Answers(g)' # {}
        PROVE  /\ client'[peer[g]] = "asking"
               /\ \A i \in DOMAIN queue : queue[i].fd # g
               /\ \A t \in Slaves : Busy(t) => work[t].fd # g
    <3>1. CASE g = fd
      <4>1. Answers(fd) # {} /\ client'[u] = client[u]
        BY <1>6, <2>2, <2>4, <3>1 DEF Answers
      <4> QED BY <1>2, <3>1, <4>1 DEF OneAtATime
    <3>2. CASE g # fd
      <4>1. Answers(g) # {} /\ peer[g] # u
        BY <1>2, <2>1, <2>4, <3>2
      <4>2. peer[g] \in Users
        BY <4>1 DEF Answers, Clients
      <4> QED BY <1>4, <4>1, <4>2 DEF OneAtATime
    <3> QED BY <3>1, <3>2
  <2> QED BY <1>1, <2>3, <2>4 DEF OneAtATime, Busy
<1>12. OnlyStaleNumbersMislead'
  <2>1. ASSUME NEW g \in Fds, NEW i \in DOMAIN stream'[g]
        PROVE  \E k \in DOMAIN stream[g] : stream'[g][i] = stream[g][k]
    <3>1. CASE g = fd
      <4>1. i + 1 \in DOMAIN stream[fd] /\ stream'[fd][i] = stream[fd][i + 1]
        BY <1>3, <1>5, <3>1
      <4> QED BY <3>1, <4>1
    <3>2. CASE g # fd
      BY <1>5, <3>2
    <3> QED BY <3>1, <3>2
  <2> QED BY <1>1, <2>1 DEF OnlyStaleNumbersMislead
<1> QED BY <1>7, <1>8, <1>9, <1>10, <1>11, <1>12

-----------------------------------------------------------------------------
(* Safety.                                                                 *)

LEMMA InitSafe == ASSUME Init PROVE Safe
<1>1. /\ \A fd \in Fds : stream[fd] = <<>> /\ peer[fd] = Free
      /\ \A u \in Users : curr_fd[u] = VOID_FD /\ client[u] = "away"
      /\ \A t \in Slaves : /\ pc[t] = "pop" /\ work[t] = NoJob /\ vec[t] = <<>> /\ size[t] = 0
                           /\ ~Busy(t) /\ pc[t] \notin Early \cup Late \cup Ends
      /\ queue = <<>>
  BY DEF Init, Busy, Early, Late, Ends
<1>2. TypeOK
  BY DEF Init, TypeOK, PCs, AnswerKinds
<1>3. Stages
  <2>1. NoJob.op = "none" /\ "none" \in OpsAt("pop")
    BY DEF NoJob, OpsAt, Ends
  <2> QED BY <1>1, <2>1 DEF Stages, Stage
<1>4. Queue /\ Clients /\ Requests
  BY <1>1 DEF Queue, Clients, Connected, Requests
<1>5. OneAtATime /\ Alone
  BY <1>1 DEF OneAtATime, Answers, Alone
<1>6. Table /\ Vectors /\ OnlyStaleNumbersMislead
  BY <1>1 DEF Table, Vectors, OnlyStaleNumbersMislead
<1> QED BY <1>2, <1>3, <1>4, <1>5, <1>6 DEF Safe

\* A stuttering step.
LEMMA SafeUnchanged == ASSUME Safe, UNCHANGED vars PROVE Safe'
BY DEF vars, clientVars, localVars, Safe, TypeOK, Stages, Stage, Queue, Clients, Connected, Requests,
       Waiting, Busy, OneAtATime, Answers, Alone, Table, Vectors, Leads, OnlyStaleNumbersMislead

\* Every step keeps Safe.
LEMMA SafeStep == ASSUME Safe, [Next]_vars PROVE Safe'
<1>1. ASSUME NEW u \in Users, Client(u) PROVE Safe'
  <2>1. ASSUME NEW fd \in Fds, Arrive(u, fd) PROVE Safe'
    BY <2>1, ArriveStep
  <2>2. ASSUME NEW to \in Receivers, Ask(u, "POSTTXT_OP", to) PROVE Safe'
    BY <2>2, AskStep
  <2>3. ASSUME NEW op \in {"POSTTXTALL_OP", "GETPREVMSGS_OP"}, Ask(u, op, Nobody) PROVE Safe'
    BY <2>3, AskStep
  <2>4. ASSUME ReadFrame(u) \/ Leave(u) PROVE Safe'
    BY <2>4, ReadFrameStep, LeaveStep
  <2> QED BY <1>1, <2>1, <2>2, <2>3, <2>4 DEF Client
<1>2. ASSUME NEW t \in Slaves, Slave(t) PROVE Safe'
  BY <1>2, ServeStep, RefuseStep, ConnectStep, GetUserFdStep, CountStep, ListStep, GetPrevMsgsStep,
     SendStep, AnswerStep, SendHistoryStep, CleanStep, DisconnectStep DEF Slave
<1> QED BY <1>1, <1>2, SafeUnchanged DEF Next

\* Connections, requests, table and vectors fit together, in every state.
THEOREM SafeInvariant == Spec => []Safe
<1>1. Init => Safe
  BY InitSafe
<1>2. Safe /\ [Next]_vars => Safe'
  BY SafeStep
<1> QED BY <1>1, <1>2, PTL DEF Spec

\* Every variable keeps its type, and no socket holds more frames than its capacity.
THEOREM TypeCorrect == Spec => []TypeOK
<1>1. Safe => TypeOK
  BY DEF Safe
<1> QED BY <1>1, SafeInvariant, PTL

\* A frame reaches the client of another user only if its descriptor was closed after a
\* slave had read it, or if it is an entry of a group's vector that was never filled; answers and
\* histories never do (slaves.c:394-421, queries.h:904-925).
THEOREM StaleMislead == Spec => []OnlyStaleNumbersMislead
<1>1. Safe => OnlyStaleNumbersMislead
  BY DEF Safe
<1> QED BY <1>1, SafeInvariant, PTL

-----------------------------------------------------------------------------
(* Who was told to be connected.                                           *)

LEMMA NothingNewTold ==
    ASSUME Registered, UNCHANGED curr_fd,
           \A fd \in Fds : peer'[fd] \in Users /\ Told(fd)' => peer'[fd] = peer[fd] /\ Told(fd)
    PROVE  Registered'
BY DEF Registered

\* The steps that leave the connections, the queue and the frames alone.
LEMMA HandlerTold ==
    ASSUME TypeOK, NEW t \in Slaves, NEW l \in Early, Go(t, l),
           pc[t] \in Early, work[t].op # "CONNECT_OP",
           \A s \in Slaves \ {t} : verdict'[s] = verdict[s],
           UNCHANGED <<client, peer, stream, queue, work>>
    PROVE  \A fd \in Fds : Told(fd)' => Told(fd)
<1>1. \A s \in Slaves \ {t} : pc'[s] = pc[s]
  BY DEF Go, TypeOK
<1> QED BY <1>1 DEF Told

\* The user is in the table before its client is told.
LEMMA ConnectRegisters == ASSUME Safe, Registered, NEW t \in Slaves, Connect(t) PROVE Registered'
<1> USE DEF Safe
<1> DEFINE u == work[t].user
           n == work[t].fd
<1>1. /\ pc[t] = "connect" /\ Go(t, "answer")
      /\ UNCHANGED <<client, peer, stream, queue, work>>
  BY DEF Connect, clientVars
<1>2. /\ u \in Users /\ n \in Fds /\ peer[n] = u /\ work[t].op = "CONNECT_OP"
  <2>1. work[t].op = "CONNECT_OP" /\ pc[t] \in Early
    BY <1>1 DEF Stages, Stage, OpsAt, Ends, Posts, Asked, Early
  <2> QED BY <1>1, <2>1, WorkFields DEF Requests, Busy, Waiting
<1>3. pc'[t] = "answer" /\ \A s \in Slaves \ {t} : pc'[s] = pc[s]
  BY <1>1 DEF Go, TypeOK
<1>4. CASE curr_fd[u] = VOID_FD
  <2>1. /\ curr_fd'[u] = n /\ \A v \in Users \ {u} : curr_fd'[v] = curr_fd[v]
        /\ UNCHANGED verdict
    BY <1>2, <1>4 DEF Connect, TypeOK
  <2>2. ASSUME NEW fd \in Fds, peer[fd] \in Users, Told(fd)' PROVE curr_fd'[peer[fd]] = fd
    <3>1. CASE fd = n
      BY <1>2, <2>1, <3>1
    <3>2. CASE fd # n
      <4>1. peer[fd] # u
        BY <1>2, <2>2, <3>2 DEF Clients
      <4>2. Told(fd)
        BY <1>1, <1>3, <2>1, <2>2, <3>2 DEF Told
      <4> QED BY <2>1, <2>2, <4>1, <4>2 DEF Registered
    <3> QED BY <3>1, <3>2
  <2> QED BY <1>1, <2>2 DEF Registered
<1>5. CASE curr_fd[u] # VOID_FD
  <2>1. UNCHANGED curr_fd /\ Decide(t, "OP_FAIL")
    BY <1>5 DEF Connect
  <2>2. verdict'[t] = "OP_FAIL" /\ \A s \in Slaves \ {t} : verdict'[s] = verdict[s]
    BY <2>1 DEF Decide, TypeOK
  <2>3. \A fd \in Fds : Told(fd)' => Told(fd)
    BY <1>1, <1>2, <1>3, <2>2 DEF Told
  <2> QED BY <1>1, <2>1, <2>3, NothingNewTold
<1> QED BY <1>4, <1>5

\* The queries about others.
LEMMA QueriesRegister ==
    ASSUME Safe, Registered, NEW t \in Slaves, GetUserFd(t) \/ Count(t) \/ List(t) \/ GetPrevMsgs(t)
    PROVE  Registered'
<1> USE DEF Safe
<1>1. /\ pc[t] \in {"getuserfd", "count", "list", "getprevmsgs"}
      /\ Go(t, "send") \/ Go(t, "list") \/ Go(t, "answer")
      /\ UNCHANGED <<client, peer, stream, queue, work, curr_fd>>
      /\ UNCHANGED verdict \/ \E r \in AnswerKinds : Decide(t, r)
  <2>1. "OP_OK" \in AnswerKinds /\ "OP_NICK_UNKNOWN" \in AnswerKinds
    BY DEF AnswerKinds
  <2> QED BY <2>1 DEF GetUserFd, Count, List, GetPrevMsgs, clientVars
<1>2. \A s \in Slaves \ {t} : verdict'[s] = verdict[s]
  BY <1>1 DEF Decide, TypeOK
<1>3. pc[t] \in Early /\ work[t].op # "CONNECT_OP"
  BY <1>1 DEF Stages, Stage, OpsAt, Ends, Posts, Asked, Early
<1>4. "send" \in Early /\ "list" \in Early /\ "answer" \in Early
  BY DEF Early
<1>5. \A fd \in Fds : Told(fd)' => Told(fd)
  BY <1>1, <1>2, <1>3, <1>4, HandlerTold
<1> QED BY <1>1, <1>5, NothingNewTold

\* A frame on its way was before, or has just been written.
LEMMA OldOrNew ==
    ASSUME TypeOK, NEW n, NEW f \in Frames, Write(n, f) \/ UNCHANGED stream,
           NEW fd \in Fds, NEW i \in DOMAIN stream'[fd]
    PROVE  \/ i \in DOMAIN stream[fd] /\ stream'[fd][i] = stream[fd][i]
           \/ fd = n /\ stream'[fd][i] = f
BY Written

\* A slave that answers OP_OK knows the user is in the table.
LEMMA FramesRegister ==
    ASSUME Safe, Registered, NEW t \in Slaves, Send(t) \/ Answer(t) \/ SendHistory(t)
    PROVE  Registered'
<1> USE DEF Safe
<1>1. UNCHANGED <<client, peer, queue, work, curr_fd>> /\ UNCHANGED verdict
  BY DEF Send, Answer, SendHistory, clientVars, localVars
<1>2. /\ \A s \in Slaves \ {t} : pc'[s] = pc[s]
      /\ pc'[t] # pc[t] => pc'[t] \notin Early
  <2>1. CASE Send(t)
    BY <2>1 DEF Send
  <2>2. CASE Answer(t)
    <3>1. \E l \in {"history", "clean"} : Go(t, l)
      BY <2>2 DEF Answer
    <3> QED BY <3>1 DEF Go, TypeOK, Early
  <2>3. CASE SendHistory(t)
    <3>1. Go(t, "clean") \/ UNCHANGED pc
      BY <2>3 DEF SendHistory
    <3> QED BY <3>1 DEF Go, TypeOK, Early
  <2> QED BY <2>1, <2>2, <2>3
<1>3. ASSUME NEW fd \in Fds, NEW i \in DOMAIN stream'[fd], stream'[fd][i].kind = "OP_OK"
      PROVE  Told(fd)
  <2>1. CASE Send(t)
    <3> PICK e : e = Head(vec[t])
      OBVIOUS
    <3> PICK f : f = Frame("TXT_MESSAGE", 0, e.for, e.stale)
      OBVIOUS
    <3>1. pc[t] = "send" /\ vec[t] # <<>> /\ (Write(e.fd, f) \/ UNCHANGED stream)
      BY <2>1 DEF Send
    <3>2. vec[t] \in Seq(Entries)
      BY DEF TypeOK
    <3>3. e \in Entries
      BY <3>1, <3>2, Tailed
    <3>4. f \in Frames /\ f.kind = "TXT_MESSAGE"
      <4>1. e.for \in Users \cup {Nobody} /\ e.stale \in BOOLEAN /\ 0 \in 0 .. MaxHistory
        BY <3>3 DEF Entries
      <4> QED BY <4>1, FrameFields
    <3>5. i \in DOMAIN stream[fd] /\ stream'[fd][i] = stream[fd][i]
      BY <1>3, <3>1, <3>4, Written
    <3> QED BY <1>3, <3>5 DEF Told
  <2>2. CASE SendHistory(t)
    <3>0. PICK n, f : n = work[t].fd /\ f = Frame("TXT_MESSAGE", 0, work[t].user, FALSE)
      OBVIOUS
    <3>1. pc[t] = "history" /\ Write(n, f)
      BY <2>2, <3>0 DEF SendHistory
    <3>2. work[t].user \in Users /\ 0 \in 0 .. MaxHistory
      BY <3>1, WorkFields DEF Late
    <3>3. f \in Frames /\ f.kind = "TXT_MESSAGE"
      BY <3>0, <3>2 DEF Frame, Frames
    <3>4. i \in DOMAIN stream[fd] /\ stream'[fd][i] = stream[fd][i]
      <4>1. \/ i \in DOMAIN stream[fd] /\ stream'[fd][i] = stream[fd][i]
            \/ stream'[fd][i] = f
        BY <1>3, <3>1, <3>3, OldOrNew
      <4> QED BY <1>3, <3>3, <4>1
    <3> QED BY <1>3, <3>4 DEF Told
  <2>3. CASE Answer(t)
    <3>0. PICK n, f : n = work[t].fd /\ f = Frame(verdict[t], size[t], work[t].user, FALSE)
      OBVIOUS
    <3>1. pc[t] \in {"answer", "send"} /\ Write(n, f) /\ n = work[t].fd
      BY <2>3, <3>0 DEF Answer
    <3>2. /\ pc[t] \in Early /\ work[t].user \in Users /\ verdict[t] \in AnswerKinds /\ size[t] \in Nat
          /\ size[t] # 0 => size[t] <= MaxHistory
      <4>1. pc[t] \in Early
        BY <3>1 DEF Early
      <4> QED BY <3>1, <4>1, WorkFields DEF TypeOK, Stages, Stage
    <3>3. f \in Frames /\ f.kind = verdict[t]
      <4>1. size[t] \in 0 .. MaxHistory
        BY <3>2
      <4> QED BY <3>0, <3>2, <4>1 DEF Frame, Frames
    <3>4. CASE i \in DOMAIN stream[fd] /\ stream'[fd][i] = stream[fd][i]
      BY <1>3, <3>4 DEF Told
    <3>5. CASE fd = n /\ stream'[fd][i] = f
      <4>1. verdict[t] = "OP_OK"
        BY <1>3, <3>3, <3>5
      <4>2. pc[t] = "send" => work[t].op # "CONNECT_OP"
        BY DEF Stages, Stage, OpsAt, Ends, Posts, Asked
      <4> QED BY <3>1, <3>2, <3>5, <4>1, <4>2 DEF Told
    <3>6. \/ i \in DOMAIN stream[fd] /\ stream'[fd][i] = stream[fd][i]
          \/ fd = n /\ stream'[fd][i] = f
      BY <1>3, <3>1, <3>3, OldOrNew
    <3> QED BY <3>4, <3>5, <3>6
  <2> QED BY <2>1, <2>2, <2>3
<1>4. \A fd \in Fds : Told(fd)' => Told(fd)
  BY <1>1, <1>2, <1>3 DEF Told
<1> QED BY <1>1, <1>4, NothingNewTold

\* A job that ends tells nobody anything.
LEMMA ForgetsTold ==
    ASSUME TypeOK, NEW t \in Slaves, Forget(t), UNCHANGED <<client, queue, stream>>
    PROVE  \A fd \in Fds : peer'[fd] = peer[fd] /\ Told(fd)' => Told(fd)
<1>1. \A s \in Slaves : pc'[s] \in Early => s # t /\ pc'[s] = pc[s] /\ work'[s] = work[s] /\ verdict'[s] = verdict[s]
  <2>1. "pop" \notin Early
    BY DEF Early
  <2> QED BY <2>1, Forgetting
<1> QED BY <1>1 DEF Told

\* Only users whose client is gone are taken from the table.
LEMMA EndsRegister ==
    ASSUME Safe, Registered, NEW t \in Slaves, Clean(t) \/ Disconnect(t)
    PROVE  Registered'
<1> USE DEF Safe
<1>1. CASE Clean(t)
  <2>1. Forget(t) /\ UNCHANGED <<client, peer, stream, curr_fd, queue>>
    BY <1>1 DEF Clean, clientVars
  <2> QED BY <2>1, ForgetsTold, NothingNewTold
<1>2. CASE /\ pc[t] = "close" /\ CloseFd(t) /\ Forget(t) /\ UNCHANGED <<curr_fd, size, shrank>>
  <2>1. peer' = [peer EXCEPT ![work[t].fd] = Free] /\ UNCHANGED <<client, stream, curr_fd, queue>>
    BY <1>2 DEF CloseFd, clientVars
  <2>2. \A fd \in Fds : peer'[fd] \in Users => peer'[fd] = peer[fd]
    BY <2>1 DEF TypeOK
  <2> QED BY <1>2, <2>1, <2>2, ForgetsTold, NothingNewTold
<1>3. CASE /\ pc[t] = "ending" /\ SignOff(t) /\ Go(t, "close")
           /\ UNCHANGED <<clientVars, peer, stream, queue, work, vec, size, verdict, grew, events>>
  <2>1. \A v \in Users : curr_fd'[v] = IF curr_fd[v] = work[t].fd THEN VOID_FD ELSE curr_fd[v]
    BY <1>3 DEF SignOff
  <2>2. peer[work[t].fd] = Gone
    BY <1>3, WorkFields DEF Ends, Requests, Busy, Waiting
  <2>3. \A s \in Slaves : pc'[s] \in Early => pc'[s] = pc[s]
    BY <1>3 DEF Go, TypeOK, Early
  <2>4. \A fd \in Fds : Told(fd)' => Told(fd)
    BY <1>3, <2>3 DEF Told, clientVars
  <2>5. ASSUME NEW fd \in Fds, peer[fd] \in Users, Told(fd)' PROVE curr_fd'[peer[fd]] = fd
    <3>1. curr_fd[peer[fd]] = fd /\ peer[fd] # Gone
      BY <2>4, <2>5 DEF Registered
    <3> QED BY <2>1, <2>2, <2>5, <3>1
  <2> QED BY <1>3, <2>5 DEF Registered
<1> QED BY <1>1, <1>2, <1>3 DEF Disconnect

\* A job is of a registered user in the queue and out of it.
LEMMA QueueRegisters ==
    ASSUME Safe, Registered, NEW t \in Slaves, Serve(t) \/ Refuse(t)
    PROVE  Registered'
<1> USE DEF Safe
<1> PICK job : job = Head(queue)
  OBVIOUS
<1>1. queue # <<>> /\ UNCHANGED <<client, peer, stream, curr_fd>>
  BY DEF Serve, Refuse, clientVars
<1>2. /\ Tail(queue) \in Seq(Jobs) /\ job \in Jobs /\ job = queue[1] /\ 1 \in DOMAIN queue
      /\ \A i \in DOMAIN Tail(queue) : i + 1 \in DOMAIN queue /\ Tail(queue)[i] = queue[i + 1]
  <2>1. queue \in Seq(Jobs)
    BY DEF TypeOK
  <2> QED BY <1>1, <2>1, Tailed
<1>3. CASE Refuse(t)
  <2>1. queue' = Append(Tail(queue), job) /\ UNCHANGED <<pc, work, verdict>>
    BY <1>3 DEF Refuse, localVars
  <2>2. \A i \in DOMAIN queue' : (i \in DOMAIN Tail(queue) /\ queue'[i] = Tail(queue)[i]) \/ queue'[i] = job
    BY <1>2, <2>1, Appended
  <2>3. \A i \in DOMAIN queue' : \E k \in DOMAIN queue : queue'[i] = queue[k]
    BY <1>2, <2>2
  <2>4. \A fd \in Fds : Told(fd)' => Told(fd)
    BY <1>1, <2>1, <2>3 DEF Told
  <2> QED BY <1>1, <2>4, NothingNewTold
<1>4. CASE Serve(t)
  <2>1. /\ queue' = Tail(queue) /\ work' = [work EXCEPT ![t] = job] /\ Go(t, FirstStep(job))
        /\ \E r \in AnswerKinds : Decide(t, r)
    BY <1>4 DEF Serve, AnswerKinds
  <2>2. /\ work'[t] = job /\ pc'[t] = FirstStep(job)
        /\ \A s \in Slaves \ {t} : pc'[s] = pc[s] /\ work'[s] = work[s] /\ verdict'[s] = verdict[s]
    BY <2>1 DEF Go, Decide, TypeOK
  <2>3. /\ FirstStep(job) \in Early => job.op # "DISCONNECT_OP"
        /\ job.op = "CONNECT_OP" => FirstStep(job) # "answer"
    BY DEF FirstStep, Early
  <2>4. \A i \in DOMAIN queue' : \E k \in DOMAIN queue : queue'[i] = queue[k]
    BY <1>2, <2>1
  <2>5. ASSUME NEW fd \in Fds, Told(fd)' PROVE Told(fd)
    <3>1. CASE \E s \in Slaves :
                  /\ pc'[s] \in Early /\ work'[s].fd = fd
                  /\ work'[s].op # "CONNECT_OP" \/ (pc'[s] = "answer" /\ verdict'[s] = "OP_OK")
      <4>1. PICK s \in Slaves :
                  /\ pc'[s] \in Early /\ work'[s].fd = fd
                  /\ work'[s].op # "CONNECT_OP" \/ (pc'[s] = "answer" /\ verdict'[s] = "OP_OK")
        BY <3>1
      <4>2. CASE s = t
        <5>1. job.fd = fd /\ job.op \notin {"CONNECT_OP", "DISCONNECT_OP"}
          BY <2>2, <2>3, <4>1, <4>2
        <5> QED BY <1>2, <5>1 DEF Told
      <4>3. CASE s # t
        BY <2>2, <4>1, <4>3 DEF Told
      <4> QED BY <4>2, <4>3
    <3>2. CASE \E i \in DOMAIN queue' : queue'[i].fd = fd /\ queue'[i].op \notin {"CONNECT_OP", "DISCONNECT_OP"}
      BY <2>4, <3>2 DEF Told
    <3> QED BY <1>1, <2>5, <3>1, <3>2 DEF Told
  <2> QED BY <1>1, <2>5, NothingNewTold
<1> QED BY <1>3, <1>4

\* A client that comes, asks or goes.
LEMMA TurnTold ==
    ASSUME Safe, Registered, NEW u \in Users, NEW fd \in Fds, NEW job, Turn(u, fd, job), job.fd = fd,
           UNCHANGED <<curr_fd, pc, work, verdict>>,
           peer'[fd] = u => (Told(fd) /\ peer[fd] = u) \/ ~Told(fd)'
    PROVE  Registered'
<1> USE DEF Safe
<1>1. queue \in Seq(Jobs) /\ queue' = Append(queue, job)
  BY DEF TypeOK, Turn
<1>2. \A i \in DOMAIN queue' : (i \in DOMAIN queue /\ queue'[i] = queue[i]) \/ queue'[i] = job
  BY <1>1
<1>3. ASSUME NEW g \in Fds, peer'[g] \in Users, Told(g)' PROVE peer'[g] = peer[g] /\ Told(g)
  <2>1. CASE g = fd
    <3>1. peer'[fd] = u
      BY <1>3, <2>1 DEF Turn
    <3> QED BY <1>3, <2>1, <3>1
  <2>2. CASE g # fd
    <3>1. /\ peer'[g] = peer[g] /\ peer[g] # u /\ stream'[g] = stream[g]
          /\ client'[peer[g]] = client[peer[g]]
      BY <1>3, <2>2 DEF Turn
    <3>2. \A i \in DOMAIN queue' : queue'[i].fd = g => i \in DOMAIN queue /\ queue'[i] = queue[i]
      BY <1>2, <2>2
    <3> QED BY <1>3, <3>1, <3>2 DEF Told
  <2> QED BY <2>1, <2>2
<1> QED BY <1>3, NothingNewTold

\* A client that has just come was not told anything yet.
LEMMA QuietTold ==
    ASSUME Safe, NEW u \in Users, NEW fd \in Fds, NEW job \in Jobs, Quiet(fd), Turn(u, fd, job),
           client'[u] = "asking", peer'[fd] = u, job.op = "CONNECT_OP", stream'[fd] = <<>>,
           UNCHANGED <<pc, work, verdict>>
    PROVE  ~Told(fd)'
<1>1. queue \in Seq(Jobs) /\ queue' = Append(queue, job)
  BY DEF Safe, TypeOK, Turn
<1>2. \A i \in DOMAIN queue' : queue'[i].fd # fd \/ queue'[i] = job
  BY <1>1 DEF Quiet
<1>3. \A t \in Slaves : pc'[t] \in Early => work'[t].fd # fd
  BY DEF Quiet, Busy
<1> QED BY <1>2, <1>3 DEF Told

\* A client asks for more only after it was told it is connected.
LEMMA ClientRegisters ==
    ASSUME Safe, Registered, NEW u \in Users, Client(u)
    PROVE  Registered'
<1>1. ASSUME NEW fd \in Fds, Arrive(u, fd) PROVE Registered'
  <2> DEFINE job == Job("CONNECT_OP", fd, u, Nobody)
  <2>1. /\ client[u] = "away" /\ peer[fd] = Free
        /\ peer' = [peer EXCEPT ![fd] = u] /\ queue' = Append(queue, job)
        /\ client' = [client EXCEPT ![u] = "asking"]
        /\ UNCHANGED <<stream, curr_fd, pc, work, verdict>>
    BY <1>1 DEF Arrive, Do, localVars
  <2>2. job \in Jobs /\ job.fd = fd /\ job.op = "CONNECT_OP"
    BY <1>1 DEF Job, Jobs, Ops
  <2> HIDE DEF job
  <2>3. /\ peer'[fd] = u /\ \A g \in Fds \ {fd} : peer'[g] = peer[g]
        /\ client'[u] = "asking" /\ \A v \in Users \ {u} : client'[v] = client[v]
    BY <1>1, <2>1 DEF Safe, TypeOK
  <2>4. Quiet(fd) /\ stream[fd] = <<>>
    BY <1>1, <2>1, QuietFree
  <2>5. \A g \in Fds : peer[g] # u
    BY <2>1 DEF Safe, Clients, Connected
  <2>6. Turn(u, fd, job)
    BY <1>1, <2>1, <2>2, <2>3, <2>4, <2>5 DEF Turn
  <2>7. ~Told(fd)'
    BY <1>1, <2>1, <2>2, <2>3, <2>4, <2>6, QuietTold
  <2> QED BY <1>1, <2>1, <2>2, <2>6, <2>7, TurnTold
<1>2. ASSUME NEW op \in {"POSTTXT_OP", "POSTTXTALL_OP", "GETPREVMSGS_OP"},
             NEW to \in Receivers \cup {Nobody}, Ask(u, op, to)
      PROVE  Registered'
  <2> PICK fd : fd = FdOf(u)
    OBVIOUS
  <2> DEFINE job == Job(op, fd, u, to)
  <2>1. /\ client[u] = "idle" /\ queue' = Append(queue, job) /\ client' = [client EXCEPT ![u] = "asking"]
        /\ UNCHANGED <<peer, stream, curr_fd, pc, work, verdict>>
    BY <1>2 DEF Ask, Do, localVars
  <2>2. /\ fd \in Fds /\ peer[fd] = u /\ Quiet(fd) /\ \A g \in Fds \ {fd} : peer[g] # u
    BY <2>1, AtRest
  <2>3. job.fd = fd
    BY DEF Job
  <2> HIDE DEF job
  <2>4. client'[u] = "asking" /\ \A v \in Users \ {u} : client'[v] = client[v]
    BY <2>1 DEF Safe, TypeOK
  <2>5. Turn(u, fd, job) /\ Told(fd)
    BY <2>1, <2>2, <2>4 DEF Turn, Told
  <2> QED BY <2>1, <2>2, <2>3, <2>5, TurnTold
<1>3. ASSUME Leave(u) PROVE Registered'
  <2> PICK fd : fd = FdOf(u)
    OBVIOUS
  <2> DEFINE job == Job("DISCONNECT_OP", fd, Nobody, Nobody)
  <2>1. /\ client[u] \in {"idle", "failed"} /\ peer' = [peer EXCEPT ![fd] = Gone]
        /\ stream' = [stream EXCEPT ![fd] = <<>>]
        /\ queue' = Append(queue, job) /\ client' = [client EXCEPT ![u] = "away"]
        /\ UNCHANGED <<curr_fd, pc, work, verdict>>
    BY <1>3 DEF Leave, Do, localVars
  <2>2. /\ fd \in Fds /\ peer[fd] = u /\ Quiet(fd) /\ \A g \in Fds \ {fd} : peer[g] # u
    BY <2>1, AtRest
  <2>3. job.fd = fd
    BY DEF Job
  <2> HIDE DEF job
  <2>4. /\ client'[u] = "away" /\ \A v \in Users \ {u} : client'[v] = client[v]
        /\ peer'[fd] = Gone /\ \A g \in Fds \ {fd} : peer'[g] = peer[g]
        /\ stream'[fd] = <<>> /\ \A g \in Fds \ {fd} : stream'[g] = stream[g]
    BY <2>1, <2>2 DEF Safe, TypeOK
  <2>5. Turn(u, fd, job) /\ peer'[fd] # u
    BY <2>1, <2>2, <2>4 DEF Turn
  <2> QED BY <2>1, <2>2, <2>3, <2>5, TurnTold
<1>4. ASSUME ReadFrame(u) PROVE Registered'
  <2> PICK fd : fd = FdOf(u)
    OBVIOUS
  <2> PICK f : f = Head(stream[fd])
    OBVIOUS
  <2>1. /\ Connected(u) /\ client[u] # "failed" /\ stream[fd] # <<>> /\ Heed(u, f)
        /\ stream' = [stream EXCEPT ![fd] = Tail(stream[fd])]
        /\ UNCHANGED <<peer, curr_fd, queue, pc, work, verdict>>
    BY <1>4 DEF ReadFrame, localVars
  <2>2. fd \in Fds /\ peer[fd] = u /\ \A g \in Fds \ {fd} : peer[g] # u
    BY <2>1, Connection DEF Safe
  <2>3. /\ f \in Frames /\ f = stream[fd][1] /\ 1 \in DOMAIN stream[fd]
        /\ \A i \in DOMAIN Tail(stream[fd]) : i + 1 \in DOMAIN stream[fd] /\ Tail(stream[fd])[i] = stream[fd][i + 1]
    <3>1. stream[fd] \in Seq(Frames)
      BY <2>2 DEF Safe, TypeOK
    <3> QED BY <2>1, <3>1, Tailed
  <2>4. /\ \A v \in Users \ {u} : client'[v] = client[v]
        /\ client'[u] \in {"idle", "history"} =>
              client[u] \in {"idle", "history"} \/ f.kind = "OP_OK"
    BY <2>1, <2>3, Heeding DEF Safe
  <2>5. stream'[fd] = Tail(stream[fd]) /\ \A g \in Fds \ {fd} : stream'[g] = stream[g]
    BY <2>1, <2>2 DEF Safe, TypeOK
  <2>6. ASSUME NEW g \in Fds, peer[g] \in Users, Told(g)' PROVE Told(g)
    <3>1. CASE client'[peer[g]] \in {"idle", "history"}
      BY <2>2, <2>3, <2>4, <2>6, <3>1 DEF Told
    <3>2. CASE \E i \in DOMAIN stream'[g] : stream'[g][i].kind = "OP_OK"
      <4>1. \E i \in DOMAIN stream[g] : stream[g][i].kind = "OP_OK"
        <5>1. CASE g = fd
          <6>1. PICK i \in DOMAIN stream'[fd] : stream'[fd][i].kind = "OP_OK"
            BY <3>2, <5>1
          <6>2. i + 1 \in DOMAIN stream[fd] /\ stream'[fd][i] = stream[fd][i + 1]
            BY <2>3, <2>5, <6>1
          <6> QED BY <5>1, <6>1, <6>2
        <5>2. CASE g # fd
          BY <2>5, <2>6, <3>2, <5>2
        <5> QED BY <5>1, <5>2
      <4> QED BY <4>1 DEF Told
    <3> QED BY <2>1, <2>6, <3>1, <3>2 DEF Told
  <2> QED BY <2>1, <2>6, NothingNewTold
<1> QED BY <1>1, <1>2, <1>3, <1>4 DEF Client

\* Every step keeps Registered.
LEMMA RegisteredStep == ASSUME Safe, Registered, [Next]_vars PROVE Registered'
<1>1. CASE UNCHANGED vars
  BY <1>1 DEF vars, clientVars, localVars, Registered, Told
<1>2. CASE \E u \in Users : Client(u)
  BY <1>2, ClientRegisters
<1>3. CASE \E t \in Slaves : Slave(t)
  BY <1>3, QueueRegisters, ConnectRegisters, QueriesRegister, FramesRegister, EndsRegister DEF Slave
<1> QED BY <1>1, <1>2, <1>3 DEF Next

-----------------------------------------------------------------------------
(* The messages to the group.                                              *)

\* Where the verdict about a message to the group has been given.
Judged == {"send", "answer", "clean"}

ToGroup(t) == work[t].op = "POSTTXT_OP" /\ work[t].to = Group

\* The step decides nothing about t's message to the group.
Calm(t) ==
    /\ pc'[t] = "list" =>
          /\ pc[t] = "list" /\ work'[t] = work[t] /\ size'[t] = size[t]
          /\ grew[t] => grew'[t]
          /\ shrank[t] => shrank'[t]
    /\ pc'[t] \in Judged /\ ToGroup(t)' =>
          /\ pc[t] \in Judged /\ work'[t] = work[t] /\ verdict'[t] = verdict[t]
          /\ grew[t] => grew'[t]
          /\ shrank[t] => shrank'[t]

\* Verdicts that were given stay.
LEMMA CalmJudged ==
    ASSUME GroupIsOfMembers, \A t \in Slaves : Calm(t)
    PROVE  GroupIsOfMembers'
<1>1. ASSUME NEW t \in Slaves, ToGroup(t)', pc'[t] \in Judged
      PROVE  IF work'[t].user \in Members THEN verdict'[t] = "OP_OK" \/ grew'[t]
             ELSE verdict'[t] = "OP_NICK_UNKNOWN" \/ shrank'[t]
  BY <1>1 DEF Calm, GroupIsOfMembers, ToGroup, Judged
<1> QED BY <1>1 DEF GroupIsOfMembers, ToGroup, Judged

\* Counts stay right as long as the table stays.
LEMMA CalmCounted ==
    ASSUME Counted, \A t \in Slaves : Calm(t), UNCHANGED curr_fd
    PROVE  Counted'
<1>1. Online(Members)' = Online(Members)
  BY DEF Online
<1> QED BY <1>1 DEF Calm, Counted

\* A step of t that keeps what it has decided, or comes to where nothing is.
LEMMA CalmSlave ==
    ASSUME NEW t \in Slaves,
           \A s \in Slaves \ {t} : /\ pc'[s] = pc[s] /\ work'[s] = work[s] /\ size'[s] = size[s]
                                   /\ verdict'[s] = verdict[s]
                                   /\ (grew[s] => grew'[s]) /\ (shrank[s] => shrank'[s]),
           pc'[t] # "list", pc'[t] \notin Judged \/ ~ToGroup(t)'
    PROVE  \A s \in Slaves : Calm(s)
BY DEF Calm

\* A member who asks is counted: the group is not empty.
LEMMA CountCalm ==
    ASSUME Safe, Registered, Counted, GroupIsOfMembers, NEW t \in Slaves, Count(t)
    PROVE  Counted' /\ GroupIsOfMembers'
<1> USE DEF Safe
<1> DEFINE n == Cardinality(Online(Scope(t)))
<1>1. /\ pc[t] = "count" /\ UNCHANGED <<curr_fd, work, grew, shrank>>
      /\ size' = [size EXCEPT ![t] = n]
      /\ IF n > 0 THEN Go(t, "list") ELSE Go(t, "answer") /\ Decide(t, IF work[t].to = Group THEN "OP_NICK_UNKNOWN" ELSE "OP_OK")
      /\ n > 0 => UNCHANGED verdict
  BY DEF Count
<1>2. n \in Nat /\ pc[t] \in Early /\ pc[t] # "pop"
  BY <1>1, OnlineFinite DEF Scope, Early
<1>3. /\ size'[t] = n
      /\ n > 0 => pc'[t] = "list"
      /\ ~(n > 0) => pc'[t] = "answer" /\ verdict'[t] = IF work[t].to = Group THEN "OP_NICK_UNKNOWN" ELSE "OP_OK"
  BY <1>1 DEF TypeOK, Go, Decide
<1>4. ASSUME NEW s \in Slaves \ {t}
      PROVE  pc'[s] = pc[s] /\ size'[s] = size[s] /\ verdict'[s] = verdict[s]
  <2> HIDE DEF n
  <2> QED BY <1>1, <1>4 DEF TypeOK, Go, Decide
<1>5. Online(Members)' = Online(Members)
  BY <1>1 DEF Online
<1>6. work[t].to = Group => n = Cardinality(Online(Members))
  BY DEF Scope
<1> HIDE DEF n
<1>7. Counted'
  <2>1. Cardinality(Online(Members)) \in Nat
    BY OnlineFinite
  <2> QED BY <1>1, <1>2, <1>3, <1>4, <1>5, <1>6, <2>1 DEF Counted
\* A member who asks is online: somebody is.
<1>8. ASSUME pc'[t] = "answer", ToGroup(t) PROVE work[t].user \notin Members
  <2>1. n = 0
    BY <1>2, <1>3, <1>8
  <2>2. SUFFICES ASSUME work[t].user \in Members PROVE FALSE
    OBVIOUS
  <2>3. work[t].user \in Users /\ work[t].fd \in Fds /\ peer[work[t].fd] = work[t].user
    BY <1>2, WorkFields DEF Requests, Busy, Waiting
  <2>4. curr_fd[work[t].user] = work[t].fd
    BY <1>2, <1>8, <2>3 DEF Registered, Told, ToGroup
  <2>5. work[t].user \in Online(Members)
    BY <2>2, <2>3, <2>4 DEF Online
  <2>6. Cardinality(Online(Members)) # 0
    BY <2>5, OnlineFinite, FS_EmptySet
  <2> QED BY <1>6, <1>8, <2>1, <2>6 DEF ToGroup
<1>9. ASSUME NEW s \in Slaves, ToGroup(s)', pc'[s] \in Judged
      PROVE  IF work'[s].user \in Members THEN verdict'[s] = "OP_OK" \/ grew'[s]
             ELSE verdict'[s] = "OP_NICK_UNKNOWN" \/ shrank'[s]
  <2>1. CASE s = t
    BY <1>1, <1>2, <1>3, <1>8, <1>9, <2>1 DEF ToGroup, Judged
  <2>2. CASE s # t
    BY <1>1, <1>4, <1>9, <2>2 DEF GroupIsOfMembers, ToGroup, Judged
  <2> QED BY <2>1, <2>2
<1>10. GroupIsOfMembers'
  BY <1>9 DEF GroupIsOfMembers, ToGroup, Judged
<1> QED BY <1>7, <1>10

\* The sender's descriptor is in the list exactly if it is a member, unless the table changed
\* since the count (queries.c:602-624).
LEMMA ListJudges ==
    ASSUME Safe, Registered, Counted, NEW t \in Slaves, List(t), ToGroup(t)
    PROVE  IF work[t].user \in Members THEN verdict'[t] = "OP_OK" \/ grew[t]
           ELSE verdict'[t] = "OP_NICK_UNKNOWN" \/ shrank[t]
<1> USE DEF Safe
<1>1. pc[t] = "list" /\ pc[t] \in Early /\ pc[t] # "pop"
  BY DEF List, Early
<1>2. verdict[t] = "OP_OK" /\ work[t].to = Group /\ work[t].op = "POSTTXT_OP" /\ size[t] \in Nat
  BY <1>1 DEF Stages, Stage, ToGroup, TypeOK
<1>3. work[t].user \in Users /\ work[t].fd \in Fds /\ peer[work[t].fd] = work[t].user
  BY <1>1, <1>2, WorkFields DEF Requests, Busy, Waiting
<1>4. PICK us \in SUBSET Users, list \in Seq(Entries) :
         /\ Filled(t, us)
         /\ \A i \in DOMAIN list :
               \/ \E u \in us : list[i] = Entry(curr_fd[u], u)
               \/ Cardinality(us) < size[t] /\ list[i].for = Nobody
         /\ \A u \in us : \E i \in DOMAIN list : list[i] = Entry(curr_fd[u], u)
         /\ IF Refused(t, list) THEN Decide(t, "OP_NICK_UNKNOWN") ELSE UNCHANGED verdict
  BY ListChoice
<1>5. /\ Refused(t, list) => verdict'[t] = "OP_NICK_UNKNOWN"
      /\ ~Refused(t, list) => verdict'[t] = "OP_OK"
  BY <1>2, <1>4 DEF Decide, TypeOK
<1>6. /\ us \subseteq Online(Members)
      /\ Cardinality(us) = IF Cardinality(Online(Members)) < size[t] THEN Cardinality(Online(Members)) ELSE size[t]
      /\ Cardinality(Online(Members)) \in Nat /\ IsFiniteSet(Online(Members))
      /\ grew[t] \/ Cardinality(Online(Members)) <= size[t]
      /\ shrank[t] \/ Cardinality(Online(Members)) >= size[t]
  BY <1>1, <1>2, <1>4, OnlineFinite DEF Filled, Scope, Counted
<1>7. CASE work[t].user \in Members
  <2>1. SUFFICES ASSUME ~grew[t] PROVE ~Refused(t, list)
    BY <1>5, <1>7
  <2>2. Cardinality(us) = Cardinality(Online(Members))
    BY <1>2, <1>6, <2>1
  <2>3. us = Online(Members)
    BY <1>6, <2>2, FS_Subset
  <2>4. curr_fd[work[t].user] = work[t].fd
    BY <1>1, <1>2, <1>3 DEF Registered, Told
  <2>5. work[t].user \in us
    BY <1>3, <1>7, <2>3, <2>4 DEF Online
  <2>6. \E i \in DOMAIN list : list[i].fd = work[t].fd
    BY <1>4, <2>4, <2>5 DEF Entry
  <2> QED BY <2>6 DEF Refused
<1>8. CASE work[t].user \notin Members
  <2>1. SUFFICES ASSUME ~shrank[t] PROVE Refused(t, list)
    BY <1>5, <1>8
  <2>2. ~(Cardinality(us) < size[t])
    BY <1>2, <1>6, <2>1
  <2>3. ASSUME NEW i \in DOMAIN list PROVE list[i].fd # work[t].fd
    <3>1. PICK u \in us : list[i] = Entry(curr_fd[u], u)
      BY <1>4, <2>2
    <3>2. list[i].fd = curr_fd[u] /\ u \in Users /\ u \in Members
      BY <1>6, <3>1 DEF Entry, Online
    <3>3. curr_fd[u] \in Fds => peer[curr_fd[u]] \in {u, Gone}
      BY <3>2 DEF Table
    <3> QED BY <1>3, <1>8, <3>2, <3>3
  <2> QED BY <1>2, <2>3 DEF Refused
<1> QED BY <1>7, <1>8

\* The list ends the wait between the two queries.
LEMMA ListCalm ==
    ASSUME Safe, Registered, Counted, GroupIsOfMembers, NEW t \in Slaves, List(t)
    PROVE  Counted' /\ GroupIsOfMembers'
<1> USE DEF Safe
<1>1. /\ pc[t] = "list" /\ Go(t, "send") /\ size' = [size EXCEPT ![t] = 0]
      /\ UNCHANGED <<curr_fd, work, grew, shrank>>
      /\ Decide(t, "OP_NICK_UNKNOWN") \/ UNCHANGED verdict
  BY DEF List
<1>2. /\ pc'[t] = "send"
      /\ \A s \in Slaves \ {t} : pc'[s] = pc[s] /\ size'[s] = size[s] /\ verdict'[s] = verdict[s]
  BY <1>1 DEF TypeOK, Go, Decide
<1>3. Online(Members)' = Online(Members)
  BY <1>1 DEF Online
<1>4. Counted'
  BY <1>1, <1>2, <1>3 DEF Counted
<1>5. ASSUME NEW s \in Slaves, ToGroup(s)', pc'[s] \in Judged
      PROVE  IF work'[s].user \in Members THEN verdict'[s] = "OP_OK" \/ grew'[s]
             ELSE verdict'[s] = "OP_NICK_UNKNOWN" \/ shrank'[s]
  <2>1. CASE s = t
    <3>1. ToGroup(t)
      BY <1>1, <1>5, <2>1 DEF ToGroup
    <3> QED BY <1>1, <2>1, <3>1, ListJudges
  <2>2. CASE s # t
    BY <1>1, <1>2, <1>5, <2>2 DEF GroupIsOfMembers, ToGroup, Judged
  <2> QED BY <2>1, <2>2
<1>6. GroupIsOfMembers'
  BY <1>5 DEF GroupIsOfMembers, ToGroup, Judged
<1> QED BY <1>4, <1>6

\* A member who comes online in between is noted.
LEMMA ConnectCounted ==
    ASSUME Safe, Counted, GroupIsOfMembers, NEW t \in Slaves, Connect(t)
    PROVE  Counted' /\ GroupIsOfMembers'
<1> USE DEF Safe
<1> DEFINE u == work[t].user
<1>1. /\ pc[t] = "connect" /\ Go(t, "answer") /\ UNCHANGED <<work, size, shrank>>
      /\ UNCHANGED verdict \/ Decide(t, "OP_FAIL")
      /\ \/ UNCHANGED <<curr_fd, grew>>
         \/ /\ curr_fd' = [curr_fd EXCEPT ![u] = work[t].fd] /\ curr_fd[u] = VOID_FD
            /\ grew' = [s \in Slaves |-> grew[s] \/ (Between(s) /\ {u} \cap Scope(s) # {})]
  BY DEF Connect, Noted
<1>2. /\ pc'[t] = "answer"
      /\ \A s \in Slaves \ {t} : pc'[s] = pc[s] /\ verdict'[s] = verdict[s]
  BY <1>1 DEF TypeOK, Go, Decide
<1>3. u \in Users /\ work[t].fd \in Fds /\ work[t].op = "CONNECT_OP"
  <2>1. work[t].op = "CONNECT_OP" /\ pc[t] \in Early /\ pc[t] # "pop"
    BY <1>1 DEF Stages, Stage, OpsAt, Ends, Posts, Asked, Early
  <2> QED BY <2>1, WorkFields
<1>4. \A s \in Slaves : grew[s] => grew'[s]
  BY <1>1
<1>5. GroupIsOfMembers'
  <2>1. ASSUME NEW s \in Slaves, ToGroup(s)', pc'[s] \in Judged
        PROVE  IF work'[s].user \in Members THEN verdict'[s] = "OP_OK" \/ grew'[s]
               ELSE verdict'[s] = "OP_NICK_UNKNOWN" \/ shrank'[s]
    <3>1. s # t
      BY <1>1, <1>3, <2>1 DEF ToGroup
    <3> QED BY <1>1, <1>2, <1>4, <2>1, <3>1 DEF GroupIsOfMembers, ToGroup, Judged
  <2> QED BY <2>1 DEF GroupIsOfMembers, ToGroup, Judged
<1>6. Counted'
  <2>1. CASE UNCHANGED <<curr_fd, grew>>
    <3>1. Online(Members)' = Online(Members)
      BY <2>1 DEF Online
    <3> QED BY <1>1, <1>2, <2>1, <3>1 DEF Counted
  <2>2. CASE /\ curr_fd' = [curr_fd EXCEPT ![u] = work[t].fd] /\ curr_fd[u] = VOID_FD
             /\ grew' = [s \in Slaves |-> grew[s] \/ (Between(s) /\ {u} \cap Scope(s) # {})]
    <3>1. \A v \in Users : curr_fd'[v] = IF v = u THEN work[t].fd ELSE curr_fd[v]
      BY <1>3, <2>2 DEF TypeOK
    <3>2. /\ Online(Members) \subseteq Online(Members)' /\ Online(Members)' \subseteq Members
          /\ u \notin Members => Online(Members)' = Online(Members)
      BY <1>3, <3>1 DEF Online
    <3>3. /\ Cardinality(Online(Members)) \in Nat /\ Cardinality(Online(Members)') \in Nat
          /\ Cardinality(Online(Members)) <= Cardinality(Online(Members)')
      <4>1. Online(Members)' \subseteq Users
        BY <3>2
      <4> QED BY <3>2, <4>1, FS_Subset, FS_CardinalityType, OnlineFinite
    <3>4. ASSUME NEW s \in Slaves, pc'[s] = "list", work'[s].to = Group
          PROVE  /\ grew'[s] \/ Cardinality(Online(Members)') <= size'[s]
                 /\ shrank'[s] \/ Cardinality(Online(Members)') >= size'[s]
      <4>1. pc[s] = "list" /\ work[s].to = Group /\ size[s] \in Nat /\ size'[s] = size[s] /\ shrank'[s] = shrank[s]
        BY <1>1, <1>2, <3>4 DEF TypeOK
      <4>2. /\ grew[s] \/ Cardinality(Online(Members)) <= size[s]
            /\ shrank[s] \/ Cardinality(Online(Members)) >= size[s]
        BY <4>1 DEF Counted
      <4>3. u \in Members => grew'[s]
        BY <2>2, <4>1 DEF Between, Scope
      <4> QED BY <1>4, <3>2, <3>3, <4>1, <4>2, <4>3
    <3> QED BY <3>4 DEF Counted
  <2> QED BY <1>1, <2>1, <2>2
<1> QED BY <1>5, <1>6

\* A member who goes offline in between is noted.
LEMMA EndingCounted ==
    ASSUME Safe, Counted, GroupIsOfMembers, NEW t \in Slaves, pc[t] = "ending", SignOff(t), Go(t, "close"),
           UNCHANGED <<work, size, verdict, grew>>
    PROVE  Counted' /\ GroupIsOfMembers'
<1> USE DEF Safe
<1> DEFINE gone == {u \in Users : curr_fd[u] = work[t].fd}
<1>1. /\ \A v \in Users : curr_fd'[v] = IF v \in gone THEN VOID_FD ELSE curr_fd[v]
      /\ shrank' = [s \in Slaves |-> shrank[s] \/ (Between(s) /\ gone \cap Scope(s) # {})]
  BY DEF SignOff, Noted
<1>2. pc'[t] = "close" /\ \A s \in Slaves \ {t} : pc'[s] = pc[s]
  BY DEF TypeOK, Go
<1>3. \A s \in Slaves : shrank[s] => shrank'[s]
  BY <1>1
<1>4. GroupIsOfMembers'
  BY <1>2, <1>3 DEF GroupIsOfMembers
<1>5. /\ Online(Members)' \subseteq Online(Members) /\ Online(Members) \subseteq Users
      /\ gone \cap Members = {} => Online(Members)' = Online(Members)
  BY <1>1 DEF Online
<1>6. /\ Cardinality(Online(Members)) \in Nat /\ Cardinality(Online(Members)') \in Nat
      /\ Cardinality(Online(Members)') <= Cardinality(Online(Members))
  BY <1>5, FS_Subset, FS_CardinalityType, OnlineFinite
<1>7. ASSUME NEW s \in Slaves, pc'[s] = "list", work'[s].to = Group
      PROVE  /\ grew'[s] \/ Cardinality(Online(Members)') <= size'[s]
             /\ shrank'[s] \/ Cardinality(Online(Members)') >= size'[s]
  <2>1. pc[s] = "list" /\ work[s].to = Group /\ size[s] \in Nat /\ size'[s] = size[s] /\ grew'[s] = grew[s]
    BY <1>2, <1>7 DEF TypeOK
  <2>2. /\ grew[s] \/ Cardinality(Online(Members)) <= size[s]
        /\ shrank[s] \/ Cardinality(Online(Members)) >= size[s]
    BY <2>1 DEF Counted
  <2>3. gone \cap Members # {} => shrank'[s]
    BY <1>1, <2>1 DEF Between, Scope
  <2> HIDE DEF gone
  <2> QED BY <1>3, <1>5, <1>6, <2>1, <2>2, <2>3
<1>8. Counted'
  BY <1>7 DEF Counted
<1> QED BY <1>4, <1>8

\* The other steps change nothing in the table, and decide nothing.
LEMMA OthersCalm ==
    ASSUME Safe, Counted, GroupIsOfMembers, NEW t \in Slaves,
           \/ Serve(t) \/ Refuse(t) \/ GetUserFd(t) \/ GetPrevMsgs(t)
           \/ Send(t) \/ Answer(t) \/ SendHistory(t) \/ Clean(t)
           \/ pc[t] = "close" /\ CloseFd(t) /\ Forget(t) /\ UNCHANGED <<curr_fd, size, shrank>>
    PROVE  Counted' /\ GroupIsOfMembers'
<1> USE DEF Safe
<1>1. /\ UNCHANGED curr_fd
      /\ \A s \in Slaves \ {t} : /\ pc'[s] = pc[s] /\ work'[s] = work[s] /\ size'[s] = size[s]
                                 /\ verdict'[s] = verdict[s] /\ grew'[s] = grew[s] /\ shrank'[s] = shrank[s]
  <2>1. CASE Serve(t) \/ Refuse(t)
    BY <2>1 DEF Serve, Refuse, localVars, TypeOK, Go, Decide
  <2>2. CASE GetUserFd(t) \/ GetPrevMsgs(t)
    BY <2>2 DEF GetUserFd, GetPrevMsgs, TypeOK, Go
  <2>3. CASE Send(t)
    BY <2>3 DEF Send
  <2>4. CASE Answer(t)
    <3>1. \E l \in {"history", "clean"} : Go(t, l)
      BY <2>4 DEF Answer
    <3> QED BY <2>4, <3>1 DEF Answer, localVars, TypeOK, Go
  <2>5. CASE SendHistory(t)
    BY <2>5 DEF SendHistory, TypeOK, Go
  <2>6. CASE Clean(t)
    BY <2>6 DEF Clean, Forget, TypeOK, Go, Decide
  <2>7. CASE pc[t] = "close" /\ CloseFd(t) /\ Forget(t) /\ UNCHANGED <<curr_fd, size, shrank>>
    BY <2>7 DEF Forget, TypeOK, Go, Decide
  <2> QED BY <2>1, <2>2, <2>3, <2>4, <2>5, <2>6, <2>7
<1>2. /\ pc'[t] # "list"
      /\ \/ pc'[t] \notin Judged \/ ~ToGroup(t)'
         \/ /\ pc[t] \in Judged
            /\ UNCHANGED <<work, verdict, grew, shrank>>
      \/ UNCHANGED <<pc, work, size, verdict, grew, shrank>>
  <2>1. CASE Serve(t)
    <3> DEFINE job == Head(queue)
    <3>1. queue \in Seq(Jobs) /\ queue # <<>>
      BY <2>1 DEF Serve, TypeOK
    <3>2. job \in Jobs /\ Proper(job) /\ (job.op # "DISCONNECT_OP" => job.user \in Users)
      BY <3>1, JobFields, Tailed
    <3> HIDE DEF job
    <3>3. pc'[t] = FirstStep(job) /\ work'[t] = job
      BY <2>1 DEF Serve, Go, TypeOK, job
    <3>4. FirstStep(job) # "list"
      BY <3>2, FirstStage
    <3>5. FirstStep(job) \in Judged /\ job.op = "POSTTXT_OP" => job.to = job.user
      BY DEF FirstStep, Judged
    <3> QED BY <3>2, <3>3, <3>4, <3>5 DEF ToGroup
  <2>2. CASE Refuse(t)
    BY <2>2 DEF Refuse, localVars
  <2>3. CASE GetUserFd(t)
    <3>1. work[t].to \in Users /\ pc'[t] = "send" /\ work' = work
      BY <2>3 DEF GetUserFd, Stages, Stage, Go, TypeOK
    <3> QED BY <3>1 DEF ToGroup
  <2>4. CASE GetPrevMsgs(t)
    <3>1. work[t].op = "GETPREVMSGS_OP" /\ pc'[t] = "answer" /\ work' = work
      BY <2>4 DEF GetPrevMsgs, Stages, Stage, Go, TypeOK, OpsAt, Posts, Asked, Ends
    <3> QED BY <3>1 DEF ToGroup
  <2>5. CASE Send(t)
    BY <2>5 DEF Send
  <2>6. CASE Answer(t)
    <3>1. pc[t] \in Judged /\ UNCHANGED <<work, verdict, grew, shrank>> /\ \E l \in {"history", "clean"} : Go(t, l)
      BY <2>6 DEF Answer, localVars, Judged
    <3> QED BY <3>1 DEF Go, TypeOK
  <2>7. CASE SendHistory(t)
    <3>1. work[t].op = "GETPREVMSGS_OP" /\ work' = work /\ pc'[t] \in {"history", "clean"}
      BY <2>7 DEF SendHistory, Stages, Stage, Go, TypeOK, OpsAt, Posts, Asked, Ends
    <3> QED BY <3>1 DEF ToGroup
  <2>8. CASE Clean(t) \/ Forget(t)
    <3>1. pc'[t] = "pop"
      BY <2>8, Forgetting DEF Clean
    <3> QED BY <3>1 DEF Judged
  <2> QED BY <2>1, <2>2, <2>3, <2>4, <2>5, <2>6, <2>7, <2>8
<1>3. \A s \in Slaves : Calm(s)
  BY <1>1, <1>2 DEF Calm
<1> QED BY <1>1, <1>3, CalmCounted, CalmJudged

\* Every step keeps Counted and GroupIsOfMembers.
LEMMA GroupStep ==
    ASSUME Safe, Registered, Counted, GroupIsOfMembers, [Next]_vars
    PROVE  Counted' /\ GroupIsOfMembers'
<1>1. CASE UNCHANGED vars \/ \E u \in Users : Client(u)
  <2>1. UNCHANGED <<curr_fd, pc, work, vec, size, verdict, grew, shrank>>
    BY <1>1 DEF vars, Client, Arrive, Ask, ReadFrame, Leave, localVars
  <2>2. \A t \in Slaves : Calm(t)
    BY <2>1 DEF Calm
  <2> QED BY <2>1, <2>2, CalmCounted, CalmJudged
<1>2. ASSUME NEW t \in Slaves, Slave(t) PROVE Counted' /\ GroupIsOfMembers'
  <2>1. CASE Connect(t)
    BY <2>1, ConnectCounted
  <2>2. CASE Count(t)
    BY <2>2, CountCalm
  <2>3. CASE List(t)
    BY <2>3, ListCalm
  <2>4. CASE Disconnect(t)
    <3>1. CASE /\ pc[t] = "ending" /\ SignOff(t) /\ Go(t, "close")
               /\ UNCHANGED <<clientVars, peer, stream, queue, work, vec, size, verdict, grew, events>>
      BY <3>1, EndingCounted
    <3>2. CASE pc[t] = "close" /\ CloseFd(t) /\ Forget(t) /\ UNCHANGED <<curr_fd, size, shrank>>
      BY <3>2, OthersCalm
    <3> QED BY <2>4, <3>1, <3>2 DEF Disconnect
  <2>5. CASE \/ Serve(t) \/ Refuse(t) \/ GetUserFd(t) \/ GetPrevMsgs(t)
             \/ Send(t) \/ Answer(t) \/ SendHistory(t) \/ Clean(t)
    BY <2>5, OthersCalm
  <2> QED BY <1>2, <2>1, <2>2, <2>3, <2>4, <2>5 DEF Slave
<1> QED BY <1>1, <1>2 DEF Next

\* The inductive invariant.
THEOREM Invariant == Spec => []IInv
<1>1. Init => IInv
  <2>1. ASSUME Init PROVE Registered /\ Counted /\ GroupIsOfMembers
    <3>1. \A fd \in Fds : peer[fd] \notin Users
      BY <2>1 DEF Init
    <3>2. \A t \in Slaves : pc[t] = "pop"
      BY <2>1 DEF Init
    <3> QED BY <3>1, <3>2 DEF Registered, Counted, GroupIsOfMembers
  <2> QED BY <2>1, InitSafe DEF IInv
<1>2. IInv /\ [Next]_vars => IInv'
  BY SafeStep, RegisteredStep, GroupStep DEF IInv
<1> QED BY <1>1, <1>2, PTL DEF Spec

\* Members' messages to the group are accepted and others' refused, unless the table changed
\* between the query that counts the members online and the one that lists them (queries.c:602-624).
THEOREM GroupOfMembers == Spec => []GroupIsOfMembers
<1>1. IInv => GroupIsOfMembers
  BY DEF IInv
<1> QED BY <1>1, Invariant, PTL

-----------------------------------------------------------------------------
(* The dialogue with each client.                                          *)

\* Where the dialogue is follows from what the client does and whether its answer is
\* on its way.
Phases ==
    \A u \in Users :
        /\ client[u] = "away" => Phase(u) = "away"
        /\ client[u] = "history" => Phase(u) = "answered"
        /\ client[u] \in {"idle", "failed"} => Phase(u) = "idle"
        /\ \A fd \in Fds : peer[fd] = u /\ client[u] = "asking" =>
              Phase(u) = IF Answers(fd) = {} THEN "asked" ELSE "answered"

\* Safe leaves one phase to each state of a client.
LEMMA PhasesNow == Safe => Phases
<1> SUFFICES ASSUME Safe, NEW u \in Users
             PROVE  /\ client[u] = "away" => Phase(u) = "away"
                    /\ client[u] = "history" => Phase(u) = "answered"
                    /\ client[u] \in {"idle", "failed"} => Phase(u) = "idle"
                    /\ \A fd \in Fds : peer[fd] = u /\ client[u] = "asking" =>
                          Phase(u) = IF Answers(fd) = {} THEN "asked" ELSE "answered"
  BY DEF Phases
<1>1. /\ client[u] = "away" => Phase(u) = "away"
      /\ client[u] = "history" => Phase(u) = "answered"
      /\ client[u] \notin {"away", "history"} =>
            Phase(u) = IF Answers(FdOf(u)) # {} THEN "answered"
                       ELSE IF client[u] = "asking" THEN "asked" ELSE "idle"
  BY DEF Phase, Answers
<1>2. client[u] # "away" =>
         /\ FdOf(u) \in Fds /\ peer[FdOf(u)] = u
         /\ \A fd \in Fds : peer[fd] = u => fd = FdOf(u)
  BY Connection DEF Safe, Clients
<1>3. client[u] # "away" /\ Answers(FdOf(u)) # {} => client[u] = "asking"
  BY <1>2 DEF Safe, OneAtATime
<1> QED BY <1>1, <1>2, <1>3

\* ... and in the next state too.
LEMMA PhasesNext == Safe' => Phases'
BY PhasesNow, PTL

\* The dialogue stays where it is.
LEMMA PhaseStays ==
    ASSUME Safe, Safe', NEW u \in Users, client'[u] = client[u],
           \A fd \in Fds : peer[fd] = u => peer'[fd] = u /\ (Answers(fd)' = {} <=> Answers(fd) = {})
    PROVE  Phase(u)' = Phase(u)
<1>1. Phases /\ Phases'
  BY PhasesNow, PhasesNext
<1>2. client[u] \in {"away", "idle", "asking", "history", "failed"}
  BY DEF Safe, TypeOK
<1>3. CASE client[u] = "asking"
  <2>1. PICK fd \in Fds : peer[fd] = u
    BY <1>3 DEF Safe, Clients, Connected
  <2>2. Phase(u) = IF Answers(fd) = {} THEN "asked" ELSE "answered"
    BY <1>1, <1>3, <2>1 DEF Phases
  <2>3. Phase(u)' = IF Answers(fd)' = {} THEN "asked" ELSE "answered"
    BY <1>1, <1>3, <2>1 DEF Phases
  <2> QED BY <2>1, <2>2, <2>3
<1>4. CASE client[u] # "asking"
  BY <1>1, <1>2, <1>4 DEF Phases
<1> QED BY <1>3, <1>4

\* The dialogue of u goes on, and no other.
LEMMA PhaseMoves ==
    ASSUME NEW u \in Users, NEW to, Phase(u)' = to, \A v \in Users \ {u} : Phase(v)' = Phase(v)
    PROVE  [v \in Users |-> Phase(v)]' = [[v \in Users |-> Phase(v)] EXCEPT ![u] = to]
OBVIOUS

\* No dialogue goes on.
LEMMA NoPhaseMoves ==
    ASSUME \A v \in Users : Phase(v)' = Phase(v)
    PROVE  [v \in Users |-> Phase(v)]' = [v \in Users |-> Phase(v)]
OBVIOUS

\* A message is no answer.
LEMMA AnswersKept ==
    ASSUME TypeOK, NEW n, NEW f \in Frames, Write(n, f) \/ UNCHANGED stream, f.kind = "TXT_MESSAGE",
           NEW fd \in Fds
    PROVE  Answers(fd)' = Answers(fd)
<1>1. stream'[fd] = stream[fd] \/ stream'[fd] = Append(stream[fd], f)
  BY Written
<1>2. "TXT_MESSAGE" \notin AnswerKinds
  BY DEF AnswerKinds
<1>3. CASE stream'[fd] = Append(stream[fd], f)
  <2>1. stream[fd] \in Seq(Frames)
    BY DEF TypeOK
  <2>2. /\ DOMAIN stream'[fd] = DOMAIN stream[fd] \cup {Len(stream[fd]) + 1}
        /\ \A i \in DOMAIN stream[fd] : stream'[fd][i] = stream[fd][i]
        /\ stream'[fd][Len(stream[fd]) + 1] = f
    BY <1>3, <2>1, Appended
  <2> QED BY <1>2, <2>2 DEF Answers
<1> QED BY <1>1, <1>3 DEF Answers

\* A slave moves the dialogue only when it answers.
LEMMA SlaveStays ==
    ASSUME Safe, Safe', NEW t \in Slaves, Slave(t), ~Answer(t)
    PROVE  \A v \in Users : Phase(v)' = Phase(v)
<1>1. UNCHANGED client
  BY DEF Slave, Serve, Refuse, Connect, GetUserFd, Count, List, GetPrevMsgs, Send, SendHistory, Clean,
         Disconnect, CloseFd, clientVars
<1>2. \A fd \in Fds : peer[fd] \in Users => peer'[fd] = peer[fd]
  <2>1. CASE UNCHANGED peer
    BY <2>1
  <2>2. CASE pc[t] = "close" /\ CloseFd(t)
    <3>1. peer[work[t].fd] = Gone /\ Gone \notin Users
      BY <2>2, WorkFields DEF Safe, Ends, Requests, Busy, Waiting
    <3> QED BY <2>2, <3>1 DEF CloseFd, Safe, TypeOK
  <2> QED BY <2>1, <2>2 DEF Slave, Serve, Refuse, Connect, GetUserFd, Count, List, GetPrevMsgs, Send,
                          SendHistory, Clean, Disconnect
<1>3. ASSUME NEW fd \in Fds PROVE Answers(fd)' = Answers(fd)
  <2>0. TypeOK /\ 0 \in 0 .. MaxHistory
    BY DEF Safe
  <2>1. CASE Send(t)
    <3> PICK e : e = Head(vec[t])
      OBVIOUS
    <3> PICK f : f = Frame("TXT_MESSAGE", 0, e.for, e.stale)
      OBVIOUS
    <3>1. pc[t] = "send" /\ vec[t] # <<>> /\ (Write(e.fd, f) \/ UNCHANGED stream)
      BY <2>1 DEF Send
    <3>2. e \in Entries
      BY <2>0, <3>1, Tailed DEF TypeOK
    <3>3. f \in Frames /\ f.kind = "TXT_MESSAGE"
      <4>1. e.for \in Users \cup {Nobody} /\ e.stale \in BOOLEAN
        BY <3>2 DEF Entries
      <4> QED BY <2>0, <4>1, FrameFields
    <3> QED BY <1>3, <2>0, <3>1, <3>3, AnswersKept
  <2>2. CASE SendHistory(t)
    <3>0. PICK n, f : n = work[t].fd /\ f = Frame("TXT_MESSAGE", 0, work[t].user, FALSE)
      OBVIOUS
    <3>1. pc[t] = "history" /\ (Write(n, f) \/ UNCHANGED stream)
      BY <2>2, <3>0 DEF SendHistory
    <3>2. f \in Frames /\ f.kind = "TXT_MESSAGE"
      <4>1. work[t].user \in Users
        BY <3>1, WorkFields DEF Late, Safe
      <4> QED BY <2>0, <3>0, <4>1 DEF Frame, Frames
    <3> QED BY <1>3, <2>0, <3>1, <3>2, AnswersKept
  <2>3. CASE UNCHANGED stream
    BY <2>3 DEF Answers
  <2> QED BY <2>1, <2>2, <2>3 DEF Slave, Serve, Refuse, Connect, GetUserFd, Count, List, GetPrevMsgs,
                                Clean, Disconnect, CloseFd
<1> QED BY <1>1, <1>2, <1>3, PhaseStays

\* The one answer of a request.
LEMMA AnswerMoves ==
    ASSUME Safe, Safe', NEW t \in Slaves, Answer(t)
    PROVE  \E u \in Users : RR!Answer(u)
<1>0. PICK u, n, f : u = work[t].user /\ n = work[t].fd /\ f = Frame(verdict[t], size[t], work[t].user, FALSE)
  OBVIOUS
<1>1. /\ pc[t] \in {"answer", "send"} /\ Write(n, f)
      /\ UNCHANGED <<client, peer>>
  BY <1>0 DEF Answer, clientVars
<1>2. pc[t] \in Early /\ Busy(t) /\ pc[t] # "pop"
  BY <1>1 DEF Early, Busy
<1>3. /\ u \in Users /\ n \in Fds /\ peer[n] = u /\ client[u] = "asking" /\ verdict[t] \in AnswerKinds
      /\ size[t] \in 0 .. MaxHistory /\ Answers(n) = {}
  <2>1. u \in Users /\ n \in Fds /\ peer[n] = u /\ client[u] = "asking"
    BY <1>0, <1>2, WorkFields DEF Safe, Requests, Waiting
  <2>2. Answers(n) = {}
    BY <1>0, <1>2, <2>1 DEF Safe, OneAtATime
  <2>3. size[t] \in 0 .. MaxHistory
    <3>1. size[t] \in Nat /\ (size[t] # 0 => size[t] <= MaxHistory)
      BY <1>1 DEF Safe, TypeOK, Stages, Stage
    <3> QED BY <3>1
  <2>4. verdict[t] \in AnswerKinds
    BY <1>2 DEF Safe, Stages, Stage
  <2> QED BY <2>1, <2>2, <2>3, <2>4
<1>4. f \in Frames /\ f.kind \in AnswerKinds
  BY <1>0, <1>3 DEF Frame, Frames
<1>5. /\ stream[n] \in Seq(Frames) /\ stream'[n] = Append(stream[n], f)
      /\ \A g \in Fds \ {n} : stream'[g] = stream[g]
  <2>1. stream' = [stream EXCEPT ![n] = Append(stream[n], f)]
    BY <1>1, <1>3 DEF Write
  <2> QED BY <1>3, <2>1 DEF Safe, TypeOK
<1>6. Answers(n)' # {}
  <2>1. Len(stream[n]) + 1 \in DOMAIN stream'[n] /\ stream'[n][Len(stream[n]) + 1] = f
    <3>1. PICK s \in Seq(Frames) : s = stream[n] /\ stream'[n] = Append(s, f)
      BY <1>5
    <3>2. f \in Frames
      BY <1>4
    <3>3. Len(s) + 1 \in DOMAIN Append(s, f) /\ Append(s, f)[Len(s) + 1] = f
      BY <3>1, <3>2, Appended
    <3> QED BY <3>1, <3>3
  <2> QED BY <1>4, <2>1 DEF Answers
<1>7. Phase(u) = "asked" /\ Phase(u)' = "answered"
  BY <1>1, <1>3, <1>6, PhasesNow, PhasesNext DEF Phases
<1>8. ASSUME NEW v \in Users \ {u} PROVE Phase(v)' = Phase(v)
  <2>1. ASSUME NEW g \in Fds, peer[g] = v PROVE peer'[g] = v /\ (Answers(g)' = {} <=> Answers(g) = {})
    BY <1>1, <1>3, <1>5, <2>1 DEF Answers
  <2> QED BY <1>1, <2>1, PhaseStays
<1>9. RR!Answer(u)
  BY <1>3, <1>7, <1>8, PhaseMoves DEF RR!Answer, RR!Step
<1> QED BY <1>3, <1>9

\* A client asks, reads and leaves in this order; a message it puts aside, or that of a
\* history, changes no phase.
LEMMA ClientMoves ==
    ASSUME Safe, Safe', NEW u \in Users, Client(u)
    PROVE  \/ RR!Ask(u) \/ RR!Read(u) \/ RR!Leave(u)
           \/ \A v \in Users : Phase(v)' = Phase(v)
<1>0. Phases /\ Phases' /\ Free \notin Users /\ Gone \notin Users
  BY PhasesNow, PhasesNext
<1>1. ASSUME NEW fd \in Fds, Arrive(u, fd) PROVE RR!Ask(u)
  <2>1. /\ client[u] = "away" /\ peer[fd] = Free /\ UNCHANGED stream
        /\ peer'[fd] = u /\ \A g \in Fds \ {fd} : peer'[g] = peer[g]
        /\ client'[u] = "asking" /\ \A v \in Users \ {u} : client'[v] = client[v]
    BY <1>1 DEF Arrive, Do, Safe, TypeOK
  <2>2. Answers(fd)' = {}
    BY <1>1, <2>1, QuietFree DEF Answers
  <2>3. Phase(u) = "away" /\ Phase(u)' = "asked"
    BY <1>0, <1>1, <2>1, <2>2 DEF Phases
  <2>4. ASSUME NEW v \in Users \ {u} PROVE Phase(v)' = Phase(v)
    <3>1. ASSUME NEW g \in Fds, peer[g] = v PROVE peer'[g] = v /\ (Answers(g)' = {} <=> Answers(g) = {})
      BY <1>0, <2>1, <3>1 DEF Answers
    <3> QED BY <2>1, <3>1, PhaseStays
  <2> QED BY <2>3, <2>4, PhaseMoves DEF RR!Ask, RR!Step
<1>2. ASSUME NEW op, NEW to, Ask(u, op, to) PROVE RR!Ask(u)
  <2> PICK fd : fd = FdOf(u)
    OBVIOUS
  <2>1. /\ client[u] = "idle" /\ UNCHANGED <<peer, stream>>
        /\ client'[u] = "asking" /\ \A v \in Users \ {u} : client'[v] = client[v]
    BY <1>2 DEF Ask, Do, Safe, TypeOK
  <2>2. fd \in Fds /\ peer[fd] = u /\ Answers(fd) = {}
    BY <2>1, AtRest DEF Quiet
  <2>3. Phase(u) = "idle" /\ Phase(u)' = "asked"
    <3>1. Answers(fd)' = {}
      BY <2>1, <2>2 DEF Answers
    <3> QED BY <1>0, <2>1, <2>2, <3>1 DEF Phases
  <2>4. ASSUME NEW v \in Users \ {u} PROVE Phase(v)' = Phase(v)
    <3>1. ASSUME NEW g \in Fds, peer[g] = v PROVE peer'[g] = v /\ (Answers(g)' = {} <=> Answers(g) = {})
      BY <2>1, <3>1 DEF Answers
    <3> QED BY <2>1, <3>1, PhaseStays
  <2> QED BY <2>3, <2>4, PhaseMoves DEF RR!Ask, RR!Step
<1>3. ASSUME Leave(u) PROVE RR!Leave(u)
  <2> PICK fd : fd = FdOf(u)
    OBVIOUS
  <2>1. client[u] \in {"idle", "failed"} /\ fd \in Fds /\ peer[fd] = u
    BY <1>3, AtRest DEF Leave
  <2>2. /\ \A g \in Fds \ {fd} : peer'[g] = peer[g] /\ stream'[g] = stream[g]
        /\ client'[u] = "away" /\ \A v \in Users \ {u} : client'[v] = client[v]
    BY <1>3, <2>1 DEF Leave, Do, Safe, TypeOK
  <2>3. Phase(u) = "idle" /\ Phase(u)' = "away"
    BY <1>0, <2>1, <2>2 DEF Phases
  <2>4. ASSUME NEW v \in Users \ {u} PROVE Phase(v)' = Phase(v)
    <3>1. ASSUME NEW g \in Fds, peer[g] = v PROVE peer'[g] = v /\ (Answers(g)' = {} <=> Answers(g) = {})
      BY <2>1, <2>2, <3>1 DEF Answers
    <3> QED BY <2>2, <3>1, PhaseStays
  <2> QED BY <2>3, <2>4, PhaseMoves DEF RR!Leave, RR!Step
<1>4. ASSUME ReadFrame(u) PROVE RR!Read(u) \/ \A v \in Users : Phase(v)' = Phase(v)
  <2> PICK fd, f : fd = FdOf(u) /\ f = Head(stream[fd])
    OBVIOUS
  <2>1. /\ Connected(u) /\ stream[fd] # <<>> /\ Heed(u, f)
        /\ stream' = [stream EXCEPT ![fd] = Tail(stream[fd])] /\ UNCHANGED peer
    BY <1>4 DEF ReadFrame
  <2>2. fd \in Fds /\ peer[fd] = u
    BY <2>1, Connection DEF Safe
  <2>3. /\ f \in Frames /\ f = stream[fd][1] /\ 1 \in DOMAIN stream[fd]
        /\ stream[fd] \in Seq(Frames)
    <3>1. stream[fd] \in Seq(Frames)
      BY <2>2 DEF Safe, TypeOK
    <3> QED BY <2>1, <3>1, Tailed
  <2>4. stream'[fd] = Tail(stream[fd]) /\ \A g \in Fds \ {fd} : stream'[g] = stream[g]
    BY <2>1, <2>2 DEF Safe, TypeOK
  <2>5. /\ \A v \in Users \ {u} : client'[v] = client[v]
        /\ \/ client'[u] = client[u] /\ f.kind = "TXT_MESSAGE"
           \/ client[u] = "asking" /\ f.kind \in AnswerKinds /\ client'[u] \in {"failed", "history", "idle"}
           \/ client[u] = "history" /\ client'[u] \in {"idle", "history"}
    BY <2>1, <2>3, Heeding DEF Safe
  <2>6. ASSUME NEW v \in Users \ {u} PROVE Phase(v)' = Phase(v)
    <3>1. ASSUME NEW g \in Fds, peer[g] = v PROVE peer'[g] = v /\ (Answers(g)' = {} <=> Answers(g) = {})
      BY <2>1, <2>2, <2>4, <3>1 DEF Answers
    <3> QED BY <2>5, <3>1, PhaseStays
  <2>7. CASE client'[u] = client[u] /\ f.kind = "TXT_MESSAGE"
    <3>1. Answers(fd)' = {} <=> Answers(fd) = {}
      <4>1. "TXT_MESSAGE" \notin AnswerKinds
        BY DEF AnswerKinds
      <4>2. /\ \A i \in DOMAIN stream'[fd] : i + 1 \in DOMAIN stream[fd] /\ stream'[fd][i] = stream[fd][i + 1]
            /\ \A i \in DOMAIN stream[fd] : i # 1 => i - 1 \in DOMAIN stream'[fd] /\ stream'[fd][i - 1] = stream[fd][i]
        <5>1. /\ \A i \in DOMAIN Tail(stream[fd]) :
                    i + 1 \in DOMAIN stream[fd] /\ Tail(stream[fd])[i] = stream[fd][i + 1]
              /\ Len(Tail(stream[fd])) = Len(stream[fd]) - 1 /\ Tail(stream[fd]) \in Seq(Frames)
          BY <2>1, <2>3, Tailed
        <5>2. \A i \in DOMAIN stream[fd] : i # 1 =>
                 /\ i - 1 \in DOMAIN Tail(stream[fd])
                 /\ Tail(stream[fd])[i - 1] = stream[fd][i]
          BY <2>3, <5>1
        <5> QED BY <2>4, <5>1, <5>2
      <4>3. ASSUME Answers(fd) = {} PROVE Answers(fd)' = {}
        BY <4>2, <4>3 DEF Answers
      <4>4. ASSUME Answers(fd) # {} PROVE Answers(fd)' # {}
        <5>1. PICK i \in DOMAIN stream[fd] : stream[fd][i].kind \in AnswerKinds
          BY <4>4 DEF Answers
        <5>2. i - 1 \in Answers(fd)'
          BY <2>3, <2>7, <4>1, <4>2, <5>1 DEF Answers
        <5> QED BY <5>2
      <4> QED BY <4>3, <4>4
    <3>2. \A g \in Fds : peer[g] = u => g = fd
      BY <2>2 DEF Safe, Clients
    <3>3. Phase(u)' = Phase(u)
      BY <2>1, <2>7, <3>1, <3>2, PhaseStays
    <3> QED BY <2>6, <3>3
  <2>8. CASE \/ client[u] = "asking" /\ f.kind \in AnswerKinds
             \/ client[u] = "history"
    <3>1. Phase(u) = "answered"
      <4>1. client[u] = "asking" /\ f.kind \in AnswerKinds => Answers(fd) # {}
        BY <2>3 DEF Answers
      <4> QED BY <1>0, <2>2, <2>8, <4>1 DEF Phases
    <3>2. CASE client'[u] = "history"
      <4>1. Phase(u)' = "answered"
        BY <1>0, <3>2 DEF Phases
      <4> QED BY <2>6, <3>1, <4>1
    <3>3. CASE client'[u] \in {"idle", "failed"}
      <4>1. Phase(u)' = "idle"
        BY <1>0, <3>3 DEF Phases
      <4>2. RR!Read(u)
        BY <2>6, <3>1, <4>1, PhaseMoves DEF RR!Read, RR!Step
      <4> QED BY <4>2
    <3>4. client'[u] \in {"idle", "failed", "history"}
      BY <2>5, <2>8 DEF AnswerKinds
    <3> QED BY <3>2, <3>3, <3>4
  <2> QED BY <2>5, <2>7, <2>8
<1> QED BY <1>1, <1>2, <1>3, <1>4 DEF Client

\* The safety half of ImplementsRequestReply: each client is answered once, only after it
\* asked, and asks or leaves only after it has read the answer (slaves.c:394-490, client.c:202-315).
THEOREM DialogueInOrder == Spec => RR!InOrder
<1>1. Init => RR!Init
  <2> SUFFICES ASSUME Init PROVE [u \in Users |-> Phase(u)] = [c \in Users |-> "away"]
    BY DEF RR!Init
  <2>1. \A u \in Users : Phase(u) = "away"
    BY DEF Init, Phase
  <2> QED BY <2>1
<1>2. Safe /\ Safe' /\ [Next]_vars => [RR!Next]_([u \in Users |-> Phase(u)])
  <2> SUFFICES ASSUME Safe, Safe', [Next]_vars PROVE RR!Next \/ \A v \in Users : Phase(v)' = Phase(v)
    BY NoPhaseMoves
  <2>1. CASE UNCHANGED vars
    BY <2>1 DEF vars, clientVars, Phase, FdOf
  <2>2. ASSUME NEW u \in Users, Client(u) PROVE RR!Next \/ \A v \in Users : Phase(v)' = Phase(v)
    BY <2>2, ClientMoves DEF RR!Next
  <2>3. ASSUME NEW t \in Slaves, Slave(t) PROVE RR!Next \/ \A v \in Users : Phase(v)' = Phase(v)
    <3>1. CASE Answer(t)
      BY <2>3, <3>1, AnswerMoves DEF RR!Next
    <3>2. CASE ~Answer(t)
      BY <2>3, <3>2, SlaveStays
    <3> QED BY <3>1, <3>2
  <2> QED BY <2>1, <2>2, <2>3 DEF Next
<1> QED BY <1>1, <1>2, SafeInvariant, PTL DEF Spec, RR!InOrder
=============================================================================
