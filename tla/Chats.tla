------------------------------- MODULE Chats -------------------------------
(***************************************************************************)
(* Groups, private chats and messages: the tables _Chat, _Chat_User and    *)
(* _Message, the files kept beside them, and the handlers of queries.c     *)
(* that use them, run by several slaves at once.                           *)
(*                                                                         *)
(* A call of exec_query is one step, and nothing protects a handler        *)
(* between two of them.  How users get online is reduced to the query that *)
(* changes the row (Sessions is the module about it).  What is sent to the *)
(* receivers of a message is left out: here a message is delivered when it *)
(* is where exec_getprevmsgs or exec_getfile find it.  Names of files are  *)
(* left out too; none is a number (a file is copied under its name into    *)
(* the directory of the numbers).                                          *)
(*                                                                         *)
(* terminate_db comes in the middle of the handlers.  From then on a query *)
(* that writes is skipped and reported as done, and one that reads fails   *)
(* and leaves its result as it was; the handlers look at neither.  A query *)
(* that has tested the flag before counts as made before.                  *)
(***************************************************************************)
EXTENDS Integers, Sequences, FiniteSets

CONSTANTS
    UserNames,         \* the names clients register with
    GroupNames,        \* the names clients give to groups
    Fds,               \* descriptors of the connections, all open
    Slaves,            \* the pool of threads
    DISCONNECTED_FD,   \* curr_fd of a registered user who is offline
    Absent,            \* the name has no row in _User
    NoName,            \* NULL: the chat_name and the creator of a private chat
    Garbage,           \* what an entry of a name list holds that was not filled in
    OtherRow,          \* the number of a row of _User or _Chat_User, any of RowIds
    RowIds,
    ClientOps,         \* the operations clients send
    MaxRequests,       \* bound: requests served
    MayStop            \* bound: whether the server is stopped at all

Names == UserNames \cup GroupNames

RequestOps == {"REGISTER_OP", "UNREGISTER_OP", "CREATEGROUP_OP", "ADDGROUP_OP",
               "DELGROUP_OP", "UNREGISTER_GROUP", "POSTTXT_OP", "POSTFILE_OP",
               "POSTTXTALL_OP", "GETFILE_OP"}

ASSUME NamesAssumption    == IsFiniteSet(Names) /\ {NoName, Garbage} \cap Names = {}
ASSUME FdsAssumption      == DISCONNECTED_FD \notin Fds /\ Absent \notin Fds
ASSUME AbsentAssumption   == Absent # DISCONNECTED_FD
ASSUME OpsAssumption      == ClientOps \subseteq RequestOps
ASSUME RowsAssumption     == RowIds \subseteq Nat /\ OtherRow \notin Nat
ASSUME RequestsAssumption == MaxRequests \in Nat /\ MayStop \in BOOLEAN

VARIABLES
    curr_fd,    \* the table _User: a descriptor, DISCONNECTED_FD or Absent
    chats,      \* the tables _Chat and _Chat_User: chats[id] with its users
    messages,   \* the table _Message and the files, saved under the message_id
    last,       \* sqlite3_last_insert_rowid of the connection of slave t
    terminate_queries,
    pc,         \* the query slave t is about to make
    work,       \* the request slave t serves
    own,        \* the local variables of its handler
    requests    \* requests so far, bounded by MaxRequests

tables == <<curr_fd, chats, messages, last>>
vars == <<tables, terminate_queries, pc, work, own, requests>>

NoWork == [op |-> "none", fd |-> DISCONNECTED_FD, sender |-> NoName, receiver |-> NoName]

(***************************************************************************)
(* chat     the chat_id found or created                                   *)
(* n        the number of rows counted for a list                          *)
(* no_fd    the number of users online counted for a message to everybody  *)
(* list     the users a private message is still to be posted to           *)
(* partner  the one it is being posted to                                  *)
(* id       the number of the file posted or asked for                     *)
(* astray   history: that number is not the one of the message posted      *)
(* result   the answer                                                     *)
(* gone     history: users unregistered since the request began            *)
(***************************************************************************)
Fresh == [chat |-> 0, n |-> 0, no_fd |-> 0, list |-> {}, partner |-> NoName,
          id |-> 0, astray |-> FALSE, result |-> "OP_NOOP", gone |-> {}]

Init ==
    /\ curr_fd \in [UserNames -> Fds \cup {DISCONNECTED_FD, Absent}]
    /\ chats = <<>> /\ messages = <<>>
    /\ last = [t \in Slaves |-> 0]
    /\ terminate_queries = FALSE
    /\ pc = [t \in Slaves |-> "idle"]
    /\ work = [t \in Slaves |-> NoWork]
    /\ own = [t \in Slaves |-> Fresh]
    /\ requests = 0

Registered == {u \in UserNames : curr_fd[u] # Absent}
Online     == {u \in UserNames : curr_fd[u] \in Fds}
Group(g)   == {c \in DOMAIN chats : chats[c].name = g}

\* Mutant of PrivateChats: the query does not ask for chat_name IS NULL.
AnyChats(u, v) == {c \in DOMAIN chats : {u, v} \subseteq chats[c].users}

PrivateChats(u, v) ==
    {c \in DOMAIN chats : chats[c].name = NoName /\ {u, v} \subseteq chats[c].users}

Sender(t)   == work[t].sender
Receiver(t) == work[t].receiver

\* Slave t goes on to query l, with its local variables set to o.
Go(t, l, o) == pc' = [pc EXCEPT ![t] = l] /\ own' = [own EXCEPT ![t] = o]
Reply(t, r) == Go(t, "answer", [own[t] EXCEPT !.result = r])

\* The process ends by what slave t does, with every thread in it.
Exit(t, l) == pc' = [s \in Slaves |-> IF s = t THEN l ELSE "exited"] /\ UNCHANGED own
\* The INSERT of slave t made row number i.
Inserted(t, i) == last' = [last EXCEPT ![t] = i]

Up == \A t \in Slaves : pc[t] \notin {"crashed", "exited"}

-----------------------------------------------------------------------------
(* The users, and the requests.                                            *)

\* exec_connectuser and exec_disconnectuser, for other requests.
GoOnline(u, fd) ==
    /\ Up /\ ~terminate_queries
    /\ requests < MaxRequests
    /\ curr_fd[u] = DISCONNECTED_FD
    /\ curr_fd' = [curr_fd EXCEPT ![u] = fd]
    /\ requests' = requests + 1
    /\ UNCHANGED <<chats, messages, last, terminate_queries, pc, work, own>>

Disconnected(fd) == [u \in UserNames |-> IF curr_fd[u] = fd THEN DISCONNECTED_FD ELSE curr_fd[u]]

GoOffline(fd) ==
    /\ Up /\ ~terminate_queries
    /\ requests < MaxRequests
    /\ \E u \in UserNames : curr_fd[u] = fd
    /\ curr_fd' = Disconnected(fd)
    /\ requests' = requests + 1
    /\ UNCHANGED <<chats, messages, last, terminate_queries, pc, work, own>>

\* What the receiver of a request can be.
Receivers(o) ==
    CASE o \in {"CREATEGROUP_OP", "ADDGROUP_OP", "DELGROUP_OP", "UNREGISTER_GROUP"} -> GroupNames
      [] o \in {"POSTTXT_OP", "POSTFILE_OP"} -> Names
      [] OTHER -> {NoName}

\* The critical zone keeps request o of fd out while another slave works for fd.
Refused(o, fd) ==
    \E s \in Slaves :
        /\ work[s].fd = fd
        /\ o = "UNREGISTER_OP" \/ (o # "REGISTER_OP" /\ work[s].op = "REGISTER_OP")

FirstQuery(o, sender, receiver) ==
    CASE o \in {"REGISTER_OP", "CREATEGROUP_OP"} -> "checkexistname"
      [] o = "UNREGISTER_OP" -> "removeuser"
      [] o \in {"ADDGROUP_OP", "DELGROUP_OP"} -> "checkexistinggroup"
      [] o = "UNREGISTER_GROUP" -> "getgroupowner"
      [] o \in {"POSTTXT_OP", "POSTFILE_OP"} -> "getuserfd"
      [] o = "POSTTXTALL_OP" -> "getnumberonlineuser"
      [] o = "GETFILE_OP" -> "getfile"

\* A message to oneself is refused before any query.
Begin(t) ==
    /\ pc[t] = "idle"
    /\ requests < MaxRequests
    /\ requests' = requests + 1
    /\ \E o \in ClientOps, fd \in Fds, s \in UserNames : \E r \in Receivers(o) :
          /\ o = "REGISTER_OP" \/ curr_fd[s] = fd
          /\ ~Refused(o, fd)
          /\ work' = [work EXCEPT ![t] = [op |-> o, fd |-> fd, sender |-> s, receiver |-> r]]
          /\ IF o \in {"POSTTXT_OP", "POSTFILE_OP"} /\ s = r
             THEN Reply(t, "OP_FAIL")
             ELSE Go(t, FirstQuery(o, s, r), own[t])
    /\ UNCHANGED <<tables, terminate_queries>>

\* The answer, and the end of the request; the queue was closed before the database,
\* and the slave ends if it finds it so.
Answer(t) ==
    /\ pc[t] = "answer"
    /\ work' = [work EXCEPT ![t] = NoWork]
    /\ IF terminate_queries THEN Go(t, "stopped", own[t]) ELSE Go(t, "idle", Fresh)
    /\ UNCHANGED <<tables, requests, terminate_queries>>

\* terminate_db, called by stop_core before it joins the slaves.
Terminate ==
    /\ MayStop /\ Up /\ ~terminate_queries
    /\ terminate_queries' = TRUE
    /\ UNCHANGED <<tables, pc, work, own, requests>>

-----------------------------------------------------------------------------
(* The names.                                                              *)

\* exec_checkexistname counts the pairs of a user and a chat of which either has
\* the name.
NameFound(n) == \E u \in Registered, c \in DOMAIN chats : u = n \/ chats[c].name = n

CheckExistName(t) ==
    LET registers == work[t].op = "REGISTER_OP"
        taken == NameFound(IF registers THEN Sender(t) ELSE Receiver(t))
    IN  /\ pc[t] = "checkexistname" /\ ~terminate_queries
        /\ \/ /\ taken /\ registers
              /\ Go(t, "disconnectuser", [own[t] EXCEPT !.result = "OP_NICK_ALREADY"])
           \/ taken /\ ~registers /\ Reply(t, "OP_NICK_ALREADY")
           \/ ~taken /\ Go(t, IF registers THEN "insertuser" ELSE "creategroup", own[t])
        /\ UNCHANGED <<tables, work, requests, terminate_queries>>

\* manage_insertuser, the insertion: the name is the primary key.
InsertUser(t) ==
    LET free == curr_fd[Sender(t)] = Absent
    IN  /\ pc[t] = "insertuser" /\ ~terminate_queries
        /\ curr_fd' = IF free THEN [curr_fd EXCEPT ![Sender(t)] = work[t].fd] ELSE curr_fd
        /\ last' = IF free THEN [last EXCEPT ![t] = OtherRow] ELSE last
        /\ Go(t, "disconnectuser",
              [own[t] EXCEPT !.result = IF free THEN "OP_OK" ELSE "OP_NICK_ALREADY"])
        /\ UNCHANGED <<chats, messages, work, requests, terminate_queries>>

\* manage_disconnectuser, at the end of a registration (MAKE_TEST_HAPPY).
DisconnectUser(t) ==
    /\ pc[t] = "disconnectuser" /\ ~terminate_queries
    /\ curr_fd' = Disconnected(work[t].fd)
    /\ Go(t, "answer", own[t])
    /\ UNCHANGED <<chats, messages, last, work, requests, terminate_queries>>

Renamed(m, u) ==
    [m EXCEPT !.sent_by = IF @ = u THEN "#deleted_user" ELSE @, !.parties = @ \ {u}]

\* exec_removeuser: the user, its memberships, its name in the messages.
RemoveUser(t) ==
    LET u == Sender(t)
    IN  /\ pc[t] = "removeuser" /\ ~terminate_queries
        /\ curr_fd' = [curr_fd EXCEPT ![u] = Absent]
        /\ chats' = [c \in DOMAIN chats |-> [chats[c] EXCEPT !.users = @ \ {u}]]
        /\ messages' = [i \in DOMAIN messages |-> Renamed(messages[i], u)]
        /\ pc' = [pc EXCEPT ![t] = "answer"]
        /\ own' = [s \in Slaves |->
                      IF s = t THEN [own[s] EXCEPT !.result = "OP_OK"]
                      ELSE IF pc[s] = "idle" THEN own[s]
                      ELSE [own[s] EXCEPT !.gone = @ \cup {u}]]
        /\ UNCHANGED <<last, work, requests, terminate_queries>>

-----------------------------------------------------------------------------
(* The groups.                                                             *)

NewChat(t, name, creator) ==
    /\ chats' = Append(chats, [name |-> name, creator |-> creator, users |-> {}])
    /\ Inserted(t, Len(chats) + 1)

CreateGroup(t) ==
    /\ pc[t] = "creategroup" /\ ~terminate_queries
    /\ \/ /\ Group(Receiver(t)) = {}
          /\ NewChat(t, Receiver(t), Sender(t))
          /\ Go(t, "insertsender", [own[t] EXCEPT !.chat = Len(chats) + 1])
       \/ /\ Group(Receiver(t)) # {}
          /\ Reply(t, "OP_FAIL")
          /\ UNCHANGED <<chats, last>>
    /\ UNCHANGED <<curr_fd, messages, work, requests, terminate_queries>>

\* exec_checkexistinggroup, in the three handlers that begin with it or fall
\* back on it.
CheckExistingGroup(t) ==
    LET o == work[t].op
    IN  /\ pc[t] = "checkexistinggroup" /\ ~terminate_queries
        /\ \/ /\ Group(Receiver(t)) = {}
              /\ Reply(t, IF o = "DELGROUP_OP" THEN "OP_NICK_UNKNOWN" ELSE "OP_FAIL")
           \/ \E c \in Group(Receiver(t)) :
                 Go(t, IF o = "ADDGROUP_OP" THEN "insertsender" ELSE "getnumberonlineusergroup",
                    [own[t] EXCEPT !.chat = c])
        /\ UNCHANGED <<tables, work, requests, terminate_queries>>

OnlineIn(c) == chats[c].users \cap Online

\* exec_getonlineuser_in_group, the query that sizes the vector.
CountOnlineInGroup(t) ==
    LET n == Cardinality(OnlineIn(own[t].chat))
    IN  /\ pc[t] = "getnumberonlineusergroup" /\ ~terminate_queries
        /\ \/ /\ n = 0
              /\ Reply(t, IF work[t].op = "DELGROUP_OP" THEN "OP_FAIL" ELSE "OP_NICK_UNKNOWN")
           \/ n > 0 /\ Go(t, "getonlineuser_in_group", [own[t] EXCEPT !.n = n])
        /\ UNCHANGED <<tables, work, requests, terminate_queries>>

AfterMember(t) == CASE work[t].op = "DELGROUP_OP" -> "removeuser_from_group"
                    [] work[t].op = "POSTTXT_OP"  -> "insertmessage"
                    [] work[t].op = "POSTFILE_OP" -> "postfile"

\* The query that fills it, and the search for the descriptor of the request.  An
\* entry that is not filled in can hold anything; rows that do not fit are lost.
FindInGroup(t) ==
    LET rows == OnlineIn(own[t].chat)
        here == {u \in rows : curr_fd[u] = work[t].fd}
    IN  /\ pc[t] = "getonlineuser_in_group" /\ ~terminate_queries
        /\ \/ /\ here # {} \/ Cardinality(rows) < own[t].n
              /\ Go(t, AfterMember(t), own[t])
           \/ /\ here = {} \/ Cardinality(rows \ here) >= own[t].n
              /\ Reply(t, "OP_NICK_UNKNOWN")
        /\ UNCHANGED <<tables, work, requests, terminate_queries>>

RemoveFromGroup(t) ==
    LET c == own[t].chat
    IN  /\ pc[t] = "removeuser_from_group" /\ ~terminate_queries
        /\ chats' = [chats EXCEPT ![c].users = @ \ {Sender(t)}]
        /\ messages' = [i \in DOMAIN messages |->
                           IF messages[i].chat = c /\ messages[i].sent_by = Sender(t)
                           THEN [messages[i] EXCEPT !.sent_by = "#user_no_more_in_group"]
                           ELSE messages[i]]
        /\ Reply(t, "OP_OK")
        /\ UNCHANGED <<curr_fd, last, work, requests, terminate_queries>>

\* exec_delgroup: if there is no such group the name compared is what happens to
\* be in the buffer.
GetGroupOwner(t) ==
    LET g == Group(Receiver(t))
    IN  /\ pc[t] = "getgroupowner" /\ ~terminate_queries
        /\ \/ /\ \A c \in g : chats[c].creator = Sender(t)
              /\ Go(t, "delgroup", own[t])
           \/ /\ \A c \in g : chats[c].creator # Sender(t)
              /\ Reply(t, "OP_FAIL")
        /\ UNCHANGED <<tables, work, requests, terminate_queries>>

\* The statement is not one that SQLite accepts; exec_query ends the process.
DelGroup(t) ==
    /\ pc[t] = "delgroup" /\ ~terminate_queries
    /\ Exit(t, "crashed")
    /\ UNCHANGED <<tables, work, requests, terminate_queries>>

-----------------------------------------------------------------------------
(* The messages.                                                           *)

GetUserFd(t) ==
    /\ pc[t] = "getuserfd" /\ ~terminate_queries
    /\ IF Receiver(t) \in Registered
       THEN Go(t, "checkexistingchat", [own[t] EXCEPT !.list = {Receiver(t)}])
       ELSE Go(t, "checkexistinggroup", own[t])
    /\ UNCHANGED <<tables, work, requests, terminate_queries>>

\* manage_postmessage, a message to everybody: exec_getonlineuserfd, of which only
\* the number matters here ...
GetNumberOnlineUser(t) ==
    /\ pc[t] = "getnumberonlineuser" /\ ~terminate_queries
    /\ Go(t, "gettotaluser", [own[t] EXCEPT !.no_fd = Cardinality(Online)])
    /\ UNCHANGED <<tables, work, requests, terminate_queries>>

\* ... and exec_getallusername.  With nobody else registered the vector returned
\* is NULL, and the slave reads its second entry if no_fd says there is one.
GetTotalUser(t) ==
    LET n == Cardinality(Registered)
    IN  /\ pc[t] = "gettotaluser" /\ ~terminate_queries
        /\ \/ n > 1 /\ Go(t, "getallusername", [own[t] EXCEPT !.n = n])
           \/ n <= 1 /\ own[t].no_fd <= 1 /\ Reply(t, "OP_OK")
           \/ n <= 1 /\ own[t].no_fd > 1 /\ Exit(t, "crashed")
        /\ UNCHANGED <<tables, work, requests, terminate_queries>>

Smaller(a, b) == IF a < b THEN a ELSE b

GetAllUserName(t) ==
    /\ pc[t] = "getallusername" /\ ~terminate_queries
    /\ \E S \in SUBSET Registered :
          /\ Cardinality(S) = Smaller(own[t].n, Cardinality(Registered))
          /\ LET unfilled == IF Cardinality(S) < own[t].n THEN {Garbage} ELSE {}
             IN  Go(t, "checkexistingchat",
                    [own[t] EXCEPT !.list = (S \cup unfilled) \ {Sender(t)}])
    /\ UNCHANGED <<tables, work, requests, terminate_queries>>

AfterChat(t) == IF work[t].op = "POSTFILE_OP" THEN "postfile" ELSE "insertmessage"

\* Mutant of CheckExistingChat: the test for GETLONG_ERROR is missing.
CheckExistingChatUnchecked(t) ==
    /\ pc[t] = "checkexistingchat" /\ ~terminate_queries
    /\ \E p \in own[t].list : \E c \in PrivateChats(Sender(t), p) \cup {0} :
          Go(t, AfterChat(t), [own[t] EXCEPT !.partner = p, !.list = @ \ {p}, !.chat = c])
    /\ UNCHANGED <<tables, work, requests, terminate_queries>>

\* One turn of the loop over the users: the chat with this one, which the last
\* row found decides.
CheckExistingChat(t) ==
    /\ pc[t] = "checkexistingchat" /\ ~terminate_queries
    /\ \E p \in own[t].list :
          LET o == [own[t] EXCEPT !.partner = p, !.list = @ \ {p}]
          IN  \/ /\ PrivateChats(Sender(t), p) = {}
                 /\ Go(t, "createchat", o)
              \/ \E c \in PrivateChats(Sender(t), p) :
                    Go(t, AfterChat(t), [o EXCEPT !.chat = c])
    /\ UNCHANGED <<tables, work, requests, terminate_queries>>

CreateChat(t) ==
    /\ pc[t] = "createchat" /\ ~terminate_queries
    /\ NewChat(t, NoName, NoName)
    /\ Go(t, "insertsender", [own[t] EXCEPT !.chat = Len(chats) + 1])
    /\ UNCHANGED <<curr_fd, messages, work, requests, terminate_queries>>

\* A row of _Chat_User, unless there is one already.
JoinChat(t, u, c) ==
    /\ chats' = [chats EXCEPT ![c].users = @ \cup {u}]
    /\ IF u \in chats[c].users THEN UNCHANGED last ELSE Inserted(t, OtherRow)

AfterSender(t) ==
    IF work[t].op \in {"CREATEGROUP_OP", "ADDGROUP_OP"}
    THEN Reply(t, "OP_OK")
    ELSE Go(t, "insertreceiver", own[t])

\* exec_insert_user_in_chat.  Only manage_addtogroup looks at its result.
InsertSender(t) ==
    LET c == own[t].chat
    IN  /\ pc[t] = "insertsender" /\ ~terminate_queries
        /\ JoinChat(t, Sender(t), c)
        /\ \/ /\ work[t].op = "ADDGROUP_OP" /\ Sender(t) \in chats[c].users
              /\ Reply(t, "OP_NICK_ALREADY")
           \/ /\ work[t].op = "ADDGROUP_OP" => Sender(t) \notin chats[c].users
              /\ AfterSender(t)
        /\ UNCHANGED <<curr_fd, messages, work, requests, terminate_queries>>

\* Mutant of InsertReceiver: the chat is left to its first message.
InsertNobody(t) ==
    /\ pc[t] = "insertreceiver" /\ ~terminate_queries
    /\ Go(t, AfterChat(t), own[t])
    /\ UNCHANGED <<tables, work, requests, terminate_queries>>

InsertReceiver(t) ==
    /\ pc[t] = "insertreceiver" /\ ~terminate_queries
    /\ JoinChat(t, own[t].partner, own[t].chat)
    /\ Go(t, AfterChat(t), own[t])
    /\ UNCHANGED <<curr_fd, messages, work, requests, terminate_queries>>

(***************************************************************************)
(* A row of _Message.  `file` is what the file with its number is:         *)
(* text     the message is no file                                         *)
(* missing  there is none, and cannot be opened                            *)
(* locked   made, empty, and without permissions                           *)
(* empty    made or truncated                                              *)
(* whole    the data of the message                                        *)
(* cut      the beginning of them                                          *)
(* alien    the data of another message, or of the two                     *)
(* The rest is history: who a private message is between, which of them    *)
(* have not unregistered since it was posted, and whether one did while it *)
(* was being posted.                                                       *)
(***************************************************************************)
Files == {"text", "missing", "locked", "empty", "whole", "cut", "alien"}

NewMessage(t, file) ==
    LET o == own[t]
        between == IF o.partner = NoName THEN {} ELSE {Sender(t), o.partner}
    IN  /\ messages' = Append(messages,
               [file |-> file, sent_by |-> Sender(t), chat |-> o.chat, between |-> between,
                parties |-> between \ o.gone, raced |-> between \cap o.gone # {}])
        /\ Inserted(t, Len(messages) + 1)

AfterMessage(t) ==
    IF own[t].list = {} THEN Reply(t, "OP_OK") ELSE Go(t, "checkexistingchat", own[t])

InsertMessage(t) ==
    /\ pc[t] = "insertmessage" /\ ~terminate_queries
    /\ NewMessage(t, "text")
    /\ AfterMessage(t)
    /\ UNCHANGED <<curr_fd, chats, work, requests, terminate_queries>>

\* exec_postfile, and sqlite3_last_insert_rowid.
PostFile(t) ==
    /\ pc[t] = "postfile" /\ ~terminate_queries
    /\ NewMessage(t, "missing")
    /\ Go(t, "creat", [own[t] EXCEPT !.id = Len(messages) + 1])
    /\ UNCHANGED <<curr_fd, chats, work, requests, terminate_queries>>

\* A number under which no message was posted as a file may be that of a file too.
FileOf(i) == IF i \in DOMAIN messages THEN messages[i].file ELSE "text"

Saved(i, file) ==
    messages' = IF FileOf(i) = "text" THEN messages ELSE [messages EXCEPT ![i].file = file]

\* creat makes a file that only root can open again, or truncates one.
Creat(t) ==
    LET file == FileOf(own[t].id)
    IN  /\ pc[t] = "creat"
        /\ \/ /\ Saved(own[t].id, IF file \in {"missing", "locked"} THEN "locked" ELSE "empty")
              /\ Go(t, "fchmod", own[t])
           \/ /\ file \in {"locked", "text"}
              /\ Exit(t, "crashed")
              /\ UNCHANGED messages
        /\ UNCHANGED <<curr_fd, chats, last, work, requests, terminate_queries>>

Fchmod(t) ==
    LET file == FileOf(own[t].id)
    IN  /\ pc[t] = "fchmod"
        /\ Saved(own[t].id, IF file = "locked" THEN "empty" ELSE file)
        /\ Go(t, "write", own[t])
        /\ UNCHANGED <<curr_fd, chats, last, work, requests, terminate_queries>>

\* Mutant of WriteFile: the name of the file is the newest message_id.
WriteNewestFile(t) ==
    /\ pc[t] = "write"
    /\ Saved(Len(messages), "whole")
    /\ Reply(t, "OP_OK")
    /\ UNCHANGED <<curr_fd, chats, last, work, requests, terminate_queries>>

\* What a write leaves; shorter data of the right message over those of another
\* leave the end of these.
Written(t) ==
    IF own[t].astray THEN {"alien"}
    ELSE {"whole", "cut"} \cup ({FileOf(own[t].id)} \cap {"alien"})

\* A write of a part is taken for a success.  One of nothing is an error, and so is
\* that of a file without data: it ends the process.
WriteFile(t) ==
    /\ pc[t] = "write"
    /\ \/ \E file \in Written(t) : Saved(own[t].id, file) /\ Reply(t, "OP_OK")
       \/ Exit(t, "crashed") /\ UNCHANGED messages
    /\ UNCHANGED <<curr_fd, chats, last, work, requests, terminate_queries>>

\* exec_getfile: a file of that name (they all have one here) in a chat of the
\* user; rows of the same second come in any order.
GetFile(t) ==
    LET found == {i \in DOMAIN messages : /\ messages[i].file # "text"
                                          /\ Sender(t) \in chats[messages[i].chat].users}
    IN  /\ pc[t] = "getfile" /\ ~terminate_queries
        /\ \/ found = {} /\ Reply(t, "OP_NO_SUCH_FILE")
           \/ \E i \in found : Go(t, "open", [own[t] EXCEPT !.id = i])
        /\ UNCHANGED <<tables, work, requests, terminate_queries>>

\* The file is opened, measured, and closed with its stream; the read that follows
\* fails, and the buffer keeps the zeros it was filled with.  A file that cannot
\* be opened ends the process; root can open one without permissions.
OpenFile(t) ==
    LET file == messages[own[t].id].file
    IN  /\ pc[t] = "open"
        /\ \/ /\ file \in {"missing", "locked"}
              /\ Exit(t, "crashed")
           \/ /\ file # "missing"
              /\ Reply(t, "OP_OK")
        /\ UNCHANGED <<tables, work, requests, terminate_queries>>

-----------------------------------------------------------------------------
(* The queries after terminate_db.                                         *)

\* The row number sqlite3_last_insert_rowid gives if nothing is inserted before.
LastRows(t) == IF last[t] = OtherRow THEN RowIds ELSE {last[t]}

\* exec_query does not execute a statement that writes, and returns SQLITE_OK.  The
\* chat_id of a chat that was not made is that of some row, and not used any more.
SkippedWrite(t) ==
    /\ terminate_queries
    /\ \/ /\ pc[t] = "insertuser"
          /\ Go(t, "disconnectuser", [own[t] EXCEPT !.result = "OP_OK"])
       \/ pc[t] = "disconnectuser" /\ Go(t, "answer", own[t])
       \/ pc[t] \in {"removeuser", "removeuser_from_group", "delgroup"} /\ Reply(t, "OP_OK")
       \/ pc[t] \in {"creategroup", "createchat"} /\ Go(t, "insertsender", own[t])
       \/ pc[t] = "insertsender" /\ AfterSender(t)
       \/ pc[t] = "insertreceiver" /\ Go(t, AfterChat(t), own[t])
       \/ pc[t] = "insertmessage" /\ AfterMessage(t)
       \/ /\ pc[t] = "postfile"
          /\ \E i \in LastRows(t) :
                Go(t, "creat", [own[t] EXCEPT !.id = i, !.astray = TRUE])
    /\ UNCHANGED <<tables, work, requests, terminate_queries>>

\* One that reads leaves the result as it was, which is GETLONG_ERROR for some and
\* not initialised for others; a vector may then be of any size, and too large.
FailedRead(t) ==
    LET o == own[t]
        op == work[t].op
    IN  /\ terminate_queries
        /\ \/ /\ pc[t] = "checkexistname" /\ op = "REGISTER_OP"
              /\ \/ Go(t, "insertuser", o)
                 \/ Go(t, "disconnectuser", [o EXCEPT !.result = "OP_NICK_ALREADY"])
           \/ pc[t] = "checkexistname" /\ op # "REGISTER_OP" /\ Reply(t, "OP_NICK_ALREADY")
           \/ /\ pc[t] = "checkexistinggroup"
              /\ Reply(t, IF op = "DELGROUP_OP" THEN "OP_NICK_UNKNOWN" ELSE "OP_FAIL")
           \/ /\ pc[t] = "getnumberonlineusergroup"
              /\ \/ Reply(t, IF op = "DELGROUP_OP" THEN "OP_FAIL" ELSE "OP_NICK_UNKNOWN")
                 \/ Go(t, "getonlineuser_in_group", o)
           \/ /\ pc[t] = "getonlineuser_in_group"
              /\ Go(t, AfterMember(t), o) \/ Reply(t, "OP_NICK_UNKNOWN")
           \/ pc[t] = "getgroupowner" /\ (Go(t, "delgroup", o) \/ Reply(t, "OP_FAIL"))
           \/ pc[t] = "getuserfd" /\ Go(t, "checkexistinggroup", o)
           \/ /\ pc[t] = "getnumberonlineuser"
              /\ \E n \in 0 .. 2 : Go(t, "gettotaluser", [o EXCEPT !.no_fd = n])
           \/ /\ pc[t] = "gettotaluser"
              /\ \/ Go(t, "getallusername", o)
                 \/ o.no_fd <= 1 /\ Reply(t, "OP_OK")
           \/ pc[t] = "getallusername" /\ Go(t, "checkexistingchat", [o EXCEPT !.list = {Garbage}])
           \/ /\ pc[t] = "checkexistingchat"
              /\ \E p \in o.list :
                    Go(t, "createchat", [o EXCEPT !.partner = p, !.list = @ \ {p}])
           \/ pc[t] = "getfile" /\ Reply(t, "OP_NO_SUCH_FILE")
           \/ /\ pc[t] \in {"getnumberonlineusergroup", "getnumberonlineuser", "gettotaluser"}
              /\ Exit(t, "crashed")
        /\ UNCHANGED <<tables, work, requests, terminate_queries>>

-----------------------------------------------------------------------------

Slave(t) ==
    \/ Begin(t) \/ Answer(t)
    \/ CheckExistName(t) \/ InsertUser(t) \/ DisconnectUser(t) \/ RemoveUser(t)
    \/ CreateGroup(t) \/ CheckExistingGroup(t) \/ CountOnlineInGroup(t) \/ FindInGroup(t)
    \/ RemoveFromGroup(t) \/ GetGroupOwner(t) \/ DelGroup(t)
    \/ GetUserFd(t) \/ GetNumberOnlineUser(t) \/ GetTotalUser(t) \/ GetAllUserName(t)
    \/ CheckExistingChat(t) \/ CreateChat(t) \/ InsertSender(t) \/ InsertReceiver(t)
    \/ InsertMessage(t) \/ PostFile(t) \/ Creat(t) \/ Fchmod(t) \/ WriteFile(t)
    \/ GetFile(t) \/ OpenFile(t)
    \/ SkippedWrite(t) \/ FailedRead(t)

Next ==
    \/ \E fd \in Fds : GoOffline(fd) \/ \E u \in UserNames : GoOnline(u, fd)
    \/ \E t \in Slaves : Slave(t)
    \/ Terminate

Spec == Init /\ [][Next]_vars

-----------------------------------------------------------------------------
(* Correctness.                                                            *)

PCs == {"idle", "answer", "checkexistname", "insertuser", "disconnectuser", "removeuser",
        "creategroup", "checkexistinggroup", "getnumberonlineusergroup",
        "getonlineuser_in_group", "removeuser_from_group", "getgroupowner", "delgroup",
        "getuserfd", "getnumberonlineuser", "gettotaluser", "getallusername",
        "checkexistingchat", "createchat", "insertsender", "insertreceiver",
        "insertmessage", "postfile", "creat", "fchmod", "write", "getfile", "open",
        "stopped", "crashed", "exited"}

TypeOK ==
    /\ curr_fd \in [UserNames -> Fds \cup {DISCONNECTED_FD, Absent}]
    /\ \A c \in DOMAIN chats :
          /\ chats[c].name \in Names \cup {NoName}
          /\ chats[c].creator \in Names \cup {NoName}
          /\ chats[c].users \subseteq Names \cup {Garbage}
    /\ \A i \in DOMAIN messages :
          messages[i].file \in Files /\ messages[i].chat \in DOMAIN chats
    /\ last \in [Slaves -> Nat \cup {OtherRow}]
    /\ terminate_queries \in BOOLEAN
    /\ pc \in [Slaves -> PCs]
    /\ \A t \in Slaves :
          /\ own[t].chat \in 0 .. Len(chats)
          /\ own[t].id \in Nat /\ own[t].astray \in BOOLEAN
          /\ own[t].list \subseteq Names \cup {Garbage}

\* What exec_getprevmsgs and exec_getfile give to u.
Readable(u) == {i \in DOMAIN messages : /\ messages[i].sent_by # u
                                        /\ u \in chats[messages[i].chat].users}

\* A private message that was accepted is found by its receiver, whatever other
\* chats of the two are being made at the same time, unless the receiver has
\* unregistered since it was sent (queries.c:658-689).
PostedReadable ==
    \A i \in DOMAIN messages :
        \A u \in messages[i].parties : u # messages[i].sent_by => i \in Readable(u)

\* ... and by nobody else: not by a member of some group, and not by whoever takes
\* the name of an unregistered party later, unless the party unregistered in the
\* middle of the handler (queries.h:260-265, 516-528).
PrivatelyRead ==
    \A i \in DOMAIN messages :
        LET m == messages[i]
        IN  m.between # {} =>
                /\ chats[m.chat].name = NoName
                /\ chats[m.chat].users \subseteq (IF m.raced THEN m.between ELSE m.parties)

\* A file that can be asked for was written under its own number and by its own
\* message, if perhaps cut short, or the slave that posts it is about to write it.
\* The exception is the number of a message that a slave took for that of its own,
\* whose row terminate_db kept out (queries.c:701-738, 236-241): since the slave
\* ends with that request, this loses at most one file for each slave.
FilesSaved ==
    /\ \A t \in Slaves : own[t].astray => terminate_queries
    /\ Up => \A i \in DOMAIN messages :
          messages[i].file \in {"missing", "locked", "empty", "alien"} =>
              \E t \in Slaves :
                  own[t].id = i /\ (own[t].astray \/ pc[t] \in {"creat", "fchmod", "write"})

=============================================================================
