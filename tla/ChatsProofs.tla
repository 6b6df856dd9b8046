---------------------------- MODULE ChatsProofs ----------------------------
(***************************************************************************)
(* Proofs of the invariants of Chats, for any number of users, groups,     *)
(* connections and slaves, and whatever the slaves do between the queries  *)
(* of a handler.                                                           *)
(*                                                                         *)
(* That a private message is read by its parties and by nobody else is no  *)
(* invariant by itself.  It needs what the handlers know between their     *)
(* queries: a chat that a slave is still building is no other slave's      *)
(* (Built), a slave that is about to insert a message has its parties in   *)
(* the chat (Posted), and a user who unregisters in the meantime is taken  *)
(* from all of them at once.  The step of a slave is therefore proved in   *)
(* two halves: what it makes of the tables and of itself, and that it      *)
(* leaves the others what they were (OtherSlaves).                         *)
(*                                                                         *)
(* All of that (Safe) is lost when terminate_db comes in the middle of a   *)
(* handler; but then no row changes any more, and what was posted stays    *)
(* as it is (Lasting).  The files go on being written, and are followed    *)
(* through both (Astray, Kempt).                                           *)
(***************************************************************************)
EXTENDS Chats, FiniteSetTheorems, TLAPS

USE NamesAssumption, FdsAssumption, AbsentAssumption, OpsAssumption

-----------------------------------------------------------------------------
(* The invariants.                                                         *)

Parties == Names \cup {Garbage}

Chat == [name: Names \cup {NoName}, creator: Names \cup {NoName}, users: SUBSET Parties]

Message == [file: Files, sent_by: UserNames \cup {"#deleted_user", "#user_no_more_in_group"},
            chat: Nat, between: SUBSET Parties, parties: SUBSET Parties, raced: BOOLEAN]

Request == [op: RequestOps, fd: Fds, sender: UserNames, receiver: Names \cup {NoName}]

Results == {"OP_NOOP", "OP_OK", "OP_FAIL", "OP_NICK_ALREADY", "OP_NICK_UNKNOWN", "OP_NO_SUCH_FILE"}

Locals == [chat: Nat, n: Nat, no_fd: Nat, list: SUBSET Parties, partner: Parties \cup {NoName},
           id: Nat, astray: BOOLEAN, result: Results, gone: SUBSET UserNames]

Types ==
    /\ curr_fd \in [UserNames -> Fds \cup {DISCONNECTED_FD, Absent}]
    /\ chats \in Seq(Chat)
    /\ messages \in Seq(Message)
    /\ pc \in [Slaves -> PCs]
    /\ work \in [Slaves -> Request \cup {NoWork}]
    /\ own \in [Slaves -> Locals]
    /\ requests \in Nat

\* What refers to a chat refers to one there is, and, until terminate_db, what refers
\* to a message.
Linked ==
    /\ \A i \in DOMAIN messages : messages[i].chat \in DOMAIN chats
    /\ \A t \in Slaves : own[t].chat \in 0 .. Len(chats)

References == Linked /\ \A t \in Slaves : own[t].id \in 0 .. Len(messages)

PostOps == {"POSTTXT_OP", "POSTFILE_OP", "POSTTXTALL_OP"}

\* The requests a slave may have at each query.
OpsAt(l) ==
    CASE l = "checkexistname" -> {"REGISTER_OP", "CREATEGROUP_OP"}
      [] l \in {"insertuser", "disconnectuser"} -> {"REGISTER_OP"}
      [] l = "removeuser" -> {"UNREGISTER_OP"}
      [] l = "creategroup" -> {"CREATEGROUP_OP"}
      [] l = "checkexistinggroup" -> {"ADDGROUP_OP", "DELGROUP_OP", "POSTTXT_OP", "POSTFILE_OP"}
      [] l \in {"getnumberonlineusergroup", "getonlineuser_in_group"} ->
             {"DELGROUP_OP", "POSTTXT_OP", "POSTFILE_OP"}
      [] l = "removeuser_from_group" -> {"DELGROUP_OP"}
      [] l \in {"getgroupowner", "delgroup"} -> {"UNREGISTER_GROUP"}
      [] l = "getuserfd" -> {"POSTTXT_OP", "POSTFILE_OP"}
      [] l \in {"getnumberonlineuser", "gettotaluser", "getallusername"} -> {"POSTTXTALL_OP"}
      [] l \in {"checkexistingchat", "createchat", "insertreceiver"} -> PostOps
      [] l = "insertsender" -> PostOps \cup {"CREATEGROUP_OP", "ADDGROUP_OP"}
      [] l = "insertmessage" -> {"POSTTXT_OP", "POSTTXTALL_OP"}
      [] l \in {"postfile", "creat", "fchmod", "write"} -> {"POSTFILE_OP"}
      [] l \in {"getfile", "open"} -> {"GETFILE_OP"}
      [] l = "answer" -> RequestOps
      [] OTHER -> RequestOps \cup {"none"}

\* A request to a group names one, and the queries for a message to one name are
\* made for a message to somebody else.
Stage(t) ==
    /\ work[t].op \in OpsAt(pc[t])
    /\ work[t].op \in {"CREATEGROUP_OP", "ADDGROUP_OP", "DELGROUP_OP"} =>
          Receiver(t) \in GroupNames
    /\ work[t].op \in {"POSTTXT_OP", "POSTFILE_OP"} => Receiver(t) \in Names
    /\ pc[t] = "getuserfd" => Receiver(t) # Sender(t)
    /\ pc[t] = "idle" => own[t] = Fresh

Stages == \A t \in Slaves : Stage(t)

Builders == {t \in Slaves : pc[t] \in {"insertsender", "insertreceiver"} /\ work[t].op \in PostOps}
Posters  == {t \in Slaves : pc[t] \in {"insertmessage", "postfile"}}

Private(c) == chats[c].name = NoName
Of(t) == chats[own[t].chat]

\* What the handler knows between its queries.
Handler(t) ==
    /\ Sender(t) \notin own[t].list
    /\ pc[t] \in {"getuserfd", "checkexistinggroup", "getnumberonlineusergroup",
                  "getonlineuser_in_group"} => own[t].partner = NoName
    /\ pc[t] = "createchat" \/ t \in Builders => own[t].partner \in Parties
    /\ \/ pc[t] \in {"getnumberonlineusergroup", "getonlineuser_in_group",
                     "removeuser_from_group"}
       \/ pc[t] = "insertsender" /\ t \notin Builders
       => own[t].chat \in DOMAIN chats /\ ~Private(own[t].chat)
    /\ pc[t] \in {"creat", "fchmod", "write", "open"} => own[t].id \in DOMAIN messages

Handlers == \A t \in Slaves : Handler(t)

\* A private chat is of two users at most.
OfTwo == \A c \in DOMAIN chats :
            Private(c) => \E u, v \in Parties : chats[c].users \subseteq {u, v}

\* A chat being built is its slave's alone, and holds what its slave put there.
Builds(t) ==
    /\ own[t].chat \in DOMAIN chats /\ Private(own[t].chat)
    /\ pc[t] = "insertsender" => Of(t).users = {}
    /\ pc[t] = "insertreceiver" =>
          Of(t).users \subseteq {Sender(t)} /\ {Sender(t)} \ own[t].gone \subseteq Of(t).users
    /\ \A i \in DOMAIN messages : messages[i].chat # own[t].chat
    /\ \A s \in (Builders \cup Posters) \ {t} : own[s].chat # own[t].chat

Built == \A t \in Builders : Builds(t)

\* A message is posted to a chat of its two parties, those who have not unregistered
\* in the meantime.
Posts(t) ==
    /\ own[t].chat \in DOMAIN chats
    /\ own[t].partner # NoName =>
          /\ Private(own[t].chat)
          /\ Of(t).users \subseteq {Sender(t), own[t].partner}
          /\ {Sender(t), own[t].partner} \ own[t].gone \subseteq Of(t).users

Posted == \A t \in Posters : Posts(t)

\* ... and stays with them.
KeptPrivate(i) ==
    LET m == messages[i]
    IN  /\ m.parties \subseteq m.between /\ m.parties \subseteq chats[m.chat].users
        /\ m.between # {} =>
              /\ Private(m.chat)
              /\ chats[m.chat].users \subseteq (IF m.raced THEN m.between ELSE m.parties)

Kept == \A i \in DOMAIN messages : KeptPrivate(i)

\* The number of a row, or of one of another table.
Rows == last \in [Slaves -> Nat \cup {OtherRow}] /\ terminate_queries \in BOOLEAN

\* What stays true after terminate_db, ...
Lasting == Types /\ Linked /\ Stages /\ OfTwo /\ Kept

\* ... and what the handlers know before.
Safe == Types /\ References /\ Stages /\ Handlers /\ OfTwo /\ Built /\ Posted /\ Kept

\* A slave that took the number of another row is at its last request.
Astray ==
    \A t \in Slaves :
        own[t].astray => /\ terminate_queries
                         /\ pc[t] \in {"creat", "fchmod", "write", "answer", "stopped",
                                       "crashed", "exited"}

Holds(t, i) == own[t].id = i /\ (own[t].astray \/ pc[t] \in {"creat", "fchmod", "write"})

\* The files, with who is to blame for the data of another message.
Kempt ==
    \A i \in DOMAIN messages :
        /\ messages[i].file \in {"missing", "locked", "empty", "alien"} =>
              \E t \in Slaves : Holds(t, i)
        /\ messages[i].file = "alien" => \E t \in Slaves : own[t].id = i /\ own[t].astray

IInv == Lasting /\ (~terminate_queries => Safe) /\ Rows /\ Astray /\ (Up => Kempt)

-----------------------------------------------------------------------------
(* Requests, local variables and the tables.                               *)

\* A slave that is not idle serves a request.
LEMMA RequestFields ==
    ASSUME NEW t \in Slaves, Types, Stages
    PROVE  /\ work[t].op \in RequestOps \cup {"none"}
           /\ pc[t] \notin {"idle", "stopped", "crashed", "exited"} =>
                 work[t] \in Request /\ work[t].op \in RequestOps
                 /\ Sender(t) \in UserNames /\ work[t].fd \in Fds
<1>1. /\ work[t] \in Request \cup {NoWork} /\ pc[t] \in PCs /\ work[t].op \in OpsAt(pc[t])
      /\ NoWork.op = "none"
  BY DEF Types, Stages, Stage, NoWork
<1>2. pc[t] \notin {"idle", "stopped", "crashed", "exited"} => work[t].op # "none"
  BY <1>1 DEF OpsAt, RequestOps, PostOps, PCs
<1>3. work[t].op \in RequestOps \cup {"none"}
  BY <1>1 DEF Request
<1> QED BY <1>1, <1>2, <1>3 DEF Request, Sender

\* The assignments to local variables.
LEMMA SetChat ==
    ASSUME NEW o \in Locals, NEW v \in Nat
    PROVE  LET p == [o EXCEPT !.chat = v]
           IN  /\ p \in Locals /\ p.chat = v /\ p.list = o.list /\ p.partner = o.partner
               /\ p.id = o.id /\ p.astray = o.astray /\ p.gone = o.gone
BY DEF Locals

LEMMA SetN ==
    ASSUME NEW o \in Locals, NEW v \in Nat
    PROVE  LET p == [o EXCEPT !.n = v]
           IN  /\ p \in Locals /\ p.chat = o.chat /\ p.list = o.list /\ p.partner = o.partner
               /\ p.id = o.id /\ p.astray = o.astray /\ p.gone = o.gone
BY DEF Locals

LEMMA SetNoFd ==
    ASSUME NEW o \in Locals, NEW v \in Nat
    PROVE  LET p == [o EXCEPT !.no_fd = v]
           IN  /\ p \in Locals /\ p.chat = o.chat /\ p.list = o.list /\ p.partner = o.partner
               /\ p.id = o.id /\ p.astray = o.astray /\ p.gone = o.gone
BY DEF Locals

LEMMA SetId ==
    ASSUME NEW o \in Locals, NEW v \in Nat
    PROVE  LET p == [o EXCEPT !.id = v]
           IN  /\ p \in Locals /\ p.chat = o.chat /\ p.list = o.list /\ p.partner = o.partner
               /\ p.id = v /\ p.astray = o.astray /\ p.gone = o.gone
BY DEF Locals

LEMMA SetResult ==
    ASSUME NEW o \in Locals, NEW v \in Results
    PROVE  LET p == [o EXCEPT !.result = v]
           IN  /\ p \in Locals /\ p.chat = o.chat /\ p.list = o.list /\ p.partner = o.partner
               /\ p.id = o.id /\ p.astray = o.astray /\ p.gone = o.gone
BY DEF Locals

LEMMA SetList ==
    ASSUME NEW o \in Locals, NEW v \in SUBSET Parties
    PROVE  LET p == [o EXCEPT !.list = v]
           IN  /\ p \in Locals /\ p.chat = o.chat /\ p.list = v /\ p.partner = o.partner
               /\ p.id = o.id /\ p.astray = o.astray /\ p.gone = o.gone
BY DEF Locals

LEMMA SetGone ==
    ASSUME NEW o \in Locals, NEW v \in SUBSET UserNames
    PROVE  LET p == [o EXCEPT !.gone = v]
           IN  /\ p \in Locals /\ p.chat = o.chat /\ p.list = o.list /\ p.partner = o.partner
               /\ p.id = o.id /\ p.astray = o.astray /\ p.gone = v
BY DEF Locals

LEMMA SetPartner ==
    ASSUME NEW o \in Locals, NEW v \in Parties
    PROVE  LET p == [o EXCEPT !.partner = v, !.list = @ \ {v}]
           IN  /\ p \in Locals /\ p.chat = o.chat /\ p.list = o.list \ {v} /\ p.partner = v
               /\ p.id = o.id /\ p.astray = o.astray /\ p.gone = o.gone
BY DEF Locals

\* ... and their initial values.
LEMMA FreshLocals == Fresh \in Locals
BY DEF Fresh, Locals, Results

\* The rows of a table, and a table whose rows were updated in place.
LEMMA RowOf ==
    ASSUME NEW S, NEW s \in Seq(S), NEW i \in DOMAIN s
    PROVE  s[i] \in S /\ i \in Nat /\ i >= 1 /\ i <= Len(s)
OBVIOUS

LEMMA SameDomain ==
    ASSUME NEW S, NEW s \in Seq(S), NEW f, f = [i \in DOMAIN s |-> f[i]],
           \A i \in DOMAIN s : f[i] \in S
    PROVE  f \in Seq(S) /\ Len(f) = Len(s) /\ DOMAIN f = DOMAIN s
<1>1. DOMAIN s = 1 .. Len(s) /\ Len(s) \in Nat
  OBVIOUS
<1>2. f \in [1 .. Len(s) -> S]
  BY <1>1
<1> QED BY <1>1, <1>2

\* A step of the handler of t from one query to another.
LEMMA Going ==
    ASSUME Types, NEW t \in Slaves, NEW l \in PCs, NEW o \in Locals, Go(t, l, o)
    PROVE  /\ pc' \in [Slaves -> PCs] /\ own' \in [Slaves -> Locals]
           /\ pc'[t] = l /\ own'[t] = o
           /\ \A s \in Slaves \ {t} : pc'[s] = pc[s] /\ own'[s] = own[s]
BY DEF Types, Go

\* The end of the process.
LEMMA Exiting ==
    ASSUME Types, NEW t \in Slaves, Exit(t, "crashed")
    PROVE  pc' \in [Slaves -> PCs] /\ own' = own /\ \A s \in Slaves : pc'[s] \in {"crashed", "exited"}
BY DEF Types, Exit, PCs

\* The rows of _User can be counted.
LEMMA Counted ==
    ASSUME Types, NEW S \in SUBSET UserNames
    PROVE  IsFiniteSet(S) /\ Cardinality(S) \in Nat
<1>1. UserNames \subseteq Names
  BY DEF Names
<1> QED BY <1>1, FS_Subset, FS_CardinalityType

\* What a step does to the tables: chats and messages are only added, and no chat
\* changes its name.
Grown ==
    /\ \A c \in DOMAIN chats : c \in DOMAIN chats' /\ chats'[c].name = chats[c].name
    /\ \A i \in DOMAIN messages : i \in DOMAIN messages' /\ messages'[i].chat = messages[i].chat
    /\ Len(chats) <= Len(chats') /\ Len(messages) <= Len(messages')

\* The columns of the tables.
LEMMA ChatFields ==
    ASSUME Types, NEW c \in DOMAIN chats
    PROVE  /\ chats[c] \in Chat /\ chats[c].users \subseteq Parties
           /\ chats[c].name \in Names \cup {NoName} /\ chats[c].creator \in Names \cup {NoName}
           /\ c \in Nat /\ c >= 1 /\ c <= Len(chats)
<1>1. chats[c] \in Chat /\ c \in Nat /\ c >= 1 /\ c <= Len(chats)
  BY RowOf DEF Types
<1> QED BY <1>1 DEF Chat

LEMMA MessageFields ==
    ASSUME Types, NEW i \in DOMAIN messages
    PROVE  /\ messages[i] \in Message /\ messages[i].file \in Files
           /\ messages[i].parties \subseteq Parties
           /\ i \in Nat /\ i >= 1 /\ i <= Len(messages)
<1>1. messages[i] \in Message /\ i \in Nat /\ i >= 1 /\ i <= Len(messages)
  BY RowOf DEF Types
<1> QED BY <1>1 DEF Message

\* What a query that writes does to the tables: a new chat, ...
LEMMA NewChatRow ==
    ASSUME Types, NEW t, NEW n \in Names \cup {NoName}, NEW v \in Names \cup {NoName}, NewChat(t, n, v)
    PROVE  /\ chats' \in Seq(Chat) /\ Len(chats') = Len(chats) + 1
           /\ DOMAIN chats' = DOMAIN chats \cup {Len(chats) + 1} /\ Len(chats) + 1 \notin DOMAIN chats
           /\ \A c \in DOMAIN chats : chats'[c] = chats[c]
           /\ chats'[Len(chats) + 1].name = n /\ chats'[Len(chats) + 1].users = {}
<1> DEFINE row == [name |-> n, creator |-> v, users |-> {}]
<1>1. row \in Chat /\ row.name = n /\ row.users = {}
  BY DEF Chat
<1>2. chats' = Append(chats, row) /\ chats \in Seq(Chat)
  BY DEF NewChat, Types
<1> HIDE DEF row
<1> QED BY <1>1, <1>2

\* ... a user more in a chat, ...
Joined(u, d) == chats' = [chats EXCEPT ![d].users = @ \cup {u}]

LEMMA JoinedChat ==
    ASSUME Types, NEW u \in Parties, NEW d \in DOMAIN chats,
           Joined(u, d)
    PROVE  /\ chats' \in Seq(Chat) /\ Len(chats') = Len(chats) /\ DOMAIN chats' = DOMAIN chats
           /\ \A c \in DOMAIN chats \ {d} : chats'[c] = chats[c]
           /\ chats'[d].name = chats[d].name /\ chats'[d].users = chats[d].users \cup {u}
<1> DEFINE row == [chats[d] EXCEPT !.users = @ \cup {u}]
<1>1. row \in Chat /\ row.name = chats[d].name /\ row.users = chats[d].users \cup {u}
  BY ChatFields DEF Chat
<1>2. chats' = [chats EXCEPT ![d] = row] /\ chats \in Seq(Chat)
  BY DEF Joined, Types
<1> HIDE DEF row
<1> QED BY <1>1, <1>2

\* ... a new message, ...
LEMMA NewMessageRow ==
    ASSUME Types, References, NEW t \in Slaves, NEW f \in Files, NewMessage(t, f),
           Sender(t) \in UserNames, own[t].chat \in DOMAIN chats
    PROVE  LET o == own[t]
               m == messages'[Len(messages) + 1]
               between == IF o.partner = NoName THEN {} ELSE {Sender(t), o.partner}
           IN  /\ messages' \in Seq(Message) /\ Len(messages') = Len(messages) + 1
               /\ DOMAIN messages' = DOMAIN messages \cup {Len(messages) + 1}
               /\ Len(messages) + 1 \notin DOMAIN messages
               /\ \A i \in DOMAIN messages : messages'[i] = messages[i]
               /\ m.file = f /\ m.chat = o.chat /\ m.between = between
               /\ m.parties = between \ o.gone /\ m.raced = (between \cap o.gone # {})
<1> DEFINE o == own[t]
           between == IF o.partner = NoName THEN {} ELSE {Sender(t), o.partner}
           row == [file |-> f, sent_by |-> Sender(t), chat |-> o.chat, between |-> between,
                   parties |-> between \ o.gone, raced |-> between \cap o.gone # {}]
<1>1. o \in Locals /\ o.chat \in Nat /\ o.partner \in Parties \cup {NoName}
  BY DEF Types, Locals
<1>2. between \subseteq Parties
  BY <1>1 DEF Parties, Names
<1> HIDE DEF between, o
<1>3. row \in Message
  BY <1>1, <1>2 DEF Message
<1>4. /\ row.file = f /\ row.chat = o.chat /\ row.between = between
      /\ row.parties = between \ o.gone /\ row.raced = (between \cap o.gone # {})
  OBVIOUS
<1>5. messages' = Append(messages, row) /\ messages \in Seq(Message)
  BY DEF NewMessage, Types, o, between
<1> HIDE DEF row
<1>6. /\ messages' \in Seq(Message) /\ Len(messages') = Len(messages) + 1
      /\ DOMAIN messages' = DOMAIN messages \cup {Len(messages) + 1}
      /\ Len(messages) + 1 \notin DOMAIN messages
      /\ \A i \in DOMAIN messages : messages'[i] = messages[i]
      /\ messages'[Len(messages) + 1] = row
  BY <1>3, <1>5
<1> QED BY <1>4, <1>6 DEF o, between

\* ... and the file of one, if its number is that of a file.
LEMMA SavedMessage ==
    ASSUME Types, NEW d, NEW f \in Files, Saved(d, f)
    PROVE  /\ messages' \in Seq(Message) /\ Len(messages') = Len(messages)
           /\ DOMAIN messages' = DOMAIN messages
           /\ \A i \in DOMAIN messages :
                 /\ messages'[i].chat = messages[i].chat
                 /\ messages'[i].between = messages[i].between
                 /\ messages'[i].parties = messages[i].parties
                 /\ messages'[i].raced = messages[i].raced
                 /\ messages'[i].file = IF i = d /\ FileOf(d) # "text" THEN f ELSE messages[i].file
<1>1. CASE FileOf(d) = "text"
  BY <1>1 DEF Saved, Types
<1>2. CASE FileOf(d) # "text"
  <2>1. d \in DOMAIN messages
    BY <1>2 DEF FileOf
  <2> DEFINE row == [messages[d] EXCEPT !.file = f]
  <2>2. /\ row \in Message /\ row.file = f /\ row.chat = messages[d].chat
        /\ row.between = messages[d].between /\ row.parties = messages[d].parties
        /\ row.raced = messages[d].raced
    BY <2>1, MessageFields DEF Message
  <2>3. messages' = [messages EXCEPT ![d] = row] /\ messages \in Seq(Message)
    BY <1>2 DEF Saved, Types
  <2> HIDE DEF row
  <2>4. /\ messages' \in Seq(Message) /\ Len(messages') = Len(messages)
        /\ DOMAIN messages' = DOMAIN messages
        /\ \A i \in DOMAIN messages : messages'[i] = IF i = d THEN row ELSE messages[i]
    BY <2>1, <2>2, <2>3
  <2> QED BY <1>2, <2>2, <2>4
<1> QED BY <1>1, <1>2

\* What exec_removeuser does to the rows.
LEMMA RemovedUser ==
    ASSUME Types, NEW t \in Slaves, RemoveUser(t)
    PROVE  /\ chats' \in Seq(Chat) /\ Len(chats') = Len(chats) /\ DOMAIN chats' = DOMAIN chats
           /\ \A c \in DOMAIN chats : /\ chats'[c].name = chats[c].name
                                      /\ chats'[c].users = chats[c].users \ {Sender(t)}
           /\ messages' \in Seq(Message) /\ Len(messages') = Len(messages)
           /\ DOMAIN messages' = DOMAIN messages
           /\ \A i \in DOMAIN messages :
                 /\ messages'[i].file = messages[i].file /\ messages'[i].chat = messages[i].chat
                 /\ messages'[i].between = messages[i].between
                 /\ messages'[i].parties = messages[i].parties \ {Sender(t)}
                 /\ messages'[i].raced = messages[i].raced
<1> DEFINE u == Sender(t)
           row(c) == [chats[c] EXCEPT !.users = @ \ {u}]
<1>1. \A c \in DOMAIN chats : /\ row(c) \in Chat /\ row(c).name = chats[c].name
                              /\ row(c).users = chats[c].users \ {u}
  BY ChatFields DEF Chat
<1>2. chats' = [c \in DOMAIN chats |-> row(c)] /\ chats \in Seq(Chat)
  BY DEF RemoveUser, Types
<1>3. \A i \in DOMAIN messages :
          LET m == Renamed(messages[i], u)
          IN  /\ m \in Message /\ m.file = messages[i].file /\ m.chat = messages[i].chat
              /\ m.between = messages[i].between /\ m.parties = messages[i].parties \ {u}
              /\ m.raced = messages[i].raced
  BY MessageFields DEF Message, Renamed
<1>4. messages' = [i \in DOMAIN messages |-> Renamed(messages[i], u)] /\ messages \in Seq(Message)
  BY DEF RemoveUser, Types
<1> HIDE DEF row, u
<1>5. chats' \in Seq(Chat) /\ Len(chats') = Len(chats) /\ DOMAIN chats' = DOMAIN chats
  <2>1. \A c \in DOMAIN chats : chats'[c] = row(c)
    BY <1>2
  <2> QED BY <1>1, <1>2, <2>1, SameDomain
<1>6. messages' \in Seq(Message) /\ Len(messages') = Len(messages) /\ DOMAIN messages' = DOMAIN messages
  <2>1. \A i \in DOMAIN messages : messages'[i] = Renamed(messages[i], u)
    BY <1>4
  <2> QED BY <1>3, <1>4, <2>1, SameDomain
<1> QED BY <1>1, <1>2, <1>3, <1>4, <1>5, <1>6 DEF u

\* ... and what leaving a group does.
LEMMA RemovedFromGroup ==
    ASSUME Types, NEW t \in Slaves, RemoveFromGroup(t), own[t].chat \in DOMAIN chats
    PROVE  /\ chats' \in Seq(Chat) /\ Len(chats') = Len(chats) /\ DOMAIN chats' = DOMAIN chats
           /\ \A c \in DOMAIN chats \ {own[t].chat} : chats'[c] = chats[c]
           /\ chats'[own[t].chat].name = Of(t).name
           /\ chats'[own[t].chat].users = Of(t).users \ {Sender(t)}
           /\ messages' \in Seq(Message) /\ Len(messages') = Len(messages)
           /\ DOMAIN messages' = DOMAIN messages
           /\ \A i \in DOMAIN messages :
                 /\ messages'[i].file = messages[i].file /\ messages'[i].chat = messages[i].chat
                 /\ messages'[i].between = messages[i].between
                 /\ messages'[i].parties = messages[i].parties
                 /\ messages'[i].raced = messages[i].raced
<1> DEFINE d == own[t].chat
           row == [chats[d] EXCEPT !.users = @ \ {Sender(t)}]
           m(i) == IF messages[i].chat = d /\ messages[i].sent_by = Sender(t)
                   THEN [messages[i] EXCEPT !.sent_by = "#user_no_more_in_group"]
                   ELSE messages[i]
<1>1. row \in Chat /\ row.name = chats[d].name /\ row.users = chats[d].users \ {Sender(t)}
  BY ChatFields DEF Chat
<1>2. chats' = [chats EXCEPT ![d] = row] /\ chats \in Seq(Chat)
  BY DEF RemoveFromGroup, Types
<1>3. \A i \in DOMAIN messages :
         /\ m(i) \in Message /\ m(i).file = messages[i].file /\ m(i).chat = messages[i].chat
         /\ m(i).between = messages[i].between /\ m(i).parties = messages[i].parties
         /\ m(i).raced = messages[i].raced
  BY MessageFields DEF Message
<1>4. messages' = [i \in DOMAIN messages |-> m(i)] /\ messages \in Seq(Message)
  BY DEF RemoveFromGroup, Types
<1> HIDE DEF row, m
<1>5. /\ chats' \in Seq(Chat) /\ Len(chats') = Len(chats) /\ DOMAIN chats' = DOMAIN chats
      /\ \A c \in DOMAIN chats \ {d} : chats'[c] = chats[c]
      /\ chats'[d] = row
  BY <1>1, <1>2
<1>6. messages' \in Seq(Message) /\ Len(messages') = Len(messages) /\ DOMAIN messages' = DOMAIN messages
  <2>1. \A i \in DOMAIN messages : messages'[i] = m(i)
    BY <1>4
  <2> QED BY <1>3, <1>4, <2>1, SameDomain
<1> QED BY <1>1, <1>3, <1>4, <1>5, <1>6 DEF Of

-----------------------------------------------------------------------------
(* Types.                                                                  *)

\* What most steps of slave t have in common: the other slaves are left alone.
OnlySlave(t) == \A s \in Slaves \ {t} : pc'[s] = pc[s] /\ own'[s] = own[s] /\ work'[s] = work[s]

\* The queries that only read, or that only write _User.
Query(t) ==
    \/ CheckExistName(t) \/ InsertUser(t) \/ DisconnectUser(t) \/ CheckExistingGroup(t)
    \/ CountOnlineInGroup(t) \/ FindInGroup(t) \/ GetGroupOwner(t) \/ DelGroup(t)
    \/ GetUserFd(t) \/ GetNumberOnlineUser(t) \/ GetTotalUser(t) \/ GetAllUserName(t)
    \/ CheckExistingChat(t) \/ GetFile(t) \/ OpenFile(t)

\* They leave the chats, the messages and the requests alone.
LEMMA QueryFrame ==
    ASSUME NEW t \in Slaves, Query(t)
    PROVE  UNCHANGED <<chats, messages, work, requests>>
BY DEF Query, CheckExistName, InsertUser, DisconnectUser, CheckExistingGroup,
       CountOnlineInGroup, FindInGroup, GetGroupOwner, DelGroup, GetUserFd, GetNumberOnlineUser,
       GetTotalUser, GetAllUserName, CheckExistingChat, GetFile, OpenFile, tables

\* A query of a handler leads to another that the request may be at, with the local
\* variables that one expects.
Legit(t, l, o) ==
    /\ l \in PCs \ {"idle", "getuserfd", "insertreceiver", "creat", "fchmod", "write"} /\ o \in Locals
    /\ o.chat \in 0 .. Len(chats) /\ o.id \in 0 .. Len(messages) /\ o.gone = own[t].gone
    /\ work[t].op \in OpsAt(l)
    /\ Sender(t) \notin o.list
    /\ l \in {"checkexistinggroup", "getnumberonlineusergroup", "getonlineuser_in_group"}
       => o.partner = NoName
    /\ l = "createchat" => o.partner \in Parties
    /\ l = "insertsender" => work[t].op \notin PostOps
    /\ l \in {"getnumberonlineusergroup", "getonlineuser_in_group", "removeuser_from_group",
              "insertsender"}
       => o.chat \in DOMAIN chats /\ ~Private(o.chat)
    /\ l = "open" => o.id \in DOMAIN messages
    /\ l \in {"insertmessage", "postfile"} =>
          /\ o.chat \in DOMAIN chats
          /\ \/ ~Private(o.chat) /\ o.partner = NoName
             \/ Private(o.chat) /\ o.partner # Sender(t)
                /\ {Sender(t), o.partner} \subseteq chats[o.chat].users

\* The queries that expect nothing of the local variables ...
LEMMA PlainQuery ==
    ASSUME NEW t, NEW p \in Locals,
           NEW l \in {"answer", "insertuser", "disconnectuser", "creategroup", "delgroup",
                     "checkexistingchat", "gettotaluser", "getallusername"},
           p.chat \in 0 .. Len(chats), p.id \in 0 .. Len(messages), p.gone = own[t].gone,
           Sender(t) \notin p.list, work[t].op \in OpsAt(l)
    PROVE  Legit(t, l, p)
BY DEF Legit, PCs

LEMMA PlainQueries ==
    ASSUME Types, References, Handlers, NEW t \in Slaves,
           NEW l \in {"answer", "insertuser", "disconnectuser", "creategroup", "delgroup",
                     "checkexistingchat", "gettotaluser", "getallusername"},
           work[t].op \in OpsAt(l)
    PROVE  /\ Legit(t, l, own[t])
           /\ \A v \in Results : Legit(t, l, [own[t] EXCEPT !.result = v])
           /\ \A v \in Nat : Legit(t, l, [own[t] EXCEPT !.n = v])
           /\ \A v \in Nat : Legit(t, l, [own[t] EXCEPT !.no_fd = v])
           /\ \A v \in SUBSET Parties : Sender(t) \notin v => Legit(t, l, [own[t] EXCEPT !.list = v])
<1>1. /\ own[t] \in Locals /\ own[t].chat \in 0 .. Len(chats) /\ own[t].id \in 0 .. Len(messages)
      /\ Sender(t) \notin own[t].list
  BY DEF Types, References, Linked, Handlers, Handler
<1>2. Legit(t, l, own[t])
  BY <1>1, PlainQuery
<1>3. ASSUME NEW v \in Results PROVE Legit(t, l, [own[t] EXCEPT !.result = v])
  <2> DEFINE p == [own[t] EXCEPT !.result = v]
  <2>1. /\ p \in Locals /\ p.chat = own[t].chat /\ p.list = own[t].list /\ p.id = own[t].id
        /\ p.gone = own[t].gone
    BY <1>1, SetResult
  <2> HIDE DEF p
  <2>2. Legit(t, l, p)
    BY <1>1, <2>1, PlainQuery
  <2> QED BY <2>2 DEF p
<1>4. ASSUME NEW v \in Nat PROVE Legit(t, l, [own[t] EXCEPT !.n = v])
  <2> DEFINE p == [own[t] EXCEPT !.n = v]
  <2>1. /\ p \in Locals /\ p.chat = own[t].chat /\ p.list = own[t].list /\ p.id = own[t].id
        /\ p.gone = own[t].gone
    BY <1>1, SetN
  <2> HIDE DEF p
  <2>2. Legit(t, l, p)
    BY <1>1, <2>1, PlainQuery
  <2> QED BY <2>2 DEF p
<1>5. ASSUME NEW v \in Nat PROVE Legit(t, l, [own[t] EXCEPT !.no_fd = v])
  <2> DEFINE p == [own[t] EXCEPT !.no_fd = v]
  <2>1. /\ p \in Locals /\ p.chat = own[t].chat /\ p.list = own[t].list /\ p.id = own[t].id
        /\ p.gone = own[t].gone
    BY <1>1, SetNoFd
  <2> HIDE DEF p
  <2>2. Legit(t, l, p)
    BY <1>1, <2>1, PlainQuery
  <2> QED BY <2>2 DEF p
<1>6. ASSUME NEW v \in SUBSET Parties, Sender(t) \notin v PROVE Legit(t, l, [own[t] EXCEPT !.list = v])
  <2> DEFINE p == [own[t] EXCEPT !.list = v]
  <2>1. /\ p \in Locals /\ p.chat = own[t].chat /\ p.list = v /\ p.id = own[t].id
        /\ p.gone = own[t].gone
    BY <1>1, SetList
  <2> HIDE DEF p
  <2>2. Legit(t, l, p)
    BY <1>1, <1>6, <2>1, PlainQuery
  <2> QED BY <2>2 DEF p
<1> QED BY <1>2, <1>3, <1>4, <1>5, <1>6

\* ... and those about a group.
LEMMA GroupQuery ==
    ASSUME NEW t, NEW p \in Locals,
           NEW l \in {"getnumberonlineusergroup", "getonlineuser_in_group", "removeuser_from_group",
                     "insertsender", "insertmessage", "postfile"},
           p.chat \in 0 .. Len(chats), p.id \in 0 .. Len(messages), p.gone = own[t].gone,
           Sender(t) \notin p.list, work[t].op \in OpsAt(l),
           p.chat \in DOMAIN chats, ~Private(p.chat), p.partner = NoName,
           l = "insertsender" => work[t].op \notin PostOps
    PROVE  Legit(t, l, p)
BY DEF Legit, PCs

\* Each of them goes to a query that is right for the request, or ends the process.
LEMMA QueryGoes ==
    ASSUME Types, References, Stages, Handlers, NEW t \in Slaves, Query(t)
    PROVE  \/ Exit(t, "crashed")
           \/ \E l, o : Go(t, l, o) /\ Legit(t, l, o)
<1> DEFINE o == own[t]
           goal == \/ Exit(t, "crashed")
                   \/ \E l, p : Go(t, l, p) /\ Legit(t, l, p)
<1> SUFFICES goal
  OBVIOUS
<1>1. (\A l, p : Go(t, l, p) /\ Legit(t, l, p) => goal) /\ (Exit(t, "crashed") => goal)
  OBVIOUS
<1> HIDE DEF goal
<1>2. o \in Locals
  BY DEF Types
<1>3. /\ o \in Locals /\ o.chat \in 0 .. Len(chats) /\ o.id \in 0 .. Len(messages)
      /\ Sender(t) \notin o.list /\ Stage(t) /\ Handler(t) /\ pc[t] \in PCs
  BY DEF Types, References, Linked, Stages, Handlers, Handler
<1>4. /\ work[t].op \in RequestOps \cup {"none"}
      /\ pc[t] \notin {"idle", "stopped", "crashed", "exited"} => work[t].op \in RequestOps /\ Sender(t) \in UserNames
  BY RequestFields
<1>5. \A r \in Results : Reply(t, r) /\ pc[t] \notin {"idle", "stopped", "crashed", "exited"} => goal
  <2>1. \A r \in Results : LET p == [o EXCEPT !.result = r]
                           IN  pc[t] \notin {"idle", "stopped", "crashed", "exited"} => Legit(t, "answer", p)
    <3>1. pc[t] \notin {"idle", "stopped", "crashed", "exited"} => work[t].op \in OpsAt("answer")
      BY <1>4 DEF OpsAt
    <3> QED BY <3>1, PlainQueries DEF o
  <2> QED BY <2>1, <1>1 DEF Reply
<1> HIDE DEF o
<1>6. CASE CheckExistName(t)
  <2>1. work[t].op \in {"REGISTER_OP", "CREATEGROUP_OP"} /\ pc[t] = "checkexistname"
    BY <1>6, <1>3 DEF CheckExistName, Stage, OpsAt
  <2>2. /\ work[t].op = "REGISTER_OP" => Legit(t, "insertuser", o)
                                       /\ Legit(t, "disconnectuser", [o EXCEPT !.result = "OP_NICK_ALREADY"])
        /\ work[t].op # "REGISTER_OP" => Legit(t, "creategroup", o)
    <3>1. /\ work[t].op = "REGISTER_OP" => /\ work[t].op \in OpsAt("insertuser")
                                            /\ work[t].op \in OpsAt("disconnectuser")
          /\ work[t].op # "REGISTER_OP" => work[t].op \in OpsAt("creategroup")
      BY <2>1 DEF OpsAt
    <3> QED BY <3>1, PlainQueries DEF Results, o
  <2> QED BY <1>6, <2>1, <2>2, <1>1, <1>5 DEF CheckExistName, Results, o
<1>7. CASE InsertUser(t)
  <2>1. work[t].op = "REGISTER_OP" /\ pc[t] = "insertuser"
    BY <1>7, <1>3 DEF InsertUser, Stage, OpsAt
  <2>2. \A r \in Results : Legit(t, "disconnectuser", [o EXCEPT !.result = r])
    <3>1. work[t].op \in OpsAt("disconnectuser")
      BY <2>1 DEF OpsAt
    <3> QED BY <3>1, PlainQueries DEF o
  <2> QED BY <1>7, <2>2, <1>1 DEF InsertUser, Results, o
<1>8. CASE DisconnectUser(t)
  <2>1. work[t].op \in RequestOps /\ pc[t] = "disconnectuser"
    BY <1>8, <1>4 DEF DisconnectUser
  <2>2. Legit(t, "answer", o)
    <3>1. work[t].op \in OpsAt("answer")
      BY <2>1 DEF OpsAt
    <3> QED BY <3>1, PlainQueries DEF o
  <2> QED BY <1>8, <2>2, <1>1 DEF DisconnectUser, o
<1>9. CASE CheckExistingGroup(t)
  <2>1. /\ work[t].op \in {"ADDGROUP_OP", "DELGROUP_OP", "POSTTXT_OP", "POSTFILE_OP"}
        /\ pc[t] = "checkexistinggroup" /\ o.partner = NoName
    BY <1>9, <1>3 DEF CheckExistingGroup, Stage, OpsAt, Handler, o
  <2>2. CASE Group(Receiver(t)) = {}
    BY <1>9, <2>1, <2>2, <1>5 DEF CheckExistingGroup, Results
  <2>3. ASSUME NEW c \in Group(Receiver(t)),
               Go(t, IF work[t].op = "ADDGROUP_OP" THEN "insertsender" ELSE "getnumberonlineusergroup",
                    [own[t] EXCEPT !.chat = c])
        PROVE  goal
    <3>1. c \in DOMAIN chats /\ c \in Nat /\ c \in 0 .. Len(chats)
      BY ChatFields DEF Group, Types
    <3>2. ~Private(c)
      <4>1. Receiver(t) \in Names
        BY <2>1, <1>3 DEF Stage, Names
      <4> QED BY <4>1 DEF Group, Private
    <3> DEFINE p == [o EXCEPT !.chat = c]
    <3>3. /\ work[t].op = "ADDGROUP_OP" => Legit(t, "insertsender", p)
          /\ work[t].op # "ADDGROUP_OP" => Legit(t, "getnumberonlineusergroup", p)
      <4>1. /\ p \in Locals /\ p.chat = c /\ p.list = o.list /\ p.partner = NoName
            /\ p.id = o.id /\ p.astray = o.astray /\ p.gone = o.gone
        BY <2>1, <3>1, <1>2, SetChat
      <4>2. /\ work[t].op = "ADDGROUP_OP" => work[t].op \in OpsAt("insertsender") \ PostOps
            /\ work[t].op # "ADDGROUP_OP" => work[t].op \in OpsAt("getnumberonlineusergroup")
        BY <2>1 DEF OpsAt, PostOps
      <4> HIDE DEF p
      <4> QED BY <3>1, <3>2, <4>1, <4>2, <1>3, GroupQuery DEF o
    <3> QED BY <2>3, <3>3, <1>1 DEF o
  <2> QED BY <1>9, <2>2, <2>3 DEF CheckExistingGroup
<1>10. CASE CountOnlineInGroup(t)
  <2>1. Cardinality(OnlineIn(own[t].chat)) \in Nat
    <3>1. OnlineIn(own[t].chat) \in SUBSET UserNames
      BY DEF OnlineIn, Online
    <3> QED BY <3>1, Counted
  <2>2. /\ work[t].op \in {"DELGROUP_OP", "POSTTXT_OP", "POSTFILE_OP"} /\ o.partner = NoName
        /\ pc[t] = "getnumberonlineusergroup" /\ o.chat \in DOMAIN chats /\ ~Private(o.chat)
    BY <1>10, <1>3 DEF CountOnlineInGroup, Stage, OpsAt, Handler, o
  <2>3. \A v \in Nat : Legit(t, "getonlineuser_in_group", [o EXCEPT !.n = v])
    <3>1. work[t].op \in OpsAt("getonlineuser_in_group")
      BY <2>2 DEF OpsAt
    <3>2. ASSUME NEW v \in Nat PROVE Legit(t, "getonlineuser_in_group", [o EXCEPT !.n = v])
      <4> DEFINE p == [o EXCEPT !.n = v]
      <4>1. /\ p \in Locals /\ p.chat = o.chat /\ p.list = o.list /\ p.partner = NoName
            /\ p.id = o.id /\ p.astray = o.astray /\ p.gone = o.gone
        BY <2>2, <1>2, SetN
      <4> HIDE DEF p
      <4>2. Legit(t, "getonlineuser_in_group", p)
        BY <2>2, <3>1, <4>1, <1>3, GroupQuery DEF o
      <4> QED BY <4>2 DEF p
    <3> QED BY <3>2
  <2> QED BY <1>10, <2>1, <2>2, <2>3, <1>1, <1>5 DEF CountOnlineInGroup, Results, o
<1>11. CASE FindInGroup(t)
  <2>1. /\ work[t].op \in {"DELGROUP_OP", "POSTTXT_OP", "POSTFILE_OP"} /\ o.partner = NoName
        /\ pc[t] = "getonlineuser_in_group" /\ o.chat \in DOMAIN chats /\ ~Private(o.chat)
    BY <1>11, <1>3 DEF AfterMember, FindInGroup, Stage, OpsAt, Handler, o
  <2>2. /\ work[t].op = "DELGROUP_OP" => Legit(t, "removeuser_from_group", o)
        /\ work[t].op = "POSTTXT_OP" => Legit(t, "insertmessage", o)
        /\ work[t].op = "POSTFILE_OP" => Legit(t, "postfile", o)
    <3>1. /\ work[t].op = "DELGROUP_OP" => work[t].op \in OpsAt("removeuser_from_group")
          /\ work[t].op = "POSTTXT_OP" => work[t].op \in OpsAt("insertmessage")
          /\ work[t].op = "POSTFILE_OP" => work[t].op \in OpsAt("postfile")
      BY DEF OpsAt
    <3> QED BY <2>1, <3>1, <1>3, <1>2, GroupQuery DEF o
  <2>3. Legit(t, CASE work[t].op = "DELGROUP_OP" -> "removeuser_from_group"
                   [] work[t].op = "POSTTXT_OP"  -> "insertmessage"
                   [] work[t].op = "POSTFILE_OP" -> "postfile", o)
    BY <2>1, <2>2
  <2> QED BY <1>11, <2>1, <2>3, <1>1, <1>5 DEF AfterMember, FindInGroup, Results, o
<1>12. CASE GetGroupOwner(t) \/ DelGroup(t)
  <2>1. work[t].op = "UNREGISTER_GROUP" /\ pc[t] \in {"getgroupowner", "delgroup"}
    BY <1>12, <1>3 DEF GetGroupOwner, DelGroup, Stage, OpsAt
  <2>2. Legit(t, "delgroup", o)
    <3>1. work[t].op \in OpsAt("delgroup")
      BY <2>1 DEF OpsAt
    <3> QED BY <3>1, PlainQueries DEF o
  <2> QED BY <1>12, <2>1, <2>2, <1>1, <1>5 DEF GetGroupOwner, DelGroup, Results, o
<1>13. CASE GetUserFd(t)
  <2>1. Receiver(t) \in Registered => {Receiver(t)} \in SUBSET Parties
    BY DEF Registered, Parties, Names
  <2>2. /\ work[t].op \in {"POSTTXT_OP", "POSTFILE_OP"} /\ pc[t] = "getuserfd"
        /\ o.partner = NoName /\ Receiver(t) # Sender(t)
    BY <1>13, <1>3 DEF GetUserFd, Stage, OpsAt, Handler, o
  <2>3. /\ Receiver(t) \in Registered => Legit(t, "checkexistingchat", [o EXCEPT !.list = {Receiver(t)}])
        /\ Legit(t, "checkexistinggroup", o)
    <3>1. work[t].op \in OpsAt("checkexistingchat") /\ work[t].op \in OpsAt("checkexistinggroup")
      BY <2>2 DEF OpsAt, PostOps
    <3>2. Legit(t, "checkexistinggroup", o)
      BY <2>2, <3>1, <1>3, <1>2 DEF Legit, PCs, o
    <3> QED BY <2>1, <2>2, <3>1, <3>2, PlainQueries DEF o
  <2> QED BY <1>13, <2>3, <1>1 DEF GetUserFd, o
<1>14. CASE GetNumberOnlineUser(t) \/ GetTotalUser(t)
  <2>1. Cardinality(Online) \in Nat /\ Cardinality(Registered) \in Nat
    BY Counted DEF Online, Registered
  <2>2. work[t].op = "POSTTXTALL_OP" /\ pc[t] \in {"getnumberonlineuser", "gettotaluser"}
    BY <1>14, <1>3 DEF GetNumberOnlineUser, GetTotalUser, Stage, OpsAt
  <2>3. \A v \in Nat : /\ Legit(t, "gettotaluser", [o EXCEPT !.no_fd = v])
                       /\ Legit(t, "getallusername", [o EXCEPT !.n = v])
    <3>1. work[t].op \in OpsAt("gettotaluser") /\ work[t].op \in OpsAt("getallusername")
      BY <2>2 DEF OpsAt
    <3> QED BY <3>1, PlainQueries DEF o
  <2> QED BY <1>14, <2>1, <2>2, <2>3, <1>1, <1>5 DEF GetNumberOnlineUser, GetTotalUser, Results, o
<1>15. CASE GetAllUserName(t)
  <2>1. PICK S \in SUBSET Registered :
            LET unfilled == IF Cardinality(S) < own[t].n THEN {Garbage} ELSE {}
            IN  Go(t, "checkexistingchat", [own[t] EXCEPT !.list = (S \cup unfilled) \ {Sender(t)}])
    BY <1>15 DEF GetAllUserName
  <2>2. work[t].op = "POSTTXTALL_OP"
    BY <1>15, <1>3 DEF GetAllUserName, Stage, OpsAt
  <2>3. \A v \in SUBSET Parties :
           Sender(t) \notin v => Legit(t, "checkexistingchat", [o EXCEPT !.list = v])
    <3>1. work[t].op \in OpsAt("checkexistingchat")
      BY <2>2 DEF OpsAt, PostOps
    <3> QED BY <3>1, PlainQueries DEF o
  <2> DEFINE v == (S \cup (IF Cardinality(S) < own[t].n THEN {Garbage} ELSE {})) \ {Sender(t)}
  <2>4. S \subseteq Parties /\ {Garbage} \subseteq Parties
    BY DEF Registered, Parties, Names
  <2>5. v \in SUBSET Parties /\ Sender(t) \notin v
    BY <2>4
  <2>6. Go(t, "checkexistingchat", [o EXCEPT !.list = v])
    BY <2>1 DEF o
  <2> HIDE DEF v
  <2> QED BY <1>1, <2>3, <2>5, <2>6
<1>16. CASE CheckExistingChat(t)
  <2>1. PICK p \in own[t].list :
            LET q == [own[t] EXCEPT !.partner = p, !.list = @ \ {p}]
            IN  \/ /\ PrivateChats(Sender(t), p) = {}
                   /\ Go(t, "createchat", q)
                \/ \E c \in PrivateChats(Sender(t), p) : Go(t, AfterChat(t), [q EXCEPT !.chat = c])
    BY <1>16 DEF CheckExistingChat
  <2> DEFINE q == [o EXCEPT !.partner = p, !.list = @ \ {p}]
  <2>2. p \in Parties /\ p # Sender(t)
    BY <2>1, <1>3 DEF Locals, o
  <2>3. /\ q \in Locals /\ q.chat = o.chat /\ q.id = o.id /\ q.gone = o.gone /\ q.partner = p
        /\ q.list = o.list \ {p}
    BY <1>2, <2>2, SetPartner
  <2>4. work[t].op \in PostOps
    BY <1>16, <1>3 DEF CheckExistingChat, Stage, OpsAt
  <2>5. \/ Go(t, "createchat", q)
        \/ \E c \in PrivateChats(Sender(t), p) : Go(t, AfterChat(t), [q EXCEPT !.chat = c])
    BY <2>1 DEF o
  <2> HIDE DEF q
  <2>6. Legit(t, "createchat", q)
    BY <2>2, <2>3, <2>4, <1>3 DEF Legit, PCs, OpsAt, o
  <2>7. ASSUME NEW c \in PrivateChats(Sender(t), p)
        PROVE  Legit(t, AfterChat(t), [q EXCEPT !.chat = c])
    <3>1. /\ c \in DOMAIN chats /\ c \in Nat /\ c \in 0 .. Len(chats) /\ Private(c)
          /\ {Sender(t), p} \subseteq chats[c].users
      BY ChatFields DEF PrivateChats, Types, Private
    <3> DEFINE r == [q EXCEPT !.chat = c]
    <3>2. /\ r \in Locals /\ r.chat = c /\ r.id = o.id /\ r.gone = o.gone /\ r.partner = p
          /\ r.list = o.list \ {p}
      BY <2>3, <3>1, SetChat
    <3> HIDE DEF r
    <3>3. Legit(t, AfterChat(t), r)
      BY <3>1, <3>2, <2>2, <2>4, <1>3 DEF Legit, PCs, OpsAt, PostOps, AfterChat, o
    <3> QED BY <3>3 DEF r
  <2> QED BY <1>1, <2>5, <2>6, <2>7
<1>17. CASE GetFile(t)
  <2>1. work[t].op = "GETFILE_OP" /\ pc[t] = "getfile"
    BY <1>17, <1>3 DEF GetFile, Stage, OpsAt
  <2>2. ASSUME NEW i \in DOMAIN messages
        PROVE  Legit(t, "open", [o EXCEPT !.id = i])
    <3>1. i \in Nat /\ i \in 0 .. Len(messages)
      BY MessageFields DEF Types
    <3> DEFINE r == [o EXCEPT !.id = i]
    <3>2. /\ r \in Locals /\ r.chat = o.chat /\ r.id = i /\ r.gone = o.gone /\ r.list = o.list
      BY <1>2, <3>1, SetId
    <3> HIDE DEF r
    <3>3. Legit(t, "open", r)
      BY <2>1, <3>1, <3>2, <1>3 DEF Legit, PCs, OpsAt, o
    <3> QED BY <3>3 DEF r
  <2>3. \/ Reply(t, "OP_NO_SUCH_FILE")
        \/ \E i \in DOMAIN messages : Go(t, "open", [o EXCEPT !.id = i])
    BY <1>17 DEF GetFile, o
  <2> QED BY <2>1, <2>2, <2>3, <1>1, <1>5 DEF Results
<1>18. CASE OpenFile(t)
  BY <1>18, <1>1, <1>5 DEF OpenFile, Results
<1> QED BY <1>6, <1>7, <1>8, <1>9, <1>10, <1>11, <1>12, <1>13, <1>14, <1>15, <1>16, <1>17, <1>18 DEF Query

-----------------------------------------------------------------------------
(* The steps, one kind at a time.                                          *)

\* A step that leaves the tables alone lets nothing go.
LEMMA SameTables ==
    ASSUME Types, UNCHANGED <<chats, messages>>
    PROVE  Grown /\ chats' \in Seq(Chat) /\ messages' \in Seq(Message)
BY DEF Types, Grown

\* A slave at the same query with the same chat is as it was when chats are only added.
LEMMA OtherSlave ==
    ASSUME Types, NEW s \in Slaves, Stage(s), Handler(s), Grown,
           pc'[s] = pc[s], work'[s] = work[s],
           own'[s].list = own[s].list, own'[s].partner = own[s].partner,
           own'[s].chat = own[s].chat, own'[s].id = own[s].id,
           pc[s] = "idle" => own'[s] = own[s]
    PROVE  Stage(s)' /\ Handler(s)' /\ (s \in Builders' <=> s \in Builders)
           /\ (s \in Posters' <=> s \in Posters)
<1>1. Stage(s)' /\ (s \in Builders' <=> s \in Builders) /\ (s \in Posters' <=> s \in Posters)
  BY DEF Stage, Sender, Receiver, Builders, Posters
<1>2. Handler(s)'
  BY <1>1 DEF Handler, Sender, Grown, Private
<1> QED BY <1>1, <1>2

\* A query that writes _User puts a descriptor there, or that there is none.
LEMMA CurrFdTypes ==
    ASSUME Types, Stages, NEW t \in Slaves, Query(t)
    PROVE  curr_fd' \in [UserNames -> Fds \cup {DISCONNECTED_FD, Absent}]
<1>1. CASE InsertUser(t)
  <2>1. work[t].fd \in Fds /\ Sender(t) \in UserNames
    BY <1>1, RequestFields DEF InsertUser
  <2> QED BY <1>1, <2>1 DEF InsertUser, Types
<1>2. CASE DisconnectUser(t)
  BY <1>2 DEF DisconnectUser, Disconnected, Types
<1>3. CASE ~InsertUser(t) /\ ~DisconnectUser(t)
  <2>1. curr_fd' = curr_fd
    BY <1>3 DEF Query, CheckExistName, CheckExistingGroup, CountOnlineInGroup, FindInGroup,
         GetGroupOwner, DelGroup, GetUserFd, GetNumberOnlineUser, GetTotalUser, GetAllUserName,
         CheckExistingChat, GetFile, OpenFile, tables
  <2> QED BY <2>1 DEF Types
<1> QED BY <1>1, <1>2, <1>3

SlaveSafe(s) == /\ Stage(s) /\ Handler(s)
                /\ s \in Builders => Builds(s)
                /\ s \in Posters => Posts(s)

OthersSafe(t) == \A s \in Slaves \ {t} : SlaveSafe(s)

\* The step of slave t adds no message to a chat that another slave builds, does not
\* come to build or to post to such a chat, and if it changes the users of a chat that
\* was there, that chat is d and nobody else builds it or posts a private message to it.
Apart(t, d) ==
    /\ \A c \in DOMAIN chats \ {d} : chats'[c].users = chats[c].users
    /\ \A s \in (Builders \cup Posters) \ {t} :
          own[s].chat = d => s \in Posters /\ own[s].partner = NoName
    /\ \A s \in Builders \ {t}, i \in DOMAIN messages' : messages'[i].chat # own[s].chat
    /\ t \in Builders' \cup Posters' => \A s \in Builders \ {t} : own[s].chat # own'[t].chat

\* ... and leaves the others what they were.
LEMMA OtherSlaves ==
    ASSUME Safe, NEW t \in Slaves, Grown, OnlySlave(t), NEW d, Apart(t, d)
    PROVE  OthersSafe(t)'
<1> USE DEF Safe
<1>1. ASSUME NEW s \in Slaves \ {t}
      PROVE  /\ Stage(s)' /\ Handler(s)' /\ (s \in Builders' <=> s \in Builders)
             /\ (s \in Posters' <=> s \in Posters)
             /\ pc'[s] = pc[s] /\ own'[s] = own[s] /\ Sender(s)' = Sender(s)
  BY OtherSlave DEF Stages, Handlers, OnlySlave, Sender
<1>2. ASSUME NEW s \in Slaves \ {t}, s \in Builders' PROVE Builds(s)'
  <2>1. s \in Builders /\ Builds(s) /\ s \notin Posters
    BY <1>1, <1>2 DEF Built, Builders, Posters
  <2>2. own[s].chat # d
    BY <2>1 DEF Apart
  <2>3. \A r \in (Builders' \cup Posters') \ {s} : own'[r].chat # own'[s].chat
    <3>1. TAKE r \in (Builders' \cup Posters') \ {s}
    <3>2. CASE r = t
      BY <3>2, <1>1, <2>1 DEF Apart
    <3>3. CASE r # t
      <4>1. r \in Slaves \ {t} /\ r \in (Builders \cup Posters) \ {s}
        BY <3>3, <1>1 DEF Builders, Posters
      <4> QED BY <4>1, <1>1, <2>1 DEF Builds
    <3> QED BY <3>2, <3>3
  <2> QED BY <1>1, <2>1, <2>2, <2>3 DEF Builds, Grown, Private, Of, Apart
<1>3. ASSUME NEW s \in Slaves \ {t}, s \in Posters' PROVE Posts(s)'
  <2>1. s \in Posters /\ Posts(s)
    BY <1>1, <1>3 DEF Posted
  <2>2. own[s].chat = d => own[s].partner = NoName
    BY <2>1 DEF Apart
  <2> QED BY <1>1, <2>1, <2>2 DEF Posts, Grown, Private, Of, Apart
<1> QED BY <1>1, <1>2, <1>3 DEF OthersSafe, SlaveSafe

\* No chat has the number 0, so that Apart(t, 0) is about a step that changes none.
LEMMA NobodyAtZero ==
    ASSUME Safe
    PROVE  \A s \in Builders \cup Posters : own[s].chat \in DOMAIN chats /\ own[s].chat # 0
<1>1. \A s \in Builders \cup Posters : own[s].chat \in DOMAIN chats
  BY DEF Safe, Built, Builds, Posted, Posts
<1> QED BY <1>1, ChatFields DEF Safe

\* The two halves of a step.
LEMMA Together ==
    ASSUME NEW t \in Slaves, Types', References', OfTwo', Kept', OthersSafe(t)', SlaveSafe(t)'
    PROVE  Safe'
BY DEF Safe, OthersSafe, SlaveSafe, Stages, Handlers, Built, Posted, Builders, Posters

\* The chats of the slaves that build or post a private message are private.
LEMMA NotAGroup ==
    ASSUME Safe, NEW d, ~Private(d)
    PROVE  /\ \A s \in Builders : own[s].chat # d
           /\ \A s \in Posters : own[s].chat = d => own[s].partner = NoName
BY DEF Safe, Built, Builds, Posted, Posts

\* The end of the process leaves the tables as they are.
LEMMA ExitStep ==
    ASSUME Safe, NEW t \in Slaves, Exit(t, "crashed"), UNCHANGED <<chats, messages, work, requests>>,
           curr_fd' \in [UserNames -> Fds \cup {DISCONNECTED_FD, Absent}]
    PROVE  Safe'
<1> USE DEF Safe
<1>1. pc' \in [Slaves -> PCs] /\ own' = own /\ \A s \in Slaves : pc'[s] \in {"crashed", "exited"}
  BY Exiting
<1>2. Types' /\ References'
  BY <1>1 DEF Types, References, Linked
<1>3. Builders' = {} /\ Posters' = {}
  BY <1>1 DEF Builders, Posters
<1>4. Stages'
  <2>1. \A s \in Slaves : work[s].op \in OpsAt("crashed") /\ work[s].op \in OpsAt("exited")
    BY RequestFields DEF OpsAt
  <2> QED BY <1>1, <2>1 DEF Stages, Stage, Sender, Receiver
<1>5. Handlers'
  BY <1>1, <1>3 DEF Handlers, Handler, Sender
<1>6. OfTwo' /\ Kept'
  BY DEF OfTwo, Kept, KeptPrivate, Private
<1> QED BY <1>2, <1>3, <1>4, <1>5, <1>6 DEF Built, Posted

\* The queries that only read, or only write _User.
LEMMA QueryStep == ASSUME Safe, NEW t \in Slaves, Query(t) PROVE Safe'
<1> USE DEF Safe
<1>1. UNCHANGED <<chats, messages, work, requests>> /\ Grown
  BY QueryFrame, SameTables
<1>2. curr_fd' \in [UserNames -> Fds \cup {DISCONNECTED_FD, Absent}]
  BY CurrFdTypes
<1>3. OfTwo' /\ Kept'
  BY <1>1 DEF OfTwo, Kept, KeptPrivate, Private
<1>4. CASE Exit(t, "crashed")
  BY <1>1, <1>2, <1>4, ExitStep
<1>5. ASSUME NEW l, NEW o, Go(t, l, o), Legit(t, l, o) PROVE Safe'
  <2>1. /\ pc' \in [Slaves -> PCs] /\ own' \in [Slaves -> Locals] /\ pc'[t] = l /\ own'[t] = o
        /\ \A s \in Slaves \ {t} : pc'[s] = pc[s] /\ own'[s] = own[s]
    BY <1>5, Going DEF Legit
  <2>2. Types' /\ References'
    BY <1>1, <1>2, <1>5, <2>1 DEF Types, References, Linked, Legit
  <2>4. t \notin Builders' /\ (t \in Posters' => l \in {"insertmessage", "postfile"})
    BY <1>1, <1>5, <2>1 DEF Legit, Builders, Posters
  <2>5. Stage(t)'
    BY <1>1, <1>5, <2>1 DEF Legit, Stages, Stage, Receiver, Sender
  <2>6. Handler(t)'
    BY <1>1, <1>5, <2>1, <2>4 DEF Legit, Handler, Sender, Private
  <2>7. t \in Posters' =>
          /\ o.chat \in DOMAIN chats
          /\ \A s \in Builders \ {t} : own[s].chat # o.chat
          /\ o.partner # NoName => /\ Private(o.chat)
                                  /\ chats[o.chat].users = {Sender(t), o.partner}
    <3>1. SUFFICES ASSUME t \in Posters'
                   PROVE  /\ o.chat \in DOMAIN chats
                          /\ \A s \in Builders \ {t} : own[s].chat # o.chat
                          /\ o.partner # NoName => /\ Private(o.chat)
                                                  /\ chats[o.chat].users = {Sender(t), o.partner}
      OBVIOUS
    <3>2. /\ o.chat \in DOMAIN chats
          /\ \/ ~Private(o.chat) /\ o.partner = NoName
             \/ Private(o.chat) /\ o.partner # Sender(t)
                /\ {Sender(t), o.partner} \subseteq chats[o.chat].users
      BY <3>1, <2>4, <1>5 DEF Legit
    <3>3. \A s \in Builders : Private(own[s].chat)
                             /\ (chats[own[s].chat].users = {} \/ chats[own[s].chat].users \subseteq {Sender(s)})
      BY DEF Built, Builds, Builders, Of
    <3>4. Private(o.chat) => \E u, v \in Parties : chats[o.chat].users \subseteq {u, v}
      BY <3>2 DEF OfTwo
    <3> QED BY <3>2, <3>3, <3>4
  <2>8. OthersSafe(t)'
    <3>1. OnlySlave(t)
      BY <1>1, <2>1 DEF OnlySlave
    <3>2. Apart(t, 0)
      BY <1>1, <2>1, <2>4, <2>7, NobodyAtZero DEF Apart, Built, Builds
    <3> QED BY <1>1, <3>1, <3>2, OtherSlaves
  <2>9. SlaveSafe(t)'
    BY <1>1, <2>1, <2>4, <2>5, <2>6, <2>7 DEF SlaveSafe, Posts, Private, Of, Sender
  <2> QED BY <1>3, <2>2, <2>8, <2>9, Together
<1> QED BY <1>4, <1>5, QueryGoes

\* The tables of a step that goes on from one query to another: what is to be shown
\* of chats and messages, and of the slave.
LEMMA GoingTypes ==
    ASSUME Types, References, NEW t \in Slaves, NEW l \in PCs, NEW o \in Locals, Go(t, l, o),
           curr_fd' = curr_fd, work' = work, requests' = requests,
           chats' \in Seq(Chat), messages' \in Seq(Message), Grown,
           \A i \in DOMAIN messages' : messages'[i].chat \in DOMAIN chats',
           o.chat \in 0 .. Len(chats'), o.id \in 0 .. Len(messages')
    PROVE  /\ Types' /\ References' /\ OnlySlave(t)
           /\ pc'[t] = l /\ own'[t] = o /\ Sender(t)' = Sender(t)
<1>1. /\ pc' \in [Slaves -> PCs] /\ own' \in [Slaves -> Locals] /\ pc'[t] = l /\ own'[t] = o
      /\ \A s \in Slaves \ {t} : pc'[s] = pc[s] /\ own'[s] = own[s]
  BY Going
<1>2. Types' /\ OnlySlave(t)
  BY <1>1 DEF Types, OnlySlave
<1>3. Len(chats) \in Nat /\ Len(messages) \in Nat /\ Len(chats') \in Nat /\ Len(messages') \in Nat
  BY DEF Types
<1>4. \A s \in Slaves \ {t} : own'[s].chat \in 0 .. Len(chats') /\ own'[s].id \in 0 .. Len(messages')
  BY <1>1, <1>3 DEF References, Linked, Grown
<1>5. References'
  BY <1>1, <1>4 DEF References, Linked
<1> QED BY <1>1, <1>2, <1>5 DEF Sender

\* The end of a request.
LEMMA AnswerStep == ASSUME Safe, ~terminate_queries, NEW t \in Slaves, Answer(t) PROVE Safe'
<1> USE DEF Safe
<1>1. UNCHANGED <<tables, requests>> /\ Grown
  BY SameTables DEF Answer, tables
<1>2. /\ pc' \in [Slaves -> PCs] /\ own' \in [Slaves -> Locals] /\ pc'[t] = "idle" /\ own'[t] = Fresh
      /\ \A s \in Slaves \ {t} : pc'[s] = pc[s] /\ own'[s] = own[s]
  BY Going, FreshLocals DEF Answer, PCs
<1>3. /\ work' \in [Slaves -> Request \cup {NoWork}] /\ work'[t] = NoWork
      /\ \A s \in Slaves \ {t} : work'[s] = work[s]
  BY DEF Answer, Types
<1>4. Types' /\ References'
  <2>1. Len(chats) \in Nat /\ Len(messages) \in Nat /\ chats' = chats /\ messages' = messages
    BY <1>1 DEF Types, tables
  <2>2. Types'
    BY <1>1, <1>2, <1>3 DEF Types, tables
  <2>3. Fresh.chat = 0 /\ Fresh.id = 0
    BY DEF Fresh
  <2> QED BY <1>2, <2>1, <2>2, <2>3 DEF References, Linked
<1>5. OfTwo' /\ Kept'
  BY <1>1 DEF OfTwo, Kept, KeptPrivate, Private, tables
<1>6. t \notin Builders' /\ t \notin Posters'
  BY <1>2 DEF Builders, Posters
<1>7. OthersSafe(t)'
  <2>1. OnlySlave(t)
    BY <1>2, <1>3 DEF OnlySlave
  <2>2. Apart(t, 0)
    BY <1>1, <1>6, NobodyAtZero DEF Apart, Built, Builds, tables
  <2> QED BY <1>1, <2>1, <2>2, OtherSlaves
<1>8. SlaveSafe(t)'
  <2>1. NoWork.op = "none" /\ "none" \in OpsAt("idle") /\ Fresh.list = {}
    BY DEF NoWork, OpsAt, Fresh
  <2>2. Stage(t)' /\ Handler(t)'
    BY <1>2, <1>3, <1>6, <2>1 DEF Stage, Handler, Sender, Receiver
  <2> QED BY <1>6, <2>2 DEF SlaveSafe
<1> QED BY <1>4, <1>5, <1>7, <1>8, Together

\* The first query of a request.
LEMMA Beginning ==
    ASSUME Types, Linked, Stages, NEW t \in Slaves, Begin(t)
    PROVE  /\ UNCHANGED tables /\ Types' /\ Linked' /\ OnlySlave(t) /\ Stage(t)'
           /\ own[t] = Fresh /\ own'[t].list = {} /\ own'[t].partner = NoName
           /\ own'[t].id = 0 /\ own'[t].astray = FALSE
           /\ pc'[t] \in {"answer", "checkexistname", "removeuser", "checkexistinggroup",
                          "getgroupowner", "getuserfd", "getnumberonlineuser", "getfile"}
<1>1. PICK o \in ClientOps, fd \in Fds, s \in UserNames : \E r \in Receivers(o) :
          /\ work' = [work EXCEPT ![t] = [op |-> o, fd |-> fd, sender |-> s, receiver |-> r]]
          /\ IF o \in {"POSTTXT_OP", "POSTFILE_OP"} /\ s = r
             THEN Reply(t, "OP_FAIL")
             ELSE Go(t, FirstQuery(o, s, r), own[t])
  BY DEF Begin
<1>2. PICK r \in Receivers(o) :
          /\ work' = [work EXCEPT ![t] = [op |-> o, fd |-> fd, sender |-> s, receiver |-> r]]
          /\ IF o \in {"POSTTXT_OP", "POSTFILE_OP"} /\ s = r
             THEN Reply(t, "OP_FAIL")
             ELSE Go(t, FirstQuery(o, s, r), own[t])
  BY <1>1
<1>3. /\ pc[t] = "idle" /\ UNCHANGED tables /\ requests' = requests + 1 /\ Grown
      /\ chats' = chats /\ messages' = messages /\ curr_fd' = curr_fd
  BY SameTables DEF Begin, tables
<1>4. own[t] = Fresh /\ own[t] \in Locals
  BY <1>3, FreshLocals DEF Stages, Stage
<1>5. o \in RequestOps
  OBVIOUS
<1>6. /\ r \in Names \cup {NoName}
      /\ o \in {"CREATEGROUP_OP", "ADDGROUP_OP", "DELGROUP_OP"} => r \in GroupNames
      /\ o \in {"POSTTXT_OP", "POSTFILE_OP"} => r \in Names
  BY <1>5 DEF Receivers, RequestOps, Names
<1> DEFINE first == FirstQuery(o, s, r)
<1>7. /\ first \in PCs /\ o \in OpsAt(first)
      /\ first \in {"checkexistname", "removeuser", "checkexistinggroup", "getgroupowner", "getuserfd",
                    "getnumberonlineuser", "getfile"}
      /\ first = "getuserfd" => o \in {"POSTTXT_OP", "POSTFILE_OP"}
  BY <1>5 DEF FirstQuery, RequestOps, PCs, OpsAt, PostOps
<1>8. o \in OpsAt("answer") /\ "answer" \in PCs
  BY <1>5 DEF OpsAt, PCs
<1> HIDE DEF first
<1>9. PICK l \in PCs, p \in Locals :
          /\ Go(t, l, p) /\ p.list = {} /\ p.partner = NoName /\ p.chat = 0 /\ p.id = 0 /\ p.astray = FALSE
          /\ o \in OpsAt(l)
          /\ l \in {"answer", "checkexistname", "removeuser", "checkexistinggroup", "getgroupowner",
                    "getuserfd", "getnumberonlineuser", "getfile"}
          /\ l = "getuserfd" => r # s
  <2>1. own[t].list = {} /\ own[t].partner = NoName /\ own[t].chat = 0 /\ own[t].id = 0
        /\ own[t].astray = FALSE
    BY <1>4 DEF Fresh
  <2>2. CASE o \in {"POSTTXT_OP", "POSTFILE_OP"} /\ s = r
    <3> DEFINE p == [own[t] EXCEPT !.result = "OP_FAIL"]
    <3>1. p \in Locals /\ p.list = {} /\ p.partner = NoName /\ p.chat = 0 /\ p.id = 0 /\ p.astray = FALSE
      BY <1>4, <2>1, SetResult DEF Results
    <3>2. Go(t, "answer", p)
      BY <1>2, <2>2 DEF Reply
    <3> HIDE DEF p
    <3> QED BY <1>8, <3>1, <3>2
  <2>3. CASE ~(o \in {"POSTTXT_OP", "POSTFILE_OP"} /\ s = r)
    <3>1. Go(t, first, own[t])
      BY <1>2, <2>3 DEF first
    <3> QED BY <1>4, <1>7, <2>1, <2>3, <3>1
  <2> QED BY <2>2, <2>3
<1>10. /\ pc' \in [Slaves -> PCs] /\ own' \in [Slaves -> Locals] /\ pc'[t] = l /\ own'[t] = p
       /\ \A q \in Slaves \ {t} : pc'[q] = pc[q] /\ own'[q] = own[q]
  BY <1>9, Going
<1> DEFINE w == [op |-> o, fd |-> fd, sender |-> s, receiver |-> r]
<1>11. w \in Request /\ w.op = o /\ w.sender = s /\ w.receiver = r
  BY <1>5, <1>6 DEF Request
<1>12. work' = [work EXCEPT ![t] = w]
  BY <1>2
<1> HIDE DEF w
<1>13. /\ work' \in [Slaves -> Request \cup {NoWork}] /\ work'[t] = w
       /\ \A q \in Slaves \ {t} : work'[q] = work[q]
  BY <1>11, <1>12 DEF Types
<1>14. Types'
  BY <1>3, <1>10, <1>13 DEF Types
<1>15. Linked'
  <2>1. Len(chats) \in Nat
    BY DEF Types
  <2> QED BY <1>3, <1>9, <1>10, <2>1 DEF Linked
<1>16. OnlySlave(t)
  BY <1>10, <1>13 DEF OnlySlave
<1>17. Stage(t)'
  BY <1>6, <1>9, <1>10, <1>11, <1>13 DEF Stage, Receiver, Sender
<1> QED BY <1>3, <1>4, <1>9, <1>10, <1>14, <1>15, <1>16, <1>17

LEMMA BeginStep == ASSUME Safe, NEW t \in Slaves, Begin(t) PROVE Safe'
<1> USE DEF Safe
<1>1. /\ UNCHANGED tables /\ Types' /\ Linked' /\ OnlySlave(t) /\ Stage(t)'
      /\ own'[t].list = {} /\ own'[t].partner = NoName /\ own'[t].id = 0
      /\ pc'[t] \in {"answer", "checkexistname", "removeuser", "checkexistinggroup",
                     "getgroupowner", "getuserfd", "getnumberonlineuser", "getfile"}
  BY Beginning DEF References
<1>2. chats' = chats /\ messages' = messages /\ Grown /\ Len(messages) \in Nat
  BY <1>1, SameTables DEF tables, Types
<1>3. References'
  BY <1>1, <1>2 DEF References, OnlySlave
<1>4. OfTwo' /\ Kept'
  BY <1>2 DEF OfTwo, Kept, KeptPrivate, Private
<1>5. t \notin Builders' /\ t \notin Posters'
  BY <1>1 DEF Builders, Posters
<1>6. OthersSafe(t)'
  <2>1. Apart(t, 0)
    BY <1>2, <1>5, NobodyAtZero DEF Apart, Built, Builds
  <2> QED BY <1>1, <1>2, <2>1, OtherSlaves
<1>7. SlaveSafe(t)'
  BY <1>1, <1>5 DEF SlaveSafe, Handler
<1> QED BY <1>1, <1>3, <1>4, <1>6, <1>7, Together

\* Users come and go.
LEMMA CurrFdStep == ASSUME Safe, NEW fd \in Fds, GoOffline(fd) \/ \E u \in UserNames : GoOnline(u, fd)
                    PROVE  Safe'
<1> USE DEF Safe
<1>1. /\ UNCHANGED <<chats, messages, pc, work, own>> /\ requests' = requests + 1
      /\ curr_fd' \in [UserNames -> Fds \cup {DISCONNECTED_FD, Absent}]
  BY DEF GoOffline, GoOnline, Disconnected, Types
<1>2. Types' /\ References' /\ OfTwo' /\ Kept'
  <2>1. Types'
    BY <1>1 DEF Types
  <2>2. References'
    BY <1>1 DEF References, Linked
  <2> QED BY <1>1, <2>1, <2>2 DEF OfTwo, Kept, KeptPrivate, Private
<1>3. Builders' = Builders /\ Posters' = Posters
  BY <1>1 DEF Builders, Posters
<1>4. Stages' /\ Handlers'
  BY <1>1, <1>3 DEF Stages, Stage, Handlers, Handler, Sender, Receiver, Private
<1>5. Built' /\ Posted'
  BY <1>1, <1>3 DEF Built, Builds, Posted, Posts, Sender, Private, Of
<1> QED BY <1>2, <1>4, <1>5

\* A handler that is about to answer builds and posts nothing.
LEMMA AnswerSafe ==
    ASSUME Safe, NEW t \in Slaves, work' = work, work[t].op \in RequestOps,
           pc'[t] = "answer", own'[t].list = own[t].list
    PROVE  SlaveSafe(t)' /\ t \notin Builders' /\ t \notin Posters'
<1>1. work[t].op \in OpsAt("answer")
  BY DEF OpsAt
<1>2. t \notin Builders' /\ t \notin Posters'
  BY DEF Builders, Posters
<1>3. Stage(t)' /\ Handler(t)'
  BY <1>1, <1>2 DEF Safe, Stages, Stage, Handlers, Handler, Sender, Receiver
<1> QED BY <1>2, <1>3 DEF SlaveSafe

\* An answer changes only the result.
LEMMA Replying ==
    ASSUME Safe, NEW t \in Slaves, NEW r \in Results, Reply(t, r)
    PROVE  \E p \in Locals :
              /\ Go(t, "answer", p) /\ p.chat = own[t].chat /\ p.id = own[t].id /\ p.list = own[t].list
              /\ p.chat \in 0 .. Len(chats) /\ p.id \in 0 .. Len(messages)
<1>1. /\ own[t] \in Locals /\ own[t].chat \in 0 .. Len(chats) /\ own[t].id \in 0 .. Len(messages)
  BY DEF Safe, Types, References, Linked
<1> DEFINE p == [own[t] EXCEPT !.result = r]
<1>2. p \in Locals /\ p.chat = own[t].chat /\ p.id = own[t].id /\ p.list = own[t].list
  BY <1>1, SetResult
<1>3. Go(t, "answer", p)
  BY DEF Reply
<1> HIDE DEF p
<1> QED BY <1>1, <1>2, <1>3

\* A message is kept private when nothing changes for its chat.
LEMMA SameMessage ==
    ASSUME NEW i, KeptPrivate(i),
           messages'[i].chat = messages[i].chat, messages'[i].between = messages[i].between,
           messages'[i].parties = messages[i].parties, messages'[i].raced = messages[i].raced,
           chats'[messages[i].chat] = chats[messages[i].chat]
    PROVE  KeptPrivate(i)'
BY DEF KeptPrivate, Private

\* What happens to a group is no matter of the private chats.
LEMMA OnlyGroupChanged ==
    ASSUME Safe, NEW d \in DOMAIN chats, ~Private(d), DOMAIN chats' = DOMAIN chats,
           \A c \in DOMAIN chats \ {d} : chats'[c] = chats[c], chats'[d].name = chats[d].name,
           DOMAIN messages' = DOMAIN messages,
           \A i \in DOMAIN messages :
              /\ messages'[i].chat = messages[i].chat /\ messages'[i].between = messages[i].between
              /\ messages'[i].parties = messages[i].parties /\ messages'[i].raced = messages[i].raced
    PROVE  OfTwo' /\ Kept'
<1>1. OfTwo'
  BY DEF Safe, OfTwo, Private
<1>2. ASSUME NEW i \in DOMAIN messages PROVE KeptPrivate(i)'
  <2>1. KeptPrivate(i) /\ messages[i].chat \in DOMAIN chats
    BY DEF Safe, Kept, References, Linked
  <2>2. CASE messages[i].chat = d
    <3>1. messages[i].between = {} /\ messages[i].parties = {}
      BY <2>1, <2>2 DEF KeptPrivate
    <3> QED BY <2>2, <3>1 DEF KeptPrivate
  <2>3. CASE messages[i].chat # d
    BY <2>1, <2>3, SameMessage
  <2> QED BY <2>2, <2>3
<1> QED BY <1>1, <1>2 DEF Kept

\* A user leaves a group.
LEMMA RemoveFromGroupStep == ASSUME Safe, NEW t \in Slaves, RemoveFromGroup(t) PROVE Safe'
<1> DEFINE d == own[t].chat
<1>1. /\ pc[t] = "removeuser_from_group" /\ Reply(t, "OP_OK")
      /\ UNCHANGED <<curr_fd, work, requests>>
  BY DEF RemoveFromGroup
<1>2. d \in DOMAIN chats /\ ~Private(d)
  BY <1>1 DEF Safe, Handlers, Handler
<1>3. /\ chats' \in Seq(Chat) /\ Len(chats') = Len(chats) /\ DOMAIN chats' = DOMAIN chats
      /\ \A c \in DOMAIN chats \ {d} : chats'[c] = chats[c]
      /\ chats'[d].name = chats[d].name
      /\ messages' \in Seq(Message) /\ Len(messages') = Len(messages)
      /\ DOMAIN messages' = DOMAIN messages
      /\ \A i \in DOMAIN messages :
            /\ messages'[i].chat = messages[i].chat /\ messages'[i].between = messages[i].between
            /\ messages'[i].parties = messages[i].parties /\ messages'[i].raced = messages[i].raced
  BY <1>2, RemovedFromGroup DEF Safe, Of
<1>4. Len(chats) \in Nat /\ Len(messages) \in Nat
  BY DEF Safe, Types
<1>5. Grown
  BY <1>3, <1>4 DEF Grown
<1>6. PICK p \in Locals :
         /\ Go(t, "answer", p) /\ p.chat = own[t].chat /\ p.id = own[t].id /\ p.list = own[t].list
         /\ p.chat \in 0 .. Len(chats) /\ p.id \in 0 .. Len(messages)
  BY <1>1, Replying DEF Results
<1>7. /\ Types' /\ References' /\ OnlySlave(t) /\ pc'[t] = "answer" /\ own'[t] = p
  <2>1. \A i \in DOMAIN messages' : messages'[i].chat \in DOMAIN chats'
    BY <1>3 DEF Safe, References, Linked
  <2>2. "answer" \in PCs
    BY DEF PCs
  <2> QED BY <1>1, <1>3, <1>5, <1>6, <2>1, <2>2, GoingTypes DEF Safe
<1>8. SlaveSafe(t)' /\ t \notin Builders' /\ t \notin Posters'
  <2>1. work[t].op \in RequestOps
    BY <1>1, RequestFields DEF Safe
  <2> QED BY <1>1, <1>6, <1>7, <2>1, AnswerSafe
<1>9. OthersSafe(t)'
  <2>1. Apart(t, d)
    BY <1>2, <1>3, <1>8, NotAGroup DEF Apart, Safe, Built, Builds
  <2> QED BY <1>5, <1>7, <2>1, OtherSlaves
<1>10. OfTwo' /\ Kept'
  BY <1>2, <1>3, OnlyGroupChanged
<1> QED BY <1>7, <1>8, <1>9, <1>10, Together

\* A query that changes nothing and fails.
LEMMA QuietAnswer ==
    ASSUME Safe, NEW t \in Slaves, NEW r \in Results, Reply(t, r),
           pc[t] \notin {"idle", "stopped", "crashed", "exited"},
           UNCHANGED <<curr_fd, chats, messages, work, requests>>
    PROVE  Safe'
<1>1. Grown /\ chats' \in Seq(Chat) /\ messages' \in Seq(Message)
  BY SameTables DEF Safe
<1>2. PICK p \in Locals :
         /\ Go(t, "answer", p) /\ p.chat = own[t].chat /\ p.id = own[t].id /\ p.list = own[t].list
         /\ p.chat \in 0 .. Len(chats) /\ p.id \in 0 .. Len(messages)
  BY Replying
<1>3. /\ Types' /\ References' /\ OnlySlave(t) /\ pc'[t] = "answer" /\ own'[t] = p
  <2>1. \A i \in DOMAIN messages' : messages'[i].chat \in DOMAIN chats'
    BY DEF Safe, References, Linked
  <2>2. "answer" \in PCs
    BY DEF PCs
  <2> QED BY <1>1, <1>2, <2>1, <2>2, GoingTypes DEF Safe
<1>4. SlaveSafe(t)' /\ t \notin Builders' /\ t \notin Posters'
  <2>1. work[t].op \in RequestOps
    BY RequestFields DEF Safe
  <2> QED BY <1>2, <1>3, <2>1, AnswerSafe
<1>5. OthersSafe(t)'
  <2>1. Apart(t, 0)
    BY <1>4, NobodyAtZero DEF Apart, Safe, Built, Builds
  <2> QED BY <1>1, <1>3, <2>1, OtherSlaves
<1>6. OfTwo' /\ Kept'
  BY DEF Safe, OfTwo, Kept, KeptPrivate, Private
<1> QED BY <1>3, <1>4, <1>5, <1>6, Together

\* A new chat is nobody else's.
LEMMA NewChatStep ==
    ASSUME Safe, NEW t \in Slaves, NEW n \in Names \cup {NoName}, NEW v \in Names \cup {NoName},
           NewChat(t, n, v), Go(t, "insertsender", [own[t] EXCEPT !.chat = Len(chats) + 1]),
           UNCHANGED <<curr_fd, messages, work, requests>>,
           work[t].op \in OpsAt("insertsender"), n = NoName <=> work[t].op \in PostOps,
           n = NoName => own[t].partner \in Parties
    PROVE  Safe'
<1> DEFINE d == Len(chats) + 1
           o == [own[t] EXCEPT !.chat = d]
<1>1. /\ chats' \in Seq(Chat) /\ Len(chats') = d /\ DOMAIN chats' = DOMAIN chats \cup {d}
      /\ d \notin DOMAIN chats /\ \A c \in DOMAIN chats : chats'[c] = chats[c]
      /\ chats'[d].name = n /\ chats'[d].users = {}
  BY NewChatRow DEF Safe
<1>2. d \in Nat /\ Len(chats) \in Nat /\ Len(messages) \in Nat
  BY DEF Safe, Types
<1>3. Grown
  BY <1>1, <1>2 DEF Grown
<1>4. /\ o \in Locals /\ o.chat = d /\ o.list = own[t].list /\ o.partner = own[t].partner
      /\ o.id = own[t].id /\ o.id \in 0 .. Len(messages)
  <2>1. own[t] \in Locals /\ own[t].id \in 0 .. Len(messages)
    BY DEF Safe, Types, References, Linked
  <2> QED BY <1>2, <2>1, SetChat
<1> HIDE DEF o
<1>5. \A i \in DOMAIN messages : messages[i].chat \in DOMAIN chats
  BY DEF Safe, References, Linked
<1>6. /\ Types' /\ References' /\ OnlySlave(t) /\ pc'[t] = "insertsender" /\ own'[t] = o
      /\ Sender(t)' = Sender(t)
  <2>1. Go(t, "insertsender", o) /\ "insertsender" \in PCs
    BY DEF o, PCs
  <2>2. messages' \in Seq(Message) /\ \A i \in DOMAIN messages' : messages'[i].chat \in DOMAIN chats'
    BY <1>1, <1>5 DEF Safe, Types
  <2>3. o.chat \in 0 .. Len(chats') /\ o.id \in 0 .. Len(messages')
    BY <1>1, <1>2, <1>4
  <2> QED BY <1>1, <1>3, <1>4, <2>1, <2>2, <2>3, GoingTypes DEF Safe
<1>7. \A s \in Builders \cup Posters : own[s].chat \in DOMAIN chats /\ own[s].chat # d
  BY <1>1, NobodyAtZero
<1>8. OthersSafe(t)'
  <2>1. Apart(t, 0)
    BY <1>1, <1>4, <1>6, <1>7, NobodyAtZero DEF Apart, Safe, Built, Builds
  <2> QED BY <1>3, <1>6, <2>1, OtherSlaves
<1>9. SlaveSafe(t)'
  <2>1. t \notin Posters' /\ (t \in Builders' <=> n = NoName)
    BY <1>6 DEF Builders, Posters
  <2>2. Stage(t)'
    BY <1>6 DEF Safe, Stages, Stage, Sender, Receiver
  <2>3. d \in DOMAIN chats' /\ (n = NoName <=> chats'[d].name = NoName)
    BY <1>1
  <2>4. Handler(t)'
    BY <1>4, <1>6, <2>1, <2>3 DEF Safe, Handlers, Handler, Sender, Private
  <2>5. n = NoName => Builds(t)'
    <3>1. \A s \in (Builders' \cup Posters') \ {t} : own'[s].chat # d
      <4>1. \A s \in (Builders' \cup Posters') \ {t} : s \in Builders \cup Posters /\ own'[s] = own[s]
        BY <1>6 DEF Builders, Posters, OnlySlave
      <4> QED BY <1>7, <4>1
    <3> QED BY <1>1, <1>4, <1>5, <1>6, <2>3, <3>1 DEF Builds, Of, Private
  <2> QED BY <2>1, <2>2, <2>4, <2>5 DEF SlaveSafe
<1>10. OfTwo'
  <2>1. \A c \in DOMAIN chats : Private(c)' <=> Private(c)
    BY <1>1 DEF Private
  <2>2. Garbage \in Parties
    BY DEF Parties
  <2> QED BY <1>1, <2>1, <2>2 DEF Safe, OfTwo
<1>11. Kept'
  <2>1. ASSUME NEW i \in DOMAIN messages PROVE KeptPrivate(i)'
    BY <1>1, <1>5, SameMessage DEF Safe, Kept
  <2> QED BY <2>1 DEF Kept
<1> QED BY <1>6, <1>8, <1>9, <1>10, <1>11, Together

\* A group, or a private chat, is created.
LEMMA CreateStep == ASSUME Safe, NEW t \in Slaves, CreateGroup(t) \/ CreateChat(t) PROVE Safe'
<1>1. CASE CreateGroup(t)
  <2>1. work[t].op = "CREATEGROUP_OP" /\ Receiver(t) \in GroupNames /\ pc[t] = "creategroup"
    BY <1>1 DEF CreateGroup, Safe, Stages, Stage, OpsAt
  <2>2. Sender(t) \in UserNames
    BY <2>1, RequestFields DEF Safe
  <2>3. /\ Receiver(t) \in Names /\ Receiver(t) # NoName /\ Sender(t) \in Names
        /\ work[t].op \in OpsAt("insertsender") /\ work[t].op \notin PostOps
    BY <2>1, <2>2 DEF OpsAt, PostOps, Names
  <2>4. CASE Group(Receiver(t)) = {}
    BY <1>1, <2>3, <2>4, NewChatStep DEF CreateGroup
  <2>5. CASE Group(Receiver(t)) # {}
    BY <1>1, <2>1, <2>5, QuietAnswer DEF CreateGroup, Results
  <2> QED BY <2>4, <2>5
<1>2. CASE CreateChat(t)
  <2>1. work[t].op \in PostOps /\ own[t].partner \in Parties
    BY <1>2 DEF CreateChat, Safe, Stages, Stage, OpsAt, Handlers, Handler
  <2>2. work[t].op \in OpsAt("insertsender")
    BY <2>1 DEF OpsAt
  <2> QED BY <1>2, <2>1, <2>2, NewChatStep DEF CreateChat
<1> QED BY <1>1, <1>2

\* A user joins a group, or one of the two users of a private chat that chat.
LEMMA JoinStep == ASSUME Safe, NEW t \in Slaves, InsertSender(t) \/ InsertReceiver(t) PROVE Safe'
<1> DEFINE d == own[t].chat
<1>1. /\ pc[t] \in {"insertsender", "insertreceiver"} /\ UNCHANGED <<curr_fd, messages, work, requests>>
      /\ work[t].op \in RequestOps /\ Sender(t) \in UserNames /\ Sender(t) \in Parties
  <2>1. pc[t] \in {"insertsender", "insertreceiver"} /\ UNCHANGED <<curr_fd, messages, work, requests>>
    BY DEF InsertSender, InsertReceiver
  <2> QED BY <2>1, RequestFields DEF Safe, Parties, Names
<1>2. /\ own[t] \in Locals /\ d \in 0 .. Len(chats) /\ own[t].id \in 0 .. Len(messages)
      /\ Len(chats) \in Nat /\ Len(messages) \in Nat /\ messages \in Seq(Message)
  BY DEF Safe, Types, References, Linked
<1>3. t \in Builders <=> work[t].op \in PostOps
  BY <1>1 DEF Builders
<1>4. d \in DOMAIN chats
  BY <1>1, <1>3 DEF Safe, Built, Builds, Handlers, Handler, Builders, Stages, Stage, OpsAt
<1>5. PICK u \in Parties : JoinChat(t, u, d) /\ u = IF pc[t] = "insertsender" THEN Sender(t) ELSE own[t].partner
  <2>1. CASE InsertSender(t)
    BY <1>1, <2>1 DEF InsertSender
  <2>2. CASE InsertReceiver(t)
    <3>1. pc[t] = "insertreceiver" /\ JoinChat(t, own[t].partner, d)
      BY <2>2 DEF InsertReceiver
    <3>2. own[t].partner \in Parties
      BY <3>1, <1>3 DEF Safe, Stages, Stage, OpsAt, Handlers, Handler
    <3> QED BY <3>1, <3>2
  <2> QED BY <2>1, <2>2
<1>6. /\ chats' \in Seq(Chat) /\ Len(chats') = Len(chats) /\ DOMAIN chats' = DOMAIN chats
      /\ \A c \in DOMAIN chats \ {d} : chats'[c] = chats[c]
      /\ chats'[d].name = chats[d].name /\ chats'[d].users = chats[d].users \cup {u}
  <2>1. Types /\ u \in Parties /\ d \in DOMAIN chats
    BY <1>4, <1>5 DEF Safe
  <2>2. Joined(u, d)
    BY <1>5 DEF JoinChat, Joined
  <2> HIDE DEF d
  <2> QED BY <2>1, <2>2, JoinedChat
<1>7. Grown
  BY <1>1, <1>2, <1>6 DEF Grown
<1>8. \A i \in DOMAIN messages' : messages'[i].chat \in DOMAIN chats'
  BY <1>1, <1>6 DEF Safe, References, Linked
<1>9. CASE work[t].op \notin PostOps
  <2>1. pc[t] = "insertsender" /\ ~Private(d) /\ t \notin Builders
    <3>1. pc[t] = "insertsender"
      BY <1>1, <1>9 DEF Safe, Stages, Stage, OpsAt
    <3> QED BY <3>1, <1>3, <1>9 DEF Safe, Handlers, Handler
  <2>2. PICK r \in Results : Reply(t, r)
    <3>1. InsertSender(t) /\ work[t].op \in {"CREATEGROUP_OP", "ADDGROUP_OP"}
      BY <2>1, <1>9 DEF InsertReceiver, Safe, Stages, Stage, OpsAt
    <3> QED BY <3>1 DEF InsertSender, AfterSender, Results
  <2>3. PICK p \in Locals :
           /\ Go(t, "answer", p) /\ p.chat = own[t].chat /\ p.id = own[t].id /\ p.list = own[t].list
           /\ p.chat \in 0 .. Len(chats) /\ p.id \in 0 .. Len(messages)
    BY <2>2, Replying
  <2>4. /\ Types' /\ References' /\ OnlySlave(t) /\ pc'[t] = "answer" /\ own'[t] = p
    <3>1. "answer" \in PCs
      BY DEF PCs
    <3> QED BY <1>1, <1>2, <1>6, <1>7, <1>8, <2>3, <3>1, GoingTypes DEF Safe
  <2>5. SlaveSafe(t)' /\ t \notin Builders' /\ t \notin Posters'
    BY <1>1, <2>3, <2>4, AnswerSafe
  <2>6. OthersSafe(t)'
    <3>1. Apart(t, d)
      BY <1>1, <1>6, <2>1, <2>5, NotAGroup DEF Apart, Safe, Built, Builds
    <3> QED BY <1>7, <2>4, <3>1, OtherSlaves
  <2>7. OfTwo' /\ Kept'
    BY <1>1, <1>4, <1>6, <2>1, OnlyGroupChanged
  <2> QED BY <2>4, <2>5, <2>6, <2>7, Together
<1>10. CASE work[t].op \in PostOps
  <2>1. Builds(t) /\ own[t].partner \in Parties /\ Private(d)
    BY <1>3, <1>10 DEF Safe, Built, Builds, Handlers, Handler
  <2> DEFINE l == IF pc[t] = "insertsender" THEN "insertreceiver" ELSE AfterChat(t)
  <2>2. /\ Go(t, l, own[t]) /\ l \in PCs \ {"insertsender", "idle"} /\ work[t].op \in OpsAt(l)
        /\ l \in {"insertreceiver", "insertmessage", "postfile"}
        /\ l = "insertreceiver" <=> pc[t] = "insertsender"
    <3>1. CASE pc[t] = "insertsender"
      <4>1. InsertSender(t) /\ Go(t, l, own[t])
        BY <1>10, <3>1 DEF InsertReceiver, InsertSender, AfterSender, PostOps
      <4> QED BY <1>10, <3>1, <4>1 DEF PCs, OpsAt
    <3>2. CASE pc[t] = "insertreceiver"
      <4>1. Go(t, l, own[t])
        BY <3>2 DEF InsertReceiver, InsertSender, AfterSender
      <4> QED BY <1>10, <3>2, <4>1 DEF PCs, OpsAt, PostOps, AfterChat
    <3> QED BY <1>1, <3>1, <3>2
  <2> HIDE DEF l
  <2>3. /\ Types' /\ References' /\ OnlySlave(t) /\ pc'[t] = l /\ own'[t] = own[t] /\ Sender(t)' = Sender(t)
    BY <1>1, <1>2, <1>6, <1>7, <1>8, <2>2, GoingTypes DEF Safe
  <2>4. \A s \in (Builders \cup Posters) \ {t} : own[s].chat # d
    BY <2>1 DEF Builds
  <2>5. OthersSafe(t)'
    <3>1. Apart(t, d)
      BY <1>1, <1>6, <2>3, <2>4 DEF Apart, Safe, Built, Builds
    <3> QED BY <1>7, <2>3, <3>1, OtherSlaves
  <2>6. SlaveSafe(t)'
    <3>1. /\ t \in Builders' <=> l = "insertreceiver"
          /\ t \in Posters' <=> l # "insertreceiver"
      BY <1>1, <1>10, <2>2, <2>3 DEF Builders, Posters
    <3>2. Stage(t)'
      BY <1>1, <2>2, <2>3 DEF Safe, Stages, Stage, Sender, Receiver
    <3>3. Handler(t)'
      BY <1>1, <2>1, <2>2, <2>3 DEF Safe, Handlers, Handler, Sender
    <3>4. l = "insertreceiver" => Builds(t)'
      <4>1. SUFFICES ASSUME l = "insertreceiver" PROVE Builds(t)'
        OBVIOUS
      <4>2. chats[d].users = {} /\ u = Sender(t)
        BY <1>5, <2>1, <2>2, <4>1 DEF Builds, Of
      <4>3. \A s \in (Builders' \cup Posters') \ {t} : own'[s].chat # d
        <5>1. \A s \in (Builders' \cup Posters') \ {t} : s \in Builders \cup Posters /\ own'[s] = own[s]
          BY <2>3 DEF Builders, Posters, OnlySlave
        <5> QED BY <2>4, <5>1
      <4>4. /\ d \in DOMAIN chats' /\ chats'[d].name = NoName /\ chats'[d].users = {Sender(t)}
            /\ \A i \in DOMAIN messages' : messages'[i].chat # d
        BY <1>1, <1>4, <1>6, <2>1, <4>2 DEF Builds, Private
      <4> QED BY <2>3, <4>1, <4>3, <4>4 DEF Builds, Of, Private
    <3>5. l # "insertreceiver" => Posts(t)'
      <4>1. SUFFICES ASSUME l # "insertreceiver" PROVE Posts(t)'
        OBVIOUS
      <4>2. /\ chats[d].users \subseteq {Sender(t)} /\ {Sender(t)} \ own[t].gone \subseteq chats[d].users
            /\ u = own[t].partner
        BY <1>1, <1>5, <2>1, <2>2, <4>1 DEF Builds, Of
      <4>3. /\ d \in DOMAIN chats' /\ chats'[d].name = NoName
            /\ chats'[d].users \subseteq {Sender(t), own[t].partner}
            /\ {Sender(t), own[t].partner} \ own[t].gone \subseteq chats'[d].users
        BY <1>4, <1>6, <2>1, <4>2 DEF Private
      <4> QED BY <2>3, <4>3 DEF Posts, Of, Private
    <3> QED BY <3>1, <3>2, <3>3, <3>4, <3>5 DEF SlaveSafe
  <2>7. OfTwo'
    <3>1. chats'[d].users \subseteq {Sender(t), own[t].partner}
      BY <1>1, <1>5, <1>6, <2>1 DEF Builds, Of
    <3>2. \A c \in DOMAIN chats : Private(c)' <=> Private(c)
      BY <1>6 DEF Private
    <3> QED BY <1>1, <1>6, <2>1, <3>1, <3>2 DEF Safe, OfTwo
  <2>8. Kept'
    <3>1. ASSUME NEW i \in DOMAIN messages PROVE KeptPrivate(i)'
      <4>1. messages[i].chat # d /\ messages[i].chat \in DOMAIN chats /\ KeptPrivate(i)
        BY <2>1 DEF Builds, Safe, References, Linked, Kept
      <4> QED BY <1>1, <1>6, <4>1, SameMessage
    <3> QED BY <1>1, <3>1 DEF Kept
  <2> QED BY <2>3, <2>5, <2>6, <2>7, <2>8, Together
<1> QED BY <1>9, <1>10

\* A new message is in the chat its slave found or built, and holds what Posts says.
LEMMA PostStep ==
    ASSUME Safe, NEW t \in Slaves, t \in Posters, NEW f \in Files, NewMessage(t, f),
           UNCHANGED <<curr_fd, chats, work, requests>>,
           NEW l \in {"answer", "checkexistingchat", "creat"}, NEW o \in Locals, Go(t, l, o),
           o.chat = own[t].chat, o.list = own[t].list, work[t].op \in OpsAt(l),
           o.id = IF l = "creat" THEN Len(messages) + 1 ELSE own[t].id
    PROVE  Safe'
<1> DEFINE n == Len(messages) + 1
           d == own[t].chat
<1>1. Posts(t) /\ d \in DOMAIN chats /\ Sender(t) \in UserNames
  BY RequestFields DEF Safe, Posted, Posts, Posters
<1>2. /\ messages' \in Seq(Message) /\ Len(messages') = n
      /\ DOMAIN messages' = DOMAIN messages \cup {n} /\ n \notin DOMAIN messages
      /\ \A i \in DOMAIN messages : messages'[i] = messages[i]
      /\ messages'[n].chat = d
      /\ messages'[n].between = IF own[t].partner = NoName THEN {} ELSE {Sender(t), own[t].partner}
      /\ messages'[n].parties = messages'[n].between \ own[t].gone
      /\ messages'[n].raced = (messages'[n].between \cap own[t].gone # {})
  BY <1>1, NewMessageRow DEF Safe
<1>3. Len(chats) \in Nat /\ Len(messages) \in Nat /\ chats \in Seq(Chat)
  BY DEF Safe, Types
<1>4. Grown
  BY <1>2, <1>3 DEF Grown
<1>5. \A i \in DOMAIN messages' : messages'[i].chat \in DOMAIN chats'
  BY <1>1, <1>2 DEF Safe, References, Linked
<1>6. own[t].id \in 0 .. Len(messages) /\ own[t].chat \in 0 .. Len(chats)
  BY DEF Safe, References, Linked
<1>7. /\ Types' /\ References' /\ OnlySlave(t) /\ pc'[t] = l /\ own'[t] = o
      /\ Sender(t)' = Sender(t)
  <2>1. l \in PCs /\ o.chat \in 0 .. Len(chats') /\ o.id \in 0 .. Len(messages')
    BY <1>2, <1>3, <1>6 DEF PCs
  <2> QED BY <1>2, <1>3, <1>4, <1>5, <2>1, GoingTypes DEF Safe
<1>8. t \notin Builders' /\ t \notin Posters'
  BY <1>7 DEF Builders, Posters
<1>9. SlaveSafe(t)'
  <2>1. Stage(t)'
    BY <1>7 DEF Safe, Stages, Stage, Sender, Receiver
  <2>2. l = "creat" => o.id \in DOMAIN messages'
    BY <1>2
  <2>3. Handler(t)'
    BY <1>7, <1>8, <2>2 DEF Safe, Handlers, Handler, Sender
  <2> QED BY <1>8, <2>1, <2>3 DEF SlaveSafe
<1>10. OthersSafe(t)'
  <2>1. \A s \in Builders \ {t} : own[s].chat # d /\ \A i \in DOMAIN messages : messages[i].chat # own[s].chat
    BY DEF Safe, Built, Builds
  <2>2. Apart(t, 0)
    BY <1>2, <1>8, <2>1, NobodyAtZero DEF Apart
  <2> QED BY <1>4, <1>7, <2>2, OtherSlaves
<1>11. OfTwo'
  BY DEF Safe, OfTwo, Private
<1>12. Kept'
  <2>1. ASSUME NEW i \in DOMAIN messages PROVE KeptPrivate(i)'
    BY <1>2, SameMessage DEF Safe, Kept
  <2>2. ASSUME NEW i, i = n PROVE KeptPrivate(i)'
    <3>1. CASE own[t].partner = NoName
      BY <1>2, <2>2, <3>1 DEF KeptPrivate
    <3>2. CASE own[t].partner # NoName
      <4>1. /\ chats'[d].name = NoName /\ chats'[d].users \subseteq messages'[n].between
            /\ messages'[n].parties \subseteq chats'[d].users
        BY <1>1, <1>2, <3>2 DEF Posts, Of, Private
      <4>2. ~messages'[n].raced => messages'[n].parties = messages'[n].between
        BY <1>2
      <4>3. messages'[n].parties \subseteq messages'[n].between
        BY <1>2
      <4> QED BY <1>2, <2>2, <4>1, <4>2, <4>3 DEF KeptPrivate, Private
    <3> QED BY <3>1, <3>2
  <2> QED BY <1>2, <2>1, <2>2 DEF Kept
<1> QED BY <1>7, <1>9, <1>10, <1>11, <1>12, Together

\* A message, or the row of a file, is inserted.
LEMMA MessageStep == ASSUME Safe, NEW t \in Slaves, InsertMessage(t) \/ PostFile(t) PROVE Safe'
<1>1. /\ own[t] \in Locals /\ own[t].id \in Nat
  BY DEF Safe, Types, Locals
<1>2. CASE InsertMessage(t)
  <2>1. /\ pc[t] = "insertmessage" /\ NewMessage(t, "text") /\ "text" \in Files
        /\ UNCHANGED <<curr_fd, chats, work, requests>>
    BY <1>2 DEF InsertMessage, Files
  <2>2. t \in Posters /\ work[t].op \in OpsAt("answer") /\ work[t].op \in OpsAt("checkexistingchat")
    BY <2>1 DEF Posters, Safe, Stages, Stage, OpsAt, PostOps, RequestOps
  <2>3. CASE own[t].list # {}
    <3>1. Go(t, "checkexistingchat", own[t])
      BY <1>2, <2>3 DEF InsertMessage, AfterMessage
    <3> QED BY <1>1, <2>1, <2>2, <3>1, PostStep
  <2>4. CASE own[t].list = {}
    <3>1. Reply(t, "OP_OK")
      BY <1>2, <2>4 DEF InsertMessage, AfterMessage
    <3>2. PICK p \in Locals :
            Go(t, "answer", p) /\ p.chat = own[t].chat /\ p.id = own[t].id /\ p.list = own[t].list
      BY <3>1, Replying DEF Results
    <3> QED BY <2>1, <2>2, <3>2, PostStep
  <2> QED BY <2>3, <2>4
<1>3. CASE PostFile(t)
  <2> DEFINE o == [own[t] EXCEPT !.id = Len(messages) + 1]
  <2>1. /\ pc[t] = "postfile" /\ NewMessage(t, "missing") /\ "missing" \in Files
        /\ Go(t, "creat", o) /\ UNCHANGED <<curr_fd, chats, work, requests>>
    BY <1>3 DEF PostFile, Files
  <2>2. t \in Posters /\ work[t].op \in OpsAt("creat")
    BY <2>1 DEF Posters, Safe, Stages, Stage, OpsAt
  <2>3. /\ o \in Locals /\ o.chat = own[t].chat /\ o.list = own[t].list
        /\ o.id = Len(messages) + 1
    <3>1. Len(messages) + 1 \in Nat
      BY DEF Safe, Types
    <3> QED BY <1>1, <3>1, SetId
  <2> HIDE DEF o
  <2> QED BY <2>1, <2>2, <2>3, PostStep
<1> QED BY <1>2, <1>3

\* The contents of a file are no matter of who reads what.
LEMMA SaveStep ==
    ASSUME Safe, NEW t \in Slaves, NEW f \in Files, own[t].id \in DOMAIN messages,
           Saved(own[t].id, f), UNCHANGED <<curr_fd, chats, work, requests>>,
           NEW l \in {"answer", "fchmod", "write"}, NEW o \in Locals, Go(t, l, o),
           o.chat = own[t].chat, o.list = own[t].list, o.id = own[t].id, work[t].op \in OpsAt(l)
    PROVE  Safe'
<1>1. /\ messages' \in Seq(Message) /\ Len(messages') = Len(messages)
      /\ DOMAIN messages' = DOMAIN messages
      /\ \A i \in DOMAIN messages :
            /\ messages'[i].chat = messages[i].chat /\ messages'[i].between = messages[i].between
            /\ messages'[i].parties = messages[i].parties /\ messages'[i].raced = messages[i].raced
  BY SavedMessage DEF Safe
<1>2. /\ Len(chats) \in Nat /\ Len(messages) \in Nat /\ chats \in Seq(Chat)
      /\ o.chat \in 0 .. Len(chats) /\ o.id \in 0 .. Len(messages)
  BY DEF Safe, Types, References, Linked
<1>3. Grown
  BY <1>1, <1>2 DEF Grown
<1>4. /\ Types' /\ References' /\ OnlySlave(t) /\ pc'[t] = l /\ own'[t] = o
      /\ Sender(t)' = Sender(t)
  <2>1. l \in PCs /\ \A i \in DOMAIN messages' : messages'[i].chat \in DOMAIN chats'
    BY <1>1 DEF PCs, Safe, References, Linked
  <2> QED BY <1>1, <1>2, <1>3, <2>1, GoingTypes DEF Safe
<1>5. t \notin Builders' /\ t \notin Posters'
  BY <1>4 DEF Builders, Posters
<1>6. SlaveSafe(t)'
  <2>1. Stage(t)'
    BY <1>4 DEF Safe, Stages, Stage, Sender, Receiver
  <2>2. Handler(t)'
    BY <1>1, <1>4, <1>5 DEF Safe, Handlers, Handler, Sender
  <2> QED BY <1>5, <2>1, <2>2 DEF SlaveSafe
<1>7. OthersSafe(t)'
  <2>1. \A s \in Builders \ {t} : \A i \in DOMAIN messages : messages[i].chat # own[s].chat
    BY DEF Safe, Built, Builds
  <2>2. Apart(t, 0)
    BY <1>1, <1>5, <2>1, NobodyAtZero DEF Apart
  <2> QED BY <1>3, <1>4, <2>2, OtherSlaves
<1>8. OfTwo'
  BY DEF Safe, OfTwo, Private
<1>9. Kept'
  BY <1>1, SameMessage DEF Safe, Kept
<1> QED BY <1>4, <1>6, <1>7, <1>8, <1>9, Together

\* The file is created, given its permissions, and written.
LEMMA FileStep == ASSUME Safe, NEW t \in Slaves, Creat(t) \/ Fchmod(t) \/ WriteFile(t) PROVE Safe'
<1>1. own[t] \in Locals
  BY DEF Safe, Types
<1>2. /\ own[t].id \in DOMAIN messages /\ work[t].op = "POSTFILE_OP"
      /\ UNCHANGED <<curr_fd, chats, work, requests>>
  BY DEF Creat, Fchmod, WriteFile, Safe, Stages, Stage, OpsAt, Handlers, Handler
<1>3. /\ work[t].op \in OpsAt("fchmod") /\ work[t].op \in OpsAt("write")
      /\ work[t].op \in OpsAt("answer")
  BY <1>2 DEF OpsAt, RequestOps
<1>4. CASE Exit(t, "crashed") /\ UNCHANGED messages
  BY <1>2, <1>4, ExitStep DEF Safe, Types
<1>5. ASSUME NEW f \in Files, NEW l \in {"fchmod", "write"}, Saved(own[t].id, f), Go(t, l, own[t])
      PROVE  Safe'
  BY <1>1, <1>2, <1>3, <1>5, SaveStep
<1>6. FileOf(own[t].id) \in Files /\ {"locked", "empty"} \subseteq Files
  BY <1>2, MessageFields DEF FileOf, Files, Safe
<1>7. CASE Creat(t)
  BY <1>4, <1>5, <1>6, <1>7 DEF Creat
<1>8. CASE Fchmod(t)
  BY <1>5, <1>6, <1>8 DEF Fchmod
<1>9. CASE WriteFile(t)
  <2>1. Written(t) \subseteq Files
    BY DEF Written, Files
  <2>2. ASSUME NEW f \in Files, Saved(own[t].id, f), Reply(t, "OP_OK") PROVE Safe'
    <3>1. PICK p \in Locals :
            Go(t, "answer", p) /\ p.chat = own[t].chat /\ p.id = own[t].id /\ p.list = own[t].list
      BY <2>2, Replying DEF Results
    <3> QED BY <1>2, <1>3, <2>2, <3>1, SaveStep
  <2> QED BY <1>4, <1>9, <2>1, <2>2 DEF WriteFile
<1> QED BY <1>7, <1>8, <1>9

\* A user who unregisters leaves the chats being built, the chats of the messages being
\* posted and the parties of those that were, at once.
LEMMA RemoveUserStep == ASSUME Safe, NEW t \in Slaves, RemoveUser(t) PROVE Safe'
<1> DEFINE u == Sender(t)
<1>1. /\ pc[t] = "removeuser" /\ UNCHANGED <<work, requests>>
      /\ curr_fd' = [curr_fd EXCEPT ![u] = Absent] /\ pc' = [pc EXCEPT ![t] = "answer"]
      /\ own' = [s \in Slaves |-> IF s = t THEN [own[s] EXCEPT !.result = "OP_OK"]
                                  ELSE IF pc[s] = "idle" THEN own[s]
                                  ELSE [own[s] EXCEPT !.gone = @ \cup {u}]]
  BY DEF RemoveUser
<1>2. u \in UserNames /\ work[t].op \in RequestOps
  BY <1>1, RequestFields DEF Safe
<1>3. /\ chats' \in Seq(Chat) /\ Len(chats') = Len(chats) /\ DOMAIN chats' = DOMAIN chats
      /\ \A c \in DOMAIN chats : /\ chats'[c].name = chats[c].name
                                 /\ chats'[c].users = chats[c].users \ {u}
      /\ messages' \in Seq(Message) /\ Len(messages') = Len(messages)
      /\ DOMAIN messages' = DOMAIN messages
      /\ \A i \in DOMAIN messages :
            /\ messages'[i].chat = messages[i].chat /\ messages'[i].between = messages[i].between
            /\ messages'[i].parties = messages[i].parties \ {u}
            /\ messages'[i].raced = messages[i].raced
  BY RemovedUser DEF Safe
<1>4. own \in [Slaves -> Locals] /\ Len(chats) \in Nat /\ Len(messages) \in Nat
  BY DEF Safe, Types
<1>5. Grown
  BY <1>3, <1>4 DEF Grown
<1> HIDE DEF u
<1>6. \A s \in Slaves :
         /\ own'[s] \in Locals /\ own'[s].chat = own[s].chat /\ own'[s].list = own[s].list
         /\ own'[s].partner = own[s].partner /\ own'[s].id = own[s].id
         /\ s # t => own'[s].gone \subseteq own[s].gone \cup {u}
         /\ s # t /\ pc[s] # "idle" => own'[s].gone = own[s].gone \cup {u}
         /\ s # t /\ pc[s] = "idle" => own'[s] = own[s]
  <2> TAKE s \in Slaves
  <2>1. CASE s = t
    <3> DEFINE p == [own[t] EXCEPT !.result = "OP_OK"]
    <3>1. own'[t] = p
      BY <1>1
    <3>2. /\ p \in Locals /\ p.chat = own[t].chat /\ p.list = own[t].list
          /\ p.partner = own[t].partner /\ p.id = own[t].id
      BY <1>4, SetResult DEF Results
    <3> HIDE DEF p
    <3> QED BY <2>1, <3>1, <3>2
  <2>2. CASE s # t /\ pc[s] = "idle"
    <3>1. own'[s] = own[s]
      BY <1>1, <2>2
    <3> QED BY <1>4, <2>2, <3>1
  <2>3. CASE s # t /\ pc[s] # "idle"
    <3> DEFINE v == own[s].gone \cup {u}
               p == [own[s] EXCEPT !.gone = v]
    <3>1. own'[s] = p
      BY <1>1, <2>3
    <3>2. own[s] \in Locals /\ v \in SUBSET UserNames
      BY <1>2, <1>4 DEF Locals
    <3> HIDE DEF v
    <3>3. /\ p \in Locals /\ p.chat = own[s].chat /\ p.list = own[s].list
          /\ p.partner = own[s].partner /\ p.id = own[s].id /\ p.gone = v
      BY <3>2, SetGone
    <3> HIDE DEF p
    <3> QED BY <2>3, <3>1, <3>3 DEF v
  <2> QED BY <2>1, <2>2, <2>3
<1>7. own' = [s \in Slaves |-> own'[s]]
  BY <1>1
<1>8. /\ pc' \in [Slaves -> PCs] /\ pc'[t] = "answer" /\ \A s \in Slaves \ {t} : pc'[s] = pc[s]
      /\ curr_fd' \in [UserNames -> Fds \cup {DISCONNECTED_FD, Absent}]
      /\ work' = work /\ requests' = requests
  BY <1>1, <1>2 DEF Safe, Types, PCs
<1>9. Types' /\ References'
  <2>1. own' \in [Slaves -> Locals]
    BY <1>6, <1>7
  <2>2. Types'
    BY <1>3, <1>8, <2>1 DEF Safe, Types
  <2> QED BY <1>3, <1>6, <2>2 DEF Safe, References, Linked
<1>10. t \notin Builders' /\ t \notin Posters'
  BY <1>8 DEF Builders, Posters
<1>11. SlaveSafe(t)'
  <2>1. work[t].op \in OpsAt("answer")
    BY <1>2 DEF OpsAt
  <2>2. Stage(t)' /\ Handler(t)'
    BY <1>6, <1>8, <1>10, <2>1 DEF Safe, Stages, Stage, Handlers, Handler, Sender, Receiver
  <2> QED BY <1>10, <2>2 DEF SlaveSafe
<1>12. ASSUME NEW s \in Slaves \ {t}
       PROVE  /\ Stage(s)' /\ Handler(s)' /\ (s \in Builders' <=> s \in Builders)
              /\ (s \in Posters' <=> s \in Posters) /\ Sender(s)' = Sender(s)
  BY <1>5, <1>6, <1>8, OtherSlave DEF Safe, Stages, Handlers, Sender
<1>13. OthersSafe(t)'
  <2>1. ASSUME NEW s \in Slaves \ {t}, s \in Builders' PROVE Builds(s)'
    <3>1. s \in Builders /\ Builds(s) /\ pc[s] # "idle"
      BY <1>12, <2>1 DEF Safe, Built, Builders
    <3>2. \A r \in (Builders' \cup Posters') \ {s} : own'[r].chat # own'[s].chat
      <4>1. \A r \in (Builders' \cup Posters') \ {s} : r \in Slaves /\ r \in (Builders \cup Posters) \ {s}
        BY <1>10, <1>12 DEF Builders, Posters
      <4> QED BY <1>6, <3>1, <4>1 DEF Builds
    <3>3. own'[s].gone = own[s].gone \cup {u} /\ own'[s].chat = own[s].chat
      BY <1>6, <3>1
    <3> QED BY <1>3, <1>8, <1>12, <3>1, <3>2, <3>3 DEF Builds, Private, Of
  <2>2. ASSUME NEW s \in Slaves \ {t}, s \in Posters' PROVE Posts(s)'
    <3>1. s \in Posters /\ Posts(s) /\ pc[s] # "idle"
      BY <1>12, <2>2 DEF Safe, Posted, Posters
    <3>2. /\ own'[s].gone = own[s].gone \cup {u} /\ own'[s].chat = own[s].chat
          /\ own'[s].partner = own[s].partner
      BY <1>6, <3>1
    <3> QED BY <1>3, <1>12, <3>1, <3>2 DEF Posts, Private, Of
  <2> QED BY <1>12, <2>1, <2>2 DEF OthersSafe, SlaveSafe
<1>14. OfTwo'
  <2>1. ASSUME NEW c \in DOMAIN chats, Private(c)'
        PROVE  \E v, w \in Parties : chats'[c].users \subseteq {v, w}
    <3>1. Private(c)
      BY <1>3, <2>1 DEF Private
    <3>2. PICK v, w \in Parties : chats[c].users \subseteq {v, w}
      BY <3>1 DEF Safe, OfTwo
    <3> QED BY <1>3, <3>2
  <2> QED BY <1>3, <2>1 DEF OfTwo
<1>15. Kept'
  <2>1. ASSUME NEW i \in DOMAIN messages PROVE KeptPrivate(i)'
    <3>1. messages[i].chat \in DOMAIN chats /\ KeptPrivate(i)
      BY DEF Safe, References, Linked, Kept
    <3> QED BY <1>3, <3>1 DEF KeptPrivate, Private
  <2> QED BY <1>3, <2>1 DEF Kept
<1> QED BY <1>9, <1>11, <1>13, <1>14, <1>15, Together

-----------------------------------------------------------------------------
(* The steps after terminate_db.                                           *)

\* No chat changes, and of a message only its file.
LEMMA SameRows ==
    ASSUME Lasting, chats' = chats, DOMAIN messages' = DOMAIN messages,
           \A i \in DOMAIN messages :
              /\ messages'[i].chat = messages[i].chat /\ messages'[i].between = messages[i].between
              /\ messages'[i].parties = messages[i].parties /\ messages'[i].raced = messages[i].raced
    PROVE  OfTwo' /\ Kept' /\ \A i \in DOMAIN messages' : messages'[i].chat \in DOMAIN chats'
<1>1. OfTwo'
  BY DEF Lasting, OfTwo, Private
<1>2. Kept'
  BY SameMessage DEF Lasting, Kept
<1> QED BY <1>1, <1>2 DEF Lasting, Linked

\* The local variables of a handler that only goes on.
Alike(t, o) == /\ o \in Locals /\ o.chat = own[t].chat
               /\ o.id = own[t].id /\ o.astray = own[t].astray

LEMMA AlikeLocals ==
    ASSUME Types, NEW t \in Slaves
    PROVE  /\ Alike(t, own[t])
           /\ \A v \in Results : Alike(t, [own[t] EXCEPT !.result = v])
           /\ \A v \in Nat : Alike(t, [own[t] EXCEPT !.no_fd = v])
           /\ Alike(t, [own[t] EXCEPT !.list = {Garbage}])
           /\ \A v \in own[t].list : Alike(t, [own[t] EXCEPT !.partner = v, !.list = @ \ {v}])
<1>1. own[t] \in Locals /\ {Garbage} \in SUBSET Parties /\ own[t].list \subseteq Parties
  BY DEF Types, Locals, Parties
<1>2. \A v \in Results : Alike(t, [own[t] EXCEPT !.result = v])
  BY <1>1, SetResult DEF Alike
<1>3. \A v \in Nat : Alike(t, [own[t] EXCEPT !.no_fd = v])
  BY <1>1, SetNoFd DEF Alike
<1>4. Alike(t, [own[t] EXCEPT !.list = {Garbage}])
  BY <1>1, SetList DEF Alike
<1>5. ASSUME NEW v \in own[t].list PROVE Alike(t, [own[t] EXCEPT !.partner = v, !.list = @ \ {v}])
  <2>1. v \in Parties
    BY <1>1
  <2> QED BY <1>1, <2>1, SetPartner DEF Alike
<1> QED BY <1>1, <1>2, <1>3, <1>4, <1>5 DEF Alike

\* A query that terminate_db keeps from the database leads to one that the request may
\* be at, with the same local variables, but for the number of a file.
StoppedQuery(t) == SkippedWrite(t) \/ FailedRead(t) \/ OpenFile(t)

Steady(t, l, o) ==
    /\ l \in PCs \ {"idle", "getuserfd"} /\ work[t].op \in OpsAt(l)
    /\ \/ Alike(t, o)
       \/ o \in Locals /\ o.chat = own[t].chat /\ o.astray /\ pc[t] = "postfile" /\ l = "creat"

LEMMA StoppedFrame ==
    ASSUME NEW t, StoppedQuery(t)
    PROVE  /\ UNCHANGED <<curr_fd, chats, messages, last, work, requests, terminate_queries>>
           /\ pc[t] \notin {"idle", "creat", "fchmod", "write", "answer", "stopped", "crashed", "exited"}
BY DEF StoppedQuery, SkippedWrite, FailedRead, OpenFile, tables

LEMMA StoppedGoes ==
    ASSUME Types, Stages, Rows, NEW t \in Slaves, StoppedQuery(t)
    PROVE  \/ Exit(t, "crashed")
           \/ \E l, o : Go(t, l, o) /\ Steady(t, l, o)
<1> DEFINE op == work[t].op
           goal == \/ Exit(t, "crashed")
                   \/ \E l, p : Go(t, l, p) /\ Steady(t, l, p)
<1> SUFFICES goal
  OBVIOUS
<1>1. \A l, p : l \in PCs \ {"idle", "getuserfd"} /\ op \in OpsAt(l) /\ Alike(t, p) /\ Go(t, l, p) => goal
  BY DEF Steady
<1>2. Exit(t, "crashed") => goal
  OBVIOUS
<1>3. op \in OpsAt(pc[t]) /\ op \in RequestOps /\ pc[t] \in PCs
  BY StoppedFrame, RequestFields DEF Stages, Stage, Types
<1>4. ASSUME NEW i \in LastRows(t), pc[t] = "postfile",
             Go(t, "creat", [own[t] EXCEPT !.id = i, !.astray = TRUE])
      PROVE  goal
  <2> DEFINE q == [own[t] EXCEPT !.id = i]
             p == [q EXCEPT !.astray = TRUE]
  <2>1. i \in Nat
    BY RowsAssumption DEF LastRows, Rows
  <2>2. own[t] \in Locals
    BY DEF Types
  <2>3. q \in Locals /\ q.chat = own[t].chat
    BY <2>1, <2>2, SetId
  <2> HIDE DEF q
  <2>4. p \in Locals /\ p.chat = q.chat /\ p.astray = TRUE
    BY <2>3 DEF Locals
  <2>5. Go(t, "creat", p)
    BY <1>4 DEF q
  <2> HIDE DEF p
  <2>6. op \in OpsAt("creat") /\ "creat" \in PCs
    BY <1>3, <1>4 DEF OpsAt, PCs
  <2> QED BY <1>4, <2>3, <2>4, <2>5, <2>6 DEF Steady
<1> HIDE DEF goal
<1>5. \A r \in Results : Reply(t, r) => goal
  <2>1. op \in OpsAt("answer") /\ "answer" \in PCs
    BY <1>3 DEF OpsAt, PCs
  <2> QED BY <1>1, <2>1, AlikeLocals DEF Reply
<1>6. {"OP_OK", "OP_FAIL", "OP_NICK_ALREADY", "OP_NICK_UNKNOWN", "OP_NO_SUCH_FILE"} \subseteq Results
  BY DEF Results
<1>7. \A l \in PCs \ {"idle", "getuserfd"} : op \in OpsAt(l) /\ Go(t, l, own[t]) => goal
  BY <1>1, AlikeLocals
<1>8. CASE OpenFile(t)
  BY <1>2, <1>5, <1>6, <1>8 DEF OpenFile
<1>9. CASE SkippedWrite(t)
  <2>1. CASE pc[t] = "insertuser"
    <3>1. op \in OpsAt("disconnectuser") /\ "disconnectuser" \in PCs
      BY <1>3, <2>1 DEF OpsAt, PCs
    <3>2. Go(t, "disconnectuser", [own[t] EXCEPT !.result = "OP_OK"])
      BY <1>9, <2>1 DEF SkippedWrite
    <3> QED BY <1>1, <1>6, <3>1, <3>2, AlikeLocals
  <2>2. CASE pc[t] = "disconnectuser"
    <3>1. op \in OpsAt("answer") /\ "answer" \in PCs
      BY <1>3 DEF OpsAt, PCs
    <3> QED BY <1>7, <1>9, <2>2, <3>1 DEF SkippedWrite
  <2>3. CASE pc[t] \in {"removeuser", "removeuser_from_group", "delgroup"}
    BY <1>5, <1>6, <1>9, <2>3 DEF SkippedWrite
  <2>4. CASE pc[t] \in {"creategroup", "createchat"}
    <3>1. op \in OpsAt("insertsender") /\ "insertsender" \in PCs
      BY <1>3, <2>4 DEF OpsAt, PCs
    <3> QED BY <1>7, <1>9, <2>4, <3>1 DEF SkippedWrite
  <2>5. CASE pc[t] = "insertsender"
    <3>1. /\ op \notin {"CREATEGROUP_OP", "ADDGROUP_OP"} => op \in OpsAt("insertreceiver")
          /\ "insertreceiver" \in PCs
      BY <1>3, <2>5 DEF OpsAt, PCs
    <3> QED BY <1>5, <1>6, <1>7, <1>9, <2>5, <3>1 DEF SkippedWrite, AfterSender
  <2>6. CASE pc[t] = "insertreceiver"
    <3>1. op \in OpsAt(AfterChat(t)) /\ AfterChat(t) \in PCs \ {"idle", "getuserfd"}
      BY <1>3, <2>6 DEF OpsAt, PostOps, PCs, AfterChat
    <3> QED BY <1>7, <1>9, <2>6, <3>1 DEF SkippedWrite
  <2>7. CASE pc[t] = "insertmessage"
    <3>1. op \in OpsAt("checkexistingchat") /\ "checkexistingchat" \in PCs
      BY <1>3, <2>7 DEF OpsAt, PostOps, PCs
    <3> QED BY <1>5, <1>6, <1>7, <1>9, <2>7, <3>1 DEF SkippedWrite, AfterMessage
  <2>8. CASE pc[t] = "postfile"
    BY <1>4, <1>9, <2>8 DEF SkippedWrite
  <2> QED BY <1>9, <2>1, <2>2, <2>3, <2>4, <2>5, <2>6, <2>7, <2>8 DEF SkippedWrite
<1>10. CASE FailedRead(t)
  <2>1. CASE pc[t] = "checkexistname"
    <3>1. /\ op = "REGISTER_OP" => op \in OpsAt("insertuser") /\ op \in OpsAt("disconnectuser")
          /\ "insertuser" \in PCs /\ "disconnectuser" \in PCs
      BY DEF OpsAt, PCs
    <3>2. \/ op = "REGISTER_OP" /\ Go(t, "insertuser", own[t])
          \/ op = "REGISTER_OP" /\ Go(t, "disconnectuser", [own[t] EXCEPT !.result = "OP_NICK_ALREADY"])
          \/ Reply(t, "OP_NICK_ALREADY")
      BY <1>10, <2>1 DEF FailedRead
    <3> QED BY <1>1, <1>5, <1>6, <1>7, <3>1, <3>2, AlikeLocals
  <2>2. CASE pc[t] \in {"checkexistinggroup", "getfile"}
    BY <1>5, <1>6, <1>10, <2>2 DEF FailedRead
  <2>3. CASE pc[t] = "getnumberonlineusergroup"
    <3>1. op \in OpsAt("getonlineuser_in_group") /\ "getonlineuser_in_group" \in PCs
      BY <1>3, <2>3 DEF OpsAt, PCs
    <3> QED BY <1>2, <1>5, <1>6, <1>7, <1>10, <2>3, <3>1 DEF FailedRead
  <2>4. CASE pc[t] = "getonlineuser_in_group"
    <3>1. op \in OpsAt(AfterMember(t)) /\ AfterMember(t) \in PCs \ {"idle", "getuserfd"}
      BY <1>3, <2>4 DEF OpsAt, PCs, AfterMember
    <3> QED BY <1>5, <1>6, <1>7, <1>10, <2>4, <3>1 DEF FailedRead
  <2>5. CASE pc[t] = "getgroupowner"
    <3>1. op \in OpsAt("delgroup") /\ "delgroup" \in PCs
      BY <1>3, <2>5 DEF OpsAt, PCs
    <3> QED BY <1>5, <1>6, <1>7, <1>10, <2>5, <3>1 DEF FailedRead
  <2>6. CASE pc[t] = "getuserfd"
    <3>1. op \in OpsAt("checkexistinggroup") /\ "checkexistinggroup" \in PCs
      BY <1>3, <2>6 DEF OpsAt, PCs
    <3> QED BY <1>7, <1>10, <2>6, <3>1 DEF FailedRead
  <2>7. CASE pc[t] = "getnumberonlineuser"
    <3>1. op \in OpsAt("gettotaluser") /\ "gettotaluser" \in PCs
      BY <1>3, <2>7 DEF OpsAt, PCs
    <3>2. \/ Exit(t, "crashed")
          \/ \E n \in 0 .. 2 : Go(t, "gettotaluser", [own[t] EXCEPT !.no_fd = n])
      BY <1>10, <2>7 DEF FailedRead
    <3>3. ASSUME NEW n \in 0 .. 2, Go(t, "gettotaluser", [own[t] EXCEPT !.no_fd = n]) PROVE goal
      <4>1. Alike(t, [own[t] EXCEPT !.no_fd = n])
        <5>1. n \in Nat
          OBVIOUS
        <5> QED BY <5>1, AlikeLocals
      <4> QED BY <1>1, <3>1, <3>3, <4>1
    <3> QED BY <1>2, <3>2, <3>3
  <2>8. CASE pc[t] = "gettotaluser"
    <3>1. op \in OpsAt("getallusername") /\ "getallusername" \in PCs
      BY <1>3, <2>8 DEF OpsAt, PCs
    <3> QED BY <1>2, <1>5, <1>6, <1>7, <1>10, <2>8, <3>1 DEF FailedRead
  <2>9. CASE pc[t] = "getallusername"
    <3>1. op \in OpsAt("checkexistingchat") /\ "checkexistingchat" \in PCs
      BY <1>3, <2>9 DEF OpsAt, PostOps, PCs
    <3>2. Go(t, "checkexistingchat", [own[t] EXCEPT !.list = {Garbage}])
      BY <1>10, <2>9 DEF FailedRead
    <3> QED BY <1>1, <3>1, <3>2, AlikeLocals
  <2>10. CASE pc[t] = "checkexistingchat"
    <3>1. op \in OpsAt("createchat") /\ "createchat" \in PCs
      BY <1>3, <2>10 DEF OpsAt, PCs
    <3>2. \E v \in own[t].list :
             Go(t, "createchat", [own[t] EXCEPT !.partner = v, !.list = @ \ {v}])
      BY <1>10, <2>10 DEF FailedRead
    <3> QED BY <1>1, <3>1, <3>2, AlikeLocals
  <2> QED BY <1>10, <2>1, <2>2, <2>3, <2>4, <2>5, <2>6, <2>7, <2>8, <2>9, <2>10 DEF FailedRead
<1> QED BY <1>8, <1>9, <1>10 DEF StoppedQuery

\* What they leave of the invariant.
LEMMA StoppedGoing ==
    ASSUME Lasting, NEW t \in Slaves, NEW l \in PCs \ {"idle", "getuserfd"}, NEW o \in Locals,
           Go(t, l, o), o.chat = own[t].chat, work[t].op \in OpsAt(l),
           UNCHANGED <<curr_fd, chats, work, requests>>,
           messages' \in Seq(Message), DOMAIN messages' = DOMAIN messages,
           \A i \in DOMAIN messages :
              /\ messages'[i].chat = messages[i].chat /\ messages'[i].between = messages[i].between
              /\ messages'[i].parties = messages[i].parties /\ messages'[i].raced = messages[i].raced
    PROVE  Lasting'
<1>1. /\ pc' \in [Slaves -> PCs] /\ own' \in [Slaves -> Locals] /\ pc'[t] = l /\ own'[t] = o
      /\ \A s \in Slaves \ {t} : pc'[s] = pc[s] /\ own'[s] = own[s]
  BY Going DEF Lasting
<1>2. OfTwo' /\ Kept' /\ \A i \in DOMAIN messages' : messages'[i].chat \in DOMAIN chats'
  BY SameRows
<1>3. Types'
  BY <1>1 DEF Lasting, Types
<1>4. Linked'
  <2>1. \A s \in Slaves : own'[s].chat = own[s].chat
    BY <1>1
  <2> QED BY <1>2, <2>1 DEF Lasting, Linked
<1>5. Stages'
  BY <1>1 DEF Lasting, Stages, Stage, Receiver, Sender
<1> QED BY <1>2, <1>3, <1>4, <1>5 DEF Lasting

LEMMA StoppedExit ==
    ASSUME Lasting, NEW t \in Slaves, Exit(t, "crashed"),
           UNCHANGED <<curr_fd, chats, messages, work, requests>>
    PROVE  Lasting'
<1>1. pc' \in [Slaves -> PCs] /\ own' = own /\ \A s \in Slaves : pc'[s] \in {"crashed", "exited"}
  BY Exiting DEF Lasting
<1>2. OfTwo' /\ Kept' /\ \A i \in DOMAIN messages' : messages'[i].chat \in DOMAIN chats'
  BY SameRows
<1>3. Types'
  BY <1>1 DEF Lasting, Types
<1>4. Linked'
  BY <1>1, <1>2 DEF Lasting, Linked
<1>5. Stages'
  <2>1. \A s \in Slaves : work[s].op \in OpsAt("crashed") /\ work[s].op \in OpsAt("exited")
    BY RequestFields DEF Lasting, OpsAt
  <2> QED BY <1>1, <2>1 DEF Lasting, Stages, Stage, Sender, Receiver
<1> QED BY <1>2, <1>3, <1>4, <1>5 DEF Lasting

LEMMA StoppedStep ==
    ASSUME Lasting, Rows, terminate_queries, NEW t \in Slaves, Slave(t)
    PROVE  Lasting'
<1>1. own[t] \in Locals /\ Alike(t, own[t]) /\ \A r \in Results : Alike(t, [own[t] EXCEPT !.result = r])
  BY AlikeLocals DEF Lasting, Types
<1>2. CASE Begin(t)
  <2>1. UNCHANGED tables /\ Types' /\ Linked' /\ OnlySlave(t) /\ Stage(t)'
    BY <1>2, Beginning DEF Lasting
  <2>2. chats' = chats /\ messages' = messages
    BY <2>1 DEF tables
  <2>3. Stages'
    BY <2>1 DEF Lasting, Stages, Stage, OnlySlave, Receiver, Sender
  <2> QED BY <2>1, <2>2, <2>3, SameRows DEF Lasting
<1>3. CASE Answer(t)
  <2>1. /\ chats' = chats /\ messages' = messages /\ curr_fd' = curr_fd /\ requests' = requests
        /\ Go(t, "stopped", own[t])
    BY <1>3 DEF Answer, tables
  <2>2. /\ pc' \in [Slaves -> PCs] /\ own' \in [Slaves -> Locals] /\ pc'[t] = "stopped"
        /\ \A s \in Slaves \ {t} : pc'[s] = pc[s]
        /\ \A s \in Slaves : own'[s] = own[s]
    <3>1. "stopped" \in PCs
      BY DEF PCs
    <3> QED BY <1>1, <2>1, <3>1, Going DEF Lasting
  <2>3. /\ work' \in [Slaves -> Request \cup {NoWork}] /\ work'[t] = NoWork
        /\ \A s \in Slaves \ {t} : work'[s] = work[s]
    BY <1>3 DEF Answer, Lasting, Types
  <2>4. NoWork.op = "none" /\ "none" \in OpsAt("stopped")
    BY DEF NoWork, OpsAt
  <2>5. Types' /\ Stages'
    BY <2>1, <2>2, <2>3, <2>4 DEF Lasting, Types, Stages, Stage, Receiver, Sender
  <2>6. Linked'
    BY <2>1, <2>2 DEF Lasting, Linked
  <2> QED BY <2>1, <2>5, <2>6, SameRows DEF Lasting
<1>4. CASE Exit(t, "crashed") /\ UNCHANGED <<curr_fd, chats, messages, work, requests>>
  BY <1>4, StoppedExit
<1>5. CASE StoppedQuery(t)
  <2>1. UNCHANGED <<curr_fd, chats, messages, work, requests>>
    BY <1>5, StoppedFrame
  <2>2. ASSUME NEW l, NEW o, Go(t, l, o), Steady(t, l, o) PROVE Lasting'
    <3>1. messages \in Seq(Message)
      BY DEF Lasting, Types
    <3> QED BY <2>1, <2>2, <3>1, StoppedGoing DEF Steady, Alike
  <2> QED BY <1>4, <1>5, <2>1, <2>2, StoppedGoes DEF Lasting
<1>6. CASE Creat(t) \/ Fchmod(t) \/ WriteFile(t)
  <2>1. /\ work[t].op = "POSTFILE_OP" /\ UNCHANGED <<curr_fd, chats, work, requests>>
    BY <1>6 DEF Creat, Fchmod, WriteFile, Lasting, Stages, Stage, OpsAt
  <2>2. /\ work[t].op \in OpsAt("fchmod") /\ work[t].op \in OpsAt("write")
        /\ work[t].op \in OpsAt("answer") /\ {"fchmod", "write", "answer"} \subseteq PCs
    BY <2>1 DEF OpsAt, RequestOps, PCs
  <2>3. ASSUME NEW f \in Files, NEW l \in {"fchmod", "write", "answer"}, NEW o, Saved(own[t].id, f),
               Go(t, l, o), Alike(t, o)
        PROVE  Lasting'
    <3>1. /\ messages' \in Seq(Message) /\ DOMAIN messages' = DOMAIN messages
          /\ \A i \in DOMAIN messages :
                /\ messages'[i].chat = messages[i].chat /\ messages'[i].between = messages[i].between
                /\ messages'[i].parties = messages[i].parties /\ messages'[i].raced = messages[i].raced
      BY <2>3, SavedMessage DEF Lasting
    <3> QED BY <2>1, <2>2, <2>3, <3>1, StoppedGoing DEF Alike
  <2>4. FileOf(own[t].id) \in Files /\ {"locked", "empty"} \subseteq Files /\ Written(t) \subseteq Files
    <3>1. {"text", "locked", "empty", "whole", "cut", "alien"} \subseteq Files
      BY DEF Files
    <3> QED BY <3>1, MessageFields DEF FileOf, Written, Lasting
  <2>5. CASE Creat(t)
    BY <1>1, <1>4, <2>1, <2>3, <2>4, <2>5 DEF Creat
  <2>6. CASE Fchmod(t)
    BY <1>1, <2>3, <2>4, <2>6 DEF Fchmod
  <2>7. CASE WriteFile(t)
    <3>1. "OP_OK" \in Results
      BY DEF Results
    <3>2. \/ \E f \in Files : Saved(own[t].id, f) /\ Reply(t, "OP_OK")
          \/ Exit(t, "crashed") /\ UNCHANGED messages
      BY <2>4, <2>7 DEF WriteFile
    <3>3. ASSUME NEW f \in Files, Saved(own[t].id, f), Reply(t, "OP_OK") PROVE Lasting'
      BY <1>1, <2>3, <3>1, <3>3 DEF Reply
    <3> QED BY <1>4, <2>1, <3>2, <3>3
  <2> QED BY <1>6, <2>5, <2>6, <2>7
<1>7. \/ Begin(t) \/ Answer(t) \/ StoppedQuery(t) \/ Creat(t) \/ Fchmod(t) \/ WriteFile(t)
  BY DEF Slave, StoppedQuery, CheckExistName, InsertUser, DisconnectUser, RemoveUser, CreateGroup,
     CheckExistingGroup, CountOnlineInGroup, FindInGroup, RemoveFromGroup, GetGroupOwner, DelGroup,
     GetUserFd, GetNumberOnlineUser, GetTotalUser, GetAllUserName, CheckExistingChat, CreateChat,
     InsertSender, InsertReceiver, InsertMessage, PostFile, GetFile
<1> QED BY <1>2, <1>3, <1>5, <1>6, <1>7

-----------------------------------------------------------------------------
(* Every step, for all of the invariant but the files.                     *)

\* The tables begin empty.
LEMMA InitIInv == Init => IInv
<1> SUFFICES ASSUME Init PROVE IInv
  OBVIOUS
<1>1. /\ chats = <<>> /\ messages = <<>> /\ DOMAIN chats = {} /\ DOMAIN messages = {}
      /\ Len(chats) = 0 /\ Len(messages) = 0 /\ requests = 0
      /\ \A t \in Slaves : pc[t] = "idle" /\ work[t] = NoWork /\ own[t] = Fresh
  BY DEF Init
<1>2. /\ Fresh.chat = 0 /\ Fresh.id = 0 /\ Fresh.list = {} /\ Fresh.astray = FALSE
      /\ NoWork.op = "none" /\ "none" \in OpsAt("idle")
  BY DEF Fresh, NoWork, OpsAt
<1>3. Types
  BY <1>1, FreshLocals DEF Init, Types, PCs
<1>4. Builders = {} /\ Posters = {}
  BY <1>1 DEF Builders, Posters
<1>5. Stages /\ Handlers
  BY <1>1, <1>2, <1>4 DEF Stages, Stage, Handlers, Handler
<1>6. Linked /\ References
  BY <1>1, <1>2 DEF References, Linked
<1>7. OfTwo /\ Kept /\ Kempt
  BY <1>1 DEF OfTwo, Kept, Kempt
<1>8. Rows
  BY DEF Init, Rows
<1>9. Astray
  BY <1>1, <1>2 DEF Astray
<1> QED BY <1>3, <1>4, <1>5, <1>6, <1>7, <1>8, <1>9 DEF IInv, Lasting, Safe, Built, Posted

\* The slaves while the database runs.
LEMMA RunningStep ==
    ASSUME Safe, ~terminate_queries, NEW t \in Slaves, Slave(t)
    PROVE  Safe'
<1>1. CASE Query(t)
  BY <1>1, QueryStep
<1>2. CASE Begin(t)
  BY <1>2, BeginStep
<1>3. CASE Answer(t)
  BY <1>3, AnswerStep
<1>4. CASE RemoveUser(t)
  BY <1>4, RemoveUserStep
<1>5. CASE CreateGroup(t) \/ CreateChat(t)
  BY <1>5, CreateStep
<1>6. CASE RemoveFromGroup(t)
  BY <1>6, RemoveFromGroupStep
<1>7. CASE InsertSender(t) \/ InsertReceiver(t)
  BY <1>7, JoinStep
<1>8. CASE InsertMessage(t) \/ PostFile(t)
  BY <1>8, MessageStep
<1>9. CASE Creat(t) \/ Fchmod(t) \/ WriteFile(t)
  BY <1>9, FileStep
<1>10. ~SkippedWrite(t) /\ ~FailedRead(t)
  BY DEF SkippedWrite, FailedRead
<1> QED BY <1>1, <1>2, <1>3, <1>4, <1>5, <1>6, <1>7, <1>8, <1>9, <1>10 DEF Slave, Query

\* A step that no slave makes.
NoSlave == UNCHANGED <<chats, messages, pc, work, own>>

LEMMA NoSlaveStep ==
    ASSUME NoSlave, Types'
    PROVE  (Lasting => Lasting') /\ (Safe => Safe')
<1>1. Builders' = Builders /\ Posters' = Posters
  BY DEF NoSlave, Builders, Posters
<1>2. (Linked <=> Linked') /\ (References <=> References')
  BY DEF NoSlave, References, Linked
<1>3. (Stages <=> Stages') /\ (Handlers <=> Handlers')
  BY <1>1 DEF NoSlave, Stages, Stage, Handlers, Handler, Sender, Receiver, Private
<1>4. (OfTwo <=> OfTwo') /\ (Kept <=> Kept')
  BY DEF NoSlave, OfTwo, Kept, KeptPrivate, Private
<1>5. (Built <=> Built') /\ (Posted <=> Posted')
  BY <1>1 DEF NoSlave, Built, Builds, Posted, Posts, Sender, Private, Of
<1> QED BY <1>2, <1>3, <1>4, <1>5 DEF Lasting, Safe

LEMMA StopStep ==
    ASSUME Types, Terminate \/ UNCHANGED vars \/ (\E fd \in Fds : GoOffline(fd) \/ \E u \in UserNames : GoOnline(u, fd))
    PROVE  NoSlave /\ Types' /\ last' = last /\ (terminate_queries' = terminate_queries \/ terminate_queries' = TRUE)
<1>1. CASE Terminate
  BY <1>1 DEF Terminate, NoSlave, tables, Types
<1>2. CASE UNCHANGED vars
  BY <1>2 DEF vars, tables, NoSlave, Types
<1>3. CASE \E fd \in Fds : GoOffline(fd) \/ \E u \in UserNames : GoOnline(u, fd)
  <2>1. PICK fd \in Fds : GoOffline(fd) \/ \E u \in UserNames : GoOnline(u, fd)
    BY <1>3
  <2>2. /\ UNCHANGED <<chats, messages, last, terminate_queries, pc, work, own>> /\ requests' = requests + 1
        /\ curr_fd' \in [UserNames -> Fds \cup {DISCONNECTED_FD, Absent}]
    BY <2>1 DEF GoOffline, GoOnline, Disconnected, Types
  <2> QED BY <2>2 DEF NoSlave, Types
<1> QED BY <1>1, <1>2, <1>3

\* The flag is only set.
LEMMA FlagStep ==
    ASSUME NEW t \in Slaves, Slave(t)
    PROVE  terminate_queries' = terminate_queries
BY DEF Slave, Begin, Answer, CheckExistName, InsertUser, DisconnectUser, RemoveUser, CreateGroup,
     CheckExistingGroup, CountOnlineInGroup, FindInGroup, RemoveFromGroup, GetGroupOwner, DelGroup,
     GetUserFd, GetNumberOnlineUser, GetTotalUser, GetAllUserName, CheckExistingChat, CreateChat,
     InsertSender, InsertReceiver, InsertMessage, PostFile, Creat, Fchmod, WriteFile, GetFile,
     OpenFile, SkippedWrite, FailedRead

\* The number of the row inserted last.
LEMMA RowsStep ==
    ASSUME Types, Rows, NEW t \in Slaves, Slave(t)
    PROVE  Rows'
<1>1. Len(chats) + 1 \in Nat /\ Len(messages) + 1 \in Nat
  BY DEF Types
<1>2. \A i \in Nat \cup {OtherRow} : Inserted(t, i) => last' \in [Slaves -> Nat \cup {OtherRow}]
  BY DEF Rows, Inserted
<1>3. last' \in [Slaves -> Nat \cup {OtherRow}]
  <2>1. CASE InsertUser(t)
    BY <1>2, <2>1 DEF InsertUser, Inserted, Rows
  <2>2. CASE CreateGroup(t) \/ CreateChat(t)
    BY <1>1, <1>2, <2>2 DEF CreateGroup, CreateChat, NewChat, Rows
  <2>3. CASE InsertSender(t) \/ InsertReceiver(t)
    BY <1>2, <2>3 DEF InsertSender, InsertReceiver, JoinChat, Rows
  <2>4. CASE InsertMessage(t) \/ PostFile(t)
    BY <1>1, <1>2, <2>4 DEF InsertMessage, PostFile, NewMessage
  <2>5. CASE Query(t) /\ ~InsertUser(t)
    BY <2>5 DEF Query, CheckExistName, DisconnectUser, CheckExistingGroup,
       CountOnlineInGroup, FindInGroup, GetGroupOwner, DelGroup, GetUserFd, GetNumberOnlineUser,
       GetTotalUser, GetAllUserName, CheckExistingChat, GetFile, OpenFile, tables, Rows
  <2>6. CASE \/ Begin(t) \/ Answer(t) \/ RemoveUser(t) \/ RemoveFromGroup(t) \/ Creat(t) \/ Fchmod(t)
             \/ WriteFile(t) \/ SkippedWrite(t) \/ FailedRead(t)
    BY <2>6 DEF Begin, Answer, RemoveUser, RemoveFromGroup, Creat, Fchmod, WriteFile, SkippedWrite,
       FailedRead, tables, Rows
  <2> QED BY <2>1, <2>2, <2>3, <2>4, <2>5, <2>6 DEF Slave, Query
<1> QED BY <1>3, FlagStep DEF Rows

-----------------------------------------------------------------------------
(* Every step, for the files.                                              *)

\* The queries that write neither a message nor a file, while the database runs.
Running(t) ==
    \/ CheckExistName(t) \/ InsertUser(t) \/ DisconnectUser(t) \/ CheckExistingGroup(t)
    \/ CountOnlineInGroup(t) \/ FindInGroup(t) \/ GetGroupOwner(t) \/ DelGroup(t)
    \/ GetUserFd(t) \/ GetNumberOnlineUser(t) \/ GetTotalUser(t) \/ GetAllUserName(t)
    \/ CheckExistingChat(t) \/ GetFile(t) \/ CreateGroup(t) \/ CreateChat(t)
    \/ InsertSender(t) \/ InsertReceiver(t)

LEMMA RunningFrame ==
    ASSUME NEW t, Running(t)
    PROVE  /\ messages' = messages /\ ~terminate_queries
           /\ pc[t] \notin {"idle", "creat", "fchmod", "write", "answer", "stopped", "crashed", "exited"}
           /\ Exit(t, "crashed") \/ \E l, o : Go(t, l, o)
BY DEF Running, CheckExistName, InsertUser, DisconnectUser, CheckExistingGroup,
   CountOnlineInGroup, FindInGroup, GetGroupOwner, DelGroup, GetUserFd, GetNumberOnlineUser,
   GetTotalUser, GetAllUserName, CheckExistingChat, GetFile, CreateGroup, CreateChat, InsertSender,
   InsertReceiver, AfterSender, tables, Reply

\* The steps of a slave, by what they do to the messages.
LEMMA SlaveKinds ==
    ASSUME NEW t, Slave(t)
    PROVE  \/ Running(t) \/ StoppedQuery(t) \/ Begin(t) \/ Answer(t)
           \/ RemoveUser(t) \/ RemoveFromGroup(t) \/ InsertMessage(t) \/ PostFile(t)
           \/ Creat(t) \/ Fchmod(t) \/ WriteFile(t)
BY DEF Slave, Running, StoppedQuery

\* While the process runs, a step of slave t is its own.
LEMMA SlavesMove ==
    ASSUME Types, Stages, Rows, NEW t \in Slaves, Slave(t), Up'
    PROVE  /\ pc[t] \notin {"crashed", "exited"}
           /\ \A s \in Slaves \ {t} :
                 pc'[s] = pc[s] /\ own'[s].id = own[s].id /\ own'[s].astray = own[s].astray
<1>1. ~Exit(t, "crashed")
  BY DEF Exit, Up
<1>2. ASSUME pc[t] \notin {"crashed", "exited"}, \E l, o : Go(t, l, o)
      PROVE  /\ pc[t] \notin {"crashed", "exited"}
             /\ \A s \in Slaves \ {t} :
                 pc'[s] = pc[s] /\ own'[s].id = own[s].id /\ own'[s].astray = own[s].astray
  BY <1>2 DEF Go, Types
<1>3. CASE Running(t)
  BY <1>1, <1>2, <1>3, RunningFrame
<1>4. CASE StoppedQuery(t)
  BY <1>1, <1>2, <1>4, StoppedFrame, StoppedGoes
<1>5. CASE Begin(t)
  <2>1. pc[t] = "idle" /\ \E l, o : Go(t, l, o)
    BY <1>5 DEF Begin, Reply
  <2> QED BY <1>2, <2>1
<1>6. CASE \/ Answer(t) \/ RemoveFromGroup(t) \/ InsertMessage(t) \/ PostFile(t)
           \/ Creat(t) \/ Fchmod(t) \/ WriteFile(t)
  <2>1. pc[t] \notin {"crashed", "exited"} /\ \E l, o : Go(t, l, o)
    BY <1>1, <1>6 DEF Answer, RemoveFromGroup, InsertMessage, AfterMessage, PostFile, Creat, Fchmod,
       WriteFile, Reply
  <2> QED BY <1>2, <2>1
<1>7. CASE RemoveUser(t)
  <2>1. \A s \in Slaves : own[s] \in Locals
    BY DEF Types
  <2>2. ASSUME NEW s \in Slaves \ {t} PROVE own'[s].id = own[s].id /\ own'[s].astray = own[s].astray
    <3>1. own'[s] = IF pc[s] = "idle" THEN own[s] ELSE [own[s] EXCEPT !.gone = @ \cup {Sender(t)}]
      BY <1>7 DEF RemoveUser
    <3> QED BY <2>1, <3>1 DEF Locals
  <2>3. /\ pc[t] = "removeuser" /\ \A s \in Slaves \ {t} : pc'[s] = pc[s]
    BY <1>7 DEF RemoveUser, Types
  <2> QED BY <2>2, <2>3
<1> QED BY <1>3, <1>4, <1>5, <1>6, <1>7, SlaveKinds

\* Nobody takes a number that is not his while the database runs.
LEMMA RunningKeeps ==
    ASSUME Types, NEW t \in Slaves, Running(t), own[t].astray = FALSE
    PROVE  \A s \in Slaves : own'[s].astray => own[s].astray
<1>1. own[t] \in Locals /\ own \in [Slaves -> Locals]
  BY DEF Types
<1>2. \A l, o : Go(t, l, o) /\ o.astray = FALSE => \A s \in Slaves : own'[s].astray => own[s].astray
  BY <1>1 DEF Go
<1>3. /\ \A v : [own[t] EXCEPT !.result = v].astray = FALSE
      /\ \A v : [own[t] EXCEPT !.chat = v].astray = FALSE
      /\ \A v : [own[t] EXCEPT !.n = v].astray = FALSE
      /\ \A v : [own[t] EXCEPT !.no_fd = v].astray = FALSE
      /\ \A v : [own[t] EXCEPT !.list = v].astray = FALSE
      /\ \A v : [own[t] EXCEPT !.id = v].astray = FALSE
  BY <1>1 DEF Locals
<1>4. CASE Exit(t, "crashed")
  BY <1>4 DEF Exit
<1>5. ASSUME NEW r, Reply(t, r) PROVE \A s \in Slaves : own'[s].astray => own[s].astray
  BY <1>2, <1>3, <1>5 DEF Reply
<1>6. CASE CheckExistName(t) \/ InsertUser(t) \/ DisconnectUser(t)
  BY <1>2, <1>3, <1>5, <1>6 DEF CheckExistName, InsertUser, DisconnectUser
<1>7. CASE CheckExistingGroup(t) \/ CountOnlineInGroup(t) \/ FindInGroup(t)
  BY <1>2, <1>3, <1>5, <1>7 DEF CheckExistingGroup, CountOnlineInGroup, FindInGroup
<1>8. CASE GetGroupOwner(t) \/ DelGroup(t) \/ GetUserFd(t) \/ GetNumberOnlineUser(t)
  BY <1>2, <1>3, <1>4, <1>5, <1>8 DEF GetGroupOwner, DelGroup, GetUserFd, GetNumberOnlineUser
<1>9. CASE GetTotalUser(t) \/ GetAllUserName(t)
  BY <1>2, <1>3, <1>4, <1>5, <1>9 DEF GetTotalUser, GetAllUserName
<1>10. CASE GetFile(t) \/ CreateGroup(t) \/ CreateChat(t)
  BY <1>2, <1>3, <1>5, <1>10 DEF GetFile, CreateGroup, CreateChat
<1>11. CASE InsertSender(t) \/ InsertReceiver(t)
  BY <1>2, <1>5, <1>11 DEF InsertSender, InsertReceiver, AfterSender
<1>12. CASE CheckExistingChat(t)
  <2>1. PICK p \in own[t].list :
           LET q == [own[t] EXCEPT !.partner = p, !.list = @ \ {p}]
           IN  \/ Go(t, "createchat", q)
               \/ \E c \in PrivateChats(Sender(t), p) : Go(t, AfterChat(t), [q EXCEPT !.chat = c])
    BY <1>12 DEF CheckExistingChat
  <2> DEFINE q == [own[t] EXCEPT !.partner = p, !.list = @ \ {p}]
  <2>2. q.astray = FALSE /\ \A c : [q EXCEPT !.chat = c].astray = FALSE
    BY <1>1 DEF Locals
  <2>3. \/ Go(t, "createchat", q)
        \/ \E c \in PrivateChats(Sender(t), p) : Go(t, AfterChat(t), [q EXCEPT !.chat = c])
    BY <2>1
  <2> HIDE DEF q
  <2> QED BY <1>2, <2>2, <2>3
<1> QED BY <1>6, <1>7, <1>8, <1>9, <1>10, <1>11, <1>12 DEF Running

LEMMA AstrayStep ==
    ASSUME Types, Linked, Stages, Rows, Astray, NEW t \in Slaves, Slave(t)
    PROVE  Astray'
<1>1. own \in [Slaves -> Locals] /\ own[t] \in Locals /\ terminate_queries' = terminate_queries
  BY FlagStep DEF Types
<1>2. CASE Exit(t, "crashed")
  <2>1. own' = own /\ \A s \in Slaves : pc'[s] \in {"crashed", "exited"}
    BY <1>2, Exiting
  <2> QED BY <1>1, <2>1 DEF Astray
<1>3. CASE ~terminate_queries
  <2>1. \A s \in Slaves : own[s].astray = FALSE
    BY <1>1, <1>3 DEF Astray, Locals
  <2> SUFFICES \A s \in Slaves : ~own'[s].astray
    BY DEF Astray
  <2>2. ASSUME NEW l, NEW o, Go(t, l, o), o.astray = FALSE PROVE \A s \in Slaves : ~own'[s].astray
    BY <1>1, <2>1, <2>2 DEF Go
  <2>3. /\ \A v : [own[t] EXCEPT !.result = v].astray = FALSE
        /\ \A v : [own[t] EXCEPT !.id = v].astray = FALSE /\ Fresh.astray = FALSE
    BY <1>1, <2>1 DEF Locals, Fresh
  <2>4. CASE \E r : Reply(t, r)
    BY <2>2, <2>3, <2>4 DEF Reply
  <2>5. CASE Running(t)
    BY <2>1, <2>5, RunningKeeps
  <2>6. CASE StoppedQuery(t)
    <3>1. OpenFile(t)
      BY <1>3, <2>6 DEF StoppedQuery, SkippedWrite, FailedRead
    <3> QED BY <1>2, <1>3, <2>4, <3>1 DEF OpenFile, Astray
  <2>7. CASE Begin(t)
    BY <2>1, <2>7, Beginning DEF OnlySlave
  <2>8. CASE Answer(t)
    BY <1>3, <2>2, <2>3, <2>8 DEF Answer
  <2>9. CASE RemoveUser(t)
    <3>1. \A s \in Slaves : own'[s] = own[s] \/ \E v : \/ own'[s] = [own[s] EXCEPT !.result = v]
                                                     \/ own'[s] = [own[s] EXCEPT !.gone = v]
      BY <2>9 DEF RemoveUser
    <3>2. ASSUME NEW s \in Slaves PROVE ~own'[s].astray
      <4>1. own[s] \in Locals /\ own[s].astray = FALSE
        BY <1>1, <2>1
      <4>2. \A v : ~[own[s] EXCEPT !.result = v].astray /\ ~[own[s] EXCEPT !.gone = v].astray
        BY <4>1 DEF Locals
      <4> QED BY <3>1, <4>1, <4>2
    <3> QED BY <3>2
  <2>10. CASE RemoveFromGroup(t)
    BY <2>4, <2>10 DEF RemoveFromGroup
  <2>11. CASE InsertMessage(t)
    BY <2>1, <2>2, <2>4, <2>11 DEF InsertMessage, AfterMessage
  <2>12. CASE PostFile(t)
    BY <2>2, <2>3, <2>12 DEF PostFile
  <2>13. CASE (Creat(t) \/ Fchmod(t) \/ WriteFile(t)) /\ ~Exit(t, "crashed")
    BY <2>1, <2>2, <2>4, <2>13 DEF Creat, Fchmod, WriteFile
  <2>14. Exit(t, "crashed") => \A s \in Slaves : ~own'[s].astray
    BY <2>1, Exiting
  <2> QED BY <2>5, <2>6, <2>7, <2>8, <2>9, <2>10, <2>11, <2>12, <2>13, <2>14, SlaveKinds
<1>4. CASE terminate_queries
  <2>1. ASSUME NEW l \in PCs, NEW o \in Locals, Go(t, l, o),
               o.astray => l \in {"creat", "fchmod", "write", "answer", "stopped"}
        PROVE  Astray'
    <3>1. /\ pc'[t] = l /\ own'[t] = o
          /\ \A s \in Slaves \ {t} : pc'[s] = pc[s] /\ own'[s] = own[s]
      BY <2>1, Going
    <3> QED BY <1>1, <1>4, <2>1, <3>1 DEF Astray
  <2>2. CASE StoppedQuery(t)
    <3>1. ASSUME NEW l, NEW o, Go(t, l, o), Steady(t, l, o) PROVE Astray'
      <4>1. l \in PCs /\ o \in Locals /\ (o.astray = own[t].astray \/ l = "creat")
        BY <3>1 DEF Steady, Alike
      <4>2. ~own[t].astray
        BY <2>2, StoppedFrame DEF Astray
      <4> QED BY <2>1, <3>1, <4>1, <4>2
    <3> QED BY <1>2, <2>2, <3>1, StoppedGoes
  <2>3. CASE Begin(t)
    BY <1>1, <2>3, Beginning DEF Astray, OnlySlave
  <2>4. {"fchmod", "write", "answer", "stopped"} \subseteq PCs
    BY DEF PCs
  <2>5. CASE Answer(t)
    BY <1>1, <1>4, <2>1, <2>4, <2>5 DEF Answer
  <2>6. CASE Creat(t) \/ Fchmod(t)
    BY <1>1, <1>2, <2>1, <2>4, <2>6 DEF Creat, Fchmod
  <2>7. CASE WriteFile(t)
    <3>1. [own[t] EXCEPT !.result = "OP_OK"] \in Locals
      BY <1>1, SetResult DEF Results
    <3>2. \/ Exit(t, "crashed")
          \/ Go(t, "answer", [own[t] EXCEPT !.result = "OP_OK"])
      BY <2>7 DEF WriteFile, Reply
    <3> QED BY <1>2, <2>1, <2>4, <3>1, <3>2
  <2>8. /\ ~Running(t) /\ ~RemoveUser(t) /\ ~RemoveFromGroup(t) /\ ~InsertMessage(t)
        /\ ~PostFile(t)
    BY <1>4, RunningFrame DEF RemoveUser, RemoveFromGroup, InsertMessage, PostFile
  <2> QED BY <2>2, <2>3, <2>5, <2>6, <2>7, <2>8, SlaveKinds
<1> QED BY <1>3, <1>4

\* A step of slave t that lets go of no file: what was held by t is held still, ...
LEMMA NobodyLetsGo ==
    ASSUME Types, Stages, Rows, Kempt, NEW t \in Slaves, Slave(t), Up',
           DOMAIN messages' = DOMAIN messages,
           \A i \in DOMAIN messages : messages'[i].file = messages[i].file,
           \A i \in DOMAIN messages : Holds(t, i) => Holds(t, i)' /\ (own[t].astray => own'[t].astray)
    PROVE  Kempt'
<1>1. \A s \in Slaves \ {t} :
         pc'[s] = pc[s] /\ own'[s].id = own[s].id /\ own'[s].astray = own[s].astray
  BY SlavesMove
<1>2. ASSUME NEW i \in DOMAIN messages, NEW s \in Slaves, Holds(s, i) PROVE Holds(s, i)'
  <2>1. CASE s = t
    BY <1>2, <2>1
  <2>2. CASE s # t
    BY <1>1, <1>2, <2>2 DEF Holds
  <2> QED BY <2>1, <2>2
<1>3. ASSUME NEW i \in DOMAIN messages, NEW s \in Slaves, own[s].id = i, own[s].astray
      PROVE  own'[s].id = i /\ own'[s].astray
  <2>1. Holds(s, i)
    BY <1>3 DEF Holds
  <2>2. CASE s = t
    BY <1>3, <2>1, <2>2 DEF Holds
  <2>3. CASE s # t
    BY <1>1, <1>3, <2>3
  <2> QED BY <2>2, <2>3
<1> QED BY <1>2, <1>3 DEF Kempt

\* ... and the steps that save one.
LEMMA SavingKeeps ==
    ASSUME Types, Stages, Rows, Kempt, NEW t \in Slaves, Creat(t) \/ Fchmod(t) \/ WriteFile(t), Up'
    PROVE  Kempt'
<1>1. /\ \A s \in Slaves \ {t} :
            pc'[s] = pc[s] /\ own'[s].id = own[s].id /\ own'[s].astray = own[s].astray
      /\ ~Exit(t, "crashed")
  BY SlavesMove DEF Slave, Exit, Up
<1>2. own[t] \in Locals /\ own'[t].id = own[t].id /\ own'[t].astray = own[t].astray
  <2>1. own[t] \in Locals
    BY DEF Types
  <2>2. CASE Creat(t) \/ Fchmod(t)
    BY <1>1, <2>1, <2>2 DEF Creat, Fchmod, Go, Types
  <2>3. CASE WriteFile(t)
    <3> DEFINE p == [own[t] EXCEPT !.result = "OP_OK"]
    <3>1. p.id = own[t].id /\ p.astray = own[t].astray
      BY <2>1 DEF Locals
    <3>2. Go(t, "answer", p)
      BY <1>1, <2>3 DEF WriteFile, Reply
    <3> HIDE DEF p
    <3> QED BY <2>1, <3>1, <3>2 DEF Go, Types
  <2> QED BY <2>2, <2>3
<1> DEFINE d == own[t].id
           marks == {"missing", "locked", "empty", "alien"}
<1>3. PICK f \in Files :
         /\ Saved(d, f)
         /\ f \in marks => pc'[t] \in {"fchmod", "write"} \/ f = "alien"
         /\ f = "alien" => own[t].astray \/ f = FileOf(d)
  <2>1. FileOf(d) \in Files /\ {"locked", "empty", "whole", "cut", "alien"} \subseteq Files
    <3>1. {"text", "locked", "empty", "whole", "cut", "alien"} \subseteq Files
      BY DEF Files
    <3> QED BY <3>1, MessageFields DEF FileOf
  <2>2. CASE Creat(t)
    <3>1. pc'[t] = "fchmod" /\ Saved(d, IF FileOf(d) \in {"missing", "locked"} THEN "locked" ELSE "empty")
      BY <1>1, <2>2 DEF Creat, Go, Types
    <3> HIDE DEF d
    <3> QED BY <2>1, <3>1
  <2>3. CASE Fchmod(t)
    <3>1. pc'[t] = "write" /\ Saved(d, IF FileOf(d) = "locked" THEN "empty" ELSE FileOf(d))
      BY <2>3 DEF Fchmod, Go, Types
    <3> HIDE DEF d
    <3> QED BY <2>1, <3>1
  <2>4. CASE WriteFile(t)
    <3>1. PICK f \in Written(t) : Saved(d, f)
      BY <1>1, <2>4 DEF WriteFile
    <3> HIDE DEF d
    <3>2. f \in {"whole", "cut", "alien"} /\ (f = "alien" => own[t].astray \/ f = FileOf(d))
      BY <3>1 DEF Written, d
    <3> QED BY <2>1, <3>1, <3>2
  <2> QED BY <2>2, <2>3, <2>4
<1>4. /\ DOMAIN messages' = DOMAIN messages
      /\ \A i \in DOMAIN messages :
            messages'[i].file = IF i = d /\ FileOf(d) # "text" THEN f ELSE messages[i].file
  BY <1>3, SavedMessage
<1>5. \A s \in Slaves : own'[s].id = own[s].id /\ own'[s].astray = own[s].astray
  BY <1>1, <1>2
<1>6. ASSUME NEW i \in DOMAIN messages
      PROVE  /\ messages'[i].file \in marks => \E s \in Slaves : Holds(s, i)'
             /\ messages'[i].file = "alien" => \E s \in Slaves : own'[s].id = i /\ own'[s].astray
  <2>1. CASE i = d /\ FileOf(d) # "text"
    <3>1. messages'[i].file = f /\ FileOf(d) = messages[i].file
      BY <1>4, <2>1 DEF FileOf
    <3>2. CASE f = "alien"
      <4>1. PICK s \in Slaves : own[s].id = i /\ own[s].astray
        BY <1>3, <2>1, <3>1, <3>2 DEF Kempt
      <4> QED BY <1>5, <4>1 DEF Holds
    <3>3. CASE f \in marks \ {"alien"}
      <4>1. Holds(t, i)'
        BY <1>3, <1>5, <2>1, <3>3 DEF Holds
      <4> QED BY <3>1, <3>3, <4>1
    <3> QED BY <3>1, <3>2, <3>3
  <2>2. CASE i # d \/ FileOf(d) = "text"
    <3>1. messages'[i].file = messages[i].file
      BY <1>4, <2>2
    <3>2. messages[i].file \in marks => i # d
      BY <2>2 DEF FileOf
    <3>3. ASSUME messages[i].file \in marks PROVE \E s \in Slaves : Holds(s, i)'
      <4>1. PICK s \in Slaves : Holds(s, i)
        BY <3>3 DEF Kempt
      <4>2. s # t
        BY <3>2, <3>3, <4>1 DEF Holds
      <4> QED BY <1>1, <4>1, <4>2 DEF Holds
    <3>4. messages[i].file = "alien" => \E s \in Slaves : own'[s].id = i /\ own'[s].astray
      BY <1>5 DEF Kempt
    <3> QED BY <3>1, <3>3, <3>4
  <2> QED BY <2>1, <2>2
<1> QED BY <1>4, <1>6 DEF Kempt

LEMMA KemptStep ==
    ASSUME Types, Linked, Stages, Rows, Astray, ~terminate_queries => Safe, Up => Kempt,
           NEW t \in Slaves, Slave(t), Up'
    PROVE  Kempt'
<1>1. /\ pc[t] \notin {"crashed", "exited"} /\ \A s \in Slaves \ {t} : pc'[s] = pc[s]
      /\ \A s \in Slaves \ {t} : own'[s].id = own[s].id /\ own'[s].astray = own[s].astray
  BY SlavesMove
<1>2. Kempt
  BY <1>1 DEF Up
<1>3. /\ ~terminate_queries => \A s \in Slaves : ~own[s].astray
      /\ own[t].astray => pc[t] \in {"creat", "fchmod", "write", "answer", "stopped"}
  BY <1>1 DEF Astray
<1>4. CASE Creat(t) \/ Fchmod(t) \/ WriteFile(t)
  BY <1>2, <1>4, SavingKeeps
<1>5. CASE Running(t) \/ StoppedQuery(t)
  <2>1. /\ messages' = messages
        /\ pc[t] \notin {"creat", "fchmod", "write", "answer", "stopped"}
    BY <1>5, RunningFrame, StoppedFrame
  <2> QED BY <1>2, <1>3, <2>1, NobodyLetsGo DEF Holds
<1>6. CASE Begin(t)
  <2>1. messages' = messages /\ pc[t] = "idle"
    BY <1>6, Beginning DEF tables, Begin
  <2> QED BY <1>2, <1>3, <2>1, NobodyLetsGo DEF Holds
<1>7. CASE Answer(t)
  <2>1. messages' = messages /\ pc[t] = "answer"
    BY <1>7 DEF tables, Answer
  <2>2. CASE terminate_queries
    <3>1. own'[t] = own[t]
      BY <1>7, <2>2 DEF Answer, Go, Types
    <3> QED BY <1>2, <2>1, <3>1, NobodyLetsGo DEF Holds
  <2>3. CASE ~terminate_queries
    BY <1>2, <1>3, <2>1, <2>3, NobodyLetsGo DEF Holds
  <2> QED BY <2>2, <2>3
<1>8. CASE RemoveUser(t) \/ RemoveFromGroup(t)
  <2>1. Safe /\ pc[t] \in {"removeuser", "removeuser_from_group"}
    BY <1>8 DEF RemoveUser, RemoveFromGroup
  <2>2. pc[t] = "removeuser_from_group" => own[t].chat \in DOMAIN chats
    BY <2>1 DEF Safe, Handlers, Handler
  <2>3. /\ DOMAIN messages' = DOMAIN messages
        /\ \A i \in DOMAIN messages : messages'[i].file = messages[i].file
    BY <1>8, <2>2, RemovedUser, RemovedFromGroup DEF RemoveFromGroup
  <2> QED BY <1>2, <1>3, <2>1, <2>3, NobodyLetsGo DEF Holds
<1>9. CASE PostFile(t) \/ InsertMessage(t)
  <2>1. Safe /\ ~terminate_queries /\ t \in Posters
    BY <1>9 DEF PostFile, InsertMessage, Posters
  <2>2. Sender(t) \in UserNames /\ own[t].chat \in DOMAIN chats
    BY <2>1, RequestFields DEF Safe, Posted, Posts, Posters
  <2>3. PICK f \in Files : NewMessage(t, f) /\ (f = "text" \/ (f = "missing" /\ PostFile(t)))
    BY <1>9 DEF PostFile, InsertMessage, Files
  <2>4. PICK n : n = Len(messages) + 1
    OBVIOUS
  <2>5. /\ DOMAIN messages' = DOMAIN messages \cup {n} /\ messages'[n].file = f
        /\ \A i \in DOMAIN messages : messages'[i] = messages[i]
    BY <2>1, <2>2, <2>3, <2>4, NewMessageRow DEF Safe
  <2>6. f = "missing" => Holds(t, n)'
    <3>1. SUFFICES ASSUME f = "missing" PROVE Holds(t, n)'
      OBVIOUS
    <3>2. Go(t, "creat", [own[t] EXCEPT !.id = n]) /\ own[t] \in Locals
      BY <2>3, <2>4, <3>1 DEF PostFile, Types
    <3>3. [own[t] EXCEPT !.id = n].id = n
      BY <3>2 DEF Locals
    <3>4. own'[t].id = n /\ pc'[t] = "creat"
      BY <3>2, <3>3 DEF Go, Types
    <3> QED BY <3>4 DEF Holds
  <2>7. ASSUME NEW i \in DOMAIN messages
        PROVE  /\ messages[i].file \in {"missing", "locked", "empty", "alien"} =>
                      \E s \in Slaves : Holds(s, i)'
               /\ messages[i].file # "alien"
    <3>1. messages[i].file # "alien"
      BY <1>2, <1>3, <2>1 DEF Kempt
    <3>2. ASSUME NEW s \in Slaves, Holds(s, i) PROVE Holds(s, i)'
      <4>1. s # t
        BY <1>3, <2>1, <3>2 DEF Holds, Posters
      <4> QED BY <1>1, <3>2, <4>1 DEF Holds
    <3> QED BY <1>2, <3>1, <3>2 DEF Kempt
  <2> QED BY <2>3, <2>5, <2>6, <2>7 DEF Kempt
<1> QED BY <1>4, <1>5, <1>6, <1>7, <1>8, <1>9, SlaveKinds

-----------------------------------------------------------------------------
(* The theorems.                                                           *)

\* The invariant that the others follow from: what holds for good, what the handlers
\* know until terminate_db, and who holds each file that is not as it was posted.
THEOREM Invariant == Spec => []IInv
<1>1. Init => IInv
  BY InitIInv
<1>2. IInv /\ [Next]_vars => IInv'
  <2> SUFFICES ASSUME IInv, [Next]_vars PROVE IInv'
    OBVIOUS
  <2>1. Lasting /\ Rows /\ Astray /\ Types /\ Linked /\ Stages
    BY DEF IInv, Lasting
  <2>2. ASSUME NEW t \in Slaves, Slave(t) PROVE IInv'
    <3>1. Rows' /\ Astray' /\ terminate_queries' = terminate_queries
      BY <2>1, <2>2, RowsStep, AstrayStep, FlagStep
    <3>2. Up' => Kempt'
      BY <2>1, <2>2, KemptStep DEF IInv
    <3>3. CASE terminate_queries
      <4>1. Lasting'
        BY <2>1, <2>2, <3>3, StoppedStep
      <4> QED BY <3>1, <3>2, <3>3, <4>1 DEF IInv
    <3>4. CASE ~terminate_queries
      <4>1. Safe'
        BY <2>2, <3>4, RunningStep DEF IInv
      <4>2. Lasting'
        BY <4>1 DEF Safe, Lasting, References
      <4> QED BY <3>1, <3>2, <4>1, <4>2 DEF IInv
    <3> QED BY <3>3, <3>4
  <2>3. CASE \/ Terminate \/ UNCHANGED vars
             \/ \E fd \in Fds : GoOffline(fd) \/ \E u \in UserNames : GoOnline(u, fd)
    <3>1. /\ NoSlave /\ Types' /\ last' = last
          /\ terminate_queries' = terminate_queries \/ terminate_queries' = TRUE
      BY <2>1, <2>3, StopStep
    <3>2. Lasting' /\ (Safe => Safe')
      BY <2>1, <3>1, NoSlaveStep
    <3>3. Rows' /\ Astray'
      <4>1. Rows'
        BY <2>1, <3>1 DEF Rows
      <4>2. terminate_queries => terminate_queries'
        BY <3>1
      <4>3. Astray'
        BY <2>1, <3>1, <4>2 DEF Astray, NoSlave
      <4> QED BY <4>1, <4>3
    <3>4. (Up <=> Up') /\ (Kempt <=> Kempt')
      BY <3>1 DEF NoSlave, Up, Kempt, Holds
    <3>5. ~terminate_queries' => Safe'
      BY <2>1, <3>1, <3>2 DEF IInv, Rows
    <3> QED BY <3>2, <3>3, <3>4, <3>5 DEF IInv
  <2> QED BY <2>2, <2>3 DEF Next
<1> QED BY <1>1, <1>2, PTL DEF Spec

\* The tables hold rows of their columns, what refers to a chat by its number refers to
\* one there is, and every handler is at a query of its request (queries.c:411-815),
\* before and after terminate_db.
THEOREM TypeCorrect == Spec => []TypeOK
<1>1. IInv => TypeOK
  <2> SUFFICES ASSUME IInv PROVE TypeOK
    OBVIOUS
  <2>1. Types /\ Linked /\ Rows
    BY DEF IInv, Lasting
  <2>2. \A c \in DOMAIN chats : /\ chats[c].name \in Names \cup {NoName}
                                /\ chats[c].creator \in Names \cup {NoName}
                                /\ chats[c].users \subseteq Names \cup {Garbage}
    BY <2>1, ChatFields DEF Parties
  <2>3. \A i \in DOMAIN messages : messages[i].file \in Files /\ messages[i].chat \in DOMAIN chats
    BY <2>1, MessageFields DEF Linked
  <2>4. \A t \in Slaves : /\ own[t].list \subseteq Names \cup {Garbage}
                          /\ own[t].id \in Nat /\ own[t].astray \in BOOLEAN
    BY <2>1 DEF Types, Locals, Parties
  <2> QED BY <2>1, <2>2, <2>3, <2>4 DEF Types, Linked, Rows, TypeOK
<1> QED BY <1>1, Invariant, PTL

\* A private message that was accepted is among the rows of exec_getprevmsgs and
\* exec_getfile for its receiver, whatever the other slaves do between the queries that
\* find or make the chat and the one that inserts the message (queries.c:658-689).
THEOREM PostedIsReadable == Spec => []PostedReadable
<1>1. IInv => PostedReadable
  BY DEF IInv, Lasting, Kept, KeptPrivate, PostedReadable, Readable
<1> QED BY <1>1, Invariant, PTL

\* ... and among those of nobody else: whoever is added to its chat, while the chat is
\* being made or later, is one of its parties (queries.h:260-265, 516-528).
THEOREM ReadOnlyByParties == Spec => []PrivatelyRead
<1>1. IInv => PrivatelyRead
  BY DEF IInv, Lasting, Kept, KeptPrivate, Private, PrivatelyRead
<1> QED BY <1>1, Invariant, PTL

\* Every file that can be asked for was written under its own number by its own message,
\* whole or cut short, or the slave that posts it is about to write it; the exception
\* is a number that a slave took from an INSERT that terminate_db kept out, and each
\* slave can take one at most (queries.c:701-738, 236-241).
THEOREM FilesAreSaved == Spec => []FilesSaved
<1>1. IInv => FilesSaved
  <2> SUFFICES ASSUME IInv PROVE FilesSaved
    OBVIOUS
  <2>1. \A t \in Slaves : own[t].astray => terminate_queries
    BY DEF IInv, Astray
  <2>2. Up => Kempt
    BY DEF IInv
  <2> QED BY <2>1, <2>2 DEF FilesSaved, Kempt, Holds
<1> QED BY <1>1, Invariant, PTL
=============================================================================
