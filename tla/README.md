# Chatterbox Lite in TLA+

Chatterbox Lite (`src/src`) is a chat server in C: a core thread that accepts
connections and reads requests, a pool of slave threads that serve them, and an
SQLite database that keeps users, groups, chats and messages. This directory
models its concurrent parts in TLA+, checks the models with TLC and proves their
main invariants with TLAPS. `slaves.c:79` and the like mean `src/src/slaves.c`,
line 79.

## 1. The system

| Part | State | Operations | Where |
|---|---|---|---|
| Core loop | `active_set`, the descriptors of the clients | `start_core`: `select`, `accept`, `readMsg`, `queue_push` | `core.c` |
| Job queue | the list of `(message, fd)`, `must_terminate`, `mux`, a condition | `queue_init`, `queue_push`, `queue_pop`, `queue_free`, `destroy_queue_mutex` | `queues.c` |
| Slaves | the job in hand | `slave_routine`: pop, class of the operation, handler, answer, release | `slaves.c` |
| Critical zone | `critic_zone[i]`: which descriptor slave i works for, and in which class | `check_op_consistence`, `clean_critic_zone` | `slaves.c` |
| Write lock | `writing_fd[i]`: the descriptor slave i writes on | `start_safe_writing`, `stop_safe_writing`, `send_message`, `send_ack` | `slaves.c` |
| Database lock | `db_op`, `no_reader`, `terminate_queries` | `exec_query`, `terminate_db` | `queries.c` |
| Users | table `_User` (name, `curr_fd`) | `manage_insertuser`, `manage_connectuser`, `manage_disconnectuser`, `manage_unregisteruser`, the list of users online | `queries.c`, `queries.h` |
| Chats | tables `_Chat`, `_Chat_User`, `_Message` | `manage_postmessage`, `manage_creategroup`, `manage_addtogroup`, `manage_removeuserfromgroup`, `manage_deletegroup`, `manage_getprevmsgs`, `manage_getfile` | `queries.c`, `queries.h` |
| Statistics | `sem_stats[]` | `increase_sem_stats`, `manage_getstats`, `printStats` | `slaves.c`, `stats.h` |
| Fan-out | the vector of descriptors of a slave | the branches of `slave_routine` that send, `exec_getonlineuserfd`, `exec_getonlineuser_in_group` | `slaves.c`, `queries.h` |
| Wire protocol | where each end is in a message | `sendHeader`, `sendData`, `sendRequest`, `readHeader`, `readData`, `readMsg` | `connections.c` |
| Client | the messages put aside | `manage_requestreply`, `manage_receive` | `client.c` |
| Configuration | the `configs` structure | `parseconf` | `utils.c` |
| Start and stop | signals, the event descriptor | `main`, `signal_manager`, `stop_core` | `chatty.c`, `core.c` |

How they interact. The core thread is the only one that accepts, selects and
reads; it hands each message to the queue. A slave pops it, enters the critical
zone with the class of the operation (`signup` for a registration, `ending` for
an unregistration or a disconnection, `generic` for the rest), or puts the job
at the end of the queue if the zone refuses it. In the zone it runs the handler:
a few queries, each one a call of `exec_query`, with nothing held in between;
then it writes the answer on the descriptor of the request, and possibly
notifications on descriptors of other users that it has read from the database,
each frame under the write lock. The end of a connection is a job too: the core
takes the descriptor out of `active_set` and queues a `DISCONNECT_OP`; the slave
that serves it sets the users of that descriptor offline and closes it.

What is hard here:

* **Three hand-made synchronisation structures** on mutexes and conditions: the
  queue, the database lock, the write lock. Each can lose a wakeup, let two
  threads in, or miss the termination, whose flags are set without the mutex.
* **Descriptor numbers are identities.** `curr_fd`, the critical zone, the write
  lock and the queue all name a connection by a number that `accept` gives out
  again after `close`. Whoever keeps the number of a connection that is over
  speaks of somebody else's.
* **Order.** A job is out of the queue and not yet in the zone for a moment; a
  refused job goes behind later ones of its connection.
* **Handlers are not transactions.** Between two queries of one handler other
  slaves run theirs, on the same rows.
* **Both ends write and wait.** A slave that sends a notification waits for a client
  that may itself be waiting for a slave; answers, notifications and histories
  share one stream, with nothing to tell whose they are.
* **Termination** races with everything above: signals come at any moment, before
  and after the life of what they make the process look at.

What makes each part correct:

* *Queue*: a message is in one place; a queued job has a slave awake for it;
  nobody sleeps through the termination.
* *Database lock*: readers together, writers alone; every call returns.
* *Write lock*: one frame at a time on a descriptor; no slave is left asleep.
* *Core, slaves and zone*: every open descriptor is either read by the core or
  about to be closed, once, by the end of its own connection; what a slave does
  is declared in the zone; a client that goes away is seen to.
* *Users*: a user is online on a connection that is there, is never moved from
  one connection to another, and the counters agree with the table.
* *Chats*: a message that was accepted is found by its receivers and by nobody
  else; a file that can be asked for is there.
* *Fan-out*: what is written reaches whom it is meant for; a message to a group is
  accepted from its members only; every request is answered, once.
* *Wire*: the messages read are the messages sent.
* *Start and stop*: a termination signal ends the process; nothing is freed under a
  thread that uses it; no client is told that something was done that was not.

`PROJECT.json` lists 40 hazards of this kind, each at its line, with the
properties that watch over it.

## 2. The modules

| Module | Models | State | A step is |
|---|---|---|---|
| `FdWriteLock` | the write lock and the two functions that send a frame | `writing_fd`; where each slave is, what it wants to write | what a slave does between lock and unlock (or wait) of `access_writing_fd`; each write on the socket |
| `DbLock` | `exec_query`, `terminate_db` | `db_op`, `no_reader`, `terminate_queries`; where each thread is | what a thread does between lock and unlock (or wait) of `access_db_op`; the flag and the broadcast of the termination |
| `ReadersWriters` | what `exec_query` promises (`queries.c:167-170`) | who reads, who writes | begin and end of a statement |
| `JobQueue` | `queues.c`, with the loop of a slave and `stop_core` around it | `queue`, `must_terminate`, `mux`; what each slave holds | what a thread does under `mux`; the unlocked test; each part of `queue_free`; the end of a request, one of an operation the slave does not know apart |
| `Dispatch` | the core loop, the loop of the slaves, the critical zone, the life of descriptors | `active_set`, `queue`, `critic_zone`, the descriptors open in the process | one select, one accept, one message read; pop, check, repush, answer, close, clean |
| `Sessions` | the handlers about users, query by query | the table `_User` (`curr_fd`), the counter `nusers`, the queue, the slaves | one query |
| `Chats` | the handlers about groups, private chats, messages and files, query by query | the tables `_User`, `_Chat` with `_Chat_User`, `_Message` with the files; the number of the last row each slave inserted; whether the database terminates; the request and the local variables of each slave | one query, executed or skipped, or one call on a file |
| `Delivery` | the answers and the notifications of `slave_routine`, the queries that find the receivers, and the clients of `client.c` | the frames on each connection, the table `_User`, the vector of each slave, what each client is doing | one query, one frame written, one frame read |
| `RequestReply` | what the server promises a client (`client.c:202-246`) | where the dialogue of each client is | request, answer, end of the answer, departure |
| `Server` | `main`, `signal_manager`, the loop of the core and `stop_core` | where `main` is; the manager; the flags; what is allocated and freed; connections, jobs, slaves | one call of `main` or of the manager; pop, query, answer, close of a slave |
| `Wire` | the two ends of one connection, `connections.c` | the cells on their way, the part each end is at, its pointer and what it thinks is left | one `write()` or `read()`, of any length |
| `MC...` | instances for TLC | | |
| `...Proofs` | theorems (of `FdWriteLock` and `Wire` in `ConnectionProofs`) | | |

The modules are layers: what one proves atomic is a single step of the next.
`JobQueue` shows that `queue_push` and `queue_pop` neither lose nor duplicate a job
(a slave may drop the message of one, see below), so in `Dispatch` and `Sessions`
they are `Append` and `Tail`. `DbLock` implements `ReadersWriters`, which is what
makes a query a single step in `Sessions` and `Chats`. `Dispatch` shows what
becomes of descriptors and of the zone, so `Sessions` keeps of the core thread what
it does to descriptors and to the queue, and of the zone the comparison with the
slaves that are working. `Chats` keeps of the zone only what it refuses
(`Refused`), and of `Sessions` only the query that changes the row of `_User`
(`GoOnline`, `GoOffline`). `Delivery` takes frames as indivisible from
`FdWriteLock`, and of `Sessions` and `Chats` the queries that say who is online; it
implements `RequestReply`. `Wire` is what makes a frame a step in `Delivery` and a
message a step in `Dispatch`. `Server` puts the core, the slaves, the clients and
the signals together, with each of them much simpler than in its own module.

Correspondence worth knowing:

* `FdWriteLock`. `Start` is a whole call of `start_safe_writing` up to its end or
  first wait, `Rescan` the loop after a wait. `FirstIndex` and `RescanIndex` are
  where each scan begins: the code sets `i = 0` after a wait and the increment of
  the loop makes it 1.
* `DbLock`. `towait` exists because `terminate_db` does not take the mutex: the
  flag can be set between the test and the wait. `FinishWrite` contains the retry
  of a busy statement.
* `JobQueue`. `queue_free` is `SetTerminate`, `FirstBroadcast`, `Drain`,
  `SecondBroadcast`, then `Join` for the `pthread_join`s of `stop_core`. The
  conditions may also wake spuriously. `Forget` is the end of a request whose
  operation the slave does not know (`Unknown`): it goes on without freeing the
  message and without cleaning its entry of the critical zone. `stale` are the
  slaves whose entry outlived its request so; until they serve something else,
  others can find a conflict with it (`FindConflict`).
* `Dispatch`. `Select` returns any set of ready descriptors; it fails when
  `active_set` has a closed one in it, and `start_core` then returns. The core
  that waits for the second part of a file serves nobody (`core = "file"`). A
  message that is refused for its size becomes `OP_MSG_TOOLONG`. The field
  `orphan` of a job is history: its connection has been closed since. A file
  opened by `manage_getfile` takes a number of the same table of descriptors
  (`files`), and gives it back twice (`CloseStream`, `CloseAgain`).
* `Sessions`. `late` is history: the users set online for a connection that was
  already signed off. Clients do not wait for an answer before the next request.
  The build is the one with `MAKE_TEST_HAPPY` (the Makefile's
  default), in which a registration ends by setting its connection offline.
* `Chats`. `Init` takes any table of users, because that is what requests before
  the first chat can make. Clients are connected when they ask for anything but a
  registration, as `client.c` does. The loop over the users of a message to
  everybody takes them in any order. `Garbage` is what an entry of a list of names
  holds when the count that sized it is larger than the rows that filled it. All
  files have one name. A file is `missing` until `creat()` makes it, `locked` until
  `fchmod()` gives it permissions, `empty` until it is written; then it is `whole`,
  or `cut` if `write()` took only a part, which the code takes for a success, or
  `alien` if the data are those of another message. `Terminate` is `terminate_db`:
  from then on the queries of the handlers under way are `SkippedWrite`, when they
  write (`exec_query` says SQLITE_OK), and `FailedRead`, when they read, and the
  handlers, which look at neither, go on with what their variables hold. So a slave
  whose message was not inserted takes for its number the one of the last row it
  inserted before (`last`), which may be a message, a chat or a membership; the
  rows of the last kind are not numbered in the model, and may have any number of
  `RowIds`. `astray` is history: it marks such a slave. The fields `between`,
  `parties` and `raced` of a message and `gone` of a handler are history: who the
  message is between and who has unregistered since. `Exit` ends the process with
  all its threads.
* `Delivery`. A request is queued as it is sent, because what the core does in
  between is in `Dispatch`. A client that waits for an answer reads; one that has
  nothing to do may read or leave, and leaves when an operation has failed. A client
  that is killed while it waits is left out. A file is sent as a text is. A message
  to a group is sent to its sender too, as in the code; the answer to
  `GETPREVMSGS_OP` announces a number of messages, and the client takes that many
  for the history, whichever they are. `for`, `stale`, `grew` and `shrank` are
  history: for whom a frame or an entry is meant, whether its number was closed
  since it was read, and whether somebody came or went between a count and its
  list. An entry that was never filled is `Nowhere` (0, in a vector that is
  cleared) or any number (in one that is not).
* `Server`. `select` prefers the event to the clients. A message goes out in two
  parts, so that the core can be in the middle of one when the signal comes. The
  two ways into `stop_core` differ: after `server_running = 0` the core closes the
  connections first, after an error of `select` or `listen` it does not, and calls
  `exit` afterwards (`failed`). `misled` is history: clients that were told OP_OK
  of a query `exec_query` skipped because the database was terminating. A name
  that is read before it is set or after it is freed (`WriteStats`) may be
  anything, so `fopen` may end the process or not.
* `Wire`. A cell is a field of a header or a piece of the body. The pointer of a
  header moves by the number of cells transferred times the size of the
  structure (`Stride`), that of a body by their number. What it points to
  afterwards is `Garbage` for the writer; for the reader, memory the message does
  not use, and the fields not read stay as `memset` left them. `torn` and
  `overrun` are history: the parts written in several pieces, and a reader whose
  pointer has left the structure, about which nothing is claimed any more.

## 3. What is checked

Every run is in `PROJECT.json`, with a mutant of the code for every property of
a passing run: the mutant is an operator next to the definition it replaces, and
TLC finds the property violated when it is put in.

| Run | Bounds | Properties |
|---|---|---|
| `fd_write_lock` | 3 slaves, 2 descriptors, 2 frames each, spurious wakeups | `TypeOK`, `ExclusionAboveSlave0`, `NoLostWakeup`, `OnlyRescanOverSlave0`, `SendsComplete` |
| `db_lock` | 3 threads, 2 calls each, results OK and BUSY | `TypeOK`, `StateMatches`, `NoLostWakeup`, `OKMeansExecuted`, `ImplementsReadersWriters`, `CallsReturn` |
| `job_queue` | 3 slaves, 3 messages, one of an unknown operation, spurious wakeups | `TypeOK`, `JobsConserved`, `NoLostWakeup`, `NobodySleepsThroughStop`, `QueuedJobsTaken`, `TerminationReachesAll` |
| `dispatch` | 2 slaves, 2 descriptors, 2 jobs at a time; clients send text, files, unregistrations | `TypeOK`, `DescriptorsKept`, `ClosesOwnConnection`, `HangupCloses` |
| `dispatch_any_client` | the same, clients send anything | `EndingsExclusive` |
| `sessions` | 2 users, 2 descriptors, 2 slaves, 5 connections and requests | `TypeOK`, `OnlyOvertakenLinger`, `NeverOvercounted`, `NeverTakenOver` |
| `chats` | 2 user names, 1 group name, 2 descriptors, 2 slaves, 3 requests, a termination at any moment | `TypeOK`, `PostedReadable`, `PrivatelyRead`, `FilesSaved` |
| `delivery` | 3 users (2 in the group, 2 that ask for more than to connect), 2 descriptors, 2 slaves, 4 connections and requests, 1 frame on a connection, histories of 0 or 1 | `TypeOK`, `OnlyStaleNumbersMislead`, `GroupIsOfMembers`, `ImplementsRequestReply` |
| `server` | 2 slaves, 2 clients, 2 requests, 2 signals | `TypeOK`, `NobodyMisledByStop`, `NothingUsedAfterFree`, `SignalEndsServer` |
| `wire` | 2 messages, bodies of 0 to 4 cells of which 3 are allowed, 3 cells on the connection | `WireTypeOK`, `ReadAsSent` |

What the runs show, part by part:

* *Write lock.* Slaves other than slave 0 never mix frames, a slave takes a
  descriptor in use only from slave 0 and only after a wait, nobody sleeps on a
  descriptor nobody holds, and every send ends (the sends are bounded: see Fairness).
* *Database lock.* `exec_query` implements a readers/writer lock through retries
  and termination, every call returns, and SQLITE_OK is untrue only of a statement
  that writes once the termination has been requested.
* *Queue.* A message is never in two places, and in one as long as its operation is
  known; a queued message has a slave awake for it,
  and the termination, whose flag is set without the mutex, reaches every slave.
* *Core, slaves and zone.* An open descriptor has one keeper and is closed by the
  end of its own connection, however often the number is given out again; a
  hangup is seen to although its job may be put back any number of times; two
  endings of a connection never run together (an ending and a generic operation
  may, see the end of this section).
* *Users, chats.* Handlers interleaved query by query never move a user from one
  connection to another, leave a user on a closed one in one way only, and never
  count a user without a row; a private message is found by its receiver and by
  nobody else, also when the database terminates in the middle of its handler; a
  file is written under its own number by its own message, whole or cut, but for
  the number that a slave caught by the termination may take for its own.
* *Delivery.* A frame reaches somebody it is not meant for only through a number
  that was closed after it was read, or an entry never filled; membership decides
  about a message to a group but for one race; every request is answered, once.
* *Start and stop.* A termination signal ends the process from wherever it is,
  nothing is freed under a thread that uses it outside the moments
  `NothingUsedAfterFree` names, and no client is misled unless `select` or
  `listen` failed.
* *Wire.* Bodies may be cut anywhere; headers may not, and `ReadAsSent` says how
  much of a message a cut header costs.

Why the bounds are enough. The locks and the queue are about who sleeps while who
runs: three threads are one that holds, one that sleeps and one that comes in
between, and a wakeup for the wrong one needs no fourth. Slave 0 is special, so
two others are needed beside it. Two descriptors are one that is closed and given
out again and one that is not. In `Dispatch` two jobs at a time are a request and
the disconnection of its connection; disconnections are not counted, so every
connection may end. Five connections and requests in `Sessions` are a user who
comes, one who takes the number, and the requests that race for a name. Three
requests in `Chats`, from any table of users, are two first messages at once and an
unregistration; a message, an unregistration and a new registration of the name; a
group made, and joined or left or posted to; or a file that is posted, one whose row
the termination skips, by the same slave, and one that asks for a file meanwhile.
Rows that are no messages or chats have the numbers 1 and 2, which are those of the
first two messages. Longer mixtures (both chats of two first messages, and a new
owner of one of the names) are left to the proofs, which need none of these bounds.
Three users on two descriptors in `Delivery` make a number somebody else's while a
slave still has it in its vector; a connection that holds one frame makes slaves
wait for clients, and four connections and requests are two clients and two slaves
that write to each other's clients, or a message between the frames of a
history. Two signals are one for the statistics and one to stop, or two to stop;
two clients are one that is being read and one that waits for an answer. In
`Wire` no message but the empty one fits in the connection, the body can be cut in
all the ways of three cells, and the second message shows what the first has left
behind. The results BUSY and OK of `DbLock` are the ones that go on; ERROR and
CONSTRAINT, which end the process or the call, are covered by the proofs, which
take any set of results. Symmetry is used only in runs without liveness, over
sets whose members no definition tells apart.

`dispatch` does not let clients send `DISCONNECT_OP`, unknown operations or
`GETFILE_OP`, because its properties do not hold then: see `dispatch_getfile`
and the list at the end of this section. `CHECK_DEADLOCK FALSE` is there in every
configuration because every model may stop: when its bound is reached, or with
the process.

### Fairness

Only weak fairness, of threads that can go on; what clients, signals and the
failures of calls do is never required, with the exceptions named here.

* `FdWriteLock`: a slave inside a send goes on, so the client it writes to reads.
  Neither the beginning of a send nor a spurious wakeup is required. Each slave
  sends `MaxSends` frames at most, so `SendsComplete` is about lost wakeups: a
  waiter that others overtake for ever, each time with a new send on the same
  descriptor, cannot show (the scan has no order among those it wakes).
* `DbLock`: a thread inside `exec_query` goes on and `sqlite3_exec` returns. Under
  a load that never pauses a writer could starve (`queries.c:194`); the calls of
  the model are bounded and cannot show it.
* `JobQueue`: the slaves go on, and `stop_core` once begun. That it begins is not
  required.
* `Dispatch`: the core and the slaves go on. The core may wait for ever for the
  second part of a file (`core.c:409`): `HangupCloses` assumes that it does not, as
  its antecedent says.
* `Delivery`: every slave goes on, and so does a client that can read a frame or
  leave: `client.c` reads while it waits, and comes to the end of its operations.
  Without the second a slave may wait for ever on a full connection.
* `Server`: `main`, the manager and every slave go on, and a client that has sent
  half a message sends the rest or leaves: the core that reads it looks at no flag
  meanwhile (`core.c:387`). That `select` fails is never required.
* `Sessions`, `Chats` and `Wire` have safety properties only and assume nothing.

### Disagreements

Two runs check a statement the repository makes and find it violated:

| Run | The statement | What the code does |
|---|---|---|
| `fd_write_exclusive` | the thread gets EXCLUSIVE write access on the descriptor (`slaves.c:60-62`) | the scan repeated after a wait starts from entry 1 (`slaves.c:79`): a slave that was woken takes the descriptor slave 0 is writing on |
| `dispatch_getfile` | a descriptor is not closed while others may be using it (`slaves.c:353-354`) | `manage_getfile` closes its descriptor twice (`queries.c:780`, `788`); a client accepted in between loses its connection |

Seen while modelling, and kept without a run:

* About the zone and the core. A generic operation is refused only beside a
  registration (`slaves.c:208`): one that was popped before the disconnection of
  its connection can enter the zone after it, although nobody is to be disconnected
  while another slave works for it (`slaves.c:12-14`). A registration is not
  refused beside generic operations (`slaves.c:191-192` says it must be). A
  `DISCONNECT_OP` sent by a client closes a descriptor that stays in `active_set`
  (`slaves.c:355`), and the next `select` fails and stops the server, or the number
  is somebody else's by then (`slaves.c:353-354`, as for `dispatch_getfile`). The
  branch of unknown operations frees neither the message, although the slave is
  where it is freed (`slaves.c:242`, `537`, `545`), nor its entry in the zone: a
  single entry keeps the disconnection of its descriptor out while other slaves pop
  it, and two that stay as they are keep it out for ever. A client that sends the
  first part of a file and no more stops the core (`core.c:409`).
* About the lock and the queue. A statement that writes reports `SQLITE_OK`
  unexecuted during the termination (`OKMeansExecuted` says exactly when). So the
  row of a file can be missing and `sqlite3_last_insert_rowid` give the number of an
  earlier one: the file of that message is truncated and gets the data of another
  (`queries.c:701-714`), although a file is saved under its own primary key
  (`queries.c:706`; `FilesSaved` says exactly when). A job
  put back after `queue_free` is never freed.
* About users. Several may be online on one connection (`queries.h:425-426` speaks
  of a 1:1 relation). A request that runs beside the disconnection of its
  connection can leave its user online on a closed descriptor until another client
  gets the number (`OnlyOvertakenLinger` says that this is the only way). The
  list of users a client gets can be empty (`client.c:279` asserts that it is not),
  if a disconnection comes before the count. `nusers` is decremented for names
  that were never registered (`NeverOvercounted` bounds it on the other side);
  `nonline` drifts.
* About groups and files. The first group can be given the name of a user, although
  `queries.h:318-319` says that it cannot: the check counts the rows of a product
  of two tables, which is empty before the first chat (`queries.h:306`). The
  creator of a group that asks for its deletion (`queries.h:817-823`) ends the
  server: the statement deletes from three tables (`queries.h:797`), which the
  grammar of SQLite does not allow (`DelGroup`). `GETFILE_OP` is answered with
  zeros: the file is read after its descriptor has been closed (`queries.c:785`).
  A `write()` of a part of a file is answered OP_OK (`queries.c:722-731`): `FilesSaved`
  allows for it, and no line of the repository says otherwise. In the test build a
  file is copied under its own name into the directory of the numbers
  (`queries.c:726`), so a file called `1` replaces the data of message 1; in `Chats`
  no file has such a name.
* About messages. A file asked for after its row was inserted and before it was
  created, or between `creat()` and `fchmod()` (`queries.c:714-715`), ends the
  server (`OpenFile`), and so does the posting of an empty file (`WriteFile`). A
  message to everybody with one user registered and two counted online reads
  through a NULL vector (`GetTotalUser`). A private message posted while one of its
  parties unregisters can be read by the next owner of the name (the exception in
  `PrivatelyRead`).
* About delivery. A notification can reach another client, through a number closed
  since it was read (`slaves.c:416`), or nobody, through an entry left at 0
  (`queries.h:718`): `OnlyStaleNumbersMislead` says there is no third way. A member
  of a group is told OP_NICK_UNKNOWN if somebody comes online between the count and
  the list (`queries.h:910`). A notification that comes between the frames of a
  history is counted as part of it (`client.c:298`), and what is left over is read
  as a message later.
* About the wire. The comment of `connections.c:121-123` says that the loops are
  there for a transfer of fewer bytes than expected; those of the headers do not
  survive one (`connections.c:130`, `164`, `200`, `269`). A header of 40 bytes is not
  cut in practice by an AF_UNIX stream that is written in whole headers, which is
  why the mistake does not show.
* About the start and the stop. A SIGUSR1 before the configuration has been read
  ends the process (`chatty.c:115`, `conf_stat` is NULL); one after `free(conf_stat)`
  reads freed memory. The core closes the event descriptor with the others
  (`core.c:480`) while the manager may not have written it yet (`chatty.c:134-136`). A
  failure of `init_core_db` returns without `stop_core`, and with `RESET_DB` the
  database file is removed after the manager has opened it (`core.c:286`,
  `chatty.c:96`).
* About the client. Its array of messages grows to `msglen` bytes, not messages
  (`client.c:94`), and a failed operation prints a buffer freed before
  (`client.c:217`, `251`).

## 4. What is proved

The theorems hold for any number of slaves, descriptors, users, messages and
calls, and for every value of the bounds. They rest on the assumptions named in
the modules: values such as `VOID_FD` or `NoSlave` are not members of the sets they
stand outside of, bounds are natural numbers, clients send operations of the list
in the module, and, where something is counted, threads and users are finitely
many.

* `ConnectionProofs`, of `FdWriteLock`. The inductive invariant is `TypeOK` with
  `TableMatches`: the
  table says who writes where. `Exclusion` follows because both scans read every
  entry from 1 on (`ReserveAlone`), `WakeupsKept` because the holder of a taken
  descriptor is in the table (`BusyHasHolder`), and `IntrusionsAreRescans` from the
  two starting points of the scans.
* `ConnectionProofs`, of `Wire`. Neither end sees the other, so the invariant
  (`WireInv`) gives each cell on its way the place it was sent from, a message and
  an offset in it, and says that the places follow each other without gap, over the
  ends of messages too, from where the reader is to where the sender is (`Placed`,
  `Follows`, `Tracks`). This holds while the reader knows its place (`InPlace`): no
  `read()` has cut a header, and no header of the data it has passed was written in
  pieces. `Sending` and `Reading` tie the pointer of each end to what it thinks is
  left; `Held` is what has been read of the message in hand, `Past` what was
  returned. A `write()` puts places at one end of the list, a `read()` takes them
  from the other (`WriteTracks`, `ReadTracks`); the proof that the next place is
  where the reader's loop expects it, part by part, is `ReadPlace`, `PlaceBefore`
  and `LengthRead`. `MessagesArrive` and `WireTypeCorrect` follow. Assumed: lengths
  and the longest body are natural numbers, the connection holds at least one cell.
* `DbLockProofs`. `StateMatches` is inductive with the types (`TypeCorrect` is what
  it says of the types alone) and gives `Implements`, the refinement of
  `ReadersWriters`. `WakeupsKept` needs two more facts: whoever decided to wait
  holds the mutex and its reason still holds (`SleepsOnlyIfTaken`), and readers
  sleep only behind a writer (`ReadersSleepBehindWriters`), which is why the single
  signal of the last reader is enough. `Reports` is `OKMeansExecuted`.
* `JobQueueProofs`. `Control` says what is fixed while a slave holds `mux` between
  the test and the wait. `WakeupsKept` counts: a push adds a job and wakes a
  sleeper, a pop takes a job and a woken slave. `StopReachesSleepers` follows from
  the order of the flag, the passage through `mux` and the second broadcast.
  `Conservation` is about sequences without repetition, and about a message that is
  let go of unfreed being one of `Unknown`.
* `DispatchProofs`. `TypeCorrect` needs to know which job a slave may have at each
  step (`Stages`). `OneEnding` needs only the types: the zone is compared and
  written under one mutex. `Keepers` and `OwnConnections` assume that clients send
  neither `DISCONNECT_OP` nor `GETFILE_OP` (`ClientsOrdinary`; they are false
  otherwise). Their invariant is `Ends`: a descriptor that is open and no longer
  read has a job that ends it (`Kept`), only such a descriptor has one (`Proper`),
  it has one only (`Unique`), what the core reads from is open (`Watched`), and no
  job asks for a file (`NoFiles`).
* `SessionsProofs`. `Takeovers` needs the types only. `Lingering` needs that a
  connection is ended by one job (`Ends`) and that a job whose connection has not
  been closed knows an open descriptor (`Fresh`). `Counter` bounds `nusers`: a
  registration that reaches its list of users has its row (`Listed`), so every step
  that moves a slave into or out of `Uncounted` or `Undiscounted` moves the counter
  or a row of the table with it (`CountersStep`), and the cardinalities follow.
* `ServerProofs`. `NoUseAfterFree` rests on `Life`: where `main` is says what is
  set, used and freed, and who may still look at it. `NobodyMisled` rests on
  `Ending`: once the database terminates, no connection is open unless `select` or
  `listen` failed.
* `ChatsProofs`. A handler makes several queries with nothing to protect it between
  them, so the invariant says what each handler knows at each query. It comes in
  three parts, because `terminate_db` makes much of that knowledge false at once.
  `Lasting` survives it: the types, the numbers that lead to rows (`Linked`), which
  request a slave can be serving at each query (`Stages`), the chats of two users
  (`OfTwo`), and `Kept`, which is about the messages that were posted and gives
  `PostedIsReadable` and `ReadOnlyByParties`. `Safe` is what handlers know before
  it, and is what makes an insertion keep `Kept`: `Posted` (a slave about to insert
  a private message has both parties in the chat, but for those who unregistered
  since), and for that `Built` (a private chat still being made is its slave's
  alone, and no message is in it). After it nothing is inserted any more, so `Kept`
  needs nothing else. Third, the files: a slave
  is `astray` only once the database terminates, and until it ends (`Astray`); and
  a file that is not complete, or has the data of another message, has its slave
  to answer for it as long as the process runs (`Kempt`), which gives
  `FilesAreSaved`. The step of a slave is proved in two halves: its own part,
  action by action, and that it leaves the other slaves what they were
  (`OtherSlaves`).
* `DeliveryProofs`. Who a frame is for, and whose client reads it, is known to the
  table, to the vectors, to the jobs and to the connections, which change at
  different times; `Safe` ties them together. As long as a client is there, the
  table and an entry that is not stale lead to it or nowhere (`Table`, `Vectors`),
  which gives `StaleMislead`. A connection has one request, queued or in hand, or
  one answer on its way (`OneAtATime`), and a descriptor is closed when no other
  job has it (`Alone`); with these every step of `Delivery` is a step of
  `RequestReply` or none (`DialogueInOrder`). `GroupOfMembers` needs two more
  facts: a client that was told it is connected is in the table (`Registered`),
  and the members online are as many as were counted unless `grew` or `shrank`
  says why not (`Counted`). Assumed: finitely many users, of whom none is the
  group, `Nobody`, or one of the two marks of a connection without a client.

Only model-checked: the liveness properties (`SendsComplete`, `CallsReturn`,
`QueuedJobsTaken`, `TerminationReachesAll`, `HangupCloses`, `SignalEndsServer`, and of
`ImplementsRequestReply` the promise that the answer comes, `Answered`), which are
beyond the prover, as ENABLED and induction over recursive data are. Every safety
property of a passing run is proved.

## 5. What is not modelled, and the plan

Not modelled, and why:

* the counters of delivered messages and `nonline`: sequential additions that
  nothing else reads;
* the parsing of the configuration: sequential, about text; `Server` has its
  outcome;
* the command line and the downloads of the client, and the database shell
  (`driver.c`): front ends without shared state; the archive script: not part of
  the server;
* SQLite: its statements are steps with the results the code looks at, and by far
  the largest part of the lines of the repository;
* what the reuse of a number by `creat()` makes of a write that comes late
  (`core.c:480`, `slaves.c:416`): files have numbers in `Dispatch` only;
* a client killed while it waits for an answer, in `Delivery`; failures of
  `malloc`;
* the termination in `Sessions` and `Delivery`: what it does to queries is in
  `DbLock`, to the process in `Server`, to the handlers that keep something on disk
  in `Chats`;
* the copy of a file under the name its sender gave it.

What is left to prove: of the properties the runs check, only liveness is without a
theorem, and it stays with TLC. What is added to a model later (the counters, the
reuse of file numbers) brings its own invariants.
