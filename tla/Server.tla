------------------------------- MODULE Server -------------------------------
(***************************************************************************)
(* The life of the process: main and signal_manager (chatty.c), the loop   *)
(* of the core with the two ways out of it and stop_core (core.c), and     *)
(* what the slaves and the clients are doing meanwhile.                    *)
(*                                                                         *)
(* A connection is its client: numbers are in Dispatch.  A request is an   *)
(* operation that writes to the database and is answered OP_OK; its        *)
(* handler is one query (DbLock is the module about what exec_query does   *)
(* when it is told to terminate).  queue_pop is one step (JobQueue), and   *)
(* so is an answer (FdWriteLock, Delivery).                                *)
(***************************************************************************)
EXTENDS Integers, Sequences

CONSTANTS
    Slaves,         \* the pool of threads
    Clients,        \* clients, each with one connection
    Nobody,         \* no client
    MaxRequests,    \* bound: requests
    MaxSignals      \* bound: signals sent

ASSUME NobodyAssumption == Nobody \notin Clients
ASSUME BoundsAssumption == {MaxRequests, MaxSignals} \subseteq Nat

VARIABLES
    main,               \* where main is, with start_core and stop_core
    read_set,           \* the clients select returned that are still to be served
    reading,            \* the client whose message the core is in the middle of
    failed,             \* stop_core was called for an error: exit() comes after it
    server_running,     \* the flag of the loop
    efd,                \* the event descriptor is readable
    manager,            \* where the thread of signal_manager is
    pending,            \* the signals that wait for it
    conf_stat,          \* the name of the file of the statistics
    shared,             \* the structures of the slaves
    must_terminate,     \* the flag of the queue
    terminate_queries,  \* the flag of the database
    conn,               \* the connection of client c, seen from the server
    client,             \* what client c is doing
    queue,              \* the jobs queued
    pc,                 \* where slave t is
    work,               \* the job it has in hand
    done,               \* its query has been executed
    misled,             \* history: clients told OP_OK of a query that was not executed
    requests, signals   \* requests and signals so far

coreVars   == <<read_set, reading>>
threadVars == <<pc, work, done>>
flagVars   == <<server_running, must_terminate, terminate_queries>>
lifeVars   == <<conf_stat, shared, failed>>
sigVars    == <<manager, pending, signals>>
clientVars == <<client, misled, requests>>
vars == <<main, coreVars, efd, threadVars, flagVars, lifeVars, sigVars, clientVars, conn, queue>>

Jobs == [op : {"POSTTXT_OP", "DISCONNECT_OP"}, from : Clients]
NoJob == [op |-> "none", from |-> Nobody]

Init ==
    /\ main = "parseconf" /\ read_set = {} /\ reading = Nobody /\ failed = FALSE
    /\ server_running = TRUE /\ efd = FALSE
    /\ manager = "sigwait" /\ pending = {}
    /\ conf_stat = "unset" /\ shared = "unset"
    /\ must_terminate = FALSE /\ terminate_queries = FALSE
    /\ conn = [c \in Clients |-> "none"]
    /\ client = [c \in Clients |-> "away"]
    /\ queue = <<>>
    /\ pc = [t \in Slaves |-> "unborn"]
    /\ work = [t \in Slaves |-> NoJob]
    /\ done = [t \in Slaves |-> FALSE]
    /\ misled = {}
    /\ requests = 0 /\ signals = 0

Exited == main = "exited"
Alive(t) == pc[t] \notin {"unborn", "gone"}

MainGoes(from, to) == ~Exited /\ main = from /\ main' = to

-----------------------------------------------------------------------------
(* The start.                                                              *)

\* parseconf; an error is reported and main calls exit.
ParseConf ==
    /\ MainGoes("parseconf", "set_stat") \/ MainGoes("parseconf", "exited")
    /\ UNCHANGED <<coreVars, efd, threadVars, flagVars, lifeVars, sigVars, clientVars, conn, queue>>

SetConfStat ==
    /\ MainGoes("set_stat", "init_core_db")
    /\ conf_stat' = "set"
    /\ UNCHANGED <<coreVars, efd, threadVars, flagVars, shared, failed, sigVars, clientVars, conn,
                   queue>>

\* init_core_db; after an error start_core returns and main does not call stop_core.
InitCoreDb ==
    /\ MainGoes("init_core_db", "init_core_server") \/ MainGoes("init_core_db", "free_conf")
    /\ UNCHANGED <<coreVars, efd, threadVars, flagVars, lifeVars, sigVars, clientVars, conn, queue>>

\* queue_init, init_slaves, the threads, the socket; an error calls exit.
InitCoreServer ==
    /\ \/ /\ MainGoes("init_core_server", "listen")
          /\ shared' = "set"
          /\ pc' = [t \in Slaves |-> "pop"]
       \/ MainGoes("init_core_server", "exited") /\ UNCHANGED <<shared, pc>>
    /\ UNCHANGED <<coreVars, efd, work, done, flagVars, conf_stat, failed, sigVars, clientVars, conn,
                   queue>>

Listen ==
    /\ \/ MainGoes("listen", "test") /\ UNCHANGED failed
       \/ MainGoes("listen", "queue_free") /\ failed' = TRUE
    /\ UNCHANGED <<coreVars, efd, threadVars, flagVars, conf_stat, shared, sigVars, clientVars, conn,
                   queue>>

-----------------------------------------------------------------------------
(* The loop.                                                               *)

\* Mutant of LeaveLoop: what is still open is not closed.
LeaveLoopOpen ==
    /\ MainGoes("test", "queue_free") /\ ~server_running
    /\ UNCHANGED <<coreVars, efd, threadVars, flagVars, lifeVars, sigVars, clientVars, conn, queue>>

\* while (server_running)
LeaveLoop ==
    /\ MainGoes("test", "closing") /\ ~server_running
    /\ UNCHANGED <<coreVars, efd, threadVars, flagVars, lifeVars, sigVars, clientVars, conn, queue>>

StayInLoop ==
    /\ MainGoes("test", "select") /\ server_running
    /\ UNCHANGED <<coreVars, efd, threadVars, flagVars, lifeVars, sigVars, clientVars, conn, queue>>

\* The event goes before the clients that are ready.
TakeEvent ==
    /\ MainGoes("select", "test") /\ efd
    /\ efd' = FALSE
    /\ UNCHANGED <<coreVars, threadVars, flagVars, lifeVars, sigVars, clientVars, conn, queue>>

\* What select returns: every client it has something from, be it the end of the
\* connection, and the listening socket if a connection is pending.
Select ==
    LET readable == {c \in Clients : conn[c] = "active" /\ client[c] \in {"partial", "sent", "left"}}
        pendingConns == {c \in Clients : conn[c] = "backlog"}
    IN  /\ MainGoes("select", "serve") /\ ~efd
        /\ readable \cup pendingConns # {}
        /\ \/ pendingConns = {} /\ read_set' = readable
           \/ \E c \in pendingConns : read_set' = readable \cup {c}
        /\ UNCHANGED <<reading, efd, threadVars, flagVars, lifeVars, sigVars, clientVars, conn, queue>>

EndOfSet ==
    /\ MainGoes("serve", "test") /\ read_set = {}
    /\ UNCHANGED <<coreVars, efd, threadVars, flagVars, lifeVars, sigVars, clientVars, conn, queue>>

Accept(c) ==
    /\ MainGoes("serve", "serve")
    /\ c \in read_set /\ conn[c] = "backlog"
    /\ conn' = [conn EXCEPT ![c] = "active"]
    /\ read_set' = read_set \ {c}
    /\ UNCHANGED <<reading, efd, threadVars, flagVars, lifeVars, sigVars, clientVars, queue>>

\* readMsg on the connection of c, and the wait for the rest of its message.
StartReading(c) ==
    /\ MainGoes("serve", "readMsg")
    /\ c \in read_set /\ conn[c] = "active"
    /\ reading' = c
    /\ read_set' = read_set \ {c}
    /\ UNCHANGED <<efd, threadVars, flagVars, lifeVars, sigVars, clientVars, conn, queue>>

\* Mutant of FinishReading: an end of the connection in the middle of a message
\* leaves the core reading it.
FinishReadingWhole ==
    LET c == reading
    IN  /\ MainGoes("readMsg", "serve")
        /\ \/ /\ client[c] = "sent"
              /\ queue' = Append(queue, [op |-> "POSTTXT_OP", from |-> c])
              /\ client' = [client EXCEPT ![c] = "waiting"]
              /\ reading' = Nobody
              /\ UNCHANGED conn
           \/ /\ client[c] = "left"
              /\ queue' = Append(queue, [op |-> "DISCONNECT_OP", from |-> c])
              /\ conn' = [conn EXCEPT ![c] = "cleared"]
              /\ UNCHANGED <<client, reading>>
        /\ UNCHANGED <<read_set, efd, threadVars, flagVars, lifeVars, sigVars, misled, requests>>

\* The message is complete, or the connection ends and leaves active_set.
FinishReading ==
    LET c == reading
    IN  /\ MainGoes("readMsg", "serve")
        /\ \/ /\ client[c] = "sent"
              /\ queue' = Append(queue, [op |-> "POSTTXT_OP", from |-> c])
              /\ client' = [client EXCEPT ![c] = "waiting"]
              /\ UNCHANGED conn
           \/ /\ client[c] = "left"
              /\ queue' = Append(queue, [op |-> "DISCONNECT_OP", from |-> c])
              /\ conn' = [conn EXCEPT ![c] = "cleared"]
              /\ UNCHANGED client
        /\ reading' = Nobody
        /\ UNCHANGED <<read_set, efd, threadVars, flagVars, lifeVars, sigVars, misled, requests>>

\* A descriptor in active_set that is not open: Dispatch shows how.
SelectFails ==
    /\ MainGoes("select", "queue_free")
    /\ failed' = TRUE
    /\ UNCHANGED <<coreVars, efd, threadVars, flagVars, conf_stat, shared, sigVars, clientVars, conn,
                   queue>>

-----------------------------------------------------------------------------
(* The end.                                                                *)

\* The end of start_core closes what is left in active_set, one descriptor a step.
CloseActive(c) ==
    /\ main = "closing"
    /\ conn[c] = "active"
    /\ conn' = [conn EXCEPT ![c] = "closed"]
    /\ UNCHANGED <<main, coreVars, efd, threadVars, flagVars, lifeVars, sigVars, clientVars, queue>>

CloseDone ==
    /\ MainGoes("closing", "queue_free")
    /\ \A c \in Clients : conn[c] # "active"
    /\ UNCHANGED <<coreVars, efd, threadVars, flagVars, lifeVars, sigVars, clientVars, conn, queue>>

\* stop_core: queue_free, terminate_db, the joins, destroy_slaves with
\* destroy_queue_mutex; then exit or, after start_core, the end of main.
SetTerminate ==
    /\ MainGoes("queue_free", "drain")
    /\ must_terminate' = TRUE
    /\ UNCHANGED <<coreVars, efd, threadVars, server_running, terminate_queries, lifeVars, sigVars,
                   clientVars, conn, queue>>

Drain ==
    /\ MainGoes("drain", "terminate_db")
    /\ queue' = <<>>
    /\ UNCHANGED <<coreVars, efd, threadVars, flagVars, lifeVars, sigVars, clientVars, conn>>

TerminateDb ==
    /\ MainGoes("terminate_db", "join")
    /\ terminate_queries' = TRUE
    /\ UNCHANGED <<coreVars, efd, threadVars, server_running, must_terminate, lifeVars, sigVars,
                   clientVars, conn, queue>>

\* Mutant of Join: the slaves are not waited for.
JoinNobody ==
    /\ MainGoes("join", "destroy")
    /\ UNCHANGED <<coreVars, efd, threadVars, flagVars, lifeVars, sigVars, clientVars, conn, queue>>

Join ==
    /\ MainGoes("join", "destroy")
    /\ \A t \in Slaves : ~Alive(t)
    /\ UNCHANGED <<coreVars, efd, threadVars, flagVars, lifeVars, sigVars, clientVars, conn, queue>>

Destroy ==
    /\ MainGoes("destroy", "unlink")
    /\ shared' = "freed"
    /\ UNCHANGED <<coreVars, efd, threadVars, flagVars, conf_stat, failed, sigVars, clientVars, conn,
                   queue>>

\* The end of stop_core, and exit after an error.
Unlink ==
    /\ MainGoes("unlink", IF failed THEN "exited" ELSE "free_conf")
    /\ UNCHANGED <<coreVars, efd, threadVars, flagVars, lifeVars, sigVars, clientVars, conn, queue>>

FreeConf ==
    /\ MainGoes("free_conf", "return")
    /\ conf_stat' = "freed"
    /\ UNCHANGED <<coreVars, efd, threadVars, flagVars, shared, failed, sigVars, clientVars, conn,
                   queue>>

Return ==
    /\ MainGoes("return", "exited")
    /\ UNCHANGED <<coreVars, efd, threadVars, flagVars, lifeVars, sigVars, clientVars, conn, queue>>

Core ==
    \/ ParseConf \/ SetConfStat \/ InitCoreDb \/ InitCoreServer \/ Listen
    \/ LeaveLoop \/ StayInLoop \/ TakeEvent \/ Select \/ EndOfSet
    \/ \E c \in Clients : Accept(c) \/ StartReading(c) \/ CloseActive(c)
    \/ FinishReading \/ CloseDone
    \/ SetTerminate \/ Drain \/ TerminateDb \/ Join \/ Destroy \/ Unlink \/ FreeConf \/ Return

-----------------------------------------------------------------------------
(* The signals.                                                            *)

\* A signal is pending at most once.
Signal(sig) ==
    /\ ~Exited /\ signals < MaxSignals
    /\ pending' = pending \cup {sig}
    /\ signals' = signals + 1
    /\ UNCHANGED <<main, coreVars, efd, threadVars, flagVars, lifeVars, clientVars, conn, queue,
                   manager>>

\* sigwait, and what follows up to the first call that looks at something shared.
SigWait(sig) ==
    /\ ~Exited /\ manager = "sigwait" /\ sig \in pending
    /\ pending' = pending \ {sig}
    /\ manager' = IF sig = "SIGUSR1" THEN "stats" ELSE "stop_server"
    /\ UNCHANGED <<main, coreVars, efd, threadVars, flagVars, lifeVars, clientVars, conn, queue,
                   signals>>

\* fopen(conf_stat) and manage_getstats.  There is nothing to open before the
\* configuration has been read, and handle_error calls exit; a name that has been
\* freed may still be there or not.
WriteStats ==
    /\ ~Exited /\ manager = "stats"
    /\ manager' = "sigwait"
    /\ \/ conf_stat # "unset" /\ UNCHANGED main
       \/ conf_stat # "set" /\ main' = "exited"
    /\ UNCHANGED <<coreVars, efd, threadVars, flagVars, lifeVars, clientVars, conn, queue,
                   pending, signals>>

StopServer ==
    /\ ~Exited /\ manager = "stop_server"
    /\ server_running' = FALSE
    /\ manager' = "write"
    /\ UNCHANGED <<main, coreVars, efd, threadVars, must_terminate, terminate_queries, lifeVars,
                   clientVars, conn, queue, pending, signals>>

\* Mutant of WriteEvent: the core is not woken.
WriteNoEvent ==
    /\ ~Exited /\ manager = "write"
    /\ manager' = "done"
    /\ UNCHANGED <<main, coreVars, efd, threadVars, flagVars, lifeVars, clientVars, conn, queue,
                   pending, signals>>

WriteEvent ==
    /\ ~Exited /\ manager = "write"
    /\ efd' = TRUE
    /\ manager' = "done"
    /\ UNCHANGED <<main, coreVars, threadVars, flagVars, lifeVars, clientVars, conn, queue,
                   pending, signals>>

Manager ==
    \/ \E sig \in {"SIGUSR1", "SIGTERM"} : SigWait(sig)
    \/ WriteStats \/ StopServer \/ WriteEvent

-----------------------------------------------------------------------------
(* The slaves.                                                             *)

SlaveGoes(t, from, to) == ~Exited /\ pc[t] = from /\ pc' = [pc EXCEPT ![t] = to]

Retire(t) ==
    /\ SlaveGoes(t, "pop", "gone") /\ must_terminate
    /\ UNCHANGED <<main, coreVars, efd, work, done, flagVars, lifeVars, sigVars, clientVars, conn,
                   queue>>

Pop(t) ==
    /\ SlaveGoes(t, "pop", "query") /\ ~must_terminate /\ queue # <<>>
    /\ work' = [work EXCEPT ![t] = Head(queue)]
    /\ queue' = Tail(queue)
    /\ UNCHANGED <<main, coreVars, efd, done, flagVars, lifeVars, sigVars, clientVars, conn>>

\* exec_query: once it is told to terminate, a statement that writes and finds
\* the database in use is skipped and reported as done.
Query(t) ==
    /\ SlaveGoes(t, "query", IF work[t].op = "DISCONNECT_OP" THEN "close" ELSE "answer")
    /\ \/ done' = [done EXCEPT ![t] = TRUE]
       \/ terminate_queries /\ (\E s \in Slaves \ {t} : pc[s] = "query") /\ UNCHANGED done
    /\ UNCHANGED <<main, coreVars, efd, work, flagVars, lifeVars, sigVars, clientVars, conn, queue>>

Forget(t) ==
    /\ work' = [work EXCEPT ![t] = NoJob]
    /\ done' = [done EXCEPT ![t] = FALSE]

\* send_ack of OP_OK: on a connection that has been closed it fails, unnoticed.
Answer(t) ==
    LET c == work[t].from
    IN  /\ SlaveGoes(t, "answer", "pop")
        /\ IF conn[c] = "active" /\ client[c] = "waiting"
           THEN /\ client' = [client EXCEPT ![c] = "idle"]
                /\ misled' = IF done[t] THEN misled ELSE misled \cup {c}
           ELSE UNCHANGED <<client, misled>>
        /\ Forget(t)
        /\ UNCHANGED <<main, coreVars, efd, flagVars, lifeVars, sigVars, requests, conn, queue>>

Close(t) ==
    /\ SlaveGoes(t, "close", "pop")
    /\ conn' = [conn EXCEPT ![work[t].from] = "closed"]
    /\ Forget(t)
    /\ UNCHANGED <<main, coreVars, efd, flagVars, lifeVars, sigVars, clientVars, queue>>

Slave(t) == Retire(t) \/ Pop(t) \/ Query(t) \/ Answer(t) \/ Close(t)

-----------------------------------------------------------------------------
(* The clients (client.c).                                                 *)

ClientGoes(c, from, to) ==
    /\ ~Exited /\ client[c] \in from
    /\ client' = [client EXCEPT ![c] = to]
    /\ UNCHANGED <<main, coreVars, efd, threadVars, flagVars, lifeVars, sigVars, misled, queue>>

Connect(c) ==
    /\ main \in {"test", "select", "serve", "readMsg"}
    /\ ClientGoes(c, {"away"}, "idle")
    /\ conn' = [conn EXCEPT ![c] = "backlog"]
    /\ UNCHANGED requests

\* A message goes out in parts.
Send(c) ==
    /\ requests < MaxRequests
    /\ ClientGoes(c, {"idle"}, "partial")
    /\ requests' = requests + 1
    /\ UNCHANGED conn

SendRest(c) == ClientGoes(c, {"partial"}, "sent") /\ UNCHANGED <<conn, requests>>

Leave(c) == ClientGoes(c, {"idle", "partial"}, "left") /\ UNCHANGED <<conn, requests>>

Client(c) == Connect(c) \/ Send(c) \/ SendRest(c) \/ Leave(c)

Next ==
    \/ Core \/ SelectFails \/ Manager
    \/ \E sig \in {"SIGUSR1", "SIGTERM"} : Signal(sig)
    \/ \E t \in Slaves : Slave(t)
    \/ \E c \in Clients : Client(c)

\* The threads go on; a client that has begun a message ends it or leaves.
Fairness ==
    /\ WF_vars(Core) /\ WF_vars(Manager)
    /\ \A t \in Slaves : WF_vars(Slave(t))
    /\ \A c \in Clients : WF_vars(SendRest(c))

Spec == Init /\ [][Next]_vars /\ Fairness

-----------------------------------------------------------------------------
(* Correctness.                                                            *)

TypeOK ==
    /\ main \in {"parseconf", "set_stat", "init_core_db", "init_core_server", "listen", "test",
                 "select", "serve", "readMsg", "closing", "queue_free", "drain", "terminate_db",
                 "join", "destroy", "unlink", "free_conf", "return", "exited"}
    /\ read_set \subseteq Clients
    /\ reading \in Clients \cup {Nobody}
    /\ (reading # Nobody => main \in {"readMsg", "exited"}) /\ (main = "readMsg" => reading # Nobody)
    /\ {failed, server_running, efd, must_terminate, terminate_queries} \subseteq BOOLEAN
    /\ manager \in {"sigwait", "stats", "stop_server", "write", "done"}
    /\ pending \subseteq {"SIGUSR1", "SIGTERM"}
    /\ {conf_stat, shared} \subseteq {"unset", "set", "freed"}
    /\ conn \in [Clients -> {"none", "backlog", "active", "cleared", "closed"}]
    /\ client \in [Clients -> {"away", "idle", "partial", "sent", "waiting", "left"}]
    /\ queue \in Seq(Jobs)
    /\ pc \in [Slaves -> {"unborn", "pop", "query", "answer", "close", "gone"}]
    /\ work \in [Slaves -> Jobs \cup {NoJob}]
    /\ \A t \in Slaves : pc[t] \in {"query", "answer", "close"} => work[t] \in Jobs
    /\ done \in [Slaves -> BOOLEAN]
    /\ misled \subseteq Clients
    /\ requests \in 0 .. MaxRequests /\ signals \in 0 .. MaxSignals

\* A client that is told OP_OK had its query executed, although exec_query skips
\* statements and reports them as done while the database terminates: start_core
\* closes the connections before stop_core begins.  The way out of a select that
\* failed does not close them (queries.c:236-242, core.c:355-359, 478-481).
NobodyMisledByStop == misled # {} => failed

\* What the threads share is there while they may use it: the structures of the
\* slaves as long as a slave lives, and the name of the file of the statistics,
\* with the counters, while the signal manager writes them; unless the signal came
\* before the configuration was read, or the process is ending for an error
\* (core.c:511-531, chatty.c:115-123, 273-289).
NothingUsedAfterFree ==
    /\ (\E t \in Slaves : Alive(t)) /\ ~Exited => shared = "set"
    /\ manager = "stats" /\ ~Exited
       => \/ conf_stat = "set" /\ shared # "freed"
          \/ main \in {"parseconf", "set_stat"}
          \/ main \in {"unlink", "free_conf", "return"} /\ (failed \/ shared = "unset")

\* A termination signal ends the process, wherever main and the slaves are when
\* it comes (chatty.c:130-144, core.c:354-371, 478-531).
SignalEndsServer == "SIGTERM" \in pending ~> Exited
=============================================================================
