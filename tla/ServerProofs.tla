---------------------------- MODULE ServerProofs ----------------------------
(***************************************************************************)
(* What the order of main and stop_core guarantees, for any number of      *)
(* slaves, clients, requests and signals.  Two invariants say where main   *)
(* is when things are set, used and freed: Life (the structures, their     *)
(* names and who may still look at them) and Ending (which connections     *)
(* are open once the database terminates).                                 *)
(***************************************************************************)
EXTENDS Server, TLAPS

LEMMA Bounds == MaxRequests \in Nat /\ MaxSignals \in Nat
BY BoundsAssumption

USE NobodyAssumption, Bounds

-----------------------------------------------------------------------------
(* Types.                                                                  *)

\* Every value is of its type; in particular main is in the middle of a message
\* exactly of a client it has accepted, and a slave past queue_pop has a job
\* (core.c:366-391, slaves.c:259).
THEOREM TypeCorrect == Spec => []TypeOK
<1>1. Init => TypeOK
  <2> SUFFICES ASSUME Init PROVE TypeOK
    OBVIOUS
  <2>1. queue \in Seq(Jobs)
    BY DEF Init
  <2>2. /\ requests \in 0 .. MaxRequests /\ signals \in 0 .. MaxSignals
        /\ pending \subseteq {"SIGUSR1", "SIGTERM"}
    BY DEF Init
  <2>3. work \in [Slaves -> Jobs \cup {NoJob}]
    BY DEF Init
  <2> QED BY <2>1, <2>2, <2>3 DEF Init, TypeOK
<1>2. TypeOK /\ [Next]_vars => TypeOK'
  <2> SUFFICES ASSUME TypeOK, [Next]_vars PROVE TypeOK'
    OBVIOUS
  <2> USE DEF TypeOK, vars, coreVars, threadVars, flagVars, lifeVars, sigVars, clientVars
  <2>1. CASE Core \/ SelectFails
    <3> USE DEF MainGoes
    <3>1. CASE ParseConf \/ SetConfStat \/ InitCoreDb \/ InitCoreServer \/ Listen
      BY <3>1 DEF ParseConf, SetConfStat, InitCoreDb, InitCoreServer, Listen
    <3>2. CASE LeaveLoop \/ StayInLoop \/ TakeEvent \/ EndOfSet \/ SelectFails \/ CloseDone
      BY <3>2 DEF LeaveLoop, StayInLoop, TakeEvent, EndOfSet, SelectFails, CloseDone
    <3>3. CASE Select
      BY <3>3 DEF Select
    <3>4. ASSUME NEW c \in Clients, Accept(c) \/ StartReading(c) \/ CloseActive(c) PROVE TypeOK'
      BY <3>4 DEF Accept, StartReading, CloseActive
    <3>5. CASE FinishReading
      <4>1. reading \in Clients
        BY <3>5 DEF FinishReading
      <4>2. ASSUME NEW o \in {"POSTTXT_OP", "DISCONNECT_OP"}
            PROVE  Append(queue, [op |-> o, from |-> reading]) \in Seq(Jobs)
        <5>1. [op |-> o, from |-> reading] \in Jobs
          BY <4>1 DEF Jobs
        <5> QED BY <5>1
      <4> QED BY <3>5, <4>1, <4>2 DEF FinishReading
    <3>6. CASE SetTerminate \/ TerminateDb \/ Join \/ Destroy
      BY <3>6 DEF SetTerminate, TerminateDb, Join, Destroy
    <3>7. CASE Drain
      BY <3>7 DEF Drain
    <3>8. CASE Unlink \/ FreeConf \/ Return
      BY <3>8 DEF Unlink, FreeConf, Return
    <3> QED BY <2>1, <3>1, <3>2, <3>3, <3>4, <3>5, <3>6, <3>7, <3>8 DEF Core
  <2>2. CASE Manager
    BY <2>2 DEF Manager, SigWait, WriteStats, StopServer, WriteEvent
  <2>3. ASSUME NEW sig \in {"SIGUSR1", "SIGTERM"}, Signal(sig) PROVE TypeOK'
    <3>1. signals' \in 0 .. MaxSignals
      BY <2>3 DEF Signal
    <3>2. pending' \subseteq {"SIGUSR1", "SIGTERM"}
      BY <2>3 DEF Signal
    <3> QED BY <2>3, <3>1, <3>2 DEF Signal
  <2>4. ASSUME NEW t \in Slaves, Slave(t) PROVE TypeOK'
    <3> USE DEF SlaveGoes
    <3>1. CASE Pop(t)
      <4>1. Head(queue) \in Jobs /\ Tail(queue) \in Seq(Jobs)
        BY <3>1 DEF Pop
      <4> QED BY <3>1, <4>1 DEF Pop
    <3>2. CASE Retire(t) \/ Query(t)
      BY <3>2 DEF Retire, Query
    <3>3. CASE Answer(t)
      <4>1. work' \in [Slaves -> Jobs \cup {NoJob}] /\ done' \in [Slaves -> BOOLEAN]
        BY <3>3 DEF Answer, Forget
      <4>2. \A s \in Slaves : pc'[s] \in {"query", "answer", "close"} => work'[s] \in Jobs
        <5> HIDE DEF Jobs, NoJob
        <5> QED BY <3>3 DEF Answer, Forget
      <4>3. work[t].from \in Clients
        BY <3>3 DEF Answer, Jobs
      <4>4. client' \in [Clients -> {"away", "idle", "partial", "sent", "waiting", "left"}]
        BY <3>3 DEF Answer
      <4>5. misled' \subseteq Clients
        BY <3>3, <4>3 DEF Answer
      <4>6. pc' \in [Slaves -> {"unborn", "pop", "query", "answer", "close", "gone"}]
        BY <3>3 DEF Answer
      <4>7. UNCHANGED <<main, coreVars, efd, flagVars, lifeVars, sigVars, requests, conn, queue>>
        BY <3>3 DEF Answer
      <4> HIDE DEF Jobs, NoJob
      <4> QED BY <4>1, <4>2, <4>4, <4>5, <4>6, <4>7
    <3>4. CASE Close(t)
      <4>1. work[t].from \in Clients
        BY <3>4 DEF Close, Jobs
      <4> HIDE DEF Jobs, NoJob
      <4> QED BY <3>4, <4>1 DEF Close, Forget
    <3> QED BY <2>4, <3>1, <3>2, <3>3, <3>4 DEF Slave
  <2>5. ASSUME NEW c \in Clients, Client(c) PROVE TypeOK'
    <3> USE DEF ClientGoes
    <3>1. CASE Connect(c)
      BY <3>1 DEF Connect
    <3>2. CASE Send(c)
      BY <3>2 DEF Send
    <3>3. CASE SendRest(c) \/ Leave(c)
      BY <3>3 DEF SendRest, Leave
    <3> QED BY <2>5, <3>1, <3>2, <3>3 DEF Client
  <2>6. CASE UNCHANGED vars
    BY <2>6
  <2> QED BY <2>1, <2>2, <2>3, <2>4, <2>5, <2>6 DEF Next
<1> QED BY <1>1, <1>2, PTL DEF Spec

-----------------------------------------------------------------------------
(* When the structures and the names are set and freed.                    *)

Names ==
    /\ main \in {"parseconf", "set_stat"} => conf_stat = "unset"
    /\ main \notin {"parseconf", "set_stat", "return", "exited"} => conf_stat = "set"

\* The slaves are born with what they share, which is freed after the joins.
Structures ==
    /\ main \in {"parseconf", "set_stat", "init_core_db", "init_core_server"} => shared = "unset"
    /\ main \in {"listen", "test", "select", "serve", "readMsg", "closing", "queue_free", "drain",
                 "terminate_db", "join", "destroy"} => shared = "set"
    /\ shared = "unset" => \A t \in Slaves : pc[t] = "unborn"
    /\ shared = "freed" \/ main = "destroy" => \A t \in Slaves : ~Alive(t)

\* Why main has come to its end: an error, or the signal that the manager takes last.
Reasons ==
    /\ manager \notin {"write", "done"} => server_running
    /\ main \in {"closing", "queue_free", "drain", "terminate_db", "join", "destroy", "unlink"}
       => failed \/ ~server_running
    /\ main \in {"free_conf", "return"} => shared = "unset" \/ ~server_running

Life == Names /\ Structures /\ Reasons

LEMMA LifeImplies == TypeOK /\ Life => NothingUsedAfterFree
<1> SUFFICES ASSUME TypeOK, Life PROVE NothingUsedAfterFree
  OBVIOUS
<1>1. shared \in {"unset", "set", "freed"}
  BY DEF TypeOK
<1>2. (\E t \in Slaves : Alive(t)) => shared = "set"
  BY <1>1 DEF Life, Structures, Alive
<1>3. ASSUME manager = "stats", ~Exited
      PROVE  \/ conf_stat = "set" /\ shared # "freed"
             \/ main \in {"parseconf", "set_stat"}
             \/ main \in {"unlink", "free_conf", "return"} /\ (failed \/ shared = "unset")
  <2>1. server_running
    BY <1>3 DEF Life, Reasons
  <2>2. shared = "freed" => main \in {"unlink", "free_conf", "return"}
    BY <1>3 DEF TypeOK, Life, Structures, Exited
  <2> QED BY <1>3, <2>1, <2>2 DEF Life, Names, Reasons, Exited
<1> QED BY <1>2, <1>3 DEF NothingUsedAfterFree

LEMMA LifeStep == TypeOK /\ Life /\ [Next]_vars => Life'
<1> SUFFICES ASSUME TypeOK, Life, [Next]_vars PROVE Life'
  OBVIOUS
<1> USE DEF Life, Names, Structures, Reasons, Alive, Exited,
            vars, coreVars, threadVars, flagVars, lifeVars, sigVars, clientVars
<1>1. CASE Core \/ SelectFails
  <2> USE DEF MainGoes
  <2>1. CASE ParseConf \/ SetConfStat \/ InitCoreDb \/ InitCoreServer \/ Listen
    BY <2>1 DEF ParseConf, SetConfStat, InitCoreDb, InitCoreServer, Listen
  <2>2. CASE LeaveLoop \/ StayInLoop \/ TakeEvent \/ Select \/ EndOfSet
    BY <2>2 DEF LeaveLoop, StayInLoop, TakeEvent, Select, EndOfSet
  <2>3. CASE \E c \in Clients : Accept(c) \/ StartReading(c) \/ CloseActive(c)
    BY <2>3 DEF Accept, StartReading, CloseActive
  <2>4. CASE FinishReading \/ SelectFails \/ CloseDone
    BY <2>4 DEF FinishReading, SelectFails, CloseDone
  <2>5. CASE SetTerminate \/ Drain \/ TerminateDb
    BY <2>5 DEF SetTerminate, Drain, TerminateDb
  <2>6. CASE Join \/ Destroy
    BY <2>6 DEF Join, Destroy
  <2>7. CASE Unlink \/ FreeConf \/ Return
    BY <2>7 DEF Unlink, FreeConf, Return, TypeOK
  <2> QED BY <1>1, <2>1, <2>2, <2>3, <2>4, <2>5, <2>6, <2>7 DEF Core
<1>2. CASE Manager \/ \E sig \in {"SIGUSR1", "SIGTERM"} : Signal(sig)
  BY <1>2 DEF Manager, SigWait, WriteStats, StopServer, WriteEvent, Signal
<1>3. ASSUME NEW t \in Slaves, Slave(t) PROVE Life'
  <2>1. pc[t] \notin {"unborn", "gone"} /\ pc' = [pc EXCEPT ![t] = pc'[t]]
    BY <1>3 DEF Slave, Retire, Pop, Query, Answer, Close, SlaveGoes, TypeOK
  <2>2. UNCHANGED <<main, conf_stat, shared, failed, server_running, manager>>
    BY <1>3 DEF Slave, Retire, Pop, Query, Answer, Close
  <2> QED BY <2>1, <2>2 DEF TypeOK
<1>4. ASSUME NEW c \in Clients, Client(c) PROVE Life'
  BY <1>4 DEF Client, ClientGoes, Connect, Send, SendRest, Leave
<1>5. CASE UNCHANGED vars
  BY <1>5
<1> QED BY <1>1, <1>2, <1>3, <1>4, <1>5 DEF Next

\* What the slaves share is there while one of them lives, and the signal manager
\* finds the name of its file and the counters, for any number of slaves and any
\* signals, save for the two windows the property names (core.c:511-531,
\* chatty.c:115-123, 273-289).
THEOREM NoUseAfterFree == Spec => []NothingUsedAfterFree
<1>1. Init => Life
  BY DEF Init, Life, Names, Structures, Reasons
<1> QED BY <1>1, TypeCorrect, LifeStep, LifeImplies, PTL DEF Spec

-----------------------------------------------------------------------------
(* Who may be told what while the database terminates.                     *)

NoneOpen == \A c \in Clients : conn[c] # "active"

\* A query is skipped only after terminate_db, and terminate_db comes when nothing
\* is open, unless an error has led there.
Ending ==
    /\ \A t \in Slaves : pc[t] = "answer" /\ ~done[t] => terminate_queries
    /\ terminate_queries => main \in {"join", "destroy", "unlink", "free_conf", "return", "exited"}
    /\ main \in {"queue_free", "drain", "terminate_db"} \/ terminate_queries => failed \/ NoneOpen
    /\ NobodyMisledByStop

LEMMA EndingStep == TypeOK /\ Ending /\ [Next]_vars => Ending'
<1> SUFFICES ASSUME TypeOK, Ending, [Next]_vars PROVE Ending'
  OBVIOUS
<1> USE DEF Ending, NoneOpen, NobodyMisledByStop, Exited,
            vars, coreVars, threadVars, flagVars, lifeVars, sigVars, clientVars
<1>1. CASE Core \/ SelectFails
  <2> USE DEF MainGoes
  <2>1. CASE ParseConf \/ SetConfStat \/ InitCoreDb \/ InitCoreServer \/ Listen
    BY <2>1 DEF ParseConf, SetConfStat, InitCoreDb, InitCoreServer, Listen
  <2>2. CASE LeaveLoop \/ StayInLoop \/ TakeEvent \/ Select \/ EndOfSet
    BY <2>2 DEF LeaveLoop, StayInLoop, TakeEvent, Select, EndOfSet
  <2>3. ASSUME NEW c \in Clients, Accept(c) \/ StartReading(c) \/ CloseActive(c) PROVE Ending'
    BY <2>3 DEF Accept, StartReading, CloseActive, TypeOK
  <2>4. CASE FinishReading
    BY <2>4 DEF FinishReading
  <2>5. CASE SelectFails \/ CloseDone
    BY <2>5 DEF SelectFails, CloseDone
  <2>6. CASE SetTerminate \/ Drain \/ TerminateDb
    BY <2>6 DEF SetTerminate, Drain, TerminateDb
  <2>7. CASE Join \/ Destroy \/ Unlink \/ FreeConf \/ Return
    BY <2>7 DEF Join, Destroy, Unlink, FreeConf, Return
  <2> QED BY <1>1, <2>1, <2>2, <2>3, <2>4, <2>5, <2>6, <2>7 DEF Core
<1>2. CASE Manager \/ \E sig \in {"SIGUSR1", "SIGTERM"} : Signal(sig)
  BY <1>2 DEF Manager, SigWait, WriteStats, StopServer, WriteEvent, Signal
<1>3. ASSUME NEW t \in Slaves, Slave(t) PROVE Ending'
  <2> USE <1>3 DEF SlaveGoes, TypeOK
  <2>1. CASE Retire(t) \/ Pop(t)
    BY <2>1 DEF Retire, Pop
  <2>2. CASE Query(t)
    BY <2>2 DEF Query
  <2>3. CASE Answer(t)
    <3>1. misled' # {} => failed
      BY <2>3 DEF Answer, Jobs
    <3> QED BY <2>3, <3>1 DEF Answer, Forget
  <2>4. CASE Close(t)
    BY <2>4 DEF Close, Forget, Jobs
  <2> QED BY <2>1, <2>2, <2>3, <2>4 DEF Slave
<1>4. ASSUME NEW c \in Clients, Client(c) PROVE Ending'
  BY <1>4 DEF Client, ClientGoes, Connect, Send, SendRest, Leave, TypeOK
<1>5. CASE UNCHANGED vars
  BY <1>5
<1> QED BY <1>1, <1>2, <1>3, <1>4, <1>5 DEF Next

\* No client is told OP_OK of a query that was skipped because the server stops:
\* start_core closes the connections before terminate_db, unless select or listen
\* failed (queries.c:236-242, core.c:355-359, 478-481).
THEOREM NobodyMisled == Spec => []NobodyMisledByStop
<1>1. Init => Ending
  BY DEF Init, Ending, NobodyMisledByStop
<1>2. Ending => NobodyMisledByStop
  BY DEF Ending
<1> QED BY <1>1, <1>2, TypeCorrect, EndingStep, PTL DEF Spec
=============================================================================
