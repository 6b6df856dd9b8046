------------------------------ MODULE JobQueue ------------------------------
(***************************************************************************)
(* queues.c: the queue of jobs between the core thread and the slaves,     *)
(* with the loop of a slave around queue_pop and the part of stop_core     *)
(* that empties the queue and joins the slaves.                            *)
(*                                                                         *)
(* A step is what a thread does while it holds mux.  must_terminate is     *)
(* read and written outside mux too, so the unlocked test at the top of    *)
(* queue_pop, the test under mux, the falling asleep, and the four parts   *)
(* of queue_free are steps of their own.                                   *)
(***************************************************************************)
EXTENDS Naturals, Sequences, FiniteSets

CONSTANTS
    Slaves,    \* the threads that pop
    NoSlave,   \* mux is free
    Jobs,      \* the messages of one run of the server
    Unknown,   \* those of an operation that no branch of the slaves handles
    NoJob      \* a slave that has nothing in hand

ASSUME SlavesAssumption == IsFiniteSet(Slaves) /\ NoSlave \notin Slaves
ASSUME JobsAssumption   == NoJob \notin Jobs /\ Unknown \subseteq Jobs

VARIABLES
    queue,            \* the STAILQ
    must_terminate,
    mux,              \* the holder of the mutex while it is held across a step
    pc,               \* where slave t is in its loop
    held,             \* the job slave t has in hand
    fresh,            \* jobs the core has not pushed yet
    freed,            \* jobs whose message was released
    stale,            \* slaves whose entry of critic_zone outlived its request
    stopper           \* where the main thread is in stop_core

vars == <<queue, must_terminate, mux, pc, held, fresh, freed, stale, stopper>>

(***************************************************************************)
(* pop      at the top of queue_pop                                        *)
(* lock     saw must_terminate = 0, about to lock mux                      *)
(* towait   found the queue empty, holds mux, about to wait                *)
(* blocked  asleep in pthread_cond_wait                                    *)
(* woken    out of the wait, about to get mux back                         *)
(* work     back from queue_pop with a job                                 *)
(* conflict another slave works on the same user, about to push it back    *)
(* exit     got TERMINATION_FD, the thread is over                         *)
(***************************************************************************)
PCs == {"pop", "lock", "towait", "blocked", "woken", "work", "conflict", "exit"}

At(l) == {t \in Slaves : pc[t] = l}
Queued == {queue[i] : i \in DOMAIN queue}
Held   == {held[t] : t \in Slaves} \ {NoJob}

Init ==
    /\ queue = <<>>
    /\ must_terminate = FALSE
    /\ mux = NoSlave
    /\ pc = [t \in Slaves |-> "pop"]
    /\ held = [t \in Slaves |-> NoJob]
    /\ fresh = Jobs
    /\ freed = {}
    /\ stale = {}
    /\ stopper = "running"

\* Mutants of Enqueue: nobody is signalled; a sleeper is signalled only when the
\* queue was empty.
EnqueueSilent(j, f) ==
    /\ mux = NoSlave
    /\ queue' = Append(queue, j)
    /\ pc' = f
EnqueueSignalsIfEmpty(j, f) ==
    /\ mux = NoSlave
    /\ queue' = Append(queue, j)
    /\ \/ (At("blocked") = {} \/ queue # <<>>) /\ pc' = f
       \/ queue = <<>> /\ \E s \in At("blocked") : pc' = [f EXCEPT ![s] = "woken"]

\* queue_push: append, and wake one sleeper if there is one; `f` is what pc is
\* otherwise.
Enqueue(j, f) ==
    /\ mux = NoSlave
    /\ queue' = Append(queue, j)
    /\ \/ At("blocked") = {} /\ pc' = f
       \/ \E s \in At("blocked") : pc' = [f EXCEPT ![s] = "woken"]

\* The core loop pushes a message it has just read; it has stopped reading when
\* stop_core runs.
CorePush(j) ==
    /\ stopper = "running"
    /\ j \in fresh
    /\ Enqueue(j, pc)
    /\ fresh' = fresh \ {j}
    /\ UNCHANGED <<must_terminate, mux, held, freed, stale, stopper>>

\* The critical zone does not let the request of t run beside that of another
\* slave, or beside what a slave left in its entry: t will put it back, by when
\* the entry may be gone (slaves.c:207-217, 293-299).
FindConflict(t) ==
    /\ pc[t] = "work"
    /\ \E s \in Slaves \ {t} : pc[s] = "work" \/ s \in stale
    /\ pc' = [pc EXCEPT ![t] = "conflict"]
    /\ UNCHANGED <<queue, must_terminate, mux, held, fresh, freed, stale, stopper>>

\* Mutant of Repush: the job is pushed after it was let go of.
RepushCleared(t) ==
    /\ pc[t] = "conflict"
    /\ Enqueue(NoJob, [pc EXCEPT ![t] = "pop"])
    /\ held' = [held EXCEPT ![t] = NoJob]
    /\ UNCHANGED <<must_terminate, mux, fresh, freed, stale, stopper>>

Repush(t) ==
    /\ pc[t] = "conflict"
    /\ Enqueue(held[t], [pc EXCEPT ![t] = "pop"])
    /\ held' = [held EXCEPT ![t] = NoJob]
    /\ UNCHANGED <<must_terminate, mux, fresh, freed, stale, stopper>>

\* A slave has served its request and frees the message.  Its entry of the zone is
\* cleaned, unless the message was one refused by the core, which does not go
\* through the zone (slaves.c:293, 541-545).
Complete(t) ==
    /\ pc[t] = "work" /\ held[t] \notin Unknown
    /\ pc' = [pc EXCEPT ![t] = "pop"]
    /\ held' = [held EXCEPT ![t] = NoJob]
    /\ freed' = freed \cup {held[t]}
    /\ stale' \in {stale, stale \ {t}}
    /\ UNCHANGED <<queue, must_terminate, mux, fresh, stopper>>

\* A slave answers an operation it does not know and goes on with its loop: the
\* message is not freed, and the entry of the zone stays until the next request
\* of this slave takes its place (slaves.c:533-538).
Forget(t) ==
    /\ pc[t] = "work" /\ held[t] \in Unknown
    /\ pc' = [pc EXCEPT ![t] = "pop"]
    /\ held' = [held EXCEPT ![t] = NoJob]
    /\ stale' = stale \cup {t}
    /\ UNCHANGED <<queue, must_terminate, mux, fresh, freed, stopper>>

\* queue_pop up to pthread_mutex_lock.
TestUnlocked(t) ==
    /\ pc[t] = "pop"
    /\ pc' = [pc EXCEPT ![t] = IF must_terminate THEN "exit" ELSE "lock"]
    /\ UNCHANGED <<queue, must_terminate, mux, held, fresh, freed, stale, stopper>>

\* t gets mux, for the first time or back from the wait.
AtTest(t) == pc[t] \in {"lock", "woken"} /\ mux = NoSlave

\* Mutant of PopNothing: the loop around the wait tests the queue only.
PopNothingDeaf(t) ==
    /\ AtTest(t)
    /\ queue = <<>>
    /\ mux' = t
    /\ pc' = [pc EXCEPT ![t] = "towait"]
    /\ UNCHANGED <<queue, must_terminate, held, fresh, freed, stale, stopper>>

PopNothing(t) ==
    /\ AtTest(t)
    /\ queue = <<>> /\ ~must_terminate
    /\ mux' = t
    /\ pc' = [pc EXCEPT ![t] = "towait"]
    /\ UNCHANGED <<queue, must_terminate, held, fresh, freed, stale, stopper>>

\* pthread_cond_wait releases mux and falls asleep in one step.
FallAsleep(t) ==
    /\ pc[t] = "towait"
    /\ mux' = NoSlave
    /\ pc' = [pc EXCEPT ![t] = "blocked"]
    /\ UNCHANGED <<queue, must_terminate, held, fresh, freed, stale, stopper>>

PopTermination(t) ==
    /\ AtTest(t)
    /\ must_terminate
    /\ pc' = [pc EXCEPT ![t] = "exit"]
    /\ UNCHANGED <<queue, must_terminate, mux, held, fresh, freed, stale, stopper>>

\* Mutant of PopJob: STAILQ_REMOVE_HEAD is missing.
PopJobKeepsHead(t) ==
    /\ AtTest(t)
    /\ queue # <<>> /\ ~must_terminate
    /\ held' = [held EXCEPT ![t] = Head(queue)]
    /\ pc' = [pc EXCEPT ![t] = "work"]
    /\ UNCHANGED <<queue, must_terminate, mux, fresh, freed, stale, stopper>>

PopJob(t) ==
    /\ AtTest(t)
    /\ queue # <<>> /\ ~must_terminate
    /\ held' = [held EXCEPT ![t] = Head(queue)]
    /\ queue' = Tail(queue)
    /\ pc' = [pc EXCEPT ![t] = "work"]
    /\ UNCHANGED <<must_terminate, mux, fresh, freed, stale, stopper>>

SpuriousWakeup(t) ==
    /\ pc[t] = "blocked"
    /\ pc' = [pc EXCEPT ![t] = "woken"]
    /\ UNCHANGED <<queue, must_terminate, mux, held, fresh, freed, stale, stopper>>

\* queue_free, called once by stop_core: the flag, a broadcast, the draining
\* under mux, a second broadcast.
SetTerminate ==
    /\ stopper = "running"
    /\ must_terminate' = TRUE
    /\ stopper' = "flagged"
    /\ UNCHANGED <<queue, mux, pc, held, fresh, freed, stale>>

Broadcast(from, to) ==
    /\ stopper = from
    /\ pc' = [t \in Slaves |-> IF pc[t] = "blocked" THEN "woken" ELSE pc[t]]
    /\ stopper' = to
    /\ UNCHANGED <<queue, must_terminate, mux, held, fresh, freed, stale>>

FirstBroadcast == Broadcast("flagged", "draining")

\* Mutant of SecondBroadcast: it is missing.
SecondBroadcastMissing ==
    /\ stopper = "drained"
    /\ stopper' = "joining"
    /\ UNCHANGED <<queue, must_terminate, mux, pc, held, fresh, freed, stale>>

SecondBroadcast == Broadcast("drained", "joining")

Drain ==
    /\ stopper = "draining"
    /\ mux = NoSlave
    /\ queue' = <<>>
    /\ freed' = freed \cup Queued
    /\ stopper' = "drained"
    /\ UNCHANGED <<must_terminate, mux, pc, held, fresh, stale>>

\* stop_core joins every slave before it destroys mux and the condition.
Join ==
    /\ stopper = "joining"
    /\ At("exit") = Slaves
    /\ stopper' = "joined"
    /\ UNCHANGED <<queue, must_terminate, mux, pc, held, fresh, freed, stale>>

Slave(t) ==
    \/ TestUnlocked(t) \/ PopNothing(t) \/ FallAsleep(t)
    \/ PopTermination(t) \/ PopJob(t)
    \/ FindConflict(t) \/ Repush(t) \/ Complete(t) \/ Forget(t)

Stopper == FirstBroadcast \/ Drain \/ SecondBroadcast \/ Join

Next ==
    \/ \E j \in Jobs : CorePush(j)
    \/ \E t \in Slaves : Slave(t) \/ SpuriousWakeup(t)
    \/ SetTerminate
    \/ Stopper

\* Every slave keeps running and stop_core, once begun, goes on; messages
\* arrive and the server is stopped when the environment likes.
Spec == Init /\ [][Next]_vars
        /\ \A t \in Slaves : WF_vars(Slave(t))
        /\ WF_vars(Stopper)

-----------------------------------------------------------------------------
(* Correctness.                                                            *)

TypeOK ==
    /\ queue \in Seq(Jobs)
    /\ must_terminate \in BOOLEAN
    /\ mux \in Slaves \cup {NoSlave}
    /\ pc \in [Slaves -> PCs]
    /\ held \in [Slaves -> Jobs \cup {NoJob}]
    /\ fresh \subseteq Jobs
    /\ freed \subseteq Jobs
    /\ stale \subseteq Slaves
    /\ stopper \in {"running", "flagged", "draining", "drained", "joining", "joined"}

\* A slave that decided to wait holds mux until it sleeps, and the queue is still
\* empty then; a slave has a job in hand exactly between the pop and the push or
\* the release; the flag is up from queue_free on (queues.c:93-111, 123).
SleepsOnlyIfEmpty ==
    /\ \A t \in Slaves : mux = t <=> pc[t] = "towait"
    /\ \A t \in Slaves : pc[t] = "towait" => queue = <<>>
    /\ \A t \in Slaves : held[t] # NoJob <=> pc[t] \in {"work", "conflict"}
    /\ must_terminate <=> stopper # "running"

\* A message is never in two places: not pushed yet, in the queue (once), in the
\* hands of one slave, or freed.  So it is never served by two slaves, freed twice
\* or used after it was freed, whatever refusals of the zone and the draining do
\* (queues.c:58-68, 106-111, 129-135).  And one that the slaves can handle always
\* is in one of these places, until it is freed; only a message of an operation
\* they do not know is let go of without being freed (slaves.c:533-538).
JobsConserved ==
    /\ fresh \cap Queued = {} /\ fresh \cap Held = {} /\ fresh \cap freed = {}
    /\ Queued \cap Held = {} /\ Queued \cap freed = {} /\ Held \cap freed = {}
    /\ \A i, k \in DOMAIN queue : queue[i] = queue[k] => i = k
    /\ \A s, t \in Slaves : held[s] = held[t] /\ held[s] # NoJob => s = t
    /\ Jobs \ Unknown \subseteq fresh \cup Queued \cup Held \cup freed

\* No wakeup is lost: while somebody sleeps in queue_pop, there are never more
\* jobs in the queue than slaves already woken for them (queues.c:65-66, 94-95).
NoLostWakeup ==
    ~must_terminate /\ At("blocked") # {} => Len(queue) <= Cardinality(At("woken"))

\* Nor is the wakeup of the termination, whose flag is set without mux: when
\* stop_core comes to the joins, no slave sleeps or can still fall asleep, since
\* the draining passed through mux after the flag (queues.c:121-143).
NobodySleepsThroughStop ==
    stopper \in {"joining", "joined"} => At("blocked") \cup At("towait") = {}

\* A queued job reaches a slave unless the server is stopped.
QueuedJobsTaken ==
    \A j \in Jobs : (j \in Queued) ~> (j \notin Queued \/ must_terminate)

\* Once must_terminate is set every slave leaves its loop, wherever it was in
\* queue_pop, and stop_core gets past the joins (queues.c:83-105, 121-143).
TerminationReachesAll == must_terminate ~> (stopper = "joined")
=============================================================================
