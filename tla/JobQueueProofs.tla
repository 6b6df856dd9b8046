--------------------------- MODULE JobQueueProofs ---------------------------
(***************************************************************************)
(* What the queue of queues.c guarantees for any number of slaves and      *)
(* messages: no message is duplicated or freed twice, none of a known      *)
(* operation is lost, a queued job always has a slave awake for it, and no *)
(* slave sleeps through the shutdown.  SleepsOnlyIfEmpty is the            *)
(* strengthening all of them rest on: it says what is fixed while a slave  *)
(* holds mux between the test and the wait.                                *)
(***************************************************************************)
EXTENDS JobQueue, TLAPS, FiniteSetTheorems, SequenceTheorems

USE SlavesAssumption, JobsAssumption

-----------------------------------------------------------------------------
(* Sequences.                                                              *)

Elements(s) == {s[i] : i \in DOMAIN s}
Distinct(s) == \A i, k \in DOMAIN s : s[i] = s[k] => i = k

LEMMA ElementsOfAppend ==
  ASSUME NEW S, NEW s \in Seq(S), NEW x \in S
  PROVE  /\ Elements(Append(s, x)) = Elements(s) \cup {x}
         /\ Distinct(s) /\ x \notin Elements(s) => Distinct(Append(s, x))
         /\ Append(s, x) \in Seq(S) /\ Len(Append(s, x)) = Len(s) + 1
<1>1. /\ Append(s, x) \in Seq(S)
      /\ Len(Append(s, x)) = Len(s) + 1
      /\ \A i \in 1 .. Len(s) : Append(s, x)[i] = s[i]
      /\ Append(s, x)[Len(s) + 1] = x
  BY AppendProperties
<1>2. Len(s) \in Nat /\ DOMAIN s = 1 .. Len(s)
      /\ DOMAIN Append(s, x) = 1 .. Len(s) + 1
  BY <1>1, LenProperties
<1>3. Elements(Append(s, x)) = Elements(s) \cup {x}
  <2>1. ASSUME NEW y \in Elements(Append(s, x)) PROVE y \in Elements(s) \cup {x}
    BY <1>1, <1>2, <2>1 DEF Elements
  <2>2. ASSUME NEW y \in Elements(s) PROVE y \in Elements(Append(s, x))
    BY <1>1, <1>2, <2>2 DEF Elements
  <2>3. x \in Elements(Append(s, x))
    <3>1. Len(s) + 1 \in DOMAIN Append(s, x)
      BY <1>2
    <3> QED BY <1>1, <3>1 DEF Elements
  <2> QED BY <2>1, <2>2, <2>3
<1>4. ASSUME Distinct(s), x \notin Elements(s) PROVE Distinct(Append(s, x))
  <2>1. SUFFICES ASSUME NEW i \in 1 .. Len(s) + 1, NEW k \in 1 .. Len(s) + 1,
                        Append(s, x)[i] = Append(s, x)[k]
                 PROVE  i = k
    BY <1>2 DEF Distinct
  <2>2. \A n \in 1 .. Len(s) : s[n] # x
    BY <1>2, <1>4 DEF Elements
  <2> QED BY <1>1, <1>2, <1>4, <2>1, <2>2 DEF Distinct
<1> QED BY <1>1, <1>3, <1>4

LEMMA ElementsOfTail ==
  ASSUME NEW S, NEW s \in Seq(S), s # <<>>
  PROVE  /\ Head(s) \in Elements(s)
         /\ Elements(s) = Elements(Tail(s)) \cup {Head(s)}
         /\ Distinct(s) => Distinct(Tail(s)) /\ Head(s) \notin Elements(Tail(s))
         /\ Tail(s) \in Seq(S) /\ Head(s) \in S /\ Len(Tail(s)) = Len(s) - 1
<1>1. /\ Head(s) \in S /\ Tail(s) \in Seq(S)
      /\ Len(Tail(s)) = Len(s) - 1
      /\ \A i \in 1 .. Len(Tail(s)) : Tail(s)[i] = s[i + 1]
  BY HeadTailProperties
<1>2. Len(s) \in Nat /\ Len(s) >= 1 /\ DOMAIN s = 1 .. Len(s)
      /\ DOMAIN Tail(s) = 1 .. Len(s) - 1 /\ Head(s) = s[1]
  BY <1>1, LenProperties, EmptySeq
<1>3. Head(s) \in Elements(s)
  BY <1>2 DEF Elements
<1>4. Elements(s) = Elements(Tail(s)) \cup {Head(s)}
  <2>1. ASSUME NEW i \in 1 .. Len(s) PROVE s[i] \in Elements(Tail(s)) \cup {Head(s)}
    <3>1. CASE i = 1
      BY <1>2, <3>1
    <3>2. CASE i # 1
      <4>1. i - 1 \in 1 .. Len(Tail(s)) /\ Tail(s)[i - 1] = s[i]
        BY <1>1, <1>2, <3>2
      <4> QED BY <1>1, <1>2, <4>1 DEF Elements
    <3> QED BY <3>1, <3>2
  <2>2. ASSUME NEW i \in 1 .. Len(Tail(s)) PROVE Tail(s)[i] \in Elements(s)
    <3>1. i + 1 \in DOMAIN s /\ Tail(s)[i] = s[i + 1]
      BY <1>1, <1>2
    <3> QED BY <3>1 DEF Elements
  <2> QED BY <1>1, <1>2, <1>3, <2>1, <2>2 DEF Elements
<1>5. ASSUME Distinct(s) PROVE Distinct(Tail(s)) /\ Head(s) \notin Elements(Tail(s))
  <2>1. \A i \in DOMAIN Tail(s) : i + 1 \in DOMAIN s /\ Tail(s)[i] = s[i + 1]
    BY <1>1, <1>2
  <2>2. Distinct(Tail(s))
    BY <1>1, <1>2, <1>5, <2>1 DEF Distinct
  <2>3. \A i \in DOMAIN Tail(s) : Tail(s)[i] # s[1]
    BY <1>1, <1>2, <1>5, <2>1 DEF Distinct
  <2> QED BY <1>2, <2>2, <2>3 DEF Elements
<1> QED BY <1>1, <1>3, <1>4, <1>5

-----------------------------------------------------------------------------
(* Types and control.                                                      *)

\* Enqueue with the pc it may produce.
LEMMA EnqueueControl ==
  ASSUME TypeOK, NEW j \in Jobs, NEW f \in [Slaves -> PCs], Enqueue(j, f),
         At("blocked") = {s \in Slaves : f[s] = "blocked"}
  PROVE  /\ queue' \in Seq(Jobs)
         /\ pc' \in [Slaves -> PCs]
         /\ \A s \in Slaves : f[s] # "blocked" => pc'[s] = f[s]
         /\ \A s \in Slaves : f[s] = "blocked" => pc'[s] \in {"blocked", "woken"}
BY ElementsOfAppend DEF TypeOK, Enqueue, At, PCs

Inductive == TypeOK /\ SleepsOnlyIfEmpty

LEMMA ControlStep == Inductive /\ [Next]_vars => Inductive'
<1> SUFFICES ASSUME Inductive, [Next]_vars PROVE Inductive'
  OBVIOUS
<1> USE DEF Inductive, TypeOK, PCs, SleepsOnlyIfEmpty
<1>1. ASSUME NEW j \in Jobs, CorePush(j) PROVE Inductive'
  <2>1. Enqueue(j, pc) /\ mux = NoSlave
    BY <1>1 DEF CorePush, Enqueue
  <2>2. /\ queue' \in Seq(Jobs) /\ pc' \in [Slaves -> PCs]
        /\ \A s \in Slaves : pc[s] # "blocked" => pc'[s] = pc[s]
        /\ \A s \in Slaves : pc[s] = "blocked" => pc'[s] \in {"blocked", "woken"}
    BY <2>1, EnqueueControl DEF At
  <2> QED BY <1>1, <2>1, <2>2 DEF CorePush
<1>2. ASSUME NEW t \in Slaves, TestUnlocked(t) PROVE Inductive'
  BY <1>2 DEF TestUnlocked
<1>3. ASSUME NEW t \in Slaves, PopNothing(t) PROVE Inductive'
  BY <1>3 DEF PopNothing, AtTest
<1>4. ASSUME NEW t \in Slaves, FallAsleep(t) PROVE Inductive'
  BY <1>4 DEF FallAsleep
<1>5. ASSUME NEW t \in Slaves, PopTermination(t) PROVE Inductive'
  BY <1>5 DEF PopTermination, AtTest
<1>6. ASSUME NEW t \in Slaves, PopJob(t) PROVE Inductive'
  <2>1. Head(queue) \in Jobs /\ Tail(queue) \in Seq(Jobs)
    BY <1>6, ElementsOfTail DEF PopJob
  <2> QED BY <1>6, <2>1 DEF PopJob, AtTest
<1>7. ASSUME NEW t \in Slaves, FindConflict(t) PROVE Inductive'
  BY <1>7 DEF FindConflict
<1>8. ASSUME NEW t \in Slaves, Repush(t) PROVE Inductive'
  <2> DEFINE f == [pc EXCEPT ![t] = "pop"]
  <2>1. Enqueue(held[t], f) /\ mux = NoSlave /\ held[t] \in Jobs /\ f \in [Slaves -> PCs]
        /\ pc[t] = "conflict"
    BY <1>8 DEF Repush, Enqueue
  <2>2. At("blocked") = {s \in Slaves : f[s] = "blocked"}
    BY <2>1 DEF At
  <2>4. /\ f[t] = "pop" /\ \A s \in Slaves \ {t} : f[s] = pc[s]
        /\ held' = [held EXCEPT ![t] = NoJob]
        /\ UNCHANGED <<must_terminate, mux, fresh, freed, stale, stopper>>
    BY <1>8, <2>1 DEF Repush
  <2> HIDE DEF f
  <2>3. /\ queue' \in Seq(Jobs) /\ pc' \in [Slaves -> PCs]
        /\ \A s \in Slaves : f[s] # "blocked" => pc'[s] = f[s]
        /\ \A s \in Slaves : f[s] = "blocked" => pc'[s] \in {"blocked", "woken"}
    BY <2>1, <2>2, EnqueueControl
  <2> QED BY <2>1, <2>3, <2>4
<1>9. ASSUME NEW t \in Slaves, Complete(t) PROVE Inductive'
  BY <1>9 DEF Complete
<1>16. ASSUME NEW t \in Slaves, Forget(t) PROVE Inductive'
  BY <1>16 DEF Forget
<1>10. ASSUME NEW t \in Slaves, SpuriousWakeup(t) PROVE Inductive'
  BY <1>10 DEF SpuriousWakeup
<1>11. CASE SetTerminate
  BY <1>11 DEF SetTerminate
<1>12. CASE FirstBroadcast \/ SecondBroadcast
  BY <1>12 DEF FirstBroadcast, SecondBroadcast, Broadcast
<1>13. CASE Drain
  <2>1. Queued \subseteq Jobs /\ <<>> \in Seq(Jobs)
    BY DEF Queued
  <2> QED BY <1>13, <2>1 DEF Drain
<1>14. CASE Join
  BY <1>14 DEF Join
<1>15. CASE UNCHANGED vars
  BY <1>15 DEF vars
<1> QED
  BY <1>1, <1>2, <1>3, <1>4, <1>5, <1>6, <1>7, <1>8, <1>9, <1>10, <1>11, <1>12, <1>13,
     <1>14, <1>15, <1>16 DEF Next, Slave, Stopper

\* The variables keep their types, and a slave falls asleep only on an empty
\* queue, with mux in its hands since the test (queues.c:93-95).
THEOREM Control == Spec => [](TypeOK /\ SleepsOnlyIfEmpty)
<1>1. Init => Inductive
  <2> SUFFICES ASSUME Init PROVE Inductive
    OBVIOUS
  <2>0. <<>> \in Seq(Jobs)
    BY EmptySeq
  <2>1. TypeOK
    BY <2>0 DEF Init, TypeOK, PCs
  <2>2. SleepsOnlyIfEmpty
    BY DEF Init, SleepsOnlyIfEmpty
  <2> QED BY <2>1, <2>2 DEF Inductive
<1> QED
  BY <1>1, ControlStep, PTL DEF Spec, Inductive

-----------------------------------------------------------------------------
(* Wakeups.                                                                *)

LEMMA WokenCount ==
  ASSUME TypeOK
  PROVE  /\ Cardinality(At("woken")) \in Nat
         /\ \A t \in Slaves : t \notin At("woken")
               => Cardinality(At("woken") \cup {t}) = Cardinality(At("woken")) + 1
         /\ \A t \in Slaves :
               Cardinality(At("woken") \ {t}) >= Cardinality(At("woken")) - 1
<1>1. IsFiniteSet(At("woken"))
  <2>1. At("woken") \subseteq Slaves
    BY DEF At
  <2> QED BY <2>1, FS_Subset
<1>2. Cardinality(At("woken")) \in Nat
  BY <1>1, FS_CardinalityType
<1>3. ASSUME NEW t \in Slaves, t \notin At("woken")
      PROVE  Cardinality(At("woken") \cup {t}) = Cardinality(At("woken")) + 1
  BY <1>1, <1>3, FS_AddElement
<1>4. ASSUME NEW t \in Slaves
      PROVE  Cardinality(At("woken") \ {t}) >= Cardinality(At("woken")) - 1
  <2>1. Cardinality(At("woken") \ {t}) =
          IF t \in At("woken") THEN Cardinality(At("woken")) - 1
          ELSE Cardinality(At("woken"))
    BY <1>1, FS_RemoveElement
  <2> QED BY <1>2, <2>1
<1> QED BY <1>2, <1>3, <1>4

LEMMA LengthStep ==
  ASSUME TypeOK
  PROVE  /\ Len(queue) \in Nat
         /\ \A j \in Jobs : Len(Append(queue, j)) = Len(queue) + 1
         /\ queue # <<>> => Len(Tail(queue)) = Len(queue) - 1
         /\ queue = <<>> => Len(queue) = 0
<1>1. queue \in Seq(Jobs)
  BY DEF TypeOK
<1>2. Len(queue) \in Nat
  BY <1>1, LenProperties
<1>3. \A j \in Jobs : Len(Append(queue, j)) = Len(queue) + 1
  BY <1>1, ElementsOfAppend
<1>4. queue # <<>> => Len(Tail(queue)) = Len(queue) - 1
  BY <1>1, ElementsOfTail
<1>5. queue = <<>> => Len(queue) = 0
  BY <1>1, EmptySeq
<1> QED BY <1>2, <1>3, <1>4, <1>5

\* A push wakes a sleeper if there is one, whatever f does to a slave that is
\* not asleep.
LEMMA PushWakes ==
  ASSUME TypeOK, NoLostWakeup, ~must_terminate,
         NEW j \in Jobs, NEW f \in [Slaves -> PCs], Enqueue(j, f),
         \A s \in Slaves : f[s] # pc[s] => pc[s] = "conflict" /\ f[s] = "pop"
  PROVE  {s \in Slaves : pc'[s] = "blocked"} # {}
           => Len(queue') <= Cardinality({s \in Slaves : pc'[s] = "woken"})
<1> USE DEF TypeOK, PCs
<1>1. queue' = Append(queue, j) /\ Len(queue') = Len(queue) + 1 /\ Len(queue) \in Nat
  BY LengthStep DEF Enqueue
<1>2. CASE At("blocked") = {} /\ pc' = f
  <2>1. \A s \in Slaves : pc'[s] # "blocked"
    BY <1>2 DEF At
  <2> QED BY <2>1
<1>3. ASSUME NEW s \in At("blocked"), pc' = [f EXCEPT ![s] = "woken"]
      PROVE  Len(queue') <= Cardinality({r \in Slaves : pc'[r] = "woken"})
  <2>1. s \in Slaves /\ s \notin At("woken")
    BY DEF At
  <2>2. {r \in Slaves : pc'[r] = "woken"} = At("woken") \cup {s}
    BY <1>3, <2>1 DEF At
  <2>3. Len(queue) <= Cardinality(At("woken"))
    BY <1>3 DEF NoLostWakeup
  <2>4. Cardinality(At("woken") \cup {s}) = Cardinality(At("woken")) + 1
        /\ Cardinality(At("woken")) \in Nat
    BY <2>1, WokenCount
  <2>5. Len(queue') <= Cardinality(At("woken") \cup {s})
    BY <1>1, <2>3, <2>4
  <2> QED BY <2>2, <2>5
<1>4. CASE \E s \in At("blocked") : pc' = [f EXCEPT ![s] = "woken"]
  BY <1>3, <1>4
<1> QED BY <1>2, <1>4 DEF Enqueue

LEMMA WakeupStep ==
  TypeOK /\ SleepsOnlyIfEmpty /\ NoLostWakeup /\ [Next]_vars => NoLostWakeup'
<1> SUFFICES ASSUME TypeOK, SleepsOnlyIfEmpty, NoLostWakeup, [Next]_vars,
                    ~must_terminate', At("blocked")' # {}
             PROVE  Len(queue') <= Cardinality(At("woken")')
  BY DEF NoLostWakeup
<1> USE DEF TypeOK, PCs
<1>0. /\ ~must_terminate => (At("blocked") # {} => Len(queue) <= Cardinality(At("woken")))
      /\ Cardinality(At("woken")) \in Nat /\ Len(queue) \in Nat
  BY WokenCount, LengthStep DEF NoLostWakeup
<1>1. ASSUME NEW j \in Jobs, CorePush(j) PROVE Len(queue') <= Cardinality(At("woken")')
  <2>1. Enqueue(j, pc) /\ ~must_terminate
    BY <1>1 DEF CorePush
  <2> QED BY <2>1, PushWakes DEF At
<1>2. ASSUME NEW t \in Slaves, Repush(t) PROVE Len(queue') <= Cardinality(At("woken")')
  <2> DEFINE f == [pc EXCEPT ![t] = "pop"]
  <2>1. /\ Enqueue(held[t], f) /\ held[t] \in Jobs /\ ~must_terminate
        /\ f \in [Slaves -> PCs]
        /\ \A s \in Slaves : f[s] # pc[s] => pc[s] = "conflict" /\ f[s] = "pop"
    BY <1>2 DEF Repush, SleepsOnlyIfEmpty
  <2> HIDE DEF f
  <2> QED BY <2>1, PushWakes DEF At
<1>3. ASSUME NEW t \in Slaves, PopJob(t) PROVE Len(queue') <= Cardinality(At("woken")')
  <2>1. At("woken")' = At("woken") \ {t} /\ At("blocked")' = At("blocked")
    BY <1>3 DEF PopJob, AtTest, At
  <2>2. Len(queue') = Len(queue) - 1 /\ ~must_terminate
    BY <1>3, LengthStep DEF PopJob
  <2>3. Cardinality(At("woken") \ {t}) >= Cardinality(At("woken")) - 1
    BY WokenCount
  <2>4. Cardinality(At("woken") \ {t}) \in Nat
    <3>1. At("woken") \ {t} \subseteq Slaves
      BY DEF At
    <3> QED BY <3>1, FS_Subset, FS_CardinalityType
  <2>5. At("blocked") # {}
    BY <2>1
  <2>6. Len(queue) <= Cardinality(At("woken"))
    BY <1>0, <2>2, <2>5
  <2>7. Len(queue') <= Cardinality(At("woken") \ {t})
    BY <1>0, <2>2, <2>3, <2>4, <2>6
  <2> QED BY <2>1, <2>7
<1>4. ASSUME NEW t \in Slaves, PopNothing(t) \/ FallAsleep(t)
      PROVE  Len(queue') <= Cardinality(At("woken")')
  <2>1. Len(queue') = 0
    BY <1>4, LengthStep DEF PopNothing, FallAsleep, SleepsOnlyIfEmpty
  <2>2. At("woken")' \subseteq Slaves
    BY DEF At
  <2>3. Cardinality(At("woken")') \in Nat
    BY <2>2, FS_Subset, FS_CardinalityType
  <2> QED BY <2>1, <2>3
<1>5. ASSUME NEW t \in Slaves, SpuriousWakeup(t)
      PROVE  Len(queue') <= Cardinality(At("woken")')
  <2>1. /\ At("woken")' = At("woken") \cup {t} /\ t \notin At("woken")
        /\ At("blocked") # {} /\ queue' = queue /\ ~must_terminate
    BY <1>5 DEF SpuriousWakeup, At
  <2> QED BY <1>0, <2>1, WokenCount
<1>6. ASSUME NEW t \in Slaves,
             TestUnlocked(t) \/ FindConflict(t) \/ Complete(t) \/ Forget(t)
      PROVE  Len(queue') <= Cardinality(At("woken")')
  <2>1. At("woken")' = At("woken") /\ At("blocked")' = At("blocked")
    BY <1>6 DEF TestUnlocked, FindConflict, Complete, Forget, At
  <2>2. queue' = queue /\ ~must_terminate
    BY <1>6 DEF TestUnlocked, FindConflict, Complete, Forget
  <2> QED BY <1>0, <2>1, <2>2
<1>7. ASSUME NEW t \in Slaves, PopTermination(t)
      PROVE  Len(queue') <= Cardinality(At("woken")')
  BY <1>7 DEF PopTermination
<1>8. ASSUME SetTerminate \/ Stopper PROVE Len(queue') <= Cardinality(At("woken")')
  <2>1. must_terminate'
    BY <1>8 DEF SetTerminate, Stopper, FirstBroadcast, SecondBroadcast, Broadcast, Drain,
                Join, SleepsOnlyIfEmpty
  <2> QED BY <2>1
<1>9. CASE UNCHANGED vars
  BY <1>0, <1>9 DEF vars, At
<1> QED
  BY <1>1, <1>2, <1>3, <1>4, <1>5, <1>6, <1>7, <1>8, <1>9 DEF Next, Slave

\* No wakeup is lost: while a slave sleeps in queue_pop there is a slave awake for
\* every job in the queue, although a push signals one sleeper only and a woken
\* slave may find its job taken (queues.c:65-66, 94-95).
THEOREM WakeupsKept == Spec => []NoLostWakeup
<1>1. Init => NoLostWakeup
  BY DEF Init, NoLostWakeup, At
<1> QED
  BY <1>1, WakeupStep, Control, PTL DEF Spec

-----------------------------------------------------------------------------
(* The shutdown.                                                           *)

NoneLeftToSleep ==
    stopper \in {"drained", "joining", "joined"} => At("towait") = {}

\* When stop_core comes to the joins no slave sleeps in queue_pop or can still
\* fall asleep: the draining takes mux after the flag is up, so whoever had
\* decided to wait is asleep by then and is woken by the second broadcast
\* (queues.c:121-143).
THEOREM StopReachesSleepers == Spec => []NobodySleepsThroughStop
<1> DEFINE StopInv == NoneLeftToSleep /\ NobodySleepsThroughStop
<1>1. Init => StopInv
  BY DEF Init, NoneLeftToSleep, NobodySleepsThroughStop
<1>2. TypeOK /\ SleepsOnlyIfEmpty /\ StopInv /\ [Next]_vars => StopInv'
  <2> SUFFICES ASSUME TypeOK, SleepsOnlyIfEmpty, StopInv, [Next]_vars PROVE StopInv'
    OBVIOUS
  <2> USE DEF TypeOK, PCs, SleepsOnlyIfEmpty, NoneLeftToSleep, NobodySleepsThroughStop, At
  <2>1. ASSUME NEW j \in Jobs, CorePush(j) PROVE StopInv'
    BY <2>1 DEF CorePush
  <2>2. ASSUME NEW t \in Slaves, TestUnlocked(t) PROVE StopInv'
    BY <2>2 DEF TestUnlocked
  <2>3. ASSUME NEW t \in Slaves, PopNothing(t) PROVE StopInv'
    BY <2>3 DEF PopNothing
  <2>4. ASSUME NEW t \in Slaves, FallAsleep(t) PROVE StopInv'
    BY <2>4 DEF FallAsleep
  <2>5. ASSUME NEW t \in Slaves, PopTermination(t) PROVE StopInv'
    BY <2>5 DEF PopTermination
  <2>6. ASSUME NEW t \in Slaves, PopJob(t) PROVE StopInv'
    BY <2>6 DEF PopJob
  <2>7. ASSUME NEW t \in Slaves, FindConflict(t) PROVE StopInv'
    BY <2>7 DEF FindConflict
  <2>8. ASSUME NEW t \in Slaves, Repush(t) PROVE StopInv'
    <3>1. \A s \in Slaves : pc'[s] \in {"towait", "blocked"} => pc'[s] = pc[s]
      BY <2>8 DEF Repush, Enqueue
    <3> QED BY <2>8, <3>1 DEF Repush
  <2>9. ASSUME NEW t \in Slaves, Complete(t) PROVE StopInv'
    BY <2>9 DEF Complete
  <2>16. ASSUME NEW t \in Slaves, Forget(t) PROVE StopInv'
    BY <2>16 DEF Forget
  <2>10. ASSUME NEW t \in Slaves, SpuriousWakeup(t) PROVE StopInv'
    BY <2>10 DEF SpuriousWakeup
  <2>11. CASE SetTerminate
    BY <2>11 DEF SetTerminate
  <2>12. CASE FirstBroadcast \/ SecondBroadcast
    BY <2>12 DEF FirstBroadcast, SecondBroadcast, Broadcast
  <2>13. CASE Drain
    BY <2>13 DEF Drain
  <2>14. CASE Join
    BY <2>14 DEF Join
  <2>15. CASE UNCHANGED vars
    BY <2>15 DEF vars
  <2> QED
    BY <2>1, <2>2, <2>3, <2>4, <2>5, <2>6, <2>7, <2>8, <2>9, <2>10, <2>11, <2>12, <2>13,
       <2>14, <2>15, <2>16 DEF Next, Slave, Stopper
<1> QED
  BY <1>1, <1>2, Control, PTL DEF Spec

-----------------------------------------------------------------------------
(* Messages.                                                               *)

\* What JobsConserved says of the place of one message, and of the whole.
LEMMA ConservedParts ==
  JobsConserved <=>
    /\ Jobs \ Unknown \subseteq fresh \cup Elements(queue) \cup Held \cup freed
    /\ fresh \cap Elements(queue) = {} /\ fresh \cap Held = {} /\ fresh \cap freed = {}
    /\ Elements(queue) \cap Held = {} /\ Elements(queue) \cap freed = {}
    /\ Held \cap freed = {}
    /\ Distinct(queue)
    /\ \A s, t \in Slaves : held[s] = held[t] /\ held[s] # NoJob => s = t
BY DEF JobsConserved, Queued, Elements, Distinct

\* Giving up the job in hand, with every slave holding another one.
LEMMA HandOver ==
  ASSUME TypeOK, NEW t \in Slaves, held[t] # NoJob,
         \A s, u \in Slaves : held[s] = held[u] /\ held[s] # NoJob => s = u,
         held' = [held EXCEPT ![t] = NoJob]
  PROVE  /\ Held' = Held \ {held[t]} /\ held[t] \in Held
         /\ \A s, u \in Slaves : held'[s] = held'[u] /\ held'[s] # NoJob => s = u
BY DEF TypeOK, Held

LEMMA ConservedStep == TypeOK /\ SleepsOnlyIfEmpty /\ JobsConserved /\ [Next]_vars
                         => JobsConserved'
<1> SUFFICES ASSUME TypeOK, SleepsOnlyIfEmpty, JobsConserved, [Next]_vars
             PROVE  JobsConserved'
  OBVIOUS
<1>0. ASSUME Jobs \ Unknown \subseteq fresh' \cup Elements(queue') \cup Held' \cup freed',
             fresh' \cap Elements(queue') = {}, fresh' \cap Held' = {},
             fresh' \cap freed' = {}, Elements(queue') \cap Held' = {},
             Elements(queue') \cap freed' = {}, Held' \cap freed' = {},
             Distinct(queue'),
             \A s, t \in Slaves : held'[s] = held'[t] /\ held'[s] # NoJob => s = t
      PROVE  JobsConserved'
  BY <1>0 DEF JobsConserved, Queued, Elements, Distinct
<1>a. /\ Jobs \ Unknown \subseteq fresh \cup Elements(queue) \cup Held \cup freed
      /\ fresh \cap Elements(queue) = {} /\ fresh \cap Held = {} /\ fresh \cap freed = {}
      /\ Elements(queue) \cap Held = {} /\ Elements(queue) \cap freed = {}
      /\ Held \cap freed = {}
      /\ Distinct(queue)
      /\ \A s, t \in Slaves : held[s] = held[t] /\ held[s] # NoJob => s = t
  BY ConservedParts
<1>b. queue \in Seq(Jobs)
  BY DEF TypeOK
<1>1. ASSUME NEW j \in Jobs, CorePush(j) PROVE JobsConserved'
  <2>1. /\ queue' = Append(queue, j) /\ fresh' = fresh \ {j} /\ j \in fresh
        /\ held' = held /\ freed' = freed
    BY <1>1 DEF CorePush, Enqueue
  <2>2. Held' = Held
    BY <2>1 DEF Held
  <2>3. Elements(queue') = Elements(queue) \cup {j} /\ Distinct(queue')
    BY <1>a, <1>b, <2>1, ElementsOfAppend
  <2> QED BY <1>0, <1>a, <2>1, <2>2, <2>3
<1>2. ASSUME NEW t \in Slaves, PopJob(t) PROVE JobsConserved'
  <2>1. /\ queue # <<>> /\ queue' = Tail(queue) /\ held' = [held EXCEPT ![t] = Head(queue)]
        /\ fresh' = fresh /\ freed' = freed /\ held[t] = NoJob
    BY <1>2 DEF PopJob, AtTest, SleepsOnlyIfEmpty
  <2>2. /\ Head(queue) \in Elements(queue) /\ Head(queue) \in Jobs
        /\ Elements(queue) = Elements(queue') \cup {Head(queue)}
        /\ Head(queue) \notin Elements(queue') /\ Distinct(queue')
    BY <1>a, <1>b, <2>1, ElementsOfTail
  <2>3. Held' = Held \cup {Head(queue)}
    BY <2>1, <2>2 DEF Held, TypeOK
  <2>4. \A s \in Slaves : held[s] # NoJob => held[s] \in Held
    BY DEF Held
  <2>5. \A s, u \in Slaves : held'[s] = held'[u] /\ held'[s] # NoJob => s = u
    BY <1>a, <2>1, <2>2, <2>4 DEF TypeOK
  <2> QED BY <1>0, <1>a, <2>1, <2>2, <2>3, <2>5
<1>3. ASSUME NEW t \in Slaves, Repush(t) PROVE JobsConserved'
  <2>1. /\ queue' = Append(queue, held[t]) /\ held' = [held EXCEPT ![t] = NoJob]
        /\ fresh' = fresh /\ freed' = freed /\ held[t] # NoJob /\ held[t] \in Jobs
    BY <1>3 DEF Repush, Enqueue, SleepsOnlyIfEmpty, TypeOK
  <2>2. /\ Held' = Held \ {held[t]} /\ held[t] \in Held
        /\ \A s, u \in Slaves : held'[s] = held'[u] /\ held'[s] # NoJob => s = u
    BY <1>a, <2>1, HandOver
  <2>3. Elements(queue') = Elements(queue) \cup {held[t]} /\ Distinct(queue')
    BY <1>a, <1>b, <2>1, <2>2, ElementsOfAppend
  <2> QED BY <1>0, <1>a, <2>1, <2>2, <2>3
<1>4. ASSUME NEW t \in Slaves, Complete(t) PROVE JobsConserved'
  <2>1. /\ queue' = queue /\ held' = [held EXCEPT ![t] = NoJob]
        /\ fresh' = fresh /\ freed' = freed \cup {held[t]} /\ held[t] # NoJob
    BY <1>4 DEF Complete, SleepsOnlyIfEmpty
  <2>2. /\ Held' = Held \ {held[t]} /\ held[t] \in Held
        /\ \A s, u \in Slaves : held'[s] = held'[u] /\ held'[s] # NoJob => s = u
    BY <1>a, <2>1, HandOver
  <2> QED BY <1>0, <1>a, <2>1, <2>2
<1>9. ASSUME NEW t \in Slaves, Forget(t) PROVE JobsConserved'
  <2>1. /\ queue' = queue /\ held' = [held EXCEPT ![t] = NoJob]
        /\ fresh' = fresh /\ freed' = freed /\ held[t] # NoJob /\ held[t] \in Unknown
    BY <1>9 DEF Forget, SleepsOnlyIfEmpty
  <2>2. /\ Held' = Held \ {held[t]} /\ held[t] \in Held
        /\ \A s, u \in Slaves : held'[s] = held'[u] /\ held'[s] # NoJob => s = u
    BY <1>a, <2>1, HandOver
  <2> QED BY <1>0, <1>a, <2>1, <2>2
<1>5. CASE Drain
  <2>1. /\ queue' = <<>> /\ freed' = freed \cup Elements(queue)
        /\ fresh' = fresh /\ held' = held
    BY <1>5 DEF Drain, Queued, Elements
  <2>2. Elements(queue') = {} /\ Distinct(queue')
    BY <2>1 DEF Elements, Distinct
  <2>3. Held' = Held
    BY <2>1 DEF Held
  <2> QED BY <1>0, <1>a, <2>1, <2>2, <2>3
<1>6. ASSUME UNCHANGED <<queue, fresh, held, freed>> PROVE JobsConserved'
  <2>1. Held' = Held
    BY <1>6 DEF Held
  <2> QED BY <1>0, <1>a, <1>6, <2>1
<1>7. ASSUME NEW t \in Slaves,
             \/ TestUnlocked(t) \/ PopNothing(t) \/ FallAsleep(t) \/ PopTermination(t)
             \/ FindConflict(t) \/ SpuriousWakeup(t)
      PROVE  JobsConserved'
  BY <1>6, <1>7
  DEF TestUnlocked, PopNothing, FallAsleep, PopTermination, FindConflict, SpuriousWakeup
<1>8. CASE SetTerminate \/ FirstBroadcast \/ SecondBroadcast \/ Join \/ UNCHANGED vars
  BY <1>6, <1>8 DEF SetTerminate, FirstBroadcast, SecondBroadcast, Broadcast, Join, vars
<1> QED
  BY <1>1, <1>2, <1>3, <1>4, <1>5, <1>7, <1>8, <1>9 DEF Next, Slave, Stopper

\* A message is never in two of these places, and one the slaves know how to
\* handle always is in one: not yet pushed, queued once, in the hands of one
\* slave, or freed.  Only a message of an unknown operation is let go of without
\* being freed (queues.c:58-68, 106-111, 129-135, slaves.c:533-545).
THEOREM Conservation == Spec => []JobsConserved
<1>1. Init => JobsConserved
  BY DEF Init, JobsConserved, Queued, Held
<1> QED
  BY <1>1, ConservedStep, Control, PTL DEF Spec
=============================================================================
