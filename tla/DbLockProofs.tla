---------------------------- MODULE DbLockProofs ----------------------------
(***************************************************************************)
(* What exec_query guarantees for any number of threads, any number of     *)
(* calls and any mixture of results of sqlite3_exec.  The inductive        *)
(* invariant joins the truth of db_op and no_reader (StateMatches) with    *)
(* who may be asleep: SleepsOnlyIfTaken, SleepersAwaitSomebody and         *)
(* NoLostWakeup each need the others.  The refinement of ReadersWriters    *)
(* needs StateMatches only.                                                *)
(***************************************************************************)
EXTENDS DbLock, TLAPS, FiniteSetTheorems

USE ThreadsAssumption, MaxCallsAssumption, ResultsAssumption

-----------------------------------------------------------------------------
(* Types.                                                                  *)

LEMMA TypeStep == TypeOK /\ (no_reader = Cardinality(Reading)) /\ [Next]_vars => TypeOK'
<1> SUFFICES ASSUME TypeOK, no_reader = Cardinality(Reading), [Next]_vars PROVE TypeOK'
  OBVIOUS
<1> USE DEF TypeOK, PCs, syncVars, termVars, callVars
<1>1. ASSUME NEW t \in Threads, NEW o \in {"reading", "writing"}, Call(t, o) PROVE TypeOK'
  <2>1. calls' \in [Threads -> 0 .. MaxCalls]
    BY <1>1 DEF Call
  <2> QED BY <1>1, <2>1 DEF Call
<1>2. ASSUME NEW t \in Threads, GiveUp(t) PROVE TypeOK'
  BY <1>2 DEF GiveUp, Broadcast
<1>3. ASSUME NEW t \in Threads, FindTaken(t) PROVE TypeOK'
  BY <1>3 DEF FindTaken
<1>4. ASSUME NEW t \in Threads, FallAsleep(t) PROVE TypeOK'
  BY <1>4 DEF FallAsleep
<1>5. ASSUME NEW t \in Threads, Enter(t) PROVE TypeOK'
  BY <1>5 DEF Enter
<1>6. ASSUME NEW t \in Threads, NEW r \in Results, FinishRead(t, r) PROVE TypeOK'
  <2>1. Reading \subseteq Threads /\ IsFiniteSet(Reading) /\ t \in Reading
    <3>1. Reading \subseteq Threads
      BY DEF Reading
    <3> QED BY <1>6, <3>1, FS_Subset DEF FinishRead
  <2>2. Cardinality(Reading) # 0
    BY <2>1, FS_EmptySet
  <2>3. no_reader' \in Nat
    BY <1>6, <2>2 DEF FinishRead
  <2>4. ret' \in [Threads -> {"none", "OK", "FAIL", "CONSTRAINT"}]
        /\ ran' \in [Threads -> BOOLEAN]
    BY <1>6 DEF FinishRead, Outcome
  <2>5. pc' \in [Threads -> PCs] /\ db_op' \in {"noop", "reading", "writing"}
    BY <1>6 DEF FinishRead, Signal, After, Blocked
  <2> QED BY <1>6, <2>3, <2>4, <2>5 DEF FinishRead
<1>7. ASSUME NEW t \in Threads, NEW r \in Results, FinishWrite(t, r) PROVE TypeOK'
  <2>1. ret' \in [Threads -> {"none", "OK", "FAIL", "CONSTRAINT"}]
        /\ ran' \in [Threads -> BOOLEAN]
    <3>1. CASE Outcome(t, r)
      BY <3>1 DEF Outcome
    <3>2. CASE UNCHANGED <<ret, ran>>
      BY <3>2
    <3> QED BY <1>7, <3>1, <3>2 DEF FinishWrite
  <2>3. second_chance' \in [Threads -> BOOLEAN]
    BY <1>7 DEF FinishWrite
  <2>2. pc' \in [Threads -> PCs]
    BY <1>7 DEF FinishWrite, Broadcast, After
  <2> QED BY <1>7, <2>1, <2>2, <2>3 DEF FinishWrite
<1>8. ASSUME NEW t \in Threads, Exit(t) PROVE TypeOK'
  BY <1>8 DEF Exit
<1>9. CASE SetFlag
  BY <1>9 DEF SetFlag
<1>10. CASE WakeAll
  BY <1>10 DEF WakeAll
<1>11. CASE UNCHANGED vars
  BY <1>11 DEF vars
<1> QED
  BY <1>1, <1>2, <1>3, <1>4, <1>5, <1>6, <1>7, <1>8, <1>9, <1>10, <1>11
  DEF Next, Continue

-----------------------------------------------------------------------------
(* How the steps change the sets of running threads.                       *)

\* The steps that neither begin nor end a statement.
Elsewhere ==
    \/ \E t \in Threads :
          \/ \E o \in {"reading", "writing"} : Call(t, o)
          \/ GiveUp(t) \/ FindTaken(t) \/ FallAsleep(t) \/ Exit(t)
    \/ SetFlag
    \/ WakeAll
    \/ UNCHANGED vars

LEMMA OthersKeepRunning ==
  ASSUME TypeOK, Elsewhere
  PROVE  Reading' = Reading /\ Writing' = Writing
<1> USE DEF TypeOK, Reading, Writing, PCs, syncVars, termVars, callVars
<1>1. ASSUME NEW t \in Threads, NEW o \in {"reading", "writing"}, Call(t, o)
      PROVE  Reading' = Reading /\ Writing' = Writing
  BY <1>1 DEF Call
<1>2. ASSUME NEW t \in Threads, GiveUp(t)
      PROVE  Reading' = Reading /\ Writing' = Writing
  BY <1>2 DEF GiveUp, AtTest, Broadcast
<1>3. ASSUME NEW t \in Threads, FindTaken(t)
      PROVE  Reading' = Reading /\ Writing' = Writing
  BY <1>3 DEF FindTaken, AtTest
<1>4. ASSUME NEW t \in Threads, FallAsleep(t)
      PROVE  Reading' = Reading /\ Writing' = Writing
  BY <1>4 DEF FallAsleep
<1>5. ASSUME NEW t \in Threads, Exit(t)
      PROVE  Reading' = Reading /\ Writing' = Writing
  BY <1>5 DEF Exit
<1>6. CASE SetFlag \/ WakeAll
  BY <1>6 DEF SetFlag, WakeAll
<1>7. CASE UNCHANGED vars
  BY <1>7 DEF vars
<1> QED BY <1>1, <1>2, <1>3, <1>4, <1>5, <1>6, <1>7 DEF Elsewhere

LEMMA EnterRuns ==
  ASSUME TypeOK, NEW t \in Threads, Enter(t)
  PROVE  /\ t \notin Reading /\ t \notin Writing
         /\ op[t] = "reading" => Reading' = Reading \cup {t} /\ Writing' = Writing
         /\ op[t] = "writing" => Writing' = Writing \cup {t} /\ Reading' = Reading
BY DEF TypeOK, Reading, Writing, Enter, AtTest, PCs, callVars

LEMMA FinishReadRuns ==
  ASSUME TypeOK, NEW t \in Threads, NEW r \in Results, FinishRead(t, r)
  PROVE  t \in Reading /\ Reading' = Reading \ {t} /\ Writing' = Writing
<1> USE DEF TypeOK, Reading, Writing, PCs
<1>1. t \in Reading /\ op' = op
  BY DEF FinishRead
<1>2. \A s \in Threads : s # t => (pc'[s] = "running" <=> pc[s] = "running")
  BY DEF FinishRead, Signal, Blocked
<1>3. pc'[t] # "running"
  BY <1>1 DEF FinishRead, Signal, Blocked, After
<1> QED BY <1>1, <1>2, <1>3

LEMMA FinishWriteRuns ==
  ASSUME TypeOK, NEW t \in Threads, NEW r \in Results, FinishWrite(t, r)
  PROVE  t \in Writing /\ Writing' = Writing \ {t} /\ Reading' = Reading
<1> USE DEF TypeOK, Reading, Writing, PCs
<1>1. t \in Writing /\ op' = op
  BY DEF FinishWrite
<1>2. \A s \in Threads : s # t => (pc'[s] = "running" <=> pc[s] = "running")
  BY DEF FinishWrite, Broadcast
<1>3. pc'[t] # "running"
  BY DEF FinishWrite, Broadcast, After
<1> QED BY <1>1, <1>2, <1>3

LEMMA RunnersFinite == IsFiniteSet(Reading) /\ IsFiniteSet(Writing)
<1>1. Reading \subseteq Threads /\ Writing \subseteq Threads
  BY DEF Reading, Writing
<1> QED BY <1>1, FS_Subset

-----------------------------------------------------------------------------
(* db_op and no_reader tell the truth.                                     *)

LEMMA StateStep == TypeOK /\ StateMatches /\ [Next]_vars => StateMatches'
<1> SUFFICES ASSUME TypeOK, StateMatches, [Next]_vars PROVE StateMatches'
  OBVIOUS
<1>1. CASE Elsewhere
  <2>1. Reading' = Reading /\ Writing' = Writing
    BY <1>1, OthersKeepRunning
  <2>2. db_op' = db_op /\ no_reader' = no_reader
    BY <1>1
    DEF Elsewhere, Call, GiveUp, FindTaken, FallAsleep, Exit, SetFlag, WakeAll, vars, syncVars
  <2> QED BY <2>1, <2>2 DEF StateMatches
<1>2. ASSUME NEW t \in Threads, Enter(t) PROVE StateMatches'
  <2>1. CASE op[t] = "reading"
    <3>1. Reading' = Reading \cup {t} /\ Writing' = Writing /\ t \notin Reading
      BY <1>2, <2>1, EnterRuns
    <3>2. db_op' = "reading" /\ no_reader' = no_reader + 1 /\ db_op # "writing"
      BY <1>2, <2>1 DEF Enter, MustWait
    <3>3. Cardinality(Reading') = Cardinality(Reading) + 1
      BY <3>1, RunnersFinite, FS_AddElement
    <3> QED BY <3>1, <3>2, <3>3 DEF StateMatches
  <2>2. CASE op[t] = "writing"
    <3>1. Writing' = Writing \cup {t} /\ Reading' = Reading
      BY <1>2, <2>2, EnterRuns
    <3>2. db_op' = "writing" /\ no_reader' = no_reader /\ db_op = "noop"
      BY <1>2, <2>2 DEF Enter, MustWait, TypeOK
    <3>3. Writing = {} /\ Reading = {}
      BY <3>2 DEF StateMatches
    <3> QED BY <3>1, <3>2, <3>3 DEF StateMatches
  <2> QED BY <2>1, <2>2 DEF TypeOK
<1>3. ASSUME NEW t \in Threads, NEW r \in Results, FinishRead(t, r) PROVE StateMatches'
  <2>1. t \in Reading /\ Reading' = Reading \ {t} /\ Writing' = Writing
    BY <1>3, FinishReadRuns
  <2>2. Cardinality(Reading') = Cardinality(Reading) - 1
    BY <2>1, RunnersFinite, FS_RemoveElement
  <2>3. db_op = "reading" /\ Writing = {}
    BY <2>1 DEF StateMatches
  <2>4. IsFiniteSet(Reading') /\ (Cardinality(Reading') = 0 <=> Reading' = {})
    BY <2>1, RunnersFinite, FS_RemoveElement, FS_EmptySet
  <2>5. no_reader' = no_reader - 1 /\ no_reader \in Nat
    BY <1>3 DEF FinishRead, TypeOK
  <2>6. db_op' = IF no_reader = 1 THEN "noop" ELSE "reading"
    BY <1>3, <2>3 DEF FinishRead
  <2>7. no_reader = 1 <=> Reading' = {}
    BY <2>2, <2>4, <2>5 DEF StateMatches
  <2> QED BY <2>1, <2>2, <2>3, <2>5, <2>6, <2>7 DEF StateMatches
<1>4. ASSUME NEW t \in Threads, NEW r \in Results, FinishWrite(t, r) PROVE StateMatches'
  <2>1. t \in Writing /\ Writing' = Writing \ {t} /\ Reading' = Reading
    BY <1>4, FinishWriteRuns
  <2>2. db_op' = "noop" /\ no_reader' = no_reader
    BY <1>4 DEF FinishWrite
  <2>3. db_op = "writing" /\ Reading = {} /\ Writing' = {}
    BY <2>1 DEF StateMatches
  <2> QED BY <2>1, <2>2, <2>3 DEF StateMatches
<1> QED
  BY <1>1, <1>2, <1>3, <1>4 DEF Next, Continue, Elsewhere

LEMMA InitialState == Init => TypeOK /\ StateMatches
<1> SUFFICES ASSUME Init PROVE TypeOK /\ StateMatches
  OBVIOUS
<1>1. TypeOK
  <2>1. calls \in [Threads -> 0 .. MaxCalls]
    BY DEF Init
  <2>2. /\ pc \in [Threads -> PCs]
        /\ op \in [Threads -> {"reading", "writing"}]
        /\ second_chance \in [Threads -> BOOLEAN]
        /\ ret \in [Threads -> {"none", "OK", "FAIL", "CONSTRAINT"}]
        /\ ran \in [Threads -> BOOLEAN]
    BY DEF Init, PCs
  <2> QED BY <2>1, <2>2 DEF Init, TypeOK
<1>2. Reading = {} /\ Writing = {}
  BY DEF Init, Reading, Writing
<1>3. StateMatches
  BY <1>2, FS_EmptySet DEF Init, StateMatches
<1> QED BY <1>1, <1>3

\* The variables keep their types, no_reader is never negative, and db_op and
\* no_reader always say who is in sqlite3_exec: readers together or one writer
\* alone (queries.c:206-226, 244-254).
THEOREM StateTruth == Spec => [](TypeOK /\ StateMatches)
<1>1. TypeOK /\ StateMatches /\ [Next]_vars => (TypeOK /\ StateMatches)'
  BY TypeStep, StateStep DEF StateMatches
<1> QED
  BY InitialState, <1>1, PTL DEF Spec

\* The types alone: no_reader never goes below zero, for instance, whatever the
\* order of the decrements (queries.c:220-226, 244-254).
THEOREM TypeCorrect == Spec => []TypeOK
BY StateTruth, PTL

-----------------------------------------------------------------------------
(* Who may be asleep.                                                      *)

Sleeping == SleepsOnlyIfTaken /\ SleepersAwaitSomebody /\ NoLostWakeup

\* The mutex: only its holder decides to wait, and db_op is stable meanwhile.
LEMMA MutexStep ==
  TypeOK /\ StateMatches /\ SleepsOnlyIfTaken /\ [Next]_vars => SleepsOnlyIfTaken'
<1> SUFFICES ASSUME TypeOK, StateMatches, SleepsOnlyIfTaken, [Next]_vars
             PROVE  SleepsOnlyIfTaken'
  OBVIOUS
<1> USE DEF TypeOK, PCs, SleepsOnlyIfTaken, MustWait, syncVars, termVars, callVars
<1>1. ASSUME NEW t \in Threads, NEW o \in {"reading", "writing"}, Call(t, o)
      PROVE  SleepsOnlyIfTaken'
  BY <1>1 DEF Call
<1>2. ASSUME NEW t \in Threads, GiveUp(t) PROVE SleepsOnlyIfTaken'
  BY <1>2 DEF GiveUp, AtTest, Broadcast
<1>3. ASSUME NEW t \in Threads, FindTaken(t) PROVE SleepsOnlyIfTaken'
  BY <1>3 DEF FindTaken, AtTest
<1>4. ASSUME NEW t \in Threads, FallAsleep(t) PROVE SleepsOnlyIfTaken'
  BY <1>4 DEF FallAsleep
<1>5. ASSUME NEW t \in Threads, Enter(t) PROVE SleepsOnlyIfTaken'
  BY <1>5 DEF Enter, AtTest
<1>6. ASSUME NEW t \in Threads, NEW r \in Results, FinishRead(t, r)
      PROVE  SleepsOnlyIfTaken'
  BY <1>6 DEF FinishRead, Signal, After, Blocked, Reading
<1>7. ASSUME NEW t \in Threads, NEW r \in Results, FinishWrite(t, r)
      PROVE  SleepsOnlyIfTaken'
  BY <1>7 DEF FinishWrite, Broadcast, After, Writing
<1>8. ASSUME NEW t \in Threads, Exit(t) PROVE SleepsOnlyIfTaken'
  BY <1>8 DEF Exit
<1>9. CASE SetFlag
  BY <1>9 DEF SetFlag
<1>10. CASE WakeAll
  BY <1>10 DEF WakeAll
<1>11. CASE UNCHANGED vars
  BY <1>11 DEF vars
<1> QED
  BY <1>1, <1>2, <1>3, <1>4, <1>5, <1>6, <1>7, <1>8, <1>9, <1>10, <1>11
  DEF Next, Continue

\* Readers sleep only behind a writer: when the last reader frees the database
\* there is none to wake.
LEMMA SleepersStep ==
  TypeOK /\ StateMatches /\ SleepsOnlyIfTaken /\ SleepersAwaitSomebody /\ [Next]_vars
    => SleepersAwaitSomebody'
<1> SUFFICES ASSUME TypeOK, StateMatches, SleepsOnlyIfTaken, SleepersAwaitSomebody,
                    [Next]_vars,
                    NEW u \in Threads, pc'[u] = "blocked", op'[u] = "reading"
             PROVE  db_op' = "writing"
  BY DEF SleepersAwaitSomebody, Blocked
<1> USE DEF TypeOK, PCs, SleepersAwaitSomebody, Blocked, syncVars, termVars, callVars
<1>1. ASSUME NEW t \in Threads, NEW o \in {"reading", "writing"}, Call(t, o)
      PROVE  db_op' = "writing"
  BY <1>1 DEF Call
<1>2. ASSUME NEW t \in Threads, GiveUp(t) PROVE db_op' = "writing"
  BY <1>2 DEF GiveUp, Broadcast
<1>3. ASSUME NEW t \in Threads, FindTaken(t) PROVE db_op' = "writing"
  BY <1>3 DEF FindTaken
<1>4. ASSUME NEW t \in Threads, FallAsleep(t) PROVE db_op' = "writing"
  BY <1>4 DEF FallAsleep, SleepsOnlyIfTaken, MustWait
<1>5. ASSUME NEW t \in Threads, Enter(t) PROVE db_op' = "writing"
  BY <1>5 DEF Enter, MustWait
<1>6. ASSUME NEW t \in Threads, NEW r \in Results, FinishRead(t, r)
      PROVE  db_op' = "writing"
  <2>1. db_op = "reading"
    BY <1>6 DEF FinishRead, StateMatches
  <2>2. pc[u] = "blocked" /\ op[u] = "reading"
    BY <1>6 DEF FinishRead, Signal, After
  <2> QED BY <2>1, <2>2
<1>7. ASSUME NEW t \in Threads, NEW r \in Results, FinishWrite(t, r)
      PROVE  db_op' = "writing"
  \* the broadcast leaves nobody asleep
  BY <1>7 DEF FinishWrite, Broadcast, After
<1>8. ASSUME NEW t \in Threads, Exit(t) PROVE db_op' = "writing"
  BY <1>8 DEF Exit
<1>9. CASE SetFlag
  BY <1>9 DEF SetFlag
<1>10. CASE WakeAll
  BY <1>10 DEF WakeAll
<1>11. CASE UNCHANGED vars
  BY <1>11 DEF vars
<1> QED
  BY <1>1, <1>2, <1>3, <1>4, <1>5, <1>6, <1>7, <1>8, <1>9, <1>10, <1>11
  DEF Next, Continue

LEMMA WakeupStep ==
  TypeOK /\ StateMatches /\ SleepsOnlyIfTaken /\ NoLostWakeup /\ [Next]_vars
    => NoLostWakeup'
<1> SUFFICES ASSUME TypeOK, StateMatches, SleepsOnlyIfTaken, NoLostWakeup, [Next]_vars,
                    NEW u \in Threads, pc'[u] = "blocked", db_op' = "noop"
             PROVE  \E t \in Threads : pc'[t] = "woken"
  BY DEF NoLostWakeup, Blocked
<1> USE DEF TypeOK, PCs, NoLostWakeup, Blocked, syncVars, termVars, callVars
<1>1. ASSUME NEW t \in Threads, NEW o \in {"reading", "writing"}, Call(t, o)
      PROVE  \E s \in Threads : pc'[s] = "woken"
  BY <1>1 DEF Call
<1>2. ASSUME NEW t \in Threads, GiveUp(t) PROVE \E s \in Threads : pc'[s] = "woken"
  BY <1>2 DEF GiveUp, Broadcast
<1>3. ASSUME NEW t \in Threads, FindTaken(t) PROVE \E s \in Threads : pc'[s] = "woken"
  BY <1>3 DEF FindTaken, MustWait
<1>4. ASSUME NEW t \in Threads, FallAsleep(t) PROVE \E s \in Threads : pc'[s] = "woken"
  BY <1>4 DEF FallAsleep, SleepsOnlyIfTaken, MustWait
<1>5. ASSUME NEW t \in Threads, Enter(t) PROVE \E s \in Threads : pc'[s] = "woken"
  BY <1>5 DEF Enter
<1>6. ASSUME NEW t \in Threads, NEW r \in Results, FinishRead(t, r)
      PROVE  \E s \in Threads : pc'[s] = "woken"
  <2>1. db_op = "reading" /\ pc[u] = "blocked"
    BY <1>6 DEF FinishRead, Signal, After, StateMatches
  <2>2. no_reader = 1 /\ Signal(t, After(r))
    BY <1>6, <2>1 DEF FinishRead
  <2>3. PICK s \in Blocked : pc' = [pc EXCEPT ![t] = After(r), ![s] = "woken"]
    BY <2>1, <2>2 DEF Signal
  <2> QED BY <2>3
<1>7. ASSUME NEW t \in Threads, NEW r \in Results, FinishWrite(t, r)
      PROVE  \E s \in Threads : pc'[s] = "woken"
  BY <1>7 DEF FinishWrite, Broadcast, After
<1>8. ASSUME NEW t \in Threads, Exit(t) PROVE \E s \in Threads : pc'[s] = "woken"
  BY <1>8 DEF Exit
<1>9. CASE SetFlag
  BY <1>9 DEF SetFlag
<1>10. CASE WakeAll
  BY <1>10 DEF WakeAll
<1>11. CASE UNCHANGED vars
  BY <1>11 DEF vars
<1> QED
  BY <1>1, <1>2, <1>3, <1>4, <1>5, <1>6, <1>7, <1>8, <1>9, <1>10, <1>11
  DEF Next, Continue

\* No thread is left asleep on a free database, although the last reader signals
\* one sleeper only and terminate_db takes no mutex (queries.c:130-134, 221).
THEOREM WakeupsKept == Spec => []NoLostWakeup
<1>1. Init => Sleeping
  BY DEF Init, Sleeping, SleepsOnlyIfTaken, SleepersAwaitSomebody, NoLostWakeup, Blocked
<1>2. TypeOK /\ StateMatches /\ Sleeping /\ [Next]_vars => Sleeping'
  BY MutexStep, SleepersStep, WakeupStep DEF Sleeping
<1>3. Sleeping => NoLostWakeup
  BY DEF Sleeping
<1> QED
  BY <1>1, <1>2, <1>3, StateTruth, PTL DEF Spec

\* A reader sleeps only while a writer runs, so the single signal of the last
\* reader can only be meant for a writer (queries.c:194, 221).
THEOREM ReadersSleepBehindWriters == Spec => []SleepersAwaitSomebody
<1>1. Init => SleepsOnlyIfTaken /\ SleepersAwaitSomebody
  BY DEF Init, SleepsOnlyIfTaken, SleepersAwaitSomebody, Blocked
<1>2. TypeOK /\ StateMatches /\ SleepsOnlyIfTaken /\ SleepersAwaitSomebody /\ [Next]_vars
        => (SleepsOnlyIfTaken /\ SleepersAwaitSomebody)'
  BY MutexStep, SleepersStep
<1> QED
  BY <1>1, <1>2, StateTruth, PTL DEF Spec

-----------------------------------------------------------------------------
(* What the callers are told.                                              *)

LEMMA ReportStep == TypeOK /\ OKMeansExecuted /\ [Next]_vars => OKMeansExecuted'
<1> SUFFICES ASSUME TypeOK, OKMeansExecuted, [Next]_vars PROVE OKMeansExecuted'
  OBVIOUS
<1> USE DEF TypeOK, PCs, OKMeansExecuted, callVars, termVars
<1>1. ASSUME NEW t \in Threads, NEW o \in {"reading", "writing"}, Call(t, o)
      PROVE  OKMeansExecuted'
  BY <1>1 DEF Call
<1>2. ASSUME NEW t \in Threads, GiveUp(t) PROVE OKMeansExecuted'
  <2>1. \A s \in Threads \ {t} : pc'[s] = "idle" => pc[s] = "idle"
    BY <1>2 DEF GiveUp, Broadcast
  <2>2. ret'[t] = "OK" => op'[t] = "writing" /\ terminate_queries'
    BY <1>2 DEF GiveUp
  <2>3. /\ \A s \in Threads \ {t} : ret'[s] = ret[s]
        /\ ran' = ran /\ op' = op /\ terminate_queries' = terminate_queries
    BY <1>2 DEF GiveUp
  <2> QED BY <2>1, <2>2, <2>3
<1>3. ASSUME NEW t \in Threads, FindTaken(t) \/ FallAsleep(t) \/ Enter(t) \/ Exit(t)
      PROVE  OKMeansExecuted'
  BY <1>3 DEF FindTaken, FallAsleep, Enter, Exit
<1>4. ASSUME NEW t \in Threads, NEW r \in Results, FinishRead(t, r) PROVE OKMeansExecuted'
  <2>1. \A s \in Threads \ {t} : pc'[s] = "idle" => pc[s] = "idle"
    BY <1>4 DEF FinishRead, Signal, Blocked
  <2>2. /\ ret'[t] = "OK" => ran'[t]
        /\ \A s \in Threads \ {t} : ret'[s] = ret[s] /\ ran'[s] = ran[s]
    BY <1>4 DEF FinishRead, Outcome
  <2>3. op' = op /\ terminate_queries' = terminate_queries
    BY <1>4 DEF FinishRead
  <2> QED BY <2>1, <2>2, <2>3
<1>5. ASSUME NEW t \in Threads, NEW r \in Results, FinishWrite(t, r) PROVE OKMeansExecuted'
  <2>1. \A s \in Threads \ {t} : pc'[s] = "idle" => pc[s] = "idle"
    BY <1>5 DEF FinishWrite, Broadcast
  <2>2. pc'[t] = "idle" => Outcome(t, r)
    BY <1>5 DEF FinishWrite, Broadcast
  <2>3. \A s \in Threads \ {t} : ret'[s] = ret[s] /\ ran'[s] = ran[s]
    BY <1>5 DEF FinishWrite, Outcome
  <2>4. Outcome(t, r) => (ret'[t] = "OK" => ran'[t])
    BY DEF Outcome
  <2>5. op' = op /\ terminate_queries' = terminate_queries
    BY <1>5 DEF FinishWrite
  <2> QED BY <2>1, <2>2, <2>3, <2>4, <2>5
<1>6. CASE SetFlag \/ WakeAll
  BY <1>6 DEF SetFlag, WakeAll
<1>7. CASE UNCHANGED vars
  BY <1>7 DEF vars
<1> QED
  BY <1>1, <1>2, <1>3, <1>4, <1>5, <1>6, <1>7 DEF Next, Continue

\* SQLITE_OK means that the statement was executed, except for a statement that
\* writes once termination is requested (queries.h:97, queries.c:231-242).
THEOREM Reports == Spec => []OKMeansExecuted
<1>1. Init => OKMeansExecuted
  BY DEF Init, OKMeansExecuted
<1> QED
  BY <1>1, ReportStep, StateTruth, PTL DEF Spec

-----------------------------------------------------------------------------
(* Refinement.                                                             *)

LEMMA StepRefines ==
  TypeOK /\ StateMatches /\ [Next]_vars => [RW!Next]_(RW!rwVars)
<1> SUFFICES ASSUME TypeOK, StateMatches, [Next]_vars PROVE [RW!Next]_(RW!rwVars)
  OBVIOUS
<1>1. CASE Elsewhere
  BY <1>1, OthersKeepRunning DEF RW!rwVars
<1>2. ASSUME NEW t \in Threads, Enter(t) PROVE RW!Next
  <2>1. CASE op[t] = "reading"
    <3>1. RW!BeginRead(t)
      BY <1>2, <2>1, EnterRuns DEF Enter, MustWait, StateMatches, RW!BeginRead
    <3> QED BY <3>1 DEF RW!Next
  <2>2. CASE op[t] = "writing"
    <3>1. db_op = "noop"
      BY <1>2, <2>2 DEF Enter, MustWait, TypeOK
    <3>2. RW!BeginWrite(t)
      BY <1>2, <2>2, <3>1, EnterRuns DEF StateMatches, RW!BeginWrite
    <3> QED BY <3>2 DEF RW!Next
  <2> QED BY <2>1, <2>2 DEF TypeOK
<1>3. ASSUME NEW t \in Threads, NEW r \in Results, FinishRead(t, r) PROVE RW!Next
  <2>1. RW!EndRead(t)
    BY <1>3, FinishReadRuns DEF RW!EndRead
  <2> QED BY <2>1 DEF RW!Next
<1>4. ASSUME NEW t \in Threads, NEW r \in Results, FinishWrite(t, r) PROVE RW!Next
  <2>1. RW!EndWrite(t)
    BY <1>4, FinishWriteRuns DEF RW!EndWrite
  <2> QED BY <2>1 DEF RW!Next
<1> QED
  BY <1>1, <1>2, <1>3, <1>4 DEF Next, Continue, Elsewhere

\* exec_query keeps the promise of queries.c:167-170: SELECTs run together, any
\* other statement runs alone.
THEOREM Implements == Spec => ImplementsReadersWriters
<1>1. Init => RW!Init
  BY DEF Init, Reading, Writing, RW!Init
<1> QED
  BY <1>1, StepRefines, StateTruth, PTL DEF Spec, ImplementsReadersWriters, RW!Spec
=============================================================================
