------------------------------- MODULE DbLock -------------------------------
(***************************************************************************)
(* exec_query and terminate_db of queries.c, in the default build (no      *)
(* WAL_MODE): the hand-made readers/writer lock under which every query of *)
(* every slave runs, the retry of a statement that found the database      *)
(* busy, and the termination flag.                                         *)
(*                                                                         *)
(* A step is what a thread does between taking access_db_op and releasing  *)
(* it (unlock, or the wait).  terminate_db takes no mutex, so the test of  *)
(* the flag and the falling asleep are two steps, with access_db_op held   *)
(* in between, and terminate_db itself is two steps.                       *)
(***************************************************************************)
EXTENDS Integers, FiniteSets

CONSTANTS
    Threads,    \* the slaves, each with its own connection to the database
    NoThread,   \* access_db_op is free
    MaxCalls,   \* bound: calls of exec_query per thread
    Results     \* what sqlite3_exec may return: subset of {"OK", "CONSTRAINT", "BUSY", "ERROR"}

ASSUME ThreadsAssumption == IsFiniteSet(Threads) /\ NoThread \notin Threads
ASSUME MaxCallsAssumption == MaxCalls \in Nat
ASSUME ResultsAssumption == Results \subseteq {"OK", "CONSTRAINT", "BUSY", "ERROR"}

VARIABLES
    access_db_op,        \* the holder of the mutex while it is held across a step
    db_op,               \* "noop", "reading" or "writing"
    no_reader,           \* readers currently active
    terminate_queries,
    terminator,          \* terminate_db: "ready", "flagged" (before the broadcast), "done"
    pc,                  \* where thread t is in exec_query
    op,                  \* requested_op of the call t is in
    second_chance,       \* the call of t has already been retried
    ret,                 \* what the last call of t returned
    ran,                 \* history: sqlite3_exec succeeded during the last call of t
    calls,               \* calls t has made, bounded by MaxCalls
    exited               \* some thread has called exit(EXIT_FAILURE)

syncVars == <<access_db_op, db_op, no_reader>>
termVars == <<terminate_queries, terminator>>
callVars == <<op, second_chance, ret, ran, calls>>
vars == <<syncVars, termVars, pc, callVars, exited>>

(***************************************************************************)
(* idle     outside exec_query                                             *)
(* entry    about to lock access_db_op (first attempt, or the retry)       *)
(* towait   found the database taken, holds the mutex, about to wait       *)
(* blocked  asleep in pthread_cond_wait                                    *)
(* woken    out of the wait, about to get the mutex back                   *)
(* running  in sqlite3_exec, mutex released, or back from it and about to  *)
(*          take the mutex                                                 *)
(* exiting  the statement failed, about to call exit                       *)
(***************************************************************************)
PCs == {"idle", "entry", "towait", "blocked", "woken", "running", "exiting"}

Blocked == {t \in Threads : pc[t] = "blocked"}
Reading == {t \in Threads : pc[t] = "running" /\ op[t] = "reading"}
Writing == {t \in Threads : pc[t] = "running" /\ op[t] = "writing"}

Init ==
    /\ access_db_op = NoThread
    /\ db_op = "noop"
    /\ no_reader = 0
    /\ terminate_queries = FALSE
    /\ terminator = "ready"
    /\ pc = [t \in Threads |-> "idle"]
    /\ op = [t \in Threads |-> "reading"]
    /\ second_chance = [t \in Threads |-> FALSE]
    /\ ret = [t \in Threads |-> "none"]
    /\ ran = [t \in Threads |-> FALSE]
    /\ calls = [t \in Threads |-> 0]
    /\ exited = FALSE

\* The value of pc when t goes to l and everybody asleep on db_busy is woken.
Broadcast(t, l) ==
    pc' = [s \in Threads |-> IF s = t THEN l
                             ELSE IF pc[s] = "blocked" THEN "woken" ELSE pc[s]]

\* The same with pthread_cond_signal: one sleeper is woken, if there is one.
Signal(t, l) ==
    \/ Blocked = {} /\ pc' = [pc EXCEPT ![t] = l]
    \/ \E s \in Blocked : pc' = [pc EXCEPT ![t] = l, ![s] = "woken"]

\* exec_query is called; the first letter of the statement gives the kind.
Call(t, o) ==
    /\ ~exited
    /\ pc[t] = "idle"
    /\ calls[t] < MaxCalls
    /\ pc' = [pc EXCEPT ![t] = "entry"]
    /\ op' = [op EXCEPT ![t] = o]
    /\ second_chance' = [second_chance EXCEPT ![t] = FALSE]
    /\ ret' = [ret EXCEPT ![t] = "none"]
    /\ ran' = [ran EXCEPT ![t] = FALSE]
    /\ calls' = [calls EXCEPT ![t] = @ + 1]
    /\ UNCHANGED <<syncVars, termVars, exited>>

\* t gets the mutex at the top of the loop, or back from the wait.
AtTest(t) ==
    /\ ~exited
    /\ pc[t] \in {"entry", "woken"}
    /\ access_db_op = NoThread

\* Mutant of MustWait: a writer does not mind the readers.
MustWaitForWriterOnly(t) == db_op = "writing"

\* The database is taken: a reader waits for a writer, a writer for anybody.
MustWait(t) == db_op = "writing" \/ (op[t] = "writing" /\ db_op = "reading")

\* Mutant of GiveUp: a reader returns SQLITE_OK as well.
GiveUpPretending(t) ==
    /\ AtTest(t)
    /\ terminate_queries
    /\ Broadcast(t, "idle")
    /\ ret' = [ret EXCEPT ![t] = "OK"]
    /\ UNCHANGED <<syncVars, termVars, op, second_chance, ran, calls, exited>>

\* Termination was requested: wake the others and return without running the
\* statement; a reader returns SQLITE_FAIL, a writer SQLITE_OK.
GiveUp(t) ==
    /\ AtTest(t)
    /\ terminate_queries
    /\ Broadcast(t, "idle")
    /\ ret' = [ret EXCEPT ![t] = IF op[t] = "reading" THEN "FAIL" ELSE "OK"]
    /\ UNCHANGED <<syncVars, termVars, op, second_chance, ran, calls, exited>>

FindTaken(t) ==
    /\ AtTest(t)
    /\ ~terminate_queries
    /\ MustWait(t)
    /\ access_db_op' = t
    /\ pc' = [pc EXCEPT ![t] = "towait"]
    /\ UNCHANGED <<db_op, no_reader, termVars, callVars, exited>>

\* pthread_cond_wait releases the mutex and falls asleep in one step.
FallAsleep(t) ==
    /\ ~exited
    /\ pc[t] = "towait"
    /\ access_db_op' = NoThread
    /\ pc' = [pc EXCEPT ![t] = "blocked"]
    /\ UNCHANGED <<db_op, no_reader, termVars, callVars, exited>>

\* Mutant of Enter: no_reader++ is missing.
EnterUncounted(t) ==
    /\ AtTest(t)
    /\ ~terminate_queries
    /\ ~MustWait(t)
    /\ db_op' = op[t]
    /\ pc' = [pc EXCEPT ![t] = "running"]
    /\ UNCHANGED <<access_db_op, no_reader, termVars, callVars, exited>>

Enter(t) ==
    /\ AtTest(t)
    /\ ~terminate_queries
    /\ ~MustWait(t)
    /\ db_op' = op[t]
    /\ no_reader' = IF op[t] = "reading" THEN no_reader + 1 ELSE no_reader
    /\ pc' = [pc EXCEPT ![t] = "running"]
    /\ UNCHANGED <<access_db_op, termVars, callVars, exited>>

\* The tail of exec_query: anything but OK and CONSTRAINT ends the process.
Outcome(t, r) ==
    /\ ret' = [ret EXCEPT ![t] = IF r \in {"OK", "CONSTRAINT"} THEN r ELSE "none"]
    /\ ran' = [ran EXCEPT ![t] = (r = "OK")]

After(r) == IF r \in {"OK", "CONSTRAINT"} THEN "idle" ELSE "exiting"

\* Mutants of FinishRead: every reader that ends frees the database; the last
\* one signals nobody.
FinishReadAlwaysFrees(t, r) ==
    /\ ~exited
    /\ t \in Reading
    /\ access_db_op = NoThread
    /\ no_reader' = no_reader - 1
    /\ db_op' = "noop" /\ Signal(t, After(r))
    /\ Outcome(t, r)
    /\ UNCHANGED <<access_db_op, termVars, op, second_chance, calls, exited>>
FinishReadSilent(t, r) ==
    /\ ~exited
    /\ t \in Reading
    /\ access_db_op = NoThread
    /\ no_reader' = no_reader - 1
    /\ db_op' = IF no_reader = 1 THEN "noop" ELSE db_op
    /\ pc' = [pc EXCEPT ![t] = After(r)]
    /\ Outcome(t, r)
    /\ UNCHANGED <<access_db_op, termVars, op, second_chance, calls, exited>>

\* sqlite3_exec has returned r to a reader; the last reader signals one writer.
FinishRead(t, r) ==
    /\ ~exited
    /\ t \in Reading
    /\ access_db_op = NoThread
    /\ no_reader' = no_reader - 1
    /\ IF no_reader = 1
       THEN db_op' = "noop" /\ Signal(t, After(r))
       ELSE UNCHANGED db_op /\ pc' = [pc EXCEPT ![t] = After(r)]
    /\ Outcome(t, r)
    /\ UNCHANGED <<access_db_op, termVars, op, second_chance, calls, exited>>

\* Mutant of FinishWrite: no wakeup at all.
FinishWriteSilent(t, r) ==
    /\ ~exited
    /\ t \in Writing
    /\ access_db_op = NoThread
    /\ db_op' = "noop"
    /\ pc' = [pc EXCEPT ![t] = After(r)]
    /\ Outcome(t, r)
    /\ UNCHANGED <<access_db_op, no_reader, termVars, op, second_chance, calls, exited>>

\* sqlite3_exec has returned r to a writer: BUSY (or LOCKED) is tried once more.
FinishWrite(t, r) ==
    /\ ~exited
    /\ t \in Writing
    /\ access_db_op = NoThread
    /\ db_op' = "noop"
    /\ \/ /\ r = "BUSY" /\ ~second_chance[t]
          /\ second_chance' = [second_chance EXCEPT ![t] = TRUE]
          /\ Broadcast(t, "entry")
          /\ UNCHANGED <<ret, ran>>
       \/ /\ r # "BUSY" \/ second_chance[t]
          /\ Broadcast(t, After(r))
          /\ Outcome(t, r)
          /\ UNCHANGED second_chance
    /\ UNCHANGED <<access_db_op, no_reader, termVars, op, calls, exited>>

Exit(t) ==
    /\ ~exited
    /\ pc[t] = "exiting"
    /\ exited' = TRUE
    /\ UNCHANGED <<syncVars, termVars, pc, callVars>>

\* terminate_db, called by the main thread: the flag, then the broadcast.
SetFlag ==
    /\ ~exited
    /\ terminator = "ready"
    /\ terminate_queries' = TRUE
    /\ terminator' = "flagged"
    /\ UNCHANGED <<syncVars, pc, callVars, exited>>

WakeAll ==
    /\ ~exited
    /\ terminator = "flagged"
    /\ terminator' = "done"
    /\ pc' = [s \in Threads |-> IF pc[s] = "blocked" THEN "woken" ELSE pc[s]]
    /\ UNCHANGED <<syncVars, terminate_queries, callVars, exited>>

Continue(t) ==
    \/ GiveUp(t) \/ FindTaken(t) \/ FallAsleep(t) \/ Enter(t)
    \/ \E r \in Results : FinishRead(t, r) \/ FinishWrite(t, r)
    \/ Exit(t)

Next ==
    \/ \E t \in Threads : (\E o \in {"reading", "writing"} : Call(t, o)) \/ Continue(t)
    \/ SetFlag
    \/ WakeAll

\* A thread inside exec_query keeps running and sqlite3_exec returns; the calls
\* and the request to terminate are the environment's choice.  Weak fairness is
\* enough: the calls are bounded, so a thread cannot find the mutex or the
\* database taken by yet another call for ever.
Spec == Init /\ [][Next]_vars
        /\ \A t \in Threads : WF_vars(Continue(t))
        /\ WF_vars(WakeAll)

-----------------------------------------------------------------------------
(* Correctness.                                                            *)

TypeOK ==
    /\ access_db_op \in Threads \cup {NoThread}
    /\ db_op \in {"noop", "reading", "writing"}
    /\ no_reader \in Nat
    /\ terminate_queries \in BOOLEAN
    /\ terminator \in {"ready", "flagged", "done"}
    /\ pc \in [Threads -> PCs]
    /\ op \in [Threads -> {"reading", "writing"}]
    /\ second_chance \in [Threads -> BOOLEAN]
    /\ ret \in [Threads -> {"none", "OK", "FAIL", "CONSTRAINT"}]
    /\ ran \in [Threads -> BOOLEAN]
    /\ calls \in [Threads -> 0 .. MaxCalls]
    /\ exited \in BOOLEAN

\* db_op and no_reader tell the truth about who is in sqlite3_exec: the state is
\* "reading" exactly while somebody reads, "writing" exactly while one thread
\* writes, and no_reader counts the readers (queries.c:209-220, 244-252).
StateMatches ==
    /\ no_reader = Cardinality(Reading)
    /\ db_op = "reading" <=> Reading # {}
    /\ db_op = "writing" <=> Writing # {}
    /\ \A s, t \in Writing : s = t

\* A thread that decided to wait holds the mutex until it sleeps, so what it
\* waits for is still true then; only the termination flag can come in between
\* (queries.c:193-195, 231-233).
SleepsOnlyIfTaken ==
    \A t \in Threads :
        /\ access_db_op = t <=> pc[t] = "towait"
        /\ pc[t] = "towait" => MustWait(t)

\* The last reader signals one sleeper only, with writers and readers asleep on
\* the same condition.  That is enough because a reader sleeps only while a
\* writer runs, and a writer broadcasts (queries.c:194, 221, 253).
SleepersAwaitSomebody ==
    \A t \in Blocked : op[t] = "reading" => db_op = "writing"

\* No wakeup is lost, termination included although its flag and broadcast
\* do not take the mutex: when nobody is running and somebody sleeps, another
\* thread has been woken and will go on (queries.c:130-134, 194-205, 231-242).
NoLostWakeup ==
    Blocked # {} /\ db_op = "noop" => \E t \in Threads : pc[t] = "woken"

\* Every call returns, whatever the others do and whenever termination is
\* requested, unless a failed statement ends the process.
CallsReturn == \A t \in Threads : (pc[t] # "idle") ~> (pc[t] = "idle" \/ exited)

\* Statements that read share the database, a statement that writes has it
\* alone: the lock implements ReadersWriters.
RW == INSTANCE ReadersWriters WITH readers <- Reading, writers <- Writing
ImplementsReadersWriters == RW!Spec

\* queries.h:97 says of SQLITE_OK that the query was executed correctly.  That is
\* so of every statement but one that writes once termination is requested,
\* which is skipped and reported as done (queries.c:231-242).
OKMeansExecuted ==
    \A t \in Threads :
        pc[t] = "idle" /\ ret[t] = "OK"
        => ran[t] \/ (op[t] = "writing" /\ terminate_queries)
=============================================================================
