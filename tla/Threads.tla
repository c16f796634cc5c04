------------------------------ MODULE Threads ------------------------------
(***************************************************************************)
(* baitap4/main.c: main runs four exercises one after the other; each      *)
(* creates its threads and joins them all before the next one starts.      *)
(*   1  two threads that only print;                                       *)
(*   2  threads that increment counter under a mutex;                      *)
(*   3  a producer and a consumer with a mutex and a condition variable;   *)
(*   4  readers and writers of shared_data under a read-write lock.        *)
(* A thread is a pair: what it does, and its number.  That a thread has    *)
(* been created and has not run yet is the same as that it has not been    *)
(* created, so an exercise starts all its threads at once.  In exercise 3  *)
(* everything happens under mutex3: lock to unlock is one step there.      *)
(***************************************************************************)
EXTENDS Integers, FiniteSets

CONSTANTS
  Counters, Loops,   \* exercise 2: threads, increments of each (1000000)
  Items,             \* exercise 3: items to produce and to consume (10)
  Readers, Writers   \* exercise 4: threads

ASSUME ThreadsAssumption ==
  /\ {Counters, Loops, Items, Readers, Writers} \subseteq Nat \ {0}

P == <<"produce", 1>>
C == <<"consume", 1>>
Thread ==
  ({"greet"} \X (1 .. 2)) \cup ({"count"} \X (1 .. Counters)) \cup {P, C}
    \cup ({"read"} \X (1 .. Readers)) \cup ({"write"} \X (1 .. Writers))

Exercise == [greet |-> 1, count |-> 2, produce |-> 3, consume |-> 3,
             read |-> 4, write |-> 4]

VARIABLES
  exercise,     \* the one main is in; 5: main has returned
  tpc,          \* "start", "load", "store", "unlock", "sleep", "wait", "woken", "done"
  round,        \* rounds of its loop a thread has done
  inside,       \* threads that hold the mutex or the read-write lock
  reg,          \* what a thread has read of the shared variable
  shared,       \* counter and shared_data
  data_ready,
  lost          \* items overwritten before they were taken (not in the program)

threadsVars ==
  <<exercise, tpc, round, inside, reg, shared, data_ready, lost>>

ThreadsInit ==
  /\ exercise = 1
  /\ tpc = [t \in Thread |-> "start"]
  /\ round = [t \in Thread |-> 0]
  /\ inside = {}
  /\ reg = [t \in Thread |-> 0]
  /\ shared = [counter |-> 0, shared_data |-> 0]
  /\ data_ready = FALSE
  /\ lost = 0

Crew(e) == {t \in Thread : Exercise[t[1]] = e}
Goes(t, to) == tpc' = [tpc EXCEPT ![t] = to]
\* t has finished a round of a loop of n.
Rounds(t, n) ==
  /\ round' = [round EXCEPT ![t] = @ + 1]
  /\ Goes(t, IF round[t] + 1 = n THEN "done" ELSE "start")

\* main returns from the last pthread_join of the exercise.
JoinAll == \A t \in Crew(exercise) : tpc[t] = "done"

NextExercise ==
  /\ exercise < 5
  /\ JoinAll
  /\ exercise' = exercise + 1
  /\ UNCHANGED <<tpc, round, inside, reg, shared, data_ready, lost>>

\* thread_func1
Greet(t) ==
  /\ t[1] = "greet"
  /\ Rounds(t, 1)
  /\ UNCHANGED <<exercise, inside, reg, shared, data_ready, lost>>

-----------------------------------------------------------------------------
(* thread_func2, reader, writer *)

Var(t) == IF t[1] = "count" THEN "counter" ELSE "shared_data"

MayEnter_BugNoMutex(t) ==   \* thread_func2 without the mutex
  t[1] = "count" \/ inside = {} \/ (t[1] = "read" /\ \A u \in inside : u[1] = "read")

MayEnter_BugReadLock(t) == \A u \in inside : u[1] = "read"   \* writer takes rdlock

\* pthread_mutex_lock and the two rwlock calls: readers do not exclude readers.
MayEnter(t) == inside = {} \/ (t[1] = "read" /\ \A u \in inside : u[1] = "read")

Lock(t) ==
  /\ t[1] \in {"count", "read", "write"}
  /\ tpc[t] = "start"
  /\ MayEnter(t)
  /\ inside' = inside \cup {t}
  /\ Goes(t, "load")
  /\ UNCHANGED <<exercise, round, reg, shared, data_ready, lost>>

\* x++ and printf("...", x) begin by reading x.
Load(t) ==
  /\ tpc[t] = "load"
  /\ reg' = [reg EXCEPT ![t] = shared[Var(t)]]
  /\ Goes(t, IF t[1] = "read" THEN "unlock" ELSE "store")
  /\ UNCHANGED <<exercise, round, inside, shared, data_ready, lost>>

Store(t) ==
  /\ tpc[t] = "store"
  /\ shared' = [shared EXCEPT ![Var(t)] = reg[t] + 1]
  /\ Goes(t, "unlock")
  /\ UNCHANGED <<exercise, round, inside, reg, data_ready, lost>>

Unlock(t) ==
  /\ tpc[t] = "unlock"
  /\ inside' = inside \ {t}
  /\ Rounds(t, IF t[1] = "count" THEN Loops ELSE 1)
  /\ UNCHANGED <<exercise, reg, shared, data_ready, lost>>

-----------------------------------------------------------------------------
(* producer, consumer *)

PairUnchanged == UNCHANGED <<exercise, inside, reg, shared>>

Woken_BugNoSignal(now) == now   \* without pthread_cond_signal

\* pthread_cond_signal, as the consumer's state sees it.
Woken(now) == IF now = "wait" THEN "woken" ELSE now

\* The critical section: an item that was not taken is overwritten.
Produce ==
  /\ tpc[P] = "start"
  /\ data_ready' = TRUE
  /\ lost' = IF data_ready THEN lost + 1 ELSE lost
  /\ tpc' = [tpc EXCEPT ![P] = "sleep", ![C] = Woken(tpc[C])]
  /\ UNCHANGED round
  /\ PairUnchanged

\* sleep(1) is over, however long the consumer has needed meanwhile.
Slept ==
  /\ tpc[P] = "sleep"
  /\ Rounds(P, Items)
  /\ UNCHANGED <<data_ready, lost>>
  /\ PairUnchanged

Ready_BugIf == data_ready \/ tpc[C] = "woken"   \* if for while

\* The test of the while loop, after locking and after each wait.
Ready == data_ready

Consume ==
  /\ tpc[C] \in {"start", "woken"}
  /\ IF Ready
     THEN data_ready' = FALSE /\ Rounds(C, Items)
     ELSE Goes(C, "wait") /\ UNCHANGED <<data_ready, round>>
  /\ UNCHANGED lost
  /\ PairUnchanged

\* POSIX lets pthread_cond_wait return without a signal.
SpuriousWakeup ==
  /\ tpc[C] = "wait"
  /\ Goes(C, "woken")
  /\ UNCHANGED <<round, data_ready, lost>>
  /\ PairUnchanged

ThreadStep(t) ==
  /\ t \in Crew(exercise)
  /\ tpc[t] # "done"
  /\ \/ Greet(t) \/ Lock(t) \/ Load(t) \/ Store(t) \/ Unlock(t)
     \/ t = P /\ (Produce \/ Slept)
     \/ t = C /\ Consume

ThreadsNext ==
  \/ NextExercise
  \/ \E t \in Thread : ThreadStep(t)
  \/ SpuriousWakeup

\* The scheduler runs every thread that can run.  Every loop is finite, so a
\* lock is free for good in the end and need not be fair; spurious wakeups may
\* never come.
ThreadsFairness ==
  /\ WF_threadsVars(NextExercise)
  /\ \A t \in Thread : WF_threadsVars(ThreadStep(t))

ThreadsSpec == ThreadsInit /\ [][ThreadsNext]_threadsVars /\ ThreadsFairness

-----------------------------------------------------------------------------
(* Properties. *)

\* counter++ and shared_data++ are a load and a store each, yet when the
\* threads have been joined no increment of anyone has been lost.
EveryIncrementCounts ==
  /\ exercise > 2 => shared.counter = Counters * Loops
  /\ exercise > 4 => shared.shared_data = Writers

\* What a reader has read is still the value when it unlocks.
ReadStaysTrue ==
  \A t \in Thread :
    t[1] = "read" /\ tpc[t] = "unlock" => reg[t] = shared.shared_data

\* Every item produced has been taken once, has been overwritten, or is there:
\* a consumer that wakes up without a signal does not take one again.
Produced == round[P] + (IF tpc[P] = "sleep" THEN 1 ELSE 0)
NothingTakenTwice ==
  Produced = round[C] + lost + (IF data_ready THEN 1 ELSE 0)

\* Only an item overwritten (line 56) can stop the program, for the consumer
\* counts ten items: every wakeup reaches it, and no thread waits for ever on a
\* mutex or lock.
EndsUnlessLost == <>(exercise = 5 \/ lost > 0)
=============================================================================
