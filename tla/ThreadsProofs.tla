--------------------------- MODULE ThreadsProofs ---------------------------
(***************************************************************************)
(* Theorems about Threads, for every number of threads, increments and     *)
(* items.                                                                  *)
(***************************************************************************)
EXTENDS Threads, FiniteSetTheorems, TLAPS

USE ThreadsAssumption DEF ThreadsAssumption

Counter == {"count"} \X (1 .. Counters)
Writer  == {"write"} \X (1 .. Writers)

Types ==
  /\ exercise \in 1 .. 5
  /\ tpc \in [Thread -> {"start", "load", "store", "unlock", "sleep", "wait",
                         "woken", "done"}]
  /\ round \in [Thread -> Nat]
  /\ inside \subseteq Thread
  /\ reg \in [Thread -> Nat]
  /\ shared \in [{"counter", "shared_data"} -> Nat]
  /\ data_ready \in BOOLEAN
  /\ lost \in Nat

\* The kinds of threads, and what tells them apart.
LEMMA Kinds ==
  /\ P \in Thread /\ C \in Thread /\ P # C
  /\ P[1] = "produce" /\ C[1] = "consume"
  /\ \A t \in Thread :
       /\ t[1] \in {"greet", "count", "produce", "consume", "read", "write"}
       /\ t[1] = "count" <=> t \in Counter
       /\ t[1] = "write" <=> t \in Writer
  /\ Counter \subseteq Thread /\ Writer \subseteq Thread
<1>1. P[1] = "produce" /\ C[1] = "consume" /\ P # C /\ P \in Thread /\ C \in Thread
  BY DEF P, C, Thread
<1>2. ASSUME NEW t \in Thread
      PROVE  /\ t[1] \in {"greet", "count", "produce", "consume", "read", "write"}
             /\ t[1] = "count" <=> t \in Counter
             /\ t[1] = "write" <=> t \in Writer
  BY <1>2 DEF Thread, Counter, Writer, P, C
<1>3. Counter \subseteq Thread /\ Writer \subseteq Thread
  BY DEF Thread, Counter, Writer
<1> QED BY <1>1, <1>2, <1>3

-----------------------------------------------------------------------------
(* Locks. *)

\* Who is between lock and unlock is inside; a writer or an incrementing
\* thread is alone there.
Locked ==
  /\ \A t \in Thread : tpc[t] \in {"load", "store", "unlock"} =>
       t \in inside /\ t[1] \in {"count", "read", "write"}
  /\ \A t \in Thread : t[1] = "read" => tpc[t] # "store"
  /\ \A t \in Thread : t[1] \notin {"produce", "consume"} =>
       tpc[t] \notin {"sleep", "wait", "woken"}
  /\ tpc[P] \in {"start", "sleep", "done"}
  /\ tpc[C] \in {"start", "wait", "woken", "done"}
  /\ \A t, u \in inside : t = u \/ (t[1] = "read" /\ u[1] = "read")

LockInv == Types /\ Locked /\ ReadStaysTrue /\ NothingTakenTwice

LEMMA InitLocks == ThreadsInit => LockInv
<1> SUFFICES ASSUME ThreadsInit PROVE LockInv
  OBVIOUS
<1>1. shared \in [{"counter", "shared_data"} -> Nat]
  BY DEF ThreadsInit
<1>2. Types
  <2>1. tpc \in [Thread -> {"start", "load", "store", "unlock", "sleep", "wait",
                           "woken", "done"}]
    BY DEF ThreadsInit
  <2>2. round \in [Thread -> Nat] /\ reg \in [Thread -> Nat]
    BY DEF ThreadsInit
  <2>3. exercise \in 1 .. 5 /\ inside \subseteq Thread /\ lost \in Nat
    BY DEF ThreadsInit
  <2>4. data_ready \in BOOLEAN
    BY Zenon DEF ThreadsInit
  <2> QED BY <1>1, <2>1, <2>2, <2>3, <2>4 DEF Types
<1>3. \A t \in Thread : tpc[t] = "start"
  BY DEF ThreadsInit
<1>4. Locked
  BY <1>3, Kinds DEF ThreadsInit, Locked
<1>5. ReadStaysTrue
  BY <1>3 DEF ReadStaysTrue
<1>6. NothingTakenTwice
  BY Kinds DEF ThreadsInit, NothingTakenTwice, Produced
<1> QED BY <1>2, <1>4, <1>5, <1>6 DEF LockInv

LEMMA StepLocks ==
  ASSUME LockInv, NEW t \in Thread, ThreadStep(t)
  PROVE  LockInv'
<1> USE Kinds DEF LockInv, Types, Locked, ThreadStep, Goes, Rounds
<1>1. CASE Greet(t)
  BY <1>1 DEF Greet, ReadStaysTrue, NothingTakenTwice, Produced
<1>2. CASE Lock(t)
  <2>1. /\ inside' = inside \cup {t} /\ tpc' = [tpc EXCEPT ![t] = "load"]
        /\ MayEnter(t) /\ t[1] \in {"count", "read", "write"}
        /\ UNCHANGED <<exercise, round, reg, shared, data_ready, lost>>
    BY <1>2 DEF Lock
  <2>2. Types'
    BY <2>1
  <2>3. Locked'
    BY <2>1 DEF MayEnter
  <2>4. ReadStaysTrue' /\ NothingTakenTwice'
    BY <2>1 DEF ReadStaysTrue, NothingTakenTwice, Produced
  <2> QED BY <2>2, <2>3, <2>4
<1>3. CASE Load(t)
  BY <1>3 DEF Load, Var, ReadStaysTrue, NothingTakenTwice, Produced
<1>4. CASE Store(t)
  BY <1>4 DEF Store, Var, ReadStaysTrue, NothingTakenTwice, Produced
<1>5. CASE Unlock(t)
  BY <1>5 DEF Unlock, ReadStaysTrue, NothingTakenTwice, Produced
<1>6. CASE t = P /\ Produce
  BY <1>6 DEF Produce, PairUnchanged, Woken, ReadStaysTrue, NothingTakenTwice, Produced
<1>7. CASE t = P /\ Slept
  BY <1>7 DEF Slept, PairUnchanged, ReadStaysTrue, NothingTakenTwice, Produced
<1>8. CASE t = C /\ Consume
  <2>1. UNCHANGED <<exercise, inside, reg, shared, lost>>
    BY <1>8 DEF Consume, PairUnchanged
  <2>2. CASE data_ready
    <3>1. /\ data_ready' = FALSE /\ round' = [round EXCEPT ![C] = @ + 1]
          /\ tpc' \in {[tpc EXCEPT ![C] = "done"], [tpc EXCEPT ![C] = "start"]}
      BY <1>8, <2>2 DEF Consume, Ready
    <3>2. Produced' = Produced
      BY <3>1 DEF Produced
    <3>3. NothingTakenTwice'
      BY <2>1, <2>2, <3>1, <3>2 DEF NothingTakenTwice, Produced
    <3>4. Types'
      <4>1. data_ready' \in BOOLEAN
        BY <3>1, Zenon
      <4>2. round' \in [Thread -> Nat]
        BY <3>1
      <4> QED BY <2>1, <3>1, <4>1, <4>2
    <3>5. Locked' /\ ReadStaysTrue'
      BY <2>1, <3>1 DEF ReadStaysTrue
    <3> QED BY <3>3, <3>4, <3>5
  <2>3. CASE ~data_ready
    BY <1>8, <2>1, <2>3 DEF Consume, Ready, ReadStaysTrue, NothingTakenTwice, Produced
  <2> QED BY <2>2, <2>3
<1> QED BY <1>1, <1>2, <1>3, <1>4, <1>5, <1>6, <1>7, <1>8

LEMMA NextLocks == LockInv /\ [ThreadsNext]_threadsVars => LockInv'
<1> SUFFICES ASSUME LockInv, [ThreadsNext]_threadsVars
             PROVE  LockInv'
  OBVIOUS
<1> USE Kinds DEF LockInv, Types, Locked, ReadStaysTrue, NothingTakenTwice, Produced
<1>1. CASE NextExercise
  BY <1>1 DEF NextExercise
<1>2. CASE SpuriousWakeup
  BY <1>2 DEF SpuriousWakeup, PairUnchanged, Goes
<1>3. CASE UNCHANGED threadsVars
  BY <1>3 DEF threadsVars
<1> QED BY <1>1, <1>2, <1>3, StepLocks DEF ThreadsNext

LEMMA LocksHold == ThreadsSpec => []LockInv
  BY InitLocks, NextLocks, PTL DEF ThreadsSpec

\* A reader's value is still that of shared_data when it unlocks: no writer
\* gets in, however many readers share the lock.
THEOREM ThreadsReads == ThreadsSpec => []ReadStaysTrue
  BY LocksHold, PTL DEF LockInv

\* The producer and the consumer never lose count of an item, with spurious
\* wakeups and items overwritten.
THEOREM ThreadsItems == ThreadsSpec => []NothingTakenTwice
  BY LocksHold, PTL DEF LockInv

-----------------------------------------------------------------------------
(* Increments.                                                              *)
(*                                                                          *)
(* The sum of what all threads have added is the number of pairs of a       *)
(* thread and one of its stores.                                            *)

Stores(t) == round[t] + (IF tpc[t] = "unlock" THEN 1 ELSE 0)
Added     == {w \in Counter \X (1 .. Loops) : w[2] <= Stores(w[1])}
Written   == {t \in Writer : tpc[t] \in {"unlock", "done"}}

CountInv ==
  /\ shared["counter"] = Cardinality(Added)
  /\ shared["shared_data"] = Cardinality(Written)
  /\ \A t \in Thread : tpc[t] = "store" => reg[t] = shared[Var(t)]

RoundInv ==
  /\ \A t \in Counter : IF tpc[t] = "done" THEN round[t] = Loops ELSE round[t] < Loops
  /\ \A t \in Writer : tpc[t] # "done" => round[t] = 0
  /\ \A t \in Thread : Exercise[t[1]] < exercise => tpc[t] = "done"

LEMMA Exercises ==
  ASSUME NEW t \in Thread
  PROVE  /\ Exercise[t[1]] \in 1 .. 4
         /\ t[1] = "count" => Exercise[t[1]] = 2
         /\ t[1] = "write" => Exercise[t[1]] = 4
         /\ t[1] \in {"produce", "consume"} => Exercise[t[1]] = 3
  BY Kinds DEF Exercise

LEMMA Finite == IsFiniteSet(Counter \X (1 .. Loops)) /\ IsFiniteSet(Writer)
                /\ Cardinality(Counter \X (1 .. Loops)) = Counters * Loops
                /\ Cardinality(Writer) = Writers
<1>1. ASSUME NEW n \in Nat \ {0}
      PROVE  IsFiniteSet(1 .. n) /\ Cardinality(1 .. n) = n
  <2>1. 1 \in Int /\ n \in Int /\ ~(1 > n) /\ n - 1 + 1 = n
    OBVIOUS
  <2> QED BY <2>1, FS_Interval
<1>2. ASSUME NEW x, NEW n \in Nat \ {0}
      PROVE  IsFiniteSet({x} \X (1 .. n)) /\ Cardinality({x} \X (1 .. n)) = n
  <2>1. IsFiniteSet({x}) /\ Cardinality({x}) = 1
    BY FS_Singleton
  <2>2. IsFiniteSet(1 .. n) /\ Cardinality(1 .. n) = n
    BY <1>1
  <2>3. /\ IsFiniteSet({x} \X (1 .. n))
        /\ Cardinality({x} \X (1 .. n)) = Cardinality({x}) * Cardinality(1 .. n)
    BY <2>1, <2>2, FS_Product
  <2>4. 1 * n = n
    OBVIOUS
  <2> QED BY <2>1, <2>2, <2>3, <2>4
<1>3. {Counters, Writers, Loops} \subseteq Nat \ {0}
  OBVIOUS
<1>4. IsFiniteSet(Counter) /\ Cardinality(Counter) = Counters
  BY <1>2, <1>3 DEF Counter
<1>5. IsFiniteSet(Writer) /\ Cardinality(Writer) = Writers
  BY <1>2, <1>3 DEF Writer
<1>6. IsFiniteSet(1 .. Loops) /\ Cardinality(1 .. Loops) = Loops
  BY <1>1, <1>3
<1>7. /\ IsFiniteSet(Counter \X (1 .. Loops))
      /\ Cardinality(Counter \X (1 .. Loops)) = Cardinality(Counter) * Cardinality(1 .. Loops)
  BY <1>4, <1>6, FS_Product
<1> QED BY <1>4, <1>5, <1>6, <1>7

LEMMA FiniteParts == IsFiniteSet(Added) /\ IsFiniteSet(Written)
<1>1. Added \in SUBSET (Counter \X (1 .. Loops)) /\ Written \in SUBSET Writer
  BY DEF Added, Written
<1> QED BY <1>1, Finite, FS_Subset

\* A step that stores nothing.
LEMMA NothingStored ==
  ASSUME CountInv, shared' = shared,
         \A t \in Counter : Stores(t)' = Stores(t),
         \A t \in Writer : tpc'[t] \in {"unlock", "done"} <=> tpc[t] \in {"unlock", "done"},
         \A t \in Thread : tpc'[t] = "store" => reg'[t] = shared[Var(t)]
  PROVE  CountInv'
<1>1. Added' = Added
  BY DEF Added
<1>2. Written' = Written
  BY DEF Written
<1> QED BY <1>1, <1>2 DEF CountInv, Var

LEMMA StoreCounts ==
  ASSUME LockInv, CountInv, RoundInv, NEW t \in Thread, Store(t)
  PROVE  CountInv'
<1> USE Kinds DEF LockInv, Types, Locked
<1>1. t \in inside /\ t[1] \in {"count", "write"} /\ tpc[t] = "store"
  BY DEF Store
<1>2. /\ reg[t] = shared[Var(t)]
      /\ shared' = [shared EXCEPT ![Var(t)] = shared[Var(t)] + 1]
      /\ tpc' = [tpc EXCEPT ![t] = "unlock"]
      /\ UNCHANGED <<round, reg>>
  BY <1>1 DEF Store, Goes, CountInv
<1>3. \A u \in Thread : tpc'[u] # "store"
  BY <1>1, <1>2
<1>4. \A u \in Thread \ {t} : tpc'[u] = tpc[u] /\ Stores(u)' = Stores(u)
  BY <1>2 DEF Stores
<1>5. CASE t \in Counter
  <2>1. Var(t) = "counter" /\ t \notin Writer
    BY <1>5 DEF Var
  <2>2. Written' = Written
    BY <1>4, <2>1 DEF Written
  <2>3. round[t] \in Nat /\ Stores(t) = round[t] /\ Stores(t)' = round[t] + 1
        /\ round[t] + 1 \in 1 .. Loops
    BY <1>1, <1>2, <1>5 DEF Stores, RoundInv
  <2>4. Added' = Added \cup {<<t, round[t] + 1>>}
    <3>1. ASSUME NEW w \in Counter \X (1 .. Loops)
          PROVE  w \in Added' <=> w \in Added \/ w = <<t, round[t] + 1>>
      <4>1. CASE w[1] # t
        <5>1. Stores(w[1])' = Stores(w[1])
          BY <1>4, <4>1
        <5> QED BY <4>1, <5>1 DEF Added
      <4>2. CASE w[1] = t
        BY <2>3, <4>2 DEF Added
      <4> QED BY <4>1, <4>2
    <3> QED BY <1>5, <2>3, <3>1 DEF Added
  <2>5. <<t, round[t] + 1>> \notin Added
    BY <2>3 DEF Added
  <2>6. Cardinality(Added') = Cardinality(Added) + 1
    BY <2>4, <2>5, FiniteParts, FS_AddElement
  <2> QED BY <1>2, <1>3, <2>1, <2>2, <2>6 DEF CountInv
<1>6. CASE t \in Writer
  <2>1. Var(t) = "shared_data" /\ t \notin Counter
    BY <1>6 DEF Var
  <2>2. Added' = Added
    BY <1>4, <2>1 DEF Added
  <2>3. Written' = Written \cup {t} /\ t \notin Written
    BY <1>1, <1>2, <1>6 DEF Written
  <2>4. Cardinality(Written') = Cardinality(Written) + 1
    BY <2>3, FiniteParts, FS_AddElement
  <2> QED BY <1>2, <1>3, <2>1, <2>2, <2>4 DEF CountInv
<1> QED BY <1>1, <1>5, <1>6

LEMMA StepRounds ==
  ASSUME LockInv, RoundInv, NEW t \in Thread, ThreadStep(t)
  PROVE  RoundInv'
<1> USE Kinds DEF LockInv, Types, Locked, Goes, Rounds
<1>1. UNCHANGED exercise /\ Exercise[t[1]] = exercise
  BY DEF ThreadStep, Crew, Greet, Lock, Load, Store, Unlock, Produce, Slept, Consume,
         PairUnchanged
<1>2. (\A u \in Thread : Exercise[u[1]] < exercise => tpc[u] = "done")'
  <2>1. ASSUME NEW u \in Thread, Exercise[u[1]] < exercise
        PROVE  tpc'[u] = "done"
    <3>1. u # t /\ tpc[u] = "done"
      BY <1>1, <2>1, Exercises DEF RoundInv
    <3> QED BY <3>1 DEF ThreadStep, Greet, Lock, Load, Store, Unlock, Produce, Woken,
                        Slept, Consume
  <2> QED BY <1>1, <2>1
<1>3. CASE t[1] \in {"greet", "produce", "consume"}
  <2>1. \A u \in Counter \cup Writer : tpc'[u] = tpc[u] /\ round'[u] = round[u]
    BY <1>3 DEF ThreadStep, Greet, Lock, Load, Store, Unlock, Produce, Slept, Consume
  <2> QED BY <1>2, <2>1 DEF RoundInv
<1>4. CASE t[1] \in {"count", "read", "write"}
  <2>1. \A u \in Thread : u # t => tpc'[u] = tpc[u] /\ round'[u] = round[u]
    BY <1>4 DEF ThreadStep, Greet, Lock, Load, Store, Unlock
  <2>2. \/ tpc'[t] \notin {"done", "start"} /\ round'[t] = round[t]
        \/ /\ round'[t] = round[t] + 1
           /\ tpc'[t] = IF round[t] + 1 = (IF t[1] = "count" THEN Loops ELSE 1)
                        THEN "done" ELSE "start"
    BY <1>4 DEF ThreadStep, Greet, Lock, Load, Store, Unlock
  <2>3. tpc[t] # "done" /\ round[t] \in Nat /\ Loops \in Nat
    BY DEF ThreadStep
  <2>4. ASSUME NEW u \in Counter
        PROVE  IF tpc'[u] = "done" THEN round'[u] = Loops ELSE round'[u] < Loops
    <3>1. CASE u # t
      BY <2>1, <3>1 DEF RoundInv
    <3>2. CASE u = t
      BY <2>2, <2>3, <3>2 DEF RoundInv
    <3> QED BY <3>1, <3>2
  <2>5. ASSUME NEW u \in Writer, tpc'[u] # "done"
        PROVE  round'[u] = 0
    <3>1. CASE u # t
      BY <2>1, <2>5, <3>1 DEF RoundInv
    <3>2. CASE u = t
      BY <2>2, <2>3, <2>5, <3>2 DEF RoundInv
    <3> QED BY <3>1, <3>2
  <2> QED BY <1>2, <2>4, <2>5 DEF RoundInv
<1> QED BY <1>3, <1>4

LEMMA StepCounts ==
  ASSUME LockInv, CountInv, RoundInv, NEW t \in Thread, ThreadStep(t)
  PROVE  CountInv'
<1> USE Kinds DEF LockInv, Types, Locked, Goes, Rounds
<1>1. CASE Store(t)
  BY <1>1, StoreCounts
<1>2. CASE Greet(t) \/ (t = P /\ (Produce \/ Slept)) \/ (t = C /\ Consume)
  <2>1. UNCHANGED <<shared, reg>>
        /\ \A u \in Counter \cup Writer : tpc'[u] = tpc[u] /\ round'[u] = round[u]
    BY <1>2 DEF Greet, Produce, Slept, Consume, PairUnchanged
  <2>2. \A u \in Thread : tpc'[u] = "store" => tpc[u] = "store"
    BY <1>2 DEF Greet, Produce, Woken, Slept, Consume
  <2>3. \A u \in Counter : Stores(u)' = Stores(u)
    BY <2>1 DEF Stores
  <2> QED BY <2>1, <2>2, <2>3, NothingStored DEF CountInv
<1>3. CASE Lock(t)
  <2>1. tpc[t] = "start" /\ tpc' = [tpc EXCEPT ![t] = "load"]
        /\ UNCHANGED <<shared, reg, round>>
    BY <1>3 DEF Lock
  <2>2. \A u \in Counter : Stores(u)' = Stores(u)
    BY <2>1 DEF Stores
  <2> QED BY <2>1, <2>2, NothingStored DEF CountInv
<1>4. CASE Load(t)
  <2>1. /\ tpc[t] = "load"
        /\ tpc' = [tpc EXCEPT ![t] = IF t[1] = "read" THEN "unlock" ELSE "store"]
        /\ reg' = [reg EXCEPT ![t] = shared[Var(t)]]
        /\ UNCHANGED <<shared, round>>
    BY <1>4 DEF Load
  <2>2. \A u \in Counter : Stores(u)' = Stores(u)
    BY <2>1 DEF Stores
  <2> QED BY <2>1, <2>2, NothingStored DEF CountInv
<1>5. CASE Unlock(t)
  <2>1. /\ tpc[t] = "unlock" /\ UNCHANGED <<shared, reg>>
        /\ round' = [round EXCEPT ![t] = @ + 1]
        /\ \A u \in Thread : u # t => tpc'[u] = tpc[u]
        /\ tpc'[t] = IF round[t] + 1 = (IF t[1] = "count" THEN Loops ELSE 1)
                     THEN "done" ELSE "start"
    BY <1>5 DEF Unlock
  <2>2. \A u \in Counter : Stores(u)' = Stores(u)
    BY <2>1 DEF Stores
  <2>3. t \in Writer => tpc'[t] = "done"
    BY <2>1 DEF RoundInv
  <2> QED BY <2>1, <2>2, <2>3, NothingStored DEF CountInv
<1> QED BY <1>1, <1>2, <1>3, <1>4, <1>5 DEF ThreadStep

LEMMA NextCounts ==
  LockInv /\ CountInv /\ RoundInv /\ [ThreadsNext]_threadsVars => CountInv' /\ RoundInv'
<1> SUFFICES ASSUME LockInv, CountInv, RoundInv, [ThreadsNext]_threadsVars
             PROVE  CountInv' /\ RoundInv'
  OBVIOUS
<1>1. CASE NextExercise
  <2>1. UNCHANGED <<tpc, round, reg, shared>> /\ exercise' = exercise + 1
        /\ \A t \in Thread : Exercise[t[1]] = exercise => tpc[t] = "done"
    BY <1>1 DEF NextExercise, JoinAll, Crew
  <2>2. CountInv'
    BY <2>1, NothingStored DEF CountInv, Stores
  <2>3. \A t \in Thread : Exercise[t[1]] < exercise' => tpc[t] = "done"
    BY <2>1, Exercises DEF RoundInv, LockInv, Types
  <2> QED BY <2>1, <2>2, <2>3 DEF RoundInv
<1>2. CASE SpuriousWakeup
  <2>1. UNCHANGED <<exercise, reg, shared, round>> /\ tpc[C] = "wait"
        /\ tpc' = [tpc EXCEPT ![C] = "woken"]
    BY <1>2 DEF SpuriousWakeup, PairUnchanged, Goes
  <2>2. \A u \in Counter \cup Writer : tpc'[u] = tpc[u]
    BY <2>1, Kinds DEF LockInv, Types
  <2>3. CountInv'
    BY <2>1, <2>2, NothingStored, Kinds DEF CountInv, Stores, LockInv, Types
  <2>4. RoundInv'
    BY <2>1, <2>2, Kinds DEF RoundInv, LockInv, Types
  <2> QED BY <2>3, <2>4
<1>3. CASE UNCHANGED threadsVars
  <2>1. UNCHANGED <<tpc, round, reg, shared, exercise>>
    BY <1>3 DEF threadsVars
  <2> QED BY <2>1, NothingStored DEF CountInv, RoundInv, Stores
<1> QED BY <1>1, <1>2, <1>3, StepCounts, StepRounds DEF ThreadsNext

LEMMA InitCounts == ThreadsInit => CountInv /\ RoundInv
<1> SUFFICES ASSUME ThreadsInit PROVE CountInv /\ RoundInv
  OBVIOUS
<1>1. \A t \in Thread : tpc[t] = "start" /\ round[t] = 0
  BY DEF ThreadsInit
<1>2. Added = {} /\ Written = {}
  BY <1>1, Kinds DEF Added, Written, Stores
<1>3. shared["counter"] = 0 /\ shared["shared_data"] = 0
  BY DEF ThreadsInit
<1>4. CountInv
  BY <1>1, <1>2, <1>3, FS_EmptySet DEF CountInv
<1>5. exercise = 1
  BY DEF ThreadsInit
<1> QED BY <1>1, <1>4, <1>5, Kinds, Exercises DEF RoundInv

LEMMA AllCounted ==
  ASSUME LockInv, CountInv, RoundInv
  PROVE  EveryIncrementCounts
<1>1. ASSUME exercise > 2
      PROVE  shared["counter"] = Counters * Loops
  <2>1. \A t \in Counter : tpc[t] = "done" /\ Stores(t) = Loops
    BY <1>1, Kinds, Exercises DEF RoundInv, Stores, LockInv, Types
  <2>2. Added = Counter \X (1 .. Loops)
    BY <2>1 DEF Added
  <2> QED BY <2>2, Finite DEF CountInv
<1>2. ASSUME exercise > 4
      PROVE  shared["shared_data"] = Writers
  <2>1. \A t \in Writer : tpc[t] = "done"
    BY <1>2, Kinds, Exercises DEF RoundInv, LockInv, Types
  <2>2. Written = Writer
    BY <2>1 DEF Written
  <2> QED BY <2>2, Finite DEF CountInv
<1> QED BY <1>1, <1>2 DEF EveryIncrementCounts

\* counter++ and shared_data++ lose no increment, of any number of threads and
\* rounds: the counter that is printed after the joins is the product.
THEOREM ThreadsCount == ThreadsSpec => []EveryIncrementCounts
<1>1. ThreadsInit => CountInv /\ RoundInv
  BY InitCounts
<1>2. LockInv /\ CountInv /\ RoundInv /\ [ThreadsNext]_threadsVars => CountInv' /\ RoundInv'
  BY NextCounts
<1>3. LockInv /\ CountInv /\ RoundInv => EveryIncrementCounts
  BY AllCounted
<1> QED BY <1>1, <1>2, <1>3, LocksHold, PTL DEF ThreadsSpec
-----------------------------------------------------------------------------
(* Nobody waits in vain.                                                    *)
(*                                                                          *)
(* A thread may wait for a lock or for the condition variable.  Who holds a *)
(* lock has only to run to give it up.  The consumer waits only while no    *)
(* item is ready: the flag is tested and the wait begun under one mutex, so *)
(* no signal falls in between.                                              *)

\* t has not ended, and is not kept from running.
ThreadGoesOn(t) ==
  /\ t \in Crew(exercise)
  /\ tpc[t] \notin {"done", "wait"}
  /\ t[1] \in {"count", "read", "write"} /\ tpc[t] = "start" => MayEnter(t)

OnlyLossStops ==
  \/ exercise = 5 \/ JoinAll
  \/ \E t \in Thread : ThreadGoesOn(t)
  \/ lost > 0

GoInv ==
  /\ \A t \in inside : /\ tpc[t] \in {"load", "store", "unlock"}
                       /\ Exercise[t[1]] = exercise
  /\ tpc[C] = "wait" => ~data_ready
  /\ tpc[P] = "done" => round[P] = Items
  /\ tpc[C] # "done" => round[C] < Items

LEMMA GoInit == ThreadsInit => GoInv
  BY Kinds DEF ThreadsInit, GoInv

\* The producer and the consumer.
LEMMA GoPair ==
  ASSUME LockInv, GoInv, Produce \/ Slept \/ Consume \/ SpuriousWakeup
  PROVE  GoInv'
<1> USE Kinds DEF LockInv, Types, Locked, Goes, Rounds, PairUnchanged
<1>1. UNCHANGED <<exercise, inside>>
  BY DEF Produce, Slept, Consume, SpuriousWakeup
<1>2. \A t \in inside : t # P /\ t # C
  BY DEF GoInv
<1>3. \A t \in inside : tpc'[t] = tpc[t]
  BY <1>2 DEF Produce, Slept, Consume, SpuriousWakeup
<1>4. (\A t \in inside : /\ tpc[t] \in {"load", "store", "unlock"}
                         /\ Exercise[t[1]] = exercise)'
  BY <1>1, <1>3 DEF GoInv
<1>5. round[C] \in Nat /\ Items \in Nat
  OBVIOUS
<1>6. CASE Produce
  BY <1>4, <1>6 DEF Produce, Woken, GoInv
<1>7. CASE Slept
  BY <1>4, <1>7 DEF Slept, GoInv
<1>8. CASE Consume
  <2>1. CASE data_ready
    BY <1>4, <1>5, <1>8, <2>1 DEF Consume, Ready, GoInv
  <2>2. CASE ~data_ready
    BY <1>4, <1>8, <2>2 DEF Consume, Ready, GoInv
  <2> QED BY <2>1, <2>2
<1>9. CASE SpuriousWakeup
  BY <1>4, <1>9 DEF SpuriousWakeup, GoInv
<1> QED BY <1>6, <1>7, <1>8, <1>9

\* The threads of the other exercises.
LEMMA GoLocks ==
  ASSUME LockInv, GoInv, NEW t \in Crew(exercise),
         Greet(t) \/ Lock(t) \/ Load(t) \/ Store(t) \/ Unlock(t)
  PROVE  GoInv'
<1> USE Kinds DEF LockInv, Types, Locked, Goes, Rounds, Crew
<1>1. t \in Thread /\ Exercise[t[1]] = exercise /\ UNCHANGED <<exercise, data_ready>>
  BY DEF Greet, Lock, Load, Store, Unlock
<1>2. \A u \in Thread \ {t} : tpc'[u] = tpc[u] /\ round'[u] = round[u]
  BY <1>1 DEF Greet, Lock, Load, Store, Unlock
<1>3. t # P /\ t # C
  BY <1>1 DEF Greet, Lock, Load, Store, Unlock
<1>4. \/ inside' \subseteq inside \cup {t} /\ tpc'[t] \in {"load", "store", "unlock"}
      \/ inside' = inside \ {t}
      \/ inside' = inside /\ t \notin inside
  BY <1>1 DEF Greet, Lock, Load, Store, Unlock, GoInv
<1>5. (\A u \in inside : /\ tpc[u] \in {"load", "store", "unlock"}
                         /\ Exercise[u[1]] = exercise)'
  BY <1>1, <1>2, <1>4 DEF GoInv
<1> QED BY <1>1, <1>2, <1>3, <1>5 DEF GoInv

LEMMA GoNext == LockInv /\ GoInv /\ [ThreadsNext]_threadsVars => GoInv'
<1> SUFFICES ASSUME LockInv, GoInv, [ThreadsNext]_threadsVars PROVE GoInv'
  OBVIOUS
<1>1. CASE NextExercise
  <2>1. inside = {}
    <3>1. SUFFICES ASSUME NEW t \in inside PROVE FALSE
      OBVIOUS
    <3>2. t \in Crew(exercise) /\ tpc[t] # "done"
      BY <3>1 DEF GoInv, Crew, LockInv, Types
    <3> QED BY <1>1, <3>2 DEF NextExercise, JoinAll
  <2> QED BY <1>1, <2>1 DEF NextExercise, GoInv
<1>2. CASE \E t \in Thread : ThreadStep(t)
  BY <1>2, GoPair, GoLocks DEF ThreadStep
<1>3. CASE SpuriousWakeup
  BY <1>3, GoPair
<1>4. CASE UNCHANGED threadsVars
  BY <1>4 DEF threadsVars, GoInv
<1> QED BY <1>1, <1>2, <1>3, <1>4 DEF ThreadsNext

\* A lock that is taken is held by a thread that goes on.
LEMMA HolderGoesOn ==
  ASSUME LockInv, GoInv, NEW t \in inside PROVE ThreadGoesOn(t)
<1>1. t \in Thread /\ t \in Crew(exercise)
  BY DEF LockInv, Types, GoInv, Crew
<1> QED BY <1>1 DEF GoInv, ThreadGoesOn

LEMMA WhoStops ==
  ASSUME LockInv, GoInv, RoundInv PROVE OnlyLossStops
<1> USE Kinds
<1>1. SUFFICES ASSUME ~JoinAll, \A t \in Thread : ~ThreadGoesOn(t) PROVE lost > 0
  BY DEF OnlyLossStops
<1>2. PICK t \in Crew(exercise) : tpc[t] # "done"
  BY <1>1 DEF JoinAll
<1>3. t \in Thread /\ Exercise[t[1]] = exercise
  BY DEF Crew
<1>4. inside = {}
  BY <1>1, HolderGoesOn DEF LockInv, Types
<1>5. MayEnter(t)
  BY <1>4 DEF MayEnter
<1>6. tpc[t] = "wait"
  BY <1>1, <1>2, <1>3, <1>5 DEF ThreadGoesOn
<1>7. t = C
  <2>1. t[1] \in {"produce", "consume"}
    BY <1>3, <1>6 DEF LockInv, Locked
  <2>2. t \in {P, C}
    BY <1>3, <2>1 DEF Thread, P, C
  <2> QED BY <1>6, <2>2 DEF LockInv, Locked
<1>8. tpc[P] = "done"
  <2>1. P \in Crew(exercise)
    BY <1>3, <1>7 DEF Crew, Exercise
  <2> QED BY <1>1, <2>1 DEF ThreadGoesOn, LockInv, Locked
<1>9. ~data_ready /\ round[P] = Items /\ round[C] < Items
  BY <1>6, <1>7, <1>8 DEF GoInv
<1>10. Produced = Items
  BY <1>8, <1>9 DEF Produced
<1>11. Items = round[C] + lost
  BY <1>9, <1>10 DEF LockInv, Types, NothingTakenTwice
<1> QED BY <1>9, <1>11 DEF LockInv, Types

\* baitap4: some thread can go on, or main past its joins, in every state in
\* which no item has been overwritten, whatever the numbers of threads, rounds
\* and items: no wakeup is lost and no lock is waited for in vain.
THEOREM ThreadsGoOn == ThreadsSpec => []OnlyLossStops
<1>1. ThreadsInit => GoInv /\ CountInv /\ RoundInv
  BY GoInit, InitCounts
<1>2. LockInv /\ GoInv /\ CountInv /\ RoundInv /\ [ThreadsNext]_threadsVars
        => GoInv' /\ CountInv' /\ RoundInv'
  BY GoNext, NextCounts
<1>3. LockInv /\ GoInv /\ RoundInv => OnlyLossStops
  BY WhoStops
<1> QED BY <1>1, <1>2, <1>3, LocksHold, PTL DEF ThreadsSpec
=============================================================================
