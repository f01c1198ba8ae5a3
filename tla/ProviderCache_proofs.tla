------------------------ MODULE ProviderCache_proofs ------------------------
(***************************************************************************)
(* Theorems about ProviderCache for any workers, threads, keys, texts,     *)
(* cache size, time to live and behaviour of Redis.                        *)
(***************************************************************************)
EXTENDS ProviderCache, FiniteSetTheorems, WellFoundedInduction, TLAPS

\* < on the natural numbers, as a set of pairs, is well-founded.
LEMMA NatLess == IsWellFoundedOn({p \in Nat \X Nat : p[1] < p[2]}, Nat)
BY NatLessThanWellFounded DEF OpToRel

\* A set of natural numbers has a least element.
LEMMA LeastNatural ==
  ASSUME NEW T \in SUBSET Nat, T # {}
  PROVE  \E m \in T : \A n \in T : m <= n
<1> DEFINE R == {p \in Nat \X Nat : p[1] < p[2]}
<1>1. PICK m \in T : \A n \in T : <<n, m>> \notin R
  BY NatLess, WFMin
<1> SUFFICES ASSUME NEW n \in T PROVE m <= n
  OBVIOUS
<1>2. <<n, m>> \notin R
  BY <1>1
<1>3. m \in Nat /\ n \in Nat
  OBVIOUS
<1>4. ~(n < m)
  BY <1>2, <1>3
<1> QED
  BY <1>3, <1>4

\* A finite set has an element that b, transitive and irreflexive, puts none
\* before.
LEMMA MinimalElement ==
  ASSUME NEW S, IsFiniteSet(S), S # {}, NEW b,
         \A j \in S : <<j, j>> \notin b,
         \A i, j, k \in S : <<i, j>> \in b /\ <<j, k>> \in b => <<i, k>> \in b
  PROVE  \E k \in S : \A j \in S : <<j, k>> \notin b
<1> DEFINE pred(k) == {j \in S : <<j, k>> \in b}
           T == {Cardinality(pred(k)) : k \in S}
<1>1. ASSUME NEW k \in S
      PROVE  IsFiniteSet(pred(k)) /\ Cardinality(pred(k)) \in Nat
  BY FS_Subset, FS_CardinalityType
<1>2. PICK m \in T : \A n \in T : m <= n
  <2>1. T \in SUBSET Nat
    <3> SUFFICES ASSUME NEW n \in T PROVE n \in Nat
      OBVIOUS
    <3> PICK k \in S : n = Cardinality(pred(k))
      OBVIOUS
    <3> QED
      BY <1>1
  <2>2. T # {}
    <3> PICK k \in S : TRUE
      OBVIOUS
    <3>1. Cardinality(pred(k)) \in T
      OBVIOUS
    <3> QED
      BY <3>1
  <2> HIDE DEF T
  <2> QED
    BY <2>1, <2>2, LeastNatural
<1>3. PICK k \in S : m = Cardinality(pred(k))
  OBVIOUS
<1>4. ASSUME NEW j \in S, <<j, k>> \in b PROVE FALSE
  <2>1. pred(j) \subseteq pred(k) /\ j \in pred(k) /\ j \notin pred(j)
    BY <1>4
  <2> HIDE DEF pred
  <2>2. Cardinality(pred(j)) <= Cardinality(pred(k))
        /\ (Cardinality(pred(j)) = Cardinality(pred(k)) => pred(j) = pred(k))
    BY <1>1, <2>1, FS_Subset
  <2>3. Cardinality(pred(j)) < Cardinality(pred(k))
    BY <1>1, <2>1, <2>2
  <2>4. Cardinality(pred(k)) <= Cardinality(pred(j))
    BY <1>2, <1>3
  <2> QED
    BY <1>1, <2>3, <2>4
<1> QED
  BY <1>4

-----------------------------------------------------------------------------
(* The operators on one local cache.                                        *)

LEMMA AbsentType == Absent \in Slot
BY CacheAssumption DEF Absent, Slot

LEMMA EntryType ==
  ASSUME TypeOK, NEW x \in Texts
  PROVE  /\ Entry(x) \in Slot
         /\ Entry(x).text = x
         /\ Entry(x).until = clock + Ttl
         /\ Entry(x).gen = writes + 1
         /\ Entry(x).gen > 0
         /\ Entry(x).until > clock
BY CacheAssumption DEF Entry, Slot, TypeOK

LEMMA PruneType ==
  ASSUME NEW d \in [Keys -> Slot]
  PROVE  Prune(d) \in [Keys -> Slot]
BY AbsentType DEF Prune

LEMMA EvictType ==
  ASSUME NEW b, NEW d \in [Keys -> Slot]
  PROVE  Evict(b, d) \in [Keys -> Slot]
BY AbsentType DEF Evict

LEMMA WithinType ==
  ASSUME NEW b \in SUBSET (Keys \X Keys), NEW d
  PROVE  Within(b, d) \in SUBSET (Keys \X Keys)
BY DEF Within

LEMMA MoveToEndType ==
  ASSUME NEW b \in SUBSET (Keys \X Keys), NEW d, NEW k \in Keys
  PROVE  MoveToEnd(b, d, k) \in SUBSET (Keys \X Keys)
BY DEF MoveToEnd, Held

LEMMA IdleType == Idle \in CallRecord
BY CacheAssumption DEF Idle, CallRecord

LEMMA WaitType ==
  ASSUME TypeOK, NEW t \in Threads,
         NEW op \in {"get", "set", "delete", "clear", "inspect"},
         NEW k \in Keys \cup {NoKey}, NEW x \in Texts, NEW mark \in Nat,
         NEW reached \in BOOLEAN, Wait(t, op, k, x, mark, reached),
         op \in {"get", "set", "delete"} => k # NoKey
  PROVE  call' \in [Threads -> CallRecord]
<1>1. [op |-> op, key |-> k, text |-> x, scanned |-> {}, mark |-> mark,
       reached |-> reached] \in CallRecord
  BY DEF CallRecord
<1> QED
  BY <1>1 DEF Wait, TypeOK

LEMMA ReturnType ==
  ASSUME TypeOK, NEW t \in Threads, Return(t)
  PROVE  call' \in [Threads -> CallRecord]
BY IdleType DEF Return, TypeOK

LEMMA RedisWithoutType ==
  ASSUME TypeOK, NEW S
  PROVE  RedisWithout(S) \in [Keys -> Slot]
BY AbsentType DEF RedisWithout, TypeOK

LEMMA LocalRemoveType ==
  ASSUME TypeOK, NEW t \in Threads, NEW S, LocalRemove(t, S)
  PROVE  TypeOK'
<1> DEFINE w == Home[t]
           d == [k \in Keys |-> IF k \in S THEN Absent ELSE local[w][k]]
<1>1. w \in Workers
  BY CacheAssumption
<1>2. local' \in [Workers -> [Keys -> Slot]]
  BY <1>1, AbsentType DEF LocalRemove, TypeOK
<1>3. before' \in [Workers -> SUBSET (Keys \X Keys)]
  <2>1. Within(before[w], d) \in SUBSET (Keys \X Keys)
    BY <1>1, WithinType DEF TypeOK
  <2> QED
    BY <1>1, <2>1 DEF LocalRemove, TypeOK
<1>4. floor' \in [Workers -> [Keys -> Nat]]
  <2>1. call[t].mark \in Nat
    BY DEF TypeOK, CallRecord
  <2> QED
    BY <1>1, <2>1 DEF LocalRemove, TypeOK
<1>5. call' \in [Threads -> CallRecord]
  BY ReturnType DEF LocalRemove
<1> QED
  BY <1>2, <1>3, <1>4, <1>5 DEF LocalRemove, TypeOK

-----------------------------------------------------------------------------
(* Type correctness.                                                        *)

\* Every step of the caches keeps the types: one step per action of Next.
LEMMA TypeStep == TypeOK /\ [Next]_vars => TypeOK'
<1> SUFFICES ASSUME TypeOK, [Next]_vars PROVE TypeOK'
  OBVIOUS
<1> USE CacheAssumption
<1>1. ASSUME NEW t \in Threads, EnterLocal(t) PROVE TypeOK'
  <2>1. call' \in [Threads -> CallRecord]
    <3>1. writes \in Nat
      BY DEF TypeOK
    <3>2. CASE \E k \in Keys : \/ Wait(t, "get", k, Empty, 0, FALSE)
                              \/ \E x \in Texts :
                                   Wait(t, "set", k, x, 0, FALSE)
                              \/ Wait(t, "delete", k, Empty, writes, TRUE)
      <4> PICK k \in Keys : \/ Wait(t, "get", k, Empty, 0, FALSE)
                            \/ \E x \in Texts :
                                 Wait(t, "set", k, x, 0, FALSE)
                            \/ Wait(t, "delete", k, Empty, writes, TRUE)
        BY <3>2
      <4>1. CASE Wait(t, "get", k, Empty, 0, FALSE)
        BY <4>1, WaitType
      <4>2. CASE \E x \in Texts : Wait(t, "set", k, x, 0, FALSE)
        BY <4>2, WaitType
      <4>3. CASE Wait(t, "delete", k, Empty, writes, TRUE)
        BY <3>1, <4>3, WaitType
      <4> QED
        BY <4>1, <4>2, <4>3
    <3>3. CASE Wait(t, "clear", NoKey, Empty, writes, TRUE)
      BY <3>1, <3>3, WaitType
    <3>4. CASE Wait(t, "inspect", NoKey, Empty, 0, FALSE)
      BY <3>4, WaitType
    <3> QED
      BY <1>1, <3>2, <3>3, <3>4 DEF EnterLocal
  <2> QED
    BY <1>1, <2>1 DEF EnterLocal, TypeOK
<1>2. ASSUME NEW t \in Threads, PrimaryGet(t) PROVE TypeOK'
  <2> PICK k \in Keys, o \in Outcomes :
         IF o = "ok" /\ k \in Held(redis) /\ redis[k].text # Empty
         THEN answer' = Hit(k, redis[k]) /\ UNCHANGED call
         ELSE Wait(t, "get", k, Empty, 0, FALSE) /\ UNCHANGED answer
    BY <1>2 DEF PrimaryGet
  <2>1. call' \in [Threads -> CallRecord]
    BY WaitType DEF TypeOK
  <2>2. answer' \in [key : Keys, hit : BOOLEAN, slot : Slot]
    <3>1. redis[k] \in Slot
      BY DEF TypeOK
    <3>2. Hit(k, redis[k]) \in [key : Keys, hit : BOOLEAN, slot : Slot]
      BY <3>1 DEF Hit
    <3> QED
      BY <3>2 DEF TypeOK
  <2> QED
    BY <1>2, <2>1, <2>2 DEF PrimaryGet, TypeOK
<1>3. ASSUME NEW t \in Threads, PrimarySet(t) PROVE TypeOK'
  <2> PICK k \in Keys, x \in Texts, o \in Outcomes :
       /\ IF o = "ok" THEN UNCHANGED call
          ELSE Wait(t, "set", k, x, 0, FALSE)
       /\ IF o = "failed"
          THEN UNCHANGED <<writes, redis, newest>>
          ELSE /\ writes < MaxWrites
               /\ redis' = [redis EXCEPT ![k] = Entry(x)]
               /\ writes' = writes + 1
               /\ newest' = [newest EXCEPT ![k] = writes + 1]
    BY <1>3 DEF PrimarySet
  <2>1. call' \in [Threads -> CallRecord]
    BY WaitType DEF TypeOK
  <2>2. /\ redis' \in [Keys -> Slot]
        /\ writes' \in Nat
        /\ newest' \in [Keys -> Nat]
    <3>1. Entry(x) \in Slot
      BY EntryType
    <3>2. CASE o = "failed"
      BY <3>2 DEF TypeOK
    <3>3. CASE o # "failed"
      <4>1. /\ redis' = [redis EXCEPT ![k] = Entry(x)]
            /\ writes' = writes + 1
            /\ newest' = [newest EXCEPT ![k] = writes + 1]
        BY <3>3
      <4>2. redis' \in [Keys -> Slot]
        BY <3>1, <4>1 DEF TypeOK
      <4> QED
        BY <4>1, <4>2 DEF TypeOK
    <3> QED
      BY <3>2, <3>3
  <2> QED
    BY <1>3, <2>1, <2>2 DEF PrimarySet, TypeOK
<1>4. ASSUME NEW t \in Threads, PrimaryDelete(t) PROVE TypeOK'
  <2> PICK k \in Keys, o \in Outcomes :
       /\ redis' = IF o = "failed" THEN redis ELSE RedisWithout({k})
       /\ Wait(t, "delete", k, Empty, writes, o # "failed")
    BY <1>4 DEF PrimaryDelete
  <2>1. call' \in [Threads -> CallRecord]
    BY WaitType DEF TypeOK
  <2>2. redis' \in [Keys -> Slot]
    BY RedisWithoutType DEF TypeOK
  <2> QED
    BY <1>4, <2>1, <2>2 DEF PrimaryDelete, TypeOK
<1>5. ASSUME NEW t \in Threads, PrimaryScan(t) PROVE TypeOK'
  <2>1. [op |-> "sweep", key |-> NoKey, text |-> Empty,
         scanned |-> Held(redis), mark |-> writes, reached |-> FALSE]
        \in CallRecord
    BY DEF CallRecord, Held, TypeOK
  <2>2. call' \in [Threads -> CallRecord]
    <3> PICK o \in Outcomes :
       IF o = "ok" /\ Held(redis) # {}
       THEN call' = [call EXCEPT ![t] =
                       [op |-> "sweep", key |-> NoKey, text |-> Empty,
                        scanned |-> Held(redis), mark |-> writes,
                        reached |-> FALSE]]
       ELSE Wait(t, "clear", NoKey, Empty, writes, o = "ok")
      BY <1>5 DEF PrimaryScan
    <3> QED
      BY <2>1, WaitType DEF TypeOK
  <2> QED
    BY <1>5, <2>2 DEF PrimaryScan, TypeOK
<1>6. ASSUME NEW t \in Threads, PrimarySweep(t) PROVE TypeOK'
  <2> PICK o \in Outcomes :
       /\ redis' = IF o = "failed" THEN redis
                   ELSE RedisWithout(call[t].scanned)
       /\ Wait(t, "clear", NoKey, Empty, call[t].mark, o # "failed")
    BY <1>6 DEF PrimarySweep
  <2>1. call[t].mark \in Nat
    BY DEF TypeOK, CallRecord
  <2>2. call' \in [Threads -> CallRecord]
    BY <2>1, WaitType
  <2>3. redis' \in [Keys -> Slot]
    BY RedisWithoutType DEF TypeOK
  <2> QED
    BY <1>6, <2>2, <2>3 DEF PrimarySweep, TypeOK
<1>7. ASSUME NEW t \in Threads, PrimaryInspect(t) PROVE TypeOK'
  <2>1. call' \in [Threads -> CallRecord]
    BY <1>7, WaitType DEF PrimaryInspect
  <2> QED
    BY <1>7, <2>1 DEF PrimaryInspect, TypeOK
<1>8. ASSUME NEW t \in Threads, LocalGet(t) PROVE TypeOK'
  <2> DEFINE w == Home[t]
             k == call[t].key
             d == Prune(local[w])
  <2>1. w \in Workers /\ k \in Keys \cup {NoKey}
    BY DEF TypeOK, CallRecord
  <2>2. d \in [Keys -> Slot]
    BY <2>1, PruneType DEF TypeOK
  <2>3. local' \in [Workers -> [Keys -> Slot]]
    BY <1>8, <2>1, <2>2 DEF LocalGet, TypeOK
  <2>4. Within(before[w], d) \in SUBSET (Keys \X Keys)
    BY <2>1, WithinType DEF TypeOK
  <2>5. CASE k \in Held(d)
    <3>1. k \in Keys
      BY <2>5 DEF Held
    <3>2. /\ answer' = Hit(k, d[k])
          /\ before' = [before EXCEPT ![w] =
                          MoveToEnd(Within(before[w], d), d, k)]
          /\ recent' = [recent EXCEPT ![w] = k]
      BY <1>8, <2>5 DEF LocalGet
    <3>3. answer' \in [key : Keys, hit : BOOLEAN, slot : Slot]
      BY <2>2, <3>1, <3>2 DEF Hit
    <3>4. before' \in [Workers -> SUBSET (Keys \X Keys)]
      BY <2>1, <2>4, <3>1, <3>2, MoveToEndType DEF TypeOK
    <3> QED
      BY <1>8, <2>3, <3>1, <3>2, <3>3, <3>4, ReturnType DEF LocalGet, TypeOK
  <2>6. CASE k \notin Held(d)
    <3>1. /\ answer' = Miss(k)
          /\ before' = [before EXCEPT ![w] = Within(before[w], d)]
          /\ UNCHANGED recent
      BY <1>8, <2>6 DEF LocalGet
    <3>2. k \in Keys
      BY <1>8 DEF LocalGet, TypeOK, CallRecord
    <3>3. answer' \in [key : Keys, hit : BOOLEAN, slot : Slot]
      BY <3>1, <3>2, AbsentType DEF Miss
    <3>4. before' \in [Workers -> SUBSET (Keys \X Keys)]
      BY <2>1, <2>4, <3>1 DEF TypeOK
    <3> QED
      BY <1>8, <2>3, <3>1, <3>3, <3>4, ReturnType DEF LocalGet, TypeOK
  <2> QED
    BY <2>5, <2>6
<1>9. ASSUME NEW t \in Threads, LocalSet(t) PROVE TypeOK'
  <2> DEFINE w == Home[t]
             k == call[t].key
             d == [Prune(local[w]) EXCEPT ![k] = Entry(call[t].text)]
             b == MoveToEnd(Within(before[w], d), d, k)
             e == Evict(b, d)
  <2>1. w \in Workers /\ k \in Keys /\ call[t].text \in Texts
    BY <1>9 DEF LocalSet, TypeOK, CallRecord
  <2>2. d \in [Keys -> Slot]
    <3>1. Prune(local[w]) \in [Keys -> Slot]
      BY <2>1, PruneType DEF TypeOK
    <3> QED
      BY <2>1, <3>1, EntryType
  <2>3. e \in [Keys -> Slot]
    BY <2>2, EvictType
  <2>4. b \in SUBSET (Keys \X Keys)
    <3>1. Within(before[w], d) \in SUBSET (Keys \X Keys)
      BY <2>1, WithinType DEF TypeOK
    <3> QED
      BY <2>1, <3>1, MoveToEndType
  <2>5. Within(b, e) \in SUBSET (Keys \X Keys)
    BY <2>4, WithinType
  <2>6. /\ local' = [local EXCEPT ![w] = e]
        /\ before' = [before EXCEPT ![w] = Within(b, e)]
        /\ recent' = [recent EXCEPT ![w] = k]
        /\ newest' = [newest EXCEPT ![k] = writes + 1]
        /\ writes' = writes + 1
        /\ Return(t)
        /\ UNCHANGED <<clock, redis, backend, answer, floor>>
    BY <1>9 DEF LocalSet
  <2>7. call' \in [Threads -> CallRecord]
    BY <2>6, ReturnType
  <2> HIDE DEF w, k, d, b, e
  <2> QED
    BY <2>1, <2>3, <2>5, <2>6, <2>7 DEF TypeOK
<1>10. ASSUME NEW t \in Threads, LocalDelete(t) PROVE TypeOK'
  BY <1>10, LocalRemoveType DEF LocalDelete
<1>11. ASSUME NEW t \in Threads, LocalClear(t) PROVE TypeOK'
  BY <1>11, LocalRemoveType DEF LocalClear
<1>12. ASSUME NEW t \in Threads, LocalInspect(t) PROVE TypeOK'
  <2> DEFINE w == Home[t]
             d == Prune(local[w])
  <2>1. w \in Workers
    OBVIOUS
  <2>2. d \in [Keys -> Slot]
    BY <2>1, PruneType DEF TypeOK
  <2>3. Within(before[w], d) \in SUBSET (Keys \X Keys)
    BY <2>1, WithinType DEF TypeOK
  <2>4. /\ local' = [local EXCEPT ![w] = d]
        /\ before' = [before EXCEPT ![w] = Within(before[w], d)]
        /\ Return(t)
        /\ UNCHANGED <<clock, writes, redis, backend, answer,
                       recent, newest, floor>>
    BY <1>12 DEF LocalInspect
  <2>5. call' \in [Threads -> CallRecord]
    BY <2>4, ReturnType
  <2> HIDE DEF w, d
  <2> QED
    BY <2>1, <2>2, <2>3, <2>4, <2>5 DEF TypeOK
<1>13. ASSUME NEW w \in Workers, Restart(w) PROVE TypeOK'
  <2>1. [k \in Keys |-> Absent] \in [Keys -> Slot]
    BY AbsentType
  <2>2. local' \in [Workers -> [Keys -> Slot]]
    BY <1>13, <2>1 DEF Restart, TypeOK
  <2>3. call' \in [Threads -> CallRecord]
    BY <1>13, IdleType DEF Restart, TypeOK
  <2>4. backend' \in [Workers -> {"redis", "local"}]
    BY <1>13 DEF Restart, Backends, TypeOK
  <2>5. floor' \in [Workers -> [Keys -> Nat]]
    BY <1>13 DEF Restart, TypeOK
  <2> QED
    BY <1>13, <2>2, <2>3, <2>4, <2>5 DEF Restart, TypeOK
<1>14. CASE Tick
  <2>1. redis' \in [Keys -> Slot]
    BY <1>14, AbsentType DEF Tick, TypeOK
  <2> QED
    BY <1>14, <2>1 DEF Tick, TypeOK
<1>15. CASE UNCHANGED vars
  BY <1>15 DEF vars, TypeOK
<1> QED
  BY <1>1, <1>2, <1>3, <1>4, <1>5, <1>6, <1>7, <1>8, <1>9, <1>10, <1>11,
     <1>12, <1>13, <1>14, <1>15 DEF Next, ThreadStep

LEMMA TypeInit == Init => TypeOK
<1> SUFFICES ASSUME Init PROVE TypeOK
  OBVIOUS
<1>1. backend \in [Workers -> {"redis", "local"}]
  BY DEF Init, Backends
<1>2. answer \in [key : Keys, hit : BOOLEAN, slot : Slot]
  <2> PICK k \in Keys : answer = Miss(k)
    BY DEF Init
  <2> QED
    BY AbsentType DEF Miss
<1> QED
  BY <1>1, <1>2, CacheAssumption, AbsentType, IdleType DEF Init, TypeOK

\* Every reachable state is well typed.
THEOREM TypeCorrect == Spec => []TypeOK
<1> QED
  BY TypeInit, TypeStep, PTL DEF Spec

-----------------------------------------------------------------------------
(* Deletes stick.  The inductive invariant adds to DeleteSticks that write  *)
(* counts only grow (so an entry written later is above every floor), and   *)
(* what a delete or clear in flight has achieved in Redis so far.           *)

GenBound ==
  /\ \A w \in Workers, k \in Keys : /\ local[w][k].gen <= writes
                                   /\ floor[w][k] <= writes
  /\ \A k \in Keys : redis[k].gen <= writes
  /\ \A t \in Threads : call[t].mark <= writes

RedisAbove(k, n) == redis[k].gen > 0 => redis[k].gen > n

SweepOf(t) ==
  call[t].op = "sweep" =>
    \A k \in Keys \ call[t].scanned : RedisAbove(k, call[t].mark)

ReachedOf(t) ==
  call[t].reached /\ backend[Home[t]] = "redis" =>
    /\ call[t].op = "delete" => RedisAbove(call[t].key, call[t].mark)
    /\ call[t].op = "clear" => \A k \in Keys : RedisAbove(k, call[t].mark)

CallsInv == \A t \in Threads : SweepOf(t) /\ ReachedOf(t)

DeleteInv == TypeOK /\ GenBound /\ CallsInv /\ DeleteSticks

\* The part of a step that most actions share: every store keeps an entry,
\* drops it or takes the new write; a thread's call is the old one or meets
\* the conditions on calls by itself.
GenStep(new, old) == new \in {0, old} \/ (writes' = writes + 1 /\ new = writes')

StoresStep ==
  /\ writes' \in {writes, writes + 1}
  /\ \A w \in Workers, k \in Keys : GenStep(local'[w][k].gen, local[w][k].gen)
  /\ \A k \in Keys : GenStep(redis'[k].gen, redis[k].gen)

CallStep(t) ==
  \/ call'[t] = call[t]
  \/ call'[t].mark <= writes /\ SweepOf(t)' /\ ReachedOf(t)'

LEMMA DeleteEffect ==
  ASSUME DeleteInv, TypeOK', StoresStep, floor' = floor, backend' = backend,
         \A t \in Threads : CallStep(t)
  PROVE  DeleteInv'
<1> USE CacheAssumption
<1>1. writes \in Nat /\ writes' \in Nat /\ writes <= writes'
  BY DEF DeleteInv, TypeOK, StoresStep
<1>2. GenBound'
  <2>1. ASSUME NEW w \in Workers, NEW k \in Keys
        PROVE  local'[w][k].gen <= writes' /\ floor'[w][k] <= writes'
    <3>1. /\ local[w][k].gen \in Nat /\ floor[w][k] \in Nat
          /\ local[w][k].gen <= writes /\ floor[w][k] <= writes
      BY DEF DeleteInv, TypeOK, GenBound, Slot
    <3>2. GenStep(local'[w][k].gen, local[w][k].gen)
      BY DEF StoresStep
    <3> QED
      BY <1>1, <3>1, <3>2 DEF GenStep
  <2>2. ASSUME NEW k \in Keys PROVE redis'[k].gen <= writes'
    <3>1. redis[k].gen \in Nat /\ redis[k].gen <= writes
      BY DEF DeleteInv, TypeOK, GenBound, Slot
    <3>2. GenStep(redis'[k].gen, redis[k].gen)
      BY DEF StoresStep
    <3> QED
      BY <1>1, <3>1, <3>2 DEF GenStep
  <2>3. ASSUME NEW t \in Threads PROVE call'[t].mark <= writes'
    <3>1. call[t].mark \in Nat /\ call[t].mark <= writes
      BY DEF DeleteInv, TypeOK, GenBound, CallRecord
    <3>2. call'[t].mark \in Nat
      BY DEF TypeOK, CallRecord
    <3>3. CallStep(t)
      OBVIOUS
    <3> QED
      BY <1>1, <3>1, <3>2, <3>3 DEF CallStep
  <2> QED
    BY <2>1, <2>2, <2>3 DEF GenBound
<1>3. ASSUME NEW k \in Keys, NEW n \in Nat, n <= writes, RedisAbove(k, n)
      PROVE  RedisAbove(k, n)'
  <2>1. GenStep(redis'[k].gen, redis[k].gen) /\ redis[k].gen \in Nat
    BY DEF StoresStep, DeleteInv, TypeOK, Slot
  <2> QED
    BY <1>1, <1>3, <2>1 DEF GenStep, RedisAbove
<1>4. CallsInv'
  <2> SUFFICES ASSUME NEW t \in Threads PROVE SweepOf(t)' /\ ReachedOf(t)'
    BY DEF CallsInv
  <2>1. CASE call'[t] = call[t]
    <3>1. /\ call[t].mark \in Nat
          /\ call[t].mark <= writes
          /\ call[t].op \in {"delete"} => call[t].key \in Keys
      BY DEF DeleteInv, TypeOK, GenBound, CallRecord
    <3>2. SweepOf(t) /\ ReachedOf(t)
      BY DEF DeleteInv, CallsInv
    <3> QED
      BY <1>3, <2>1, <3>1, <3>2 DEF SweepOf, ReachedOf
  <2>2. CASE call'[t] # call[t]
    BY <2>2 DEF CallStep
  <2> QED
    BY <2>1, <2>2
<1>5. DeleteSticks'
  <2> SUFFICES ASSUME NEW w \in Workers, NEW k \in Keys
               PROVE  /\ local'[w][k].gen > 0 =>
                           local'[w][k].gen > floor'[w][k]
                      /\ backend'[w] = "redis" /\ redis'[k].gen > 0 =>
                           redis'[k].gen > floor'[w][k]
    BY DEF DeleteSticks
  <2>1. /\ local[w][k].gen \in Nat /\ floor[w][k] \in Nat
        /\ redis[k].gen \in Nat /\ floor[w][k] <= writes
    BY DEF DeleteInv, TypeOK, GenBound, Slot
  <2>2. /\ local[w][k].gen > 0 => local[w][k].gen > floor[w][k]
        /\ backend[w] = "redis" /\ redis[k].gen > 0 =>
             redis[k].gen > floor[w][k]
    BY DEF DeleteInv, DeleteSticks
  <2>3. /\ GenStep(local'[w][k].gen, local[w][k].gen)
        /\ GenStep(redis'[k].gen, redis[k].gen)
    BY DEF StoresStep
  <2> QED
    BY <1>1, <2>1, <2>2, <2>3 DEF GenStep
<1> QED
  BY <1>2, <1>4, <1>5 DEF DeleteInv

LEMMA PruneGen ==
  ASSUME NEW d \in [Keys -> Slot], NEW k \in Keys
  PROVE  Prune(d)[k].gen \in {0, d[k].gen}
BY DEF Prune, Absent

LEMMA EvictGen ==
  ASSUME NEW b, NEW d \in [Keys -> Slot], NEW k \in Keys
  PROVE  Evict(b, d)[k].gen \in {0, d[k].gen}
BY DEF Evict, Absent

LEMMA WaitCall ==
  ASSUME DeleteInv, NEW t \in Threads, NEW op, NEW k, NEW x, NEW mark,
         NEW reached, Wait(t, op, k, x, mark, reached)
  PROVE  /\ \A u \in Threads \ {t} : call'[u] = call[u]
         /\ call'[t].op = op /\ call'[t].key = k
         /\ call'[t].mark = mark /\ call'[t].reached = reached
BY DEF Wait, DeleteInv, TypeOK

LEMMA QuietWait ==
  ASSUME DeleteInv, NEW t \in Threads, NEW op \in {"get", "set", "inspect"},
         NEW k, NEW x, Wait(t, op, k, x, 0, FALSE)
  PROVE  \A u \in Threads : CallStep(u)
<1>0. /\ \A u \in Threads \ {t} : call'[u] = call[u]
      /\ call'[t].op = op /\ call'[t].key = k
      /\ call'[t].mark = 0 /\ call'[t].reached = FALSE
  <2>1. Wait(t, op, k, x, 0, FALSE)
    OBVIOUS
  <2> QED
    BY <2>1, WaitCall, ZenonT(40)
<1>1. /\ \A u \in Threads \ {t} : call'[u] = call[u]
      /\ call'[t].op = op
      /\ call'[t].mark = 0 /\ ~call'[t].reached
  BY <1>0
<1>2. call'[t].mark <= writes
  <2>1. writes \in Nat
    BY DEF DeleteInv, TypeOK
  <2> QED
    BY <1>1, <2>1
<1>3. SweepOf(t)' /\ ReachedOf(t)'
  BY <1>1 DEF SweepOf, ReachedOf
<1> QED
  BY <1>1, <1>2, <1>3 DEF CallStep

LEMMA ReturnCall ==
  ASSUME DeleteInv, NEW t \in Threads, Return(t)
  PROVE  \A u \in Threads : CallStep(u)
<1>1. \A u \in Threads \ {t} : call'[u] = call[u]
  BY DEF Return, DeleteInv, TypeOK
<1>2. call'[t] = Idle
  BY DEF Return, DeleteInv, TypeOK
<1>3. CallStep(t)
  <2>1. writes \in Nat
    BY DEF DeleteInv, TypeOK
  <2> QED
    BY <1>2, <2>1 DEF CallStep, Idle, SweepOf, ReachedOf
<1> QED
  BY <1>1, <1>3 DEF CallStep

\* One step per action of Next.
LEMMA DeleteStep == DeleteInv /\ [Next]_vars => DeleteInv'
<1> SUFFICES ASSUME DeleteInv, [Next]_vars PROVE DeleteInv'
  OBVIOUS
<1> USE CacheAssumption
<1>0. /\ TypeOK /\ TypeOK'
      /\ writes \in Nat
      /\ \A t \in Threads : Home[t] \in Workers
  BY TypeStep DEF DeleteInv, TypeOK
<1>1. ASSUME NEW t \in Threads, EnterLocal(t) PROVE DeleteInv'
  <2>1. /\ backend[Home[t]] = "local"
        /\ UNCHANGED <<writes, local, redis, backend, floor>>
    BY <1>1 DEF EnterLocal, Enters
  <2>2. /\ \A u \in Threads \ {t} : call'[u] = call[u]
        /\ call'[t].mark <= writes
        /\ call'[t].op # "sweep"
    <3>1. PICK op \in {"get", "set", "delete", "clear", "inspect"},
               k \in Keys \cup {NoKey}, x \in Texts, mark \in {0, writes},
               reached \in BOOLEAN : Wait(t, op, k, x, mark, reached)
      BY <1>1 DEF EnterLocal
    <3> QED
      BY <1>0, <3>1, WaitCall
  <2>3. \A u \in Threads : CallStep(u)
    BY <2>1, <2>2 DEF CallStep, SweepOf, ReachedOf
  <2>4. StoresStep
    BY <2>1 DEF StoresStep, GenStep
  <2> QED
    BY <1>0, <2>1, <2>3, <2>4, DeleteEffect
<1>2. ASSUME NEW t \in Threads, PrimaryGet(t) PROVE DeleteInv'
  <2>1. UNCHANGED <<writes, local, redis, backend, floor>>
    BY <1>2 DEF PrimaryGet
  <2>2. \A u \in Threads : CallStep(u)
    <3>1. CASE UNCHANGED call
      BY <3>1 DEF CallStep
    <3>2. CASE \E k \in Keys : Wait(t, "get", k, Empty, 0, FALSE)
      BY <3>2, QuietWait
    <3> QED
      BY <1>2, <3>1, <3>2 DEF PrimaryGet
  <2>3. StoresStep
    BY <2>1 DEF StoresStep, GenStep
  <2> QED
    BY <1>0, <2>1, <2>2, <2>3, DeleteEffect
<1>3. ASSUME NEW t \in Threads, PrimarySet(t) PROVE DeleteInv'
  <2> PICK k \in Keys, x \in Texts, o \in Outcomes :
       /\ IF o = "ok" THEN UNCHANGED call
          ELSE Wait(t, "set", k, x, 0, FALSE)
       /\ IF o = "failed"
          THEN UNCHANGED <<writes, redis, newest>>
          ELSE /\ writes < MaxWrites
               /\ redis' = [redis EXCEPT ![k] = Entry(x)]
               /\ writes' = writes + 1
               /\ newest' = [newest EXCEPT ![k] = writes + 1]
    BY <1>3 DEF PrimarySet
  <2>1. UNCHANGED <<local, backend, floor>>
    BY <1>3 DEF PrimarySet
  <2>2. \A u \in Threads : CallStep(u)
    <3>1. CASE o = "ok"
      BY <3>1 DEF CallStep
    <3>2. CASE o # "ok"
      BY <3>2, QuietWait
    <3> QED
      BY <3>1, <3>2
  <2>3. StoresStep
    <3>1. CASE o = "failed"
      BY <2>1, <3>1 DEF StoresStep, GenStep
    <3>2. CASE o # "failed"
      <4>1. redis' = [redis EXCEPT ![k] = Entry(x)] /\ writes' = writes + 1
        BY <3>2
      <4>2. Entry(x).gen = writes + 1
        BY <1>0, EntryType
      <4> QED
        BY <1>0, <2>1, <4>1, <4>2 DEF StoresStep, GenStep, TypeOK
    <3> QED
      BY <3>1, <3>2
  <2> QED
    BY <1>0, <2>1, <2>2, <2>3, DeleteEffect
<1>4. ASSUME NEW t \in Threads, PrimaryDelete(t) PROVE DeleteInv'
  <2> PICK k \in Keys, o \in Outcomes :
       /\ redis' = IF o = "failed" THEN redis ELSE RedisWithout({k})
       /\ Wait(t, "delete", k, Empty, writes, o # "failed")
    BY <1>4 DEF PrimaryDelete
  <2>1. UNCHANGED <<writes, local, backend, floor>>
    BY <1>4 DEF PrimaryDelete
  <2>2. StoresStep
    BY <1>0, <2>1 DEF StoresStep, GenStep, RedisWithout, Absent, TypeOK
  <2>3. /\ \A u \in Threads \ {t} : call'[u] = call[u]
        /\ call'[t].op = "delete" /\ call'[t].key = k
        /\ call'[t].mark = writes /\ call'[t].reached = (o # "failed")
    BY WaitCall
  <2>4. CallStep(t)
    <3>1. o # "failed" => redis'[k].gen = 0
      BY DEF RedisWithout, Absent
    <3>2. call'[t].mark <= writes
      BY <1>0, <2>3
    <3>3. SweepOf(t)'
      BY <2>3 DEF SweepOf
    <3>4. ReachedOf(t)'
      <4>1. call'[t].reached => o # "failed"
        BY <2>3, Zenon
      <4>2. call'[t].op = "delete" /\ call'[t].key = k
        BY <2>3
      <4> QED
        BY <3>1, <4>1, <4>2 DEF ReachedOf, RedisAbove
    <3> QED
      BY <3>2, <3>3, <3>4 DEF CallStep
  <2> QED
    BY <1>0, <2>1, <2>2, <2>3, <2>4, DeleteEffect DEF CallStep
<1>5. ASSUME NEW t \in Threads, PrimaryScan(t) PROVE DeleteInv'
  <2> PICK o \in Outcomes :
       IF o = "ok" /\ Held(redis) # {}
       THEN call' = [call EXCEPT ![t] =
                       [op |-> "sweep", key |-> NoKey, text |-> Empty,
                        scanned |-> Held(redis), mark |-> writes,
                        reached |-> FALSE]]
       ELSE Wait(t, "clear", NoKey, Empty, writes, o = "ok")
    BY <1>5 DEF PrimaryScan
  <2>1. UNCHANGED <<writes, local, redis, backend, floor>>
    BY <1>5 DEF PrimaryScan
  <2>2. StoresStep
    BY <2>1 DEF StoresStep, GenStep
  <2>3. \A u \in Threads : CallStep(u)
    <3>1. CASE o = "ok" /\ Held(redis) # {}
      <4>1. /\ \A u \in Threads \ {t} : call'[u] = call[u]
            /\ call'[t].op = "sweep" /\ call'[t].scanned = Held(redis)
            /\ call'[t].mark = writes /\ ~call'[t].reached
        BY <1>0, <3>1 DEF TypeOK
      <4> QED
        BY <1>0, <2>1, <4>1 DEF CallStep, SweepOf, ReachedOf, RedisAbove, Held
    <3>2. CASE ~(o = "ok" /\ Held(redis) # {})
      <4>1. /\ \A u \in Threads \ {t} : call'[u] = call[u]
            /\ call'[t].op = "clear" /\ call'[t].mark = writes
            /\ call'[t].reached = (o = "ok")
        BY <3>2, WaitCall
      <4>2. o = "ok" => \A k \in Keys : ~(redis[k].gen > 0)
        BY <3>2 DEF Held
      <4>3. call'[t].mark <= writes
        BY <1>0, <4>1
      <4>4. SweepOf(t)'
        BY <4>1 DEF SweepOf
      <4>5. ReachedOf(t)'
        BY <2>1, <4>1, <4>2 DEF ReachedOf, RedisAbove
      <4> QED
        BY <4>1, <4>3, <4>4, <4>5 DEF CallStep
    <3> QED
      BY <3>1, <3>2
  <2> QED
    BY <1>0, <2>1, <2>2, <2>3, DeleteEffect
<1>6. ASSUME NEW t \in Threads, PrimarySweep(t) PROVE DeleteInv'
  <2> PICK o \in Outcomes :
       /\ redis' = IF o = "failed" THEN redis
                   ELSE RedisWithout(call[t].scanned)
       /\ Wait(t, "clear", NoKey, Empty, call[t].mark, o # "failed")
    BY <1>6 DEF PrimarySweep
  <2>1. UNCHANGED <<writes, local, backend, floor>>
    BY <1>6 DEF PrimarySweep
  <2>2. StoresStep
    BY <1>0, <2>1 DEF StoresStep, GenStep, RedisWithout, Absent, TypeOK
  <2>3. /\ \A u \in Threads \ {t} : call'[u] = call[u]
        /\ call'[t].op = "clear"
        /\ call'[t].mark = call[t].mark /\ call'[t].reached = (o # "failed")
    BY WaitCall
  <2>4. CallStep(t)
    <3>1. /\ call[t].mark <= writes
          /\ \A k \in Keys \ call[t].scanned : RedisAbove(k, call[t].mark)
      BY <1>6 DEF PrimarySweep, DeleteInv, CallsInv, SweepOf, GenBound
    <3>2. o # "failed" =>
            \A k \in Keys : /\ k \in call[t].scanned => redis'[k].gen = 0
                            /\ k \notin call[t].scanned =>
                                 redis'[k] = redis[k]
      BY DEF RedisWithout, Absent
    <3>3. call'[t].mark <= writes
      BY <2>3, <3>1
    <3>4. SweepOf(t)'
      BY <2>3 DEF SweepOf
    <3>5. ReachedOf(t)'
      <4>1. call'[t].reached => o # "failed"
        BY <2>3, Zenon
      <4>2. call'[t].op = "clear" /\ call'[t].mark = call[t].mark
        BY <2>3
      <4> QED
        BY <3>1, <3>2, <4>1, <4>2 DEF ReachedOf, RedisAbove
    <3> QED
      BY <3>3, <3>4, <3>5 DEF CallStep
  <2> QED
    BY <1>0, <2>1, <2>2, <2>3, <2>4, DeleteEffect DEF CallStep
<1>7. ASSUME NEW t \in Threads, PrimaryInspect(t) PROVE DeleteInv'
  <2>1. UNCHANGED <<writes, local, redis, backend, floor>>
    BY <1>7 DEF PrimaryInspect
  <2>2. \A u \in Threads : CallStep(u)
    BY <1>7, QuietWait DEF PrimaryInspect
  <2>3. StoresStep
    BY <2>1 DEF StoresStep, GenStep
  <2> QED
    BY <1>0, <2>1, <2>2, <2>3, DeleteEffect
<1>8. ASSUME NEW t \in Threads, LocalGet(t) \/ LocalInspect(t)
      PROVE  DeleteInv'
  <2> DEFINE w == Home[t]
  <2>1. /\ local' = [local EXCEPT ![w] = Prune(local[w])]
        /\ UNCHANGED <<writes, redis, backend, floor>>
        /\ Return(t)
    BY <1>8 DEF LocalGet, LocalInspect
  <2>2. \A k \in Keys : Prune(local[w])[k].gen \in {0, local[w][k].gen}
    BY <1>0, PruneGen DEF TypeOK
  <2>3. StoresStep
    BY <1>0, <2>1, <2>2 DEF StoresStep, GenStep, TypeOK
  <2> QED
    BY <1>0, <2>1, <2>3, ReturnCall, DeleteEffect
<1>9. ASSUME NEW t \in Threads, LocalSet(t) PROVE DeleteInv'
  <2> DEFINE w == Home[t]
             k == call[t].key
             d == [Prune(local[w]) EXCEPT ![k] = Entry(call[t].text)]
             b == MoveToEnd(Within(before[w], d), d, k)
             e == Evict(b, d)
  <2>1. /\ local' = [local EXCEPT ![w] = e]
        /\ writes' = writes + 1
        /\ UNCHANGED <<redis, backend, floor>>
        /\ Return(t)
    BY <1>9 DEF LocalSet
  <2>2. k \in Keys /\ call[t].text \in Texts
    BY <1>0, <1>9 DEF LocalSet, TypeOK, CallRecord
  <2>3. /\ Prune(local[w]) \in [Keys -> Slot]
        /\ Entry(call[t].text) \in Slot
        /\ Entry(call[t].text).gen = writes + 1
    BY <1>0, <2>2, PruneType, EntryType DEF TypeOK
  <2>4. d \in [Keys -> Slot]
    BY <2>2, <2>3
  <2>5. ASSUME NEW j \in Keys
        PROVE  e[j].gen \in {0, local[w][j].gen, writes + 1}
    <3>1. e[j].gen \in {0, d[j].gen}
      BY <2>4, EvictGen
    <3>2. d[j].gen \in {0, local[w][j].gen, writes + 1}
      <4>1. Prune(local[w])[j].gen \in {0, local[w][j].gen}
        BY <1>0, PruneGen DEF TypeOK
      <4> QED
        BY <2>2, <2>3, <4>1
    <3> QED
      BY <3>1, <3>2
  <2> HIDE DEF k, d, b, e
  <2>6. StoresStep
    BY <1>0, <2>1, <2>5 DEF StoresStep, GenStep, TypeOK
  <2> QED
    BY <1>0, <2>1, <2>6, ReturnCall, DeleteEffect
<1>10. ASSUME NEW t \in Threads, NEW S \in SUBSET Keys, LocalRemove(t, S),
              \/ call[t].op = "delete" /\ S = {call[t].key}
              \/ call[t].op = "clear" /\ S = Keys
       PROVE  DeleteInv'
  <2> DEFINE w == Home[t]
             d == [k \in Keys |-> IF k \in S THEN Absent ELSE local[w][k]]
  <2>1. /\ local' = [local EXCEPT ![w] = d]
        /\ UNCHANGED <<writes, redis, backend>>
        /\ Return(t)
    BY <1>10 DEF LocalRemove
  <2>2. /\ call[t].mark \in Nat /\ call[t].mark <= writes
        /\ call[t].reached /\ backend[w] = "redis" =>
             \A k \in S : RedisAbove(k, call[t].mark)
    BY <1>0, <1>10
       DEF DeleteInv, GenBound, CallsInv, ReachedOf, TypeOK, CallRecord
  <2>3. ASSUME NEW v \in Workers, NEW k \in Keys
        PROVE  /\ \/ floor'[v][k] = floor[v][k]
                  \/ /\ v = w /\ k \in S /\ call[t].reached
                     /\ floor'[v][k] = call[t].mark
               /\ \/ local'[v][k] = local[v][k]
                  \/ local'[v][k].gen = 0
               /\ v = w /\ k \in S => local'[v][k].gen = 0
    <3>1. floor' = IF ~call[t].reached THEN floor
                   ELSE [floor EXCEPT ![w] =
                           [j \in Keys |->
                              IF j \in S /\ floor[w][j] < call[t].mark
                              THEN call[t].mark ELSE floor[w][j]]]
      BY <1>10 DEF LocalRemove
    <3>2. \/ floor'[v][k] = floor[v][k]
          \/ /\ v = w /\ k \in S /\ call[t].reached
             /\ floor'[v][k] = call[t].mark
      BY <1>0, <3>1 DEF TypeOK
    <3>3. local'[v][k] = IF v = w /\ k \in S THEN Absent ELSE local[v][k]
      BY <1>0, <2>1 DEF TypeOK
    <3> QED
      BY <3>2, <3>3 DEF Absent
  <2>4. GenBound'
    <3>1. \A v \in Workers, k \in Keys : /\ local'[v][k].gen <= writes'
                                        /\ floor'[v][k] <= writes'
      BY <1>0, <2>1, <2>2, <2>3 DEF DeleteInv, GenBound
    <3>2. \A u \in Threads : call'[u].mark <= writes'
      BY <1>0, <2>1 DEF Return, Idle, DeleteInv, GenBound, TypeOK
    <3> QED
      BY <2>1, <3>1, <3>2 DEF DeleteInv, GenBound
  <2>5. CallsInv'
    <3> SUFFICES ASSUME NEW u \in Threads PROVE SweepOf(u)' /\ ReachedOf(u)'
      BY DEF CallsInv
    <3>1. CASE u = t
      <4>1. call'[u] = Idle
        BY <1>0, <2>1, <3>1 DEF Return, TypeOK
      <4> QED
        BY <4>1 DEF Idle, SweepOf, ReachedOf
    <3>2. CASE u # t
      <4>1. call'[u] = call[u]
        BY <1>0, <2>1, <3>2 DEF Return, TypeOK
      <4> QED
        BY <2>1, <4>1
           DEF DeleteInv, CallsInv, SweepOf, ReachedOf, RedisAbove
    <3> QED
      BY <3>1, <3>2
  <2>6. DeleteSticks'
    <3> SUFFICES ASSUME NEW v \in Workers, NEW k \in Keys
                 PROVE  /\ local'[v][k].gen > 0 =>
                             local'[v][k].gen > floor'[v][k]
                        /\ backend'[v] = "redis" /\ redis'[k].gen > 0 =>
                             redis'[k].gen > floor'[v][k]
      BY DEF DeleteSticks
    <3>1. /\ local[v][k].gen > 0 => local[v][k].gen > floor[v][k]
          /\ backend[v] = "redis" /\ redis[k].gen > 0 =>
               redis[k].gen > floor[v][k]
      BY DEF DeleteInv, DeleteSticks
    <3> QED
      BY <2>1, <2>2, <2>3, <3>1 DEF RedisAbove
  <2> QED
    BY <1>0, <2>4, <2>5, <2>6 DEF DeleteInv
<1>11. ASSUME NEW t \in Threads, LocalDelete(t) \/ LocalClear(t)
       PROVE  DeleteInv'
  <2>1. CASE LocalDelete(t)
    <3>1. call[t].key \in Keys
      BY <1>0, <2>1 DEF LocalDelete, TypeOK, CallRecord
    <3> QED
      BY <1>10, <2>1, <3>1 DEF LocalDelete
  <2>2. CASE LocalClear(t)
    BY <1>10, <2>2 DEF LocalClear
  <2> QED
    BY <1>11, <2>1, <2>2
<1>12. ASSUME NEW w \in Workers, Restart(w) PROVE DeleteInv'
  <2>1. /\ UNCHANGED <<writes, redis>>
        /\ \A v \in Workers, k \in Keys :
             local'[v][k] = IF v = w THEN Absent ELSE local[v][k]
        /\ \A u \in Threads :
             call'[u] = IF Home[u] = w THEN Idle ELSE call[u]
        /\ \A v \in Workers \ {w} : backend'[v] = backend[v]
    BY <1>0, <1>12 DEF Restart, TypeOK
  <2>2. \A v \in Workers, k \in Keys :
          floor'[v][k] = IF v = w /\ backend[v] # "redis" THEN 0
                         ELSE floor[v][k]
    BY <1>0, <1>12 DEF Restart, TypeOK
  <2>3. GenBound'
    BY <1>0, <2>1, <2>2 DEF DeleteInv, GenBound, Absent, Idle
  <2>4. CallsInv'
    <3> SUFFICES ASSUME NEW u \in Threads PROVE SweepOf(u)' /\ ReachedOf(u)'
      BY DEF CallsInv
    <3>1. CASE Home[u] = w
      BY <2>1, <3>1 DEF Idle, SweepOf, ReachedOf
    <3>2. CASE Home[u] # w
      BY <1>0, <2>1, <3>2
         DEF DeleteInv, CallsInv, SweepOf, ReachedOf, RedisAbove
    <3> QED
      BY <3>1, <3>2
  <2>5. DeleteSticks'
    BY <1>0, <2>1, <2>2 DEF DeleteInv, DeleteSticks, Absent
  <2> QED
    BY <1>0, <2>3, <2>4, <2>5 DEF DeleteInv
<1>13. CASE Tick
  <2>1. UNCHANGED <<writes, local, backend, call, floor>>
    BY <1>13 DEF Tick
  <2>2. StoresStep
    BY <1>0, <1>13, <2>1 DEF Tick, StoresStep, GenStep, Absent
  <2> QED
    BY <1>0, <2>1, <2>2, DeleteEffect DEF CallStep
<1>14. CASE UNCHANGED vars
  <2>1. UNCHANGED <<writes, local, redis, backend, call, floor>>
    BY <1>14 DEF vars
  <2>2. StoresStep
    BY <2>1 DEF StoresStep, GenStep
  <2> QED
    BY <1>0, <2>1, <2>2, DeleteEffect DEF CallStep
<1> QED
  BY <1>1, <1>2, <1>3, <1>4, <1>5, <1>6, <1>7, <1>8, <1>9, <1>11, <1>12,
     <1>13, <1>14 DEF Next, ThreadStep

LEMMA DeleteInit == Init => DeleteInv
<1> SUFFICES ASSUME Init PROVE DeleteInv
  OBVIOUS
<1> QED
  BY CacheAssumption, TypeInit
     DEF Init, DeleteInv, GenBound, CallsInv, SweepOf, ReachedOf,
         DeleteSticks, Absent, Idle

\* What a worker deleted stays deleted for it until somebody writes it again,
\* for any number of workers and threads and any failures of Redis.
THEOREM DeletesStick == Spec => []DeleteSticks
<1>1. DeleteInv => DeleteSticks
  BY DEF DeleteInv
<1> QED
  BY <1>1, DeleteInit, DeleteStep, PTL DEF Spec

-----------------------------------------------------------------------------
(* The in-process LRU cache never outgrows max_entries.  The eviction       *)
(* removes the key that no other precedes; that there is one needs the      *)
(* recency order to be a strict order, which is the inductive invariant.    *)
-----------------------------------------------------------------------------
(* The recency order.                                                       *)

StrictOrder(b) ==
  /\ b \in SUBSET (Keys \X Keys)
  /\ \A j \in Keys : <<j, j>> \notin b
  /\ \A i, j, k \in Keys : <<i, j>> \in b /\ <<j, k>> \in b => <<i, k>> \in b

LEMMA WithinOrder ==
  ASSUME NEW b, StrictOrder(b), NEW d
  PROVE  StrictOrder(Within(b, d))
BY DEF StrictOrder, Within, Held

LEMMA MoveToEndOrder ==
  ASSUME NEW b, StrictOrder(b), NEW d, NEW k \in Held(d)
  PROVE  StrictOrder(MoveToEnd(Within(b, d), d, k))
<1> DEFINE c == Within(b, d)
           m == MoveToEnd(c, d, k)
<1>1. StrictOrder(c) /\ \A p \in c : p[1] \in Held(d) /\ p[2] \in Held(d)
  BY WithinOrder DEF Within
<1>2. k \in Keys /\ Held(d) \subseteq Keys
  BY DEF Held
<1>3. m \in SUBSET (Keys \X Keys)
  BY <1>1, <1>2 DEF MoveToEnd, StrictOrder
<1>4. ASSUME NEW i \in Keys, NEW j \in Keys
      PROVE  <<i, j>> \in m <=>
               \/ i # k /\ j # k /\ <<i, j>> \in c
               \/ i \in Held(d) /\ i # k /\ j = k
  BY DEF MoveToEnd
<1> HIDE DEF c, m
<1>5. \A j \in Keys : <<j, j>> \notin m
  BY <1>1, <1>4 DEF StrictOrder
<1>6. ASSUME NEW i \in Keys, NEW j \in Keys, NEW l \in Keys,
             <<i, j>> \in m, <<j, l>> \in m
      PROVE  <<i, l>> \in m
  <2>1. i # k /\ j # k /\ <<i, j>> \in c
    BY <1>4, <1>6
  <2>2. i \in Held(d)
    BY <1>1, <2>1
  <2> QED
    BY <1>1, <1>4, <1>6, <2>1, <2>2 DEF StrictOrder
<1> QED
  BY <1>3, <1>5, <1>6 DEF StrictOrder, c, m

LEMMA HeldFinite ==
  ASSUME NEW d
  PROVE  IsFiniteSet(Held(d)) /\ Cardinality(Held(d)) \in Nat
BY CacheAssumption, FS_Subset, FS_CardinalityType DEF Held

\* popitem(last=False) finds a key that no other precedes.
LEMMA OldestIsFirst ==
  ASSUME NEW b, StrictOrder(b), NEW d, Held(d) # {}
  PROVE  Oldest(b, d) \in Held(d) /\ \A j \in Held(d) : <<j, Oldest(b, d)>> \notin b
<1>1. IsFiniteSet(Held(d)) /\ Held(d) \subseteq Keys
  BY HeldFinite DEF Held
<1>2. \A j \in Held(d) : <<j, j>> \notin b
  BY <1>1 DEF StrictOrder
<1>3. \A i, j, k \in Held(d) :
        <<i, j>> \in b /\ <<j, k>> \in b => <<i, k>> \in b
  BY <1>1 DEF StrictOrder
<1>4. \E k \in Held(d) : \A j \in Held(d) : <<j, k>> \notin b
  BY <1>1, <1>2, <1>3, MinimalElement
<1> QED
  BY <1>4 DEF Oldest

\* Evict brings a cache that is too large by one back to max_entries.
LEMMA EvictBound ==
  ASSUME NEW b, StrictOrder(b), NEW d \in [Keys -> Slot],
         Cardinality(Held(d)) <= MaxEntries + 1
  PROVE  Cardinality(Held(Evict(b, d))) <= MaxEntries
<1> DEFINE old == Oldest(b, d)
<1>0. /\ MaxEntries \in Nat /\ IsFiniteSet(Held(d))
      /\ Cardinality(Held(d)) \in Nat /\ Held(d) \subseteq Keys
  BY HeldFinite, CacheAssumption DEF Held
<1>1. CASE Cardinality(Held(d)) <= MaxEntries
  BY <1>0, <1>1 DEF Evict
<1>2. CASE Cardinality(Held(d)) > MaxEntries
  <2>1. Held(d) # {}
    BY <1>0, <1>2, FS_EmptySet
  <2>3. old \in Held(d)
    BY <1>0, <2>1, OldestIsFirst
  <2>4. Held(Evict(b, d)) = Held(d) \ {old}
    <3>1. Evict(b, d) = [d EXCEPT ![old] = Absent]
      BY <1>2 DEF Evict
    <3> HIDE DEF old
    <3> QED
      BY <1>0, <2>3, <3>1 DEF Held, Absent
  <2>5. Cardinality(Held(d) \ {old}) = Cardinality(Held(d)) - 1
    BY <1>0, <2>3, FS_RemoveElement
  <2> QED
    BY <1>0, <2>4, <2>5
<1> QED
  BY <1>0, <1>1, <1>2

LEMMA FewerHeld ==
  ASSUME NEW d, NEW e, Held(e) \subseteq Held(d),
         Cardinality(Held(d)) <= MaxEntries
  PROVE  Cardinality(Held(e)) <= MaxEntries
BY HeldFinite, FS_Subset, CacheAssumption

-----------------------------------------------------------------------------
(* The invariant.                                                           *)

BoundInv ==
  /\ TypeOK
  /\ \A w \in Workers : StrictOrder(before[w])
  /\ LocalBounded

\* What a step on the cache of one worker must show.
LEMMA BoundEffect ==
  ASSUME BoundInv, TypeOK', NEW w \in Workers,
         \A v \in Workers \ {w} : /\ local'[v] = local[v]
                                  /\ before'[v] = before[v],
         StrictOrder(before'[w]),
         Cardinality(Held(local'[w])) <= MaxEntries
  PROVE  BoundInv'
<1>1. ASSUME NEW v \in Workers
      PROVE  /\ StrictOrder(before'[v])
             /\ Cardinality(Held(local'[v])) <= MaxEntries
  BY DEF BoundInv, LocalBounded
<1> QED
  BY <1>1 DEF BoundInv, LocalBounded, StrictOrder, Held

LEMMA BoundStep == BoundInv /\ [Next]_vars => BoundInv'
<1> SUFFICES ASSUME BoundInv, [Next]_vars PROVE BoundInv'
  OBVIOUS
<1> USE CacheAssumption
<1>0. /\ TypeOK /\ TypeOK'
      /\ \A t \in Threads : Home[t] \in Workers
      /\ \A w \in Workers : /\ StrictOrder(before[w])
                            /\ Cardinality(Held(local[w])) <= MaxEntries
                            /\ local[w] \in [Keys -> Slot]
  BY TypeStep DEF BoundInv, TypeOK, LocalBounded
<1>1. CASE UNCHANGED <<local, before>>
  BY <1>0, <1>1 DEF BoundInv, LocalBounded, StrictOrder, Held
<1>2. ASSUME NEW t \in Threads, NEW d,
             local' = [local EXCEPT ![Home[t]] = d],
             Held(d) \subseteq Held(local[Home[t]]),
             \/ before' = [before EXCEPT ![Home[t]] =
                             Within(before[Home[t]], d)]
             \/ \E k \in Held(d) :
                  before' = [before EXCEPT ![Home[t]] =
                              MoveToEnd(Within(before[Home[t]], d), d, k)]
      PROVE  BoundInv'
  <2> DEFINE w == Home[t]
  <2>1. /\ local'[w] = d
        /\ \A v \in Workers \ {w} : /\ local'[v] = local[v]
                                     /\ before'[v] = before[v]
    BY <1>0, <1>2 DEF TypeOK
  <2>2. StrictOrder(before'[w])
    <3>1. CASE before' = [before EXCEPT ![w] = Within(before[w], d)]
      <4>1. before'[w] = Within(before[w], d)
        BY <1>0, <3>1 DEF TypeOK
      <4> QED
        BY <1>0, <4>1, WithinOrder
    <3>2. ASSUME NEW k \in Held(d),
                 before' = [before EXCEPT ![w] =
                             MoveToEnd(Within(before[w], d), d, k)]
          PROVE  StrictOrder(before'[w])
      <4>1. before'[w] = MoveToEnd(Within(before[w], d), d, k)
        BY <1>0, <3>2 DEF TypeOK
      <4> QED
        BY <1>0, <4>1, MoveToEndOrder
    <3> QED
      BY <1>2, <3>1, <3>2
  <2>3. Cardinality(Held(local'[w])) <= MaxEntries
    BY <1>0, <1>2, <2>1, FewerHeld
  <2> QED
    BY <1>0, <2>1, <2>2, <2>3, BoundEffect
<1>3. ASSUME NEW d \in [Keys -> Slot] PROVE Held(Prune(d)) \subseteq Held(d)
  BY DEF Prune, Held, Absent
<1>4. ASSUME NEW t \in Threads, LocalGet(t) PROVE BoundInv'
  <2> DEFINE w == Home[t]
             d == Prune(local[w])
             k == call[t].key
  <2>1. Held(d) \subseteq Held(local[w])
    BY <1>0, <1>3
  <2>2. /\ local' = [local EXCEPT ![w] = d]
        /\ \/ before' = [before EXCEPT ![w] = Within(before[w], d)]
           \/ /\ k \in Held(d)
              /\ before' = [before EXCEPT ![w] =
                             MoveToEnd(Within(before[w], d), d, k)]
    BY <1>4 DEF LocalGet
  <2> HIDE DEF d
  <2> QED
    BY <1>2, <2>1, <2>2
<1>5. ASSUME NEW t \in Threads, LocalInspect(t) PROVE BoundInv'
  <2> DEFINE w == Home[t]
             d == Prune(local[w])
  <2>1. Held(d) \subseteq Held(local[w])
    BY <1>0, <1>3
  <2>2. /\ local' = [local EXCEPT ![w] = d]
        /\ before' = [before EXCEPT ![w] = Within(before[w], d)]
    BY <1>5 DEF LocalInspect
  <2> HIDE DEF d
  <2> QED
    BY <1>2, <2>1, <2>2
<1>6. ASSUME NEW t \in Threads, NEW S, LocalRemove(t, S) PROVE BoundInv'
  <2> DEFINE w == Home[t]
             d == [k \in Keys |-> IF k \in S THEN Absent ELSE local[w][k]]
  <2>1. Held(d) \subseteq Held(local[w])
    BY DEF Held, Absent
  <2>2. /\ local' = [local EXCEPT ![w] = d]
        /\ before' = [before EXCEPT ![w] = Within(before[w], d)]
    BY <1>6 DEF LocalRemove
  <2> HIDE DEF d
  <2> QED
    BY <1>2, <2>1, <2>2
<1>7. ASSUME NEW t \in Threads, LocalSet(t) PROVE BoundInv'
  <2> DEFINE w == Home[t]
             k == call[t].key
             p == Prune(local[w])
             d == [p EXCEPT ![k] = Entry(call[t].text)]
             b == MoveToEnd(Within(before[w], d), d, k)
             e == Evict(b, d)
  <2>1. k \in Keys /\ call[t].text \in Texts
    BY <1>0, <1>7 DEF LocalSet, TypeOK, CallRecord
  <2>2. /\ p \in [Keys -> Slot]
        /\ Entry(call[t].text) \in Slot /\ Entry(call[t].text).gen > 0
    BY <1>0, <2>1, PruneType, EntryType
  <2>3. d \in [Keys -> Slot]
    BY <2>1, <2>2
  <2>4. k \in Held(d) /\ Held(d) = Held(p) \cup {k}
    <3> HIDE DEF p
    <3> QED
      BY <2>1, <2>2 DEF Held
  <2>5. Cardinality(Held(d)) <= MaxEntries + 1
    <3>1. Cardinality(Held(p)) <= MaxEntries
      BY <1>0, <1>3, FewerHeld
    <3>2. Cardinality(Held(p) \cup {k}) \in
            {Cardinality(Held(p)), Cardinality(Held(p)) + 1}
      <4>1. IsFiniteSet(Held(p))
        BY HeldFinite
      <4> HIDE DEF p
      <4> QED
        BY <4>1, FS_AddElement
    <3>3. /\ Cardinality(Held(p)) \in Nat /\ Cardinality(Held(d)) \in Nat
      BY HeldFinite
    <3> HIDE DEF p, d
    <3> QED
      BY <2>4, <3>1, <3>2, <3>3
  <2>6. StrictOrder(b)
    BY <1>0, <2>4, MoveToEndOrder
  <2>7. Cardinality(Held(e)) <= MaxEntries
    BY <2>3, <2>5, <2>6, EvictBound
  <2>8. StrictOrder(Within(b, e))
    BY <2>6, WithinOrder
  <2>9. /\ local' = [local EXCEPT ![w] = e]
        /\ before' = [before EXCEPT ![w] = Within(b, e)]
    BY <1>7 DEF LocalSet
  <2> HIDE DEF p, d, b, e
  <2>10. /\ local'[w] = e /\ before'[w] = Within(b, e)
         /\ \A v \in Workers \ {w} : /\ local'[v] = local[v]
                                      /\ before'[v] = before[v]
    BY <1>0, <2>9 DEF TypeOK
  <2> QED
    BY <1>0, <2>7, <2>8, <2>10, BoundEffect
<1>8. ASSUME NEW w \in Workers, Restart(w) PROVE BoundInv'
  <2>1. /\ local'[w] = [k \in Keys |-> Absent] /\ before'[w] = {}
        /\ \A v \in Workers \ {w} : /\ local'[v] = local[v]
                                     /\ before'[v] = before[v]
    BY <1>0, <1>8 DEF Restart, TypeOK
  <2>2. Held(local'[w]) \subseteq Held(local[w])
    BY <2>1 DEF Held, Absent
  <2>3. StrictOrder(before'[w])
    BY <2>1 DEF StrictOrder
  <2> QED
    BY <1>0, <2>1, <2>2, <2>3, FewerHeld, BoundEffect
<1>9. ASSUME NEW t \in Threads,
             \/ EnterLocal(t) \/ PrimaryGet(t) \/ PrimarySet(t)
             \/ PrimaryDelete(t) \/ PrimaryScan(t) \/ PrimarySweep(t)
             \/ PrimaryInspect(t)
      PROVE  BoundInv'
  <2>1. UNCHANGED <<local, before>>
    BY <1>9 DEF EnterLocal, PrimaryGet, PrimarySet, PrimaryDelete,
                PrimaryScan, PrimarySweep, PrimaryInspect
  <2> QED
    BY <1>1, <2>1
<1>10. CASE Tick \/ UNCHANGED vars
  BY <1>1, <1>10 DEF Tick, vars
<1> QED
  BY <1>4, <1>5, <1>6, <1>7, <1>8, <1>9, <1>10
     DEF Next, ThreadStep, LocalDelete, LocalClear

LEMMA BoundInit == Init => BoundInv
<1> SUFFICES ASSUME Init PROVE BoundInv
  OBVIOUS
<1>1. \A w \in Workers : StrictOrder(before[w])
  BY DEF Init, StrictOrder
<1>2. ASSUME NEW w \in Workers PROVE Cardinality(Held(local[w])) <= MaxEntries
  <2>1. Held(local[w]) = {}
    BY DEF Init, Held, Absent
  <2> QED
    BY <2>1, FS_EmptySet, CacheAssumption
<1> QED
  BY <1>1, <1>2, TypeInit DEF BoundInv, LocalBounded

\* The in-process cache of every worker stays within max_entries.
THEOREM LocalStaysBounded == Spec => []LocalBounded
<1>1. BoundInv => LocalBounded
  BY DEF BoundInv
<1> QED
  BY <1>1, BoundInit, BoundStep, PTL DEF Spec

-----------------------------------------------------------------------------
(* The order of use.  The key used last is, as long as it is held, the last *)
(* of the order, so an eviction takes another one.                          *)

\* k, if it is there, comes after all other keys of d.
IsLast(b, d, k) == k \in Held(d) => \A j \in Held(d) \ {k} : <<j, k>> \in b

RecentInv ==
  /\ BoundInv
  /\ \A w \in Workers : IsLast(before[w], local[w], recent[w])

LEMMA MovedIsLast ==
  ASSUME NEW b, NEW d, NEW k PROVE IsLast(MoveToEnd(b, d, k), d, k)
BY DEF IsLast, MoveToEnd

LEMMA WithinIsLast ==
  ASSUME NEW b, NEW d, NEW e, NEW k, Held(e) \subseteq Held(d), IsLast(b, d, k)
  PROVE  IsLast(Within(b, e), e, k)
BY DEF IsLast, Within

LEMMA EvictHeld ==
  ASSUME NEW b, NEW d \in [Keys -> Slot]
  PROVE  Held(Evict(b, d)) \subseteq Held(d)
BY DEF Evict, Held, Absent

LEMMA PruneHeld ==
  ASSUME NEW d \in [Keys -> Slot] PROVE Held(Prune(d)) \subseteq Held(d)
BY DEF Prune, Held, Absent

\* What a step on the cache of one worker must show.
LEMMA RecentEffect ==
  ASSUME RecentInv, BoundInv', NEW w \in Workers, NEW b, NEW d, NEW k,
         local' = [local EXCEPT ![w] = d], before' = [before EXCEPT ![w] = b],
         recent' = [recent EXCEPT ![w] = k], IsLast(b, d, k)
  PROVE  RecentInv'
<1>1. /\ local'[w] = d /\ before'[w] = b /\ recent'[w] = k
      /\ \A v \in Workers \ {w} : /\ local'[v] = local[v]
                                   /\ before'[v] = before[v]
                                   /\ recent'[v] = recent[v]
  BY DEF RecentInv, BoundInv, TypeOK
<1>2. ASSUME NEW v \in Workers PROVE IsLast(before'[v], local'[v], recent'[v])
  <2>1. CASE v = w
    BY <1>1, <2>1
  <2>2. CASE v # w
    BY <1>1, <2>2 DEF RecentInv
  <2> QED
    BY <2>1, <2>2
<1> QED
  BY <1>2 DEF RecentInv, IsLast, Held

LEMMA RecentStep == RecentInv /\ [Next]_vars => RecentInv'
<1> SUFFICES ASSUME RecentInv, [Next]_vars PROVE RecentInv'
  OBVIOUS
<1> USE CacheAssumption
<1>0. /\ TypeOK /\ BoundInv'
      /\ \A t \in Threads : Home[t] \in Workers
      /\ \A w \in Workers : /\ IsLast(before[w], local[w], recent[w])
                            /\ local[w] \in [Keys -> Slot]
                            /\ recent = [recent EXCEPT ![w] = recent[w]]
  BY BoundStep DEF RecentInv, BoundInv, TypeOK
<1>1. CASE UNCHANGED <<local, before, recent>>
  BY <1>0, <1>1 DEF RecentInv, IsLast, Held
<1>2. ASSUME NEW w \in Workers, NEW d, Held(d) \subseteq Held(local[w]),
             local' = [local EXCEPT ![w] = d],
             before' = [before EXCEPT ![w] = Within(before[w], d)],
             UNCHANGED recent
      PROVE  RecentInv'
  <2>1. IsLast(Within(before[w], d), d, recent[w])
    BY <1>0, <1>2, WithinIsLast
  <2> QED
    BY <1>0, <1>2, <2>1, RecentEffect
<1>3. ASSUME NEW t \in Threads, LocalGet(t) PROVE RecentInv'
  <2> DEFINE w == Home[t]
             k == call[t].key
             d == Prune(local[w])
             b == MoveToEnd(Within(before[w], d), d, k)
  <2>1. Held(d) \subseteq Held(local[w])
    BY <1>0, PruneHeld
  <2>2. IsLast(b, d, k)
    BY MovedIsLast
  <2>3. /\ local' = [local EXCEPT ![w] = d]
        /\ \/ /\ before' = [before EXCEPT ![w] = b]
              /\ recent' = [recent EXCEPT ![w] = k]
           \/ /\ before' = [before EXCEPT ![w] = Within(before[w], d)]
              /\ UNCHANGED recent
    BY <1>3 DEF LocalGet
  <2> HIDE DEF d, b, k
  <2> QED
    BY <1>0, <1>2, <2>1, <2>2, <2>3, RecentEffect
<1>4. ASSUME NEW t \in Threads, LocalInspect(t) PROVE RecentInv'
  <2> DEFINE w == Home[t]
             d == Prune(local[w])
  <2>1. Held(d) \subseteq Held(local[w])
    BY <1>0, PruneHeld
  <2>2. /\ local' = [local EXCEPT ![w] = d]
        /\ before' = [before EXCEPT ![w] = Within(before[w], d)]
        /\ UNCHANGED recent
    BY <1>4 DEF LocalInspect
  <2> HIDE DEF d
  <2> QED
    BY <1>0, <1>2, <2>1, <2>2
<1>5. ASSUME NEW t \in Threads, NEW S, LocalRemove(t, S) PROVE RecentInv'
  <2> DEFINE w == Home[t]
             d == [k \in Keys |-> IF k \in S THEN Absent ELSE local[w][k]]
  <2>1. Held(d) \subseteq Held(local[w])
    BY DEF Held, Absent
  <2>2. /\ local' = [local EXCEPT ![w] = d]
        /\ before' = [before EXCEPT ![w] = Within(before[w], d)]
        /\ UNCHANGED recent
    BY <1>5 DEF LocalRemove
  <2> HIDE DEF d
  <2> QED
    BY <1>0, <1>2, <2>1, <2>2
<1>6. ASSUME NEW t \in Threads, LocalSet(t) PROVE RecentInv'
  <2> DEFINE w == Home[t]
             k == call[t].key
             d == [Prune(local[w]) EXCEPT ![k] = Entry(call[t].text)]
             b == MoveToEnd(Within(before[w], d), d, k)
             e == Evict(b, d)
  <2>1. k \in Keys /\ call[t].text \in Texts
    BY <1>0, <1>6 DEF LocalSet, TypeOK, CallRecord
  <2>2. d \in [Keys -> Slot]
    BY <1>0, <2>1, PruneType, EntryType
  <2>3. IsLast(b, d, k)
    BY MovedIsLast
  <2>4. /\ local' = [local EXCEPT ![w] = e]
        /\ before' = [before EXCEPT ![w] = Within(b, e)]
        /\ recent' = [recent EXCEPT ![w] = k]
    BY <1>6 DEF LocalSet
  <2> HIDE DEF k, d, b
  <2>5. IsLast(Within(b, e), e, k)
    BY <2>2, <2>3, EvictHeld, WithinIsLast
  <2> HIDE DEF e
  <2> QED
    BY <1>0, <2>4, <2>5, RecentEffect
<1>7. ASSUME NEW w \in Workers, Restart(w) PROVE RecentInv'
  <2> DEFINE d == [k \in Keys |-> Absent]
  <2>1. IsLast({}, d, NoKey)
    BY DEF IsLast, Held
  <2>2. /\ local' = [local EXCEPT ![w] = d] /\ before' = [before EXCEPT ![w] = {}]
        /\ recent' = [recent EXCEPT ![w] = NoKey]
    BY <1>7 DEF Restart
  <2> HIDE DEF d
  <2> QED
    BY <1>0, <2>1, <2>2, RecentEffect
<1>8. ASSUME NEW t \in Threads,
             \/ EnterLocal(t) \/ PrimaryGet(t) \/ PrimarySet(t)
             \/ PrimaryDelete(t) \/ PrimaryScan(t) \/ PrimarySweep(t)
             \/ PrimaryInspect(t)
      PROVE  RecentInv'
  <2>1. UNCHANGED <<local, before, recent>>
    BY <1>8 DEF EnterLocal, PrimaryGet, PrimarySet, PrimaryDelete,
                PrimaryScan, PrimarySweep, PrimaryInspect
  <2> QED
    BY <1>1, <2>1
<1>9. CASE Tick \/ UNCHANGED vars
  BY <1>1, <1>9 DEF Tick, vars
<1> QED
  BY <1>3, <1>4, <1>5, <1>6, <1>7, <1>8, <1>9
     DEF Next, ThreadStep, LocalDelete, LocalClear

LEMMA RecentInit == Init => RecentInv
<1> SUFFICES ASSUME Init PROVE RecentInv
  OBVIOUS
<1>1. \A w \in Workers : IsLast(before[w], local[w], recent[w])
  BY CacheAssumption DEF Init, IsLast, Held
<1> QED
  BY <1>1, BoundInit DEF RecentInv

\* An insertion that takes a key out leaves more than two held, and with the
\* key inserted and the key used last there is a third, before both.
LEMMA EvictTakesOlder ==
  ASSUME MaxEntries >= 2, NEW b, StrictOrder(b), NEW d \in [Keys -> Slot],
         NEW k \in Held(d), NEW i \in Held(d),
         \A j \in Held(d) \ {k, i} : <<j, k>> \in b
  PROVE  k \in Held(Evict(b, d))
<1> DEFINE old == Oldest(b, d)
<1>0. /\ MaxEntries \in Nat /\ IsFiniteSet(Held(d)) /\ Cardinality(Held(d)) \in Nat
      /\ old \in Held(d) /\ \A j \in Held(d) : <<j, old>> \notin b
  BY OldestIsFirst, HeldFinite, CacheAssumption
<1>1. CASE Cardinality(Held(d)) <= MaxEntries
  BY <1>0, <1>1 DEF Evict
<1>2. CASE Cardinality(Held(d)) > MaxEntries
  <2>1. \E j \in Held(d) : j \notin {k, i}
    <3>1. IsFiniteSet({k, i}) /\ Cardinality({k, i}) \in Nat /\ Cardinality({k, i}) <= 2
      <4>1. IsFiniteSet({k}) /\ Cardinality({k}) = 1
        BY FS_Singleton
      <4>2. {k, i} = {k} \cup {i}
        OBVIOUS
      <4>3. IsFiniteSet({k} \cup {i})
        BY <4>1, FS_AddElement
      <4>4. Cardinality({k} \cup {i}) = IF i \in {k} THEN Cardinality({k}) ELSE Cardinality({k}) + 1
        BY <4>1, FS_AddElement, Zenon
      <4>5. Cardinality({k} \cup {i}) \in {1, 2}
        BY <4>1, <4>4
      <4> QED
        BY <4>2, <4>3, <4>5
    <3>2. CASE Held(d) \subseteq {k, i}
      <4>1. Cardinality(Held(d)) <= Cardinality({k, i})
        BY <3>1, <3>2, FS_Subset
      <4> QED
        BY <1>0, <1>2, <3>1, <4>1
    <3> QED
      BY <3>2
  <2>2. old # k
    BY <1>0, <2>1
  <2>3. Evict(b, d) = [d EXCEPT ![old] = Absent]
    BY <1>2 DEF Evict
  <2> HIDE DEF old
  <2> QED
    BY <2>2, <2>3 DEF Held
<1> QED
  BY <1>0, <1>1, <1>2

\* The key the cache of a worker stored or hit last is not evicted by the
\* next insertion, as long as it is unexpired and there is room for two
\* (move_to_end and popitem(last=False) in LocalCacheBackend.set).
THEOREM RecentIsKept == Spec => RecentKept
<1>1. ASSUME RecentInv, NEW t \in Threads, LocalSet(t), MaxEntries >= 2,
             recent[Home[t]] \in Keys, Live(local[Home[t]][recent[Home[t]]])
      PROVE  local'[Home[t]][recent[Home[t]]].gen > 0
  <2> DEFINE w == Home[t]
             k == recent[w]
             i == call[t].key
             p == Prune(local[w])
             d == [p EXCEPT ![i] = Entry(call[t].text)]
             c == Within(before[w], d)
             b == MoveToEnd(c, d, i)
  <2>0. /\ TypeOK /\ w \in Workers /\ k \in Keys /\ local[w] \in [Keys -> Slot]
        /\ StrictOrder(before[w]) /\ IsLast(before[w], local[w], k)
    BY <1>1, CacheAssumption DEF RecentInv, BoundInv, TypeOK
  <2>1. i \in Keys /\ call[t].text \in Texts
    BY <1>1, <2>0 DEF LocalSet, TypeOK, CallRecord
  <2>2. /\ p \in [Keys -> Slot] /\ Held(p) \subseteq Held(local[w])
        /\ Entry(call[t].text) \in Slot /\ Entry(call[t].text).gen > 0
    BY <2>0, <2>1, PruneType, PruneHeld, EntryType
  <2>3. k \in Held(local[w]) /\ k \in Held(p)
    BY <1>1, <2>0 DEF Live, Held, Prune
  <2>4. local' = [local EXCEPT ![w] = Evict(b, d)]
    BY <1>1 DEF LocalSet
  <2> HIDE DEF p, k, i, w
  <2>5. d \in [Keys -> Slot] /\ Held(d) = Held(p) \cup {i}
    BY <2>1, <2>2 DEF Held
  <2> HIDE DEF d
  <2>6. StrictOrder(b)
    BY <2>0, <2>5, MoveToEndOrder
  <2>7. ASSUME NEW j \in Held(d) \ {k, i} PROVE <<j, k>> \in b
    <3>1. CASE k = i
      BY <3>1, <2>7 DEF MoveToEnd
    <3>2. CASE k # i
      <4>1. <<j, k>> \in before[w]
        BY <2>0, <2>2, <2>3, <2>5, <2>7 DEF IsLast
      <4>2. <<j, k>> \in c
        BY <4>1, <2>3, <2>5, <2>7 DEF Within
      <4> QED
        BY <4>2, <3>2, <2>7 DEF MoveToEnd
    <3> QED
      BY <3>1, <3>2
  <2> HIDE DEF b
  <2>8. k \in Held(Evict(b, d))
    BY <1>1, <2>3, <2>5, <2>6, <2>7, EvictTakesOlder
  <2>9. local'[w] = Evict(b, d)
    BY <2>0, <2>4 DEF TypeOK
  <2> QED
    BY <2>8, <2>9 DEF Held, w, k
<1>2. RecentInv /\ [Next]_vars =>
        [\A t \in Threads :
           LET w == Home[t]
               k == recent[w]
           IN  /\ LocalSet(t)
               /\ MaxEntries >= 2
               /\ k \in Keys
               /\ Live(local[w][k])
               => local'[w][k].gen > 0]_vars
  BY <1>1
<1> QED
  BY <1>2, RecentInit, RecentStep, PTL DEF Spec, RecentKept

-----------------------------------------------------------------------------
(* One cache for all workers.  As long as Redis answers, the caches of the  *)
(* workers stay empty and Redis holds the newest write of each key.         *)

SharedInv ==
  /\ TypeOK
  /\ \A w \in Workers : backend[w] = "redis"
  /\ \A t \in Threads : call[t].op # "set"
  /\ \A w \in Workers : Held(local[w]) = {}
  /\ \A k \in Held(redis) : redis[k].gen = newest[k]

LEMMA SharedInit ==
  ASSUME RedisConfigured, Outcomes = {"ok"} PROVE Init => SharedInv
<1> SUFFICES ASSUME Init PROVE SharedInv
  OBVIOUS
<1>1. \A w \in Workers : backend[w] = "redis"
  BY DEF Init, Backends
<1>2. \A w \in Workers : Held(local[w]) = {}
  BY DEF Init, Held, Absent
<1>3. Held(redis) = {}
  BY DEF Init, Held, Absent
<1>4. \A t \in Threads : call[t].op # "set"
  BY DEF Init, Idle
<1> QED
  BY <1>1, <1>2, <1>3, <1>4, TypeInit DEF SharedInv

\* What a step must show that leaves the writes alone.
LEMMA SharedEffect ==
  ASSUME SharedInv, TypeOK', UNCHANGED <<backend, newest>>,
         \A t \in Threads : call'[t].op # "set",
         \A w \in Workers : Held(local'[w]) \subseteq Held(local[w]),
         \A k \in Keys : redis'[k] = redis[k] \/ redis'[k].gen = 0
  PROVE  SharedInv'
<1>1. \A w \in Workers : Held(local'[w]) = {}
  BY DEF SharedInv
<1>2. ASSUME NEW k \in Keys, redis'[k].gen > 0 PROVE redis'[k].gen = newest'[k]
  <2>1. redis'[k] = redis[k]
    BY <1>2
  <2>2. k \in Held(redis)
    BY <1>2, <2>1 DEF Held
  <2> QED
    BY <2>1, <2>2 DEF SharedInv
<1> QED
  BY <1>1, <1>2 DEF SharedInv, Held

LEMMA SharedStep ==
  ASSUME RedisConfigured, Outcomes = {"ok"}
  PROVE  SharedInv /\ [Next]_vars => SharedInv'
<1> SUFFICES ASSUME SharedInv, [Next]_vars PROVE SharedInv'
  OBVIOUS
<1> USE CacheAssumption
<1>0. /\ TypeOK /\ TypeOK'
      /\ \A t \in Threads : Home[t] \in Workers /\ backend[Home[t]] = "redis"
      /\ \A w \in Workers : local[w] \in [Keys -> Slot]
      /\ \A t \in Threads : call[t].op # "set"
  BY TypeStep DEF SharedInv, TypeOK
<1>1. ASSUME NEW t \in Threads, call'[t].op # "set",
             \A u \in Threads \ {t} : call'[u] = call[u]
      PROVE  \A u \in Threads : call'[u].op # "set"
  BY <1>0, <1>1
<1>2. ASSUME NEW t \in Threads, NEW op \in {"get", "delete", "clear", "inspect"},
             NEW k, NEW x, NEW mark, NEW reached, Wait(t, op, k, x, mark, reached)
      PROVE  \A u \in Threads : call'[u].op # "set"
  <2>1. call'[t].op = op /\ \A u \in Threads \ {t} : call'[u] = call[u]
    BY <1>0, <1>2 DEF Wait, TypeOK
  <2> QED
    BY <1>1, <2>1
<1>3. ASSUME NEW t \in Threads, Return(t) PROVE \A u \in Threads : call'[u].op # "set"
  <2>1. call'[t].op = "idle" /\ \A u \in Threads \ {t} : call'[u] = call[u]
    BY <1>0, <1>3 DEF Return, Idle, TypeOK
  <2> QED
    BY <1>1, <2>1
<1>4. ASSUME NEW S, NEW k \in Keys
      PROVE  RedisWithout(S)[k] = redis[k] \/ RedisWithout(S)[k].gen = 0
  BY DEF RedisWithout, Absent
<1>5. ASSUME NEW t \in Threads, NEW d, local' = [local EXCEPT ![Home[t]] = d],
             Held(d) \subseteq Held(local[Home[t]])
      PROVE  \A w \in Workers : Held(local'[w]) \subseteq Held(local[w])
  BY <1>0, <1>5 DEF TypeOK
<1>6. ASSUME NEW t \in Threads, EnterLocal(t) PROVE SharedInv'
  BY <1>0, <1>6 DEF EnterLocal, Enters
<1>7. ASSUME NEW t \in Threads, PrimaryGet(t) PROVE SharedInv'
  <2>1. \A u \in Threads : call'[u].op # "set"
    BY <1>0, <1>2, <1>7 DEF PrimaryGet
  <2> QED
    BY <1>0, <1>7, <2>1, SharedEffect DEF PrimaryGet
<1>8. ASSUME NEW t \in Threads, PrimarySet(t) PROVE SharedInv'
  <2>1. PICK k \in Keys, x \in Texts :
          /\ UNCHANGED call
          /\ redis' = [redis EXCEPT ![k] = Entry(x)]
          /\ newest' = [newest EXCEPT ![k] = writes + 1]
    BY <1>8 DEF PrimarySet
  <2>2. Entry(x).gen = writes + 1
    BY DEF Entry
  <2>3. \A j \in Keys : redis'[j].gen > 0 => redis'[j].gen = newest'[j]
    BY <1>0, <2>1, <2>2 DEF SharedInv, Held, TypeOK
  <2>4. UNCHANGED <<local, backend>>
    BY <1>8 DEF PrimarySet
  <2> QED
    BY <1>0, <2>1, <2>3, <2>4 DEF SharedInv, Held
<1>9. ASSUME NEW t \in Threads, PrimaryDelete(t) PROVE SharedInv'
  <2>1. PICK k \in Keys : /\ redis' = RedisWithout({k})
                          /\ Wait(t, "delete", k, Empty, writes, TRUE)
    BY <1>9 DEF PrimaryDelete
  <2>2. \A u \in Threads : call'[u].op # "set"
    BY <1>2, <2>1
  <2> QED
    BY <1>0, <1>4, <1>9, <2>1, <2>2, SharedEffect DEF PrimaryDelete
<1>10. ASSUME NEW t \in Threads, PrimaryScan(t) PROVE SharedInv'
  <2>1. \A u \in Threads : call'[u].op # "set"
    <3>1. CASE \E o : Wait(t, "clear", NoKey, Empty, writes, o)
      BY <1>2, <3>1
    <3>2. CASE ~ \E o : Wait(t, "clear", NoKey, Empty, writes, o)
      <4>1. call' = [call EXCEPT ![t] =
                       [op |-> "sweep", key |-> NoKey, text |-> Empty,
                        scanned |-> Held(redis), mark |-> writes,
                        reached |-> FALSE]]
        BY <1>10, <3>2 DEF PrimaryScan
      <4>2. call'[t].op = "sweep" /\ \A u \in Threads \ {t} : call'[u] = call[u]
        BY <1>0, <4>1 DEF TypeOK
      <4> QED
        BY <1>1, <4>2
    <3> QED
      BY <3>1, <3>2
  <2> QED
    BY <1>0, <1>10, <2>1, SharedEffect DEF PrimaryScan
<1>11. ASSUME NEW t \in Threads, PrimarySweep(t) PROVE SharedInv'
  <2>1. /\ redis' = RedisWithout(call[t].scanned)
        /\ Wait(t, "clear", NoKey, Empty, call[t].mark, TRUE)
    BY <1>11 DEF PrimarySweep
  <2>2. \A u \in Threads : call'[u].op # "set"
    BY <1>2, <2>1
  <2> QED
    BY <1>0, <1>4, <1>11, <2>1, <2>2, SharedEffect DEF PrimarySweep
<1>12. ASSUME NEW t \in Threads, PrimaryInspect(t) PROVE SharedInv'
  <2>1. \A u \in Threads : call'[u].op # "set"
    BY <1>2, <1>12 DEF PrimaryInspect
  <2> QED
    BY <1>0, <1>12, <2>1, SharedEffect DEF PrimaryInspect
<1>13. ASSUME NEW t \in Threads, LocalGet(t) \/ LocalInspect(t) PROVE SharedInv'
  <2> DEFINE d == Prune(local[Home[t]])
  <2>1. Held(d) \subseteq Held(local[Home[t]])
    BY <1>0, PruneHeld
  <2>2. /\ local' = [local EXCEPT ![Home[t]] = d] /\ Return(t)
        /\ UNCHANGED <<redis, backend, newest>>
    BY <1>13 DEF LocalGet, LocalInspect
  <2> HIDE DEF d
  <2> QED
    BY <1>0, <1>3, <1>5, <2>1, <2>2, SharedEffect
<1>14. ASSUME NEW t \in Threads, NEW S, LocalRemove(t, S) PROVE SharedInv'
  <2> DEFINE d == [k \in Keys |-> IF k \in S THEN Absent ELSE local[Home[t]][k]]
  <2>1. Held(d) \subseteq Held(local[Home[t]])
    BY DEF Held, Absent
  <2>2. /\ local' = [local EXCEPT ![Home[t]] = d] /\ Return(t)
        /\ UNCHANGED <<redis, backend, newest>>
    BY <1>14 DEF LocalRemove
  <2> HIDE DEF d
  <2> QED
    BY <1>0, <1>3, <1>5, <2>1, <2>2, SharedEffect
<1>15. ASSUME NEW t \in Threads, LocalSet(t) PROVE SharedInv'
  BY <1>0, <1>15 DEF LocalSet
<1>16. ASSUME NEW w \in Workers, Restart(w) PROVE SharedInv'
  <2>1. \A v \in Workers : backend'[v] = "redis"
    BY <1>0, <1>16 DEF Restart, Backends, SharedInv, TypeOK
  <2>2. \A v \in Workers : Held(local'[v]) = {}
    <3>1. Held([k \in Keys |-> Absent]) = {}
      BY DEF Held, Absent
    <3> QED
      BY <1>0, <1>16, <3>1 DEF Restart, SharedInv, TypeOK
  <2>3. \A t \in Threads : call'[t].op # "set"
    BY <1>0, <1>16 DEF Restart, Idle
  <2> QED
    BY <1>0, <1>16, <2>1, <2>2, <2>3 DEF Restart, SharedInv, Held
<1>17. CASE Tick
  <2>1. \A k \in Keys : redis'[k] = redis[k] \/ redis'[k].gen = 0
    BY <1>17 DEF Tick, Absent
  <2> QED
    BY <1>0, <1>17, <2>1, SharedEffect DEF Tick
<1>18. CASE UNCHANGED vars
  BY <1>0, <1>18, SharedEffect DEF vars
<1> QED
  BY <1>6, <1>7, <1>8, <1>9, <1>10, <1>11, <1>12, <1>13, <1>14, <1>15, <1>16,
     <1>17, <1>18 DEF Next, ThreadStep, LocalDelete, LocalClear

\* While no Redis command fails, a hit is the newest write of its key,
\* whichever worker wrote it: nothing is served from the cache of a worker
\* (FallbackCacheBackend.get / set).
THEOREM HitsAreNewest ==
  ASSUME RedisConfigured, Outcomes = {"ok"} PROVE Spec => HitIsNewest
<1>1. ASSUME SharedInv, NEW t \in Threads, PrimaryGet(t), call'[t] = Idle, answer'.hit
      PROVE  answer'.slot.gen = newest[answer'.key]
  <2>1. PICK k \in Keys :
          \/ k \in Held(redis) /\ answer' = Hit(k, redis[k])
          \/ Wait(t, "get", k, Empty, 0, FALSE)
    BY <1>1 DEF PrimaryGet
  <2>2. CASE Wait(t, "get", k, Empty, 0, FALSE)
    <3>1. call'[t].op = "get"
      BY <1>1, <2>2 DEF Wait, SharedInv, TypeOK
    <3> QED
      BY <1>1, <3>1 DEF Idle
  <2>3. CASE k \in Held(redis) /\ answer' = Hit(k, redis[k])
    <3>1. answer'.slot = redis[k] /\ answer'.key = k
      BY <2>3 DEF Hit
    <3> QED
      BY <1>1, <2>3, <3>1 DEF SharedInv
  <2> QED
    BY <2>1, <2>2, <2>3
<1>2. ASSUME SharedInv, NEW t \in Threads, LocalGet(t), answer'.hit PROVE FALSE
  <2>1. Home[t] \in Workers /\ local[Home[t]] \in [Keys -> Slot]
    BY <1>2, CacheAssumption DEF SharedInv, TypeOK
  <2>2. Held(Prune(local[Home[t]])) = {}
    BY <1>2, <2>1, PruneHeld DEF SharedInv
  <2> QED
    BY <1>2, <2>2 DEF LocalGet, Miss
<1>3. SharedInv /\ [Next]_vars =>
        [\A t \in Threads :
           /\ PrimaryGet(t) \/ LocalGet(t)
           /\ call'[t] = Idle
           /\ answer'.hit
           => answer'.slot.gen = newest[answer'.key]]_vars
  BY <1>1, <1>2
<1> QED
  BY <1>3, SharedInit, SharedStep, PTL DEF Spec, HitIsNewest

-----------------------------------------------------------------------------
(* ProviderCache implements TextCache: its initial states map to initial    *)
(* states, and every step to a Store, a Lookup, a Forget, a Tick or to      *)
(* nothing.                                                                 *)
-----------------------------------------------------------------------------
(* What is in Redis has not expired; the refinement needs it for the hits   *)
(* that Redis answers (a local cache prunes before it looks).               *)

RedisLive == \A k \in Keys : redis[k].gen > 0 => redis[k].until > clock

RefineInv == TypeOK /\ RedisLive

LEMMA RefineInit == Init => RefineInv
BY TypeInit DEF RefineInv, RedisLive, Init, Absent

LEMMA RefineStep == RefineInv /\ [Next]_vars => RefineInv'
<1> SUFFICES ASSUME RefineInv, [Next]_vars PROVE RedisLive'
  BY TypeStep DEF RefineInv
<1>0. TypeOK /\ TypeOK' /\ RedisLive /\ clock \in Nat /\ Ttl \in Nat \ {0}
  BY TypeStep, CacheAssumption DEF RefineInv, TypeOK
<1>1. CASE UNCHANGED <<redis, clock>>
  BY <1>0, <1>1 DEF RedisLive
<1>2. ASSUME NEW S, redis' \in {redis, RedisWithout(S)}, UNCHANGED clock
      PROVE  RedisLive'
  BY <1>0, <1>2 DEF RedisLive, RedisWithout, Absent
<1>3. ASSUME NEW t \in Threads, PrimarySet(t) PROVE RedisLive'
  <2> PICK k \in Keys, x \in Texts, o \in Outcomes :
         IF o = "failed"
         THEN UNCHANGED <<writes, redis, newest>>
         ELSE /\ writes < MaxWrites
              /\ redis' = [redis EXCEPT ![k] = Entry(x)]
              /\ writes' = writes + 1
              /\ newest' = [newest EXCEPT ![k] = writes + 1]
    BY <1>3 DEF PrimarySet
  <2>1. UNCHANGED clock
    BY <1>3 DEF PrimarySet
  <2>2. CASE o = "failed"
    BY <1>1, <2>1, <2>2
  <2>3. CASE o # "failed"
    <3>1. redis' = [redis EXCEPT ![k] = Entry(x)]
      BY <2>3
    <3>2. Entry(x).until > clock
      BY <1>0, EntryType
    <3> QED
      BY <1>0, <2>1, <3>1, <3>2 DEF RedisLive, TypeOK
  <2> QED
    BY <2>2, <2>3
<1>4. CASE Tick
  BY <1>0, <1>4 DEF Tick, RedisLive, Absent
<1>5. ASSUME NEW t \in Threads, PrimaryDelete(t) \/ PrimarySweep(t)
      PROVE  RedisLive'
  <2>1. UNCHANGED clock
    BY <1>5 DEF PrimaryDelete, PrimarySweep
  <2>2. \E S : redis' \in {redis, RedisWithout(S)}
    BY <1>5 DEF PrimaryDelete, PrimarySweep
  <2> QED
    BY <1>2, <2>1, <2>2
<1>6. ASSUME NEW t \in Threads,
             \/ EnterLocal(t) \/ PrimaryGet(t) \/ PrimaryScan(t)
             \/ PrimaryInspect(t) \/ LocalGet(t) \/ LocalSet(t)
             \/ LocalDelete(t) \/ LocalClear(t) \/ LocalInspect(t)
      PROVE  RedisLive'
  <2>1. UNCHANGED <<redis, clock>>
    BY <1>6 DEF EnterLocal, PrimaryGet, PrimaryScan, PrimaryInspect, LocalGet,
                LocalSet, LocalDelete, LocalClear, LocalRemove, LocalInspect
  <2> QED
    BY <1>1, <2>1
<1>7. ASSUME NEW w \in Workers, Restart(w) PROVE RedisLive'
  BY <1>1, <1>7 DEF Restart
<1>8. CASE UNCHANGED vars
  BY <1>1, <1>8 DEF vars
<1> QED
  BY <1>3, <1>4, <1>5, <1>6, <1>7, <1>8 DEF Next, ThreadStep

-----------------------------------------------------------------------------
(* The mapped state.                                                        *)

PutOf(k, e) == [key |-> k, text |-> e.text, until |-> e.until]

LEMMA InKept ==
  ASSUME NEW p
  PROVE  p \in Kept <=> \E k \in Keys : \E e \in Entries(k) :
                          e.gen > 0 /\ p = PutOf(k, e)
BY DEF Kept, PutOf

\* A store keeps what it has, drops it, or takes one new entry of key j.
SlotStep(new, old, k, j, x) ==
  new = old \/ new.gen = 0 \/ (k = j /\ new = Entry(x))

LEMMA KeptStore ==
  ASSUME NEW j \in Keys, NEW x \in Texts,
         \A k \in Keys : SlotStep(redis'[k], redis[k], k, j, x),
         \A w \in Workers, k \in Keys :
           SlotStep(local'[w][k], local[w][k], k, j, x)
  PROVE  Kept' \subseteq Kept \cup {[key |-> j, text |-> x,
                                    until |-> clock + Ttl]}
<1> SUFFICES ASSUME NEW p \in Kept', p \notin Kept
             PROVE  p = [key |-> j, text |-> x, until |-> clock + Ttl]
  OBVIOUS
<1>0. PICK k \in Keys : \E e \in Entries(k)' : e.gen > 0 /\ p = PutOf(k, e)
  BY DEF Kept, PutOf
<1>1. PICK e \in Entries(k)' : e.gen > 0 /\ p = PutOf(k, e)
  BY <1>0
<1>2. e \notin Entries(k)
  BY <1>1, InKept
<1>3. SlotStep(e, e, k, j, x) /\ k = j /\ e = Entry(x)
  BY <1>1, <1>2 DEF Entries, SlotStep
<1> QED
  BY <1>1, <1>3 DEF Entry, PutOf

LEMMA KeptForget ==
  ASSUME \A k \in Keys : redis'[k] = redis[k] \/ redis'[k].gen = 0,
         \A w \in Workers, k \in Keys :
           local'[w][k] = local[w][k] \/ local'[w][k].gen = 0
  PROVE  Kept' \subseteq Kept
<1> SUFFICES ASSUME NEW p \in Kept' PROVE p \in Kept
  OBVIOUS
<1>0. PICK k \in Keys : \E e \in Entries(k)' : e.gen > 0 /\ p = PutOf(k, e)
  BY DEF Kept, PutOf
<1>1. PICK e \in Entries(k)' : e.gen > 0 /\ p = PutOf(k, e)
  BY <1>0
<1>2. e \in Entries(k)
  BY <1>1 DEF Entries
<1> QED
  BY <1>1, <1>2, InKept

LEMMA AnsweredType ==
  ASSUME TypeOK
  PROVE  Answered \in Promise!Answer
BY DEF TypeOK, Answered, Slot, Promise!Answer

LEMMA KeptLocal ==
  ASSUME TypeOK, NEW w \in Workers, NEW d,
         local' = [local EXCEPT ![w] = d], UNCHANGED redis,
         \A k \in Keys : d[k] = local[w][k] \/ d[k].gen = 0
  PROVE  Kept' \subseteq Kept
<1>1. ASSUME NEW v \in Workers, NEW k \in Keys
      PROVE  local'[v][k] = local[v][k] \/ local'[v][k].gen = 0
  <2>1. local'[v] = IF v = w THEN d ELSE local[v]
    BY DEF TypeOK
  <2> QED
    BY <2>1
<1> QED
  BY <1>1, KeptForget

\* A hit maps to a Lookup if the slot it answers is a live one of some store.
LEMMA HitLookup ==
  ASSUME TypeOK', NEW k \in Keys, NEW e \in Entries(k), e.gen > 0,
         e.until > clock, answer' = Hit(k, e), UNCHANGED clock,
         Kept' \subseteq Kept
  PROVE  Promise!Lookup
<1>1. Answered' \in Promise!Answer
  BY DEF TypeOK, Answered, Slot, Promise!Answer
<1>2. PutOf(k, e) \in Kept
  BY InKept
<1>3. /\ PutOf(k, e).key = Answered'.key
      /\ PutOf(k, e).text = Answered'.text
      /\ PutOf(k, e).until = Answered'.until
      /\ PutOf(k, e).until > clock
  BY DEF PutOf, Answered, Hit
<1> QED
  BY <1>1, <1>2, <1>3 DEF Promise!Lookup

LEMMA MissLookup ==
  ASSUME TypeOK', NEW k, answer' = Miss(k), UNCHANGED clock,
         Kept' \subseteq Kept
  PROVE  Promise!Lookup
<1>1. Answered' \in Promise!Answer
  BY DEF TypeOK, Answered, Slot, Promise!Answer
<1>2. ~Answered'.hit
  BY DEF Answered, Miss
<1> QED
  BY <1>1, <1>2 DEF Promise!Lookup

LEMMA ForgetMaps ==
  ASSUME UNCHANGED <<clock, answer>>, Kept' \subseteq Kept
  PROVE  Promise!Forget
BY DEF Promise!Forget, Answered

LEMMA StepMaps ==
  RefineInv /\ RefineInv' /\ [Next]_vars => [Promise!Next]_(Promise!vars)
<1> SUFFICES ASSUME RefineInv, RefineInv', [Next]_vars
             PROVE  [Promise!Next]_(Promise!vars)
  OBVIOUS
<1> USE CacheAssumption
<1>0. /\ TypeOK /\ TypeOK' /\ RedisLive /\ clock \in Nat
      /\ \A t \in Threads : Home[t] \in Workers
      /\ \A w \in Workers : local[w] \in [Keys -> Slot]
  BY DEF RefineInv, TypeOK
<1>1. ASSUME UNCHANGED <<clock, answer, local>>,
             \A k \in Keys : redis'[k] = redis[k] \/ redis'[k].gen = 0
      PROVE  Promise!Next
  BY <1>1, KeptForget, ForgetMaps DEF Promise!Next
<1>3. \A w \in Workers, k \in Keys :
        \/ Prune(local[w])[k] = local[w][k] /\ local[w][k].until > clock
        \/ Prune(local[w])[k].gen = 0
  BY DEF Prune, Live, Absent
<1>4. ASSUME NEW t \in Threads, PrimaryGet(t)
      PROVE  Promise!Next
  <2> PICK k \in Keys, o \in Outcomes :
         IF o = "ok" /\ k \in Held(redis) /\ redis[k].text # Empty
         THEN answer' = Hit(k, redis[k]) /\ UNCHANGED call
         ELSE Wait(t, "get", k, Empty, 0, FALSE) /\ UNCHANGED answer
    BY <1>4 DEF PrimaryGet
  <2>1. UNCHANGED <<clock, local, redis>>
    BY <1>4 DEF PrimaryGet
  <2>2. CASE UNCHANGED answer
    BY <1>1, <2>1, <2>2
  <2>3. CASE k \in Held(redis) /\ answer' = Hit(k, redis[k])
    <3>1. redis[k].gen > 0 /\ redis[k].until > clock
      BY <1>0, <2>3 DEF Held, RedisLive
    <3>2. redis[k] \in Entries(k)
      BY DEF Entries
    <3>3. Kept' \subseteq Kept
      BY <2>1, KeptForget
    <3> QED
      BY <1>0, <2>1, <2>3, <3>1, <3>2, <3>3, HitLookup DEF Promise!Next
  <2> QED
    BY <2>2, <2>3
<1>5. ASSUME NEW t \in Threads, PrimarySet(t) PROVE Promise!Next
  <2> PICK k \in Keys, x \in Texts, o \in Outcomes :
         IF o = "failed"
         THEN UNCHANGED <<writes, redis, newest>>
         ELSE /\ writes < MaxWrites
              /\ redis' = [redis EXCEPT ![k] = Entry(x)]
              /\ writes' = writes + 1
              /\ newest' = [newest EXCEPT ![k] = writes + 1]
    BY <1>5 DEF PrimarySet
  <2>1. UNCHANGED <<clock, local, answer>>
    BY <1>5 DEF PrimarySet
  <2>2. CASE o = "failed"
    BY <1>1, <2>1, <2>2
  <2>3. CASE o # "failed"
    <3>1. redis' = [redis EXCEPT ![k] = Entry(x)]
      BY <2>3
    <3>2. \A j \in Keys : SlotStep(redis'[j], redis[j], j, k, x)
      BY <1>0, <3>1 DEF SlotStep, TypeOK
    <3>3. Kept' \subseteq Kept \cup {[key |-> k, text |-> x,
                                     until |-> clock + Ttl]}
      BY <2>1, <3>2, KeptStore DEF SlotStep
    <3> QED
      BY <2>1, <3>3 DEF Promise!Next, Promise!Store, Answered
  <2> QED
    BY <2>2, <2>3
<1>6. ASSUME NEW t \in Threads, PrimaryDelete(t) \/ PrimarySweep(t)
      PROVE  Promise!Next
  <2>1. UNCHANGED <<clock, local, answer>>
    BY <1>6 DEF PrimaryDelete, PrimarySweep
  <2>2. \E S : redis' \in {redis, RedisWithout(S)}
    BY <1>6 DEF PrimaryDelete, PrimarySweep
  <2>3. \A k \in Keys : redis'[k] = redis[k] \/ redis'[k].gen = 0
    BY <2>2 DEF RedisWithout, Absent
  <2> QED
    BY <1>1, <2>1, <2>3
<1>7. ASSUME NEW t \in Threads,
             EnterLocal(t) \/ PrimaryScan(t) \/ PrimaryInspect(t)
      PROVE  Promise!Next
  <2>1. UNCHANGED <<clock, local, redis, answer>>
    BY <1>7 DEF EnterLocal, PrimaryScan, PrimaryInspect
  <2> QED
    BY <1>1, <2>1
<1>8. ASSUME NEW t \in Threads, LocalGet(t) PROVE Promise!Next
  <2> DEFINE w == Home[t]
             k == call[t].key
             d == Prune(local[w])
  <2>1. /\ local' = [local EXCEPT ![w] = d]
        /\ UNCHANGED <<clock, redis>>
        /\ IF k \in Held(d) THEN answer' = Hit(k, d[k])
           ELSE answer' = Miss(k)
    BY <1>8 DEF LocalGet
  <2>2. Kept' \subseteq Kept
    <3>1. \A i \in Keys : d[i] = local[w][i] \/ d[i].gen = 0
      BY <1>0, <1>3
    <3>2. w \in Workers
      BY <1>0
    <3> HIDE DEF d, w
    <3> QED
      BY <1>0, <2>1, <3>1, <3>2, KeptLocal
  <2>3. CASE k \in Held(d)
    <3>1. k \in Keys /\ d[k].gen > 0
      BY <2>3 DEF Held
    <3>2. d[k] = local[w][k] /\ local[w][k].until > clock
      BY <1>0, <1>3, <3>1
    <3>3. d[k] \in Entries(k)
      BY <1>0, <3>2 DEF Entries
    <3>4. answer' = Hit(k, d[k])
      BY <2>1, <2>3
    <3> HIDE DEF d, k
    <3> QED
      BY <1>0, <2>1, <2>2, <3>1, <3>2, <3>3, <3>4, HitLookup DEF Promise!Next
  <2>4. CASE k \notin Held(d)
    BY <1>0, <2>1, <2>2, <2>4, MissLookup DEF Promise!Next
  <2> QED
    BY <2>3, <2>4
<1>9. ASSUME NEW t \in Threads, LocalInspect(t) PROVE Promise!Next
  <2> DEFINE w == Home[t]
             d == Prune(local[w])
  <2>1. /\ local' = [local EXCEPT ![w] = d]
        /\ UNCHANGED <<clock, redis, answer>>
    BY <1>9 DEF LocalInspect
  <2>2. Kept' \subseteq Kept
    <3>1. \A i \in Keys : d[i] = local[w][i] \/ d[i].gen = 0
      BY <1>0, <1>3
    <3>2. w \in Workers
      BY <1>0
    <3> HIDE DEF d, w
    <3> QED
      BY <1>0, <2>1, <3>1, <3>2, KeptLocal
  <2> QED
    BY <2>1, <2>2, ForgetMaps DEF Promise!Next
<1>10. ASSUME NEW t \in Threads, NEW S, LocalRemove(t, S) PROVE Promise!Next
  <2> DEFINE w == Home[t]
             d == [k \in Keys |-> IF k \in S THEN Absent ELSE local[w][k]]
  <2>1. /\ local' = [local EXCEPT ![w] = d]
        /\ UNCHANGED <<clock, redis, answer>>
    BY <1>10 DEF LocalRemove
  <2>2. \A k \in Keys : d[k] = local[w][k] \/ d[k].gen = 0
    BY DEF Absent
  <2>3. Kept' \subseteq Kept
    <3>1. w \in Workers
      BY <1>0
    <3> HIDE DEF d, w
    <3> QED
      BY <1>0, <2>1, <2>2, <3>1, KeptLocal
  <2> QED
    BY <2>1, <2>3, ForgetMaps DEF Promise!Next
<1>11. ASSUME NEW t \in Threads, LocalSet(t) PROVE Promise!Next
  <2> DEFINE w == Home[t]
             j == call[t].key
             x == call[t].text
             d == [Prune(local[w]) EXCEPT ![j] = Entry(x)]
             b == MoveToEnd(Within(before[w], d), d, j)
             e == Evict(b, d)
  <2>1. /\ local' = [local EXCEPT ![w] = e]
        /\ UNCHANGED <<clock, redis, answer>>
    BY <1>11 DEF LocalSet
  <2>2. j \in Keys /\ x \in Texts
    BY <1>0, <1>11 DEF LocalSet, TypeOK, CallRecord
  <2>3. d \in [Keys -> Slot]
    <3>1. Prune(local[w]) \in [Keys -> Slot] /\ Entry(x) \in Slot
      BY <1>0, <2>2, PruneType, EntryType
    <3> QED
      BY <2>2, <3>1
  <2>4. ASSUME NEW k \in Keys PROVE SlotStep(e[k], local[w][k], k, j, x)
    <3>1. e[k] = d[k] \/ e[k].gen = 0
      BY <2>3 DEF Evict, Absent
    <3>2. SlotStep(d[k], local[w][k], k, j, x)
      <4>1. Prune(local[w]) \in [Keys -> Slot]
        BY <1>0, PruneType
      <4> QED
        BY <1>0, <1>3, <2>2, <4>1 DEF SlotStep
    <3> QED
      BY <3>1, <3>2 DEF SlotStep
  <2> HIDE DEF e, d, b
  <2>5. \A v \in Workers, k \in Keys :
          SlotStep(local'[v][k], local[v][k], k, j, x)
    BY <1>0, <2>1, <2>4 DEF SlotStep, TypeOK
  <2>6. Kept' \subseteq Kept \cup {[key |-> j, text |-> x,
                                   until |-> clock + Ttl]}
    BY <2>1, <2>2, <2>5, KeptStore DEF SlotStep
  <2> QED
    BY <2>1, <2>2, <2>6 DEF Promise!Next, Promise!Store, Answered
<1>12. ASSUME NEW w \in Workers, Restart(w) PROVE Promise!Next
  <2>1. /\ local' = [local EXCEPT ![w] = [k \in Keys |-> Absent]]
        /\ UNCHANGED <<clock, redis, answer>>
    BY <1>12 DEF Restart
  <2>2. Kept' \subseteq Kept
    <3>1. \A k \in Keys : [i \in Keys |-> Absent][k].gen = 0
      BY DEF Absent
    <3> QED
      BY <1>0, <2>1, <3>1, KeptLocal
  <2> QED
    BY <2>1, <2>2, ForgetMaps DEF Promise!Next
<1>13. CASE Tick
  <2>1. /\ clock' = clock + 1 /\ UNCHANGED <<local, answer>>
        /\ \A k \in Keys : redis'[k] = redis[k] \/ redis'[k].gen = 0
    BY <1>13 DEF Tick, Absent
  <2>2. Kept' \subseteq Kept
    BY <2>1, KeptForget
  <2> QED
    BY <2>1, <2>2 DEF Promise!Next, Promise!Tick, Answered
<1>14. CASE UNCHANGED vars
  BY <1>14 DEF vars, Promise!vars, Kept, Entries, Answered
<1> QED
  BY <1>4, <1>5, <1>6, <1>7, <1>8, <1>9, <1>10, <1>11, <1>12, <1>13, <1>14
     DEF Next, ThreadStep, LocalDelete, LocalClear

LEMMA InitMaps == Init => Promise!Init
<1> SUFFICES ASSUME Init PROVE Promise!Init
  OBVIOUS
<1>1. Kept = {}
  <2> SUFFICES ASSUME NEW p \in Kept PROVE FALSE
    OBVIOUS
  <2>1. PICK k \in Keys : \E e \in Entries(k) : e.gen > 0
    BY InKept
  <2> QED
    BY <2>1 DEF Init, Entries, Absent
<1>2. Answered \in Promise!Answer /\ ~Answered.hit
  <2>1. Answered \in Promise!Answer
    BY TypeInit, AnsweredType
  <2>2. PICK k \in Keys : answer = Miss(k)
    BY DEF Init
  <2> QED
    BY <2>1, <2>2 DEF Answered, Miss
<1> QED
  BY <1>1, <1>2 DEF Init, Promise!Init

\* Whatever happens to Redis and to the workers, a get answers nothing or a
\* text that was put under its key less than Ttl ago.
THEOREM ImplementsTextCache == Spec => Promised
<1> QED
  BY InitMaps, StepMaps, RefineInit, RefineStep, PTL
     DEF Spec, Promised, Promise!Spec
=============================================================================
