---------------------------- MODULE ProviderCache ----------------------------
(***************************************************************************)
(* The answer cache of one AI provider                                     *)
(* (app/services/providers/_cache.py): every uvicorn worker process holds  *)
(* an in-process LRU cache with a time to live (LocalCacheBackend); when a *)
(* Redis is configured and answered the ping at start-up the worker puts   *)
(* it in front of the local cache (FallbackCacheBackend).                  *)
(*                                                                         *)
(* A call on the composite backend is two steps, the primary's and the     *)
(* fallback's, because other threads and workers run between them.  A      *)
(* Redis command is applied and answered ("ok"), not applied ("failed") or *)
(* applied with its reply lost ("lost": the client's socket timeout); the  *)
(* code sees the last two as the same exception.                           *)
(*                                                                         *)
(* An OrderedDict is a map and the order of its keys: before[w] relates    *)
(* every key to the keys that were used after it.                          *)
(***************************************************************************)
EXTENDS Integers, FiniteSets

CONSTANTS
  Workers,         \* uvicorn worker processes
  Threads,         \* threads of the workers that may call the cache
  Home,            \* Home[t] is the worker of thread t
  Keys,            \* cache keys (make_cache_key digests)
  NoKey,           \* "no key": clear and inspect take none
  Texts,           \* answer texts
  Empty,           \* the empty text, one of Texts
  MaxEntries,      \* max_entries of the local cache
  Ttl,             \* ttl_seconds, in clock units
  RedisConfigured, \* cache_backend_type == "redis" and a redis_url is set
  Outcomes,        \* what may happen to a Redis command
  MaxWrites,       \* bound: writes that reach a store
  MaxClock         \* bound: clock units

ASSUME CacheAssumption ==
  /\ Home \in [Threads -> Workers]
  /\ IsFiniteSet(Keys)
  /\ NoKey \notin Keys
  /\ Empty \in Texts
  /\ MaxEntries \in Nat
  /\ Ttl \in Nat \ {0}
  /\ RedisConfigured \in BOOLEAN
  /\ Outcomes \subseteq {"ok", "failed", "lost"}
  /\ MaxWrites \in Nat
  /\ MaxClock \in Nat

VARIABLES
  clock,    \* monotonic(), and the clock of Redis
  writes,   \* history: number of writes that reached a store
  local,    \* local[w][k]: what the OrderedDict of w holds for k
  before,   \* before[w]: the pairs <<j, k>> of keys, j less recently used
  redis,    \* redis[k]: what Redis holds for k
  backend,  \* backend[w]: "redis" (FallbackCacheBackend) or "local"
  call,     \* call[t]: the backend call thread t is in
  answer,   \* the last answer a get returned
  recent,   \* history: recent[w] is the last key w's local cache stored or hit
  newest,   \* history: newest[k] is the last write of k to any store
  floor     \* history: floor[w][k]: a delete of k that w completed at this
            \* write count removed k from every store w reads

vars == <<clock, writes, local, before, redis, backend, call, answer,
          recent, newest, floor>>

-----------------------------------------------------------------------------
(* Entries.  gen numbers the writes; 0 says that there is no entry.         *)

Slot   == [text : Texts, until : Nat, gen : Nat]
Absent == [text |-> Empty, until |-> 0, gen |-> 0]
\* mutant: the time to live is subtracted
Entry_Subtracted(x) ==
  [text |-> x, until |-> clock - Ttl, gen |-> writes + 1]
Entry(x) == [text |-> x, until |-> clock + Ttl, gen |-> writes + 1]

Held(d) == {k \in Keys : d[k].gen > 0}
\* mutant: an entry is served at the very instant it expires
Live_AtExpiry(slot) == slot.gen > 0 /\ slot.until >= clock
Live(slot) == slot.gen > 0 /\ slot.until > clock

Within(b, d) == {p \in b : p[1] \in Held(d) /\ p[2] \in Held(d)}

\* _prune_expired_locked
Prune(d) == [k \in Keys |-> IF Live(d[k]) THEN d[k] ELSE Absent]

\* mutant: no move_to_end, a key keeps the place of its first insertion
MoveToEnd_InsertionOrder(b, d, k) ==
  IF \E p \in b : k \in {p[1], p[2]} THEN b
  ELSE b \cup {<<j, k>> : j \in Held(d) \ {k}}
\* OrderedDict.move_to_end
MoveToEnd(b, d, k) ==
  {p \in b : p[1] # k /\ p[2] # k} \cup {<<j, k>> : j \in Held(d) \ {k}}

\* OrderedDict.popitem(last=False) takes the key that nothing precedes
Oldest(b, d) == CHOOSE k \in Held(d) : \A j \in Held(d) : <<j, k>> \notin b

\* mutant: the loop lets one entry too many stay
Evict_OffByOne(b, d) ==
  IF Cardinality(Held(d)) > MaxEntries + 1
  THEN [d EXCEPT ![Oldest(b, d)] = Absent]
  ELSE d

\* The while loop of LocalCacheBackend.set: one set makes the cache too large
\* by at most one entry, so the body runs at most once (see LocalBounded).
Evict(b, d) ==
  IF Cardinality(Held(d)) > MaxEntries
  THEN [d EXCEPT ![Oldest(b, d)] = Absent]
  ELSE d

\* A call in flight waits for the lock of the local cache, or ("sweep") is a
\* clear between the scan of Redis and the DEL of what it found.
Idle == [op |-> "idle", key |-> NoKey, text |-> Empty, scanned |-> {},
         mark |-> 0, reached |-> FALSE]

Miss(k) == [key |-> k, hit |-> FALSE, slot |-> Absent]
Hit(k, slot) == [key |-> k, hit |-> TRUE, slot |-> slot]

-----------------------------------------------------------------------------
(* create_provider_cache: Redis is used only if it answered the ping.       *)

Backends ==
  IF ~RedisConfigured THEN {"local"}
  ELSE {"redis"} \cup (IF Outcomes = {"ok"} THEN {} ELSE {"local"})

Init ==
  /\ clock = 0
  /\ writes = 0
  /\ local = [w \in Workers |-> [k \in Keys |-> Absent]]
  /\ before = [w \in Workers |-> {}]
  /\ redis = [k \in Keys |-> Absent]
  /\ backend \in [Workers -> Backends]
  /\ call = [t \in Threads |-> Idle]
  /\ answer \in {Miss(k) : k \in Keys}
  /\ recent = [w \in Workers |-> NoKey]
  /\ newest = [k \in Keys |-> 0]
  /\ floor = [w \in Workers |-> [k \in Keys |-> 0]]

Wait(t, op, k, x, mark, reached) ==
  call' = [call EXCEPT ![t] =
             [op |-> op, key |-> k, text |-> x, scanned |-> {},
              mark |-> mark, reached |-> reached]]
Return(t) == call' = [call EXCEPT ![t] = Idle]

Enters(t, b) == call[t] = Idle /\ backend[Home[t]] = b

\* A worker without Redis calls its local cache; a delete there has no
\* primary to reach.
EnterLocal(t) ==
  /\ Enters(t, "local")
  /\ \/ \E k \in Keys : \/ Wait(t, "get", k, Empty, 0, FALSE)
                        \/ \E x \in Texts : Wait(t, "set", k, x, 0, FALSE)
                        \/ Wait(t, "delete", k, Empty, writes, TRUE)
     \/ Wait(t, "clear", NoKey, Empty, writes, TRUE)
     \/ Wait(t, "inspect", NoKey, Empty, 0, FALSE)
  /\ UNCHANGED <<clock, writes, local, before, redis, backend, answer,
                 recent, newest, floor>>

-----------------------------------------------------------------------------
(* The primary's step of each operation.                                    *)

\* RedisCacheBackend.get answers None for an empty text.
PrimaryGet(t) ==
  /\ Enters(t, "redis")
  /\ \E k \in Keys, o \in Outcomes :
       IF o = "ok" /\ k \in Held(redis) /\ redis[k].text # Empty
       THEN answer' = Hit(k, redis[k]) /\ UNCHANGED call
       ELSE Wait(t, "get", k, Empty, 0, FALSE) /\ UNCHANGED answer
  /\ UNCHANGED <<clock, writes, local, before, redis, backend,
                 recent, newest, floor>>

\* mutant: no return after the primary took the write
PrimarySet_WriteThrough(t) ==
  /\ Enters(t, "redis")
  /\ writes < MaxWrites
  /\ \E k \in Keys, x \in Texts :
       /\ Wait(t, "set", k, x, 0, FALSE)
       /\ redis' = [redis EXCEPT ![k] = Entry(x)]
       /\ newest' = [newest EXCEPT ![k] = writes + 1]
  /\ writes' = writes + 1
  /\ UNCHANGED <<clock, local, before, backend, answer, recent, floor>>

PrimarySet(t) ==
  /\ Enters(t, "redis")
  /\ \E k \in Keys, x \in Texts, o \in Outcomes :
       /\ IF o = "ok" THEN UNCHANGED call
          ELSE Wait(t, "set", k, x, 0, FALSE)
       /\ IF o = "failed"
          THEN UNCHANGED <<writes, redis, newest>>
          ELSE /\ writes < MaxWrites
               /\ redis' = [redis EXCEPT ![k] = Entry(x)]
               /\ writes' = writes + 1
               /\ newest' = [newest EXCEPT ![k] = writes + 1]
  /\ UNCHANGED <<clock, local, before, backend, answer, recent, floor>>

\* mutant: DEL of the keys without their prefix, which removes nothing
RedisWithout_Unprefixed(S) == redis

\* DEL of the keys S
RedisWithout(S) == [k \in Keys |-> IF k \in S THEN Absent ELSE redis[k]]

PrimaryDelete(t) ==
  /\ Enters(t, "redis")
  /\ \E k \in Keys, o \in Outcomes :
       /\ redis' = IF o = "failed" THEN redis ELSE RedisWithout({k})
       /\ Wait(t, "delete", k, Empty, writes, o # "failed")
  /\ UNCHANGED <<clock, writes, local, before, backend, answer,
                 recent, newest, floor>>

\* RedisCacheBackend.clear: first the scan ...
PrimaryScan(t) ==
  /\ Enters(t, "redis")
  /\ \E o \in Outcomes :
       IF o = "ok" /\ Held(redis) # {}
       THEN call' = [call EXCEPT ![t] =
                       [op |-> "sweep", key |-> NoKey, text |-> Empty,
                        scanned |-> Held(redis), mark |-> writes,
                        reached |-> FALSE]]
       ELSE Wait(t, "clear", NoKey, Empty, writes, o = "ok")
  /\ UNCHANGED <<clock, writes, local, before, redis, backend, answer,
                 recent, newest, floor>>

\* ... then one DEL of the keys it found.
PrimarySweep(t) ==
  /\ call[t].op = "sweep"
  /\ \E o \in Outcomes :
       /\ redis' = IF o = "failed" THEN redis
                   ELSE RedisWithout(call[t].scanned)
       /\ Wait(t, "clear", NoKey, Empty, call[t].mark, o # "failed")
  /\ UNCHANGED <<clock, writes, local, before, backend, answer,
                 recent, newest, floor>>

\* inspect_entries answers from Redis, and changes nothing, if Redis has any.
PrimaryInspect(t) ==
  /\ Enters(t, "redis")
  /\ Outcomes # {"ok"} \/ Held(redis) = {}
  /\ Wait(t, "inspect", NoKey, Empty, 0, FALSE)
  /\ UNCHANGED <<clock, writes, local, before, redis, backend, answer,
                 recent, newest, floor>>

-----------------------------------------------------------------------------
(* The fallback's step: LocalCacheBackend, each operation under its RLock.  *)

LocalGet(t) ==
  /\ call[t].op = "get"
  /\ LET w == Home[t]
         k == call[t].key
         d == Prune(local[w])
     IN  /\ local' = [local EXCEPT ![w] = d]
         /\ IF k \in Held(d)
            THEN /\ answer' = Hit(k, d[k])
                 /\ before' = [before EXCEPT ![w] =
                                 MoveToEnd(Within(before[w], d), d, k)]
                 /\ recent' = [recent EXCEPT ![w] = k]
            ELSE /\ answer' = Miss(k)
                 /\ before' = [before EXCEPT ![w] = Within(before[w], d)]
                 /\ UNCHANGED recent
  /\ Return(t)
  /\ UNCHANGED <<clock, writes, redis, backend, newest, floor>>

LocalSet(t) ==
  /\ call[t].op = "set"
  /\ writes < MaxWrites
  /\ LET w == Home[t]
         k == call[t].key
         d == [Prune(local[w]) EXCEPT ![k] = Entry(call[t].text)]
         b == MoveToEnd(Within(before[w], d), d, k)
         e == Evict(b, d)
     IN  /\ local' = [local EXCEPT ![w] = e]
         /\ before' = [before EXCEPT ![w] = Within(b, e)]
         /\ recent' = [recent EXCEPT ![w] = k]
         /\ newest' = [newest EXCEPT ![k] = writes + 1]
  /\ writes' = writes + 1
  /\ Return(t)
  /\ UNCHANGED <<clock, redis, backend, answer, floor>>

\* LocalCacheBackend.delete / clear; floor moves only if the primary's step
\* removed what it held, too.
LocalRemove(t, S) ==
  /\ LET w == Home[t]
         d == [k \in Keys |-> IF k \in S THEN Absent ELSE local[w][k]]
     IN  /\ local' = [local EXCEPT ![w] = d]
         /\ before' = [before EXCEPT ![w] = Within(before[w], d)]
         /\ floor' = IF ~call[t].reached THEN floor
                     ELSE [floor EXCEPT ![w] =
                             [k \in Keys |->
                                IF k \in S /\ floor[w][k] < call[t].mark
                                THEN call[t].mark ELSE floor[w][k]]]
  /\ Return(t)
  /\ UNCHANGED <<clock, writes, redis, backend, answer, recent, newest>>

LocalDelete(t) ==
  /\ call[t].op = "delete"
  /\ LocalRemove(t, {call[t].key})

LocalClear(t) ==
  /\ call[t].op = "clear"
  /\ LocalRemove(t, Keys)

LocalInspect(t) ==
  /\ call[t].op = "inspect"
  /\ LET w == Home[t]
         d == Prune(local[w])
     IN  /\ local' = [local EXCEPT ![w] = d]
         /\ before' = [before EXCEPT ![w] = Within(before[w], d)]
  /\ Return(t)
  /\ UNCHANGED <<clock, writes, redis, backend, answer,
                 recent, newest, floor>>

-----------------------------------------------------------------------------
(* The environment: time passes (Redis drops what expires), and a worker    *)
(* process is restarted with an empty local cache.  A floor that only a     *)
(* local delete set dies with it.                                           *)

Tick ==
  /\ clock < MaxClock
  /\ clock' = clock + 1
  /\ redis' = [k \in Keys |-> IF redis[k].until > clock + 1 THEN redis[k]
                              ELSE Absent]
  /\ UNCHANGED <<writes, local, before, backend, call, answer,
                 recent, newest, floor>>

Restart(w) ==
  /\ local' = [local EXCEPT ![w] = [k \in Keys |-> Absent]]
  /\ before' = [before EXCEPT ![w] = {}]
  /\ recent' = [recent EXCEPT ![w] = NoKey]
  /\ call' = [t \in Threads |-> IF Home[t] = w THEN Idle ELSE call[t]]
  /\ \E m \in Backends : backend' = [backend EXCEPT ![w] = m]
  /\ floor' = IF backend[w] = "redis" THEN floor
              ELSE [floor EXCEPT ![w] = [k \in Keys |-> 0]]
  /\ UNCHANGED <<clock, writes, redis, answer, newest>>

ThreadStep(t) ==
  \/ EnterLocal(t)
  \/ PrimaryGet(t) \/ PrimarySet(t) \/ PrimaryDelete(t)
  \/ PrimaryScan(t) \/ PrimarySweep(t) \/ PrimaryInspect(t)
  \/ LocalGet(t) \/ LocalSet(t) \/ LocalDelete(t) \/ LocalClear(t)
  \/ LocalInspect(t)

Next ==
  \/ \E t \in Threads : ThreadStep(t)
  \/ \E w \in Workers : Restart(w)
  \/ Tick

Spec == Init /\ [][Next]_vars

-----------------------------------------------------------------------------
(* Properties.                                                              *)

CallRecord ==
  {c \in [op : {"idle", "get", "set", "delete", "clear", "inspect", "sweep"},
          key : Keys \cup {NoKey}, text : Texts,
          scanned : SUBSET Keys, mark : Nat, reached : BOOLEAN] :
     c.op \in {"get", "set", "delete"} => c.key # NoKey}

\* Every variable has its type.
TypeOK ==
  /\ clock \in Nat
  /\ writes \in Nat
  /\ local \in [Workers -> [Keys -> Slot]]
  /\ before \in [Workers -> SUBSET (Keys \X Keys)]
  /\ redis \in [Keys -> Slot]
  /\ backend \in [Workers -> {"redis", "local"}]
  /\ call \in [Threads -> CallRecord]
  /\ answer \in [key : Keys, hit : BOOLEAN, slot : Slot]
  /\ recent \in [Workers -> Keys \cup {NoKey}]
  /\ newest \in [Keys -> Nat]
  /\ floor \in [Workers -> [Keys -> Nat]]

\* The in-process cache of a worker never holds more than max_entries keys
\* (LocalCacheBackend.set: the while loop after the insertion).
LocalBounded == \A w \in Workers : Cardinality(Held(local[w])) <= MaxEntries

\* A key a worker has deleted (or cleared) from the stores it reads stays
\* deleted for that worker until somebody writes it again: no outage, lost
\* reply, restart or overlapping call of another thread brings back an entry
\* written before the delete was called (FallbackCacheBackend.delete / clear
\* followed by any get).
DeleteSticks ==
  \A w \in Workers, k \in Keys :
    /\ local[w][k].gen > 0 => local[w][k].gen > floor[w][k]
    /\ backend[w] = "redis" /\ redis[k].gen > 0 => redis[k].gen > floor[w][k]

\* The key a worker's local cache stored or hit last is not the one the next
\* insertion evicts, as long as it is unexpired and there is room for two
\* (the two move_to_end calls of LocalCacheBackend).
RecentKept ==
  [][\A t \in Threads :
       LET w == Home[t]
           k == recent[w]
       IN  /\ LocalSet(t)
           /\ MaxEntries >= 2
           /\ k \in Keys
           /\ Live(local[w][k])
           => local'[w][k].gen > 0]_vars

\* While no Redis command fails, the workers share one cache: a hit is always
\* the newest write of its key, whichever worker wrote it
\* (FallbackCacheBackend.get / set).
HitIsNewest ==
  [][\A t \in Threads :
       /\ PrimaryGet(t) \/ LocalGet(t)
       /\ call'[t] = Idle
       /\ answer'.hit
       => answer'.slot.gen = newest[answer'.key]]_vars

\* The cache as the abstract TextCache: what some store holds is kept.
Entries(k) ==
  {redis[k]} \cup {local[w][k] : w \in Workers}

Kept ==
  UNION {{[key |-> k, text |-> e.text, until |-> e.until] :
            e \in {f \in Entries(k) : f.gen > 0}} : k \in Keys}

Answered == [key |-> answer.key, hit |-> answer.hit,
             text |-> answer.slot.text, until |-> answer.slot.until]

Promise == INSTANCE TextCache WITH kept <- Kept, answer <- Answered

\* ProviderCache implements TextCache: through outages, lost replies,
\* evictions, deletes and restarts a get answers nothing or a text that was
\* put under its key less than ttl_seconds ago (FallbackCacheBackend.get).
Promised == Promise!Spec
=============================================================================
