-------------------------- MODULE CalcMemo_proofs --------------------------
(***************************************************************************)
(* For any number of threads, any questions, any library that keeps the    *)
(* contract of CalcMemo and any size of the memos: each memo keeps its     *)
(* size, and a request that is answered an error, or another body's        *)
(* position, although the resources give one, owes it to attempts that do  *)
(* not set the path.                                                       *)
(***************************************************************************)
EXTENDS CalcMemo, FiniteSetTheorems, TLAPS

Right(q) == AnswerOf[Resources][q]

\* An answer that comes through the memo m for the question q
Sound(m, q, a) ==
    /\ a \in {Right(q), Error}
    /\ a # Right(q) => <<m, q>> \in blind

\* The memos hold such answers only.
MemoSound ==
    \A m \in Memos, q \in Questions : memo[m][q] # Absent => Sound(m, q, memo[m][q])

\* A thread whose attempt sets the path has the directory.
PathsReady ==
    \A t \in Threads :
        request[t] # Idle /\ Attempt(request[t], request[t].n).sets => path[t] = Resources

\* A request has a sound answer from its attempt, and earlier attempts got
\* the error.
Answered(r) == r.at \in {"keep", "judge"} => Sound(Through(r, r.n), Body(r, r.n), r.a)
Failed(r, k) == Right(Body(r, k)) # Error => <<Through(r, k), Body(r, k)>> \in blind
RequestsSound ==
    \A t \in Threads :
        request[t] # Idle =>
            /\ Answered(request[t])
            /\ \A k \in DOMAIN Plan[request[t].by] : k < request[t].n => Failed(request[t], k)

\* OnlyBlindThreadsMislead is not inductive: the answer a thread returns comes
\* out of a memo, and the memo's from the library of another thread.
SoundInv == MemoSound /\ PathsReady /\ RequestsSound

-----------------------------------------------------------------------------
(* The plans.                                                              *)

Attempts == [memo : Memos, sets : BOOLEAN, other : BOOLEAN]

\* Another body is asked for by age_points only, and last.
LEMMA PlanFacts ==
    ASSUME NEW h \in Handlers
    PROVE  /\ Len(Plan[h]) \in Nat \ {0} /\ DOMAIN Plan[h] = 1..Len(Plan[h])
           /\ \A n \in DOMAIN Plan[h] :
                /\ Plan[h][n] \in Attempts
                /\ Plan[h][n].other => h = "age_points" /\ n = Len(Plan[h])
<1> DEFINE A(m) == [memo |-> m, sets |-> FALSE, other |-> FALSE]
           S(m) == [memo |-> m, sets |-> TRUE, other |-> FALSE]
           O(m) == [memo |-> m, sets |-> FALSE, other |-> TRUE]
<1>1. \A m \in Memos : /\ A(m) \in Attempts /\ S(m) \in Attempts /\ O(m) \in Attempts
                       /\ ~A(m).other /\ ~S(m).other
    BY DEF Attempts
<1>2. Handlers = {"charts", "positions", "solar", "age_points"}
    BY DEF Handlers, Plan
<1>3. CASE h = "charts"
    <2>1. Plan[h] = <<S("calc_ut"), S("calc_ut")>>
        BY <1>3 DEF Plan, SetAsk
    <2> HIDE DEF A, S, O
    <2> QED
        BY <1>1, <2>1 DEF Memos
<1>4. CASE h = "positions"
    <2>1. Plan[h] = <<A("calc_ut"), S("calc_ut")>>
        BY <1>4 DEF Plan, SetAsk, Ask
    <2> HIDE DEF A, S, O
    <2> QED
        BY <1>1, <2>1 DEF Memos
<1>5. CASE h = "solar"
    <2>1. Plan[h] = <<A("with_speed"), S("with_speed"), A("with_speed"), S("with_speed"),
                      A("calc_ut"), S("calc_ut")>>
        BY <1>5 DEF Plan, SetAsk, Ask
    <2> HIDE DEF A, S, O
    <2> QED
        BY <1>1, <2>1 DEF Memos
<1>6. CASE h = "age_points"
    <2>1. Plan[h] = <<A("calc"), S("calc"), O("calc")>>
        BY <1>6 DEF Plan, SetAsk, Ask, AskOther
    <2> HIDE DEF A, S, O
    <2> QED
        BY <1>1, <1>6, <2>1 DEF Memos
<1> QED
    BY <1>2, <1>3, <1>4, <1>5, <1>6

-----------------------------------------------------------------------------
(* Types.                                                                  *)

\* A thread at work has a request, which asks for a question through a memo.
LEMMA RequestFacts ==
    ASSUME NEW r \in Requests
    PROVE  /\ r.at \in {"look", "keep", "judge"} /\ r.by \in Handlers /\ r.q \in Wanted
           /\ r.n \in Nat /\ r.n \in DOMAIN Plan[r.by] /\ r.a \in Answers
           /\ Through(r, r.n) \in Memos /\ Body(r, r.n) \in Questions
<1>1. /\ r.at \in {"look", "keep", "judge"} /\ r.by \in Handlers /\ r.q \in Wanted
      /\ r.n \in Nat /\ r.n \in DOMAIN Plan[r.by] /\ r.a \in Answers
    BY DEF Requests
<1>2. Plan[r.by][r.n] \in Attempts
    BY <1>1, PlanFacts
<1>3. Through(r, r.n) \in Memos
    BY <1>2 DEF Through, Attempt, Attempts
<1>4. Body(r, r.n) \in Questions
    BY <1>1, CalcMemoAssumption DEF Body
<1> QED
    BY <1>1, <1>3, <1>4

\* What a request becomes
Moved(r, at, a) == [r EXCEPT !.at = at, !.a = a]

LEMMA MovedFacts ==
    ASSUME NEW r \in Requests, NEW at \in {"look", "keep", "judge"}, NEW a \in Answers,
           NEW s, s = Moved(r, at, a)
    PROVE  /\ s \in Requests /\ s.at = at /\ s.a = a
           /\ s.by = r.by /\ s.q = r.q /\ s.n = r.n
BY DEF Requests, Moved

\* A request that asks again
Again(r) == [r EXCEPT !.at = "look", !.n = r.n + 1]

LEMMA NextAttempt ==
    ASSUME NEW r \in Requests, ~Last(r), NEW s, s = Again(r)
    PROVE  /\ s \in Requests /\ s.at = "look" /\ s.a = r.a
           /\ s.by = r.by /\ s.q = r.q /\ s.n = r.n + 1
<1>1. r.by \in Handlers /\ r.n \in Nat /\ r.n \in DOMAIN Plan[r.by] /\ r.n # Len(Plan[r.by])
    BY RequestFacts DEF Last
<1>2. r.n + 1 \in DOMAIN Plan[r.by] /\ r.n + 1 \in Nat
    BY <1>1, PlanFacts
<1> QED
    BY <1>2 DEF Requests, Again

\* A thread that is at some step is at work.
LEMMA AtWork ==
    ASSUME TypeOK, NEW t \in Threads, request[t].at # "idle"
    PROVE  request[t] \in Requests
BY DEF TypeOK, Idle

\* The requests of the threads after a step of one of them.
LEMMA RequestTypes ==
    ASSUME TypeOK, NEW t \in Threads, NEW r \in Requests \cup {Idle}
    PROVE  [request EXCEPT ![t] = r] \in [Threads -> Requests \cup {Idle}]
BY DEF TypeOK

\* A memo that keeps one answer more keeps its size.
LEMMA KeptTypes ==
    ASSUME TypeOK, NEW m \in Memos, NEW q \in Questions, memo[m][q] = Absent,
           NEW a \in Answers, NEW e \in Kept(m, q, a)
    PROVE  /\ e \in [Questions -> Answers \cup {Absent}]
           /\ Cardinality({k \in Questions : e[k] # Absent}) <= MaxSize
<1> DEFINE H == {k \in Questions : e[k] # Absent}
<1> PICK f : f = memo[m]
    OBVIOUS
<1> PICK G : G = Held(m)
    OBVIOUS
<1>0. G = {k \in Questions : f[k] # Absent}
    BY DEF Held
<1>1. /\ IsFiniteSet(G) /\ G \subseteq Questions /\ q \notin G
      /\ a # Absent /\ MaxSize \in Nat \ {0} /\ Cardinality(G) <= MaxSize
      /\ f \in [Questions -> Answers \cup {Absent}]
    BY <1>0, FS_Subset, CalcMemoAssumption DEF TypeOK
<1>2. /\ IsFiniteSet(G \cup {q}) /\ Cardinality(G) \in Nat
      /\ Cardinality(G \cup {q}) = Cardinality(G) + 1
    BY <1>1, FS_AddElement, FS_CardinalityType
<1>3. CASE Cardinality(G) < MaxSize
    <2>1. e = [f EXCEPT ![q] = a]
        BY <1>3 DEF Kept
    <2>2. H = G \cup {q}
        BY <1>0, <1>1, <2>1
    <2> HIDE DEF H
    <2>3. Cardinality(H) <= MaxSize
        BY <1>1, <1>2, <1>3, <2>2
    <2> QED
        BY <1>1, <2>1, <2>3 DEF H
<1>4. CASE ~(Cardinality(G) < MaxSize)
    <2>1. PICK old \in G : e = [f EXCEPT ![q] = a, ![old] = Absent]
        BY <1>4 DEF Kept
    <2>2. H = (G \cup {q}) \ {old}
        BY <1>0, <1>1, <2>1
    <2>3. Cardinality((G \cup {q}) \ {old}) = Cardinality(G \cup {q}) - 1
        BY <1>1, <1>2, FS_RemoveElement
    <2> HIDE DEF H
    <2>4. Cardinality(H) <= MaxSize
        BY <1>1, <1>2, <2>2, <2>3
    <2>5. e \in [Questions -> Answers \cup {Absent}]
        BY <1>1, <2>1
    <2> QED
        BY <2>4, <2>5 DEF H
<1> QED
    BY <1>3, <1>4

\* What a step that leaves the memos alone must show.
LEMMA TypesKept ==
    ASSUME TypeOK, memo' = memo, path' \in [Threads -> Paths],
           request' \in [Threads -> Requests \cup {Idle}],
           blind' \subseteq Memos \X Questions
    PROVE  TypeOK'
BY DEF TypeOK, Held

LEMMA TypeInit ==
    ASSUME Init
    PROVE  TypeOK
<1>1. \A m \in Memos : Held(m) = {}
    BY DEF Init, Held
<1>2. \A m \in Memos : Cardinality(Held(m)) <= MaxSize
    BY <1>1, FS_EmptySet, CalcMemoAssumption
<1>3. memo \in [Memos -> [Questions -> Answers \cup {Absent}]]
    BY DEF Init
<1> QED
    BY <1>2, <1>3, CalcMemoAssumption DEF Init, TypeOK

\* An attempt begins.
LEMMA TryTypes ==
    ASSUME TypeOK, NEW t \in Threads, NEW r \in Requests, Try(t, r), UNCHANGED <<memo, blind>>
    PROVE  /\ TypeOK' /\ request'[t] = r
           /\ Attempt(r, r.n).sets => path'[t] = Resources
           /\ \A u \in Threads \ {t} : request'[u] = request[u] /\ path'[u] = path[u]
<1>1. path' \in [Threads -> Paths]
    BY CalcMemoAssumption DEF Try, TypeOK
<1>2. request' \in [Threads -> Requests \cup {Idle}]
    BY RequestTypes DEF Try
<1>3. TypeOK'
    BY <1>1, <1>2, TypesKept DEF TypeOK
<1> QED
    BY <1>3 DEF Try, TypeOK

\* A handler's request is one.
First(h, q) == [at |-> "look", by |-> h, q |-> q, n |-> 1, a |-> Error]

LEMMA FirstFacts ==
    ASSUME NEW h \in Handlers, NEW q \in Wanted, NEW r, r = First(h, q)
    PROVE  r \in Requests /\ r.at = "look" /\ r.n = 1 /\ r.by = h /\ r.q = q
<1>1. 1 \in DOMAIN Plan[h]
    BY PlanFacts
<1> QED
    BY <1>1 DEF First, Requests, Answers

\* A step of the memo functions moves a request on.
LEMMA MoveTypes ==
    ASSUME TypeOK, NEW t \in Threads, NEW s \in Requests \cup {Idle},
           request' = [request EXCEPT ![t] = s], path' = path
    PROVE  /\ request' \in [Threads -> Requests \cup {Idle}] /\ path' \in [Threads -> Paths]
           /\ request'[t] = s
           /\ \A u \in Threads \ {t} : request'[u] = request[u] /\ path'[u] = path[u]
BY DEF TypeOK

\* The steps of a thread, one by one: the request r becomes s.
LEMMA HitIs ==
    ASSUME TypeOK, NEW t \in Threads, Hit(t), NEW r, r = request[t]
    PROVE  /\ r \in Requests /\ r.at = "look" /\ path' = path /\ memo' = memo /\ blind' = blind
           /\ \E a \in Answers :
                /\ a = memo[Through(r, r.n)][Body(r, r.n)]
                /\ request' = [request EXCEPT ![t] = Moved(r, "judge", a)]
<1>1. r \in Requests /\ r.at = "look"
    BY AtWork DEF Hit
<1>2. Through(r, r.n) \in Memos /\ Body(r, r.n) \in Questions
    BY <1>1, RequestFacts
<1>3. PICK a : a = memo[Through(r, r.n)][Body(r, r.n)]
    OBVIOUS
<1>4. a \in Answers
    BY <1>2, <1>3 DEF Hit, TypeOK
<1>5. request' = [request EXCEPT ![t] = Moved(r, "judge", a)]
    BY <1>3 DEF Hit, Moved, TypeOK
<1> QED
    BY <1>1, <1>3, <1>4, <1>5 DEF Hit

LEMMA CalculateIs ==
    ASSUME TypeOK, NEW t \in Threads, Calculate(t), NEW r, r = request[t]
    PROVE  /\ r \in Requests /\ r.at = "look" /\ path' = path /\ memo' = memo
           /\ \E a \in Answers :
                /\ a = AnswerOf[path[t]][Body(r, r.n)]
                /\ request' = [request EXCEPT ![t] = Moved(r, "keep", a)]
                /\ blind' = IF a = Right(Body(r, r.n)) \/ Attempt(r, r.n).sets THEN blind
                            ELSE blind \cup {<<Through(r, r.n), Body(r, r.n)>>}
<1>1. r \in Requests /\ r.at = "look"
    BY AtWork DEF Calculate
<1>2. Through(r, r.n) \in Memos /\ Body(r, r.n) \in Questions
    BY <1>1, RequestFacts
<1>3. PICK a : a = AnswerOf[path[t]][Body(r, r.n)]
    OBVIOUS
<1>4. a \in Answers
    BY <1>2, <1>3, CalcMemoAssumption DEF TypeOK
<1>5. request' = [request EXCEPT ![t] = Moved(r, "keep", a)]
    BY <1>3 DEF Calculate, Moved, TypeOK
<1> QED
    BY <1>1, <1>3, <1>4, <1>5 DEF Calculate, Right

LEMMA KeepIs ==
    ASSUME TypeOK, NEW t \in Threads, Keep(t), NEW r, r = request[t]
    PROVE  /\ r \in Requests /\ r.at = "keep" /\ path' = path /\ blind' = blind
           /\ request' = [request EXCEPT ![t] = Moved(r, "judge", r.a)]
           /\ \/ memo' = memo
              \/ /\ memo[Through(r, r.n)][Body(r, r.n)] = Absent
                 /\ \E e \in Kept(Through(r, r.n), Body(r, r.n), r.a) :
                       memo' = [memo EXCEPT ![Through(r, r.n)] = e]
<1>1. r \in Requests /\ r.at = "keep"
    BY AtWork DEF Keep
<1>2. [r EXCEPT !.at = "judge"] = Moved(r, "judge", r.a)
    BY <1>1 DEF Moved, Requests
<1>3. request' = [request EXCEPT ![t] = Moved(r, "judge", r.a)]
    BY <1>2 DEF Keep, Go, TypeOK
<1> QED
    BY <1>1, <1>3 DEF Keep

LEMMA TypeStep ==
    ASSUME TypeOK, [Next]_vars
    PROVE  TypeOK'
<1>1. ASSUME NEW t \in Threads, NEW h \in Handlers, NEW q \in Wanted, Begin(t, h, q)
      PROVE  TypeOK'
    <2>1. PICK r : r = First(h, q)
        OBVIOUS
    <2>2. r \in Requests
        BY <2>1, FirstFacts
    <2> QED
        BY <1>1, <2>1, <2>2, TryTypes DEF Begin, First
<1>2. ASSUME NEW t \in Threads, Work(t)
      PROVE  TypeOK'
    <2> PICK r : r = request[t]
        OBVIOUS
    <2>1. CASE Hit(t)
        <3>1. /\ r \in Requests /\ path' = path /\ memo' = memo /\ blind' = blind
              /\ \E a \in Answers : request' = [request EXCEPT ![t] = Moved(r, "judge", a)]
            BY <2>1, HitIs
        <3>2. PICK a \in Answers : request' = [request EXCEPT ![t] = Moved(r, "judge", a)]
            BY <3>1
        <3>3. Moved(r, "judge", a) \in Requests
            BY <3>1, MovedFacts
        <3> QED
            BY <3>1, <3>2, <3>3, MoveTypes, TypesKept DEF TypeOK
    <2>2. CASE Calculate(t)
        <3>1. PICK a \in Answers :
                /\ r \in Requests /\ path' = path /\ memo' = memo
                /\ request' = [request EXCEPT ![t] = Moved(r, "keep", a)]
                /\ blind' \subseteq blind \cup {<<Through(r, r.n), Body(r, r.n)>>}
            BY <2>2, CalculateIs
        <3>2. Moved(r, "keep", a) \in Requests
            BY <3>1, MovedFacts
        <3>3. Through(r, r.n) \in Memos /\ Body(r, r.n) \in Questions
            BY <3>1, RequestFacts
        <3>4. blind' \subseteq Memos \X Questions
            BY <3>1, <3>3 DEF TypeOK
        <3> QED
            BY <3>1, <3>2, <3>4, MoveTypes, TypesKept
    <2>3. CASE Keep(t)
        <3>1. /\ r \in Requests /\ path' = path /\ blind' = blind
              /\ request' = [request EXCEPT ![t] = Moved(r, "judge", r.a)]
              /\ \/ memo' = memo
                 \/ /\ memo[Through(r, r.n)][Body(r, r.n)] = Absent
                    /\ \E e \in Kept(Through(r, r.n), Body(r, r.n), r.a) :
                          memo' = [memo EXCEPT ![Through(r, r.n)] = e]
            BY <2>3, KeepIs
        <3>2. r.a \in Answers /\ Through(r, r.n) \in Memos /\ Body(r, r.n) \in Questions
            BY <3>1, RequestFacts
        <3>3. Moved(r, "judge", r.a) \in Requests
            BY <3>1, <3>2, MovedFacts
        <3>4. request' \in [Threads -> Requests \cup {Idle}] /\ path' \in [Threads -> Paths]
            BY <3>1, <3>3, MoveTypes
        <3>5. CASE memo' = memo
            BY <3>1, <3>4, <3>5, TypesKept DEF TypeOK
        <3>6. CASE memo' # memo
            <4>1. PICK m \in Memos : m = Through(r, r.n)
                BY <3>2
            <4>2. PICK q \in Questions : q = Body(r, r.n)
                BY <3>2
            <4>3. PICK e \in Kept(m, q, r.a) : memo' = [memo EXCEPT ![m] = e]
                BY <3>1, <3>6, <4>1, <4>2
            <4>4. memo[m][q] = Absent
                BY <3>1, <3>6, <4>1, <4>2
            <4>5. /\ e \in [Questions -> Answers \cup {Absent}]
                  /\ Cardinality({k \in Questions : e[k] # Absent}) <= MaxSize
                BY <3>2, <4>3, <4>4, KeptTypes
            <4>6. memo' \in [Memos -> [Questions -> Answers \cup {Absent}]]
                BY <4>3, <4>5 DEF TypeOK
            <4>7. ASSUME NEW o \in Memos PROVE Cardinality(Held(o)') <= MaxSize
                <5>1. CASE o = m
                    <6>1. memo'[o] = e
                        BY <4>3, <5>1 DEF TypeOK
                    <6> QED
                        BY <4>5, <6>1 DEF Held
                <5>2. CASE o # m
                    <6>1. memo'[o] = memo[o]
                        BY <4>3, <5>2 DEF TypeOK
                    <6>2. Held(o)' = Held(o)
                        BY <6>1 DEF Held
                    <6> QED
                        BY <6>2 DEF TypeOK
                <5> QED
                    BY <5>1, <5>2
            <4> QED
                BY <3>1, <3>4, <4>6, <4>7 DEF TypeOK
        <3> QED
            BY <3>5, <3>6
    <2>4. CASE Retry(t)
        <3>1. r \in Requests /\ ~Last(r)
            BY <2>4, AtWork DEF Retry
        <3>2. PICK s : s = Again(r)
            OBVIOUS
        <3>3. s \in Requests
            BY <3>1, <3>2, NextAttempt
        <3> QED
            BY <2>4, <3>2, <3>3, TryTypes DEF Retry, Again
    <2>5. CASE Return(t)
        BY <2>5, MoveTypes, TypesKept DEF Return, TypeOK
    <2> QED
        BY <1>2, <2>1, <2>2, <2>3, <2>4, <2>5 DEF Work
<1>3. ASSUME NEW t \in Threads, Replace(t)
      PROVE  TypeOK'
    BY <1>3, TypesKept, CalcMemoAssumption DEF Replace, TypeOK
<1>4. CASE UNCHANGED vars
    BY <1>4 DEF TypeOK, Held, vars
<1> QED
    BY <1>1, <1>2, <1>3, <1>4 DEF Next

\* None of the memos of the calculations outgrows _CALC_CACHE_MAXSIZE, however
\* many threads miss the same entries at once.
THEOREM MemoTypes == Spec => []TypeOK
<1>1. Init => TypeOK
    BY TypeInit
<1>2. TypeOK /\ [Next]_vars => TypeOK'
    BY TypeStep
<1> QED
    BY <1>1, <1>2, PTL DEF Spec

-----------------------------------------------------------------------------
(* Answers.                                                                *)

\* What is kept was sound.
LEMMA KeptSound ==
    ASSUME TypeOK, MemoSound, NEW m \in Memos, NEW q \in Questions, NEW a, Sound(m, q, a),
           NEW e \in Kept(m, q, a), NEW k \in Questions, e[k] # Absent
    PROVE  Sound(m, k, e[k])
<1> PICK f : f = memo[m]
    OBVIOUS
<1>0. f \in [Questions -> Answers \cup {Absent}]
    BY DEF TypeOK
<1>1. e[k] = f[k] \/ (k = q /\ e[k] = a)
    <2>1. CASE Cardinality(Held(m)) < MaxSize
        <3>1. e = [f EXCEPT ![q] = a]
            BY <2>1 DEF Kept
        <3> QED
            BY <1>0, <3>1
    <2>2. CASE ~(Cardinality(Held(m)) < MaxSize)
        <3>1. PICK old \in Held(m) : e = [f EXCEPT ![q] = a, ![old] = Absent]
            BY <2>2 DEF Kept
        <3>2. old \in Questions
            BY DEF Held
        <3> QED
            BY <1>0, <3>1, <3>2
    <2> QED
        BY <2>1, <2>2
<1>2. CASE e[k] = f[k]
    BY <1>2 DEF MemoSound
<1> QED
    BY <1>1, <1>2

\* Causes of errors are never forgotten.
LEMMA SoundStays ==
    ASSUME blind \subseteq blind', NEW m, NEW q, NEW a, Sound(m, q, a)
    PROVE  Sound(m, q, a)'
BY DEF Sound, Right

\* What a step of one thread must show that leaves the memos alone.
LEMMA SoundKept ==
    ASSUME SoundInv, memo' = memo, blind \subseteq blind', NEW t \in Threads,
           \A u \in Threads \ {t} : request'[u] = request[u] /\ path'[u] = path[u],
           NEW s, s = request'[t],
           s # Idle => /\ Attempt(s, s.n).sets => path'[t] = Resources
                       /\ Answered(s)'
                       /\ \A k \in DOMAIN Plan[s.by] : k < s.n => Failed(s, k)'
    PROVE  SoundInv'
<1>1. MemoSound'
    BY DEF SoundInv, MemoSound, Sound, Right
<1>2. PathsReady'
    BY DEF SoundInv, PathsReady, Attempt
<1>3. ASSUME NEW u \in Threads, request'[u] # Idle
      PROVE  /\ Answered(request[u])'
             /\ \A k \in DOMAIN Plan[request'[u].by] :
                    k < request'[u].n => Failed(request[u], k)'
    <2>1. CASE u = t
        BY <1>3, <2>1 DEF Answered, Failed, Sound, Right, Through, Body, Attempt
    <2>2. CASE u # t
        <3>1. /\ Answered(request[u])
              /\ \A k \in DOMAIN Plan[request[u].by] :
                    k < request[u].n => Failed(request[u], k)
            BY <1>3, <2>2 DEF SoundInv, RequestsSound
        <3> QED
            BY <2>2, <3>1 DEF Answered, Failed, Sound, Right, Through, Body, Attempt
    <2> QED
        BY <2>1, <2>2
<1>4. RequestsSound'
    BY <1>3 DEF RequestsSound
<1> QED
    BY <1>1, <1>2, <1>4 DEF SoundInv

\* A request that moves within its attempt
LEMMA SoundMoved ==
    ASSUME TypeOK, SoundInv, memo' = memo, blind \subseteq blind', path' = path,
           NEW t \in Threads, NEW r \in Requests, r = request[t],
           NEW at \in {"keep", "judge"}, NEW a \in Answers,
           request' = [request EXCEPT ![t] = Moved(r, at, a)],
           Sound(Through(r, r.n), Body(r, r.n), a)'
    PROVE  SoundInv'
<1>1. PICK s : s = Moved(r, at, a)
    OBVIOUS
<1>2. /\ s \in Requests /\ s.at = at /\ s.a = a
      /\ s.by = r.by /\ s.q = r.q /\ s.n = r.n
    BY <1>1, MovedFacts
<1>3. /\ request'[t] = s
      /\ \A u \in Threads \ {t} : request'[u] = request[u] /\ path'[u] = path[u]
    BY <1>1, <1>2, MoveTypes
<1>4. r # Idle
    BY RequestFacts DEF Idle
<1>5. /\ Attempt(r, r.n).sets => path[t] = Resources
      /\ \A k \in DOMAIN Plan[r.by] : k < r.n => Failed(r, k)
    BY <1>4 DEF SoundInv, PathsReady, RequestsSound
<1>6. Attempt(s, s.n).sets => path'[t] = Resources
    BY <1>2, <1>5 DEF Attempt
<1>7. Answered(s)'
    BY <1>2 DEF Answered, Sound, Right, Through, Body, Attempt
<1>8. \A k \in DOMAIN Plan[s.by] : k < s.n => Failed(s, k)'
    BY <1>2, <1>5 DEF Failed, Right, Through, Body, Attempt
<1> QED
    BY <1>3, <1>6, <1>7, <1>8, SoundKept

LEMMA SoundInit ==
    ASSUME Init
    PROVE  SoundInv
BY DEF Init, SoundInv, MemoSound, PathsReady, RequestsSound

LEMMA SoundStep ==
    ASSUME TypeOK, SoundInv, [Next]_vars
    PROVE  SoundInv'
<1>1. ASSUME NEW t \in Threads, NEW h \in Handlers, NEW q \in Wanted, Begin(t, h, q)
      PROVE  SoundInv'
    <2>1. PICK r : r = First(h, q)
        OBVIOUS
    <2>2. r \in Requests /\ r.at = "look" /\ r.n = 1 /\ r.by = h
        BY <2>1, FirstFacts
    <2>3. Try(t, r) /\ UNCHANGED <<memo, blind>>
        BY <1>1, <2>1 DEF Begin, First
    <2>4. /\ request'[t] = r
          /\ Attempt(r, r.n).sets => path'[t] = Resources
          /\ \A u \in Threads \ {t} : request'[u] = request[u] /\ path'[u] = path[u]
        BY <2>2, <2>3, TryTypes
    <2>5. Answered(r)'
        BY <2>2 DEF Answered
    <2>6. \A k \in DOMAIN Plan[r.by] : ~(k < r.n)
        BY <2>2, PlanFacts
    <2> QED
        BY <2>3, <2>4, <2>5, <2>6, SoundKept
<1>2. ASSUME NEW t \in Threads, Work(t)
      PROVE  SoundInv'
    <2> PICK r : r = request[t]
        OBVIOUS
    <2>1. CASE Hit(t)
        <3>1. PICK a \in Answers :
                /\ r \in Requests /\ path' = path /\ memo' = memo /\ blind' = blind
                /\ a = memo[Through(r, r.n)][Body(r, r.n)]
                /\ request' = [request EXCEPT ![t] = Moved(r, "judge", a)]
            BY <2>1, HitIs
        <3>2. Through(r, r.n) \in Memos /\ Body(r, r.n) \in Questions
            BY <3>1, RequestFacts
        <3>3. Sound(Through(r, r.n), Body(r, r.n), a)
            BY <3>1, <3>2, CalcMemoAssumption DEF SoundInv, MemoSound
        <3>4. Sound(Through(r, r.n), Body(r, r.n), a)'
            BY <3>1, <3>3 DEF Sound, Right
        <3> QED
            BY <3>1, <3>4, SoundMoved
    <2>2. CASE Calculate(t)
        <3>1. PICK a \in Answers :
                /\ r \in Requests /\ path' = path /\ memo' = memo
                /\ a = AnswerOf[path[t]][Body(r, r.n)]
                /\ request' = [request EXCEPT ![t] = Moved(r, "keep", a)]
                /\ blind' = IF a = Right(Body(r, r.n)) \/ Attempt(r, r.n).sets THEN blind
                            ELSE blind \cup {<<Through(r, r.n), Body(r, r.n)>>}
            BY <2>2, CalculateIs
        <3>2. Through(r, r.n) \in Memos /\ Body(r, r.n) \in Questions /\ r # Idle
            BY <3>1, RequestFacts DEF Idle
        <3>3. path[t] \in Paths
            BY DEF TypeOK
        <3>4. a \in {Right(Body(r, r.n)), Error}
            BY <3>1, <3>2, <3>3, CalcMemoAssumption DEF Right
        <3>5. Attempt(r, r.n).sets => a = Right(Body(r, r.n))
            BY <3>1, <3>2 DEF SoundInv, PathsReady, Right
        <3>6. Sound(Through(r, r.n), Body(r, r.n), a)'
            BY <3>1, <3>4, <3>5 DEF Sound, Right
        <3>7. blind \subseteq blind'
            BY <3>1
        <3> QED
            BY <3>1, <3>6, <3>7, SoundMoved
    <2>3. CASE Keep(t)
        <3>1. /\ r \in Requests /\ r.at = "keep" /\ path' = path /\ blind' = blind
              /\ request' = [request EXCEPT ![t] = Moved(r, "judge", r.a)]
              /\ \/ memo' = memo
                 \/ /\ memo[Through(r, r.n)][Body(r, r.n)] = Absent
                    /\ \E e \in Kept(Through(r, r.n), Body(r, r.n), r.a) :
                          memo' = [memo EXCEPT ![Through(r, r.n)] = e]
            BY <2>3, KeepIs
        <3>2. PICK m \in Memos : m = Through(r, r.n)
            BY <3>1, RequestFacts
        <3>3. PICK q \in Questions : q = Body(r, r.n)
            BY <3>1, RequestFacts
        <3>4. Sound(m, q, r.a) /\ r.a \in Answers /\ r # Idle
            BY <3>1, <3>2, <3>3, RequestFacts DEF SoundInv, RequestsSound, Answered, Idle
        <3>5. Sound(m, q, r.a)'
            BY <3>1, <3>4 DEF Sound, Right
        <3>6. CASE memo' = memo
            BY <3>1, <3>2, <3>3, <3>4, <3>5, <3>6, SoundMoved
        <3>7. CASE memo' # memo
            <4>1. PICK e \in Kept(m, q, r.a) : memo' = [memo EXCEPT ![m] = e]
                BY <3>1, <3>2, <3>3, <3>7
            <4>2. MemoSound'
                <5> SUFFICES ASSUME NEW o \in Memos, NEW k \in Questions, memo'[o][k] # Absent
                             PROVE  Sound(o, k, memo[o][k])'
                    BY DEF MemoSound
                <5>1. CASE o = m
                    <6>1. memo'[o] = e
                        BY <4>1, <5>1 DEF TypeOK
                    <6>2. Sound(m, k, e[k])
                        BY <3>4, <4>1, <6>1, KeptSound DEF SoundInv
                    <6> QED
                        BY <3>1, <5>1, <6>1, <6>2 DEF Sound, Right
                <5>2. CASE o # m
                    <6>1. memo'[o] = memo[o]
                        BY <4>1, <5>2 DEF TypeOK
                    <6>2. Sound(o, k, memo[o][k])
                        BY <6>1 DEF SoundInv, MemoSound
                    <6> QED
                        BY <3>1, <6>1, <6>2 DEF Sound, Right
                <5> QED
                    BY <5>1, <5>2
            <4>3. PICK s : s = Moved(r, "judge", r.a)
                OBVIOUS
            <4>4. /\ s \in Requests /\ s.at = "judge" /\ s.a = r.a
                  /\ s.by = r.by /\ s.q = r.q /\ s.n = r.n
                BY <3>1, <3>4, <4>3, MovedFacts
            <4>5. /\ request'[t] = s
                  /\ \A u \in Threads \ {t} : request'[u] = request[u]
                BY <3>1, <4>3, <4>4, MoveTypes
            <4>6. PathsReady'
                BY <3>1, <3>4, <4>4, <4>5 DEF SoundInv, PathsReady, Attempt
            <4>7. ASSUME NEW u \in Threads, request'[u] # Idle
                  PROVE  /\ Answered(request[u])'
                         /\ \A k \in DOMAIN Plan[request'[u].by] :
                                k < request'[u].n => Failed(request[u], k)'
                <5>1. request[u] # Idle
                    BY <3>4, <4>5, <4>7
                <5>2. /\ Answered(request[u])
                      /\ \A k \in DOMAIN Plan[request[u].by] :
                            k < request[u].n => Failed(request[u], k)
                    BY <5>1 DEF SoundInv, RequestsSound
                <5>3. CASE u = t
                    <6>1. Answered(s)'
                        BY <3>2, <3>3, <3>5, <4>4 DEF Answered, Through, Body, Attempt
                    <6>2. \A k \in DOMAIN Plan[s.by] : k < s.n => Failed(s, k)'
                        BY <3>1, <4>4, <5>2, <5>3
                        DEF Failed, Right, Through, Body, Attempt
                    <6> QED
                        BY <4>5, <5>3, <6>1, <6>2 DEF Answered, Failed
                <5>4. CASE u # t
                    <6>1. PICK v : v = request[u]
                        OBVIOUS
                    <6>2. Answered(v)'
                        BY <3>1, <5>2, <6>1 DEF Answered, Sound, Right
                    <6>3. \A k \in DOMAIN Plan[v.by] : k < v.n => Failed(v, k)'
                        BY <3>1, <5>2, <6>1 DEF Failed
                    <6>4. request'[u] = v
                        BY <4>5, <5>4, <6>1
                    <6> QED
                        BY <6>2, <6>3, <6>4 DEF Answered, Failed
                <5> QED
                    BY <5>3, <5>4
            <4>8. RequestsSound'
                BY <4>7 DEF RequestsSound
            <4> QED
                BY <4>2, <4>6, <4>8 DEF SoundInv
        <3> QED
            BY <3>6, <3>7
    <2>4. CASE Retry(t)
        <3>1. /\ r \in Requests /\ ~Last(r) /\ r.at = "judge" /\ r.a = Error
              /\ UNCHANGED <<memo, blind>>
            BY <2>4, AtWork DEF Retry
        <3>2. PICK s : s = Again(r)
            OBVIOUS
        <3>3. /\ s \in Requests /\ s.at = "look"
              /\ s.by = r.by /\ s.q = r.q /\ s.n = r.n + 1
            BY <3>1, <3>2, NextAttempt
        <3>4. Try(t, s)
            BY <2>4, <3>2 DEF Retry, Again
        <3>5. /\ request'[t] = s
              /\ Attempt(s, s.n).sets => path'[t] = Resources
              /\ \A u \in Threads \ {t} : request'[u] = request[u] /\ path'[u] = path[u]
            BY <3>1, <3>3, <3>4, TryTypes
        <3>6. Answered(s)'
            BY <3>3 DEF Answered
        <3>7. /\ r # Idle /\ Answered(r) /\ r.n \in Nat /\ r.by \in Handlers
              /\ \A k \in DOMAIN Plan[r.by] : k < r.n => Failed(r, k)
            BY <3>1, RequestFacts DEF SoundInv, RequestsSound, Idle
        <3>8. Failed(r, r.n)
            BY <3>1, <3>7 DEF Answered, Failed, Sound
        <3>9. \A k \in DOMAIN Plan[r.by] : k < r.n + 1 => Failed(r, k)
            <4>1. ASSUME NEW k \in DOMAIN Plan[r.by], k < r.n + 1 PROVE Failed(r, k)
                <5>1. k \in Nat
                    BY <3>7, PlanFacts
                <5>2. k < r.n \/ k = r.n
                    BY <3>7, <4>1, <5>1
                <5> QED
                    BY <3>7, <3>8, <5>2
            <4> QED
                BY <4>1
        <3>10. \A k \in DOMAIN Plan[s.by] : k < s.n => Failed(s, k)'
            BY <3>1, <3>3, <3>9 DEF Failed, Right, Through, Body, Attempt
        <3> QED
            BY <3>1, <3>5, <3>6, <3>10, SoundKept
    <2>5. CASE Return(t)
        <3>1. /\ request'[t] = Idle
              /\ \A u \in Threads \ {t} : request'[u] = request[u] /\ path'[u] = path[u]
            BY <2>5, MoveTypes DEF Return
        <3> QED
            BY <2>5, <3>1, SoundKept DEF Return
    <2> QED
        BY <1>2, <2>1, <2>2, <2>3, <2>4, <2>5 DEF Work
<1>3. ASSUME NEW t \in Threads, Replace(t)
      PROVE  SoundInv'
    <2>1. /\ request'[t] = Idle
          /\ \A u \in Threads \ {t} : request'[u] = request[u] /\ path'[u] = path[u]
        BY <1>3 DEF Replace, TypeOK
    <2> QED
        BY <1>3, <2>1, SoundKept DEF Replace
<1>4. CASE UNCHANGED vars
    <2>1. path' = path /\ memo' = memo /\ request' = request /\ blind' = blind
        BY <1>4 DEF vars
    <2>2. MemoSound'
        BY <2>1 DEF SoundInv, MemoSound, Sound, Right
    <2>3. PathsReady'
        BY <2>1 DEF SoundInv, PathsReady, Attempt
    <2>4. ASSUME NEW u \in Threads, NEW v, v = request[u], v # Idle
          PROVE  /\ Answered(v)'
                 /\ \A k \in DOMAIN Plan[v.by] : k < v.n => Failed(v, k)'
        <3>1. Answered(v) /\ \A k \in DOMAIN Plan[v.by] : k < v.n => Failed(v, k)
            BY <2>4 DEF SoundInv, RequestsSound
        <3>2. Answered(v)'
            BY <2>1, <3>1 DEF Answered, Sound, Right
        <3>3. \A k \in DOMAIN Plan[v.by] : k < v.n => Failed(v, k)'
            BY <2>1, <3>1 DEF Failed
        <3> QED
            BY <3>2, <3>3
    <2>5. RequestsSound'
        BY <2>1, <2>4 DEF RequestsSound, Answered, Failed
    <2> QED
        BY <2>2, <2>3, <2>5 DEF SoundInv
<1> QED
    BY <1>1, <1>2, <1>3, <1>4 DEF Next

\* A request that has its answer: wrong ones have a cause.
LEMMA FinalSound ==
    ASSUME TypeOK, SoundInv
    PROVE  OnlyBlindThreadsMislead
<1> SUFFICES ASSUME NEW t \in Threads, NEW r, r = request[t], Final(r)
             PROVE  /\ Right(r.q) # Error /\ r.a # Right(r.q) =>
                         \A n \in DOMAIN Plan[r.by] :
                             ~Attempt(r, n).other => <<Through(r, n), r.q>> \in blind
                    /\ r.a \in {Right(r.q), Error} \/
                         (r.by = "age_points" /\ r.a = Right(Instead[r.q]))
    BY DEF OnlyBlindThreadsMislead, Right
<1>1. r \in Requests /\ r # Idle /\ r.at = "judge"
    BY AtWork DEF Final, Idle
<1>2. /\ r.by \in Handlers /\ r.n \in Nat /\ r.n \in DOMAIN Plan[r.by]
      /\ DOMAIN Plan[r.by] = 1..Len(Plan[r.by]) /\ Len(Plan[r.by]) \in Nat
    BY <1>1, RequestFacts, PlanFacts
<1>3. /\ Sound(Through(r, r.n), Body(r, r.n), r.a)
      /\ \A k \in DOMAIN Plan[r.by] : k < r.n => Failed(r, k)
    BY <1>1 DEF SoundInv, RequestsSound, Answered
<1>4. Attempt(r, r.n).other => r.by = "age_points" /\ r.n = Len(Plan[r.by])
    BY <1>2, PlanFacts DEF Attempt
<1>5. r.a \in {Right(r.q), Error} \/ (r.by = "age_points" /\ r.a = Right(Instead[r.q]))
    BY <1>3, <1>4 DEF Sound, Body
<1>6. ASSUME Right(r.q) # Error, r.a # Right(r.q),
             NEW n \in DOMAIN Plan[r.by], ~Attempt(r, n).other
      PROVE  <<Through(r, n), r.q>> \in blind
    <2>1. Body(r, n) = r.q /\ n \in Nat
        BY <1>2, <1>6 DEF Body
    <2>2. CASE n < r.n
        BY <1>3, <1>6, <2>1, <2>2 DEF Failed
    <2>3. CASE n = r.n
        BY <1>3, <1>6, <2>1, <2>3 DEF Sound
    <2>4. CASE n > r.n
        <3>1. r.n # Len(Plan[r.by])
            BY <1>2, <2>1, <2>4
        <3>2. r.a # Error /\ ~Attempt(r, r.n).other
            BY <1>4, <3>1 DEF Final, Last
        <3>3. r.a = Right(r.q)
            BY <1>3, <3>2 DEF Sound, Body
        <3> QED
            BY <1>6, <3>3
    <2> QED
        BY <1>2, <2>1, <2>2, <2>3, <2>4
<1> QED
    BY <1>5, <1>6

\* In the program as it is, whose workers serve the handlers that set the path
\* first and those that ask before they set it: a handler answers an error, or
\* age_points another body's position, in place of a position the resources
\* give, only if attempts that do not set the path have got the error in every
\* memo it asked; no other wrong position is ever answered.
THEOREM BlindThreadsOnlyMislead == Spec => []OnlyBlindThreadsMislead
<1>1. Init => TypeOK /\ SoundInv
    BY TypeInit, SoundInit
<1>2. TypeOK /\ SoundInv /\ [Next]_vars => TypeOK' /\ SoundInv'
    BY TypeStep, SoundStep
<1>3. TypeOK /\ SoundInv => OnlyBlindThreadsMislead
    BY FinalSound
<1> QED
    BY <1>1, <1>2, <1>3, PTL DEF Spec
=============================================================================
