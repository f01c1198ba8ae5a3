------------------------------ MODULE CalcMemo ------------------------------
(***************************************************************************)
(* The calculations of one worker process (src/pysw.py): handlers run in   *)
(* threads of a pool, each thread has a Swiss Ephemeris library of its own *)
(* and with it a directory for ephemeris files of its own, and all threads *)
(* share the memo, an lru_cache in front of the library.                   *)
(*                                                                         *)
(* A handler asks by a plan: it may call init_swisseph_path() first, and   *)
(* when the library finds no file it asks again, after setting the path,   *)
(* through another of the memoised functions or for another body.  What    *)
(* the library answers is a function of the directory and the question:    *)
(* SwissEph shows that it keeps this contract.  The interpreter may run    *)
(* another thread between any two steps.                                   *)
(***************************************************************************)
EXTENDS Naturals, FiniteSets, Sequences

CONSTANTS
    Threads,     \* threads of the pool
    Questions,   \* a body at a Julian day
    Wanted,      \* the questions requests are for
    Instead,     \* Instead[q]: what age_points asks when q has no answer
    Positions,   \* what the library may answer
    Error,       \* "SwissEph file ... not found in PATH ..."
    Absent,      \* no entry in the memo
    Paths,       \* directories
    Initial,     \* the directory of a library nobody has told one
    Resources,   \* astronex/resources, which init_swisseph_path() sets
    AnswerOf,    \* AnswerOf[p][q]: the library's answer with directory p
    MaxSize      \* _CALC_CACHE_MAXSIZE

Answers == Positions \cup {Error}

\* Two directories give the same position or none: without a file the
\* planets are Moshier's everywhere, and asteroids have no position.
ASSUME CalcMemoAssumption ==
    /\ IsFiniteSet(Questions)
    /\ Wanted \subseteq Questions /\ Instead \in [Wanted -> Questions]
    /\ Error \notin Positions /\ Absent \notin Answers
    /\ Initial \in Paths /\ Resources \in Paths
    /\ AnswerOf \in [Paths -> [Questions -> Answers]]
    /\ \A p \in Paths, q \in Questions : AnswerOf[p][q] \in {AnswerOf[Resources][q], Error}
    /\ MaxSize \in Nat \ {0}

\* calc(), calc_ut() and calc_ut_with_speed() have a memo each.
Memos == {"calc", "calc_ut", "with_speed"}

\* The n-th attempt goes through a memo, after setting the path or not, for
\* the body of the request or for another in its place.
Ask(m)      == [memo |-> m, sets |-> FALSE, other |-> FALSE]
SetAsk(m)   == [memo |-> m, sets |-> TRUE,  other |-> FALSE]
AskOther(m) == [memo |-> m, sets |-> FALSE, other |-> TRUE]

\* Only asteroids need a file, so it is for Chiron that a handler asks twice;
\* "charts" are the horoscope, synastry and the drawings.
Plan == [charts     |-> <<SetAsk("calc_ut"), SetAsk("calc_ut")>>,
         positions  |-> <<Ask("calc_ut"), SetAsk("calc_ut")>>,
         solar      |-> <<Ask("with_speed"), SetAsk("with_speed"),
                          Ask("with_speed"), SetAsk("with_speed"),
                          Ask("calc_ut"), SetAsk("calc_ut")>>,
         age_points |-> <<Ask("calc"), SetAsk("calc"), AskOther("calc")>>]
Handlers == DOMAIN Plan

VARIABLES
    path,        \* path[t]: ephepath of the library of thread t
    memo,        \* memo[m][q]: the answer kept for q, or Absent
    request,     \* request[t]: what thread t is doing
    blind        \* history: the <<m, q>> for which an attempt that does not
                 \* set the path got an error although Resources gives a position
vars == <<path, memo, request, blind>>

Idle == [at |-> "idle"]
Go(t, at) == request' = [request EXCEPT ![t].at = at]
Held(m) == {q \in Questions : memo[m][q] # Absent}

\* The n-th attempt of a request, the memo it uses and what it asks
Attempt(r, n) == Plan[r.by][n]
Through(r, n) == Attempt(r, n).memo
Body(r, n)    == IF Attempt(r, n).other THEN Instead[r.q] ELSE r.q

Init == /\ path = [t \in Threads |-> Initial]
        /\ memo = [m \in Memos |-> [q \in Questions |-> Absent]]
        /\ request = [t \in Threads |-> Idle]
        /\ blind = {}

\* Mutant: the path is set once in a process.
Try_PathKnown(t, r) ==
    /\ request' = [request EXCEPT ![t] = r]
    /\ path' = IF Attempt(r, r.n).sets /\ \A u \in Threads : path[u] = Initial
               THEN [path EXCEPT ![t] = Resources] ELSE path

\* An attempt begins; the path is set before it if the plan says so.
Try(t, r) ==
    /\ request' = [request EXCEPT ![t] = r]
    /\ path' = IF Attempt(r, r.n).sets THEN [path EXCEPT ![t] = Resources] ELSE path

\* A handler begins in an idle thread.
Begin(t, h, q) ==
    /\ request[t] = Idle
    /\ Try(t, [at |-> "look", by |-> h, q |-> q, n |-> 1, a |-> Error])
    /\ UNCHANGED <<memo, blind>>

-----------------------------------------------------------------------------
(* The memo is looked into, the library asked on a miss, and its answer,   *)
(* an error as well, is kept if no other thread has kept one meanwhile.    *)

Hit(t) ==
    LET r == request[t]
    IN  /\ r.at = "look"
        /\ memo[Through(r, r.n)][Body(r, r.n)] # Absent
        /\ request' = [request EXCEPT ![t].at = "judge",
                                      ![t].a = memo[Through(r, r.n)][Body(r, r.n)]]
        /\ UNCHANGED <<path, memo, blind>>

\* The thread's library and its directory are its own.
Calculate(t) ==
    LET r == request[t]
        a == AnswerOf[path[t]][Body(r, r.n)]
    IN  /\ r.at = "look"
        /\ memo[Through(r, r.n)][Body(r, r.n)] = Absent
        /\ request' = [request EXCEPT ![t].at = "keep", ![t].a = a]
        /\ blind' = IF a = AnswerOf[Resources][Body(r, r.n)] \/ Attempt(r, r.n).sets
                    THEN blind ELSE blind \cup {<<Through(r, r.n), Body(r, r.n)>>}
        /\ UNCHANGED <<path, memo>>

\* Mutant: one entry too many stays.
Kept_Late(m, q, a) ==
    IF Cardinality(Held(m)) <= MaxSize THEN {[memo[m] EXCEPT ![q] = a]}
    ELSE {[memo[m] EXCEPT ![q] = a, ![old] = Absent] : old \in Held(m)}

\* A full memo gives up its least recently used entry; which one that is, is
\* left open.
Kept(m, q, a) ==
    IF Cardinality(Held(m)) < MaxSize THEN {[memo[m] EXCEPT ![q] = a]}
    ELSE {[memo[m] EXCEPT ![q] = a, ![old] = Absent] : old \in Held(m)}

Keep(t) ==
    LET r == request[t]
        m == Through(r, r.n)
        q == Body(r, r.n)
    IN  /\ r.at = "keep"
        /\ IF memo[m][q] # Absent THEN memo' = memo
           ELSE \E entries \in Kept(m, q, r.a) : memo' = [memo EXCEPT ![m] = entries]
        /\ Go(t, "judge")
        /\ UNCHANGED <<path, blind>>

-----------------------------------------------------------------------------
(* What the handler makes of the answer.                                   *)

Last(r) == r.n = Len(Plan[r.by])

\* Mutant: it asks the last time again until there is an answer.
Retry_Always(t) ==
    LET r == request[t]
    IN  /\ r.at = "judge" /\ r.a = Error
        /\ Try(t, [r EXCEPT !.at = "look", !.n = IF Last(r) THEN @ ELSE @ + 1])
        /\ UNCHANGED <<memo, blind>>

\* An error is answered by the next attempt of the plan.
Retry(t) ==
    LET r == request[t]
    IN  /\ r.at = "judge" /\ r.a = Error /\ ~Last(r)
        /\ Try(t, [r EXCEPT !.at = "look", !.n = @ + 1])
        /\ UNCHANGED <<memo, blind>>

\* What the request is answered: a position, or the error of the last attempt
Final(r) == r.at = "judge" /\ (r.a # Error \/ Last(r))

Return(t) ==
    /\ Final(request[t])
    /\ request' = [request EXCEPT ![t] = Idle]
    /\ UNCHANGED <<path, memo, blind>>

\* The pool gives up an idle thread and starts another in its place, whose
\* library has not been told a directory.
Replace(t) ==
    /\ request[t] = Idle
    /\ path' = [path EXCEPT ![t] = Initial]
    /\ UNCHANGED <<memo, request, blind>>

Work(t) == Hit(t) \/ Calculate(t) \/ Keep(t) \/ Retry(t) \/ Return(t)

Next == \E t \in Threads :
          \/ \E h \in Handlers, q \in Wanted : Begin(t, h, q)
          \/ Work(t)
          \/ Replace(t)

\* A handler runs to its end.
Spec == Init /\ [][Next]_vars /\ \A t \in Threads : WF_vars(Work(t))

-----------------------------------------------------------------------------
(* Properties.                                                             *)

Requests ==
    {r \in [at : {"look", "keep", "judge"}, by : Handlers, q : Wanted, n : Nat, a : Answers] :
       r.n \in DOMAIN Plan[r.by]}

\* The variables have their types, and each memo its size: entries that were
\* missed together are not kept twice (_CALC_CACHE_MAXSIZE: "Bounded caches
\* prevent unbounded growth in long-running API processes").
TypeOK ==
    /\ path \in [Threads -> Paths]
    /\ memo \in [Memos -> [Questions -> Answers \cup {Absent}]]
    /\ request \in [Threads -> Requests \cup {Idle}]
    /\ blind \subseteq Memos \X Questions
    /\ \A m \in Memos : Cardinality(Held(m)) <= MaxSize

\* All handlers of the program share a worker.  If one of them answers an
\* error, or age_points the other body's position, although the resources
\* give a position, then in every memo it asked an attempt that does not set
\* the path, maybe its own first, had been given the error in a thread without
\* the directory; and no answer but age_points' is ever another body's.
\* (pysw.py:108-129 keeps the error for all threads; age_points.py:252-254.)
OnlyBlindThreadsMislead ==
    \A t \in Threads :
        Final(request[t]) =>
            LET r     == request[t]
                right == AnswerOf[Resources][r.q]
            IN  /\ right # Error /\ r.a # right =>
                     \A n \in DOMAIN Plan[r.by] :
                         ~Attempt(r, n).other => <<Through(r, n), r.q>> \in blind
                /\ r.a \in {right, Error} \/
                     (r.by = "age_points" /\ r.a = AnswerOf[Resources][Instead[r.q]])

\* Every request is answered.
EveryRequestEnds == \A t \in Threads : request[t] # Idle ~> request[t] = Idle
=============================================================================
