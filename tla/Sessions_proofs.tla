--------------------------- MODULE Sessions_proofs ---------------------------
(***************************************************************************)
(* Theorems about Sessions for any users, tabs, requests in progress, life *)
(* times of tokens and bounds.                                             *)
(***************************************************************************)
EXTENDS Sessions, FiniteSetTheorems, TLAPS

-----------------------------------------------------------------------------
(* The invariant.                                                           *)

JobType ==
  [kind : Kinds, phase : JobPhases, tab : Tabs, pair : 0 .. pairs,
   user : Users \cup {NoUser}, new : 0 .. pairs, heard : BOOLEAN]

\* There is room for the pairs the requests in progress may issue.
RoomInv == pairs + Cardinality(MayIssue) <= MaxPairs

\* The phases a request of each kind goes through
Passes(kind, phase) ==
  \/ kind = "none" /\ phase = "idle"
  \/ kind = "refresh" /\ phase \in {"verify", "owner", "revoke", "create", "answered", "failed"}
  \/ kind = "login" /\ phase \in {"check", "create", "answered", "failed"}
  \/ kind = "logout" /\ phase \in {"authenticate", "blacklist", "sweep", "answered", "failed"}
  \/ kind = "leave" /\ phase \in {"revoke", "answered"}

\* A request that has issued a pair
Issuer(j) ==
  j.phase \in {"revoke", "create", "answered"} /\ j.kind \in {"refresh", "login"}

\* What a request knows in its phase.  The token a refresh has revoked is not
\* stored again.
JobInv(j) ==
  /\ Passes(j.kind, j.phase)
  /\ j.phase = "idle" => ~j.heard
  /\ j.new # NoPair <=> Issuer(j)
  /\ j.phase = "check" => j.user \in Users
  /\ j.phase = "owner" => j.pair # NoPair
  /\ j.phase \in {"blacklist", "sweep"} => j.pair # NoPair /\ j.user \in Users
  /\ j.phase = "create" /\ j.kind = "refresh" => j.pair \notin rows

\* Pairs have an owner; a pair that has been replaced is not stored; access
\* tokens and entries of the blacklist last no longer than those made now, and
\* the entry of a revoked token as long as the token.
TokenInv ==
  /\ \A n \in 1 .. pairs : token[n].user \in Users /\ token[n].access <= now + AccessLife
  /\ rows \cap succeeded = {}
  /\ \A n \in Pairs : blacklist[n] <= now + AccessLife
  /\ \A n \in revoked : token[n].access <= blacklist[n]

\* The refresh a tab hears of is the one its promise is of.
FlightInv ==
  \A k \in Handlers : job[k].kind = "refresh" /\ job[k].heard => flight[job[k].tab] = k

\* A pair that has not been handed out is in nobody else's hands.
Unseen ==
  \A k \in Handlers : job[k].new # NoPair =>
    /\ job[k].new # jar
    /\ job[k].new \notin succeeded
    /\ \A i \in Handlers : job[i].pair # job[k].new /\ (i # k => job[i].new # job[k].new)

\* With one request to /auth at a time ...
Alone == \A i, k \in Handlers : ~At(i, "idle") /\ ~At(k, "idle") => i = k

\* ... what a refresh has verified still holds when it stores the new token.
SerialJob(j) ==
  /\ j.phase = "owner" => j.pair \in rows
  /\ j.phase \in {"revoke", "create"} /\ j.kind # "leave" =>
       token[j.new].user \in users \ ended
  /\ j.phase \in {"owner", "revoke", "create"} /\ j.kind = "refresh" =>
       j.pair \notin succeeded

SerialInv == ~overlapped => Alone /\ \A k \in Handlers : SerialJob(job[k])

\* When nothing has failed and no session was ended, every request to /auth is
\* heard of, and the token in its answer is stored.
PeaceJob(j) ==
  j.phase # "idle" =>
    /\ j.kind \in {"refresh", "login"}
    /\ j.heard
    /\ j.phase = "answered" => j.new \in rows

PeaceInv == ~spoiled => \A k \in Handlers : PeaceJob(job[k])

IInv ==
  /\ TypeOK
  /\ RoomInv
  /\ \A k \in Handlers : JobInv(job[k])
  /\ TokenInv
  /\ FlightInv
  /\ NobodyWaitsForNothing
  /\ Unseen
  /\ SerialInv
  /\ TokensEnd
  /\ PeaceInv
  /\ CookiesHoldTheSession

-----------------------------------------------------------------------------
(* Jobs.                                                                    *)

\* The slot of no request is a job of its type.
LEMMA NoJobType ==
  ASSUME pairs \in Nat
  PROVE  /\ NoJob \in JobType
         /\ NoJob.phase = "idle" /\ NoJob.kind = "none" /\ ~NoJob.heard
         /\ NoJob.pair = NoPair /\ NoJob.new = NoPair
         /\ JobInv(NoJob) /\ SerialJob(NoJob) /\ PeaceJob(NoJob)
<1>1. NoJob.tab \in Tabs
  BY SessionsAssumption DEF NoJob
<1>2. NoJob \in JobType
  BY <1>1 DEF NoJob, JobType, Kinds, JobPhases, NoPair
<1>3. /\ NoJob.phase = "idle" /\ NoJob.kind = "none" /\ NoJob.heard = FALSE
      /\ NoJob.pair = NoPair /\ NoJob.new = NoPair
  BY DEF NoJob
<1> QED
  BY <1>2, <1>3 DEF JobInv, Passes, Issuer, SerialJob, PeaceJob

\* Fewer requests that may issue a pair need no more room.
LEMMA RoomForFewer ==
  ASSUME RoomInv, NEW S, S \subseteq MayIssue, pairs \in Nat
  PROVE  Cardinality(S) \in Nat /\ pairs + Cardinality(S) <= MaxPairs
<1>1. IsFiniteSet(MayIssue)
  BY SessionsAssumption, FS_Subset DEF MayIssue
<1>2. Cardinality(MayIssue) \in Nat /\ Cardinality(S) \in Nat
      /\ Cardinality(S) <= Cardinality(MayIssue)
  BY <1>1, FS_Subset, FS_CardinalityType
<1> QED
  BY <1>2, SessionsAssumption DEF RoomInv

-----------------------------------------------------------------------------
(* Effects.                                                                 *)

\* A step of ordinary requests or of the clock, after which only those wait who
\* did before or whose tab has a refresh
LEMMA CallEffect ==
  ASSUME IInv, now' \in 0 .. MaxNow, now' >= now, named' \in BOOLEAN,
         UNCHANGED <<database, blacklist, issued, jar, flight, job, acts, history>>,
         call' \in [Calls -> [phase : {"idle", "sent", "waiting", "resent", "refused"},
                              pair : 0 .. pairs]],
         \A c \in Calls : call'[c].phase = "waiting" =>
           call[c].phase = "waiting" \/ flight[Home[c]] # None
  PROVE  IInv'
<1>1. /\ users' = users /\ rows' = rows /\ blacklist' = blacklist /\ token' = token
      /\ pairs' = pairs /\ jar' = jar /\ flight' = flight /\ job' = job /\ acts' = acts
      /\ revoked' = revoked /\ ended' = ended /\ succeeded' = succeeded
      /\ overlapped' = overlapped /\ spoiled' = spoiled
  BY DEF database, issued, history
<1>2. TypeOK'
  BY <1>1 DEF IInv, TypeOK
<1>3. RoomInv' /\ (\A k \in Handlers : JobInv(job[k]))' /\ FlightInv' /\ Unseen'
  BY <1>1 DEF IInv, RoomInv, MayIssue, JobInv, Issuer, FlightInv, Unseen
<1>4. TokenInv'
  <2>1. ASSUME NEW n \in Pairs PROVE blacklist[n] <= now' + AccessLife
    BY <1>1, SessionsAssumption DEF IInv, TypeOK, TokenInv
  <2>2. ASSUME NEW n \in 1 .. pairs PROVE token[n].access <= now' + AccessLife
    <3>1. n \in Pairs /\ token[n].access \in Nat /\ now \in Nat /\ now' \in Nat
      BY <1>1, SessionsAssumption DEF IInv, TypeOK, Pairs
    <3>2. token[n].access <= now + AccessLife /\ now' >= now
      BY <1>1 DEF IInv, TokenInv
    <3> QED
      BY <3>1, <3>2, SessionsAssumption
  <2> QED
    BY <1>1, <2>1, <2>2 DEF IInv, TokenInv
<1>5. NobodyWaitsForNothing'
  BY <1>1 DEF IInv, NobodyWaitsForNothing
<1>6. SerialInv' /\ TokensEnd'
  BY <1>1 DEF IInv, SerialInv, Alone, SerialJob, TokensEnd, At
<1>7. PeaceInv' /\ CookiesHoldTheSession'
  BY <1>1 DEF IInv, PeaceInv, PeaceJob, CookiesHoldTheSession
<1> QED
  BY <1>2, <1>3, <1>4, <1>5, <1>6, <1>7 DEF IInv

\* A new request to /auth; a refresh only by a tab that has none, and for
\* requests of this tab
LEMMA BeginEffect ==
  ASSUME IInv, NEW k \in Handlers, NEW t \in Tabs, NEW kind, NEW phase,
         NEW u \in Users \cup {NoUser}, Begin(k, t, kind, phase, u),
         <<kind, phase>> \in {<<"refresh", "verify">>, <<"login", "check">>,
                              <<"logout", "authenticate">>, <<"leave", "revoke">>},
         kind = "login" => u \in Users,
         kind = "refresh" => flight[t] = None,
         flight' = IF kind = "refresh" THEN [flight EXCEPT ![t] = k] ELSE flight,
         named' \in BOOLEAN, acts' \in 0 .. MaxActs, spoiled' \in BOOLEAN,
         spoiled \/ kind \in {"logout", "leave"} => spoiled',
         UNCHANGED <<database, blacklist, issued, now, jar, revoked, ended, succeeded>>,
         call' \in [Calls -> [phase : {"idle", "sent", "waiting", "resent", "refused"},
                              pair : 0 .. pairs]],
         \A c \in Calls : call'[c].phase = "waiting" =>
           call[c].phase = "waiting" \/ (Home[c] = t /\ kind = "refresh")
  PROVE  IInv'
<1> PICK j : j = [kind |-> kind, phase |-> phase, tab |-> t, pair |-> jar,
                  user |-> u, new |-> NoPair, heard |-> TRUE]
  OBVIOUS
<1>1. /\ users' = users /\ rows' = rows /\ blacklist' = blacklist /\ token' = token
      /\ pairs' = pairs /\ jar' = jar /\ now' = now
      /\ revoked' = revoked /\ ended' = ended /\ succeeded' = succeeded
  BY DEF database, issued
<1>2. /\ job' = [job EXCEPT ![k] = j] /\ job[k].phase = "idle"
      /\ kind \in {"refresh", "login"} => pairs + Cardinality(MayIssue) < MaxPairs
  BY DEF Begin, At
<1>3. /\ j.kind = kind /\ j.phase = phase /\ j.tab = t /\ j.pair = jar /\ j.user = u
      /\ j.new = NoPair /\ j.heard = TRUE
  OBVIOUS
<1>4. /\ overlapped' \in BOOLEAN
      /\ ~overlapped' => ~overlapped /\ \A i \in Handlers : job[i].phase = "idle"
  <2>1. overlapped' = (overlapped \/
          \E i \in Handlers : /\ job[i].phase # "idle"
                              /\ ~(kind = "refresh" /\ job[i].kind = "refresh"
                                   /\ job[i].tab = t /\ job[i].heard))
    BY DEF Begin
  <2>2. ASSUME NEW i \in Handlers, job[i].kind = "refresh", job[i].tab = t, job[i].heard,
               kind = "refresh"
        PROVE  FALSE
    BY <2>2, SessionsAssumption DEF IInv, FlightInv
  <2> QED
    BY <2>1, <2>2 DEF IInv, TypeOK
<1> HIDE DEF Begin
<1>5. j \in JobType
  BY <1>3 DEF JobType, Kinds, JobPhases, IInv, TypeOK, NoPair
<1>6. job' \in [Handlers -> JobType] /\ job'[k] = j /\ \A i \in Handlers \ {k} : job'[i] = job[i]
  BY <1>2, <1>5 DEF IInv, TypeOK, JobType
<1>7. TypeOK'
  <2>1. flight' \in [Tabs -> Handlers \cup {None}]
    BY DEF IInv, TypeOK
  <2> QED
    BY <1>1, <1>4, <1>6, <2>1 DEF IInv, TypeOK, JobType
<1>8. RoomInv'
  <2>1. IsFiniteSet(MayIssue) /\ Cardinality(MayIssue) \in Nat
    BY SessionsAssumption, FS_Subset, FS_CardinalityType DEF MayIssue
  <2>2. CASE kind \in {"refresh", "login"}
    <3>1. MayIssue' = MayIssue \cup {k} /\ k \notin MayIssue
      BY <1>2, <1>3, <1>6, <2>2 DEF MayIssue
    <3>2. Cardinality(MayIssue') = Cardinality(MayIssue) + 1
      BY <2>1, <3>1, FS_AddElement
    <3> QED
      BY <1>1, <1>2, <2>1, <2>2, <3>2, SessionsAssumption DEF RoomInv, IInv, TypeOK
  <2>3. CASE kind \notin {"refresh", "login"}
    <3>1. MayIssue' = MayIssue
      BY <1>2, <1>3, <1>6, <2>3 DEF MayIssue
    <3> QED
      BY <1>1, <3>1 DEF RoomInv, IInv
  <2> QED
    BY <2>2, <2>3
<1>9. ASSUME NEW i \in Handlers PROVE JobInv(job[i])'
  <2>1. i = k => JobInv(j)
    BY <1>3 DEF JobInv, Passes, Issuer
  <2>2. JobInv(job'[i])
    BY <1>6, <2>1 DEF IInv
  <2> QED
    BY <1>1, <2>2 DEF JobInv, Issuer
<1>10. TokenInv'
  BY <1>1 DEF IInv, TokenInv
<1>11. FlightInv'
  BY <1>3, <1>6, SessionsAssumption DEF IInv, FlightInv, TypeOK
<1>12. NobodyWaitsForNothing'
  <2>1. ASSUME NEW s \in Tabs, flight'[s] # None
        PROVE  /\ job'[flight'[s]].kind = "refresh" /\ job'[flight'[s]].phase # "idle"
               /\ job'[flight'[s]].tab = s /\ job'[flight'[s]].heard
    <3>1. CASE s = t /\ kind = "refresh"
      <4>1. flight'[s] = k
        BY <3>1 DEF IInv, TypeOK
      <4> QED
        BY <1>3, <1>6, <3>1, <4>1
    <3>2. CASE ~(s = t /\ kind = "refresh")
      <4>1. flight'[s] = flight[s] /\ flight[s] \in Handlers
        BY <2>1, <3>2 DEF IInv, TypeOK
      <4> QED
        BY <1>2, <1>6, <2>1, <4>1 DEF IInv, NobodyWaitsForNothing
    <3> QED
      BY <3>1, <3>2
  <2>2. ASSUME NEW c \in Calls, call'[c].phase = "waiting"
        PROVE  flight'[Home[c]] # None
    BY <2>2, SessionsAssumption DEF IInv, NobodyWaitsForNothing, TypeOK
  <2> QED
    BY <2>1, <2>2 DEF NobodyWaitsForNothing
<1>13. Unseen'
  BY <1>1, <1>3, <1>6 DEF IInv, Unseen
<1>14. SerialInv'
  <2>1. kind = "refresh" => phase = "verify"
    OBVIOUS
  <2>2. SerialJob(j)
    BY <1>3 DEF SerialJob
  <2>3. SUFFICES ASSUME ~overlapped' PROVE Alone' /\ \A i \in Handlers : SerialJob(job[i])'
    BY DEF SerialInv
  <2>4. Alone'
    BY <1>4, <1>6, <2>3 DEF Alone, At
  <2>5. \A i \in Handlers : SerialJob(job'[i])
    BY <1>4, <1>6, <2>2, <2>3 DEF IInv, SerialInv
  <2> QED
    BY <1>1, <2>4, <2>5 DEF SerialJob
<1>15. TokensEnd'
  BY <1>1, <1>4 DEF IInv, TokensEnd
<1>16. PeaceInv'
  <2>1. SUFFICES ASSUME ~spoiled' PROVE \A i \in Handlers : PeaceJob(job[i])'
    BY DEF PeaceInv
  <2>2. PeaceJob(j)
    BY <1>3, <2>1 DEF PeaceJob
  <2>3. \A i \in Handlers : PeaceJob(job'[i])
    BY <1>6, <2>1, <2>2 DEF IInv, PeaceInv
  <2> QED
    BY <1>1, <2>3 DEF PeaceJob
<1>17. CookiesHoldTheSession'
  <2>1. SUFFICES ASSUME ~spoiled', jar # NoPair, jar \notin rows
                 PROVE  \E i \in Handlers : /\ job'[i].kind = "refresh" /\ job'[i].heard
                                            /\ job'[i].pair = jar
                                            /\ job'[i].phase \in {"create", "answered"}
    BY <1>1 DEF CookiesHoldTheSession
  <2>2. PICK i \in Handlers : /\ job[i].kind = "refresh" /\ job[i].heard
                              /\ job[i].pair = jar
                              /\ job[i].phase \in {"create", "answered"}
    BY <2>1 DEF IInv, CookiesHoldTheSession
  <2> QED
    BY <1>2, <1>6, <2>2
<1> QED
  BY <1>7, <1>8, <1>9, <1>10, <1>11, <1>12, <1>13, <1>14, <1>15, <1>16, <1>17 DEF IInv

\* A request to /auth is over, or nobody hears of it any more: its tab gives
\* up its promise with it.  In peace only k is over, with its answer or a
\* refusal.
LEMMA EndEffect ==
  ASSUME IInv, NEW k \in Handlers, job' \in [Handlers -> JobType],
         \A i \in Handlers : \/ job'[i] = job[i]
                             \/ job'[i] = NoJob
                             \/ job'[i] = [job[i] EXCEPT !.heard = FALSE],
         UNCHANGED <<database, blacklist, issued, now, revoked, ended, succeeded, overlapped>>,
         flight' \in [Tabs -> Handlers \cup {None}],
         \A t \in Tabs : flight[t] # None =>
           \/ flight'[t] = flight[t] /\ job'[flight[t]] = job[flight[t]]
           \/ flight'[t] = None /\ job'[flight[t]] # job[flight[t]],
         \A t \in Tabs : flight[t] = None => flight'[t] = None,
         call' \in [Calls -> [phase : {"idle", "sent", "waiting", "resent", "refused"},
                              pair : 0 .. pairs]],
         \A c \in Calls : call'[c].phase = "waiting" =>
           call[c].phase = "waiting" /\ flight'[Home[c]] = flight[Home[c]],
         named' \in BOOLEAN, acts' \in 0 .. MaxActs, spoiled' \in BOOLEAN,
         spoiled => spoiled',
         \/ jar' \in {jar, NoPair}
         \/ /\ jar' = job[k].new /\ job'[k] = NoJob
            /\ job[k].phase = "answered" /\ job[k].kind \in {"refresh", "login"},
         ~spoiled' =>
           /\ \A i \in Handlers \ {k} : job'[i] = job[i]
           /\ job'[k] = NoJob
           /\ jar' = jar => job[k].phase = "failed"
  PROVE  IInv'
<1>1. /\ users' = users /\ rows' = rows /\ blacklist' = blacklist /\ token' = token
      /\ pairs' = pairs /\ now' = now /\ revoked' = revoked /\ ended' = ended
      /\ succeeded' = succeeded /\ overlapped' = overlapped
  BY DEF database, issued
<1>2. /\ NoJob.phase = "idle" /\ NoJob.kind = "none" /\ ~NoJob.heard
      /\ NoJob.pair = NoPair /\ NoJob.new = NoPair
      /\ JobInv(NoJob) /\ SerialJob(NoJob) /\ PeaceJob(NoJob)
  BY NoJobType DEF IInv, TypeOK
<1>3. ASSUME NEW i \in Handlers
      PROVE  \/ job'[i] = job[i]
             \/ job'[i] = NoJob
             \/ /\ job'[i] = [job[i] EXCEPT !.heard = FALSE]
                /\ job'[i].phase = job[i].phase /\ job'[i].kind = job[i].kind
                /\ job'[i].pair = job[i].pair /\ job'[i].new = job[i].new
                /\ job'[i].user = job[i].user /\ job'[i].tab = job[i].tab
                /\ job'[i].heard = FALSE
  BY DEF IInv, TypeOK
<1>4. TypeOK'
  <2>1. jar' \in 0 .. pairs
    BY DEF IInv, TypeOK, NoPair
  <2> QED
    BY <1>1, <2>1 DEF IInv, TypeOK, JobType
<1>5. RoomInv'
  <2>1. MayIssue' \subseteq MayIssue
    BY <1>2, <1>3 DEF MayIssue
  <2> QED
    BY <1>1, <2>1, RoomForFewer DEF IInv, RoomInv, TypeOK
<1>6. ASSUME NEW i \in Handlers PROVE JobInv(job[i])'
  <2>1. JobInv(job'[i])
    <3>1. JobInv(job[i])
      BY DEF IInv
    <3>2. CASE job'[i] # job[i] /\ job'[i] # NoJob
      BY <1>3, <3>1, <3>2 DEF JobInv, Issuer
    <3> QED
      BY <1>2, <3>1, <3>2
  <2> QED
    BY <1>1, <2>1 DEF JobInv, Issuer
<1>7. TokenInv'
  BY <1>1 DEF IInv, TokenInv
<1>8. FlightInv'
  <2>1. ASSUME NEW i \in Handlers, job'[i].kind = "refresh", job'[i].heard
        PROVE  flight'[job'[i].tab] = i
    <3>1. job'[i] = job[i]
      BY <1>2, <1>3, <2>1
    <3>2. job[i].tab \in Tabs /\ flight[job[i].tab] = i
      BY <2>1, <3>1 DEF IInv, FlightInv, TypeOK
    <3>3. flight[job[i].tab] # None
      BY <3>2, SessionsAssumption
    <3> QED
      BY <3>1, <3>2, <3>3
  <2> QED
    BY <2>1 DEF FlightInv
<1>9. NobodyWaitsForNothing'
  <2>1. ASSUME NEW t \in Tabs, flight'[t] # None
        PROVE  flight'[t] = flight[t] /\ flight[t] # None /\ job'[flight[t]] = job[flight[t]]
    BY <2>1
  <2>2. ASSUME NEW c \in Calls, call'[c].phase = "waiting"
        PROVE  flight'[Home[c]] # None
    BY <2>2 DEF IInv, NobodyWaitsForNothing
  <2> QED
    BY <2>1, <2>2 DEF IInv, NobodyWaitsForNothing
<1>10. Unseen'
  <2>1. SUFFICES ASSUME NEW i \in Handlers, job'[i].new # NoPair
                 PROVE  /\ job'[i].new # jar'
                        /\ job'[i].new \notin succeeded
                        /\ \A l \in Handlers : /\ job'[l].pair # job'[i].new
                                               /\ l # i => job'[l].new # job'[i].new
    BY <1>1 DEF Unseen
  <2>2. job'[i].new = job[i].new /\ job'[i] # NoJob
    BY <1>2, <1>3, <2>1
  <2>3. /\ job[i].new # jar /\ job[i].new \notin succeeded
        /\ \A l \in Handlers : job[l].pair # job[i].new /\ (l # i => job[l].new # job[i].new)
    BY <2>1, <2>2 DEF IInv, Unseen
  <2>4. job'[i].new # jar'
    BY <2>1, <2>2, <2>3
  <2>5. ASSUME NEW l \in Handlers
        PROVE  job'[l].pair # job'[i].new /\ (l # i => job'[l].new # job'[i].new)
    <3>1. CASE job'[l] = NoJob
      BY <1>2, <2>1, <3>1
    <3>2. CASE job'[l] # NoJob
      <4>1. job'[l].pair = job[l].pair /\ job'[l].new = job[l].new
        BY <1>3, <3>2
      <4> QED
        BY <2>2, <2>3, <4>1
    <3> QED
      BY <3>1, <3>2
  <2> QED
    BY <2>2, <2>3, <2>4, <2>5
<1>11. SerialInv'
  <2>1. SUFFICES ASSUME ~overlapped PROVE Alone' /\ \A i \in Handlers : SerialJob(job[i])'
    BY <1>1 DEF SerialInv
  <2>2. Alone'
    <3>1. Alone
      BY <2>1 DEF IInv, SerialInv
    <3>2. \A i \in Handlers : job'[i].phase # "idle" => job[i].phase # "idle"
      BY <1>2, <1>3
    <3> QED
      BY <3>1, <3>2 DEF Alone, At
  <2>3. ASSUME NEW i \in Handlers PROVE SerialJob(job'[i])
    <3>1. SerialJob(job[i])
      BY <2>1 DEF IInv, SerialInv
    <3>2. CASE job'[i] # job[i] /\ job'[i] # NoJob
      BY <1>3, <3>1, <3>2 DEF SerialJob
    <3> QED
      BY <1>2, <3>1, <3>2
  <2> QED
    BY <1>1, <2>2, <2>3 DEF SerialJob
<1>12. TokensEnd'
  BY <1>1 DEF IInv, TokensEnd
<1>13. PeaceInv'
  <2>1. SUFFICES ASSUME ~spoiled' PROVE \A i \in Handlers : PeaceJob(job[i])'
    BY DEF PeaceInv
  <2>2. \A i \in Handlers : PeaceJob(job'[i])
    BY <1>2, <2>1 DEF IInv, PeaceInv
  <2> QED
    BY <1>1, <2>2 DEF PeaceJob
<1>14. CookiesHoldTheSession'
  <2>1. SUFFICES ASSUME ~spoiled', ~spoiled, jar' # NoPair, jar' \notin rows
                 PROVE  \E i \in Handlers : /\ job'[i].kind = "refresh" /\ job'[i].heard
                                            /\ job'[i].pair = jar'
                                            /\ job'[i].phase \in {"create", "answered"}
    BY <1>1 DEF CookiesHoldTheSession
  <2>2. CASE jar' = jar
    <3>1. PICK i \in Handlers : /\ job[i].kind = "refresh" /\ job[i].heard
                                /\ job[i].pair = jar
                                /\ job[i].phase \in {"create", "answered"}
      BY <2>1, <2>2 DEF IInv, CookiesHoldTheSession
    <3>2. i # k
      BY <2>1, <2>2, <3>1
    <3> QED
      BY <2>1, <2>2, <3>1, <3>2
  <2>3. CASE jar' # jar
    <3>1. jar' = job[k].new /\ job[k].phase = "answered" /\ PeaceJob(job[k])
      BY <2>1, <2>3 DEF IInv, PeaceInv
    <3> QED
      BY <2>1, <3>1 DEF PeaceJob
  <2> QED
    BY <2>2, <2>3
<1> QED
  BY <1>4, <1>5, <1>6, <1>7, <1>8, <1>9, <1>10, <1>11, <1>12, <1>13, <1>14 DEF IInv

\* The handler of slot k goes on with job j, for the same tab and pair.
Progress(k, j) ==
  /\ job' = [job EXCEPT ![k] = j]
  /\ job[k].phase # "idle" /\ j.phase # "idle"
  /\ j.kind = job[k].kind /\ j.tab = job[k].tab /\ j.pair = job[k].pair
  /\ j.heard = job[k].heard
  /\ UNCHANGED browser

\* It concerns no other slot, and no promise of a tab.
LEMMA ProgressFacts ==
  ASSUME IInv, NEW k \in Handlers, NEW j, Progress(k, j)
  PROVE  /\ \A i \in Handlers : job'[i] = IF i = k THEN j ELSE job[i]
         /\ UNCHANGED <<jar, named, call, flight>>
         /\ FlightInv' /\ NobodyWaitsForNothing' /\ (Alone => Alone')
<1>1. \A i \in Handlers : job'[i] = IF i = k THEN j ELSE job[i]
  BY DEF Progress, IInv, TypeOK
<1>2. /\ jar' = jar /\ named' = named /\ call' = call /\ flight' = flight
      /\ job[k].phase # "idle" /\ j.phase # "idle"
      /\ j.kind = job[k].kind /\ j.tab = job[k].tab /\ j.heard = job[k].heard
  BY DEF Progress, browser
<1>3. FlightInv'
  BY <1>1, <1>2 DEF IInv, FlightInv
<1>4. NobodyWaitsForNothing'
  <2>1. ASSUME NEW t \in Tabs, flight[t] # None
        PROVE  LET i == job'[flight[t]] IN
               i.kind = "refresh" /\ i.phase # "idle" /\ i.tab = t /\ i.heard
    <3>1. flight[t] \in Handlers
      BY <2>1 DEF IInv, TypeOK
    <3> QED
      BY <1>1, <1>2, <2>1, <3>1 DEF IInv, NobodyWaitsForNothing
  <2> QED
    BY <1>2, <2>1 DEF IInv, NobodyWaitsForNothing
<1>5. Alone => Alone'
  BY <1>1, <1>2 DEF Alone, At
<1> QED
  BY <1>1, <1>2, <1>3, <1>4, <1>5

\* A step of a handler that writes nothing, if it meets the conditions of the
\* phase it goes on to
LEMMA MoveEffect ==
  ASSUME IInv, NEW k \in Handlers, NEW j \in JobType, Progress(k, j),
         j.new = job[k].new, JobInv(j), ~overlapped => SerialJob(j),
         j.phase \notin {"verify", "check"},
         j.phase = "owner" => job[k].phase = "verify",
         UNCHANGED <<database, blacklist, issued, now, revoked, ended, succeeded, overlapped>>,
         acts' \in 0 .. MaxActs, spoiled' \in BOOLEAN, spoiled => spoiled',
         ~spoiled' => job[k].phase \notin {"create", "answered"} /\ j.phase # "answered"
  PROVE  IInv'
<1>1. /\ users' = users /\ rows' = rows /\ blacklist' = blacklist /\ token' = token
      /\ pairs' = pairs /\ now' = now /\ revoked' = revoked /\ ended' = ended
      /\ succeeded' = succeeded /\ overlapped' = overlapped
  BY DEF database, issued
<1>2. /\ \A i \in Handlers : job'[i] = IF i = k THEN j ELSE job[i]
      /\ jar' = jar /\ named' = named /\ call' = call /\ flight' = flight
      /\ FlightInv' /\ NobodyWaitsForNothing' /\ (Alone => Alone')
  BY ProgressFacts
<1>3. /\ j.kind = job[k].kind /\ j.heard = job[k].heard /\ j.pair = job[k].pair
      /\ j.phase \notin {"verify", "check"} /\ job[k].phase # "idle"
      /\ job' = [job EXCEPT ![k] = j]
  BY DEF Progress, JobType
<1>4. TypeOK'
  BY <1>1, <1>2, <1>3 DEF IInv, TypeOK, JobType
<1>5. RoomInv'
  <2>1. MayIssue' \subseteq MayIssue
    BY <1>2, <1>3 DEF MayIssue
  <2> QED
    BY <1>1, <2>1, RoomForFewer DEF IInv, RoomInv, TypeOK
<1>6. ASSUME NEW i \in Handlers PROVE JobInv(job[i])'
  <2>1. JobInv(job'[i])
    BY <1>2 DEF IInv
  <2> QED
    BY <1>1, <2>1 DEF JobInv, Issuer
<1>7. TokenInv' /\ TokensEnd'
  BY <1>1 DEF IInv, TokenInv, TokensEnd
<1>8. Unseen'
  BY <1>1, <1>2, <1>3 DEF IInv, Unseen
<1>9. SerialInv'
  <2>1. ~overlapped => Alone /\ \A i \in Handlers : SerialJob(job'[i])
    BY <1>2 DEF IInv, SerialInv
  <2> QED
    BY <1>1, <1>2, <2>1 DEF SerialInv, SerialJob
<1>10. PeaceInv'
  <2>1. ASSUME ~spoiled', NEW i \in Handlers PROVE PeaceJob(job'[i])
    <3>1. PeaceJob(job[k]) /\ PeaceJob(job[i])
      BY <2>1 DEF IInv, PeaceInv
    <3> QED
      BY <1>2, <1>3, <2>1, <3>1 DEF PeaceJob
  <2> QED
    BY <1>1, <2>1 DEF PeaceInv, PeaceJob
<1>11. CookiesHoldTheSession'
  BY <1>1, <1>2 DEF IInv, CookiesHoldTheSession
<1> QED
  BY <1>2, <1>4, <1>5, <1>6, <1>7, <1>8, <1>9, <1>10, <1>11 DEF IInv

\* A pair is issued to u, for whom a refresh or a login has been admitted.
LEMMA IssueEffect ==
  ASSUME IInv, NEW k \in Handlers, NEW u \in Users, NEW phase, Issue(k, u, phase),
         <<job[k].phase, phase>> \in {<<"owner", "revoke">>, <<"check", "create">>},
         u \in users, ended' \in SUBSET ended,
         ~overlapped => u \notin ended',
         UNCHANGED <<database, blacklist, now, acts, browser, revoked, succeeded, overlapped, spoiled>>
  PROVE  IInv'
<1> PICK n : n = pairs + 1
  OBVIOUS
<1> PICK j : j = [job[k] EXCEPT !.user = u, !.new = pairs + 1, !.phase = phase]
  OBVIOUS
<1>1. /\ users' = users /\ rows' = rows /\ blacklist' = blacklist
      /\ pairs' = n /\ now' = now /\ acts' = acts /\ revoked' = revoked
      /\ succeeded' = succeeded /\ overlapped' = overlapped /\ spoiled' = spoiled
  BY DEF database, Issue
<1>2. JobInv(job[k]) /\ job[k] \in JobType /\ pairs \in 0 .. MaxPairs
      /\ MaxPairs \in Nat /\ AccessLife \in Nat /\ RefreshLife \in Nat /\ now \in Nat
  BY SessionsAssumption DEF IInv, TypeOK, JobType
<1>3. /\ j.kind = job[k].kind /\ j.tab = job[k].tab /\ j.pair = job[k].pair
      /\ j.heard = job[k].heard /\ j.user = u /\ j.new = n /\ j.phase = phase
      /\ job' = [job EXCEPT ![k] = j]
      /\ <<job[k].kind, job[k].phase, phase>> \in
           {<<"refresh", "owner", "revoke">>, <<"login", "check", "create">>}
      /\ job[k].phase \in {"verify", "owner", "check"}
      /\ j.phase \in JobPhases \ {"verify", "owner", "check"}
  BY <1>2 DEF JobType, Issue, JobInv, Passes, JobPhases
<1>4. Progress(k, j)
  BY <1>3 DEF Progress
<1>5. /\ \A i \in Handlers : job'[i] = IF i = k THEN j ELSE job[i]
      /\ jar' = jar /\ named' = named /\ call' = call /\ flight' = flight
      /\ FlightInv' /\ NobodyWaitsForNothing' /\ (Alone => Alone')
  BY <1>4, ProgressFacts
<1>6. n \in Pairs /\ RoomInv'
  <2>1. IsFiniteSet(MayIssue) /\ Cardinality(MayIssue) \in Nat
    BY SessionsAssumption, FS_Subset, FS_CardinalityType DEF MayIssue
  <2>2. k \in MayIssue /\ MayIssue' = MayIssue \ {k}
    <3>1. k \in MayIssue /\ k \notin MayIssue'
      BY <1>3, <1>5 DEF MayIssue
    <3>2. \A i \in Handlers \ {k} : i \in MayIssue' <=> i \in MayIssue
      BY <1>5 DEF MayIssue
    <3>3. MayIssue \subseteq Handlers /\ MayIssue' \subseteq Handlers
      BY DEF MayIssue
    <3> QED
      BY <3>1, <3>2, <3>3
  <2>3. Cardinality(MayIssue') = Cardinality(MayIssue) - 1
    BY <2>1, <2>2, FS_RemoveElement
  <2>4. Cardinality(MayIssue') \in Nat
    BY <2>1, <2>2, FS_Subset, FS_CardinalityType
  <2>5. pairs + Cardinality(MayIssue) <= MaxPairs
    BY DEF IInv, RoomInv
  <2> QED
    BY <1>1, <1>2, <2>1, <2>3, <2>4, <2>5 DEF RoomInv, Pairs
<1>7. /\ token' \in [Pairs -> [user : Users \cup {NoUser}, access : Nat, refresh : Nat]]
      /\ token'[n].user = u /\ token'[n].access = now + AccessLife
      /\ \A m \in 1 .. pairs : token'[m] = token[m]
  <2> PICK e : e = [user |-> u, access |-> now + AccessLife, refresh |-> now + RefreshLife]
    OBVIOUS
  <2>1. e \in [user : Users \cup {NoUser}, access : Nat, refresh : Nat]
        /\ e.user = u /\ e.access = now + AccessLife
    BY <1>2
  <2>2. token' = [token EXCEPT ![n] = e]
    BY DEF Issue
  <2>3. token \in [Pairs -> [user : Users \cup {NoUser}, access : Nat, refresh : Nat]]
    BY DEF IInv, TypeOK
  <2>4. \A m \in 1 .. pairs : m \in Pairs /\ m # n
    BY <1>2 DEF Pairs
  <2>5. \A m \in Pairs : token'[m] = IF m = n THEN e ELSE token[m]
    BY <2>2, <2>3
  <2>6. token'[n].user = u /\ token'[n].access = now + AccessLife
    BY <1>6, <2>1, <2>5
  <2> QED
    BY <2>1, <2>2, <2>3, <2>4, <2>5, <2>6
<1>8. TypeOK'
  <2>1. 0 .. pairs \subseteq 0 .. n /\ n \in 0 .. MaxPairs /\ 1 .. pairs \subseteq 1 .. n
    BY <1>2, <1>6 DEF Pairs
  <2>2. job' \in [Handlers -> JobType']
    <3>1. /\ job[k].kind \in Kinds /\ job[k].tab \in Tabs /\ job[k].pair \in 0 .. n
          /\ job[k].heard \in BOOLEAN /\ n \in 0 .. n
      BY <1>2, <2>1 DEF JobType
    <3>2. j \in JobType'
      <4>1. j = [kind |-> job[k].kind, phase |-> phase, tab |-> job[k].tab,
                 pair |-> job[k].pair, user |-> u, new |-> n, heard |-> job[k].heard]
        BY <1>2 DEF JobType
      <4> QED
        BY <1>1, <1>3, <3>1, <4>1 DEF JobType
    <3>3. JobType \subseteq JobType'
      BY <1>1, <2>1 DEF JobType
    <3>4. job \in [Handlers -> JobType]
      BY DEF IInv, TypeOK, JobType
    <3> HIDE DEF JobType
    <3> QED
      BY <1>3, <3>2, <3>3, <3>4
  <2>3. call \in [Calls -> [phase : {"idle", "sent", "waiting", "resent", "refused"},
                            pair : 0 .. n]]
    BY <2>1 DEF IInv, TypeOK
  <2>4. /\ rows \subseteq 1 .. n /\ revoked \subseteq 1 .. n /\ succeeded \subseteq 0 .. n
        /\ jar \in 0 .. n
    BY <2>1 DEF IInv, TypeOK
  <2> QED
    BY <1>1, <1>5, <1>7, <2>1, <2>2, <2>3, <2>4 DEF IInv, TypeOK, JobType
<1>9. ASSUME NEW i \in Handlers PROVE JobInv(job[i])'
  <2>1. JobInv(j)
    BY <1>2, <1>3 DEF JobInv, Passes, Issuer, NoPair
  <2>2. CASE i = k
    <3>1. job'[i] = j /\ j.kind = "refresh" => j.phase = "revoke"
      BY <1>3, <1>5, <2>2
    <3> QED
      BY <1>1, <1>5, <2>1, <2>2 DEF JobInv, Issuer
  <2>3. CASE i # k
    BY <1>1, <1>5, <2>3 DEF IInv, JobInv, Issuer
  <2> QED
    BY <2>2, <2>3
<1>10. TokenInv'
  <2>1. ASSUME NEW m \in 1 .. n
        PROVE  token'[m].user \in Users /\ token'[m].access <= now + AccessLife
    <3>1. m = n \/ m \in 1 .. pairs
      BY <1>2
    <3>2. CASE m = n
      BY <1>2, <1>7, <3>2
    <3>3. CASE m # n /\ m \in 1 .. pairs
      BY <1>7, <3>3 DEF IInv, TokenInv
    <3> QED
      BY <3>1, <3>2, <3>3
  <2>2. ASSUME NEW m \in revoked PROVE token'[m].access <= blacklist[m]
    BY <1>7 DEF IInv, TokenInv, TypeOK
  <2> QED
    BY <1>1, <2>1, <2>2 DEF IInv, TokenInv
<1>11. Unseen'
  <2>1. /\ n \notin succeeded /\ n # jar
        /\ \A i \in Handlers : job[i].pair # n /\ job[i].new # n
    BY <1>2 DEF IInv, TypeOK
  <2> QED
    BY <1>1, <1>3, <1>5, <2>1 DEF IInv, Unseen
<1>12. SerialInv'
  <2>1. SUFFICES ASSUME ~overlapped PROVE Alone' /\ \A i \in Handlers : SerialJob(job[i])'
    BY <1>1 DEF SerialInv
  <2>2. Alone /\ \A i \in Handlers : SerialJob(job[i])
    BY <2>1 DEF IInv, SerialInv
  <2>3. SerialJob(job[k])'
    BY <1>1, <1>3, <1>5, <1>7, <2>1, <2>2 DEF SerialJob
  <2>4. ASSUME NEW i \in Handlers, i # k PROVE SerialJob(job[i])'
    <3>1. job[i].phase = "idle" /\ job'[i] = job[i]
      BY <1>3, <1>5, <2>2, <2>4 DEF Alone, At
    <3> QED
      BY <3>1 DEF SerialJob
  <2> QED
    BY <1>5, <2>2, <2>3, <2>4
<1>13. TokensEnd'
  <2>1. SUFFICES ASSUME ~overlapped, NEW m \in rows PROVE token'[m].user \in users \ ended'
    BY <1>1 DEF TokensEnd
  <2>2. m \in 1 .. pairs /\ token[m].user \in users \ ended
    BY <2>1 DEF IInv, TypeOK, TokensEnd
  <2> QED
    BY <1>7, <2>2
<1>14. PeaceInv'
  <2>1. ASSUME ~spoiled, NEW i \in Handlers PROVE PeaceJob(job'[i])
    <3>1. PeaceJob(job[k]) /\ PeaceJob(job[i])
      BY <2>1 DEF IInv, PeaceInv
    <3> QED
      BY <1>3, <1>5, <3>1 DEF PeaceJob
  <2> QED
    BY <1>1, <2>1 DEF PeaceInv, PeaceJob
<1>15. CookiesHoldTheSession'
  BY <1>1, <1>3, <1>5 DEF IInv, CookiesHoldTheSession
<1> QED
  BY <1>5, <1>6, <1>8, <1>9, <1>10, <1>11, <1>12, <1>13, <1>14, <1>15 DEF IInv

-----------------------------------------------------------------------------
(* The steps of the handlers.                                               *)

\* Move is a step to another phase.
LEMMA MoveJob ==
  ASSUME IInv, NEW k \in Handlers, NEW phase \in JobPhases \ {"idle"}, Move(k, phase),
         ~At(k, "idle"), UNCHANGED browser
  PROVE  \E j \in JobType :
           /\ Progress(k, j)
           /\ j.phase = phase /\ j.kind = job[k].kind /\ j.pair = job[k].pair
           /\ j.user = job[k].user /\ j.new = job[k].new /\ j.heard = job[k].heard
<1> DEFINE j == [job[k] EXCEPT !.phase = phase]
<1>1. job \in [Handlers -> JobType]
  BY DEF IInv, TypeOK, JobType
<1>2. job[k] \in JobType
  BY <1>1
<1>3. job' = [job EXCEPT ![k] = [job[k] EXCEPT !.phase = phase]]
  BY <1>1 DEF Move
<1>4. /\ Progress(k, j) /\ j \in JobType
      /\ j.phase = phase /\ j.kind = job[k].kind /\ j.pair = job[k].pair
      /\ j.user = job[k].user /\ j.new = job[k].new /\ j.heard = job[k].heard
  BY <1>2, <1>3 DEF Progress, JobType, At
<1> QED
  BY <1>4

\* The token of a request is revoked: nobody else holds the new one.
LEMMA RevokeStep ==
  ASSUME IInv, NEW k \in Handlers, Revoke(k)
  PROVE  IInv'
<1>1. /\ users' = users /\ rows' = rows \ {job[k].pair} /\ blacklist' = blacklist
      /\ token' = token /\ pairs' = pairs /\ now' = now /\ acts' = acts
      /\ revoked' = revoked /\ ended' = ended /\ succeeded' = succeeded
      /\ overlapped' = overlapped /\ spoiled' = spoiled /\ UNCHANGED browser
  BY DEF Revoke, issued, history
<1>2. JobInv(job[k]) /\ job[k].phase = "revoke" /\ job[k].kind \in {"leave", "refresh"}
  BY DEF IInv, JobInv, Passes, Revoke, At
<1>3. PICK j \in JobType :
        /\ Progress(k, j)
        /\ \/ job[k].kind = "leave" /\ j.phase = "answered"
           \/ job[k].kind = "refresh" /\ j.phase = "create"
        /\ j.kind = job[k].kind /\ j.pair = job[k].pair
        /\ j.user = job[k].user /\ j.new = job[k].new /\ j.heard = job[k].heard
  <2>1. CASE job[k].kind = "leave"
    BY <1>1, <1>2, <2>1, MoveJob DEF Revoke, JobPhases, At
  <2>2. CASE job[k].kind = "refresh"
    BY <1>1, <1>2, <2>2, MoveJob DEF Revoke, JobPhases, At
  <2> QED
    BY <1>2, <2>1, <2>2
<1>4. /\ \A i \in Handlers : job'[i] = IF i = k THEN j ELSE job[i]
      /\ jar' = jar /\ named' = named /\ call' = call /\ flight' = flight
      /\ FlightInv' /\ NobodyWaitsForNothing' /\ (Alone => Alone')
  BY <1>3, ProgressFacts
<1>5. TypeOK'
  BY <1>1, <1>3, <1>4 DEF IInv, TypeOK, JobType, Progress
<1>6. RoomInv'
  <2>1. MayIssue' \subseteq MayIssue
    BY <1>2, <1>3, <1>4 DEF MayIssue
  <2> QED
    BY <1>1, <2>1, RoomForFewer DEF IInv, RoomInv, TypeOK
<1>7. ASSUME NEW i \in Handlers PROVE JobInv(job[i])'
  <2>1. i = k => JobInv(j)'
    BY <1>1, <1>2, <1>3 DEF JobInv, Passes, Issuer
  <2>2. i # k => JobInv(job[i])'
    BY <1>1, <1>4 DEF IInv, JobInv, Issuer
  <2> QED
    BY <1>4, <2>1, <2>2 DEF JobInv, Issuer
<1>8. TokenInv' /\ TokensEnd'
  BY <1>1 DEF IInv, TokenInv, TokensEnd
<1>9. Unseen'
  BY <1>1, <1>3, <1>4 DEF IInv, Unseen
<1>10. SerialInv'
  <2>1. SUFFICES ASSUME ~overlapped PROVE Alone' /\ \A i \in Handlers : SerialJob(job[i])'
    BY <1>1 DEF SerialInv
  <2>2. Alone /\ \A i \in Handlers : SerialJob(job[i])
    BY <2>1 DEF IInv, SerialInv
  <2>3. SerialJob(job[k])'
    BY <1>1, <1>2, <1>3, <1>4, <2>2 DEF SerialJob
  <2>4. ASSUME NEW i \in Handlers, i # k PROVE SerialJob(job[i])'
    <3>1. job[i].phase = "idle" /\ job'[i] = job[i]
      BY <1>2, <1>4, <2>2, <2>4 DEF Alone, At
    <3> QED
      BY <3>1 DEF SerialJob
  <2> QED
    BY <1>4, <2>2, <2>3, <2>4
<1>11. PeaceInv'
  <2>1. ASSUME ~spoiled, NEW i \in Handlers PROVE PeaceJob(job[i])'
    <3>1. PeaceJob(job[k]) /\ PeaceJob(job[i])
      BY <2>1 DEF IInv, PeaceInv
    <3>2. CASE i = k
      BY <1>2, <1>3, <1>4, <3>1, <3>2 DEF PeaceJob
    <3>3. CASE i # k
      <4>1. job[i].phase = "answered" => job[i].new # job[k].pair
        BY <2>1, <3>1 DEF IInv, Unseen, JobInv, Issuer, PeaceJob
      <4> QED
        BY <1>1, <1>4, <3>1, <3>3, <4>1 DEF PeaceJob
    <3> QED
      BY <3>2, <3>3
  <2> QED
    BY <1>1, <2>1 DEF PeaceInv
<1>12. CookiesHoldTheSession'
  <2>1. SUFFICES ASSUME ~spoiled, jar # NoPair, jar \notin rows'
                 PROVE  \E i \in Handlers : /\ job'[i].kind = "refresh" /\ job'[i].heard
                                            /\ job'[i].pair = jar
                                            /\ job'[i].phase \in {"create", "answered"}
    BY <1>1, <1>4 DEF CookiesHoldTheSession
  <2>2. PeaceJob(job[k])
    BY <2>1 DEF IInv, PeaceInv
  <2>3. CASE jar = job[k].pair
    BY <1>2, <1>3, <1>4, <2>2, <2>3 DEF PeaceJob
  <2>4. CASE jar # job[k].pair
    <3>1. PICK i \in Handlers : /\ job[i].kind = "refresh" /\ job[i].heard
                                /\ job[i].pair = jar
                                /\ job[i].phase \in {"create", "answered"}
      BY <1>1, <2>1, <2>4 DEF IInv, CookiesHoldTheSession
    <3> QED
      BY <1>4, <2>4, <3>1
  <2> QED
    BY <2>3, <2>4
<1> QED
  BY <1>4, <1>5, <1>6, <1>7, <1>8, <1>9, <1>10, <1>11, <1>12 DEF IInv

\* Only the handler that works in peace is left of those that work alone.
LEMMA AloneIdle ==
  ASSUME IInv, ~overlapped, NEW k \in Handlers, ~At(k, "idle"), NEW i \in Handlers, i # k
  PROVE  job[i].phase = "idle"
BY DEF IInv, SerialInv, Alone, At

\* The new token of a pair is stored.
LEMMA CreateStep ==
  ASSUME IInv, NEW k \in Handlers, At(k, "create"), Move(k, "answered"),
         rows' = rows \cup {job[k].new},
         succeeded' = succeeded \cup (IF job[k].kind = "refresh" THEN {job[k].pair} ELSE {}),
         UNCHANGED <<users, blacklist, issued, now, acts, browser, revoked, ended,
                     overlapped, spoiled>>
  PROVE  IInv'
<1> PICK n : n = job[k].new
  OBVIOUS
<1>1. /\ users' = users /\ rows' = rows \cup {n} /\ blacklist' = blacklist
      /\ token' = token /\ pairs' = pairs /\ now' = now /\ acts' = acts
      /\ revoked' = revoked /\ ended' = ended
      /\ overlapped' = overlapped /\ spoiled' = spoiled
  BY DEF issued
<1>2. JobInv(job[k]) /\ job[k].phase = "create" /\ job[k].kind \in {"login", "refresh"}
  BY DEF IInv, JobInv, Passes, At
<1>3. PICK j \in JobType :
        /\ Progress(k, j)
        /\ j.phase = "answered" /\ j.kind = job[k].kind /\ j.pair = job[k].pair
        /\ j.user = job[k].user /\ j.new = n /\ j.heard = job[k].heard
  BY <1>2, MoveJob DEF JobPhases, At
<1>4. /\ \A i \in Handlers : job'[i] = IF i = k THEN j ELSE job[i]
      /\ jar' = jar /\ named' = named /\ call' = call /\ flight' = flight
      /\ FlightInv' /\ NobodyWaitsForNothing' /\ (Alone => Alone')
  BY <1>3, ProgressFacts
<1>5. /\ n # NoPair /\ n \in 1 .. pairs /\ n # jar /\ n \notin succeeded
      /\ \A i \in Handlers : job[i].pair # n /\ (i # k => job[i].new # n)
  <2>1. n # NoPair /\ n \in 0 .. pairs /\ pairs \in Nat
    BY <1>2, <1>3 DEF JobInv, Issuer, JobType, IInv, TypeOK
  <2> QED
    BY <2>1 DEF IInv, Unseen, NoPair
<1>6. TypeOK'
  <2>1. succeeded' \subseteq 0 .. pairs
    BY DEF IInv, TypeOK
  <2> QED
    BY <1>1, <1>3, <1>4, <1>5, <2>1 DEF IInv, TypeOK, JobType, Progress
<1>7. RoomInv'
  <2>1. MayIssue' \subseteq MayIssue
    BY <1>2, <1>3, <1>4 DEF MayIssue
  <2> QED
    BY <1>1, <2>1, RoomForFewer DEF IInv, RoomInv, TypeOK
<1>8. ASSUME NEW i \in Handlers PROVE JobInv(job[i])'
  <2>1. i = k => JobInv(j)'
    BY <1>2, <1>3 DEF JobInv, Passes, Issuer
  <2>2. i # k => JobInv(job[i])'
    BY <1>1, <1>4, <1>5 DEF IInv, JobInv, Issuer
  <2> QED
    BY <1>4, <2>1, <2>2 DEF JobInv, Issuer
<1>9. TokenInv'
  <2>1. job[k].kind = "refresh" => job[k].pair \notin rows /\ job[k].pair # n
    BY <1>2, <1>5 DEF JobInv
  <2>2. rows' \cap succeeded' = {}
    BY <1>1, <1>5, <2>1 DEF IInv, TokenInv
  <2> QED
    BY <1>1, <2>2 DEF IInv, TokenInv
<1>10. Unseen'
  <2>1. SUFFICES ASSUME NEW i \in Handlers, job'[i].new # NoPair
                 PROVE  /\ job'[i].new # jar
                        /\ job'[i].new \notin succeeded'
                        /\ \A l \in Handlers : /\ job'[l].pair # job'[i].new
                                               /\ l # i => job'[l].new # job'[i].new
    BY <1>4 DEF Unseen
  <2>2. \A l \in Handlers : job'[l].new = job[l].new /\ job'[l].pair = job[l].pair
    BY <1>3, <1>4
  <2>3. /\ job[i].new # jar /\ job[i].new \notin succeeded
        /\ \A l \in Handlers : job[l].pair # job[i].new /\ (l # i => job[l].new # job[i].new)
    BY <2>1, <2>2 DEF IInv, Unseen
  <2> QED
    BY <2>2, <2>3
<1>11. ~overlapped => Alone /\ \A i \in Handlers : SerialJob(job[i])
  BY DEF IInv, SerialInv
<1>12. SerialInv'
  <2>1. SUFFICES ASSUME ~overlapped PROVE Alone' /\ \A i \in Handlers : SerialJob(job[i])'
    BY <1>1 DEF SerialInv
  <2>2. SerialJob(job[k])'
    BY <1>3, <1>4 DEF SerialJob
  <2>3. ASSUME NEW i \in Handlers, i # k PROVE SerialJob(job[i])'
    <3>1. job[i].phase = "idle" /\ job'[i] = job[i]
      BY <1>2, <1>4, <2>1, <2>3, AloneIdle DEF At
    <3> QED
      BY <3>1 DEF SerialJob
  <2> QED
    BY <1>4, <1>11, <2>1, <2>2, <2>3
<1>13. TokensEnd'
  BY <1>1, <1>2, <1>3, <1>11 DEF IInv, SerialJob, TokensEnd
<1>14. PeaceInv'
  <2>1. ASSUME ~spoiled, NEW i \in Handlers PROVE PeaceJob(job[i])'
    <3>1. PeaceJob(job[k]) /\ PeaceJob(job[i])
      BY <2>1 DEF IInv, PeaceInv
    <3> QED
      BY <1>1, <1>2, <1>3, <1>4, <3>1 DEF PeaceJob
  <2> QED
    BY <1>1, <2>1 DEF PeaceInv
<1>15. CookiesHoldTheSession'
  <2>1. SUFFICES ASSUME ~spoiled, jar # NoPair, jar \notin rows
                 PROVE  \E i \in Handlers : /\ job'[i].kind = "refresh" /\ job'[i].heard
                                            /\ job'[i].pair = jar
                                            /\ job'[i].phase \in {"create", "answered"}
    BY <1>1, <1>4 DEF CookiesHoldTheSession
  <2>2. PICK i \in Handlers : /\ job[i].kind = "refresh" /\ job[i].heard
                              /\ job[i].pair = jar
                              /\ job[i].phase \in {"create", "answered"}
    BY <2>1 DEF IInv, CookiesHoldTheSession
  <2> QED
    BY <1>3, <1>4, <2>2
<1> QED
  BY <1>4, <1>6, <1>7, <1>8, <1>9, <1>10, <1>12, <1>13, <1>14, <1>15 DEF IInv

\* The access token of a request is put on the blacklist.
LEMMA BlacklistStep ==
  ASSUME IInv, NEW k \in Handlers, Blacklist(k)
  PROVE  IInv'
<1> PICK n : n = job[k].pair
  OBVIOUS
<1>1. /\ users' = users /\ rows' = rows /\ token' = token /\ pairs' = pairs
      /\ now' = now /\ acts' = acts /\ ended' = ended /\ succeeded' = succeeded
      /\ overlapped' = overlapped /\ spoiled' = spoiled /\ UNCHANGED browser
  BY DEF Blacklist, database, issued
<1>2. JobInv(job[k]) /\ job[k].phase = "blacklist" /\ job[k].kind = "logout"
  BY DEF IInv, JobInv, Passes, Blacklist, At
<1>3. PICK j \in JobType :
        /\ Progress(k, j)
        /\ j.phase = "sweep" /\ j.kind = job[k].kind /\ j.pair = n
        /\ j.user = job[k].user /\ j.new = job[k].new /\ j.heard = job[k].heard
  BY <1>1, <1>2, MoveJob DEF Blacklist, JobPhases, At
<1>4. /\ \A i \in Handlers : job'[i] = IF i = k THEN j ELSE job[i]
      /\ jar' = jar /\ named' = named /\ call' = call /\ flight' = flight
      /\ FlightInv' /\ NobodyWaitsForNothing' /\ (Alone => Alone')
  BY <1>3, ProgressFacts
<1>5. /\ n \in 1 .. pairs /\ n \in Pairs /\ now \in Nat /\ AccessLife \in Nat
      /\ blacklist \in [Pairs -> Nat]
  <2>1. n # NoPair /\ n \in 0 .. pairs /\ pairs \in 0 .. MaxPairs /\ MaxPairs \in Nat
    BY <1>2, <1>3, SessionsAssumption DEF JobInv, JobType, IInv, TypeOK
  <2>2. n \in 1 .. pairs /\ n \in Pairs
    BY <2>1 DEF Pairs, NoPair
  <2>3. now \in Nat /\ AccessLife \in Nat /\ blacklist \in [Pairs -> Nat]
    BY SessionsAssumption DEF IInv, TypeOK
  <2> QED
    BY <2>2, <2>3
<1>6. \/ blacklist' = blacklist /\ revoked' = revoked
      \/ /\ blacklist' = [blacklist EXCEPT ![n] = now + AccessLife]
         /\ revoked' = revoked \cup {n} /\ token[n].access <= now + AccessLife
  <2>1. token[n].access <= now + AccessLife
    BY <1>5 DEF IInv, TokenInv
  <2> QED
    BY <2>1 DEF Blacklist, BlacklistUntil
<1>7. TypeOK'
  <2>1. blacklist' \in [Pairs -> Nat]
    BY <1>5, <1>6
  <2>2. revoked' \subseteq 1 .. pairs
    BY <1>5, <1>6 DEF IInv, TypeOK
  <2> QED
    BY <1>1, <1>3, <1>4, <2>1, <2>2 DEF IInv, TypeOK, JobType, Progress
<1>8. RoomInv'
  <2>1. MayIssue' \subseteq MayIssue
    BY <1>2, <1>3, <1>4 DEF MayIssue
  <2> QED
    BY <1>1, <2>1, RoomForFewer DEF IInv, RoomInv, TypeOK
<1>9. ASSUME NEW i \in Handlers PROVE JobInv(job[i])'
  <2>1. i = k => JobInv(j)
    BY <1>2, <1>3 DEF JobInv, Passes, Issuer
  <2>2. JobInv(job'[i])
    BY <1>4, <2>1 DEF IInv
  <2> QED
    BY <1>1, <2>2 DEF JobInv, Issuer
<1>10. TokenInv'
  <2>1. ASSUME NEW m \in Pairs
        PROVE  blacklist'[m] <= now + AccessLife /\ blacklist[m] <= blacklist'[m]
    <3>1. blacklist[m] <= now + AccessLife /\ blacklist[m] \in Nat
      BY <1>5 DEF IInv, TokenInv
    <3>2. blacklist'[m] = blacklist[m] \/ blacklist'[m] = now + AccessLife
      BY <1>5, <1>6
    <3> QED
      BY <1>5, <3>1, <3>2
  <2>2. ASSUME NEW m \in revoked' PROVE token[m].access <= blacklist'[m]
    <3>1. CASE m \in revoked
      <4>1. m \in Pairs /\ token[m].access \in Nat /\ token[m].access <= blacklist[m]
        <5>1. m \in 1 .. pairs /\ pairs \in 0 .. MaxPairs /\ MaxPairs \in Nat
          BY <3>1, SessionsAssumption DEF IInv, TypeOK
        <5>2. m \in Pairs
          BY <5>1 DEF Pairs
        <5> QED
          BY <3>1, <5>2 DEF IInv, TypeOK, TokenInv
      <4>2. blacklist[m] \in Nat /\ blacklist'[m] \in Nat
        <5>1. blacklist \in [Pairs -> Nat] /\ blacklist' \in [Pairs -> Nat]
          BY <1>7 DEF IInv, TypeOK
        <5> QED
          BY <4>1, <5>1
      <4> QED
        BY <2>1, <4>1, <4>2
    <3>2. CASE m \notin revoked
      <4>1. /\ m = n /\ token[n].access <= now + AccessLife
            /\ blacklist' = [blacklist EXCEPT ![n] = now + AccessLife]
        BY <1>6, <2>2, <3>2
      <4>2. blacklist'[n] = now + AccessLife
        BY <1>5, <4>1
      <4> QED
        BY <4>1, <4>2
    <3> QED
      BY <3>1, <3>2
  <2> QED
    BY <1>1, <2>1, <2>2 DEF IInv, TokenInv
<1>11. Unseen'
  BY <1>1, <1>3, <1>4 DEF IInv, Unseen
<1>12. SerialInv' /\ TokensEnd'
  <2>1. SerialJob(j)
    BY <1>3 DEF SerialJob
  <2>2. ~overlapped => Alone /\ \A i \in Handlers : SerialJob(job'[i])
    BY <1>4, <2>1 DEF IInv, SerialInv
  <2> QED
    BY <1>1, <1>4, <2>2 DEF IInv, SerialInv, SerialJob, TokensEnd
<1>13. spoiled
  BY <1>2 DEF IInv, PeaceInv, PeaceJob
<1> QED
  BY <1>1, <1>4, <1>7, <1>8, <1>9, <1>10, <1>11, <1>12, <1>13
     DEF IInv, PeaceInv, CookiesHoldTheSession

\* No refresh token of the user is left.
LEMMA SweepStep ==
  ASSUME IInv, NEW k \in Handlers, Sweep(k)
  PROVE  IInv'
<1> PICK u : u = job[k].user
  OBVIOUS
<1>1. /\ users' = users /\ rows' = {n \in rows : token[n].user # u} /\ blacklist' = blacklist
      /\ token' = token /\ pairs' = pairs /\ now' = now /\ acts' = acts /\ revoked' = revoked
      /\ ended' = ended \cup {u} /\ succeeded' = succeeded
      /\ overlapped' = overlapped /\ spoiled' = spoiled /\ UNCHANGED browser
  BY DEF Sweep, issued
<1>2. /\ JobInv(job[k]) /\ job[k].phase = "sweep" /\ job[k].kind = "logout"
      /\ u \in Users
  BY DEF IInv, JobInv, Passes, Sweep, At
<1>3. PICK j \in JobType :
        /\ Progress(k, j)
        /\ j.phase = "answered" /\ j.kind = job[k].kind /\ j.pair = job[k].pair
        /\ j.user = u /\ j.new = job[k].new /\ j.heard = job[k].heard
  BY <1>1, <1>2, MoveJob DEF Sweep, JobPhases, At
<1>4. /\ \A i \in Handlers : job'[i] = IF i = k THEN j ELSE job[i]
      /\ jar' = jar /\ named' = named /\ call' = call /\ flight' = flight
      /\ FlightInv' /\ NobodyWaitsForNothing' /\ (Alone => Alone')
  BY <1>3, ProgressFacts
<1>5. TypeOK'
  BY <1>1, <1>2, <1>3, <1>4 DEF IInv, TypeOK, JobType, Progress
<1>6. RoomInv'
  <2>1. MayIssue' \subseteq MayIssue
    BY <1>2, <1>3, <1>4 DEF MayIssue
  <2> QED
    BY <1>1, <2>1, RoomForFewer DEF IInv, RoomInv, TypeOK
<1>7. ASSUME NEW i \in Handlers PROVE JobInv(job[i])'
  <2>1. i = k => JobInv(j)
    BY <1>2, <1>3 DEF JobInv, Passes, Issuer
  <2>2. JobInv(job'[i])
    BY <1>4, <2>1 DEF IInv
  <2> QED
    BY <1>1, <2>2 DEF JobInv, Issuer
<1>8. TokenInv'
  BY <1>1 DEF IInv, TokenInv
<1>9. Unseen'
  BY <1>1, <1>3, <1>4 DEF IInv, Unseen
<1>10. SerialInv'
  <2>1. SUFFICES ASSUME ~overlapped PROVE Alone' /\ \A i \in Handlers : SerialJob(job[i])'
    BY <1>1 DEF SerialInv
  <2>2. SerialJob(job[k])'
    BY <1>3, <1>4 DEF SerialJob
  <2>3. ASSUME NEW i \in Handlers, i # k PROVE SerialJob(job[i])'
    <3>1. job[i].phase = "idle" /\ job'[i] = job[i]
      BY <1>2, <1>4, <2>1, <2>3, AloneIdle DEF At
    <3> QED
      BY <3>1 DEF SerialJob
  <2> QED
    BY <1>4, <2>1, <2>2, <2>3 DEF IInv, SerialInv
<1>11. TokensEnd'
  BY <1>1 DEF IInv, TokensEnd
<1>12. spoiled
  BY <1>2 DEF IInv, PeaceInv, PeaceJob
<1> QED
  BY <1>1, <1>4, <1>5, <1>6, <1>7, <1>8, <1>9, <1>10, <1>11, <1>12
     DEF IInv, PeaceInv, CookiesHoldTheSession

\* Users are deleted with their tokens.
LEMMA DeleteStep ==
  ASSUME IInv, NEW U \in SUBSET Users, DeleteUsers(U)
  PROVE  IInv'
<1>1. /\ users' = users \ U /\ rows' = {n \in rows : token[n].user \notin U}
      /\ blacklist' = blacklist /\ token' = token /\ pairs' = pairs /\ now' = now
      /\ revoked' = revoked /\ ended' = ended /\ succeeded' = succeeded
      /\ job' = job /\ jar' = jar /\ named' = named /\ call' = call /\ flight' = flight
      /\ spoiled' = TRUE
      /\ overlapped' = (overlapped \/ \E k \in Handlers : job[k].phase # "idle")
  BY DEF DeleteUsers, RemoveUsers, issued, browser, At
<1>2. TypeOK'
  <2>1. acts' \in 0 .. MaxActs
    BY SessionsAssumption DEF DeleteUsers, Act, IInv, TypeOK
  <2>2. overlapped' \in BOOLEAN
    BY <1>1 DEF IInv, TypeOK
  <2> QED
    BY <1>1, <2>1, <2>2 DEF IInv, TypeOK
<1>3. RoomInv' /\ FlightInv' /\ NobodyWaitsForNothing' /\ Unseen' /\ TokenInv'
  BY <1>1 DEF IInv, RoomInv, MayIssue, FlightInv, NobodyWaitsForNothing, Unseen, TokenInv
<1>4. \A k \in Handlers : JobInv(job[k])'
  BY <1>1 DEF IInv, JobInv, Issuer
<1>5. SerialInv' /\ TokensEnd'
  <2>1. CASE overlapped'
    BY <2>1 DEF SerialInv, TokensEnd
  <2>2. CASE ~overlapped'
    <3>1. ~overlapped /\ \A k \in Handlers : job[k].phase = "idle"
      BY <1>1, <2>2
    <3>2. TokensEnd'
      BY <1>1, <3>1 DEF IInv, TokensEnd
    <3> QED
      BY <1>1, <3>1, <3>2 DEF SerialInv, Alone, At, SerialJob
  <2> QED
    BY <2>1, <2>2
<1> QED
  BY <1>1, <1>2, <1>3, <1>4, <1>5 DEF IInv, PeaceInv, CookiesHoldTheSession

-----------------------------------------------------------------------------
(* The steps of the tabs.                                                   *)

\* Requests that are sent or dropped, and the clock
LEMMA QuietStep ==
  ASSUME IInv, Tick \/ \E c \in Calls : Send(c) \/ Drop(c)
  PROVE  IInv'
<1>1. CASE Tick
  <2>1. now' \in 0 .. MaxNow /\ now' >= now
    BY <1>1, SessionsAssumption DEF Tick, IInv, TypeOK
  <2>2. UNCHANGED <<database, blacklist, issued, jar, named, call, flight, job, acts, history>>
    BY <1>1 DEF Tick, browser
  <2> QED
    BY <2>1, <2>2, CallEffect DEF IInv, TypeOK
<1>2. ASSUME NEW c \in Calls, Send(c) \/ Drop(c) PROVE IInv'
  <2>1. UNCHANGED <<database, blacklist, issued, now, jar, named, flight, job, acts, history>>
    BY <1>2 DEF Send, Drop
  <2>2. \/ call' = [call EXCEPT ![c] = [phase |-> "sent", pair |-> jar]]
        \/ call' = [call EXCEPT ![c] = [phase |-> "idle", pair |-> NoPair]]
    BY <1>2 DEF Send, Drop, NoCall
  <2>3. call' \in [Calls -> [phase : {"idle", "sent", "waiting", "resent", "refused"},
                             pair : 0 .. pairs]]
    BY <2>2 DEF IInv, TypeOK, NoPair
  <2>4. \A i \in Calls : call'[i].phase = "waiting" => call[i].phase = "waiting"
    BY <2>2 DEF IInv, TypeOK
  <2>5. now' \in 0 .. MaxNow /\ now' >= now /\ named' \in BOOLEAN
    BY <2>1, SessionsAssumption DEF IInv, TypeOK
  <2> QED
    BY <2>1, <2>3, <2>4, <2>5, CallEffect
<1> QED
  BY <1>1, <1>2

\* A tab refreshes, for a request that was refused or for its user: it joins
\* the refresh it has or begins one.
LEMMA RefreshEffect ==
  ASSUME IInv, NEW t \in Tabs, Refresh(t),
         UNCHANGED <<database, blacklist, issued, now, acts, jar, named,
                     revoked, ended, succeeded, spoiled>>,
         call' \in [Calls -> [phase : {"idle", "sent", "waiting", "resent", "refused"},
                              pair : 0 .. pairs]],
         \A c \in Calls : call'[c].phase = "waiting" =>
           call[c].phase = "waiting" \/ Home[c] = t
  PROVE  IInv'
<1>1. CASE flight[t] # None /\ UNCHANGED <<flight, job, overlapped>>
  <2>1. now' \in 0 .. MaxNow /\ now' >= now /\ named' \in BOOLEAN
    BY SessionsAssumption DEF IInv, TypeOK
  <2>2. UNCHANGED <<database, blacklist, issued, jar, flight, job, acts, history>>
    BY <1>1 DEF history
  <2> QED
    BY <1>1, <2>1, <2>2, CallEffect
<1>2. ASSUME flight[t] = None, NEW k \in Handlers, Begin(k, t, "refresh", "verify", NoUser),
             flight' = [flight EXCEPT ![t] = k]
      PROVE  IInv'
  <2> PICK kind : kind = "refresh"
    OBVIOUS
  <2> PICK phase : phase = "verify"
    OBVIOUS
  <2>1. Begin(k, t, kind, phase, NoUser)
    BY <1>2
  <2>2. named' \in BOOLEAN /\ acts' \in 0 .. MaxActs /\ spoiled' \in BOOLEAN
        /\ (spoiled => spoiled')
    BY DEF IInv, TypeOK
  <2> QED
    BY <1>2, <2>1, <2>2, BeginEffect
<1> QED
  BY <1>1, <1>2 DEF Refresh

\* The answer of an ordinary request
LEMMA AnswerStep ==
  ASSUME IInv, NEW c \in Calls, Answer(c)
  PROVE  IInv'
<1>1. UNCHANGED <<database, blacklist, issued, now, acts, jar, revoked, ended, succeeded, spoiled>>
  BY DEF Answer
<1>2. now' \in 0 .. MaxNow /\ now' >= now
  BY <1>1, SessionsAssumption DEF IInv, TypeOK
<1>3. ASSUME NEW phase \in {"idle", "refused"}, named' \in {named, FALSE},
             call' = [call EXCEPT ![c] = [phase |-> phase, pair |-> NoPair]],
             UNCHANGED <<flight, job, overlapped>>
      PROVE  IInv'
  <2>1. call' \in [Calls -> [phase : {"idle", "sent", "waiting", "resent", "refused"},
                             pair : 0 .. pairs]]
    BY <1>3 DEF IInv, TypeOK, NoPair
  <2>2. \A i \in Calls : call'[i].phase = "waiting" => call[i].phase = "waiting"
    BY <1>3 DEF IInv, TypeOK
  <2>3. named' \in BOOLEAN
    BY <1>3 DEF IInv, TypeOK
  <2> QED
    BY <1>1, <1>2, <1>3, <2>1, <2>2, <2>3, CallEffect DEF history
<1>4. ASSUME call' = [call EXCEPT ![c].phase = "waiting"], Refresh(Home[c]), UNCHANGED named
      PROVE  IInv'
  <2>1. Home[c] \in Tabs
    BY SessionsAssumption
  <2>2. call' \in [Calls -> [phase : {"idle", "sent", "waiting", "resent", "refused"},
                             pair : 0 .. pairs]]
    BY <1>4 DEF IInv, TypeOK
  <2>3. \A i \in Calls : call'[i].phase = "waiting" =>
          call[i].phase = "waiting" \/ Home[i] = Home[c]
    BY <1>4 DEF IInv, TypeOK
  <2> QED
    BY <1>1, <1>4, <2>1, <2>2, <2>3, RefreshEffect
<1> QED
  BY <1>3, <1>4 DEF Answer, NoCall

\* Activity of the user
LEMMA ActivityStep ==
  ASSUME IInv, NEW t \in Tabs, Activity(t)
  PROVE  IInv'
<1>1. call' \in [Calls -> [phase : {"idle", "sent", "waiting", "resent", "refused"},
                           pair : 0 .. pairs]]
      /\ call' = call
  BY DEF Activity, IInv, TypeOK
<1> QED
  BY <1>1, RefreshEffect DEF Activity

\* A login, a logout, a session left
LEMMA StartStep ==
  ASSUME IInv, NEW k \in Handlers, Start(k)
  PROVE  IInv'
<1> PICK t \in Tabs : (\E u \in Users : Login(k, t, u)) \/ Logout(k, t) \/ Leave(k, t)
  BY DEF Start
<1>1. PICK u \in Users \cup {NoUser}, kind \in {"login", "logout", "leave"},
           phase \in {"check", "authenticate", "revoke"} :
        /\ Begin(k, t, kind, phase, u)
        /\ <<kind, phase>> \in {<<"refresh", "verify">>, <<"login", "check">>,
                                <<"logout", "authenticate">>, <<"leave", "revoke">>}
        /\ kind = "login" => u \in Users
        /\ IF kind = "login" THEN spoiled' = spoiled ELSE spoiled' = TRUE
  <2>1. CASE \E u \in Users : Login(k, t, u)
    BY <2>1 DEF Login
  <2>2. CASE Logout(k, t)
    BY <2>2 DEF Logout
  <2>3. CASE Leave(k, t)
    BY <2>3 DEF Leave
  <2> QED
    BY <2>1, <2>2, <2>3
<1>2. /\ Act
      /\ UNCHANGED <<database, blacklist, issued, now, browser, revoked, ended, succeeded>>
  BY DEF Login, Logout, Leave
<1>3. call' = call /\ flight' = flight /\ jar' = jar /\ named' = named
  BY <1>2 DEF browser
<1>4. acts' \in 0 .. MaxActs
  BY <1>2, SessionsAssumption DEF Act, IInv, TypeOK
<1>5. named' \in BOOLEAN /\ spoiled' \in BOOLEAN
  <2>1. spoiled' = spoiled \/ spoiled' = TRUE
    BY <1>1
  <2> QED
    BY <1>3, <2>1 DEF IInv, TypeOK
<1>6. call' \in [Calls -> [phase : {"idle", "sent", "waiting", "resent", "refused"},
                           pair : 0 .. pairs]]
  BY <1>3 DEF IInv, TypeOK
<1>7. spoiled \/ kind \in {"logout", "leave"} => spoiled'
  BY <1>1
<1>8. /\ kind # "refresh"
      /\ flight' = IF kind = "refresh" THEN [flight EXCEPT ![t] = k] ELSE flight
  BY <1>3
<1>9. UNCHANGED <<database, blacklist, issued, now, jar, revoked, ended, succeeded>>
  BY <1>2, <1>3
<1>10. \A c \in Calls : call'[c].phase = "waiting" =>
        call[c].phase = "waiting" \/ (Home[c] = t /\ kind = "refresh")
  BY <1>3
<1>11. /\ Begin(k, t, kind, phase, u) /\ (kind = "login" => u \in Users)
       /\ kind = "refresh" => flight[t] = None
       /\ <<kind, phase>> \in {<<"refresh", "verify">>, <<"login", "check">>,
                               <<"logout", "authenticate">>, <<"leave", "revoke">>}
  BY <1>1, <1>8
<1> QED
  BY <1>4, <1>5, <1>6, <1>7, <1>8, <1>9, <1>10, <1>11, BeginEffect

-----------------------------------------------------------------------------
(* The steps of the handlers that write nothing, and the pairs they issue.  *)

\* verify_refresh_token: a token that is accepted is stored.
LEMMA VerifyStep ==
  ASSUME IInv, NEW k \in Handlers, NEW admitted \in BOOLEAN, Verify(k, admitted)
  PROVE  IInv'
<1>1. /\ job[k].phase = "verify" /\ job[k].kind = "refresh" /\ job[k].new = NoPair
      /\ UNCHANGED <<database, blacklist, issued, now, revoked, ended, succeeded, overlapped>>
      /\ UNCHANGED browser
  BY DEF IInv, JobInv, Passes, Issuer, Verify, At
<1>2. PICK phase \in {"owner", "failed"} :
        Move(k, phase) /\ (phase = "owner" => Redeemable(job[k].pair))
  <2>1. CASE Redeemable(job[k].pair)
    BY <2>1 DEF Verify
  <2>2. CASE ~Redeemable(job[k].pair)
    BY <2>2 DEF Verify
  <2> QED
    BY <2>1, <2>2
<1>3. PICK j \in JobType :
        /\ Progress(k, j)
        /\ j.phase = phase /\ j.kind = job[k].kind /\ j.pair = job[k].pair
        /\ j.user = job[k].user /\ j.new = job[k].new /\ j.heard = job[k].heard
  BY <1>1, <1>2, MoveJob DEF JobPhases, At
<1>4. phase = "owner" => job[k].pair \in rows /\ job[k].pair # NoPair
  <2>1. phase = "owner" => job[k].pair \in rows
    BY <1>2 DEF Redeemable
  <2> QED
    BY <2>1 DEF IInv, TypeOK, NoPair
<1>5. JobInv(j)
  BY <1>1, <1>3, <1>4 DEF JobInv, Passes, Issuer
<1>6. SerialJob(j)
  BY <1>1, <1>3, <1>4 DEF SerialJob, IInv, TokenInv
<1>7. acts' \in 0 .. MaxActs
  BY SessionsAssumption DEF Verify, Fault, Act, IInv, TypeOK
<1>8. spoiled' \in BOOLEAN /\ (spoiled => spoiled')
  <2>1. spoiled' = (spoiled \/ Expired(job[k].pair)) \/ spoiled' = TRUE
    BY DEF Verify, Fault
  <2> QED
    BY <2>1 DEF IInv, TypeOK
<1> QED
  BY <1>1, <1>3, <1>5, <1>6, <1>7, <1>8, MoveEffect

\* get_user_by_id_async: the user may have been deleted.
LEMMA FindUserStep ==
  ASSUME IInv, NEW k \in Handlers, FindUser(k)
  PROVE  IInv'
<1> PICK u : u = token[job[k].pair].user
  OBVIOUS
<1>1. /\ job[k].phase = "owner" /\ job[k].kind = "refresh" /\ job[k].new = NoPair
      /\ job[k].pair # NoPair
      /\ UNCHANGED <<database, blacklist, now, acts, browser, history>>
  BY DEF IInv, JobInv, Passes, Issuer, FindUser, At
<1>2. CASE u \in users /\ Issue(k, u, "revoke")
  <2> PICK phase : phase = "revoke"
    OBVIOUS
  <2>1. u \in Users
    BY <1>2 DEF IInv, TypeOK
  <2>2. ~overlapped => u \notin ended
    <3>1. ~overlapped => job[k].pair \in rows
      BY <1>1 DEF IInv, SerialInv, SerialJob
    <3> QED
      BY <3>1 DEF IInv, TokensEnd
  <2> QED
    BY <1>1, <1>2, <2>1, <2>2, IssueEffect DEF history
<1>3. CASE u \notin users /\ Move(k, "failed") /\ UNCHANGED issued
  <2>1. PICK j \in JobType :
          /\ Progress(k, j)
          /\ j.phase = "failed" /\ j.kind = job[k].kind /\ j.pair = job[k].pair
          /\ j.user = job[k].user /\ j.new = job[k].new /\ j.heard = job[k].heard
    BY <1>1, <1>3, MoveJob DEF JobPhases, At
  <2>2. JobInv(j) /\ SerialJob(j)
    BY <1>1, <2>1 DEF JobInv, Passes, Issuer, SerialJob
  <2>3. acts' \in 0 .. MaxActs /\ spoiled' \in BOOLEAN /\ (spoiled => spoiled')
    BY <1>1 DEF history, IInv, TypeOK
  <2>4. UNCHANGED <<database, blacklist, issued, now, revoked, ended, succeeded, overlapped>>
    BY <1>1, <1>3 DEF history
  <2> QED
    BY <1>1, <2>1, <2>2, <2>3, <2>4, MoveEffect
<1> QED
  BY <1>2, <1>3 DEF FindUser

\* The password
LEMMA CheckStep ==
  ASSUME IInv, NEW k \in Handlers, NEW admitted \in BOOLEAN, Check(k, admitted)
  PROVE  IInv'
<1> PICK u : u = job[k].user
  OBVIOUS
<1>1. /\ job[k].phase = "check" /\ job[k].kind = "login" /\ job[k].new = NoPair
      /\ u \in Users
      /\ UNCHANGED <<database, blacklist, now, acts, browser, revoked, succeeded,
                     overlapped, spoiled>>
  BY DEF IInv, JobInv, Passes, Issuer, Check, At
<1>2. CASE u \in users /\ Issue(k, u, "create") /\ ended' = ended \ {u}
  <2> PICK phase : phase = "create"
    OBVIOUS
  <2>1. ended' \in SUBSET ended /\ u \notin ended'
    BY <1>2
  <2> QED
    BY <1>1, <1>2, <2>1, IssueEffect
<1>3. CASE Move(k, "failed") /\ UNCHANGED <<issued, ended>>
  <2>1. PICK j \in JobType :
          /\ Progress(k, j)
          /\ j.phase = "failed" /\ j.kind = job[k].kind /\ j.pair = job[k].pair
          /\ j.user = job[k].user /\ j.new = job[k].new /\ j.heard = job[k].heard
    BY <1>1, <1>3, MoveJob DEF JobPhases, At
  <2>2. JobInv(j) /\ SerialJob(j)
    BY <1>1, <2>1 DEF JobInv, Passes, Issuer, SerialJob
  <2>3. acts' \in 0 .. MaxActs /\ spoiled' \in BOOLEAN /\ (spoiled => spoiled')
    BY <1>1 DEF IInv, TypeOK
  <2>4. UNCHANGED <<database, blacklist, issued, now, revoked, ended, succeeded, overlapped>>
    BY <1>1, <1>3
  <2> QED
    BY <1>1, <2>1, <2>2, <2>3, <2>4, MoveEffect
<1> QED
  BY <1>2, <1>3 DEF Check

\* require_authenticated_user
LEMMA AuthenticateStep ==
  ASSUME IInv, NEW k \in Handlers, Authenticate(k)
  PROVE  IInv'
<1>1. /\ job[k].phase = "authenticate" /\ job[k].kind = "logout" /\ job[k].new = NoPair
      /\ UNCHANGED <<database, blacklist, issued, now, acts, browser, history>>
  BY DEF IInv, JobInv, Passes, Issuer, Authenticate, At
<1>2. acts' \in 0 .. MaxActs /\ spoiled' \in BOOLEAN /\ (spoiled => spoiled')
  BY <1>1 DEF history, IInv, TypeOK
<1>3. UNCHANGED <<database, blacklist, issued, now, revoked, ended, succeeded, overlapped>>
  BY <1>1 DEF history
<1>4. CASE Accepted(job[k].pair) /\
           job' = [job EXCEPT ![k] = [@ EXCEPT !.phase = "blacklist",
                                               !.user = token[job[k].pair].user]]
  <2> DEFINE u == token[job[k].pair].user
             j == [job[k] EXCEPT !.phase = "blacklist", !.user = u]
  <2>1. u \in Users /\ job[k].pair # NoPair
    BY <1>4 DEF Accepted, IInv, TypeOK
  <2>2. job \in [Handlers -> JobType]
    BY DEF IInv, TypeOK, JobType
  <2>3. job[k] \in JobType /\ job' = [job EXCEPT ![k] = j]
    BY <1>4, <2>2
  <2> HIDE DEF u
  <2>4. /\ j \in JobType /\ j.phase = "blacklist" /\ j.user = u
        /\ j.kind = job[k].kind /\ j.tab = job[k].tab /\ j.pair = job[k].pair
        /\ j.heard = job[k].heard /\ j.new = job[k].new
    BY <2>1, <2>3 DEF JobType, JobPhases
  <2> HIDE DEF j
  <2>5. Progress(k, j)
    BY <1>1, <2>3, <2>4 DEF Progress
  <2>6. JobInv(j) /\ SerialJob(j)
    BY <1>1, <2>1, <2>4 DEF JobInv, Passes, Issuer, SerialJob
  <2> QED
    BY <1>1, <1>2, <1>3, <2>4, <2>5, <2>6, MoveEffect
<1>5. CASE Move(k, "failed")
  <2>1. PICK j \in JobType :
          /\ Progress(k, j)
          /\ j.phase = "failed" /\ j.kind = job[k].kind /\ j.pair = job[k].pair
          /\ j.user = job[k].user /\ j.new = job[k].new /\ j.heard = job[k].heard
    BY <1>1, <1>5, MoveJob DEF JobPhases, At
  <2>2. JobInv(j) /\ SerialJob(j)
    BY <1>1, <2>1 DEF JobInv, Passes, Issuer, SerialJob
  <2> QED
    BY <1>1, <1>2, <1>3, <2>1, <2>2, MoveEffect
<1> QED
  BY <1>4, <1>5 DEF Authenticate

\* create_refresh_token, which may fail
LEMMA CreatingStep ==
  ASSUME IInv, NEW k \in Handlers, Create(k)
  PROVE  IInv'
<1>1. /\ At(k, "create") /\ job[k].phase = "create" /\ Move(k, "answered")
      /\ UNCHANGED <<users, blacklist, issued, now, browser, revoked, ended, overlapped>>
  BY DEF Create, At
<1>2. CASE /\ rows' = rows \cup {job[k].new}
           /\ succeeded' = succeeded \cup (IF job[k].kind = "refresh" THEN {job[k].pair} ELSE {})
           /\ UNCHANGED <<acts, spoiled>>
  BY <1>1, <1>2, CreateStep
<1>3. CASE Fault /\ UNCHANGED <<rows, succeeded>>
  <2>1. PICK j \in JobType :
          /\ Progress(k, j)
          /\ j.phase = "answered" /\ j.kind = job[k].kind /\ j.pair = job[k].pair
          /\ j.user = job[k].user /\ j.new = job[k].new /\ j.heard = job[k].heard
    BY <1>1, MoveJob DEF JobPhases, At
  <2>2. JobInv(job[k])
    BY DEF IInv
  <2>3. JobInv(j) /\ SerialJob(j)
    BY <1>1, <2>1, <2>2 DEF JobInv, Passes, Issuer, SerialJob
  <2>4. acts' \in 0 .. MaxActs /\ spoiled' = TRUE
    BY <1>3, SessionsAssumption DEF Fault, Act, IInv, TypeOK
  <2>5. UNCHANGED <<database, blacklist, issued, now, revoked, ended, succeeded, overlapped>>
    BY <1>1, <1>3 DEF database
  <2> QED
    BY <1>1, <2>1, <2>3, <2>4, <2>5, MoveEffect
<1> QED
  BY <1>2, <1>3 DEF Create

-----------------------------------------------------------------------------
(* The ends of requests.                                                    *)

\* What is left of a request that is over, or that nobody hears of
Rest(k) == {NoJob, [job[k] EXCEPT !.heard = FALSE]}

LEMMA RestFacts ==
  ASSUME IInv, NEW k \in Handlers, job[k].heard, NEW j \in Rest(k)
  PROVE  /\ j \in JobType /\ j # job[k] /\ ~j.heard
         /\ job \in [Handlers -> JobType]
         /\ [job EXCEPT ![k] = j] \in [Handlers -> JobType]
<1>1. job \in [Handlers -> JobType] /\ pairs \in Nat
  BY DEF IInv, TypeOK, JobType
<1>2. job[k] \in JobType
  BY <1>1
<1>3. j \in JobType /\ j.heard = FALSE
  <2>1. CASE j = NoJob
    BY <1>1, <2>1, NoJobType DEF NoJob
  <2>2. CASE j = [job[k] EXCEPT !.heard = FALSE]
    BY <1>2, <2>2 DEF JobType
  <2> QED
    BY <2>1, <2>2 DEF Rest
<1> QED
  BY <1>1, <1>3

\* The refresh of a tab is over: its promise is resolved.
LEMMA RefreshOver ==
  ASSUME IInv, NEW k \in Handlers, job[k].kind = "refresh", job[k].heard,
         NEW j \in Rest(k), job' = [job EXCEPT ![k] = j],
         NEW phase \in {"resent", "refused"}, NEW n \in 0 .. pairs,
         Resolve(job[k].tab, phase, n),
         UNCHANGED <<database, blacklist, issued, now, revoked, ended, succeeded, overlapped>>,
         named' \in BOOLEAN, acts' \in 0 .. MaxActs, spoiled' \in BOOLEAN,
         spoiled => spoiled',
         \/ jar' = jar
         \/ jar' = job[k].new /\ j = NoJob /\ job[k].phase = "answered",
         ~spoiled' => j = NoJob /\ (jar' = jar => job[k].phase = "failed")
  PROVE  IInv'
<1> PICK t \in Tabs : t = job[k].tab
  BY DEF IInv, TypeOK
<1>1. /\ j \in JobType /\ j # job[k]
      /\ job' \in [Handlers -> JobType] /\ job \in [Handlers -> JobType]
  BY RestFacts
<1>2. job'[k] = j /\ \A i \in Handlers \ {k} : job'[i] = job[i]
  BY <1>1
<1>3. flight[t] = k
  BY DEF IInv, FlightInv
<1>4. /\ flight' \in [Tabs -> Handlers \cup {None}]
      /\ flight'[t] = None /\ \A s \in Tabs \ {t} : flight'[s] = flight[s]
  BY DEF Resolve, IInv, TypeOK
<1>5. ASSUME NEW s \in Tabs, flight[s] # None
      PROVE  \/ flight'[s] = flight[s] /\ job'[flight[s]] = job[flight[s]]
             \/ flight'[s] = None /\ job'[flight[s]] # job[flight[s]]
  <2>1. CASE s = t
    BY <1>1, <1>2, <1>3, <1>4, <2>1
  <2>2. CASE s # t
    <3>1. flight[s] \in Handlers /\ job[flight[s]].tab = s
      BY <1>5 DEF IInv, TypeOK, NobodyWaitsForNothing
    <3> QED
      BY <1>2, <1>4, <2>2, <3>1
  <2> QED
    BY <2>1, <2>2
<1>6. /\ call' \in [Calls -> [phase : {"idle", "sent", "waiting", "resent", "refused"},
                              pair : 0 .. pairs]]
      /\ \A c \in Calls : call'[c].phase = "waiting" =>
           call[c].phase = "waiting" /\ Home[c] # t
  <2>1. /\ call' = [c \in Calls |-> IF c \notin Waiting(t) THEN call[c]
                                    ELSE [phase |-> phase, pair |-> n]]
        /\ call \in [Calls -> [phase : {"idle", "sent", "waiting", "resent", "refused"},
                               pair : 0 .. pairs]]
    BY DEF Resolve, IInv, TypeOK
  <2> QED
    BY <2>1 DEF Waiting
<1>7. \A c \in Calls : call'[c].phase = "waiting" =>
        call[c].phase = "waiting" /\ flight'[Home[c]] = flight[Home[c]]
  BY <1>4, <1>6, SessionsAssumption
<1>8. \A s \in Tabs : flight[s] = None => flight'[s] = None
  BY <1>4
<1>9. \A i \in Handlers : \/ job'[i] = job[i]
                          \/ job'[i] = NoJob
                          \/ job'[i] = [job[i] EXCEPT !.heard = FALSE]
  BY <1>2 DEF Rest
<1>10. \/ jar' \in {jar, NoPair}
       \/ /\ jar' = job[k].new /\ job'[k] = NoJob
          /\ job[k].phase = "answered" /\ job[k].kind \in {"refresh", "login"}
  BY <1>2
<1>11. ~spoiled' =>
         /\ \A i \in Handlers \ {k} : job'[i] = job[i]
         /\ job'[k] = NoJob
         /\ jar' = jar => job[k].phase = "failed"
  BY <1>2
<1> QED
  BY <1>1, <1>4, <1>5, <1>6, <1>7, <1>8, <1>9, <1>10, <1>11, EndEffect

\* No promise is of a request that is no refresh, or that nobody hears of.
LEMMA NotPromised ==
  ASSUME IInv, NEW k \in Handlers, job[k].kind # "refresh" \/ ~job[k].heard,
         NEW t \in Tabs, flight[t] # None
  PROVE  flight[t] \in Handlers /\ flight[t] # k
BY DEF IInv, TypeOK, NobodyWaitsForNothing

\* A request that no promise is of is over, or nobody hears of it any more.
LEMMA LoginOver ==
  ASSUME IInv, NEW k \in Handlers, job[k].kind # "refresh" \/ ~job[k].heard,
         NEW j \in JobType, j \in Rest(k), job' = [job EXCEPT ![k] = j],
         UNCHANGED <<database, blacklist, issued, now, revoked, ended, succeeded, overlapped>>,
         UNCHANGED <<flight, call>>,
         named' \in BOOLEAN, acts' \in 0 .. MaxActs, spoiled' \in BOOLEAN,
         spoiled => spoiled',
         \/ jar' = jar
         \/ /\ jar' = job[k].new /\ j = NoJob /\ job[k].phase = "answered"
            /\ job[k].kind = "login",
         ~spoiled' => j = NoJob /\ (jar' = jar => job[k].phase = "failed")
  PROVE  IInv'
<1>1. job \in [Handlers -> JobType]
  BY DEF IInv, TypeOK, JobType
<1>2. /\ job' \in [Handlers -> JobType]
      /\ job'[k] = j /\ \A i \in Handlers \ {k} : job'[i] = job[i]
  BY <1>1
<1>3. \A s \in Tabs : flight[s] # None =>
        \/ flight'[s] = flight[s] /\ job'[flight[s]] = job[flight[s]]
        \/ flight'[s] = None /\ job'[flight[s]] # job[flight[s]]
  BY <1>2, NotPromised
<1>4. /\ flight' \in [Tabs -> Handlers \cup {None}]
      /\ call' \in [Calls -> [phase : {"idle", "sent", "waiting", "resent", "refused"},
                              pair : 0 .. pairs]]
  BY DEF IInv, TypeOK
<1>5. /\ \A s \in Tabs : flight[s] = None => flight'[s] = None
      /\ \A c \in Calls : call'[c].phase = "waiting" =>
           call[c].phase = "waiting" /\ flight'[Home[c]] = flight[Home[c]]
  OBVIOUS
<1>6. \A i \in Handlers : \/ job'[i] = job[i]
                          \/ job'[i] = NoJob
                          \/ job'[i] = [job[i] EXCEPT !.heard = FALSE]
  BY <1>2 DEF Rest
<1>7. \/ jar' \in {jar, NoPair}
      \/ /\ jar' = job[k].new /\ job'[k] = NoJob
         /\ job[k].phase = "answered" /\ job[k].kind \in {"refresh", "login"}
  BY <1>2
<1>8. ~spoiled' =>
        /\ \A i \in Handlers \ {k} : job'[i] = job[i]
        /\ job'[k] = NoJob
        /\ jar' = jar => job[k].phase = "failed"
  BY <1>2
<1> QED
  BY <1>2, <1>3, <1>4, <1>5, <1>6, <1>7, <1>8, EndEffect

\* The page is loaded anew: nothing of its tab is heard of any more.
LEMMA PageLeft ==
  ASSUME IInv, NEW k \in Handlers, NEW cleared \in BOOLEAN, NEW j \in Rest(k),
         ~At(k, "idle"), job[k].heard, job[k].kind \in {"logout", "leave"},
         Left(k, cleared), Silence(k, j),
         UNCHANGED <<database, blacklist, issued, now, revoked, ended, succeeded, overlapped>>,
         acts' \in 0 .. MaxActs, spoiled' \in BOOLEAN, spoiled => spoiled'
  PROVE  IInv'
<1> PICK t \in Tabs : t = job[k].tab
  BY DEF IInv, TypeOK
<1>1. /\ j \in JobType /\ j # job[k] /\ job \in [Handlers -> JobType]
  BY RestFacts
<1>2. ASSUME NEW i \in Handlers
      PROVE  /\ job'[i] \in JobType
             /\ \/ job'[i] = job[i]
                \/ job'[i] = NoJob
                \/ job'[i] = [job[i] EXCEPT !.heard = FALSE]
             /\ job[i].tab # t => job'[i] = job[i]
             /\ job[i].tab = t /\ job[i].heard => job'[i] # job[i]
  <2>1. job'[i] = IF i = k THEN j
                  ELSE IF job[i].tab = t THEN [job[i] EXCEPT !.heard = FALSE] ELSE job[i]
    BY DEF Silence
  <2>2. job[i] \in JobType
    BY <1>1
  <2>3. [job[i] EXCEPT !.heard = FALSE] \in JobType
        /\ (job[i].heard => [job[i] EXCEPT !.heard = FALSE] # job[i])
    BY <2>2 DEF JobType
  <2> HIDE DEF JobType
  <2> QED
    BY <1>1, <2>1, <2>2, <2>3 DEF Rest
<1>3. job' \in [Handlers -> JobType]
  <2>1. job' = [i \in Handlers |-> IF i = k THEN j
                                   ELSE IF job[i].tab = job[k].tab
                                        THEN [job[i] EXCEPT !.heard = FALSE] ELSE job[i]]
    BY DEF Silence
  <2> HIDE DEF JobType
  <2> QED
    BY <1>2, <2>1
<1>4. /\ flight' \in [Tabs -> Handlers \cup {None}]
      /\ flight'[t] = None /\ \A s \in Tabs \ {t} : flight'[s] = flight[s]
  BY DEF Left, IInv, TypeOK
<1>5. ASSUME NEW s \in Tabs, flight[s] # None
      PROVE  \/ flight'[s] = flight[s] /\ job'[flight[s]] = job[flight[s]]
             \/ flight'[s] = None /\ job'[flight[s]] # job[flight[s]]
  <2>1. flight[s] \in Handlers /\ job[flight[s]].tab = s /\ job[flight[s]].heard
    BY <1>5 DEF IInv, TypeOK, NobodyWaitsForNothing
  <2>2. CASE s = t
    <3>1. job'[flight[s]] # job[flight[s]]
      BY <1>2, <2>1, <2>2
    <3> QED
      BY <1>4, <2>2, <3>1
  <2>3. CASE s # t
    <3>1. job'[flight[s]] = job[flight[s]]
      BY <1>2, <2>1, <2>3
    <3> QED
      BY <1>4, <2>3, <3>1
  <2> QED
    BY <2>2, <2>3
<1>6. /\ call' \in [Calls -> [phase : {"idle", "sent", "waiting", "resent", "refused"},
                              pair : 0 .. pairs]]
      /\ \A c \in Calls : call'[c].phase = "waiting" =>
           call[c].phase = "waiting" /\ Home[c] # t
  <2>1. /\ call' = [c \in Calls |-> IF Home[c] = t THEN [phase |-> "idle", pair |-> NoPair]
                                    ELSE call[c]]
        /\ call \in [Calls -> [phase : {"idle", "sent", "waiting", "resent", "refused"},
                               pair : 0 .. pairs]]
        /\ NoPair \in 0 .. pairs
    BY DEF Left, NoCall, IInv, TypeOK, NoPair
  <2> QED
    BY <2>1
<1>7. \A c \in Calls : call'[c].phase = "waiting" =>
        call[c].phase = "waiting" /\ flight'[Home[c]] = flight[Home[c]]
  BY <1>4, <1>6, SessionsAssumption
<1>8. /\ \A s \in Tabs : flight[s] = None => flight'[s] = None
      /\ jar' \in {jar, NoPair} /\ named' \in BOOLEAN
  BY <1>4 DEF Left
<1>9. spoiled'
  BY DEF IInv, PeaceInv, PeaceJob, At
<1> QED
  BY <1>2, <1>3, <1>4, <1>5, <1>6, <1>7, <1>8, <1>9, EndEffect

\* The tab gets no answer, or a refusal; this is nobody's fault only when the
\* handler has failed.
LEMMA UnansweredEffect ==
  ASSUME IInv, NEW k \in Handlers, ~At(k, "idle"), job[k].heard, NEW j \in Rest(k),
         Unanswered(k, j),
         UNCHANGED <<database, blacklist, issued, now, revoked, ended, succeeded, overlapped>>,
         acts' \in 0 .. MaxActs, spoiled' \in BOOLEAN, spoiled => spoiled',
         ~spoiled' => j = NoJob /\ job[k].phase = "failed"
  PROVE  IInv'
<1>1. /\ j \in JobType /\ job \in [Handlers -> JobType]
      /\ named \in BOOLEAN /\ pairs \in Nat
  BY RestFacts DEF IInv, TypeOK
<1>2. CASE /\ job[k].kind = "refresh"
           /\ Resolve(job[k].tab, "refused", NoPair)
           /\ named' \in IF Waiting(job[k].tab) = {} THEN {named} ELSE {named, FALSE}
           /\ job' = [job EXCEPT ![k] = j]
           /\ UNCHANGED jar
  <2>1. named' \in BOOLEAN
    BY <1>1, <1>2
  <2> PICK phase \in {"resent", "refused"} : phase = "refused"
    OBVIOUS
  <2> PICK n \in 0 .. pairs : n = NoPair
    BY <1>1 DEF NoPair
  <2>2. Resolve(job[k].tab, phase, n)
    BY <1>2
  <2> QED
    BY <1>2, <2>1, <2>2, RefreshOver
<1>3. CASE /\ job[k].kind = "login"
           /\ job' = [job EXCEPT ![k] = j]
           /\ UNCHANGED browser
  <2>1. UNCHANGED <<flight, call>> /\ jar' = jar /\ named' \in BOOLEAN
    BY <1>1, <1>3 DEF browser
  <2> QED
    BY <1>1, <1>3, <2>1, LoginOver
<1>4. CASE /\ job[k].kind \in {"logout", "leave"}
           /\ Left(k, FALSE)
           /\ Silence(k, j)
  <2> PICK cleared \in BOOLEAN : cleared = FALSE
    OBVIOUS
  <2>1. Left(k, cleared)
    BY <1>4
  <2> QED
    BY <1>4, <2>1, PageLeft
<1> QED
  BY <1>2, <1>3, <1>4 DEF Unanswered

\* What leaves everything but the browser and the jobs as it is leaves the
\* bounded counters as they are.
LEMMA NothingElse ==
  ASSUME IInv, UNCHANGED <<acts, history>>
  PROVE  /\ acts' \in 0 .. MaxActs /\ spoiled' \in BOOLEAN /\ (spoiled => spoiled')
         /\ UNCHANGED <<revoked, ended, succeeded, overlapped, spoiled>>
BY DEF history, IInv, TypeOK

\* A fault is counted.
LEMMA FaultFacts ==
  ASSUME IInv, Fault
  PROVE  acts' \in 0 .. MaxActs /\ spoiled' = TRUE
BY SessionsAssumption DEF Fault, Act, IInv, TypeOK

\* The answer of a refresh: the new pair goes into the cookies.
LEMMA RenewedStep ==
  ASSUME IInv, NEW k \in Handlers, Renewed(k)
  PROVE  IInv'
<1>1. /\ job[k].phase = "answered" /\ job[k].heard /\ job[k].kind = "refresh"
      /\ jar' = job[k].new
      /\ Resolve(job[k].tab, "resent", job[k].new)
      /\ job' = [job EXCEPT ![k] = NoJob]
      /\ UNCHANGED <<database, blacklist, issued, now, acts, named, history>>
  BY DEF Renewed, At, Done
<1>2. job[k].new \in 0 .. pairs /\ named' \in BOOLEAN
  BY <1>1 DEF IInv, TypeOK
<1>3. job[k].new # jar
  BY <1>1 DEF IInv, JobInv, Issuer, Unseen
<1>4. NoJob \in Rest(k)
  BY DEF Rest
<1> PICK phase \in {"resent", "refused"} : phase = "resent"
  OBVIOUS
<1> PICK n \in 0 .. pairs : n = job[k].new
  BY <1>2
<1>5. Resolve(job[k].tab, phase, n) /\ jar' # jar
  BY <1>1, <1>3
<1> QED
  BY <1>1, <1>2, <1>4, <1>5, NothingElse, RefreshOver

\* The answer of a login
LEMMA LoggedInStep ==
  ASSUME IInv, NEW k \in Handlers, LoggedIn(k)
  PROVE  IInv'
<1>1. /\ job[k].phase = "answered" /\ job[k].heard /\ job[k].kind = "login"
      /\ jar' = job[k].new /\ named' \in BOOLEAN
      /\ job' = [job EXCEPT ![k] = NoJob]
      /\ UNCHANGED <<flight, call>>
      /\ UNCHANGED <<database, blacklist, issued, now, acts, history>>
  BY DEF LoggedIn, At, Done
<1>2. jar' # jar
  BY <1>1 DEF IInv, JobInv, Issuer, Unseen
<1>3. NoJob \in Rest(k) /\ NoJob \in JobType
  BY NoJobType DEF Rest, IInv, TypeOK
<1>4. /\ acts' \in 0 .. MaxActs /\ spoiled' \in BOOLEAN /\ (spoiled => spoiled')
      /\ UNCHANGED <<database, blacklist, issued, now, revoked, ended, succeeded, overlapped>>
  BY <1>1, NothingElse
<1> QED
  BY <1>1, <1>2, <1>3, <1>4, LoginOver

\* The answer of a logout, or its refusal
LEMMA LoggedOutStep ==
  ASSUME IInv, NEW k \in Handlers, LoggedOut(k)
  PROVE  IInv'
<1>1. /\ ~At(k, "idle") /\ job[k].heard /\ job[k].kind \in {"logout", "leave"}
      /\ Left(k, At(k, "answered")) /\ Silence(k, NoJob)
      /\ UNCHANGED <<database, blacklist, issued, now, acts, history>>
  BY DEF LoggedOut, At
<1> PICK cleared \in BOOLEAN : cleared = At(k, "answered")
  BY DEF At
<1>2. Left(k, cleared) /\ NoJob \in Rest(k)
  BY <1>1 DEF Rest
<1> QED
  BY <1>1, <1>2, NothingElse, PageLeft

\* The refusal of a refresh or of a login
LEMMA RefusedStep ==
  ASSUME IInv, NEW k \in Handlers, Refused(k)
  PROVE  IInv'
<1>1. /\ ~At(k, "idle") /\ job[k].phase = "failed" /\ job[k].heard
      /\ Unanswered(k, NoJob) /\ NoJob \in Rest(k)
      /\ UNCHANGED <<database, blacklist, issued, now, acts, history>>
  BY DEF Refused, At, Rest
<1>2. /\ acts' \in 0 .. MaxActs /\ spoiled' \in BOOLEAN /\ (spoiled => spoiled')
      /\ UNCHANGED <<database, blacklist, issued, now, revoked, ended, succeeded, overlapped>>
  BY <1>1, NothingElse
<1> QED
  BY <1>1, <1>2, UnansweredEffect

\* The tab stops waiting for an answer.
LEMMA GiveUpStep ==
  ASSUME IInv, NEW k \in Handlers, GiveUp(k)
  PROVE  IInv'
<1> PICK j : j = [job[k] EXCEPT !.heard = FALSE]
  OBVIOUS
<1>1. /\ ~At(k, "idle") /\ job[k].heard /\ Unanswered(k, j) /\ j \in Rest(k) /\ Fault
      /\ UNCHANGED <<database, blacklist, issued, now, revoked, ended, succeeded, overlapped>>
  BY DEF GiveUp, Rest
<1>2. acts' \in 0 .. MaxActs /\ spoiled' = TRUE
  BY <1>1, FaultFacts
<1> QED
  BY <1>1, <1>2, UnansweredEffect

\* A handler dies.
LEMMA CrashStep ==
  ASSUME IInv, NEW k \in Handlers, Crash(k)
  PROVE  IInv'
<1>1. /\ ~At(k, "idle") /\ Fault /\ NoJob \in Rest(k) /\ NoJob \in JobType
      /\ UNCHANGED <<database, blacklist, issued, now, revoked, ended, succeeded, overlapped>>
  BY NoJobType DEF Crash, Rest, IInv, TypeOK
<1>2. acts' \in 0 .. MaxActs /\ spoiled' = TRUE
  BY <1>1, FaultFacts
<1>3. CASE job[k].heard /\ Unanswered(k, NoJob)
  BY <1>1, <1>2, <1>3, UnansweredEffect
<1>4. CASE ~job[k].heard /\ Done(k) /\ UNCHANGED browser
  <2>1. /\ job' = [job EXCEPT ![k] = NoJob]
        /\ UNCHANGED <<flight, call>> /\ jar' = jar /\ named' \in BOOLEAN
    BY <1>4 DEF Done, browser, IInv, TypeOK
  <2> QED
    BY <1>1, <1>2, <1>4, <2>1, LoginOver
<1> QED
  BY <1>3, <1>4 DEF Crash

\* An answer nobody waits for
LEMMA IgnoredStep ==
  ASSUME IInv, NEW k \in Handlers, Ignored(k)
  PROVE  IInv'
<1>1. /\ job[k].phase # "idle" /\ ~job[k].heard
      /\ job' = [job EXCEPT ![k] = NoJob]
      /\ UNCHANGED <<flight, call>> /\ jar' = jar /\ named' \in BOOLEAN
      /\ UNCHANGED <<database, blacklist, issued, now, acts, history>>
  BY DEF Ignored, At, Done, browser, IInv, TypeOK
<1>2. NoJob \in Rest(k) /\ NoJob \in JobType
  BY NoJobType DEF Rest, IInv, TypeOK
<1>3. /\ acts' \in 0 .. MaxActs /\ spoiled' \in BOOLEAN /\ (spoiled => spoiled')
      /\ UNCHANGED <<database, blacklist, issued, now, revoked, ended, succeeded, overlapped>>
  BY <1>1, NothingElse
<1>4. spoiled
  BY <1>1 DEF IInv, PeaceInv, PeaceJob
<1> QED
  BY <1>1, <1>2, <1>3, <1>4, LoginOver

-----------------------------------------------------------------------------
(* The invariant.                                                           *)

LEMMA IInvInit == Init => IInv
<1> SUFFICES ASSUME Init PROVE IInv
  OBVIOUS
<1>1. /\ users = Users /\ rows = {} /\ pairs = 0 /\ now = 0 /\ jar = NoPair
      /\ named = FALSE /\ acts = 0 /\ revoked = {} /\ ended = {} /\ succeeded = {}
      /\ overlapped = FALSE /\ spoiled = FALSE
      /\ blacklist = [n \in Pairs |-> 0] /\ token = [n \in Pairs |-> NoToken]
      /\ call = [c \in Calls |-> NoCall] /\ flight = [t \in Tabs |-> None]
      /\ job = [k \in Handlers |-> NoJob]
  BY DEF Init
<1>2. /\ NoJob \in JobType /\ NoJob.phase = "idle" /\ NoJob.kind = "none"
      /\ ~NoJob.heard /\ NoJob.pair = NoPair /\ NoJob.new = NoPair
      /\ JobInv(NoJob) /\ SerialJob(NoJob) /\ PeaceJob(NoJob)
  BY <1>1, NoJobType
<1>3. \A k \in Handlers : job[k] = NoJob
  BY <1>1
<1>4. TypeOK
  <2>1. job \in [Handlers -> JobType]
    BY <1>1, <1>2
  <2>2. /\ call \in [Calls -> [phase : {"idle", "sent", "waiting", "resent", "refused"},
                               pair : 0 .. pairs]]
        /\ token \in [Pairs -> [user : Users \cup {NoUser}, access : Nat, refresh : Nat]]
        /\ blacklist \in [Pairs -> Nat] /\ flight \in [Tabs -> Handlers \cup {None}]
    BY <1>1 DEF NoCall, NoToken, NoPair
  <2>3. /\ users \subseteq Users /\ rows \subseteq 1 .. pairs /\ revoked \subseteq 1 .. pairs
        /\ ended \subseteq Users /\ succeeded \subseteq 0 .. pairs
    BY <1>1
  <2>4. /\ pairs \in 0 .. MaxPairs /\ now \in 0 .. MaxNow /\ jar \in 0 .. pairs
        /\ acts \in 0 .. MaxActs
    BY <1>1, SessionsAssumption DEF NoPair
  <2>5. named \in BOOLEAN /\ overlapped \in BOOLEAN /\ spoiled \in BOOLEAN
    BY <1>1
  <2> QED
    BY <2>1, <2>2, <2>3, <2>4, <2>5 DEF TypeOK, JobType
<1>5. RoomInv
  <2>1. MayIssue = {}
    BY <1>2, <1>3 DEF MayIssue
  <2>2. Cardinality(MayIssue) = 0
    BY <2>1, FS_EmptySet
  <2> QED
    BY <1>1, <2>2, SessionsAssumption DEF RoomInv
<1>6. (\A k \in Handlers : JobInv(job[k])) /\ FlightInv /\ Unseen
  BY <1>2, <1>3 DEF FlightInv, Unseen
<1>7. TokenInv
  BY <1>1, SessionsAssumption DEF TokenInv, Pairs
<1>8. NobodyWaitsForNothing
  BY <1>1, SessionsAssumption DEF NobodyWaitsForNothing, NoCall
<1>9. SerialInv /\ PeaceInv
  BY <1>2, <1>3 DEF SerialInv, PeaceInv, Alone, At
<1>10. TokensEnd /\ CookiesHoldTheSession
  BY <1>1 DEF TokensEnd, CookiesHoldTheSession
<1> QED
  BY <1>4, <1>5, <1>6, <1>7, <1>8, <1>9, <1>10 DEF IInv

LEMMA HandleStep ==
  ASSUME IInv, NEW k \in Handlers, Handle(k)
  PROVE  IInv'
<1>1. ASSUME NEW admitted \in BOOLEAN, Verify(k, admitted) PROVE IInv'
  BY <1>1, VerifyStep
<1>2. ASSUME NEW admitted \in BOOLEAN, Check(k, admitted) PROVE IInv'
  BY <1>2, CheckStep
<1>3. FindUser(k) \/ Revoke(k) \/ Create(k) => IInv'
  BY FindUserStep, RevokeStep, CreatingStep
<1>4. Authenticate(k) \/ Blacklist(k) \/ Sweep(k) => IInv'
  BY AuthenticateStep, BlacklistStep, SweepStep
<1>5. Renewed(k) \/ LoggedIn(k) \/ LoggedOut(k) \/ Refused(k) \/ Ignored(k) => IInv'
  BY RenewedStep, LoggedInStep, LoggedOutStep, RefusedStep, IgnoredStep
<1> QED
  BY <1>1, <1>2, <1>3, <1>4, <1>5 DEF Handle

LEMMA IInvStep == IInv /\ [Next]_vars => IInv'
<1> SUFFICES ASSUME IInv, [Next]_vars PROVE IInv'
  OBVIOUS
<1>1. ASSUME NEW k \in Handlers, Start(k) \/ Handle(k) \/ GiveUp(k) \/ Crash(k)
      PROVE  IInv'
  BY <1>1, StartStep, HandleStep, GiveUpStep, CrashStep
<1>2. ASSUME NEW c \in Calls, Send(c) \/ Answer(c) \/ Drop(c) PROVE IInv'
  BY <1>2, QuietStep, AnswerStep
<1>3. ASSUME NEW t \in Tabs, Activity(t) PROVE IInv'
  BY <1>3, ActivityStep
<1>4. ASSUME NEW U \in SUBSET Users, DeleteUsers(U) PROVE IInv'
  BY <1>4, DeleteStep
<1>5. CASE Tick
  BY <1>5, QuietStep
<1>6. CASE UNCHANGED vars
  <2>1. /\ UNCHANGED <<database, blacklist, issued, jar, flight, job, acts, history>>
        /\ now' = now /\ named' = named /\ call' = call
    BY <1>6 DEF vars, browser
  <2>2. /\ now' \in 0 .. MaxNow /\ now' >= now /\ named' \in BOOLEAN
        /\ call' \in [Calls -> [phase : {"idle", "sent", "waiting", "resent", "refused"},
                                pair : 0 .. pairs]]
    BY <2>1, SessionsAssumption DEF IInv, TypeOK
  <2> QED
    BY <2>1, <2>2, CallEffect
<1> QED
  BY <1>1, <1>2, <1>3, <1>4, <1>5, <1>6 DEF Next

LEMMA IInvHolds == Spec => []IInv
BY IInvInit, IInvStep, PTL DEF Spec

-----------------------------------------------------------------------------
(* Health: while nothing has failed and no session was ended, users are there *)
(* and nothing is blacklisted; with one request to /auth at a time, each has  *)
(* the pair in the cookies, and no refresh of one is refused.                 *)

HealthJob(j) ==
  j.phase # "idle" =>
    /\ j.pair = jar
    /\ j.phase = "failed" /\ jar # NoPair => j.kind = "login"

HealthInv == ~spoiled =>
  /\ users = Users
  /\ \A n \in Pairs : blacklist[n] = 0
  /\ \A c \in Calls : call[c].pair # NoPair => jar # NoPair
  /\ ~overlapped => \A k \in Handlers : HealthJob(job[k])

\* A handler goes on; a refresh of a pair does not fail.
LEMMA ProgressHealth ==
  ASSUME IInv, HealthInv, NEW k \in Handlers, NEW j, Progress(k, j),
         UNCHANGED <<users, blacklist, overlapped>>, spoiled => spoiled',
         ~spoiled' /\ ~overlapped /\ j.phase = "failed" /\ jar # NoPair => j.kind = "login"
  PROVE  HealthInv'
<1>1. /\ job'[k] = j /\ \A i \in Handlers \ {k} : job'[i] = job[i]
      /\ jar' = jar /\ call' = call
  BY ProgressFacts
<1>2. j.pair = job[k].pair /\ job[k].phase # "idle"
  BY DEF Progress
<1>3. ASSUME ~spoiled', ~overlapped, NEW i \in Handlers PROVE HealthJob(job[i])'
  <2>1. HealthJob(job[i]) /\ HealthJob(job[k])
    BY <1>3 DEF HealthInv
  <2>2. CASE i = k
    BY <1>1, <1>2, <1>3, <2>1, <2>2 DEF HealthJob
  <2>3. CASE i # k
    BY <1>1, <2>1, <2>3 DEF HealthJob
  <2> QED
    BY <2>2, <2>3
<1> QED
  BY <1>1, <1>3 DEF HealthInv

\* Move in particular is a step of this kind.
LEMMA MoveHealth ==
  ASSUME IInv, HealthInv, NEW k \in Handlers, NEW phase \in JobPhases \ {"idle"},
         Move(k, phase), ~At(k, "idle"), UNCHANGED browser,
         UNCHANGED <<users, blacklist, overlapped>>, spoiled => spoiled',
         ~spoiled' /\ ~overlapped /\ phase = "failed" /\ jar # NoPair =>
           job[k].kind = "login"
  PROVE  HealthInv'
<1>1. PICK j \in JobType :
        /\ Progress(k, j)
        /\ j.phase = phase /\ j.kind = job[k].kind /\ j.pair = job[k].pair
        /\ j.user = job[k].user /\ j.new = job[k].new /\ j.heard = job[k].heard
  BY MoveJob
<1> QED
  BY <1>1, ProgressHealth

\* The same for one that issues a pair
LEMMA IssueHealth ==
  ASSUME IInv, HealthInv, NEW k \in Handlers, NEW u, NEW phase, Issue(k, u, phase),
         phase \notin {"idle", "failed"}, ~At(k, "idle"), UNCHANGED browser,
         UNCHANGED <<users, blacklist, overlapped>>, spoiled => spoiled'
  PROVE  HealthInv'
<1> PICK j : j = [job[k] EXCEPT !.user = u, !.new = pairs + 1, !.phase = phase]
  OBVIOUS
<1>1. job[k] \in JobType /\ job' = [job EXCEPT ![k] = j]
  BY DEF IInv, TypeOK, JobType, Issue
<1>2. /\ j.kind = job[k].kind /\ j.tab = job[k].tab /\ j.pair = job[k].pair
      /\ j.heard = job[k].heard /\ j.phase = phase
  BY <1>1 DEF JobType
<1>3. Progress(k, j)
  BY <1>1, <1>2 DEF Progress, At
<1> QED
  BY <1>2, <1>3, ProgressHealth

\* A request is over, and did not empty the cookies.
LEMMA OverHealth ==
  ASSUME IInv, HealthInv, NEW k \in Handlers, ~At(k, "idle"),
         job' = [job EXCEPT ![k] = NoJob],
         UNCHANGED <<users, blacklist, overlapped>>, spoiled => spoiled',
         jar' = jar \/ jar' # NoPair,
         \A c \in Calls : call'[c].pair \in {NoPair, call[c].pair} \/ jar' # NoPair
  PROVE  HealthInv'
<1>1. /\ job'[k] = NoJob /\ \A i \in Handlers \ {k} : job'[i] = job[i]
  BY DEF IInv, TypeOK
<1>2. NoJob.phase = "idle"
  BY DEF NoJob
<1>3. ASSUME ~overlapped, NEW i \in Handlers PROVE job'[i].phase = "idle"
  BY <1>1, <1>2, <1>3, AloneIdle
<1> QED
  BY <1>3 DEF HealthInv, HealthJob

\* A request begins, with the pair in the cookies.
LEMMA BeginHealth ==
  ASSUME IInv, HealthInv, NEW k \in Handlers, NEW t \in Tabs, NEW kind, NEW phase, NEW u,
         Begin(k, t, kind, phase, u), phase # "failed",
         kind = "refresh" => flight[t] = None,
         UNCHANGED <<users, blacklist, jar, spoiled>>,
         \A c \in Calls : call'[c].pair = call[c].pair
  PROVE  HealthInv'
<1> PICK j : j = [kind |-> kind, phase |-> phase, tab |-> t, pair |-> jar,
                  user |-> u, new |-> NoPair, heard |-> TRUE]
  OBVIOUS
<1>1. /\ job' = [job EXCEPT ![k] = j]
      /\ j.pair = jar /\ j.phase = phase
  BY DEF Begin
<1>2. job'[k] = j /\ \A i \in Handlers \ {k} : job'[i] = job[i]
  BY <1>1 DEF IInv, TypeOK
<1>3. ~overlapped' => ~overlapped
  BY DEF Begin, IInv, TypeOK
<1>4. ASSUME ~spoiled', ~overlapped', NEW i \in Handlers PROVE HealthJob(job[i])'
  BY <1>1, <1>2, <1>3, <1>4 DEF HealthInv, HealthJob
<1> QED
  BY <1>4 DEF HealthInv

\* Nothing that matters changes, or a call is sent with the cookies.
LEMMA CallHealth ==
  ASSUME IInv, HealthInv, UNCHANGED <<users, blacklist, job, jar, overlapped, spoiled>>,
         \A c \in Calls : call'[c].pair \in {call[c].pair, jar, NoPair}
  PROVE  HealthInv'
BY DEF HealthInv, HealthJob

LEMMA RefreshHealth ==
  ASSUME IInv, HealthInv, NEW t \in Tabs, Refresh(t),
         UNCHANGED <<users, blacklist, jar, spoiled>>,
         \A c \in Calls : call'[c].pair = call[c].pair
  PROVE  HealthInv'
<1>1. CASE flight[t] # None /\ UNCHANGED <<flight, job, overlapped>>
  BY <1>1, CallHealth
<1>2. ASSUME flight[t] = None, NEW k \in Handlers, Begin(k, t, "refresh", "verify", NoUser)
      PROVE  HealthInv'
  <2> PICK kind : kind = "refresh"
    OBVIOUS
  <2> PICK phase : phase = "verify"
    OBVIOUS
  <2>1. Begin(k, t, kind, phase, NoUser)
    BY <1>2
  <2> QED
    BY <1>2, <2>1, BeginHealth
<1> QED
  BY <1>1, <1>2 DEF Refresh

\* The requests of a session that ends
LEMMA EndingHealth ==
  ASSUME IInv, NEW k \in Handlers, ~At(k, "idle"),
         job[k].kind \in {"logout", "leave"} \/ ~job[k].heard, spoiled' = spoiled
  PROVE  HealthInv'
BY DEF IInv, PeaceInv, PeaceJob, At, HealthInv

\* A refresh whose pair is in the cookies finds its token, or this has expired.
LEMMA VerifyHealth ==
  ASSUME IInv, HealthInv, NEW k \in Handlers, NEW admitted \in BOOLEAN, Verify(k, admitted)
  PROVE  HealthInv'
<1>1. /\ job[k].phase = "verify" /\ ~At(k, "idle")
      /\ UNCHANGED <<users, blacklist, overlapped>> /\ UNCHANGED browser
  BY DEF Verify, At, database
<1>2. CASE spoiled'
  BY <1>2 DEF HealthInv
<1>3. CASE ~spoiled'
  <2>1. /\ Move(k, IF Redeemable(job[k].pair) THEN "owner" ELSE "failed")
        /\ spoiled' = (spoiled \/ Expired(job[k].pair))
    BY <1>3 DEF Verify, Fault
  <2>2. ~spoiled /\ ~Expired(job[k].pair)
    BY <1>3, <2>1
  <2>3. ASSUME ~overlapped, jar # NoPair PROVE Redeemable(job[k].pair)
    <3>1. job[k].pair = jar
      BY <1>1, <2>2, <2>3 DEF HealthInv, HealthJob
    <3>2. \A i \in Handlers \ {k} : job[i].phase = "idle"
      BY <1>1, <2>3, AloneIdle
    <3>3. jar \in rows
      BY <1>1, <2>2, <2>3, <3>2 DEF IInv, CookiesHoldTheSession
    <3> QED
      BY <2>2, <3>1, <3>3 DEF Redeemable
  <2>4. CASE Redeemable(job[k].pair)
    <3> PICK phase \in JobPhases \ {"idle"} : phase = "owner"
      BY DEF JobPhases
    <3>1. Move(k, phase)
      BY <2>1, <2>4
    <3> QED
      BY <1>1, <2>2, <3>1, MoveHealth
  <2>5. CASE ~Redeemable(job[k].pair)
    <3> PICK phase \in JobPhases \ {"idle"} : phase = "failed"
      BY DEF JobPhases
    <3>1. Move(k, phase)
      BY <2>1, <2>5
    <3> QED
      BY <1>1, <2>2, <2>3, <2>5, <3>1, MoveHealth
  <2> QED
    BY <2>4, <2>5
<1> QED
  BY <1>2, <1>3

\* Its user is there.
LEMMA FindUserHealth ==
  ASSUME IInv, HealthInv, NEW k \in Handlers, FindUser(k)
  PROVE  HealthInv'
<1> PICK u : u = token[job[k].pair].user
  OBVIOUS
<1>1. /\ job[k].phase = "owner" /\ ~At(k, "idle") /\ job[k].pair # NoPair
      /\ UNCHANGED <<users, blacklist, overlapped, spoiled>> /\ UNCHANGED browser
  BY DEF FindUser, At, database, history, IInv, JobInv
<1>2. CASE Issue(k, u, "revoke")
  <2> PICK phase : phase = "revoke"
    OBVIOUS
  <2> QED
    BY <1>1, <1>2, IssueHealth
<1>3. CASE u \notin users /\ Move(k, "failed")
  <2>1. job[k].pair \in 1 .. pairs
    BY <1>1 DEF IInv, TypeOK, NoPair
  <2>2. u \in Users
    BY <2>1 DEF IInv, TokenInv
  <2>3. spoiled
    BY <1>3, <2>2 DEF HealthInv
  <2> QED
    BY <1>1, <2>3 DEF HealthInv
<1> QED
  BY <1>2, <1>3 DEF FindUser

LEMMA HandleHealth ==
  ASSUME IInv, HealthInv, NEW k \in Handlers, Handle(k)
  PROVE  HealthInv'
<1>1. ASSUME NEW admitted \in BOOLEAN, Check(k, admitted) PROVE HealthInv'
  <2>1. /\ job[k].kind = "login" /\ ~At(k, "idle")
        /\ UNCHANGED <<users, blacklist, overlapped, spoiled>> /\ UNCHANGED browser
    BY <1>1 DEF Check, At, database, IInv, JobInv, Passes
  <2>2. CASE Issue(k, job[k].user, "create")
    <3> PICK phase : phase = "create"
      OBVIOUS
    <3> QED
      BY <2>1, <2>2, IssueHealth
  <2>3. CASE Move(k, "failed")
    <3> PICK phase \in JobPhases \ {"idle"} : phase = "failed"
      BY DEF JobPhases
    <3> QED
      BY <2>1, <2>3, MoveHealth
  <2> QED
    BY <1>1, <2>2, <2>3 DEF Check
<1>2. CASE Revoke(k)
  <2>1. /\ ~At(k, "idle") /\ UNCHANGED <<users, blacklist, overlapped, spoiled>>
        /\ UNCHANGED browser
    BY <1>2 DEF Revoke, At, history
  <2>2. PICK phase \in JobPhases \ {"idle"} : phase # "failed" /\ Move(k, phase)
    <3>1. "answered" \in JobPhases \ {"idle"} /\ "create" \in JobPhases \ {"idle"}
      BY DEF JobPhases
    <3>2. CASE job[k].kind = "leave"
      BY <1>2, <3>1, <3>2 DEF Revoke
    <3>3. CASE job[k].kind # "leave"
      BY <1>2, <3>1, <3>3 DEF Revoke
    <3> QED
      BY <3>2, <3>3
  <2> QED
    BY <2>1, <2>2, MoveHealth
<1>3. CASE Create(k)
  <2>1. /\ ~At(k, "idle") /\ UNCHANGED <<users, blacklist, overlapped>>
        /\ UNCHANGED browser /\ Move(k, "answered") /\ (spoiled => spoiled')
    BY <1>3 DEF Create, At, Fault
  <2> PICK phase \in JobPhases \ {"idle"} : phase = "answered"
    BY DEF JobPhases
  <2> QED
    BY <2>1, MoveHealth
<1>4. CASE Authenticate(k) \/ Blacklist(k) \/ Sweep(k) \/ LoggedOut(k) \/ Ignored(k)
  <2>1. /\ ~At(k, "idle") /\ spoiled' = spoiled
        /\ job[k].kind \in {"logout", "leave"} \/ ~job[k].heard
    BY <1>4 DEF Authenticate, Blacklist, Sweep, LoggedOut, Ignored, At, history,
                IInv, JobInv, Passes
  <2> QED
    BY <2>1, EndingHealth
<1>5. CASE Renewed(k) \/ LoggedIn(k)
  <2>1. /\ ~At(k, "idle") /\ job' = [job EXCEPT ![k] = NoJob]
        /\ UNCHANGED <<users, blacklist, overlapped, spoiled>> /\ jar' = job[k].new
    BY <1>5 DEF Renewed, LoggedIn, At, Done, database, history
  <2>2. jar' # NoPair
    BY <1>5, <2>1 DEF Renewed, LoggedIn, At, IInv, JobInv, Issuer
  <2> QED
    BY <2>1, <2>2, OverHealth
<1>6. CASE Refused(k)
  <2>1. /\ ~At(k, "idle") /\ Unanswered(k, NoJob)
        /\ UNCHANGED <<users, blacklist, overlapped, spoiled>>
        /\ job[k].kind \in {"refresh", "login"}
    BY <1>6 DEF Refused, At, database, history
  <2>2. job' = [job EXCEPT ![k] = NoJob] /\ jar' = jar
    BY <2>1 DEF Unanswered, browser
  <2>3. ASSUME NEW c \in Calls PROVE call'[c].pair \in {NoPair, call[c].pair}
    <3>1. CASE job[k].kind = "login"
      BY <2>1, <3>1 DEF Unanswered, browser
    <3>2. CASE job[k].kind = "refresh"
      <4>1. call'[c] = call[c] \/ call'[c] = [phase |-> "refused", pair |-> NoPair]
        BY <2>1, <3>2 DEF Unanswered, Resolve
      <4> QED
        BY <4>1
    <3> QED
      BY <2>1, <3>1, <3>2
  <2> QED
    BY <2>1, <2>2, <2>3, OverHealth
<1> QED
  BY <1>1, <1>2, <1>3, <1>4, <1>5, <1>6, VerifyHealth, FindUserHealth DEF Handle

LEMMA HealthInit == Init => HealthInv
<1> SUFFICES ASSUME Init PROVE HealthInv
  OBVIOUS
<1>1. /\ users = Users /\ \A n \in Pairs : blacklist[n] = 0
      /\ \A c \in Calls : call[c].pair = NoPair
      /\ \A k \in Handlers : job[k].phase = "idle"
  BY DEF Init, NoCall, NoJob
<1> QED
  BY <1>1 DEF HealthInv, HealthJob

LEMMA HealthStep == IInv /\ HealthInv /\ [Next]_vars => HealthInv'
<1> SUFFICES ASSUME IInv, HealthInv, [Next]_vars PROVE HealthInv'
  OBVIOUS
<1>1. ASSUME NEW k \in Handlers, Start(k) PROVE HealthInv'
  <2>1. ASSUME NEW t \in Tabs, Logout(k, t) \/ Leave(k, t) PROVE HealthInv'
    BY <2>1 DEF Logout, Leave, HealthInv
  <2>2. ASSUME NEW t \in Tabs, NEW u \in Users, Login(k, t, u) PROVE HealthInv'
    <3> PICK kind : kind = "login"
      OBVIOUS
    <3> PICK phase : phase = "check"
      OBVIOUS
    <3>1. Begin(k, t, kind, phase, u)
      BY <2>2 DEF Login
    <3>2. UNCHANGED <<users, blacklist, jar, spoiled>> /\ call' = call
      BY <2>2 DEF Login, database, browser
    <3> QED
      BY <3>1, <3>2, BeginHealth
  <2> QED
    BY <1>1, <2>1, <2>2 DEF Start
<1>2. ASSUME NEW k \in Handlers, GiveUp(k) \/ Crash(k) PROVE HealthInv'
  BY <1>2 DEF GiveUp, Crash, Fault, HealthInv
<1>3. ASSUME NEW c \in Calls, Send(c) \/ Drop(c) PROVE HealthInv'
  <2>1. UNCHANGED <<users, blacklist, job, jar, overlapped, spoiled>>
    BY <1>3 DEF Send, Drop, database, history
  <2>2. call' = [call EXCEPT ![c] = [phase |-> "sent", pair |-> jar]]
        \/ call' = [call EXCEPT ![c] = [phase |-> "idle", pair |-> NoPair]]
    BY <1>3 DEF Send, Drop, NoCall
  <2>3. \A i \in Calls : call'[i].pair \in {call[i].pair, jar, NoPair}
    BY <2>2 DEF IInv, TypeOK
  <2> QED
    BY <2>1, <2>3, CallHealth
<1>4. ASSUME NEW c \in Calls, Answer(c) PROVE HealthInv'
  <2>1. UNCHANGED <<users, blacklist, jar, spoiled>>
    BY <1>4 DEF Answer, database
  <2>2. CASE call' = [call EXCEPT ![c].phase = "waiting"] /\ Refresh(Home[c])
    <3>1. \A i \in Calls : call'[i].pair = call[i].pair
      BY <2>2 DEF IInv, TypeOK
    <3>2. Home[c] \in Tabs
      BY SessionsAssumption
    <3> QED
      BY <2>1, <2>2, <3>1, <3>2, RefreshHealth
  <2>3. ASSUME NEW p, call' = [call EXCEPT ![c] = [phase |-> p, pair |-> NoPair]],
               UNCHANGED <<flight, job, overlapped>>
        PROVE  HealthInv'
    <3>1. \A i \in Calls : call'[i].pair \in {call[i].pair, jar, NoPair}
      BY <2>3 DEF IInv, TypeOK
    <3> QED
      BY <2>1, <2>3, <3>1, CallHealth
  <2> QED
    BY <1>4, <2>2, <2>3 DEF Answer, NoCall
<1>5. ASSUME NEW t \in Tabs, Activity(t) PROVE HealthInv'
  <2>1. UNCHANGED <<users, blacklist, jar, spoiled>> /\ call' = call /\ Refresh(t)
    BY <1>5 DEF Activity, database
  <2> QED
    BY <2>1, RefreshHealth
<1>6. ASSUME NEW U \in SUBSET Users, DeleteUsers(U) PROVE HealthInv'
  BY <1>6 DEF DeleteUsers, HealthInv
<1>7. CASE Tick \/ UNCHANGED vars
  <2>1. UNCHANGED <<users, blacklist, job, jar, overlapped, spoiled>> /\ call' = call
    BY <1>7 DEF Tick, vars, database, browser, history
  <2> QED
    BY <2>1, CallHealth
<1> QED
  BY <1>1, <1>2, <1>3, <1>4, <1>5, <1>6, <1>7, HandleHealth DEF Next

LEMMA HealthHolds == Spec => []HealthInv
BY HealthInit, HealthStep, IInvHolds, PTL DEF Spec

\* An ordinary request is refused after it was sent twice, or by the refusal of
\* the refresh it waits for.
LEMMA RefusedCalls ==
  ASSUME IInv, Next, NEW c \in Calls, call[c].phase # "refused", call'[c].phase = "refused"
  PROVE  \/ spoiled'
         \/ /\ call[c].phase = "resent" /\ ~Accepted(call[c].pair)
            /\ spoiled' = spoiled
         \/ \E k \in Handlers : /\ Refused(k) /\ job[k].kind = "refresh"
                                /\ job[k].tab = Home[c] /\ call[c].phase = "waiting"
<1>0. call[c] \in [phase : {"idle", "sent", "waiting", "resent", "refused"}, pair : 0 .. pairs]
      /\ call \in [Calls -> [phase : {"idle", "sent", "waiting", "resent", "refused"},
                             pair : 0 .. pairs]]
  BY DEF IInv, TypeOK
<1>1. ASSUME NEW k \in Handlers, Start(k) PROVE FALSE
  BY <1>1 DEF Start, Login, Logout, Leave, browser
<1>2. ASSUME NEW k \in Handlers, GiveUp(k) \/ Crash(k) PROVE spoiled'
  BY <1>2 DEF GiveUp, Crash, Fault
<1>3. ASSUME NEW k \in Handlers, Handle(k), ~Refused(k) PROVE FALSE
  <2>1. CASE \/ \E admitted \in BOOLEAN : Verify(k, admitted) \/ Check(k, admitted)
             \/ FindUser(k) \/ Revoke(k) \/ Create(k)
             \/ Authenticate(k) \/ Blacklist(k) \/ Sweep(k) \/ Ignored(k)
    <3>1. UNCHANGED browser
      BY <2>1 DEF Verify, Check, FindUser, Revoke, Create, Authenticate, Blacklist, Sweep, Ignored
    <3> QED
      BY <3>1 DEF browser
  <2>2. CASE LoggedIn(k)
    BY <2>2 DEF LoggedIn
  <2>3. CASE Renewed(k)
    <3>1. call'[c] = call[c] \/ call'[c] = [phase |-> "resent", pair |-> job[k].new]
      BY <2>3 DEF Renewed, Resolve
    <3> QED
      BY <3>1
  <2>4. CASE LoggedOut(k)
    <3>1. call'[c] = call[c] \/ call'[c] = NoCall
      BY <2>4 DEF LoggedOut, Left
    <3> QED
      BY <3>1 DEF NoCall
  <2> QED
    BY <1>3, <2>1, <2>2, <2>3, <2>4 DEF Handle
<1>4. ASSUME NEW k \in Handlers, Refused(k)
      PROVE  job[k].kind = "refresh" /\ job[k].tab = Home[c] /\ call[c].phase = "waiting"
  <2>1. Unanswered(k, NoJob) /\ job[k].kind \in {"refresh", "login"}
    BY <1>4 DEF Refused
  <2>2. CASE job[k].kind = "login"
    BY <2>1, <2>2 DEF Unanswered, browser
  <2>3. CASE job[k].kind = "refresh"
    <3>1. Resolve(job[k].tab, "refused", NoPair)
      BY <2>1, <2>3 DEF Unanswered
    <3>2. c \in Waiting(job[k].tab)
      BY <3>1 DEF Resolve
    <3> QED
      BY <2>3, <3>2 DEF Waiting
  <2> QED
    BY <2>1, <2>2, <2>3
<1>5. ASSUME NEW i \in Calls, Send(i) \/ Drop(i) PROVE FALSE
  <2>1. call' = [call EXCEPT ![i] = [phase |-> "sent", pair |-> jar]]
        \/ call' = [call EXCEPT ![i] = [phase |-> "idle", pair |-> NoPair]]
    BY <1>5 DEF Send, Drop, NoCall
  <2> QED
    BY <1>0, <2>1
<1>6. ASSUME NEW i \in Calls, Answer(i)
      PROVE  call[c].phase = "resent" /\ ~Accepted(call[c].pair) /\ spoiled' = spoiled
  <2>1. spoiled' = spoiled
    BY <1>6 DEF Answer
  <2>2. CASE call' = [call EXCEPT ![i] = NoCall]
    BY <1>0, <2>2 DEF NoCall
  <2>3. CASE /\ ~Accepted(call[i].pair) /\ call[i].phase = "resent"
             /\ call' = [call EXCEPT ![i] = [phase |-> "refused", pair |-> NoPair]]
    BY <1>0, <2>1, <2>3
  <2>4. CASE call' = [call EXCEPT ![i].phase = "waiting"]
    BY <1>0, <2>4
  <2> QED
    BY <1>6, <2>2, <2>3, <2>4 DEF Answer
<1>7. ASSUME NEW t \in Tabs, Activity(t) PROVE FALSE
  BY <1>7 DEF Activity
<1>8. ASSUME NEW U \in SUBSET Users, DeleteUsers(U) PROVE FALSE
  BY <1>8 DEF DeleteUsers, browser
<1>9. CASE Tick
  BY <1>9 DEF Tick, browser
<1>10. CASE \E k \in Handlers : Refused(k)
  BY <1>4, <1>10
<1> QED
  BY <1>1, <1>2, <1>3, <1>5, <1>6, <1>7, <1>8, <1>9, <1>10 DEF Next

-----------------------------------------------------------------------------
(* The theorems.                                                            *)

\* Every variable keeps its type, and only pairs that were issued are in use.
THEOREM SessionTypes == Spec => []TypeOK
<1>1. IInv => TypeOK
  BY DEF IInv
<1> QED
  BY <1>1, IInvHolds, PTL

\* A request that waits for the refresh of its tab waits for one that is in
\* progress and that the tab still hears of, whatever fails, is given up or is
\* refreshed by other tabs: refreshPromise never outlives its request.
THEOREM WaitersHaveARefresh == Spec => []NobodyWaitsForNothing
<1>1. IInv => NobodyWaitsForNothing
  BY DEF IInv
<1> QED
  BY <1>1, IInvHolds, PTL

\* Without a failure, a logout or a deletion the browser's cookies hold a
\* refresh token that is stored or that a request is about to replace, however
\* many tabs refresh at once and in whatever order their answers arrive.
THEOREM CookiesStayGood == Spec => []CookiesHoldTheSession
<1>1. IInv => CookiesHoldTheSession
  BY DEF IInv
<1> QED
  BY <1>1, IInvHolds, PTL

\* An access token that a logout has put on the blacklist is refused from then
\* on; only one that was issued in the second of its logout is accepted once
\* more, in the second of its exp, when its entry has ended.
THEOREM LogoutIsFinal == Spec => []RevokedStaysRevoked
<1>1. ASSUME IInv, NEW n \in revoked, Accepted(n)
      PROVE  now = token[n].access /\ token[n].access = blacklist[n]
  <2>1. /\ n \in Pairs /\ token[n].access <= blacklist[n]
        /\ token[n].access \in Nat /\ blacklist[n] \in Nat /\ now \in Nat
    BY <1>1, SessionsAssumption DEF IInv, TypeOK, TokenInv, Pairs
  <2> QED
    BY <1>1, <2>1 DEF Accepted, Blacklisted
<1>2. IInv => RevokedStaysRevoked
  BY <1>1 DEF RevokedStaysRevoked
<1> QED
  BY <1>2, IInvHolds, PTL

\* With one request to /auth at a time no stored refresh token is of a user who
\* has been deleted or has logged out since his last login.
THEOREM NoTokenOutlivesItsUser == Spec => []TokensEnd
<1>1. IInv => TokensEnd
  BY DEF IInv
<1> QED
  BY <1>1, IInvHolds, PTL

\* With one request to /auth at a time a refresh token is replaced by a stored
\* one at most once.
THEOREM TokensAreReplacedOnce == Spec => ReplacedOnce
<1>1. ASSUME IInv, NEW k \in Handlers, job[k].phase = "create", job[k].kind = "refresh"
      PROVE  overlapped \/ job[k].pair \notin succeeded
  BY <1>1 DEF IInv, SerialInv, SerialJob
<1>2. IInv /\ [Next]_vars =>
        [\A k \in Handlers :
           /\ job[k].phase = "create" /\ job[k].kind = "refresh"
           /\ rows' # rows
           => overlapped \/ job[k].pair \notin succeeded]_vars
  BY <1>1
<1> QED
  BY <1>2, IInvHolds, PTL DEF Spec, ReplacedOnce

\* With one request to /auth at a time, no failure and no logout, a request of
\* a browser with a session is refused only when the token it was sent with a
\* second time has expired: every tab gets on by itself.
THEOREM HealthySessionsSurvive == Spec => HealthySessionSurvives
<1>1. ASSUME IInv, HealthInv, [Next]_vars, NEW c \in Calls,
             call[c].phase # "refused", call'[c].phase = "refused", call[c].pair # NoPair
      PROVE  \/ spoiled' \/ overlapped'
             \/ call[c].phase = "resent" /\ now > token[call[c].pair].access
  <2>1. Next
    BY <1>1 DEF vars, browser
  <2>2. CASE /\ ~spoiled' /\ spoiled' = spoiled
             /\ call[c].phase = "resent" /\ ~Accepted(call[c].pair)
    <3>1. /\ users = Users /\ blacklist[call[c].pair] = 0
          /\ call[c].pair \in 1 .. pairs /\ call[c].pair \in Pairs
      BY <1>1, <2>2, SessionsAssumption DEF IInv, TypeOK, HealthInv, NoPair, Pairs
    <3>2. token[call[c].pair].user \in users /\ ~Blacklisted(call[c].pair)
      BY <1>1, <3>1, SessionsAssumption DEF IInv, TypeOK, TokenInv, Blacklisted
    <3>3. /\ token[call[c].pair].access \in Nat /\ now \in Nat
      BY <1>1, <3>1, SessionsAssumption DEF IInv, TypeOK
    <3> QED
      BY <1>1, <2>2, <3>2, <3>3 DEF Accepted
  <2>3. ASSUME NEW k \in Handlers, Refused(k), job[k].kind = "refresh", ~spoiled', ~overlapped'
        PROVE  FALSE
    <3>1. ~spoiled /\ ~overlapped /\ job[k].phase = "failed"
      BY <2>3 DEF Refused, history, At
    <3> QED
      BY <1>1, <2>3, <3>1 DEF HealthInv, HealthJob
  <2> QED
    BY <1>1, <2>1, <2>2, <2>3, RefusedCalls
<1>2. IInv /\ HealthInv /\ [Next]_vars =>
        [\A c \in Calls :
           /\ call[c].phase # "refused" /\ call'[c].phase = "refused"
           /\ call[c].pair # NoPair
           => \/ spoiled' \/ overlapped'
              \/ call[c].phase = "resent" /\ now > token[call[c].pair].access]_vars
  BY <1>1
<1> QED
  BY <1>2, IInvHolds, HealthHolds, PTL DEF Spec, HealthySessionSurvives
=============================================================================
