------------------------ MODULE Conversation_proofs ------------------------
(***************************************************************************)
(* Theorems about Conversation for any users, persons, charts, requests in *)
(* progress and bounds.                                                    *)
(***************************************************************************)
EXTENDS Conversation, FiniteSets, FiniteSetTheorems, WellFoundedInduction, TLAPS

\* < on the natural numbers, as a set of pairs, is well-founded.
LEMMA NatLess == IsWellFoundedOn({p \in Nat \X Nat : p[1] < p[2]}, Nat)
BY NatLessThanWellFounded DEF OpToRel

\* A set of natural numbers has a least element.
LEMMA LeastNatural ==
  ASSUME NEW T \in SUBSET Nat, T # {}
  PROVE  \E m \in T : \A n \in T : m <= n
<1> DEFINE R == {p \in Nat \X Nat : p[1] < p[2]}
<1>1. PICK m \in T : \A n \in T : <<n, m>> \notin R
  BY NatLess, WFMin
<1> SUFFICES ASSUME NEW n \in T PROVE m <= n
  OBVIOUS
<1>2. <<n, m>> \notin R
  BY <1>1
<1>3. m \in Nat /\ n \in Nat
  OBVIOUS
<1>4. ~(n < m)
  BY <1>2, <1>3
<1> QED
  BY <1>3, <1>4

\* A finite set has an element that b, transitive and irreflexive, puts none
\* before.
LEMMA MinimalElement ==
  ASSUME NEW S, IsFiniteSet(S), S # {}, NEW b,
         \A j \in S : <<j, j>> \notin b,
         \A i, j, k \in S : <<i, j>> \in b /\ <<j, k>> \in b => <<i, k>> \in b
  PROVE  \E k \in S : \A j \in S : <<j, k>> \notin b
<1> DEFINE pred(k) == {j \in S : <<j, k>> \in b}
           T == {Cardinality(pred(k)) : k \in S}
<1>1. ASSUME NEW k \in S
      PROVE  IsFiniteSet(pred(k)) /\ Cardinality(pred(k)) \in Nat
  BY FS_Subset, FS_CardinalityType
<1>2. PICK m \in T : \A n \in T : m <= n
  <2>1. T \in SUBSET Nat
    <3> SUFFICES ASSUME NEW n \in T PROVE n \in Nat
      OBVIOUS
    <3> PICK k \in S : n = Cardinality(pred(k))
      OBVIOUS
    <3> QED
      BY <1>1
  <2>2. T # {}
    <3> PICK k \in S : TRUE
      OBVIOUS
    <3>1. Cardinality(pred(k)) \in T
      OBVIOUS
    <3> QED
      BY <3>1
  <2> HIDE DEF T
  <2> QED
    BY <2>1, <2>2, LeastNatural
<1>3. PICK k \in S : m = Cardinality(pred(k))
  OBVIOUS
<1>4. ASSUME NEW j \in S, <<j, k>> \in b PROVE FALSE
  <2>1. pred(j) \subseteq pred(k) /\ j \in pred(k) /\ j \notin pred(j)
    BY <1>4
  <2> HIDE DEF pred
  <2>2. Cardinality(pred(j)) <= Cardinality(pred(k))
        /\ (Cardinality(pred(j)) = Cardinality(pred(k)) => pred(j) = pred(k))
    BY <1>1, <2>1, FS_Subset
  <2>3. Cardinality(pred(j)) < Cardinality(pred(k))
    BY <1>1, <2>1, <2>2
  <2>4. Cardinality(pred(k)) <= Cardinality(pred(j))
    BY <1>2, <1>3
  <2> QED
    BY <1>1, <2>3, <2>4
<1> QED
  BY <1>4

-----------------------------------------------------------------------------
(* The invariant.  A request that works on a session has found it before;   *)
(* nothing keeps the session from being deleted meanwhile, so all it may    *)
(* rely on is conditional: ids are never handed out twice, hence a session  *)
(* that is still there is the one that was found.                           *)

\* The session was found ...
FoundPhases == {"history", "position", "question", "prompt", "model", "stream", "answer", "delete"}
\* ... and the round has its position.
PlacedPhases == {"question", "prompt", "model", "stream", "answer"}

StoreInv ==
  /\ IsFiniteSet(messages)
  /\ \A s \in Sessions : Live(s) => s <= created
  /\ \A m \in messages : m.by <= requests
  /\ \A r \in Requests : saved[r] # NoSession => r <= requests /\ saved[r] <= created

OwnJob(j) ==
  j.phase # "idle" =>
    /\ j.user \in Users
    /\ j.by \in 1 .. requests
    /\ asker[j.by] = j.user

FoundJob(j) ==
  j.phase \in FoundPhases =>
    /\ j.session \in 1 .. created
    /\ Live(j.session) => session[j.session].owner = j.user

Follows(s, p) == p = 1 \/ \E n \in messages : n.session = s /\ n.pos = p - 1

PlacedJob(j) ==
  j.phase \in PlacedPhases /\ Live(j.session) => Follows(j.session, j.pos)

\* What the request has stored so far
StoredJob(j) ==
  /\ \A m \in messages : m.by = j.by /\ j.phase # "idle" =>
       /\ j.phase \in PlacedPhases \ {"question"}
       /\ m.session = j.session /\ m.pos = j.pos /\ m.asked = j.asked /\ m.nr = 0
  /\ j.phase \in PlacedPhases \ {"question"} /\ Live(j.session) =>
       /\ Message(j.session, j.pos, "user", j.by, j.asked, 0) \in messages
       /\ j.phase # "prompt" =>
            Message(j.session, j.pos, "query", j.by, j.asked, 0) \in messages

JobInv(j) == OwnJob(j) /\ FoundJob(j) /\ PlacedJob(j) /\ StoredJob(j)

\* Two slots never work for the same request.
OneSlotEach ==
  \A k, l \in Slots :
    k # l /\ job[k].phase # "idle" /\ job[l].phase # "idle" => job[k].by # job[l].by

IInv ==
  /\ TypeOK
  /\ StoreInv
  /\ \A k \in Slots : JobInv(job[k])
  /\ OneSlotEach
  /\ NothingDangles
  /\ OnlyOwnerWrites
  /\ RoundsInOrder
  /\ NoGaps

-----------------------------------------------------------------------------
(* Jobs.                                                                    *)

\* The slot of no request is a job of its type.
LEMMA IdleType == Idle \in JobType /\ Idle.phase = "idle"
<1>1. Gone.chart \in Charts
  BY ConversationAssumption DEF Gone
<1> QED
  BY <1>1, ConversationAssumption DEF Idle, JobType, Phases, NoSession, Lists

\* A job moved to another phase is a job with the same other fields.
LEMMA MovedJob ==
  ASSUME NEW j \in JobType, NEW p \in Phases
  PROVE  LET i == [j EXCEPT !.phase = p] IN
         /\ i \in JobType /\ i.phase = p /\ i.kind = j.kind /\ i.user = j.user
         /\ i.by = j.by /\ i.session = j.session /\ i.chart = j.chart
         /\ i.asked = j.asked /\ i.pos = j.pos /\ i.list = j.list
BY DEF JobType

\* Goto changes the phase of one job and nothing else.
LEMMA GotoJob ==
  ASSUME TypeOK, NEW k \in Slots, NEW p \in Phases, Goto(k, p)
  PROVE  /\ saved' = saved
         /\ job' = [job EXCEPT ![k] = [job[k] EXCEPT !.phase = p]]
BY DEF Goto, TypeOK, JobType

\* A message is a record of its type.
LEMMA MessageFields ==
  ASSUME NEW s \in Sessions, NEW p \in Positions, NEW r \in Requests,
         NEW q \in Questions, NEW role \in Roles, NEW n \in Nat
  PROVE  LET m == Message(s, p, role, r, q, n) IN
         /\ m \in MessageType /\ m.session = s /\ m.pos = p /\ m.role = role
         /\ m.by = r /\ m.asked = q /\ m.nr = n
BY DEF Message, MessageType

\* A session is opened with a list of messages: what a client sends, or the
\* round of a stream.
LEMMA ListsType == Lists \subseteq Seq(MessageCreate)
<1>1. ASSUME NEW q \in Questions PROVE Round(q) \in Seq(MessageCreate)
  BY DEF Round, MessageCreate, Roles
<1> QED
  BY <1>1, ConversationAssumption DEF Lists

\* A position of the column is an integer.
LEMMA PositionsInt == \A p \in Positions : p \in Int
BY ConversationAssumption DEF Positions

\* The rows a list opens a session with are finitely many, of their type, of
\* the session and of the request.
LEMMA OpeningRows ==
  ASSUME NEW s \in Sessions, NEW r \in Requests, NEW list \in Seq(MessageCreate),
         \A i \in 1 .. Len(list) : list[i].pos \in Positions
  PROVE  /\ IsFiniteSet(Opening(s, r, list))
         /\ \A m \in Opening(s, r, list) :
              /\ m \in MessageType /\ m.session = s /\ m.by = r /\ m.nr # 0
<1> DEFINE row(i) == Message(s, list[i].pos, list[i].role, r, list[i].asked, i)
           T == Opening(s, r, list)
           D == 1 .. Len(list)
           f == [i \in D |-> row(i)]
<1>1. Len(list) \in Nat
  OBVIOUS
<1>2. T = {row(i) : i \in D}
  BY DEF Opening
<1>3. ASSUME NEW i \in D
      PROVE  /\ row(i) \in MessageType /\ row(i).session = s /\ row(i).by = r
             /\ row(i).nr # 0
  <2>1. list[i] \in MessageCreate /\ list[i].pos \in Positions /\ i \in Nat /\ i # 0
    BY <1>1
  <2>2. list[i].role \in Roles /\ list[i].asked \in Questions
    BY <2>1 DEF MessageCreate
  <2> QED
    BY <2>1, <2>2, MessageFields
<1>4. IsFiniteSet(D)
  BY <1>1, FS_Interval
<1> HIDE DEF row, T, D
<1>5. f \in Surjection(D, T)
  BY <1>2 DEF Surjection
<1>6. IsFiniteSet(T)
  BY <1>4, <1>5, FS_Surjection
<1> QED
  BY <1>2, <1>3, <1>6 DEF T

\* The next position is one more than the largest in use ...
LEMMA NextPositionBounds ==
  ASSUME TypeOK, StoreInv, NEW s
  PROVE  /\ NextPosition(s) \in Int /\ Follows(s, NextPosition(s))
         /\ \A m \in Of(s) : m.pos < NextPosition(s)
<1> DEFINE P == {m.pos : m \in Of(s)}
           later == {p \in Of(s) \X Of(s) : p[1].pos > p[2].pos}
<1>1. \A m \in Of(s) : m \in messages /\ m.session = s /\ m.pos \in Int
  BY PositionsInt DEF TypeOK, MessageType, Of
<1>2. IsFiniteSet(Of(s))
  BY FS_Subset DEF StoreInv, Of
<1>3. CASE Of(s) = {}
  BY <1>3 DEF NextPosition, Follows
<1>4. CASE Of(s) # {}
  <2>1. /\ \A j \in Of(s) : <<j, j>> \notin later
        /\ \A i, j, l \in Of(s) :
             <<i, j>> \in later /\ <<j, l>> \in later => <<i, l>> \in later
    BY <1>1
  <2> HIDE DEF later
  <2>2. PICK m \in Of(s) : \A j \in Of(s) : <<j, m>> \notin later
    BY <1>2, <1>4, <2>1, MinimalElement
  <2>3. ASSUME NEW j \in Of(s) PROVE m.pos >= j.pos
    <3>1. ~(j.pos > m.pos)
      BY <2>2 DEF later
    <3> QED
      BY <1>1, <3>1
  <2>4. \E x \in P : \A y \in P : x >= y
    BY <2>3
  <2>5. Max(P) \in P /\ \A y \in P : Max(P) >= y
    <3> HIDE DEF P
    <3> QED
      BY <2>4 DEF Max
  <2>6. PICK n \in Of(s) : n.pos = Max(P)
    BY <2>5
  <2>7. NextPosition(s) = n.pos + 1
    BY <1>4, <2>6 DEF NextPosition
  <2>8. ASSUME NEW j \in Of(s) PROVE n.pos >= j.pos
    BY <2>5, <2>6
  <2> HIDE DEF P, later
  <2>9. Follows(s, NextPosition(s))
    BY <1>1, <2>6, <2>7 DEF Follows
  <2> QED
    BY <1>1, <2>7, <2>8, <2>9
<1> QED
  BY <1>3, <1>4

\* ... so it leaves no gap ...
LEMMA NextPositionFollows ==
  ASSUME TypeOK, StoreInv, NEW s
  PROVE  NextPosition(s) \in Int /\ Follows(s, NextPosition(s))
BY NextPositionBounds

\* ... and no message has it yet.
LEMMA NextPositionIsLater ==
  ASSUME TypeOK, StoreInv, NEW s, NEW m \in Of(s)
  PROVE  m.pos < NextPosition(s)
BY NextPositionBounds

-----------------------------------------------------------------------------
(* Effects.  Each action is a step of one request, with one of four effects *)
(* on the store: none, one more message, one more session, fewer sessions.  *)

\* What is reported as saved is a session of the user who asked.
SavedStep ==
  /\ saved' \in [Requests -> Sessions \cup {NoSession}]
  /\ \A r \in Requests :
       \/ saved'[r] = saved[r]
       \/ /\ r <= requests
          /\ saved'[r] \in 1 .. created
          /\ session[saved'[r]].owner = asker[r]

\* Slot k goes on with job j: it is done or works for the same request.
JobStep(k, j) ==
  /\ job' = [job EXCEPT ![k] = j]
  /\ j \in JobType
  /\ j.phase # "idle" => job[k].phase # "idle" /\ j.by = job[k].by

\* No two slots come to work for one request.
LEMMA JobStepFacts ==
  ASSUME IInv, NEW k \in Slots, NEW j, JobStep(k, j)
  PROVE  job' \in [Slots -> JobType] /\ OneSlotEach'
<1>1. job' \in [Slots -> JobType] /\ job'[k] = j
      /\ \A l \in Slots \ {k} : job'[l] = job[l]
  BY DEF IInv, TypeOK, JobStep
<1>2. ASSUME NEW l \in Slots, NEW i \in Slots, l # i,
             job'[l].phase # "idle", job'[i].phase # "idle"
      PROVE  job'[l].by # job'[i].by
  BY <1>1, <1>2 DEF IInv, OneSlotEach, JobStep
<1> QED
  BY <1>1, <1>2 DEF OneSlotEach

\* A step of one request that leaves the store alone, if it meets the
\* conditions of the phase it goes on to
LEMMA QuietEffect ==
  ASSUME IInv, NEW k \in Slots, NEW j, JobStep(k, j), JobInv(j), SavedStep,
         UNCHANGED <<store, requests, asker, said, overlapped>>
  PROVE  IInv'
<1>1. \A l \in Slots : job'[l] = IF l = k THEN j ELSE job[l]
  BY DEF JobStep, IInv, TypeOK
<1>2. /\ persons' = persons /\ session' = session /\ created' = created
      /\ messages' = messages /\ requests' = requests /\ asker' = asker
      /\ said' = said /\ overlapped' = overlapped
  BY DEF store
<1>3. TypeOK'
  BY <1>2, JobStepFacts DEF IInv, TypeOK, SavedStep
<1>4. StoreInv'
  <2>1. ASSUME NEW r \in Requests, saved'[r] # NoSession
        PROVE  r <= requests /\ saved'[r] <= created
    BY <2>1 DEF SavedStep, IInv, StoreInv, TypeOK
  <2> QED
    BY <1>2, <2>1 DEF IInv, StoreInv, Live
<1>5. ASSUME NEW l \in Slots PROVE JobInv(job[l])' /\ JobInv(job'[l])
  <2>1. JobInv(job'[l])
    BY <1>1 DEF IInv
  <2> QED
    BY <1>2, <2>1 DEF JobInv, OwnJob, FoundJob, PlacedJob, StoredJob, Follows, Live
<1>6. NothingDangles' /\ RoundsInOrder' /\ NoGaps'
  BY <1>2 DEF IInv, NothingDangles, RoundsInOrder, NoGaps, Live, Of
<1>7. OnlyOwnerWrites'
  <2>1. ASSUME NEW r \in Requests, saved'[r] # NoSession, Live(saved'[r])
        PROVE  session[saved'[r]].owner = asker[r]
    BY <2>1 DEF SavedStep, IInv, OnlyOwnerWrites
  <2> QED
    BY <1>2, <2>1 DEF IInv, OnlyOwnerWrites, Live
<1> QED
  BY <1>3, <1>4, <1>5, <1>6, <1>7, JobStepFacts DEF IInv

\* Slot k goes on after storing the message of its phase, with the same round.
NextMessage(j, role, i) ==
  /\ \/ j.phase = "question" /\ role = "user" /\ i.phase \in {"idle", "prompt"}
     \/ j.phase = "prompt" /\ role = "query" /\ i.phase \in {"idle", "answer", "model"}
     \/ j.phase = "answer" /\ role = "assistant" /\ i.phase = "idle"
  /\ i.phase # "idle" =>
       /\ i.user = j.user /\ i.by = j.by /\ i.session = j.session
       /\ i.asked = j.asked /\ i.pos = j.pos

\* append_message: one more message in a session that is still there
LEMMA StoreEffect ==
  ASSUME IInv, NEW k \in Slots, NEW role, NEW j, Storable(k),
         NextMessage(job[k], role, j), Store(k, role), JobStep(k, j), SavedStep,
         UNCHANGED <<persons, session, created, requests, asker, said, overlapped>>
  PROVE  IInv'
<1> DEFINE i == job[k]
           m == Message(i.session, i.pos, role, i.by, i.asked, 0)
<1>1. \A l \in Slots : job'[l] = IF l = k THEN j ELSE job[l]
  BY DEF JobStep, IInv, TypeOK
<1>2. /\ i \in JobType /\ JobInv(i) /\ i.phase \in PlacedPhases /\ i.phase \in FoundPhases
      /\ i.phase # "idle" /\ role \in Roles /\ Live(i.session)
  BY DEF IInv, TypeOK, NextMessage, PlacedPhases, FoundPhases, Roles, Storable
<1>3. /\ i.session \in Sessions /\ i.session \in 1 .. created /\ i.pos \in Positions
      /\ i.by \in Requests /\ i.by <= requests /\ i.asked \in Questions
      /\ asker[i.by] = session[i.session].owner /\ Follows(i.session, i.pos)
  <2>1. /\ created \in 0 .. MaxSessions /\ requests \in 0 .. MaxRequests
        /\ MaxSessions \in Nat /\ MaxRequests \in Nat
    BY ConversationAssumption DEF IInv, TypeOK
  <2>2. i.session \in 1 .. created /\ session[i.session].owner = i.user
    BY <1>2 DEF JobInv, FoundJob
  <2>3. i.by \in 1 .. requests /\ asker[i.by] = i.user
    BY <1>2 DEF JobInv, OwnJob
  <2>4. i.pos \in Positions /\ Follows(i.session, i.pos)
    BY <1>2 DEF JobInv, PlacedJob, Storable
  <2>5. i.asked \in Questions
    BY <1>2 DEF JobType
  <2> HIDE DEF i
  <2> QED
    BY <2>1, <2>2, <2>3, <2>4, <2>5 DEF Sessions, Requests
<1>4. /\ m \in MessageType /\ m.session = i.session /\ m.pos = i.pos /\ m.role = role
      /\ m.by = i.by /\ m.asked = i.asked /\ m.nr = 0
  BY <1>2, <1>3, MessageFields
<1>5. messages' = messages \cup {m}
  BY DEF Store
<1> HIDE DEF m
<1>6. TypeOK'
  BY <1>4, <1>5, JobStepFacts DEF IInv, TypeOK, SavedStep
<1>7. StoreInv'
  <2>1. ASSUME NEW r \in Requests, saved'[r] # NoSession
        PROVE  r <= requests /\ saved'[r] <= created
    BY <2>1 DEF SavedStep, IInv, StoreInv, TypeOK
  <2>2. IsFiniteSet(messages')
    BY <1>5, FS_AddElement DEF IInv, StoreInv
  <2> QED
    BY <1>3, <1>4, <1>5, <2>1, <2>2 DEF IInv, StoreInv, Live
<1>8. \A s, p : Follows(s, p) => Follows(s, p)'
  BY <1>5 DEF Follows
<1>9. ASSUME NEW l \in Slots, l # k PROVE JobInv(job[l])'
  <2>1. job'[l] = job[l] /\ JobInv(job[l])
    BY <1>1, <1>9 DEF IInv
  <2>2. OwnJob(job[l])' /\ FoundJob(job[l])'
    BY <2>1 DEF JobInv, OwnJob, FoundJob, Live
  <2>3. PlacedJob(job[l])'
    BY <1>8, <2>1 DEF JobInv, PlacedJob, Live
  <2>4. job[l].phase # "idle" => job[l].by # m.by
    BY <1>2, <1>4, <1>9 DEF IInv, OneSlotEach
  <2>5. StoredJob(job[l])'
    <3>1. job[l].phase \in PlacedPhases => job[l].phase # "idle"
      BY DEF PlacedPhases
    <3> QED
      BY <1>5, <2>1, <2>4, <3>1 DEF JobInv, StoredJob, Live
  <2> QED
    BY <2>1, <2>2, <2>3, <2>5 DEF JobInv
<1>10. JobInv(job[k])'
  <2>1. job'[k] = j
    BY <1>1
  <2>2. CASE j.phase = "idle"
    BY <2>1, <2>2 DEF JobInv, OwnJob, FoundJob, PlacedJob, StoredJob, FoundPhases, PlacedPhases
  <2>3. CASE j.phase # "idle"
    <3>1. /\ j.user = i.user /\ j.by = i.by /\ j.session = i.session
          /\ j.asked = i.asked /\ j.pos = i.pos
      BY <2>3 DEF NextMessage
    <3>2. j.phase \in PlacedPhases \ {"question"} /\ j.phase \in FoundPhases
      BY <2>3 DEF NextMessage, PlacedPhases, FoundPhases
    <3>3. OwnJob(j)' /\ FoundJob(j)' /\ PlacedJob(j)'
      BY <1>2, <1>8, <3>1, <3>2 DEF JobInv, OwnJob, FoundJob, PlacedJob, Live
    <3>4. ASSUME NEW n \in messages', n.by = j.by
          PROVE  n.session = j.session /\ n.pos = j.pos /\ n.asked = j.asked /\ n.nr = 0
      BY <1>2, <1>4, <1>5, <3>1, <3>4 DEF JobInv, StoredJob
    <3>5. /\ Message(j.session, j.pos, "user", j.by, j.asked, 0) \in messages'
          /\ j.phase # "prompt" =>
               Message(j.session, j.pos, "query", j.by, j.asked, 0) \in messages'
      <4>1. CASE i.phase = "question"
        BY <1>5, <2>3, <3>1, <4>1 DEF NextMessage, m
      <4>2. CASE i.phase = "prompt"
        BY <1>2, <1>5, <2>3, <3>1, <4>2 DEF NextMessage, m, JobInv, StoredJob, PlacedPhases
      <4> QED
        BY <2>3, <4>1, <4>2 DEF NextMessage
    <3>6. StoredJob(j)'
      BY <3>2, <3>4, <3>5 DEF StoredJob
    <3> QED
      BY <2>1, <3>3, <3>6 DEF JobInv
  <2> QED
    BY <2>2, <2>3
<1>11. NothingDangles'
  <2>1. ASSUME NEW n \in messages' PROVE Live(n.session)'
    <3>1. Live(n.session)
      BY <1>2, <1>4, <1>5, <2>1 DEF IInv, NothingDangles
    <3> QED
      BY <3>1 DEF Live
  <2> QED
    BY <2>1 DEF IInv, NothingDangles, Live
<1>12. OnlyOwnerWrites'
  <2>1. ASSUME NEW r \in Requests, saved'[r] # NoSession, Live(saved'[r])
        PROVE  session[saved'[r]].owner = asker[r]
    BY <2>1 DEF SavedStep, IInv, OnlyOwnerWrites
  <2> QED
    BY <1>3, <1>4, <1>5, <2>1 DEF IInv, OnlyOwnerWrites, Live
<1>13. RoundsInOrder'
  <2>1. \A n \in messages : n.by = m.by =>
          n.session = m.session /\ n.pos = m.pos /\ n.asked = m.asked /\ n.nr = 0
    BY <1>2, <1>4 DEF JobInv, StoredJob
  <2>2. ASSUME NEW n \in messages', NEW o \in messages', o.by = n.by
        PROVE  o.session = n.session /\ (n.nr = 0 => o.nr = 0 /\ o.pos = n.pos)
    BY <1>4, <1>5, <2>1, <2>2 DEF IInv, RoundsInOrder
  <2>3. ASSUME NEW n \in messages', n.nr = 0, NEW r \in {"user", "query"},
               n.role = "assistant" \/ (n.role = "query" /\ r = "user")
        PROVE  Message(n.session, n.pos, r, n.by, n.asked, 0) \in messages'
    <3>1. CASE n \in messages
      BY <1>5, <2>3, <3>1 DEF IInv, RoundsInOrder
    <3>2. CASE n = m
      <4>1. Message(i.session, i.pos, r, i.by, i.asked, 0) \in messages
        BY <1>2, <1>4, <2>3, <3>2
           DEF NextMessage, JobInv, StoredJob, PlacedPhases
      <4> QED
        BY <1>4, <1>5, <3>2, <4>1
    <3> QED
      BY <1>5, <3>1, <3>2
  <2> QED
    BY <2>2, <2>3 DEF RoundsInOrder
<1>14. NoGaps'
  BY <1>3, <1>4, <1>5 DEF IInv, NoGaps, Follows, Of
<1> QED
  BY <1>6, <1>7, <1>9, <1>10, <1>11, <1>12, <1>13, <1>14, JobStepFacts DEF IInv

\* Sessions are dropped with their messages; jobs go on or are done.
LEMMA DropEffect ==
  ASSUME IInv, NEW S, S \subseteq Sessions, Drop(S),
         persons' \subseteq persons,
         \A s \in Sessions \ S : Live(s) =>
           {SubjectOf[session[s].chart], PartnerOf[session[s].chart]}
             \subseteq persons' \cup {NoPerson},
         job' \in [Slots -> JobType],
         \A l \in Slots : job'[l] \in {job[l], Idle},
         UNCHANGED <<created, requests, saved, asker, said, overlapped>>
  PROVE  IInv'
<1>1. /\ messages' = {m \in messages : m.session \notin S}
      /\ \A s \in Sessions : session'[s] = IF s \in S THEN Gone ELSE session[s]
      /\ Gone.owner = NoUser /\ Gone \in [owner : Users \cup {NoUser}, chart : Charts]
  BY ConversationAssumption DEF Drop, Gone
<1>2. /\ \A s \in Sessions : Live(s)' <=> Live(s) /\ s \notin S
      /\ \A s \in Sessions : Live(s)' => session'[s] = session[s]
  BY <1>1 DEF Live
<1>3. TypeOK'
  <2>1. session' \in [Sessions -> [owner : Users \cup {NoUser}, chart : Charts]]
    <3>1. \A s \in Sessions : session'[s] \in [owner : Users \cup {NoUser}, chart : Charts]
      BY <1>1 DEF IInv, TypeOK
    <3> QED
      BY <3>1 DEF Drop
  <2> QED
    BY <1>1, <2>1 DEF IInv, TypeOK
<1>4. StoreInv'
  <2>1. IsFiniteSet(messages')
    BY <1>1, FS_Subset DEF IInv, StoreInv
  <2> QED
    BY <1>1, <1>2, <2>1 DEF IInv, StoreInv
<1>5. /\ created \in 0 .. MaxSessions /\ 1 .. created \subseteq Sessions
      /\ \A m \in messages : m.session \in Sessions
  BY ConversationAssumption DEF IInv, TypeOK, MessageType, Sessions
<1>6. ASSUME NEW s \in Sessions, NEW p, Live(s)', Follows(s, p)
      PROVE  Follows(s, p)'
  BY <1>1, <1>2, <1>6 DEF Follows
<1>7. ASSUME NEW l \in Slots PROVE JobInv(job[l])'
  <2>1. CASE job'[l] = Idle
    BY <2>1, IdleType DEF JobInv, OwnJob, FoundJob, PlacedJob, StoredJob, FoundPhases, PlacedPhases
  <2>2. CASE job'[l] = job[l]
    <3>1. JobInv(job[l])
      BY DEF IInv
    <3>2. OwnJob(job[l])'
      BY <2>2, <3>1 DEF JobInv, OwnJob
    <3>3. FoundJob(job[l])'
      BY <1>2, <1>5, <2>2, <3>1 DEF JobInv, FoundJob
    <3>4. job[l].phase \in PlacedPhases => job[l].session \in Sessions
      BY <1>5, <3>1 DEF JobInv, FoundJob, FoundPhases, PlacedPhases
    <3>5. PlacedJob(job[l])'
      BY <1>2, <1>6, <2>2, <3>1, <3>4 DEF JobInv, PlacedJob
    <3>6. ASSUME NEW m \in messages', m.by = job[l].by, job[l].phase # "idle"
          PROVE  /\ job[l].phase \in PlacedPhases \ {"question"}
                 /\ m.session = job[l].session /\ m.pos = job[l].pos
                 /\ m.asked = job[l].asked /\ m.nr = 0
      BY <1>1, <3>1, <3>6 DEF JobInv, StoredJob
    <3>7. ASSUME job[l].phase \in PlacedPhases \ {"question"}, Live(job[l].session)'
          PROVE  /\ Message(job[l].session, job[l].pos, "user", job[l].by, job[l].asked, 0)
                      \in messages'
                 /\ job[l].phase # "prompt" =>
                      Message(job[l].session, job[l].pos, "query", job[l].by, job[l].asked, 0)
                        \in messages'
      <4>1. Live(job[l].session) /\ job[l].session \notin S
        BY <1>2, <2>2, <3>4, <3>7
      <4>2. \A r : Message(job[l].session, job[l].pos, r, job[l].by, job[l].asked, 0).session
                   = job[l].session
        BY DEF Message
      <4>3. /\ Message(job[l].session, job[l].pos, "user", job[l].by, job[l].asked, 0)
                  \in messages
            /\ job[l].phase # "prompt" =>
                 Message(job[l].session, job[l].pos, "query", job[l].by, job[l].asked, 0)
                   \in messages
        BY <3>1, <3>7, <4>1 DEF JobInv, StoredJob
      <4> QED
        BY <1>1, <4>1, <4>2, <4>3
    <3>8. StoredJob(job[l])'
      BY <2>2, <3>6, <3>7 DEF StoredJob
    <3> QED
      BY <3>2, <3>3, <3>5, <3>8 DEF JobInv
  <2> QED
    BY <2>1, <2>2
<1>8. OneSlotEach'
  BY IdleType DEF IInv, OneSlotEach
<1>9. NothingDangles'
  BY <1>1, <1>2, <1>5 DEF IInv, NothingDangles
<1>10. OnlyOwnerWrites'
  <2>1. ASSUME NEW m \in messages' PROVE asker[m.by] = session'[m.session].owner
    BY <1>1, <1>5 DEF IInv, OnlyOwnerWrites
  <2>2. ASSUME NEW r \in Requests, saved[r] # NoSession, Live(saved[r])'
        PROVE  session'[saved[r]].owner = asker[r]
    BY <1>2, <2>2 DEF IInv, OnlyOwnerWrites, TypeOK
  <2> QED
    BY <2>1, <2>2 DEF OnlyOwnerWrites
<1>11. RoundsInOrder'
  <2>1. ASSUME NEW m \in messages', m.nr = 0, NEW r \in {"user", "query"},
               m.role = "assistant" \/ (m.role = "query" /\ r = "user")
        PROVE  Message(m.session, m.pos, r, m.by, m.asked, 0) \in messages'
    BY <1>1, <2>1 DEF IInv, RoundsInOrder, Message
  <2>2. ASSUME NEW m \in messages', NEW n \in messages', n.by = m.by
        PROVE  n.session = m.session /\ (m.nr = 0 => n.nr = 0 /\ n.pos = m.pos)
    BY <1>1, <2>2 DEF IInv, RoundsInOrder
  <2> QED
    BY <2>1, <2>2 DEF RoundsInOrder
<1>12. NoGaps'
  BY <1>1 DEF IInv, NoGaps, Of
<1> QED
  BY <1>3, <1>4, <1>7, <1>8, <1>9, <1>10, <1>11, <1>12 DEF IInv

\* The messages stay finitely many.
LEMMA UnionFinite ==
  ASSUME NEW S, NEW T, IsFiniteSet(S), IsFiniteSet(T)
  PROVE  IsFiniteSet(S \cup T)
BY FS_Union

\* A new session: its id is new, so nothing referred to it before.
LEMMA InsertEffect ==
  ASSUME IInv, NEW k \in Slots, NEW j, j = job[k], j.phase = "insert",
         {SubjectOf[j.chart], PartnerOf[j.chart]} \subseteq persons \cup {NoPerson},
         \A i \in 1 .. Len(j.list) : j.list[i].pos \in Positions,
         created < MaxSessions, created' = created + 1,
         session' = [session EXCEPT ![NewId] = [owner |-> j.user, chart |-> j.chart]],
         messages' = messages \cup Opening(NewId, j.by, j.list),
         Saved(k, NewId),
         UNCHANGED <<persons, requests, asker, said, overlapped>>
  PROVE  IInv'
<1> DEFINE row == [owner |-> j.user, chart |-> j.chart]
           n == NewId
<1>1. /\ j \in JobType /\ JobInv(j) /\ j.user \in Users /\ j.user # NoUser
      /\ j.by \in Requests /\ j.by <= requests /\ asker[j.by] = j.user
      /\ j.list \in Seq(MessageCreate) /\ j.chart \in Charts
  <2>1. j \in JobType /\ JobInv(j)
    BY DEF IInv, TypeOK
  <2>2. j.user \in Users /\ j.by \in 1 .. requests /\ asker[j.by] = j.user
    BY <2>1 DEF JobInv, OwnJob
  <2>3. requests \in 0 .. MaxRequests /\ MaxRequests \in Nat
    BY ConversationAssumption DEF IInv, TypeOK
  <2>4. j.list \in Seq(MessageCreate) /\ j.chart \in Charts
    BY <2>1, ListsType DEF JobType
  <2> QED
    BY <2>1, <2>2, <2>3, <2>4, ConversationAssumption DEF Requests
<1>2. /\ n = created + 1 /\ n \in Sessions /\ n \in Nat \ {0} /\ ~Live(n)
      /\ created \in Nat
  <2>1. created \in 0 .. MaxSessions /\ MaxSessions \in Nat
    BY ConversationAssumption DEF IInv, TypeOK
  <2> QED
    BY <2>1 DEF NewId, Sessions, IInv, StoreInv
<1> HIDE DEF n
<1>3. /\ \A s \in Sessions : session'[s] = IF s = n THEN row ELSE session[s]
      /\ session' = [session EXCEPT ![n] = row]
      /\ row \in [owner : Users \cup {NoUser}, chart : Charts]
      /\ row.owner = j.user /\ row.chart = j.chart
  BY <1>1, <1>2 DEF IInv, TypeOK, n
<1> HIDE DEF row
<1>4. /\ saved' \in [Requests -> Sessions \cup {NoSession}]
      /\ \A r \in Requests : saved'[r] = IF r = j.by THEN n ELSE saved[r]
      /\ job' \in [Slots -> JobType]
      /\ \A l \in Slots : job'[l] = IF l = k THEN Idle ELSE job[l]
  BY <1>1, <1>2, IdleType DEF Saved, IInv, TypeOK, n
<1>5. \A s \in Sessions : /\ Live(s)' <=> Live(s) \/ s = n
                          /\ Live(s) => s # n /\ session'[s] = session[s]
  BY <1>1, <1>2, <1>3 DEF Live
<1>6. \A m \in messages : m.session \in Sessions /\ m.session # n /\ Live(m.session)
  BY <1>2 DEF IInv, TypeOK, MessageType, NothingDangles
<1>7. \A m \in messages : m.by # j.by
  BY <1>1 DEF JobInv, StoredJob, PlacedPhases
<1>8. /\ IsFiniteSet(Opening(n, j.by, j.list))
      /\ \A m \in Opening(n, j.by, j.list) :
           m \in MessageType /\ m.session = n /\ m.by = j.by /\ m.nr # 0
  BY <1>1, <1>2, OpeningRows
<1>9. messages' = messages \cup Opening(n, j.by, j.list)
  BY DEF n
<1>10. TypeOK'
  <2>1. session' \in [Sessions -> [owner : Users \cup {NoUser}, chart : Charts]]
    BY <1>3 DEF IInv, TypeOK
  <2>2. messages' \subseteq MessageType
    BY <1>8, <1>9 DEF IInv, TypeOK
  <2>3. created' \in 0 .. MaxSessions
    BY ConversationAssumption DEF IInv, TypeOK
  <2> QED
    BY <1>4, <2>1, <2>2, <2>3 DEF IInv, TypeOK
<1>11. StoreInv'
  <2>1. IsFiniteSet(messages')
    <3>3. IsFiniteSet(messages)
      BY DEF IInv, StoreInv
    <3> QED
      BY <1>8, <1>9, <3>3, UnionFinite
  <2>2. ASSUME NEW s \in Sessions, Live(s)' PROVE s <= created'
    BY <1>2, <1>5, <2>2 DEF IInv, StoreInv, Sessions
  <2>3. ASSUME NEW m \in messages' PROVE m.by <= requests'
    BY <1>1, <1>8, <1>9 DEF IInv, StoreInv
  <2>4. ASSUME NEW r \in Requests, saved'[r] # NoSession
        PROVE  r <= requests' /\ saved'[r] <= created'
    <3>1. saved[r] # NoSession => r <= requests /\ saved[r] <= created
      BY DEF IInv, StoreInv
    <3>2. saved[r] \in Nat
      BY DEF IInv, TypeOK, Sessions, NoSession
    <3> QED
      BY <1>1, <1>2, <1>4, <2>4, <3>1, <3>2
  <2> QED
    BY <2>1, <2>2, <2>3, <2>4 DEF StoreInv
<1>12. ASSUME NEW l \in Slots PROVE JobInv(job[l])'
  <2>1. CASE l = k
    <3>1. job'[l] = Idle
      BY <1>4, <2>1
    <3> QED
      BY <3>1, IdleType DEF JobInv, OwnJob, FoundJob, PlacedJob, StoredJob, FoundPhases, PlacedPhases
  <2>2. CASE l # k
    <3>1. job'[l] = job[l] /\ JobInv(job[l])
      BY <1>4, <2>2 DEF IInv
    <3>2. OwnJob(job[l])'
      BY <3>1 DEF JobInv, OwnJob
    <3>3. job[l].phase \in FoundPhases =>
            /\ job[l].session \in 1 .. created' /\ job[l].session \in Sessions
            /\ job[l].session # n
      BY <1>2, <3>1, ConversationAssumption
         DEF JobInv, FoundJob, IInv, TypeOK, Sessions
    <3>4. FoundJob(job[l])'
      BY <1>5, <3>1, <3>3 DEF JobInv, FoundJob
    <3>5. job[l].phase \in PlacedPhases => job[l].phase \in FoundPhases /\ job[l].phase # "idle"
      BY DEF PlacedPhases, FoundPhases
    <3>6. \A s, p : Follows(s, p) => Follows(s, p)'
      BY <1>9 DEF Follows
    <3>7. job[l].phase \in PlacedPhases => (Live(job[l].session)' <=> Live(job[l].session))
      BY <1>5, <3>1, <3>3, <3>5
    <3>8. PlacedJob(job[l])'
      BY <3>1, <3>6, <3>7 DEF JobInv, PlacedJob
    <3>9. job[l].phase # "idle" => job[l].by # j.by
      BY <2>2 DEF IInv, OneSlotEach
    <3>10. StoredJob(job[l])'
      <4>1. ASSUME NEW m \in messages', m.by = job[l].by, job[l].phase # "idle"
            PROVE  m \in messages
        BY <1>8, <1>9, <3>9, <4>1
      <4> QED
        BY <1>9, <3>1, <3>5, <3>7, <4>1 DEF JobInv, StoredJob
    <3> QED
      BY <3>2, <3>4, <3>8, <3>10 DEF JobInv
  <2> QED
    BY <2>1, <2>2
<1>13. OneSlotEach'
  BY <1>4, IdleType DEF IInv, OneSlotEach
<1>14. NothingDangles'
  <2>1. ASSUME NEW m \in messages' PROVE Live(m.session)'
    BY <1>2, <1>5, <1>6, <1>8, <1>9
  <2>2. ASSUME NEW s \in Sessions, Live(s)'
        PROVE  {SubjectOf[session'[s].chart], PartnerOf[session'[s].chart]}
                 \subseteq persons' \cup {NoPerson}
    BY <1>3, <1>5, <2>2 DEF IInv, NothingDangles
  <2> QED
    BY <2>1, <2>2 DEF NothingDangles
<1>15. OnlyOwnerWrites'
  <2>1. ASSUME NEW m \in messages' PROVE asker[m.by] = session'[m.session].owner
    BY <1>1, <1>2, <1>3, <1>6, <1>8, <1>9 DEF IInv, OnlyOwnerWrites
  <2>2. ASSUME NEW r \in Requests, saved'[r] # NoSession, Live(saved[r])'
        PROVE  session'[saved'[r]].owner = asker[r]
    <3>1. CASE r = j.by
      BY <1>1, <1>2, <1>3, <1>4, <3>1
    <3>2. CASE r # j.by
      <4>1. saved'[r] = saved[r] /\ saved[r] \in Sessions
        BY <1>4, <2>2, <3>2 DEF IInv, TypeOK
      <4>2. saved[r] # n
        BY <1>2, <2>2, <4>1 DEF IInv, StoreInv
      <4> QED
        BY <1>5, <2>2, <4>1, <4>2 DEF IInv, OnlyOwnerWrites
    <3> QED
      BY <3>1, <3>2
  <2> QED
    BY <2>1, <2>2 DEF OnlyOwnerWrites
<1>16. RoundsInOrder'
  <2>1. ASSUME NEW m \in messages', m.nr = 0, NEW r \in {"user", "query"},
               m.role = "assistant" \/ (m.role = "query" /\ r = "user")
        PROVE  Message(m.session, m.pos, r, m.by, m.asked, 0) \in messages'
    BY <1>8, <1>9, <2>1 DEF IInv, RoundsInOrder
  <2>2. ASSUME NEW m \in messages', NEW o \in messages', o.by = m.by
        PROVE  o.session = m.session /\ (m.nr = 0 => o.nr = 0 /\ o.pos = m.pos)
    BY <1>7, <1>8, <1>9, <2>2 DEF IInv, RoundsInOrder
  <2> QED
    BY <2>1, <2>2 DEF RoundsInOrder
<1>17. NoGaps'
  BY <1>8, <1>9 DEF IInv, NoGaps, Of
<1> QED
  BY <1>10, <1>11, <1>12, <1>13, <1>14, <1>15, <1>16, <1>17 DEF IInv

\* A new request: nothing has been stored for it yet.
LEMMA TakeEffect ==
  ASSUME IInv, NEW k \in Slots, NEW u \in Users, NEW j \in JobType,
         j.phase \in {"find", "owner", "victim"}, j.user = u, j.by = requests + 1,
         Take(k, u, j)
  PROVE  IInv'
<1>1. /\ requests' = requests + 1 /\ requests \in Nat /\ requests' \in Requests
      /\ asker' = [asker EXCEPT ![requests'] = u]
      /\ job' = [job EXCEPT ![k] = j]
  BY ConversationAssumption DEF Take, IInv, TypeOK, Requests
<1>2. /\ persons' = persons /\ session' = session /\ created' = created
      /\ messages' = messages /\ saved' = saved /\ said' = said
  BY DEF Take, store
<1>3. \A l \in Slots : job'[l] = IF l = k THEN j ELSE job[l]
  BY <1>1 DEF IInv, TypeOK
<1>4. \A r \in Requests : asker'[r] = IF r = requests' THEN u ELSE asker[r]
  BY <1>1 DEF IInv, TypeOK
<1>5. \A m \in messages : m.by \in Requests /\ m.by # requests' /\ asker'[m.by] = asker[m.by]
  <2>1. \A m \in messages : m.by \in Requests /\ m.by <= requests
    BY DEF IInv, TypeOK, StoreInv, MessageType
  <2> QED
    BY <1>1, <1>4, <2>1 DEF Requests
<1>6. TypeOK'
  <2>1. overlapped' \in BOOLEAN
    BY DEF Take, IInv, TypeOK
  <2>2. requests' \in 0 .. MaxRequests
    BY <1>1 DEF Requests
  <2>3. job' \in [Slots -> JobType]
    BY <1>1 DEF IInv, TypeOK
  <2>4. asker' \in [Requests -> Users \cup {NoUser}]
    BY <1>1 DEF IInv, TypeOK
  <2> QED
    BY <1>2, <2>1, <2>2, <2>3, <2>4 DEF IInv, TypeOK
<1>7. StoreInv'
  <2>1. \A m \in messages : m.by <= requests'
    BY <1>1 DEF IInv, StoreInv, TypeOK, MessageType, Requests
  <2>2. \A r \in Requests : saved[r] # NoSession => r <= requests' /\ saved[r] <= created
    BY <1>1 DEF IInv, StoreInv, Requests
  <2> QED
    BY <1>2, <2>1, <2>2 DEF IInv, StoreInv, Live
<1>8. ASSUME NEW l \in Slots PROVE JobInv(job[l])'
  <2>1. CASE l = k
    <3>1. job'[l] = j
      BY <1>3, <2>1
    <3>2. OwnJob(j)'
      BY <1>1, <1>4 DEF OwnJob
    <3>3. StoredJob(j)'
      BY <1>1, <1>2, <1>5 DEF StoredJob, PlacedPhases
    <3> QED
      BY <3>1, <3>2, <3>3 DEF JobInv, FoundJob, PlacedJob, FoundPhases, PlacedPhases
  <2>2. CASE l # k
    <3>1. job'[l] = job[l] /\ JobInv(job[l])
      BY <1>3, <2>2 DEF IInv
    <3>2. OwnJob(job[l])'
      <4>1. job[l].phase # "idle" => job[l].by \in 1 .. requests
        BY <3>1 DEF JobInv, OwnJob
      <4>2. job[l].phase # "idle" => asker'[job[l].by] = asker[job[l].by]
        BY <1>1, <1>4, <4>1 DEF Requests
      <4> QED
        BY <1>1, <3>1, <4>1, <4>2 DEF JobInv, OwnJob
    <3> QED
      BY <1>2, <3>1, <3>2 DEF JobInv, FoundJob, PlacedJob, StoredJob, Follows, Live
  <2> QED
    BY <2>1, <2>2
<1>9. OneSlotEach'
  <2>1. \A l \in Slots : job[l].phase # "idle" => job[l].by # requests'
    BY <1>1 DEF IInv, JobInv, OwnJob
  <2> QED
    BY <1>1, <1>3, <2>1 DEF IInv, OneSlotEach
<1>10. NothingDangles' /\ RoundsInOrder' /\ NoGaps'
  BY <1>2 DEF IInv, NothingDangles, RoundsInOrder, NoGaps, Live, Of
<1>11. OnlyOwnerWrites'
  <2>1. \A m \in messages : asker'[m.by] = session[m.session].owner
    BY <1>5 DEF IInv, OnlyOwnerWrites
  <2>2. ASSUME NEW r \in Requests, saved[r] # NoSession, Live(saved[r])
        PROVE  session[saved[r]].owner = asker'[r]
    <3>1. r # requests'
      BY <1>1, <2>2 DEF IInv, StoreInv
    <3> QED
      BY <1>4, <2>2, <3>1 DEF IInv, OnlyOwnerWrites
  <2> QED
    BY <1>2, <2>1, <2>2 DEF OnlyOwnerWrites, Live
<1> QED
  BY <1>6, <1>7, <1>8, <1>9, <1>10, <1>11 DEF IInv

-----------------------------------------------------------------------------
(* The steps.                                                               *)

\* A job that goes on to a phase whose conditions it meets already
LEMMA GotoEffect ==
  ASSUME IInv, NEW k \in Slots, NEW p \in Phases \ {"idle"}, Goto(k, p),
         job[k].phase \notin PlacedPhases \cup {"idle"},
         p \in FoundPhases => Found(job[k].user, job[k].session) \/ job[k].phase \in FoundPhases,
         p \notin PlacedPhases,
         UNCHANGED <<store, requests, asker, said, overlapped>>
  PROVE  IInv'
<1> PICK j : j = [job[k] EXCEPT !.phase = p]
  OBVIOUS
<1>1. job[k] \in JobType /\ JobInv(job[k])
  BY DEF IInv, TypeOK
<1>2. /\ j \in JobType /\ j.phase = p /\ j.user = job[k].user /\ j.by = job[k].by
      /\ j.session = job[k].session /\ j.asked = job[k].asked /\ j.pos = job[k].pos
  BY <1>1, MovedJob
<1>3. saved' = saved /\ JobStep(k, j)
  BY <1>2, GotoJob DEF IInv, JobStep
<1>4. SavedStep
  BY <1>3 DEF SavedStep, IInv, TypeOK
<1>5. OwnJob(j)
  BY <1>1, <1>2 DEF JobInv, OwnJob
<1>6. FoundJob(j)
  <2>1. CASE Found(job[k].user, job[k].session)
    <3>1. /\ job[k].session \in Sessions /\ job[k].user \in Users
          /\ session[job[k].session].owner = job[k].user
      BY <1>1, <2>1 DEF Found, JobType, NoSession, JobInv, OwnJob
    <3>2. Live(job[k].session) /\ job[k].session <= created
      BY <3>1, ConversationAssumption DEF Live, IInv, StoreInv
    <3>3. job[k].session \in 1 .. created
      BY <3>1, <3>2, ConversationAssumption DEF Sessions, IInv, TypeOK
    <3> QED
      BY <1>2, <3>1, <3>3 DEF FoundJob
  <2>2. CASE job[k].phase \in FoundPhases
    BY <1>1, <1>2, <2>2 DEF JobInv, FoundJob
  <2> QED
    BY <1>2, <2>1, <2>2 DEF FoundJob
<1>7. PlacedJob(j)
  BY <1>2 DEF PlacedJob
<1>8. StoredJob(j)
  BY <1>1, <1>2 DEF JobInv, StoredJob
<1> QED
  BY <1>3, <1>4, <1>5, <1>6, <1>7, <1>8, QuietEffect DEF JobInv

\* A job that ends without having changed the store
LEMMA EndEffect ==
  ASSUME IInv, NEW k \in Slots, End(k),
         UNCHANGED <<store, requests, asker, said, overlapped>>
  PROVE  IInv'
<1> PICK j : j = Idle
  OBVIOUS
<1>1. JobStep(k, j)
  BY IdleType DEF JobStep, End
<1>2. SavedStep
  BY DEF End, SavedStep, IInv, TypeOK
<1>3. JobInv(j)
  BY IdleType DEF JobInv, OwnJob, FoundJob, PlacedJob, StoredJob, FoundPhases, PlacedPhases
<1> QED
  BY <1>1, <1>2, <1>3, QuietEffect

\* From the stored prompt to the answer of the provider
LEMMA WaitEffect ==
  ASSUME IInv, NEW k \in Slots, NEW p \in {"stream", "answer"}, Goto(k, p),
         job[k].phase \in {"model", "stream"},
         UNCHANGED <<store, requests, asker, said, overlapped>>
  PROVE  IInv'
<1> PICK j : j = [job[k] EXCEPT !.phase = p]
  OBVIOUS
<1>1. job[k] \in JobType /\ JobInv(job[k]) /\ p \in Phases
  BY DEF IInv, TypeOK, Phases
<1>2. /\ j \in JobType /\ j.phase = p /\ j.user = job[k].user /\ j.by = job[k].by
      /\ j.session = job[k].session /\ j.asked = job[k].asked /\ j.pos = job[k].pos
  BY <1>1, MovedJob
<1>3. saved' = saved /\ JobStep(k, j)
  BY <1>1, <1>2, GotoJob DEF IInv, JobStep
<1>4. SavedStep
  BY <1>3 DEF SavedStep, IInv, TypeOK
<1>5. JobInv(j)
  BY <1>1, <1>2 DEF JobInv, OwnJob, FoundJob, PlacedJob, StoredJob, FoundPhases, PlacedPhases
<1> QED
  BY <1>3, <1>4, <1>5, QuietEffect

\* A request that stores its message and goes on, or is done
LEMMA AppendEffect ==
  ASSUME IInv, NEW k \in Slots, NEW role, NEW p \in {"prompt", "answer", "model"},
         Storable(k), Store(k, role), Goto(k, p),
         \/ job[k].phase = "question" /\ role = "user" /\ p = "prompt"
         \/ job[k].phase = "prompt" /\ role = "query" /\ p \in {"answer", "model"},
         UNCHANGED <<persons, session, created, requests, asker, said, overlapped>>
  PROVE  IInv'
<1> PICK j : j = [job[k] EXCEPT !.phase = p]
  OBVIOUS
<1>1. job[k] \in JobType /\ p \in Phases
  BY DEF IInv, TypeOK, Phases
<1>2. /\ j \in JobType /\ j.phase = p /\ j.user = job[k].user /\ j.by = job[k].by
      /\ j.session = job[k].session /\ j.asked = job[k].asked /\ j.pos = job[k].pos
  BY <1>1, MovedJob
<1>3. saved' = saved /\ JobStep(k, j)
  BY <1>1, <1>2, GotoJob DEF IInv, JobStep
<1>4. SavedStep
  BY <1>3 DEF SavedStep, IInv, TypeOK
<1>5. NextMessage(job[k], role, j)
  BY <1>2 DEF NextMessage
<1> QED
  BY <1>3, <1>4, <1>5, StoreEffect

\* The first step of a request
LEMMA StartStep ==
  ASSUME IInv, NEW k \in Slots, Start(k)
  PROVE  IInv'
<1>1. requests \in 0 .. MaxRequests /\ MaxRequests \in Nat
  BY ConversationAssumption DEF IInv, TypeOK
<1>2. ASSUME NEW u \in Users, NEW s \in Sessions, NEW q \in Questions, Ask(k, u, s, q)
      PROVE  IInv'
  <2> PICK j : j = [Idle EXCEPT !.phase = "find", !.kind = "followup", !.user = u,
                    !.by = requests + 1, !.session = s, !.asked = q]
    OBVIOUS
  <2>1. requests < MaxRequests /\ Take(k, u, j)
    BY <1>2 DEF Ask, Take
  <2>2. j \in JobType /\ j.phase = "find" /\ j.user = u /\ j.by = requests + 1
    <3> PICK i : i = Idle
      OBVIOUS
    <3> PICK b : b = requests + 1
      OBVIOUS
    <3>1. i \in JobType /\ b \in 0 .. MaxRequests
      BY <1>1, <2>1, IdleType
    <3>2. j = [i EXCEPT !.phase = "find", !.kind = "followup", !.user = u, !.by = b,
                         !.session = s, !.asked = q]
      OBVIOUS
    <3>3. j \in JobType /\ j.phase = "find" /\ j.user = u /\ j.by = b
      BY ZenonT(40), <3>1, <3>2 DEF JobType, Phases
    <3> QED
      BY <3>3
  <2> QED
    BY <2>1, <2>2, TakeEffect
<1>3. ASSUME NEW u \in Users, NEW s \in Sessions \cup {NoSession}, NEW c \in Charts,
             NEW q \in Questions, Save(k, u, s, c, q)
      PROVE  IInv'
  <2> PICK r : r = Round(q)
    OBVIOUS
  <2> PICK j : j = [Idle EXCEPT !.phase = "owner", !.kind = "save", !.user = u,
                    !.by = requests + 1, !.session = s, !.chart = c, !.asked = q,
                    !.list = r]
    OBVIOUS
  <2>1. requests < MaxRequests /\ Take(k, u, j)
    BY <1>3 DEF Save, Take
  <2>2. j \in JobType /\ j.phase = "owner" /\ j.user = u /\ j.by = requests + 1
    <3> PICK i : i = Idle
      OBVIOUS
    <3> PICK b : b = requests + 1
      OBVIOUS
    <3>1. i \in JobType /\ b \in 0 .. MaxRequests /\ r \in Lists
      BY <1>1, <2>1, IdleType DEF Lists
    <3>2. j = [i EXCEPT !.phase = "owner", !.kind = "save", !.user = u, !.by = b,
                         !.session = s, !.chart = c, !.asked = q, !.list = r]
      OBVIOUS
    <3>3. j \in JobType /\ j.phase = "owner" /\ j.user = u /\ j.by = b
      BY ZenonT(40), <3>1, <3>2 DEF JobType, Phases
    <3> QED
      BY <3>3
  <2> QED
    BY <2>1, <2>2, TakeEffect
<1>4. ASSUME NEW u \in Users, NEW s \in Sessions, Remove(k, u, s)
      PROVE  IInv'
  <2> PICK j : j = [Idle EXCEPT !.phase = "victim", !.kind = "delete", !.user = u,
                    !.by = requests + 1, !.session = s]
    OBVIOUS
  <2>1. requests < MaxRequests /\ Take(k, u, j)
    BY <1>4 DEF Remove, Take
  <2>2. j \in JobType /\ j.phase = "victim" /\ j.user = u /\ j.by = requests + 1
    <3> PICK i : i = Idle
      OBVIOUS
    <3> PICK b : b = requests + 1
      OBVIOUS
    <3>1. i \in JobType /\ b \in 0 .. MaxRequests
      BY <1>1, <2>1, IdleType
    <3>2. j = [i EXCEPT !.phase = "victim", !.kind = "delete", !.user = u, !.by = b,
                         !.session = s]
      OBVIOUS
    <3>3. j \in JobType /\ j.phase = "victim" /\ j.user = u /\ j.by = b
      BY <3>1, <3>2 DEF JobType, Phases
    <3> QED
      BY <3>3
  <2> QED
    BY <2>1, <2>2, TakeEffect
<1>5. ASSUME NEW u \in Users, NEW c \in Charts, NEW r \in Posts, Post(k, u, c, r)
      PROVE  IInv'
  <2> PICK j : j = [Idle EXCEPT !.phase = "owner", !.kind = "save", !.user = u,
                    !.by = requests + 1, !.chart = c, !.list = r]
    OBVIOUS
  <2>1. requests < MaxRequests /\ Take(k, u, j)
    BY <1>5 DEF Post, Take
  <2>2. j \in JobType /\ j.phase = "owner" /\ j.user = u /\ j.by = requests + 1
    <3> PICK i : i = Idle
      OBVIOUS
    <3> PICK b : b = requests + 1
      OBVIOUS
    <3>1. i \in JobType /\ b \in 0 .. MaxRequests /\ r \in Lists
      BY <1>1, <2>1, IdleType DEF Lists
    <3>2. j = [i EXCEPT !.phase = "owner", !.kind = "save", !.user = u, !.by = b,
                         !.chart = c, !.list = r]
      OBVIOUS
    <3>3. j \in JobType /\ j.phase = "owner" /\ j.user = u /\ j.by = b
      BY ZenonT(40), <3>1, <3>2 DEF JobType, Phases
    <3> QED
      BY <3>3
  <2> QED
    BY <2>1, <2>2, TakeEffect
<1> QED
  BY <1>2, <1>3, <1>4, <1>5 DEF Start

\* get_next_round_position establishes what PlacedJob asks.
LEMMA PositionStep ==
  ASSUME IInv, NEW k \in Slots, ReadPosition(k)
  PROVE  IInv'
<1> DEFINE i == job[k]
<1>1. i \in JobType /\ JobInv(i) /\ i.phase = "position"
  BY DEF IInv, TypeOK, ReadPosition, At
<1>2. NextPosition(i.session) \in Int /\ Follows(i.session, NextPosition(i.session))
  BY NextPositionFollows DEF IInv
<1> PICK n : n = NextPosition(i.session)
  OBVIOUS
<1> PICK j : j = [i EXCEPT !.pos = n, !.phase = "question"]
  OBVIOUS
<1>3. /\ j \in JobType /\ j.phase = "question" /\ j.user = i.user /\ j.by = i.by
      /\ j.session = i.session /\ j.asked = i.asked /\ j.pos = n
  BY <1>1, <1>2 DEF JobType, Phases
<1>4. saved' = saved /\ JobStep(k, j)
  BY <1>1, <1>3 DEF IInv, TypeOK, JobStep, ReadPosition
<1>5. SavedStep
  BY <1>4 DEF SavedStep, IInv, TypeOK
<1> HIDE DEF i
<1>6. OwnJob(j) /\ FoundJob(j)
  BY <1>1, <1>3 DEF JobInv, OwnJob, FoundJob, FoundPhases
<1>7. PlacedJob(j)
  BY <1>2, <1>3 DEF PlacedJob
<1>8. StoredJob(j)
  BY <1>1, <1>3 DEF JobInv, StoredJob, PlacedPhases
<1> QED
  BY <1>4, <1>5, <1>6, <1>7, <1>8, QuietEffect DEF JobInv, ReadPosition, history

\* A request that is told a session of its user was told no other's.
LEMMA SavedEntry ==
  ASSUME IInv, NEW s \in Sessions, NEW b \in 1 .. requests, s \in 1 .. created,
         session[s].owner = asker[b], saved' = [saved EXCEPT ![b] = s]
  PROVE  SavedStep
<1>1. saved \in [Requests -> Sessions \cup {NoSession}] /\ b \in Requests
  BY ConversationAssumption DEF IInv, TypeOK, Requests
<1>2. saved' \in [Requests -> Sessions \cup {NoSession}]
  BY <1>1
<1>3. \A r \in Requests : saved'[r] = IF r = b THEN s ELSE saved[r]
  BY <1>1
<1>4. b <= requests
  BY DEF IInv, TypeOK
<1> QED
  BY <1>2, <1>3, <1>4 DEF SavedStep

\* The question and the prompt
LEMMA StoringStep ==
  ASSUME IInv, NEW k \in Slots, AppendQuestion(k) \/ AppendPrompt(k)
  PROVE  IInv'
<1>1. CASE AppendQuestion(k)
  <2>1. CASE Storable(k)
    BY <1>1, <2>1, AppendEffect DEF AppendQuestion, At, history
  <2>2. CASE ~Storable(k)
    BY <1>1, <2>2, EndEffect DEF AppendQuestion, store, history
  <2> QED
    BY <2>1, <2>2
<1>2. CASE AppendPrompt(k)
  <2>1. CASE Storable(k)
    <3> PICK p : p = IF job[k].kind = "save" THEN "answer" ELSE "model"
      OBVIOUS
    <3>1. p \in {"answer", "model"} /\ Goto(k, p) /\ Store(k, "query") /\ job[k].phase = "prompt"
      BY <1>2, <2>1 DEF AppendPrompt, At
    <3>2. UNCHANGED <<persons, session, created, requests, asker, said, overlapped>>
      BY <1>2 DEF AppendPrompt, history
    <3> QED
      BY <2>1, <3>1, <3>2, AppendEffect
  <2>2. CASE ~Storable(k)
    BY <1>2, <2>2, EndEffect DEF AppendPrompt, store, history
  <2> QED
    BY <2>1, <2>2
<1> QED
  BY <1>1, <1>2

\* The answer, and what a save reports
LEMMA AnswerStep ==
  ASSUME IInv, NEW k \in Slots, AppendAnswer(k)
  PROVE  IInv'
<1>1. CASE ~Storable(k)
  BY <1>1, EndEffect DEF AppendAnswer, store, history
<1>2. CASE Storable(k)
  <2> PICK j : j = Idle
    OBVIOUS
  <2>1. /\ job[k].phase = "answer" /\ Store(k, "assistant") /\ job' = [job EXCEPT ![k] = j]
        /\ UNCHANGED <<persons, session, created, requests, asker, said, overlapped>>
        /\ saved' = saved \/ saved' = [saved EXCEPT ![job[k].by] = job[k].session]
    BY <1>2 DEF AppendAnswer, At, Saved, End, history
  <2>2. NextMessage(job[k], "assistant", j) /\ JobStep(k, j)
    BY <2>1, IdleType DEF NextMessage, JobStep
  <2>3. /\ job[k].by \in 1 .. requests /\ asker[job[k].by] = job[k].user
        /\ job[k].session \in 1 .. created /\ session[job[k].session].owner = job[k].user
    BY <1>2, <2>1 DEF IInv, JobInv, OwnJob, FoundJob, FoundPhases, Storable
  <2>4. job[k].session \in Sessions
    BY <2>3, ConversationAssumption DEF IInv, TypeOK, Sessions
  <2>5. saved \in [Requests -> Sessions \cup {NoSession}]
    BY DEF IInv, TypeOK
  <2>6. SavedStep
    <3>1. CASE saved' = saved
      BY <2>5, <3>1 DEF SavedStep
    <3>2. CASE saved' = [saved EXCEPT ![job[k].by] = job[k].session]
      BY <2>3, <2>4, <3>2, SavedEntry
    <3> QED
      BY <2>1, <3>1, <3>2
  <2> QED
    BY <1>2, <2>1, <2>2, <2>6, StoreEffect
<1> QED
  BY <1>1, <1>2

\* A duplicate that is reported as saved belongs to the user who asked.
LEMMA TwinStep ==
  ASSUME IInv, NEW k \in Slots, FindTwin(k)
  PROVE  IInv'
<1>1. job[k].phase = "twin" /\ UNCHANGED <<store, requests, asker, said, overlapped>>
  BY DEF FindTwin, At, history
<1>2. CASE Twins(job[k]) = {}
  <2>1. Goto(k, "insert")
    BY <1>2 DEF FindTwin
  <2> QED
    BY <1>1, <2>1, GotoEffect DEF Phases, FoundPhases, PlacedPhases
<1>3. CASE Twins(job[k]) # {}
  <2>1. PICK s \in Twins(job[k]) : Saved(k, s)
    BY <1>3 DEF FindTwin
  <2> PICK j : j = Idle
    OBVIOUS
  <2>2. /\ job' = [job EXCEPT ![k] = j]
        /\ saved' = [saved EXCEPT ![job[k].by] = s]
    BY <2>1 DEF Saved
  <2>3. JobStep(k, j)
    BY <2>2, IdleType DEF JobStep
  <2>4. /\ job[k].by \in 1 .. requests /\ asker[job[k].by] = job[k].user
        /\ job[k].user \in Users
    BY <1>1 DEF IInv, JobInv, OwnJob
  <2>5. s \in Sessions /\ session[s].owner = job[k].user
    BY DEF Twins
  <2>6. s \in 1 .. created
    <3>1. Live(s)
      BY <2>4, <2>5, ConversationAssumption DEF Live
    <3> QED
      BY <2>5, <3>1, ConversationAssumption DEF IInv, StoreInv, TypeOK, Sessions
  <2>7. SavedStep
    BY <2>2, <2>4, <2>5, <2>6, SavedEntry
  <2>8. JobInv(j)
    BY IdleType DEF JobInv, OwnJob, FoundJob, PlacedJob, StoredJob, FoundPhases, PlacedPhases
  <2> QED
    BY <1>1, <2>3, <2>7, <2>8, QuietEffect
<1> QED
  BY <1>2, <1>3

\* A new session, unless a person has been deleted meanwhile
LEMMA InsertStep ==
  ASSUME IInv, NEW k \in Slots, InsertSession(k)
  PROVE  IInv'
<1>1. job[k].phase = "insert"
  BY DEF InsertSession, At
<1>2. CASE /\ {SubjectOf[job[k].chart], PartnerOf[job[k].chart]} \subseteq persons \cup {NoPerson}
           /\ \A i \in 1 .. Len(job[k].list) : job[k].list[i].pos \in Positions
  <2> PICK j : j = job[k]
    OBVIOUS
  <2>1. /\ created < MaxSessions /\ created' = created + 1
        /\ session' = [session EXCEPT ![NewId] = [owner |-> j.user, chart |-> j.chart]]
        /\ messages' = messages \cup Opening(NewId, j.by, j.list)
        /\ Saved(k, NewId)
        /\ UNCHANGED <<persons, requests, asker, said, overlapped>>
    BY <1>2 DEF InsertSession, history
  <2> QED
    BY <1>1, <1>2, <2>1, InsertEffect
<1>3. CASE ~(/\ {SubjectOf[job[k].chart], PartnerOf[job[k].chart]} \subseteq persons \cup {NoPerson}
             /\ \A i \in 1 .. Len(job[k].list) : job[k].list[i].pos \in Positions)
  <2>1. End(k) /\ UNCHANGED <<store, requests, asker, said, overlapped>>
    BY <1>3 DEF InsertSession, store, history
  <2> QED
    BY <2>1, EndEffect
<1> QED
  BY <1>2, <1>3

\* A session deleted by its owner
LEMMA DeleteStep ==
  ASSUME IInv, NEW k \in Slots, DeleteSession(k)
  PROVE  IInv'
<1> PICK S : S = {job[k].session}
  OBVIOUS
<1>1. /\ job[k].phase = "delete" /\ Drop(S) /\ job' = [job EXCEPT ![k] = Idle]
      /\ UNCHANGED <<persons, created, requests, saved, asker, said, overlapped>>
  BY DEF DeleteSession, At, End, history
<1>2. S \subseteq Sessions
  <2>1. job[k].session \in 1 .. created
    BY <1>1 DEF IInv, JobInv, FoundJob, FoundPhases
  <2> QED
    BY <2>1, ConversationAssumption DEF IInv, TypeOK, Sessions
<1>3. job' \in [Slots -> JobType] /\ \A l \in Slots : job'[l] \in {job[l], Idle}
  <2> PICK j : j = Idle
    OBVIOUS
  <2>1. j \in JobType /\ job \in [Slots -> JobType] /\ job' = [job EXCEPT ![k] = j]
    BY <1>1, IdleType DEF IInv, TypeOK
  <2> QED
    BY <2>1
<1>4. \A s \in Sessions \ S : Live(s) =>
        {SubjectOf[session[s].chart], PartnerOf[session[s].chart]}
          \subseteq persons' \cup {NoPerson}
  BY <1>1 DEF IInv, NothingDangles
<1> QED
  BY <1>1, <1>2, <1>3, <1>4, DropEffect

\* A person deleted with every session about the person
LEMMA PersonStep ==
  ASSUME IInv, NEW p \in Persons, DeletePerson(p)
  PROVE  IInv'
<1> PICK S : S = Orphans(p)
  OBVIOUS
<1>1. /\ Drop(S) /\ persons' = persons \ {p}
      /\ UNCHANGED <<created, requests, job, saved, asker, said, overlapped>>
  BY DEF DeletePerson, history
<1>2. S \subseteq Sessions
  BY DEF Orphans
<1>3. job' \in [Slots -> JobType] /\ \A l \in Slots : job'[l] \in {job[l], Idle}
  BY <1>1 DEF IInv, TypeOK
<1>4. \A s \in Sessions \ S : Live(s) =>
        {SubjectOf[session[s].chart], PartnerOf[session[s].chart]}
          \subseteq persons' \cup {NoPerson}
  BY <1>1 DEF IInv, NothingDangles, Orphans
<1> QED
  BY <1>1, <1>2, <1>3, <1>4, DropEffect

\* The steps that only read the store
LEMMA ReadingStep ==
  ASSUME IInv, NEW k \in Slots,
         \/ \E admitted \in BOOLEAN : Admit(k, admitted)
         \/ ReadHistory(k) \/ LoadModel(k)
         \/ \E end \in StreamEnds : Stream(k, end)
         \/ CheckPerson(k) \/ Lookup(k) \/ FindVictim(k) \/ Fail(k)
  PROVE  IInv'
<1>1. CASE \E admitted \in BOOLEAN : Admit(k, admitted)
  <2>1. /\ job[k].phase = "find"
        /\ \/ Found(job[k].user, job[k].session) /\ Goto(k, "history")
           \/ End(k)
        /\ UNCHANGED <<store, requests, asker, said, overlapped>>
    BY <1>1 DEF Admit, At, history
  <2> QED
    BY <2>1, GotoEffect, EndEffect DEF Phases, PlacedPhases
<1>2. CASE ReadHistory(k)
  <2>1. /\ job[k].phase = "history" /\ Goto(k, "position")
        /\ UNCHANGED <<store, requests, asker, said, overlapped>>
    BY <1>2 DEF ReadHistory, At
  <2> QED
    BY <2>1, GotoEffect DEF Phases, PlacedPhases, FoundPhases
<1>3. CASE LoadModel(k)
  <2>1. /\ job[k].phase = "model" /\ (Goto(k, "stream") \/ End(k))
        /\ UNCHANGED <<store, requests, asker, said, overlapped>>
    BY <1>3 DEF LoadModel, At, history
  <2> QED
    BY <2>1, WaitEffect, EndEffect
<1>4. CASE \E end \in StreamEnds : Stream(k, end)
  <2>1. /\ job[k].phase = "stream" /\ (Goto(k, "answer") \/ End(k))
        /\ UNCHANGED <<store, requests, asker, said, overlapped>>
    BY <1>4 DEF Stream, At, history
  <2> QED
    BY <2>1, WaitEffect, EndEffect
<1>5. CASE CheckPerson(k)
  <2>1. /\ job[k].phase = "owner"
        /\ Goto(k, "lookup") \/ Goto(k, "twin") \/ End(k)
        /\ UNCHANGED <<store, requests, asker, said, overlapped>>
    BY <1>5 DEF CheckPerson, At, history
  <2> QED
    BY <2>1, GotoEffect, EndEffect DEF Phases, PlacedPhases, FoundPhases
<1>6. CASE Lookup(k)
  <2>1. /\ job[k].phase = "lookup"
        /\ \/ Found(job[k].user, job[k].session) /\ Goto(k, "position")
           \/ Goto(k, "twin")
        /\ UNCHANGED <<store, requests, asker, said, overlapped>>
    BY <1>6 DEF Lookup, At, history
  <2> QED
    BY <2>1, GotoEffect DEF Phases, PlacedPhases, FoundPhases
<1>7. CASE FindVictim(k)
  <2>1. /\ job[k].phase = "victim"
        /\ \/ Found(job[k].user, job[k].session) /\ Goto(k, "delete")
           \/ End(k)
        /\ UNCHANGED <<store, requests, asker, said, overlapped>>
    BY <1>7 DEF FindVictim, At, history
  <2> QED
    BY <2>1, GotoEffect, EndEffect DEF Phases, PlacedPhases
<1>8. CASE Fail(k)
  BY <1>8, EndEffect DEF Fail, history
<1> QED
  BY <1>1, <1>2, <1>3, <1>4, <1>5, <1>6, <1>7, <1>8

-----------------------------------------------------------------------------
(* The invariant is inductive.                                              *)

\* It holds at the start ...
LEMMA IInvInit == Init => IInv
<1> SUFFICES ASSUME Init PROVE IInv
  OBVIOUS
<1>1. /\ messages = {} /\ requests = 0 /\ created = 0 /\ persons = Persons
      /\ \A s \in Sessions : session[s] = Gone
      /\ \A k \in Slots : job[k] = Idle
      /\ \A r \in Requests : saved[r] = NoSession
  BY DEF Init
<1>2. Gone.owner = NoUser /\ Gone \in [owner : Users \cup {NoUser}, chart : Charts]
  BY ConversationAssumption DEF Gone
<1>3. TypeOK
  <2>1. job \in [Slots -> JobType]
    <3> PICK j : j = Idle
      OBVIOUS
    <3>1. j \in JobType /\ job = [k \in Slots |-> j]
      BY IdleType DEF Init
    <3> QED
      BY <3>1
  <2>2. session \in [Sessions -> [owner : Users \cup {NoUser}, chart : Charts]]
    <3> PICK g : g = Gone
      OBVIOUS
    <3>1. g \in [owner : Users \cup {NoUser}, chart : Charts] /\ session = [s \in Sessions |-> g]
      BY <1>2 DEF Init
    <3> QED
      BY <3>1
  <2>3. /\ saved \in [Requests -> Sessions \cup {NoSession}]
        /\ asker \in [Requests -> Users \cup {NoUser}]
        /\ said \in [Requests -> Answers]
    BY DEF Init
  <2>4. /\ persons \subseteq Persons /\ created \in 0 .. MaxSessions
        /\ messages \subseteq MessageType /\ requests \in 0 .. MaxRequests
    BY <1>1, ConversationAssumption
  <2>5. overlapped \in BOOLEAN
    BY DEF Init
  <2> QED
    BY <2>1, <2>2, <2>3, <2>4, <2>5 DEF TypeOK
<1>4. StoreInv
  BY <1>1, <1>2, FS_EmptySet DEF StoreInv, Live
<1>5. \A k \in Slots : JobInv(job[k])
  BY <1>1, IdleType DEF JobInv, OwnJob, FoundJob, PlacedJob, StoredJob, FoundPhases, PlacedPhases
<1>6. OneSlotEach
  BY <1>1, IdleType DEF OneSlotEach
<1>7. NothingDangles
  BY <1>1, <1>2 DEF NothingDangles, Live
<1>8. OnlyOwnerWrites /\ RoundsInOrder /\ NoGaps
  BY <1>1 DEF OnlyOwnerWrites, RoundsInOrder, NoGaps
<1> QED
  BY <1>3, <1>4, <1>5, <1>6, <1>7, <1>8 DEF IInv

\* ... and every step keeps it.
LEMMA IInvStep == IInv /\ [Next]_vars => IInv'
<1> SUFFICES ASSUME IInv, [Next]_vars PROVE IInv'
  OBVIOUS
<1>1. CASE \E k \in Slots : Start(k)
  BY <1>1, StartStep
<1>2. CASE \E k \in Slots : Step(k)
  BY <1>2, PositionStep, StoringStep, AnswerStep, TwinStep, InsertStep, DeleteStep, ReadingStep
     DEF Step
<1>3. CASE \E p \in Persons : DeletePerson(p)
  BY <1>3, PersonStep
<1>4. CASE UNCHANGED vars
  <2>1. /\ persons' = persons /\ session' = session /\ created' = created
        /\ messages' = messages /\ requests' = requests /\ asker' = asker
        /\ said' = said /\ overlapped' = overlapped /\ job' = job /\ saved' = saved
    BY <1>4 DEF vars, store, history
  <2>2. (TypeOK /\ StoreInv /\ OneSlotEach)'
    BY <2>1 DEF IInv, TypeOK, StoreInv, OneSlotEach, Live
  <2>3. ASSUME NEW l \in Slots PROVE JobInv(job[l])'
    BY <2>1 DEF IInv, JobInv, OwnJob, FoundJob, PlacedJob, StoredJob, Follows, Live
  <2>4. (NothingDangles /\ OnlyOwnerWrites /\ RoundsInOrder /\ NoGaps)'
    BY <2>1 DEF IInv, NothingDangles, OnlyOwnerWrites, RoundsInOrder, NoGaps, Live, Of
  <2> QED
    BY <2>2, <2>3, <2>4 DEF IInv
<1> QED
  BY <1>1, <1>2, <1>3, <1>4 DEF Next

\* Every variable of the store and of the requests in progress keeps its type
\* (TypeOK), whatever lists clients send to POST /interpretations: the roles
\* stay those build_message_history knows, the positions those of the column.
THEOREM ConversationTypes == Spec => []TypeOK
<1>1. IInv => TypeOK
  BY DEF IInv
<1> QED
  BY <1>1, IInvInit, IInvStep, PTL DEF Spec

\* No message outlives its session and no session a person it is about
\* (append_message, create_interpretation, delete_person), however many
\* requests are in progress when a session or a person is deleted.
THEOREM NothingEverDangles == Spec => []NothingDangles
<1>1. IInv => NothingDangles
  BY DEF IInv
<1> QED
  BY <1>1, IInvInit, IInvStep, PTL DEF Spec

\* A request writes only into sessions of the user who made it, although
\* append_message does not look at the owner again.
THEOREM OwnersOnly == Spec => []OnlyOwnerWrites
<1>1. IInv => OnlyOwnerWrites
  BY DEF IInv
<1> QED
  BY <1>1, IInvInit, IInvStep, PTL DEF Spec

\* An answer that is appended stands with its prompt and its question under
\* one position, wherever followup_message or save_or_append_stream_result is
\* interrupted, and no request writes to a second session.
THEOREM RoundsStayInOrder == Spec => []RoundsInOrder
<1>1. IInv => RoundsInOrder
  BY DEF IInv
<1> QED
  BY <1>1, IInvInit, IInvStep, PTL DEF Spec

\* get_next_round_position continues the numbering the session was opened
\* with, also between requests that compute the same position.
THEOREM NumberingHasNoGaps == Spec => []NoGaps
<1>1. IInv => NoGaps
  BY DEF IInv
<1> QED
  BY <1>1, IInvInit, IInvStep, PTL DEF Spec

-----------------------------------------------------------------------------
(* What a step does to the stored rounds.  The refinement and the serial    *)
(* use of the store need to know of a step only which of these it is.       *)

\* The request of slot k goes on, and the store stays as it is.
Moves(k) ==
  /\ \A l \in Slots \ {k} : job'[l] = job[l]
  /\ \/ job'[k].phase = "idle" /\ overlapped' = overlapped
     \/ /\ job[k].phase # "idle"
        /\ job'[k].phase \notin {"idle", "question", "prompt", "insert"}
        /\ job'[k].phase \in PlacedPhases => job[k].phase \in PlacedPhases
        /\ job'[k].by = job[k].by /\ job'[k].session = job[k].session
        /\ job'[k].pos = job[k].pos
        /\ overlapped' = overlapped
     \/ /\ job[k].phase = "position" /\ job'[k].phase = "question"
        /\ job'[k].by = job[k].by /\ job'[k].session = job[k].session
        /\ job'[k].pos = NextPosition(job[k].session)
        /\ overlapped' = overlapped
     \/ /\ job[k].phase = "twin" /\ job'[k].phase = "insert" /\ job'[k].by = job[k].by
        /\ job'[k].user = job[k].user /\ job'[k].chart = job[k].chart
        /\ job'[k].list = job[k].list
        /\ Twins(job[k]) = {}
        /\ overlapped' = overlapped
     \/ /\ job[k].phase = "idle" /\ job'[k].phase \in {"find", "owner", "victim"}
        /\ job'[k].by > requests
        /\ overlapped' = (overlapped \/ \E i \in Slots : job[i].phase # "idle")

QuietStep(k) == Moves(k) /\ UNCHANGED <<session, created, messages>>

\* It stores one message of its round.
WriteStep(k, role) ==
  /\ Live(job[k].session)
  /\ \/ job[k].phase = "question" /\ role = "user"
     \/ job[k].phase = "prompt" /\ role = "query"
     \/ job[k].phase = "answer" /\ role = "assistant"
  /\ messages' = messages \cup {Message(job[k].session, job[k].pos, role,
                                        job[k].by, job[k].asked, 0)}
  /\ \A l \in Slots \ {k} : job'[l] = job[l]
  /\ \/ job'[k].phase = "idle"
     \/ /\ \/ role = "user" /\ job'[k].phase = "prompt"
           \/ role = "query" /\ job'[k].phase \in {"answer", "model"}
        /\ job'[k].by = job[k].by /\ job'[k].session = job[k].session
        /\ job'[k].pos = job[k].pos
  /\ UNCHANGED <<session, created, overlapped>>

\* It opens a session.
OpenStep(k) ==
  /\ job[k].phase = "insert"
  /\ created < MaxSessions /\ created' = created + 1
  /\ session' = [session EXCEPT ![NewId] = [owner |-> job[k].user, chart |-> job[k].chart]]
  /\ \A i \in 1 .. Len(job[k].list) : job[k].list[i].pos \in Positions
  /\ messages' = messages \cup Opening(NewId, job[k].by, job[k].list)
  /\ \A l \in Slots \ {k} : job'[l] = job[l]
  /\ job'[k].phase = "idle"
  /\ overlapped' = overlapped

\* Sessions are dropped, by a request or with a person.
DropStep(S) ==
  /\ Drop(S)
  /\ \A l \in Slots : job'[l] = job[l] \/ job'[l].phase = "idle"
  /\ UNCHANGED <<created, overlapped>>

AnyStep ==
  \/ \E k \in Slots : \/ QuietStep(k) \/ OpenStep(k)
                       \/ \E role \in {"user", "query", "assistant"} : WriteStep(k, role)
  \/ \E S \in SUBSET Sessions : DropStep(S)

\* A job that goes on to another phase is otherwise the same ...
LEMMA GotoMoves ==
  ASSUME IInv, NEW k \in Slots, NEW p \in Phases, Goto(k, p)
  PROVE  /\ \A l \in Slots \ {k} : job'[l] = job[l]
         /\ job'[k].phase = p /\ job'[k].by = job[k].by /\ job'[k].user = job[k].user
         /\ job'[k].session = job[k].session /\ job'[k].chart = job[k].chart
         /\ job'[k].asked = job[k].asked /\ job'[k].pos = job[k].pos
         /\ job'[k].list = job[k].list
<1> PICK j : j = [job[k] EXCEPT !.phase = p]
  OBVIOUS
<1>1. job[k] \in JobType /\ job \in [Slots -> JobType]
  BY DEF IInv, TypeOK
<1>2. /\ j.phase = p /\ j.user = job[k].user /\ j.by = job[k].by
      /\ j.session = job[k].session /\ j.asked = job[k].asked /\ j.pos = job[k].pos
      /\ j.chart = job[k].chart /\ j.list = job[k].list
  BY <1>1, MovedJob
<1>3. job' = [job EXCEPT ![k] = j]
  BY GotoJob DEF IInv
<1>4. job'[k] = j /\ \A l \in Slots \ {k} : job'[l] = job[l]
  BY <1>1, <1>3
<1> QED
  BY <1>2, <1>4

\* ... and one that ends is idle.
LEMMA EndMoves ==
  ASSUME IInv, NEW k \in Slots, job' = [job EXCEPT ![k] = Idle]
  PROVE  /\ \A l \in Slots \ {k} : job'[l] = job[l]
         /\ job'[k].phase = "idle"
<1> PICK j : j = Idle
  OBVIOUS
<1>1. job \in [Slots -> JobType] /\ j.phase = "idle" /\ job' = [job EXCEPT ![k] = j]
  BY IdleType DEF IInv, TypeOK
<1> QED
  BY <1>1

\* The steps that leave the store alone
LEMMA QuietKinds ==
  ASSUME IInv, NEW k \in Slots,
         \/ Start(k)
         \/ \E admitted \in BOOLEAN : Admit(k, admitted)
         \/ ReadHistory(k) \/ ReadPosition(k) \/ LoadModel(k)
         \/ \E end \in StreamEnds : Stream(k, end)
         \/ CheckPerson(k) \/ Lookup(k) \/ FindTwin(k) \/ FindVictim(k) \/ Fail(k)
  PROVE  QuietStep(k)
<1>1. CASE Start(k)
  <2>1. PICK u \in Users : \E j : /\ Take(k, u, j) /\ j.by = requests + 1
                                 /\ j.phase \in {"find", "owner", "victim"}
    <3> PICK i : i = Idle
      OBVIOUS
    <3> PICK b : b = requests + 1
      OBVIOUS
    <3>0. i \in JobType
      BY IdleType
    <3>1. ASSUME NEW u \in Users, NEW s \in Sessions, NEW q \in Questions, Ask(k, u, s, q)
          PROVE  \E j : /\ Take(k, u, j) /\ j.by = b
                        /\ j.phase \in {"find", "owner", "victim"}
      <4> PICK j : j = [i EXCEPT !.phase = "find", !.kind = "followup", !.user = u, !.by = b,
                                 !.session = s, !.asked = q]
        OBVIOUS
      <4>1. Take(k, u, j)
        BY <3>1 DEF Ask
      <4>2. j.by = b /\ j.phase = "find"
        BY <3>0 DEF JobType
      <4> QED
        BY <4>1, <4>2
    <3>2. ASSUME NEW u \in Users, NEW s \in Sessions \cup {NoSession}, NEW c \in Charts,
                 NEW q \in Questions, Save(k, u, s, c, q)
          PROVE  \E j : /\ Take(k, u, j) /\ j.by = b
                        /\ j.phase \in {"find", "owner", "victim"}
      <4> PICK r : r = Round(q)
        OBVIOUS
      <4> PICK j : j = [i EXCEPT !.phase = "owner", !.kind = "save", !.user = u, !.by = b,
                                 !.session = s, !.chart = c, !.asked = q, !.list = r]
        OBVIOUS
      <4>1. Take(k, u, j)
        BY <3>2 DEF Save
      <4>2. j.by = b /\ j.phase = "owner"
        BY <3>0 DEF JobType
      <4> QED
        BY <4>1, <4>2
    <3>3. ASSUME NEW u \in Users, NEW s \in Sessions, Remove(k, u, s)
          PROVE  \E j : /\ Take(k, u, j) /\ j.by = b
                        /\ j.phase \in {"find", "owner", "victim"}
      <4> PICK j : j = [i EXCEPT !.phase = "victim", !.kind = "delete", !.user = u, !.by = b,
                                 !.session = s]
        OBVIOUS
      <4>1. Take(k, u, j)
        BY <3>3 DEF Remove
      <4>2. j.by = b /\ j.phase = "victim"
        BY <3>0 DEF JobType
      <4> QED
        BY <4>1, <4>2
    <3>4. ASSUME NEW u \in Users, NEW c \in Charts, NEW r \in Posts, Post(k, u, c, r)
          PROVE  \E j : /\ Take(k, u, j) /\ j.by = b
                        /\ j.phase \in {"find", "owner", "victim"}
      <4> PICK j : j = [i EXCEPT !.phase = "owner", !.kind = "save", !.user = u, !.by = b,
                                 !.chart = c, !.list = r]
        OBVIOUS
      <4>1. Take(k, u, j)
        BY <3>4 DEF Post
      <4>2. j.by = b /\ j.phase = "owner"
        BY <3>0 DEF JobType
      <4> QED
        BY <4>1, <4>2
    <3> QED
      BY <1>1, <3>1, <3>2, <3>3, <3>4 DEF Start
  <2> PICK j : /\ Take(k, u, j) /\ j.by = requests + 1
               /\ j.phase \in {"find", "owner", "victim"}
    BY <2>1
  <2>2. /\ job[k].phase = "idle" /\ job' = [job EXCEPT ![k] = j]
        /\ overlapped' = (overlapped \/ \E i \in Slots : job[i].phase # "idle")
        /\ UNCHANGED <<session, created, messages>>
    BY DEF Take, store
  <2>3. job \in [Slots -> JobType] /\ requests \in Nat
    BY DEF IInv, TypeOK
  <2>4. job'[k] = j /\ \A l \in Slots \ {k} : job'[l] = job[l]
    BY <2>2, <2>3
  <2>5. j.by > requests
    BY <2>3
  <2> QED
    BY <2>2, <2>4, <2>5 DEF QuietStep, Moves
<1>2. ASSUME End(k), UNCHANGED <<store, history>> PROVE QuietStep(k)
  BY <1>2, EndMoves DEF End, QuietStep, Moves, store, history
<1>3. ASSUME NEW p \in {"history", "position", "stream", "answer", "lookup", "twin", "delete"},
             Goto(k, p), job[k].phase # "idle",
             p \in PlacedPhases => job[k].phase \in PlacedPhases,
             UNCHANGED <<store, overlapped>>
      PROVE  QuietStep(k)
  <2>1. p \in Phases /\ p \notin {"idle", "question", "prompt", "insert"}
    BY DEF Phases
  <2> QED
    BY <1>3, <2>1, GotoMoves DEF QuietStep, Moves, store
<1>4. CASE \E admitted \in BOOLEAN : Admit(k, admitted)
  BY <1>2, <1>3, <1>4 DEF Admit, At, history, PlacedPhases
<1>5. CASE ReadHistory(k)
  BY <1>3, <1>5 DEF ReadHistory, At, PlacedPhases
<1>6. CASE ReadPosition(k)
  <2> PICK n : n = NextPosition(job[k].session)
    OBVIOUS
  <2> PICK j : j = [job[k] EXCEPT !.pos = n, !.phase = "question"]
    OBVIOUS
  <2>1. job' = [job EXCEPT ![k] = j] /\ job[k].phase = "position"
    BY <1>6 DEF ReadPosition, At
  <2>2. job \in [Slots -> JobType] /\ job[k] \in JobType
    BY DEF IInv, TypeOK
  <2>3. j.phase = "question" /\ j.by = job[k].by /\ j.session = job[k].session /\ j.pos = n
    BY <2>2 DEF JobType
  <2>4. job'[k] = j /\ \A l \in Slots \ {k} : job'[l] = job[l]
    BY <2>1, <2>2
  <2> QED
    BY <1>6, <2>1, <2>3, <2>4 DEF ReadPosition, QuietStep, Moves, store, history
<1>7. CASE LoadModel(k)
  BY <1>2, <1>3, <1>7 DEF LoadModel, At, history, PlacedPhases
<1>8. CASE \E end \in StreamEnds : Stream(k, end)
  BY <1>2, <1>3, <1>8 DEF Stream, At, history, PlacedPhases
<1>9. CASE CheckPerson(k)
  BY <1>2, <1>3, <1>9 DEF CheckPerson, At, history, PlacedPhases
<1>10. CASE Lookup(k)
  BY <1>3, <1>10 DEF Lookup, At, history, PlacedPhases
<1>11. CASE FindTwin(k)
  <2>1. CASE Twins(job[k]) = {}
    <3>1. Goto(k, "insert") /\ job[k].phase = "twin" /\ UNCHANGED <<store, history>>
      BY <1>11, <2>1 DEF FindTwin, At
    <3>2. "insert" \in Phases
      BY DEF Phases
    <3> QED
      BY <2>1, <3>1, <3>2, GotoMoves DEF QuietStep, Moves, store, history
  <2>2. CASE Twins(job[k]) # {}
    BY <1>11, <2>2, EndMoves DEF FindTwin, Saved, QuietStep, Moves, store, history
  <2> QED
    BY <2>1, <2>2
<1>12. CASE FindVictim(k)
  BY <1>2, <1>3, <1>12 DEF FindVictim, At, history, PlacedPhases
<1>13. CASE Fail(k)
  BY <1>2, <1>13 DEF Fail, history
<1> QED
  BY <1>1, <1>4, <1>5, <1>6, <1>7, <1>8, <1>9, <1>10, <1>11, <1>12, <1>13

\* The steps that store a message, or end because the session is gone
LEMMA WriteKinds ==
  ASSUME IInv, NEW k \in Slots, AppendQuestion(k) \/ AppendPrompt(k) \/ AppendAnswer(k)
  PROVE  QuietStep(k) \/ \E role \in {"user", "query", "assistant"} : WriteStep(k, role)
<1>1. ASSUME job' = [job EXCEPT ![k] = Idle], UNCHANGED <<messages, session, created, overlapped>>
      PROVE  QuietStep(k)
  BY <1>1, EndMoves DEF QuietStep, Moves
<1>2. CASE AppendQuestion(k)
  <2>1. CASE Storable(k)
    <3>1. /\ job[k].phase = "question" /\ Store(k, "user") /\ Goto(k, "prompt")
          /\ UNCHANGED <<session, created, overlapped>>
      BY <1>2, <2>1 DEF AppendQuestion, At, history
    <3>2. "prompt" \in Phases
      BY DEF Phases
    <3> QED
      BY <2>1, <3>1, <3>2, GotoMoves DEF WriteStep, Store, Storable
  <2>2. CASE ~Storable(k)
    BY <1>1, <1>2, <2>2 DEF AppendQuestion, End, history
  <2> QED
    BY <2>1, <2>2
<1>3. CASE AppendPrompt(k)
  <2>1. CASE Storable(k)
    <3> PICK p : p = IF job[k].kind = "save" THEN "answer" ELSE "model"
      OBVIOUS
    <3>1. /\ job[k].phase = "prompt" /\ Store(k, "query") /\ Goto(k, p)
          /\ UNCHANGED <<session, created, overlapped>>
      BY <1>3, <2>1 DEF AppendPrompt, At, history
    <3>2. p \in {"answer", "model"} /\ p \in Phases
      BY DEF Phases
    <3> QED
      BY <2>1, <3>1, <3>2, GotoMoves DEF WriteStep, Store, Storable
  <2>2. CASE ~Storable(k)
    BY <1>1, <1>3, <2>2 DEF AppendPrompt, End, history
  <2> QED
    BY <2>1, <2>2
<1>4. CASE AppendAnswer(k)
  <2>1. CASE Storable(k)
    <3>1. /\ job[k].phase = "answer" /\ Store(k, "assistant")
          /\ job' = [job EXCEPT ![k] = Idle]
          /\ UNCHANGED <<session, created, overlapped>>
      BY <1>4, <2>1 DEF AppendAnswer, At, Saved, End, history
    <3> QED
      BY <2>1, <3>1, EndMoves DEF WriteStep, Store, Storable
  <2>2. CASE ~Storable(k)
    BY <1>1, <1>4, <2>2 DEF AppendAnswer, End, history
  <2> QED
    BY <2>1, <2>2
<1> QED
  BY <1>2, <1>3, <1>4

\* Every step is of one of the kinds.
LEMMA StepKinds ==
  ASSUME IInv, Next
  PROVE  AnyStep
<1>1. ASSUME NEW k \in Slots, InsertSession(k) PROVE AnyStep
  <2> PICK j : j = job[k]
    OBVIOUS
  <2> DEFINE fits == /\ {SubjectOf[j.chart], PartnerOf[j.chart]} \subseteq persons \cup {NoPerson}
                     /\ \A i \in 1 .. Len(j.list) : j.list[i].pos \in Positions
  <2>1. CASE fits
    <3>1. /\ created < MaxSessions /\ created' = created + 1
          /\ session' = [session EXCEPT ![NewId] = [owner |-> j.user, chart |-> j.chart]]
          /\ messages' = messages \cup Opening(NewId, j.by, j.list)
          /\ \A i \in 1 .. Len(j.list) : j.list[i].pos \in Positions
          /\ job' = [job EXCEPT ![k] = Idle] /\ job[k].phase = "insert"
          /\ overlapped' = overlapped
      BY <1>1, <2>1 DEF InsertSession, Saved, At, history
    <3> QED
      BY <3>1, EndMoves DEF OpenStep, AnyStep
  <2>2. CASE ~fits
    <3>1. /\ job' = [job EXCEPT ![k] = Idle]
          /\ UNCHANGED <<session, created, messages, overlapped>>
      BY <1>1, <2>2 DEF InsertSession, End, history
    <3> QED
      BY <3>1, EndMoves DEF QuietStep, Moves, AnyStep
  <2> QED
    BY <2>1, <2>2
<1>2. ASSUME NEW k \in Slots, DeleteSession(k) PROVE AnyStep
  <2>1. /\ job[k].phase = "delete" /\ Drop({job[k].session}) /\ job' = [job EXCEPT ![k] = Idle]
        /\ UNCHANGED <<created, overlapped>>
    BY <1>2 DEF DeleteSession, At, End, history
  <2>2. job[k].session \in Sessions
    <3>1. job[k].session \in 1 .. created
      BY <2>1 DEF IInv, JobInv, FoundJob, FoundPhases
    <3> QED
      BY <3>1, ConversationAssumption DEF IInv, TypeOK, Sessions
  <2>3. \A l \in Slots : job'[l] = job[l] \/ job'[l].phase = "idle"
    BY <2>1, EndMoves
  <2> QED
    BY <2>1, <2>2, <2>3 DEF DropStep, AnyStep
<1>3. ASSUME NEW p \in Persons, DeletePerson(p) PROVE AnyStep
  <2>1. Orphans(p) \in SUBSET Sessions
    BY DEF Orphans
  <2> QED
    BY <1>3, <2>1 DEF DeletePerson, DropStep, AnyStep, history
<1>4. ASSUME NEW k \in Slots, QuietStep(k) PROVE AnyStep
  BY <1>4 DEF AnyStep
<1>5. ASSUME NEW k \in Slots, \E role \in {"user", "query", "assistant"} : WriteStep(k, role)
      PROVE  AnyStep
  BY <1>5 DEF AnyStep
<1>6. ASSUME NEW k \in Slots, Start(k) \/ Step(k) PROVE AnyStep
  <2>1. CASE InsertSession(k) \/ DeleteSession(k)
    BY <1>1, <1>2, <2>1
  <2>2. CASE AppendQuestion(k) \/ AppendPrompt(k) \/ AppendAnswer(k)
    BY <1>4, <1>5, <2>2, WriteKinds
  <2>3. CASE ~(InsertSession(k) \/ DeleteSession(k)) /\ ~(AppendQuestion(k) \/ AppendPrompt(k) \/ AppendAnswer(k))
    <3>1. QuietStep(k)
      BY <1>6, <2>3, QuietKinds DEF Step
    <3> QED
      BY <1>4, <3>1
  <2> QED
    BY <2>1, <2>2, <2>3
<1> QED
  BY <1>3, <1>6 DEF Next

-----------------------------------------------------------------------------
(* The rounds of the requests.  What a request has still to store of its    *)
(* round is not there yet: a row of its own would be a second answer to one *)
(* question.                                                                *)

\* All the rows that a request appends are of one question ...
AskedOnce == \A m, n \in messages : n.by = m.by /\ m.nr = 0 => n.asked = m.asked

\* ... and a request in progress has its prompt or its answer still to store.
Awaits(j) ==
  j.phase # "idle" =>
    \A m \in messages : m.by = j.by =>
      m.role # "assistant" /\ (j.phase = "prompt" => m.role = "user")

RoundInv ==
  /\ AskedOnce
  /\ \A k \in Slots : Awaits(job[k])

\* A step that leaves the store as it is
LEMMA QuietRounds ==
  ASSUME IInv, RoundInv, NEW k \in Slots, QuietStep(k)
  PROVE  RoundInv'
<1>1. /\ session' = session /\ messages' = messages /\ created' = created
      /\ \A l \in Slots \ {k} : job'[l] = job[l]
  BY DEF QuietStep, Moves
<1>2. AskedOnce'
  BY <1>1 DEF RoundInv, AskedOnce
<1>3. ASSUME NEW l \in Slots, l # k PROVE Awaits(job[l])'
  BY <1>1, <1>3 DEF RoundInv, Awaits
<1>4. Awaits(job[k])'
  <2>1. CASE job'[k].by > requests
    <3>1. \A m \in messages : m.by # job'[k].by
      <4>1. requests \in Nat /\ \A m \in messages : m.by \in Nat /\ m.by <= requests
        BY DEF IInv, StoreInv, TypeOK, MessageType, Requests
      <4> QED
        BY <2>1, <4>1
    <3> QED
      BY <1>1, <3>1 DEF Awaits
  <2>2. CASE job'[k].phase = "idle"
    BY <2>2 DEF Awaits
  <2>3. CASE job[k].phase # "idle" /\ job'[k].phase # "prompt" /\ job'[k].by = job[k].by
    BY <1>1, <2>3 DEF RoundInv, Awaits
  <2> QED
    BY <2>1, <2>2, <2>3 DEF QuietStep, Moves
<1> QED
  BY <1>2, <1>3, <1>4 DEF RoundInv

\* A message more of a round
LEMMA WriteRounds ==
  ASSUME IInv, RoundInv, NEW k \in Slots, NEW role \in {"user", "query", "assistant"},
         WriteStep(k, role)
  PROVE  RoundInv'
<1> PICK i : i = job[k]
  OBVIOUS
<1> PICK w : w = Message(i.session, i.pos, role, i.by, i.asked, 0)
  OBVIOUS
<1>1. /\ w.session = i.session /\ w.pos = i.pos /\ w.role = role
      /\ w.by = i.by /\ w.asked = i.asked /\ w.nr = 0
  BY DEF Message
<1>2. /\ session' = session /\ messages' = messages \cup {w} /\ created' = created
      /\ \A l \in Slots \ {k} : job'[l] = job[l]
      /\ i.phase \in PlacedPhases /\ i.phase # "idle"
  BY DEF WriteStep, PlacedPhases
<1>3. \A m \in messages : m.by = i.by => m.asked = i.asked
  BY <1>2 DEF IInv, JobInv, StoredJob
<1>4. AskedOnce'
  BY <1>1, <1>2, <1>3 DEF RoundInv, AskedOnce
<1>6. ASSUME NEW l \in Slots, l # k PROVE Awaits(job[l])'
  <2>1. job[l].phase # "idle" => job[l].by # i.by
    BY <1>2, <1>6 DEF IInv, OneSlotEach
  <2> QED
    BY <1>1, <1>2, <1>6, <2>1 DEF RoundInv, Awaits
<1>7. Awaits(job[k])'
  <2>1. CASE job'[k].phase = "idle"
    BY <2>1 DEF Awaits
  <2>2. CASE role = "user" /\ job'[k].phase = "prompt" /\ job'[k].by = i.by
    <3>1. i.phase = "question"
      BY <2>2 DEF WriteStep
    <3>2. \A m \in messages : m.by # i.by
      BY <1>2, <3>1 DEF IInv, JobInv, StoredJob
    <3> QED
      BY <1>1, <1>2, <2>2, <3>2 DEF Awaits
  <2>3. CASE role = "query" /\ job'[k].phase \in {"answer", "model"} /\ job'[k].by = i.by
    <3>1. \A m \in messages : m.by = i.by => m.role # "assistant"
      BY <1>2 DEF RoundInv, Awaits
    <3> QED
      BY <1>1, <1>2, <2>3, <3>1 DEF Awaits
  <2> QED
    BY <2>1, <2>2, <2>3 DEF WriteStep
<1> QED
  BY <1>4, <1>6, <1>7 DEF RoundInv

\* What InsertSession adds: rows of a request that had none, in a session
\* that had none.
LEMMA OpenFacts ==
  ASSUME IInv, NEW k \in Slots, OpenStep(k)
  PROVE  /\ NewId \in Sessions /\ NewId = created + 1 /\ ~Live(NewId) /\ created \in Nat
         /\ \A s \in Sessions : /\ Live(s)' <=> Live(s) \/ s = NewId
                                /\ s # NewId => session'[s] = session[s]
         /\ session'[NewId] = [owner |-> job[k].user, chart |-> job[k].chart]
         /\ job[k].by \in Requests /\ job[k].user \in Users
         /\ \A m \in messages : m.by # job[k].by /\ m.session # NewId
         /\ \A m \in Opening(NewId, job[k].by, job[k].list) :
              m \in MessageType /\ m.session = NewId /\ m.by = job[k].by /\ m.nr # 0
<1>1. created \in 0 .. MaxSessions /\ MaxSessions \in Nat
  BY ConversationAssumption DEF IInv, TypeOK
<1>2. NewId \in Sessions /\ NewId = created + 1 /\ ~Live(NewId) /\ created \in Nat /\ NewId \in Nat \ {0}
  BY <1>1 DEF OpenStep, NewId, Sessions, IInv, StoreInv
<1>3. job[k].by \in 1 .. requests /\ job[k].user \in Users /\ job[k].phase = "insert"
  BY DEF OpenStep, IInv, JobInv, OwnJob
<1>4. job[k].by \in Requests /\ job[k].list \in Seq(MessageCreate)
  <2>1. job[k] \in JobType /\ requests \in 0 .. MaxRequests /\ MaxRequests \in Nat
    BY ConversationAssumption DEF IInv, TypeOK
  <2> QED
    BY <1>3, <2>1, ListsType DEF Requests, JobType
<1>5. /\ session'[NewId] = [owner |-> job[k].user, chart |-> job[k].chart]
      /\ \A s \in Sessions : s # NewId => session'[s] = session[s]
  BY <1>2 DEF OpenStep, IInv, TypeOK
<1>6. job[k].user # NoUser
  BY <1>3, ConversationAssumption
<1>7. \A s \in Sessions : Live(s)' <=> Live(s) \/ s = NewId
  BY <1>2, <1>5, <1>6 DEF Live
<1>8. \A m \in messages : m.by # job[k].by
  BY <1>3 DEF IInv, JobInv, StoredJob, PlacedPhases
<1>9. \A m \in messages : m.session # NewId
  BY <1>2 DEF IInv, NothingDangles
<1>10. \A m \in Opening(NewId, job[k].by, job[k].list) :
         m \in MessageType /\ m.session = NewId /\ m.by = job[k].by /\ m.nr # 0
  <2>1. \A i \in 1 .. Len(job[k].list) : job[k].list[i].pos \in Positions
    BY DEF OpenStep
  <2> QED
    BY <1>2, <1>4, <2>1, OpeningRows
<1> QED
  BY <1>2, <1>3, <1>4, <1>5, <1>7, <1>8, <1>9, <1>10

\* A new session
LEMMA OpenRounds ==
  ASSUME IInv, RoundInv, NEW k \in Slots, OpenStep(k)
  PROVE  RoundInv'
<1> PICK n : n = NewId
  OBVIOUS
<1> PICK i : i = job[k]
  OBVIOUS
<1> PICK O : O = Opening(n, i.by, i.list)
  OBVIOUS
<1>1. /\ n \in Sessions /\ ~Live(n)
      /\ \A m \in messages : m.by # i.by
      /\ \A m \in O : m.session = n /\ m.by = i.by /\ m.nr # 0
  BY OpenFacts
<1>2. /\ messages' = messages \cup O
      /\ \A l \in Slots \ {k} : job'[l] = job[l]
      /\ i.phase = "insert" /\ job'[k].phase = "idle"
  BY DEF OpenStep
<1>3. AskedOnce'
  BY <1>1, <1>2 DEF RoundInv, AskedOnce
<1>4. ASSUME NEW l \in Slots, l # k PROVE Awaits(job[l])'
  <2>1. job[l].phase # "idle" => job[l].by # i.by
    BY <1>2, <1>4 DEF IInv, OneSlotEach
  <2>2. ASSUME NEW m \in messages', m.by = job[l].by, job[l].phase # "idle"
        PROVE  m \in messages
    BY <1>1, <1>2, <2>1, <2>2
  <2>3. job'[l] = job[l] /\ Awaits(job[l])
    BY <1>2, <1>4 DEF RoundInv
  <2> QED
    BY <2>2, <2>3 DEF Awaits
<1>5. Awaits(job[k])'
  BY <1>2 DEF Awaits
<1> QED
  BY <1>3, <1>4, <1>5 DEF RoundInv

\* What Drop leaves: the messages and the rows of all other sessions.
LEMMA DropFacts ==
  ASSUME IInv, NEW S \in SUBSET Sessions, DropStep(S)
  PROVE  /\ messages' = {m \in messages : m.session \notin S}
         /\ \A s \in Sessions : Live(s)' <=> Live(s) /\ s \notin S
         /\ \A s \in Sessions \ S : session'[s] = session[s]
<1>1. /\ messages' = {m \in messages : m.session \notin S}
      /\ \A s \in Sessions : session'[s] = IF s \in S THEN Gone ELSE session[s]
      /\ Gone.owner = NoUser
  BY DEF DropStep, Drop, Gone
<1> QED
  BY <1>1 DEF Live

\* Sessions dropped with their messages
LEMMA DropRounds ==
  ASSUME IInv, RoundInv, NEW S \in SUBSET Sessions, DropStep(S)
  PROVE  RoundInv'
<1>1. /\ messages' = {m \in messages : m.session \notin S}
      /\ \A s \in Sessions : Live(s)' <=> Live(s) /\ s \notin S
  BY DropFacts
<1>2. \A l \in Slots : job'[l] = job[l] \/ job'[l].phase = "idle"
  BY DEF DropStep
<1>3. AskedOnce'
  BY <1>1 DEF RoundInv, AskedOnce
<1>5. ASSUME NEW l \in Slots PROVE Awaits(job[l])'
  <2>1. CASE job'[l].phase = "idle"
    BY <2>1 DEF Awaits
  <2>2. CASE job'[l] = job[l]
    BY <1>1, <2>2 DEF RoundInv, Awaits
  <2> QED
    BY <1>2, <2>1, <2>2
<1> QED
  BY <1>3, <1>5 DEF RoundInv

\* It holds at the start ...
LEMMA RoundInit == Init => RoundInv
<1> SUFFICES ASSUME Init PROVE RoundInv
  OBVIOUS
<1>1. messages = {} /\ \A k \in Slots : job[k] = Idle
  BY DEF Init
<1>2. AskedOnce
  BY <1>1 DEF AskedOnce
<1>3. \A k \in Slots : Awaits(job[k])
  BY <1>1, IdleType DEF Awaits
<1> QED
  BY <1>2, <1>3 DEF RoundInv

\* ... and every step keeps it.
LEMMA RoundStep == IInv /\ RoundInv /\ [Next]_vars => RoundInv'
<1> SUFFICES ASSUME IInv, RoundInv, [Next]_vars PROVE RoundInv'
  OBVIOUS
<1>1. CASE Next
  <2>1. AnyStep
    BY <1>1, StepKinds
  <2> QED
    BY <2>1, QuietRounds, WriteRounds, OpenRounds, DropRounds DEF AnyStep
<1>2. CASE UNCHANGED vars
  <2>1. session' = session /\ messages' = messages /\ job' = job
    BY <1>2 DEF vars, store
  <2> QED
    BY <2>1 DEF RoundInv, AskedOnce, Awaits
<1> QED
  BY <1>1, <1>2

-----------------------------------------------------------------------------
(* The stored rows keep the promise of a Dialogue.                          *)

\* RoundOf for the rows M, so that it can be used of the rows before a step
\* and of those after it
RoundIn(M, m) ==
  [by |-> m.by, pos |-> m.pos,
   stage |-> IF [m EXCEPT !.role = "assistant"] \in M THEN 3
             ELSE IF [m EXCEPT !.role = "query"] \in M THEN 2 ELSE 1]

\* What RoundsInOrder and AskedOnce say of the rows that one request appends
OneRoundEach(M) ==
  /\ M \subseteq MessageType
  /\ \A m, n \in M : n.by = m.by /\ m.nr = 0 =>
       n.session = m.session /\ n.pos = m.pos /\ n.asked = m.asked /\ n.nr = 0

LEMMA RowsOfOneRound ==
  ASSUME IInv, RoundInv
  PROVE  OneRoundEach(messages)
BY DEF IInv, RoundInv, TypeOK, RoundsInOrder, AskedOnce, OneRoundEach

LEMMA RowsOfOneRoundAfter ==
  ASSUME IInv', RoundInv'
  PROVE  OneRoundEach(messages')
BY DEF IInv, RoundInv, TypeOK, RoundsInOrder, AskedOnce, OneRoundEach

\* The messages of a request belong to one round.
LEMMA SameRound ==
  ASSUME NEW M, OneRoundEach(M), NEW m \in M, NEW n \in M, m.by = n.by, m.nr = 0
  PROVE  RoundIn(M, m) = RoundIn(M, n)
<1>1. m.session = n.session /\ m.pos = n.pos /\ m.asked = n.asked /\ m.nr = n.nr
  BY DEF OneRoundEach
<1>2. m \in MessageType /\ n \in MessageType
  BY DEF OneRoundEach
<1>3. /\ [m EXCEPT !.role = "assistant"] = [n EXCEPT !.role = "assistant"]
      /\ [m EXCEPT !.role = "query"] = [n EXCEPT !.role = "query"]
  BY <1>1, <1>2 DEF MessageType
<1> QED
  BY <1>1, <1>3 DEF RoundIn

\* The stage of a round is what its request has stored.
LEMMA StageOf ==
  ASSUME NEW M, OneRoundEach(M), NEW m \in M, m.nr = 0
  PROVE  /\ RoundIn(M, m).by = m.by /\ RoundIn(M, m).pos = m.pos
         /\ RoundIn(M, m).stage =
              IF \E n \in M : n.by = m.by /\ n.role = "assistant" THEN 3
              ELSE IF \E n \in M : n.by = m.by /\ n.role = "query" THEN 2 ELSE 1
<1>1. ASSUME NEW role \in {"assistant", "query"}
      PROVE  [m EXCEPT !.role = role] \in M
               <=> \E n \in M : n.by = m.by /\ n.role = role
  <2>1. m \in MessageType
    BY DEF OneRoundEach
  <2>2. ASSUME [m EXCEPT !.role = role] \in M
        PROVE  \E n \in M : n.by = m.by /\ n.role = role
    <3> PICK n : n = [m EXCEPT !.role = role]
      OBVIOUS
    <3>1. n.by = m.by /\ n.role = role
      BY <2>1 DEF MessageType
    <3> QED
      BY <2>2, <3>1
  <2>3. ASSUME NEW n \in M, n.by = m.by, n.role = role
        PROVE  [m EXCEPT !.role = role] \in M
    <3>1. n.session = m.session /\ n.pos = m.pos /\ n.asked = m.asked /\ n.nr = m.nr
      BY <2>3 DEF OneRoundEach
    <3>2. n \in MessageType
      BY DEF OneRoundEach
    <3>3. n = [m EXCEPT !.role = role]
      BY <2>1, <2>3, <3>1, <3>2 DEF MessageType
    <3> QED
      BY <3>3
  <2> QED
    BY <2>2, <2>3
<1>2. /\ RoundIn(M, m).by = m.by /\ RoundIn(M, m).pos = m.pos
      /\ RoundIn(M, m).stage = IF [m EXCEPT !.role = "assistant"] \in M THEN 3
                               ELSE IF [m EXCEPT !.role = "query"] \in M THEN 2 ELSE 1
  BY DEF RoundIn
<1> QED
  BY <1>1, <1>2

\* The rounds before a step and after it
LEMMA RoundsOf ==
  /\ Rounds = [t \in Sessions |-> {RoundIn(messages, m) : m \in Appended(t)}]
  /\ Rounds' = [t \in Sessions |-> {RoundIn(messages', m) : m \in Appended(t)'}]
BY DEF Rounds, RoundOf, RoundIn

\* What the sessions were opened with, before a step and after it
LEMMA OpeningsOf ==
  /\ Openings = [t \in Sessions |-> {SentOf(m) : m \in Opened(t)}]
  /\ Openings' = [t \in Sessions |-> {SentOf(m) : m \in Opened(t)'}]
BY DEF Openings, SentOf

\* A request with no row has not contributed.
LEMMA NotContributed ==
  ASSUME NEW r, \A m \in messages : m.by # r
  PROVE  ~Promise!Contributed(r)
<1>1. ASSUME NEW t \in Sessions, NEW x \in Openings[t] PROVE x.by # r
  <2>1. PICK m \in Opened(t) : x = SentOf(m)
    BY OpeningsOf
  <2> QED
    BY <2>1 DEF Opened, Of, SentOf
<1>2. ASSUME NEW t \in Sessions, NEW x \in Rounds[t] PROVE x.by # r
  <2>1. PICK m \in Appended(t) : x = RoundIn(messages, m)
    BY RoundsOf
  <2> QED
    BY <2>1 DEF Appended, Of, RoundIn
<1> QED
  BY <1>1, <1>2 DEF Promise!Contributed

\* Nothing is stored or dropped: neither the lives of the sessions nor their
\* rounds change.
LEMMA QuietMaps ==
  ASSUME UNCHANGED <<session, created, messages>>
  PROVE  UNCHANGED Promise!vars
<1>1. Life' = Life
  BY DEF Life, Live
<1>2. Rounds' = Rounds
  BY DEF Rounds, RoundOf, Appended, Of
<1>3. Openings' = Openings
  BY DEF Openings, SentOf, Opened, Of
<1> QED
  BY <1>1, <1>2, <1>3 DEF Promise!vars

\* The question of a round begins it; the prompt and the answer advance it.
LEMMA WriteMaps ==
  ASSUME IInv, RoundInv, IInv', RoundInv', NEW k \in Slots,
         NEW role \in {"user", "query", "assistant"}, WriteStep(k, role)
  PROVE  Promise!Next
<1> PICK i : i = job[k]
  OBVIOUS
<1> PICK w : w = Message(i.session, i.pos, role, i.by, i.asked, 0)
  OBVIOUS
<1> PICK s : s = i.session
  OBVIOUS
<1>1. /\ w.session = s /\ w.pos = i.pos /\ w.role = role /\ w.by = i.by /\ w.asked = i.asked
      /\ w.nr = 0
  BY DEF Message
<1>2. /\ session' = session /\ messages' = messages \cup {w} /\ created' = created
      /\ i.phase \in PlacedPhases /\ i.phase # "idle" /\ Live(s)
  BY DEF WriteStep, PlacedPhases
<1>3. JobInv(i) /\ s \in Sessions /\ i.by \in Requests
  <2>1. JobInv(i)
    BY DEF IInv
  <2>2. i.by \in 1 .. requests /\ s \in 1 .. created
    BY <1>2, <2>1 DEF JobInv, OwnJob, FoundJob, FoundPhases, PlacedPhases
  <2>3. /\ requests \in 0 .. MaxRequests /\ created \in 0 .. MaxSessions
        /\ MaxRequests \in Nat /\ MaxSessions \in Nat
    BY ConversationAssumption DEF IInv, TypeOK
  <2> QED
    BY <2>1, <2>2, <2>3 DEF Requests, Sessions
<1>4. OneRoundEach(messages) /\ OneRoundEach(messages')
  BY RowsOfOneRound, RowsOfOneRoundAfter
<1>5. Life' = Life /\ Life[s] = "open"
  BY <1>2, <1>3 DEF Life, Live
<1>6. \A m \in messages : m.by = i.by => m.session = s
  BY <1>2, <1>3 DEF JobInv, StoredJob
<1>7. ASSUME NEW m \in messages, m.by # i.by
      PROVE  RoundIn(messages', m) = RoundIn(messages, m)
  <2>1. m \in MessageType
    BY <1>4 DEF OneRoundEach
  <2>2. ASSUME NEW x \in {"assistant", "query"} PROVE [m EXCEPT !.role = x] # w
    BY <1>1, <1>7, <2>1 DEF MessageType
  <2> QED
    BY <1>2, <2>2 DEF RoundIn
<1> PICK new : new = RoundIn(messages', w)
  OBVIOUS
<1>8. ASSUME NEW m \in messages', m.by = i.by PROVE RoundIn(messages', m) = new
  <2>1. w \in messages' /\ w.by = m.by /\ w.nr = 0
    BY <1>1, <1>2, <1>8
  <2> QED
    BY <1>4, <1>8, <2>1, SameRound
<1>9. /\ new.by = i.by /\ new.pos = i.pos
      /\ new.stage = IF \E n \in messages' : n.by = i.by /\ n.role = "assistant" THEN 3
                     ELSE IF \E n \in messages' : n.by = i.by /\ n.role = "query"
                     THEN 2 ELSE 1
  <2>1. w \in messages'
    BY <1>2
  <2> QED
    BY <1>1, <1>4, <2>1, StageOf
<1>10. /\ Rounds = [t \in Sessions |-> {RoundIn(messages, m) : m \in Appended(t)}]
       /\ Rounds' = [t \in Sessions |-> {RoundIn(messages', m) : m \in Appended(t)'}]
  BY RoundsOf
<1>15. Openings' = Openings
  <2>1. \A t : Opened(t)' = Opened(t)
    BY <1>1, <1>2 DEF Opened, Of
  <2> QED
    BY <2>1, OpeningsOf
<1>11. ASSUME NEW t \in Sessions, t # s PROVE Rounds'[t] = Rounds[t]
  <2>1. Appended(t)' = Appended(t)
    BY <1>1, <1>2, <1>11 DEF Appended, Of
  <2>2. \A m \in Appended(t) : RoundIn(messages', m) = RoundIn(messages, m)
    BY <1>6, <1>7, <1>11 DEF Appended, Of
  <2> QED
    BY <1>10, <2>1, <2>2
<1>12. Rounds'[s] = {RoundIn(messages, m) : m \in {n \in Appended(s) : n.by # i.by}} \cup {new}
  <2>1. Appended(s)' = Appended(s) \cup {w}
    BY <1>1, <1>2 DEF Appended, Of
  <2>2. ASSUME NEW m \in Appended(s), m.by # i.by PROVE RoundIn(messages', m) = RoundIn(messages, m)
    BY <1>7, <2>2 DEF Appended, Of
  <2>3. ASSUME NEW m \in Appended(s)', m.by = i.by PROVE RoundIn(messages', m) = new
    BY <1>8, <2>3 DEF Appended, Of
  <2>4. w \in Appended(s)'
    BY <2>1
  <2> QED
    BY <1>1, <1>3, <1>10, <2>1, <2>2, <2>3, <2>4
<1>13. CASE role = "user"
  <2>1. i.phase = "question"
    BY <1>13 DEF WriteStep
  <2>2. \A m \in messages : m.by # i.by
    BY <1>3, <2>1 DEF JobInv, StoredJob
  <2>3. new = [by |-> i.by, pos |-> i.pos, stage |-> 1]
    <3>1. new.stage = 1
      BY <1>1, <1>2, <1>9, <1>13, <2>2
    <3>2. new \in [by : {i.by}, pos : {i.pos}, stage : {1}]
      BY <1>1, <1>9, <3>1 DEF RoundIn
    <3> QED
      BY <3>2
  <2>4. Rounds'[s] = Rounds[s] \cup {new}
    <3>1. {n \in Appended(s) : n.by # i.by} = Appended(s)
      BY <2>2 DEF Appended, Of
    <3> QED
      BY <1>3, <1>10, <1>12, <3>1
  <2>5. Rounds' = [Rounds EXCEPT ![s] = @ \cup {new}]
    BY <1>10, <1>11, <2>4
  <2>6. ~Promise!Contributed(i.by)
    BY <2>2, NotContributed
  <2>7. i.pos \in Promise!Continuing(s)
    <3>1. i.pos \in Int /\ Follows(s, i.pos)
      BY <1>2, <1>3 DEF JobInv, PlacedJob, IInv, TypeOK, JobType
    <3>2. CASE i.pos = 1
      BY <3>2 DEF Promise!Continuing
    <3>3. CASE \E n \in messages : n.session = s /\ n.pos = i.pos - 1
      <4>1. PICK n \in messages : n.session = s /\ n.pos = i.pos - 1
        BY <3>3
      <4>2. \E x \in Openings[s] \cup Rounds[s] : x.pos = i.pos - 1
        <5>1. CASE n.nr = 0
          <6>1. RoundIn(messages, n) \in Rounds[s] /\ RoundIn(messages, n).pos = i.pos - 1
            BY <1>3, <1>10, <4>1, <5>1 DEF Appended, Of, RoundIn
          <6> QED
            BY <6>1
        <5>2. CASE n.nr # 0
          <6>1. SentOf(n) \in Openings[s] /\ SentOf(n).pos = i.pos - 1
            BY <1>3, <4>1, <5>2, OpeningsOf DEF Opened, Of, SentOf
          <6> QED
            BY <6>1
        <5> QED
          BY <5>1, <5>2
      <4>3. PICK x \in Openings[s] \cup Rounds[s] : x.pos = i.pos - 1
        BY <4>2
      <4>4. x.pos + 1 = i.pos
        BY <3>1, <4>3
      <4> QED
        BY <4>4 DEF Promise!Continuing
    <3> QED
      BY <3>1, <3>2, <3>3 DEF Follows
  <2>8. Promise!Begin(s, i.by, i.pos)
    BY <1>5, <1>15, <2>3, <2>5, <2>6 DEF Promise!Begin
  <2> QED
    BY <1>3, <2>7, <2>8 DEF Promise!Next
<1>14. CASE role # "user"
  <2>1. \/ i.phase = "prompt" /\ role = "query"
        \/ i.phase = "answer" /\ role = "assistant"
    BY <1>14 DEF WriteStep
  <2> PICK u : u = Message(s, i.pos, "user", i.by, i.asked, 0)
    OBVIOUS
  <2>2. u \in messages /\ u.session = s /\ u.pos = i.pos /\ u.by = i.by /\ u.nr = 0
    BY <1>2, <1>3, <2>1 DEF JobInv, StoredJob, Message, PlacedPhases
  <2> PICK old : old = RoundIn(messages, u)
    OBVIOUS
  <2>3. /\ old.by = i.by /\ old.pos = i.pos
        /\ old.stage = IF \E n \in messages : n.by = i.by /\ n.role = "assistant" THEN 3
                       ELSE IF \E n \in messages : n.by = i.by /\ n.role = "query"
                       THEN 2 ELSE 1
    BY <1>4, <2>2, StageOf
  <2>4. \A m \in messages : m.by = i.by =>
          m.role # "assistant" /\ (i.phase = "prompt" => m.role = "user")
    BY <1>2 DEF RoundInv, Awaits
  <2>5. old.stage < 3 /\ new.stage = old.stage + 1
    <3>1. CASE role = "query"
      <4>1. old.stage = 1
        BY <2>1, <2>3, <2>4, <3>1
      <4>2. new.stage = 2
        BY <1>1, <1>2, <1>9, <2>4, <3>1
      <4> QED
        BY <4>1, <4>2
    <3>2. CASE role = "assistant"
      <4>1. \E n \in messages : n.by = i.by /\ n.role = "query"
        <5>1. /\ Message(s, i.pos, "query", i.by, i.asked, 0) \in messages
              /\ Message(s, i.pos, "query", i.by, i.asked, 0).by = i.by
              /\ Message(s, i.pos, "query", i.by, i.asked, 0).role = "query"
          BY <1>2, <1>3, <2>1, <3>2 DEF JobInv, StoredJob, Message, PlacedPhases
        <5> QED
          BY <5>1
      <4>2. old.stage = 2
        BY <2>3, <2>4, <4>1
      <4>3. new.stage = 3
        BY <1>1, <1>2, <1>9, <3>2
      <4> QED
        BY <4>2, <4>3
    <3> QED
      BY <2>1, <3>1, <3>2
  <2>6. old = [by |-> i.by, pos |-> i.pos, stage |-> old.stage]
    BY <2>2, <2>3 DEF RoundIn
  <2>7. new = [by |-> i.by, pos |-> i.pos, stage |-> new.stage]
    BY <1>1, <1>9 DEF RoundIn
  <2>8. new = [old EXCEPT !.stage = old.stage + 1]
    BY <2>5, <2>6, <2>7
  <2>9. ASSUME NEW m \in Appended(s) PROVE RoundIn(messages, m) = old <=> m.by = i.by
    <3>1. ASSUME m.by = i.by PROVE RoundIn(messages, m) = old
      BY <1>4, <2>2, <3>1, SameRound DEF Appended, Of
    <3>2. ASSUME RoundIn(messages, m) = old PROVE m.by = i.by
      <4>1. RoundIn(messages, m).by = m.by
        BY DEF RoundIn
      <4> QED
        BY <2>3, <3>2, <4>1
    <3> QED
      BY <3>1, <3>2
  <2>10. {RoundIn(messages, m) : m \in {n \in Appended(s) : n.by # i.by}} = Rounds[s] \ {old}
    BY <1>3, <1>10, <2>9
  <2>11. Rounds' = [Rounds EXCEPT ![s] = (@ \ {old}) \cup {[old EXCEPT !.stage = old.stage + 1]}]
    <3>1. Rounds'[s] = (Rounds[s] \ {old}) \cup {new}
      BY <1>12, <2>10
    <3>2. Rounds' = [Rounds EXCEPT ![s] = (@ \ {old}) \cup {new}]
      BY <1>10, <1>11, <3>1
    <3> QED
      BY <2>8, <3>2
  <2>12. old \in Rounds[s]
    <3>1. u \in Appended(s)
      BY <2>2 DEF Appended, Of
    <3> QED
      BY <1>3, <1>10, <3>1
  <2>13. Promise!Advance(s, old)
    BY <1>5, <1>15, <2>5, <2>11 DEF Promise!Advance
  <2> QED
    BY <1>3, <2>12, <2>13 DEF Promise!Next
<1> QED
  BY <1>13, <1>14

\* A new session is opened with the whole of its list.
LEMMA OpenMaps ==
  ASSUME IInv, RoundInv, NEW k \in Slots, OpenStep(k)
  PROVE  Promise!Next
<1> PICK n : n = NewId
  OBVIOUS
<1> PICK i : i = job[k]
  OBVIOUS
<1> PICK O : O = Opening(n, i.by, i.list)
  OBVIOUS
<1>1. /\ n \in Sessions /\ n = created + 1 /\ ~Live(n) /\ created \in Nat
      /\ \A s \in Sessions : Live(s)' <=> Live(s) \/ s = n
      /\ i.by \in Requests
      /\ \A m \in messages : m.by # i.by /\ m.session # n
      /\ \A m \in O : m \in MessageType /\ m.session = n /\ m.by = i.by /\ m.nr # 0
  BY OpenFacts
<1>2. messages' = messages \cup O /\ created' = created + 1
  BY DEF OpenStep
<1>3. Life[n] = "new" /\ Life' = [Life EXCEPT ![n] = "open"]
  <2>1. Life[n] = "new"
    BY <1>1 DEF Life
  <2>2. ASSUME NEW s \in Sessions, s # n PROVE Life'[s] = Life[s]
    <3>1. s <= created' <=> s <= created
      BY <1>1, <1>2, <2>2 DEF Sessions
    <3> QED
      BY <1>1, <2>2, <3>1 DEF Life
  <2>3. Life'[n] = "open"
    BY <1>1 DEF Life
  <2>4. /\ Life = [s \in Sessions |-> Life[s]]
        /\ Life' = [s \in Sessions |-> Life'[s]]
    BY DEF Life
  <2> HIDE DEF Life
  <2> QED
    BY <2>1, <2>2, <2>3, <2>4
<1>4. /\ Rounds = [s \in Sessions |-> {RoundIn(messages, m) : m \in Appended(s)}]
      /\ Rounds' = [s \in Sessions |-> {RoundIn(messages', m) : m \in Appended(s)'}]
  BY RoundsOf
<1>5. ASSUME NEW s \in Sessions PROVE Rounds'[s] = Rounds[s]
  <2>1. Appended(s)' = Appended(s)
    BY <1>1, <1>2 DEF Appended, Of
  <2>2. ASSUME NEW m \in Appended(s) PROVE RoundIn(messages', m) = RoundIn(messages, m)
    <3>1. m \in MessageType /\ m.session = s /\ m \in messages
      BY DEF Appended, Of, IInv, TypeOK
    <3>2. ASSUME NEW x \in {"assistant", "query"} PROVE [m EXCEPT !.role = x] \notin O
      <4> PICK y : y = [m EXCEPT !.role = x]
        OBVIOUS
      <4>1. y.session = s
        BY <3>1 DEF MessageType
      <4> QED
        BY <1>1, <3>1, <4>1
    <3> QED
      BY <1>2, <3>2 DEF RoundIn
  <2> QED
    BY <1>4, <2>1, <2>2
<1>6. Rounds' = Rounds
  BY <1>4, <1>5
<1>7. Openings' = [Openings EXCEPT ![n] = Promise!Sent(i.by, i.list)]
  <2>1. ASSUME NEW s \in Sessions, s # n PROVE Openings'[s] = Openings[s]
    <3>1. Opened(s)' = Opened(s)
      BY <1>1, <1>2, <2>1 DEF Opened, Of
    <3> QED
      BY <3>1, OpeningsOf
  <2>2. Openings'[n] = {SentOf(m) : m \in O}
    <3>1. Opened(n)' = O
      BY <1>1, <1>2 DEF Opened, Of
    <3> QED
      BY <1>1, <3>1, OpeningsOf
  <2>3. {SentOf(m) : m \in O} = Promise!Sent(i.by, i.list)
    <3> DEFINE D == 1 .. Len(i.list)
               row(x) == Message(n, i.list[x].pos, i.list[x].role, i.by, i.list[x].asked, x)
               sent(x) == [by |-> i.by, nr |-> x, pos |-> i.list[x].pos,
                           role |-> i.list[x].role, asked |-> i.list[x].asked]
    <3>1. O = {row(x) : x \in D} /\ Promise!Sent(i.by, i.list) = {sent(x) : x \in D}
      BY DEF Opening, Promise!Sent
    <3>2. ASSUME NEW x \in D PROVE SentOf(row(x)) = sent(x)
      BY DEF SentOf, Message
    <3> HIDE DEF row, sent, D
    <3> QED
      BY <3>1, <3>2
  <2> QED
    BY <1>1, <2>1, <2>2, <2>3, OpeningsOf
<1>8. ~Promise!Contributed(i.by)
  BY <1>1, NotContributed
<1>9. Promise!Open(n, i.by, i.list)
  BY <1>3, <1>6, <1>7, <1>8 DEF Promise!Open
<1>10. i.list \in Lists
  BY DEF IInv, TypeOK, JobType
<1> QED
  BY <1>1, <1>9, <1>10 DEF Promise!Next

\* Sessions that are dropped are forgotten with their rounds; those among
\* them that were gone before had no rounds left.
LEMMA DropMaps ==
  ASSUME IInv, RoundInv, NEW S \in SUBSET Sessions, DropStep(S)
  PROVE  Promise!Next \/ UNCHANGED Promise!vars
<1> PICK T : T = {s \in S : Live(s)}
  OBVIOUS
<1>1. /\ messages' = {m \in messages : m.session \notin S}
      /\ \A s \in Sessions : Live(s)' <=> Live(s) /\ s \notin S
      /\ created' = created
  BY DropFacts DEF DropStep
<1>2. T \in SUBSET Sessions /\ \A s \in Sessions : s \in T <=> s \in S /\ Live(s)
  OBVIOUS
<1>3. \A s \in T : Life[s] = "open"
  BY <1>2 DEF Life
<1>4. Life' = [s \in Sessions |-> IF s \in T THEN "gone" ELSE Life[s]]
  <2>1. \A s \in T : s <= created
    BY <1>2 DEF IInv, StoreInv
  <2>2. ASSUME NEW s \in Sessions PROVE Life'[s] = IF s \in T THEN "gone" ELSE Life[s]
    BY <1>1, <1>2, <2>1 DEF Life
  <2>3. Life' = [s \in Sessions |-> Life'[s]]
    BY DEF Life
  <2> HIDE DEF Life
  <2> QED
    BY <2>2, <2>3
<1>5. /\ Rounds = [s \in Sessions |-> {RoundIn(messages, m) : m \in Appended(s)}]
      /\ Rounds' = [s \in Sessions |-> {RoundIn(messages', m) : m \in Appended(s)'}]
  BY RoundsOf
<1>10. ASSUME NEW s \in Sessions PROVE Openings'[s] = IF s \in T THEN {} ELSE Openings[s]
  <2>1. CASE s \in S
    <3>1. Opened(s)' = {}
      BY <1>1, <2>1 DEF Opened, Of
    <3>2. s \notin T => Opened(s) = {}
      BY <1>2, <2>1 DEF Opened, Of, IInv, NothingDangles
    <3> QED
      BY OpeningsOf, <3>1, <3>2
  <2>2. CASE s \notin S
    <3>1. Opened(s)' = Opened(s) /\ s \notin T
      BY <1>1, <1>2, <2>2 DEF Opened, Of
    <3> QED
      BY OpeningsOf, <3>1
  <2> QED
    BY <2>1, <2>2
<1>11. Openings' = [s \in Sessions |-> IF s \in T THEN {} ELSE Openings[s]]
  BY <1>10, OpeningsOf
<1>6. ASSUME NEW s \in Sessions PROVE Rounds'[s] = IF s \in T THEN {} ELSE Rounds[s]
  <2>1. CASE s \in S
    <3>1. Appended(s)' = {}
      BY <1>1, <2>1 DEF Appended, Of
    <3>2. s \notin T => Appended(s) = {}
      BY <1>2, <2>1 DEF Appended, Of, IInv, NothingDangles
    <3> QED
      BY <1>5, <3>1, <3>2
  <2>2. CASE s \notin S
    <3>1. Appended(s)' = Appended(s) /\ s \notin T
      BY <1>1, <1>2, <2>2 DEF Appended, Of
    <3>2. ASSUME NEW m \in Appended(s) PROVE RoundIn(messages', m) = RoundIn(messages, m)
      <4>1. m \in MessageType /\ m.session = s
        BY DEF Appended, Of, IInv, TypeOK
      <4>2. ASSUME NEW x \in {"assistant", "query"}
            PROVE  [m EXCEPT !.role = x] \in messages' <=> [m EXCEPT !.role = x] \in messages
        <5> PICK y : y = [m EXCEPT !.role = x]
          OBVIOUS
        <5>1. y.session = s
          BY <4>1 DEF MessageType
        <5> QED
          BY <1>1, <2>2, <5>1
      <4> QED
        BY <4>2 DEF RoundIn
    <3> QED
      BY <1>5, <3>1, <3>2
  <2> QED
    BY <2>1, <2>2
<1>7. Rounds' = [s \in Sessions |-> IF s \in T THEN {} ELSE Rounds[s]]
  BY <1>5, <1>6
<1>8. CASE T = {}
  <2>1. /\ Life = [s \in Sessions |-> Life[s]] /\ Rounds = [s \in Sessions |-> Rounds[s]]
        /\ Openings = [s \in Sessions |-> Openings[s]]
    BY <1>5, OpeningsOf DEF Life
  <2>2. Life' = Life /\ Rounds' = Rounds /\ Openings' = Openings
    BY <1>4, <1>7, <1>8, <1>11, <2>1
  <2> QED
    BY <2>2 DEF Promise!vars
<1>9. CASE T # {}
  <2>1. Promise!Forget(T)
    BY <1>3, <1>4, <1>7, <1>9, <1>11 DEF Promise!Forget
  <2> QED
    BY <1>2, <2>1 DEF Promise!Next
<1> QED
  BY <1>8, <1>9

\* The empty store maps to the empty dialogue.
LEMMA InitMaps == Init => Promise!Init
<1> SUFFICES ASSUME Init PROVE Promise!Init
  OBVIOUS
<1>1. messages = {} /\ created = 0 /\ \A s \in Sessions : session[s] = Gone
  BY DEF Init
<1>2. Gone.owner = NoUser
  BY DEF Gone
<1>3. Life = [s \in Sessions |-> "new"]
  BY <1>1, <1>2 DEF Life, Live, Sessions
<1>4. Rounds = [s \in Sessions |-> {}] /\ Openings = [s \in Sessions |-> {}]
  BY <1>1 DEF Rounds, Openings, Appended, Opened, Of
<1> QED
  BY <1>3, <1>4 DEF Promise!Init

\* Every step of the requests is a step of the dialogue or changes nothing of it.
LEMMA StepMaps ==
  IInv /\ RoundInv /\ IInv' /\ RoundInv' /\ [Next]_vars => [Promise!Next]_(Promise!vars)
<1> SUFFICES ASSUME IInv, RoundInv, IInv', RoundInv', [Next]_vars
             PROVE  [Promise!Next]_(Promise!vars)
  OBVIOUS
<1>1. CASE Next
  <2>1. AnyStep
    BY <1>1, StepKinds
  <2>2. ASSUME NEW k \in Slots, QuietStep(k) PROVE UNCHANGED Promise!vars
    BY <2>2, QuietMaps DEF QuietStep
  <2>3. ASSUME NEW k \in Slots, OpenStep(k) PROVE Promise!Next
    BY <2>3, OpenMaps
  <2>4. ASSUME NEW k \in Slots, NEW role \in {"user", "query", "assistant"}, WriteStep(k, role)
        PROVE  Promise!Next
    BY <2>4, WriteMaps
  <2>5. ASSUME NEW S \in SUBSET Sessions, DropStep(S)
        PROVE  Promise!Next \/ UNCHANGED Promise!vars
    BY <2>5, DropMaps
  <2> QED
    BY <2>1, <2>2, <2>3, <2>4, <2>5 DEF AnyStep
<1>2. CASE UNCHANGED vars
  <2>1. UNCHANGED <<session, created, messages>>
    BY <1>2 DEF vars, store
  <2> QED
    BY <2>1, QuietMaps
<1> QED
  BY <1>1, <1>2

\* append_message and create_interpretation implement a dialogue: whatever
\* fails and whoever asks at the same time, sessions are opened with the whole
\* of a list, later rounds are begun, prompted and answered in that order, and
\* a session that is gone never returns.
THEOREM ImplementsDialogue == Spec => Promised
<1> USE DEF Spec, Promised, Promise!Spec
<1> QED
  BY IInvInit, IInvStep, RoundInit, RoundStep, InitMaps, StepMaps, PTL

-----------------------------------------------------------------------------
(* One request at a time.  Between reading the position, or finding no      *)
(* duplicate, and storing what follows from it only deletions can happen.   *)

FreePlace(j) == j.phase = "question" => \A m \in Of(j.session) : m.pos < j.pos

NoTwinYet(j) == j.phase = "insert" => Twins(j) = {}

AloneAtWork ==
  \A k, l \in Slots : job[k].phase # "idle" /\ job[l].phase # "idle" => k = l

SerialInv ==
  ~overlapped =>
    /\ AloneAtWork
    /\ PositionOrdersRounds
    /\ NoTwins
    /\ \A k \in Slots : FreePlace(job[k]) /\ NoTwinYet(job[k])

\* A step that leaves the store as it is
LEMMA QuietSerial ==
  ASSUME IInv, SerialInv, NEW k \in Slots, QuietStep(k), ~overlapped'
  PROVE  SerialInv'
<1>1. /\ session' = session /\ messages' = messages
      /\ \A l \in Slots \ {k} : job'[l] = job[l]
      /\ ~overlapped
  BY DEF QuietStep, Moves, IInv, TypeOK
<1>2. /\ AloneAtWork /\ PositionOrdersRounds /\ NoTwins
      /\ \A l \in Slots : FreePlace(job[l]) /\ NoTwinYet(job[l])
  BY <1>1 DEF SerialInv
<1>3. AloneAtWork'
  <2>1. CASE job'[k].phase = "idle" \/ job[k].phase # "idle"
    BY <1>1, <1>2, <2>1 DEF AloneAtWork
  <2>2. CASE job[k].phase = "idle" /\ job'[k].phase # "idle"
    <3>1. overlapped' = (overlapped \/ \E i \in Slots : job[i].phase # "idle")
      BY <2>2 DEF QuietStep, Moves
    <3>2. \A i \in Slots : job[i].phase = "idle"
      BY <1>1, <3>1
    <3> QED
      BY <1>1, <3>2 DEF AloneAtWork
  <2> QED
    BY <2>1, <2>2
<1>4. (PositionOrdersRounds /\ NoTwins)'
  BY <1>1, <1>2 DEF PositionOrdersRounds, NoTwins, AskedFirst, Of
<1>5. ASSUME NEW l \in Slots, l # k PROVE FreePlace(job[l])' /\ NoTwinYet(job[l])'
  <2>1. job'[l] = job[l] /\ FreePlace(job[l]) /\ NoTwinYet(job[l])
    BY <1>1, <1>2, <1>5
  <2> QED
    BY <1>1, <2>1 DEF FreePlace, NoTwinYet, Of, Twins
<1>6. FreePlace(job[k])'
  <2>1. CASE job'[k].phase # "question"
    BY <2>1 DEF FreePlace
  <2>2. CASE job'[k].phase = "question"
    <3>1. /\ job'[k].session = job[k].session
          /\ job'[k].pos = NextPosition(job[k].session)
      BY <2>2 DEF QuietStep, Moves
    <3>2. \A m \in Of(job[k].session) : m.pos < NextPosition(job[k].session)
      BY NextPositionIsLater DEF IInv
    <3> QED
      BY <1>1, <3>1, <3>2 DEF FreePlace, Of
  <2> QED
    BY <2>1, <2>2
<1>7. NoTwinYet(job[k])'
  <2>1. CASE job'[k].phase # "insert"
    BY <2>1 DEF NoTwinYet
  <2>2. CASE job'[k].phase = "insert"
    <3>1. /\ job'[k].user = job[k].user /\ job'[k].chart = job[k].chart
          /\ job'[k].list = job[k].list /\ Twins(job[k]) = {}
      BY <2>2 DEF QuietStep, Moves
    <3> QED
      BY <1>1, <3>1 DEF NoTwinYet, Twins, Of
  <2> QED
    BY <2>1, <2>2
<1> QED
  BY <1>3, <1>4, <1>5, <1>6, <1>7 DEF SerialInv

\* The place of the round is still free, or already its own.
LEMMA WriteSerial ==
  ASSUME IInv, RoundInv, SerialInv, NEW k \in Slots,
         NEW role \in {"user", "query", "assistant"}, WriteStep(k, role), ~overlapped'
  PROVE  SerialInv'
<1> PICK i : i = job[k]
  OBVIOUS
<1> PICK w : w = Message(i.session, i.pos, role, i.by, i.asked, 0)
  OBVIOUS
<1>1. w.session = i.session /\ w.pos = i.pos /\ w.role = role /\ w.by = i.by /\ w.nr = 0
  BY DEF Message
<1>2. /\ session' = session /\ messages' = messages \cup {w} /\ ~overlapped
      /\ \A l \in Slots \ {k} : job'[l] = job[l]
      /\ i.phase \in PlacedPhases /\ i.phase # "idle" /\ Live(i.session)
      /\ job'[k].phase \notin {"question", "insert"}
  BY DEF WriteStep, PlacedPhases
<1>3. /\ AloneAtWork /\ PositionOrdersRounds /\ NoTwins /\ FreePlace(i)
  BY <1>2 DEF SerialInv
<1>4. \A l \in Slots \ {k} : job'[l].phase = "idle"
  BY <1>2, <1>3 DEF AloneAtWork
<1>5. AloneAtWork' /\ \A l \in Slots : FreePlace(job[l])' /\ NoTwinYet(job[l])'
  <2>1. \A l \in Slots : job'[l].phase \notin {"question", "insert"}
    BY <1>2, <1>4
  <2> QED
    BY <1>4, <2>1 DEF AloneAtWork, FreePlace, NoTwinYet
<1>6. i.pos \in Int
  BY DEF IInv, TypeOK, JobType
<1>7. \A m \in messages : m.session = i.session /\ m.pos = i.pos => m.by = i.by
  <2>1. CASE i.phase = "question"
    <3>1. \A m \in messages : m.session = i.session => m.pos < i.pos
      BY <1>3, <2>1 DEF FreePlace, Of
    <3>2. \A m \in messages : m.pos \in Int
      BY PositionsInt DEF IInv, TypeOK, MessageType
    <3> QED
      BY <1>6, <3>1, <3>2
  <2>2. CASE i.phase # "question"
    <3> PICK u : u = Message(i.session, i.pos, "user", i.by, i.asked, 0)
      OBVIOUS
    <3>1. u \in messages /\ u.session = i.session /\ u.pos = i.pos /\ u.by = i.by
      BY <1>2, <2>2 DEF IInv, JobInv, StoredJob, Message
    <3> QED
      BY <1>3, <3>1 DEF PositionOrdersRounds
  <2> QED
    BY <2>1, <2>2
<1>8. PositionOrdersRounds'
  BY <1>1, <1>2, <1>3, <1>7 DEF PositionOrdersRounds
<1>9. NoTwins'
  <2>1. ~Asking(w)
    BY <1>1 DEF Asking
  <2>2. ASSUME NEW m \in messages, AskedFirst(m)' PROVE AskedFirst(m)
    BY <1>2, <2>2 DEF AskedFirst, Of
  <2> QED
    BY <1>2, <1>3, <2>1, <2>2 DEF NoTwins, AskedFirst
<1> QED
  BY <1>5, <1>8, <1>9 DEF SerialInv

\* The new session has no duplicate.
LEMMA OpenSerial ==
  ASSUME IInv, SerialInv, NEW k \in Slots, OpenStep(k), ~overlapped'
  PROVE  SerialInv'
<1> PICK n : n = NewId
  OBVIOUS
<1> PICK i : i = job[k]
  OBVIOUS
<1> PICK O : O = Opening(n, i.by, i.list)
  OBVIOUS
<1>1. /\ n \in Sessions /\ n = created + 1 /\ created \in Nat
      /\ session'[n] = [owner |-> i.user, chart |-> i.chart]
      /\ \A s \in Sessions : s # n => session'[s] = session[s]
      /\ \A m \in messages : m.by # i.by /\ m.session # n
      /\ \A m \in O : m.session = n /\ m.by = i.by /\ m.nr # 0
  BY OpenFacts
<1>2. /\ messages' = messages \cup O /\ ~overlapped
      /\ \A l \in Slots \ {k} : job'[l] = job[l]
      /\ i.phase = "insert" /\ job'[k].phase = "idle"
  BY DEF OpenStep
<1>3. AloneAtWork /\ PositionOrdersRounds /\ NoTwins /\ Twins(i) = {}
  BY <1>2 DEF SerialInv, NoTwinYet
<1>4. \A l \in Slots : job'[l].phase = "idle"
  BY <1>2, <1>3 DEF AloneAtWork
<1>5. AloneAtWork' /\ \A l \in Slots : FreePlace(job[l])' /\ NoTwinYet(job[l])'
  BY <1>4 DEF AloneAtWork, FreePlace, NoTwinYet
<1>6. PositionOrdersRounds'
  <2>1. ASSUME NEW a \in messages', NEW b \in messages', a.session = b.session, a.pos = b.pos
        PROVE  a.by = b.by
    <3>1. CASE a \in messages /\ b \in messages
      BY <1>3, <2>1, <3>1 DEF PositionOrdersRounds
    <3>2. CASE a \in O
      BY <1>1, <1>2, <2>1, <3>2
    <3>3. CASE b \in O
      BY <1>1, <1>2, <2>1, <3>3
    <3> QED
      BY <1>2, <3>1, <3>2, <3>3
  <2> QED
    BY <2>1 DEF PositionOrdersRounds
<1>7. ASSUME NEW a \in messages, Asking(a), NEW b \in O, AskedFirst(b)', a.asked = b.asked
      PROVE  session'[a.session] # session'[n]
  <2>1. a.session \in Sessions /\ a.session # n /\ a \in Of(a.session)
    BY <1>1 DEF IInv, TypeOK, MessageType, Of
  <2>2. PICK x \in 1 .. Len(i.list) :
          b = Message(n, i.list[x].pos, i.list[x].role, i.by, i.list[x].asked, x)
    BY DEF Opening
  <2>3. b.nr = x /\ b.pos = i.list[x].pos /\ b.role = i.list[x].role
        /\ b.asked = i.list[x].asked /\ b.session = n
    BY <2>2 DEF Message
  <2>4. First(i.list, x)
    <3>1. Checked(i.list, x)
      BY <1>7, <2>3 DEF AskedFirst, Asking, Checked
    <3>2. ASSUME NEW y \in 1 .. x - 1, Checked(i.list, y) PROVE FALSE
      <4> PICK c : c = Message(n, i.list[y].pos, i.list[y].role, i.by, i.list[y].asked, y)
        OBVIOUS
      <4>0. Len(i.list) \in Nat
        BY ListsType DEF IInv, TypeOK, JobType
      <4>1. y \in 1 .. Len(i.list) /\ y < x /\ y # 0 /\ x \in Nat /\ y \in Nat
        BY <4>0
      <4>2. c \in O
        BY <4>1 DEF Opening
      <4>3. c.nr = y /\ c.session = n /\ c.pos = i.list[y].pos /\ c.role = i.list[y].role
        BY DEF Message
      <4>4. Asking(c)
        BY <3>2, <4>1, <4>3 DEF Asking, Checked
      <4>5. c \in Of(n)'
        BY <1>2, <4>2, <4>3 DEF Of
      <4>6. x <= y
        BY <1>7, <2>3, <4>3, <4>4, <4>5 DEF AskedFirst
      <4> QED
        BY <4>1, <4>6
    <3> QED
      BY <3>1, <3>2 DEF First
  <2>5. a.session \notin Twins(i)
    BY <1>3
  <2>6. session[a.session] # [owner |-> i.user, chart |-> i.chart]
    BY <1>7, <2>1, <2>2, <2>3, <2>4, <2>5 DEF Twins, Asking
  <2> QED
    BY <1>1, <2>1, <2>6
<1>8. NoTwins'
  <2>1. ASSUME NEW a \in messages', NEW b \in messages', Asking(a), AskedFirst(b)',
               a.asked = b.asked, session'[a.session] = session'[b.session]
        PROVE  b.session <= a.session
    <3>1. ASSUME NEW m \in messages
          PROVE  m.session \in Sessions /\ m.session <= created /\ m.session # n
      BY <1>1 DEF IInv, TypeOK, MessageType, NothingDangles, StoreInv
    <3>2. CASE a \in messages /\ b \in messages
      <4>1. session[a.session] = session[b.session]
        BY <1>1, <2>1, <3>1, <3>2
      <4>2. AskedFirst(b)
        BY <1>2, <2>1 DEF AskedFirst, Of
      <4> QED
        BY <1>3, <2>1, <3>2, <4>1, <4>2 DEF NoTwins
    <3>3. CASE a \in O /\ b \in O
      BY <1>1, <3>3
    <3>4. CASE a \in O /\ b \in messages
      <4>1. a.session = n /\ b.session \in Nat /\ b.session <= created
        BY <1>1, <3>1, <3>4 DEF Sessions
      <4> QED
        BY <1>1, <4>1
    <3>5. CASE a \in messages /\ b \in O
      BY <1>1, <1>7, <2>1, <3>5
    <3> QED
      BY <1>2, <2>1, <3>2, <3>3, <3>4, <3>5
  <2> QED
    BY <2>1 DEF NoTwins
<1> QED
  BY <1>5, <1>6, <1>8 DEF SerialInv

\* A deletion takes rows away and adds none.
LEMMA DropSerial ==
  ASSUME IInv, SerialInv, NEW S \in SUBSET Sessions, DropStep(S), ~overlapped'
  PROVE  SerialInv'
<1>1. /\ messages' = {m \in messages : m.session \notin S}
      /\ \A s \in Sessions : Live(s)' <=> Live(s) /\ s \notin S
      /\ \A s \in Sessions \ S : session'[s] = session[s]
  BY DropFacts
<1>2. ~overlapped /\ \A l \in Slots : job'[l] = job[l] \/ job'[l].phase = "idle"
  BY DEF DropStep
<1>3. /\ AloneAtWork /\ PositionOrdersRounds /\ NoTwins
      /\ \A l \in Slots : FreePlace(job[l]) /\ NoTwinYet(job[l])
  BY <1>2 DEF SerialInv
<1>4. AloneAtWork'
  BY <1>2, <1>3 DEF AloneAtWork
<1>5. PositionOrdersRounds'
  BY <1>1, <1>3 DEF PositionOrdersRounds
<1>6. NoTwins'
  <2>1. ASSUME NEW m \in messages' PROVE session'[m.session] = session[m.session]
    BY <1>1 DEF IInv, TypeOK, MessageType
  <2>2. ASSUME NEW m \in messages', AskedFirst(m)' PROVE AskedFirst(m)
    <3>1. Of(m.session)' = Of(m.session)
      BY <1>1 DEF Of
    <3> QED
      BY <2>2, <3>1 DEF AskedFirst
  <2> QED
    BY <1>1, <1>3, <2>1, <2>2 DEF NoTwins
<1>7. ASSUME NEW l \in Slots PROVE FreePlace(job[l])' /\ NoTwinYet(job[l])'
  <2>1. CASE job'[l].phase = "idle"
    BY <2>1 DEF FreePlace, NoTwinYet
  <2>2. CASE job'[l] = job[l]
    <3>1. FreePlace(job[l]) /\ NoTwinYet(job[l])
      BY <1>3
    <3>2. \A s : Of(s)' \subseteq Of(s)
      BY <1>1 DEF Of
    <3>3. FreePlace(job[l])'
      BY <2>2, <3>1, <3>2 DEF FreePlace
    <3>4. Twins(job[l])' \subseteq Twins(job[l])
      <4>1. ASSUME NEW s \in Sessions, s \in Twins(job[l])' PROVE s \in Twins(job[l])
        <5>1. PICK x \in 1 .. Len(job[l].list), m \in Of(s)' :
                /\ First(job[l].list, x)
                /\ m.pos = 1 /\ m.role = "user" /\ m.asked = job[l].list[x].asked
          BY <2>2, <4>1 DEF Twins
        <5>2. m \in Of(s) /\ s \notin S
          BY <1>1, <5>1 DEF Of
        <5>3. session[s] = [owner |-> job[l].user, chart |-> job[l].chart]
          BY <1>1, <2>2, <4>1, <5>2 DEF Twins
        <5> QED
          BY <5>1, <5>2, <5>3 DEF Twins
      <4> QED
        BY <4>1 DEF Twins
    <3>5. NoTwinYet(job[l])'
      BY <2>2, <3>1, <3>4 DEF NoTwinYet
    <3> QED
      BY <3>3, <3>5
  <2> QED
    BY <1>2, <2>1, <2>2
<1> QED
  BY <1>4, <1>5, <1>6, <1>7 DEF SerialInv

\* It holds at the start ...
LEMMA SerialInit == Init => SerialInv
<1> SUFFICES ASSUME Init PROVE SerialInv
  OBVIOUS
<1>1. messages = {} /\ \A k \in Slots : job[k] = Idle
  BY DEF Init
<1>2. \A k \in Slots : job[k].phase = "idle"
  BY <1>1, IdleType
<1> QED
  BY <1>1, <1>2
     DEF SerialInv, AloneAtWork, FreePlace, NoTwinYet, PositionOrdersRounds, NoTwins

\* ... and every step keeps it.
LEMMA SerialStep == IInv /\ RoundInv /\ SerialInv /\ [Next]_vars => SerialInv'
<1> SUFFICES ASSUME IInv, RoundInv, SerialInv, [Next]_vars PROVE SerialInv'
  OBVIOUS
<1>1. CASE overlapped'
  BY <1>1 DEF SerialInv
<1>2. CASE Next /\ ~overlapped'
  <2>1. AnyStep
    BY <1>2, StepKinds
  <2> QED
    BY <1>2, <2>1, QuietSerial, WriteSerial, OpenSerial, DropSerial DEF AnyStep
<1>3. CASE UNCHANGED vars
  <2>1. session' = session /\ messages' = messages /\ job' = job /\ overlapped' = overlapped
    BY <1>3 DEF vars, store, history
  <2> QED
    BY <2>1 DEF SerialInv, AloneAtWork, FreePlace, NoTwinYet, PositionOrdersRounds, NoTwins,
                AskedFirst, Of, Twins
<1> QED
  BY <1>1, <1>2, <1>3

-----------------------------------------------------------------------------
(* Powers of 2.  What the provers know of them is that 2 ^ n is the number  *)
(* of subsets of a set of n elements.                                       *)

Power(n) == 2 ^ n

\* With one element more, there are twice as many subsets.
LEMMA PowerDoubles ==
  ASSUME NEW n \in Nat
  PROVE  Power(n) \in Nat /\ Power(n + 1) = 2 * Power(n)
<1> DEFINE S == 1 .. n
           A == SUBSET S
           B == {s \cup {n + 1} : s \in A}
<1>1. IsFiniteSet(S) /\ Cardinality(S) = n
  BY FS_Interval
<1>2. IsFiniteSet(A) /\ Cardinality(A) = Power(n) /\ Cardinality(A) \in Nat
  BY <1>1, FS_SUBSET, FS_CardinalityType DEF Power
<1>3. IsFiniteSet(S \cup {n + 1}) /\ Cardinality(S \cup {n + 1}) = n + 1
  <2>1. n + 1 \notin S
    OBVIOUS
  <2> HIDE DEF S
  <2> QED
    BY <1>1, <2>1, FS_AddElement
<1>4. Cardinality(SUBSET (S \cup {n + 1})) = Power(n + 1)
  BY <1>3, FS_SUBSET DEF Power
<1>5. n + 1 \notin S
  OBVIOUS
<1> HIDE DEF S
<1>6. SUBSET (S \cup {n + 1}) = A \cup B
  <2>1. ASSUME NEW s \in SUBSET (S \cup {n + 1}) PROVE s \in A \cup B
    <3>1. CASE n + 1 \in s
      <4>1. s \ {n + 1} \in A /\ s = (s \ {n + 1}) \cup {n + 1}
        BY <3>1
      <4> QED
        BY <4>1
    <3>2. CASE n + 1 \notin s
      BY <3>2
    <3> QED
      BY <3>1, <3>2
  <2>2. A \cup B \subseteq SUBSET (S \cup {n + 1})
    OBVIOUS
  <2> QED
    BY <2>1, <2>2
<1>7. A \cap B = {}
  BY <1>5
<1>8. IsFiniteSet(B) /\ Cardinality(B) = Cardinality(A)
  <2> DEFINE f == [s \in A |-> s \cup {n + 1}]
  <2>1. f \in Bijection(A, B)
    <3>1. f \in Injection(A, B)
      <4>1. f \in [A -> B]
        OBVIOUS
      <4>2. ASSUME NEW s \in A, NEW t \in A, f[s] = f[t] PROVE s = t
        <5>1. s \cup {n + 1} = t \cup {n + 1} /\ n + 1 \notin s /\ n + 1 \notin t
          BY <1>5, <4>2
        <5> QED
          BY <5>1
      <4> HIDE DEF f, A, B
      <4> QED
        BY <4>1, <4>2 DEF Injection, IsInjective
    <3>2. f \in Surjection(A, B)
      BY DEF Surjection
    <3> QED
      BY <3>1, <3>2 DEF Bijection
  <2> HIDE DEF A, B, f
  <2>2. ExistsBijection(A, B)
    BY <2>1 DEF ExistsBijection
  <2> QED
    BY <1>2, <2>2, FS_Bijection
<1> HIDE DEF A, B
<1>9. Cardinality(A \cup B) = Cardinality(A) + Cardinality(B)
  <2>1. Cardinality(A \cup B) = Cardinality(A) + Cardinality(B) - Cardinality(A \cap B)
    BY <1>2, <1>8, FS_Union
  <2>2. Cardinality(A \cap B) = 0
    BY <1>7, FS_EmptySet
  <2> QED
    BY <1>2, <1>8, <2>1, <2>2
<1>10. Power(n + 1) = Cardinality(A) + Cardinality(A)
  BY <1>4, <1>6, <1>8, <1>9, Zenon
<1> QED
  BY <1>2, <1>10

\* The first powers
LEMMA PowerOne == Power(0) = 1 /\ Power(1) = 2
BY DEF Power

\* A power of 2 is positive, and even but for the first.
LEMMA PowerPositive ==
  ASSUME NEW n \in Nat
  PROVE  Power(n) \in Nat /\ Power(n) >= 1 /\ Power(n + 1) >= 2
<1>1. Power(n) \in Nat /\ Power(n + 1) = 2 * Power(n)
  BY PowerDoubles
<1>2. Power(n) # 0
  <2>1. IsFiniteSet(1 .. n) /\ Cardinality(1 .. n) = n
    BY FS_Interval
  <2>2. IsFiniteSet(SUBSET (1 .. n)) /\ Cardinality(SUBSET (1 .. n)) = Power(n)
    BY <2>1, FS_SUBSET DEF Power
  <2> QED
    BY <2>2, FS_EmptySet
<1> QED
  BY <1>1, <1>2

-----------------------------------------------------------------------------
(* Weight is a sum over a set, which the community modules define by a      *)
(* recursive function on its subsets that takes one element after another.  *)
(* That there is such a function, and that it does not matter which element *)
(* is taken first, follows from the smallest subset of which it is not so.  *)

Part(m) == IF m.role = "query" THEN size[m.by] ELSE 1

Chosen(s) == CHOOSE x \in s : TRUE

\* The sum over s, if f has those over smaller sets
SumOf(f, s) == IF s = {} THEN 0 ELSE Part(Chosen(s)) + f[s \ {Chosen(s)}]

\* What Weight is by its definition
LEMMA WeightDef ==
  ASSUME NEW M
  PROVE  Weight(M) = (CHOOSE f : f = [s \in SUBSET M |-> SumOf(f, s)])[M]
BY DEF Weight, MapThenSumSet, MapThenFoldSet, SumOf, Part, Chosen

\* SumOf asks f about one set only.
LEMMA SumOfSame ==
  ASSUME NEW f, NEW g, NEW s,
         s # {} => f[s \ {Chosen(s)}] = g[s \ {Chosen(s)}]
  PROVE  SumOf(f, s) = SumOf(g, s)
BY DEF SumOf

\* An element is chosen.
LEMMA ChosenIn ==
  ASSUME NEW s, s # {}
  PROVE  Chosen(s) \in s
BY DEF Chosen

\* A set without one of its elements
LEMMA Smaller ==
  ASSUME NEW M, IsFiniteSet(M), NEW s \in SUBSET M
  PROVE  /\ Cardinality(s) \in Nat
         /\ \A x \in s : /\ s \ {x} \in SUBSET M
                         /\ Cardinality(s \ {x}) = Cardinality(s) - 1
<1>1. IsFiniteSet(s)
  BY FS_Subset
<1>2. \A x \in s : Cardinality(s \ {x}) = Cardinality(s) - 1
  BY <1>1, FS_RemoveElement
<1> QED
  BY <1>1, <1>2, FS_CardinalityType

\* f is the sum over the subsets of M of up to n elements.
Smalls(M, n) == {s \in SUBSET M : Cardinality(s) <= n}
IsSum(f, M, n) == /\ f = [s \in Smalls(M, n) |-> f[s]]
                  /\ \A s \in Smalls(M, n) : f[s] = SumOf(f, s)

\* It is for the empty one ...
LEMMA SumNone ==
  ASSUME NEW M, IsFiniteSet(M)
  PROVE  \E f : IsSum(f, M, 0)
<1> DEFINE f == [s \in Smalls(M, 0) |-> 0]
<1>1. ASSUME NEW s \in Smalls(M, 0) PROVE f[s] = SumOf(f, s)
  <2>1. s = {}
    <3>1. IsFiniteSet(s) /\ Cardinality(s) <= 0 /\ Cardinality(s) \in Nat
      BY FS_Subset, Smaller DEF Smalls
    <3> QED
      BY <3>1, FS_EmptySet
  <2> QED
    BY <2>1 DEF SumOf
<1> HIDE DEF f
<1>2. f = [s \in Smalls(M, 0) |-> f[s]]
  BY DEF f
<1> QED
  BY <1>1, <1>2 DEF IsSum

\* ... and for those of one element more.
LEMMA SumMore ==
  ASSUME NEW M, IsFiniteSet(M), NEW n \in Nat, NEW f, IsSum(f, M, n)
  PROVE  \E g : IsSum(g, M, n + 1)
<1> DEFINE g == [s \in Smalls(M, n + 1) |-> SumOf(f, s)]
<1>1. \A s \in Smalls(M, n + 1) : g[s] = SumOf(f, s)
  OBVIOUS
<1>2. g = [s \in Smalls(M, n + 1) |-> g[s]]
  OBVIOUS
<1> HIDE DEF g
<1>3. ASSUME NEW s \in Smalls(M, n) PROVE s \in Smalls(M, n + 1) /\ g[s] = f[s]
  <2>1. Cardinality(s) \in Nat /\ s \in SUBSET M
    BY Smaller DEF Smalls
  <2>2. s \in Smalls(M, n + 1)
    BY <2>1 DEF Smalls
  <2>3. f[s] = SumOf(f, s)
    BY DEF IsSum
  <2> QED
    BY <1>1, <2>2, <2>3
<1>4. ASSUME NEW s \in Smalls(M, n + 1) PROVE g[s] = SumOf(g, s)
  <2>1. CASE s = {}
    BY <1>1, <2>1 DEF SumOf
  <2>2. CASE s # {}
    <3>1. Chosen(s) \in s
      BY <2>2, ChosenIn
    <3>2. s \in SUBSET M /\ Cardinality(s) <= n + 1
      BY DEF Smalls
    <3>3. /\ Cardinality(s) \in Nat /\ s \ {Chosen(s)} \in SUBSET M
          /\ Cardinality(s \ {Chosen(s)}) = Cardinality(s) - 1
      BY <3>1, <3>2, Smaller
    <3>4. s \ {Chosen(s)} \in Smalls(M, n)
      BY <3>2, <3>3 DEF Smalls
    <3>5. SumOf(f, s) = SumOf(g, s)
      BY <1>3, <3>4, SumOfSame
    <3> QED
      BY <1>1, <3>5
  <2> QED
    BY <2>1, <2>2
<1> QED
  BY <1>2, <1>4 DEF IsSum

\* Sums over the subsets of a finite set exist.
LEMMA SumExists ==
  ASSUME NEW M, IsFiniteSet(M)
  PROVE  \E f : f = [s \in SUBSET M |-> SumOf(f, s)]
<1> DEFINE Good(n) == \E f : IsSum(f, M, n)
           T == {n \in Nat : ~Good(n)}
<1>t. T \subseteq Nat /\ \A n \in Nat : n \in T <=> ~Good(n)
  OBVIOUS
<1>0. Good(0)
  BY SumNone
<1>1. \A n \in Nat : Good(n) => Good(n + 1)
  BY SumMore
<1> HIDE DEF Good, T
<1>2. T = {}
  <2> SUFFICES ASSUME T # {} PROVE FALSE
    OBVIOUS
  <2>1. PICK m \in T : \A n \in T : m <= n
    BY <1>t, LeastNatural
  <2>2. m \in Nat /\ m # 0
    BY <1>t, <1>0
  <2>3. m - 1 \in Nat /\ (m - 1) + 1 = m /\ ~(m <= m - 1)
    BY <2>2
  <2>4. Good(m - 1)
    BY <1>t, <2>1, <2>3
  <2> QED
    BY <1>t, <1>1, <2>3, <2>4
<1>3. Cardinality(M) \in Nat
  BY FS_CardinalityType
<1>4. Good(Cardinality(M))
  BY <1>t, <1>2, <1>3
<1>5. Smalls(M, Cardinality(M)) = SUBSET M
  BY FS_Subset DEF Smalls
<1>6. PICK f : IsSum(f, M, Cardinality(M))
  BY <1>4 DEF Good
<1>7. \A s \in SUBSET M : f[s] = SumOf(f, s)
  BY <1>5, <1>6 DEF IsSum
<1>8. f = [s \in SUBSET M |-> f[s]]
  BY <1>5, <1>6 DEF IsSum
<1> QED
  BY <1>7, <1>8

\* f has the sums over all subsets of M.
Sums(f, M) == \A s \in SUBSET M : f[s] = SumOf(f, s)

\* Weight is a sum.
LEMMA WeightSums ==
  ASSUME NEW M, IsFiniteSet(M)
  PROVE  \E f : Weight(M) = f[M] /\ Sums(f, M)
<1> DEFINE F(f) == f = [s \in SUBSET M |-> SumOf(f, s)]
           c == CHOOSE f : F(f)
<1>1. F(c)
  BY SumExists
<1>2. Weight(M) = c[M]
  BY WeightDef
<1> HIDE DEF c
<1>3. \A s \in SUBSET M : c[s] = SumOf(c, s)
  BY <1>1
<1> QED
  BY <1>2, <1>3 DEF Sums

\* Whichever element is taken first, the sum is the same.
LEMMA SumSplits ==
  ASSUME NEW M, IsFiniteSet(M), \A m \in M : Part(m) \in Nat, NEW f, Sums(f, M)
  PROVE  /\ f[{}] = 0
         /\ \A s \in SUBSET M : f[s] \in Nat /\ \A x \in s : f[s] = Part(x) + f[s \ {x}]
<1> DEFINE Splits(s) == f[s] \in Nat /\ \A x \in s : f[s] = Part(x) + f[s \ {x}]
           Bad == {s \in SUBSET M : ~Splits(s)}
           T == {Cardinality(s) : s \in Bad}
<1>0. f[{}] = 0
  BY DEF Sums, SumOf
<1>b. \A s \in SUBSET M : s \in Bad <=> ~Splits(s)
  OBVIOUS
<1>s. Bad \subseteq SUBSET M
  OBVIOUS
<1> HIDE DEF Bad
<1> SUFFICES ASSUME Bad # {} PROVE FALSE
  BY <1>0, <1>b
<1>1. T \in SUBSET Nat /\ T # {}
  BY <1>s, Smaller
<1>2. PICK m \in T : \A n \in T : m <= n
  <2> HIDE DEF T
  <2> QED
    BY <1>1, LeastNatural
<1>3. PICK s \in Bad : m = Cardinality(s)
  OBVIOUS
<1>4. /\ s \in SUBSET M /\ Cardinality(s) \in Nat
      /\ \A x \in s : s \ {x} \in SUBSET M /\ Cardinality(s \ {x}) = Cardinality(s) - 1
  BY <1>s, Smaller
<1>5. ASSUME NEW u \in SUBSET M, Cardinality(u) = Cardinality(s) - 1
      PROVE  Splits(u)
  <2>1. ~(m <= Cardinality(u))
    BY <1>3, <1>4, <1>5
  <2>2. u \notin Bad
    BY <1>2, <2>1
  <2> HIDE DEF Splits
  <2> QED
    BY <1>b, <2>2
<1>6. CASE s = {}
  <2>1. Splits(s)
    BY <1>0, <1>6
  <2> HIDE DEF Splits
  <2> QED
    BY <1>b, <1>4, <2>1
<1>7. CASE s # {}
  <2>1. Chosen(s) \in s
    BY <1>7, ChosenIn
  <2> PICK c \in s : c = Chosen(s)
    BY <2>1
  <2>2. f[s] = Part(c) + f[s \ {c}]
    BY <1>4, <1>7 DEF Sums, SumOf
  <2>3. Part(c) \in Nat /\ \A x \in s : f[s \ {x}] \in Nat
    BY <1>4, <1>5
  <2>4. f[s] \in Nat
    BY <2>2, <2>3
  <2>5. ASSUME NEW x \in s, x # c PROVE f[s] = Part(x) + f[s \ {x}]
    <3>1. /\ x \in s \ {c} /\ c \in s \ {x}
          /\ (s \ {c}) \ {x} = (s \ {x}) \ {c}
      BY <2>5
    <3>2. /\ s \ {c} \in SUBSET M /\ Cardinality(s \ {c}) = Cardinality(s) - 1
          /\ s \ {x} \in SUBSET M /\ Cardinality(s \ {x}) = Cardinality(s) - 1
      BY <1>4
    <3>3. Splits(s \ {c}) /\ Splits(s \ {x})
      <4> HIDE DEF Splits
      <4> QED
        BY <1>5, <3>2
    <3>4. /\ f[s \ {c}] = Part(x) + f[(s \ {c}) \ {x}]
          /\ f[s \ {x}] = Part(c) + f[(s \ {x}) \ {c}]
      BY <3>1, <3>3
    <3>5. f[(s \ {x}) \ {c}] \in Nat
      <4>1. (s \ {x}) \ {c} \in SUBSET M
        BY <1>4
      <4>2. Cardinality((s \ {x}) \ {c}) = (Cardinality(s) - 1) - 1 /\ Cardinality((s \ {x}) \ {c}) \in Nat
        BY <3>1, <3>2, Smaller, <4>1
      <4>3. ~(m <= Cardinality((s \ {x}) \ {c}))
        BY <1>3, <1>4, <4>2
      <4>4. (s \ {x}) \ {c} \notin Bad
        BY <1>2, <4>3
      <4> QED
        BY <1>b, <4>1, <4>4
    <3>6. Part(x) \in Nat /\ f[(s \ {c}) \ {x}] = f[(s \ {x}) \ {c}]
      BY <1>4, <3>1
    <3> QED
      BY <2>2, <2>3, <3>4, <3>5, <3>6
  <2>6. \A x \in s : f[s] = Part(x) + f[s \ {x}]
    BY <2>2, <2>5
  <2>7. Splits(s)
    BY <2>4, <2>6
  <2> HIDE DEF Splits
  <2> QED
    BY <1>b, <1>4, <2>7
<1> QED
  BY <1>6, <1>7

-----------------------------------------------------------------------------
(* What the rows of a session weigh, one position after another.            *)

SizesOK == size \in [Requests -> Nat]

\* The rows History reads, up to a position
UpTo(s, n) == {m \in History(s) : m.pos <= n}

\* In a session that was opened regularly every position is 1 or more: the
\* first position is not one that continues another.
LEMMA RegularPositions ==
  ASSUME IInv, NEW s, Regular(s)
  PROVE  /\ \A m \in Of(s) : m.pos \in Nat \ {0}
         /\ NextPosition(s) \in Nat \ {0}
<1> DEFINE first == {p \in Of(s) \X Of(s) : p[1].pos < p[2].pos}
<1>1. \A m \in Of(s) : m \in messages /\ m.session = s /\ m.pos \in Int
  BY PositionsInt DEF IInv, TypeOK, MessageType, Of
<1>2. IsFiniteSet(Of(s))
  BY FS_Subset DEF IInv, StoreInv, Of
<1>3. \A m \in Of(s) : m.pos \in Nat \ {0}
  <2> SUFFICES ASSUME Of(s) # {} PROVE \A m \in Of(s) : m.pos \in Nat \ {0}
    OBVIOUS
  <2>1. /\ \A j \in Of(s) : <<j, j>> \notin first
        /\ \A i, j, l \in Of(s) :
             <<i, j>> \in first /\ <<j, l>> \in first => <<i, l>> \in first
    BY <1>1
  <2> HIDE DEF first
  <2>2. PICK m \in Of(s) : \A j \in Of(s) : <<j, m>> \notin first
    BY <1>2, <2>1, MinimalElement
  <2>3. ASSUME NEW j \in Of(s) PROVE ~(j.pos < m.pos)
    BY <2>2 DEF first
  <2>4. m.pos >= 1
    <3>1. CASE m.nr # 0
      BY <3>1 DEF Regular
    <3>2. CASE m.nr = 0
      <4>1. m.pos = 1 \/ \E n \in Of(s) : n.pos = m.pos - 1
        BY <1>1, <3>2 DEF IInv, NoGaps
      <4>2. ASSUME NEW n \in Of(s), n.pos = m.pos - 1 PROVE FALSE
        BY <1>1, <2>3, <4>2
      <4> QED
        BY <4>1, <4>2
    <3> QED
      BY <3>1, <3>2
  <2> QED
    BY <1>1, <2>3, <2>4
<1>4. NextPosition(s) \in Nat \ {0}
  <2>1. NextPosition(s) \in Int /\ Follows(s, NextPosition(s))
    BY NextPositionFollows DEF IInv
  <2>2. ASSUME NEW n \in messages, n.session = s, n.pos = NextPosition(s) - 1
        PROVE  NextPosition(s) \in Nat \ {0}
    <3>1. n \in Of(s)
      BY <2>2 DEF Of
    <3>2. n.pos \in Nat \ {0}
      BY <1>3, <3>1
    <3> QED
      BY <2>1, <2>2, <3>2
  <2> QED
    BY <2>1, <2>2 DEF Follows
<1> QED
  BY <1>3, <1>4

\* A session with the same opening rows is as regular as before.
LEMMA RegularSame ==
  ASSUME NEW s, {m \in messages' : m.session = s /\ m.nr # 0}
                  = {m \in messages : m.session = s /\ m.nr # 0}
  PROVE  Regular(s)' <=> Regular(s)
<1>1. \A m : (m \in Of(s) /\ m.nr # 0) <=> m \in {n \in messages : n.session = s /\ n.nr # 0}
  BY DEF Of
<1>2. \A m : (m \in Of(s)' /\ m.nr # 0) <=> m \in {n \in messages' : n.session = s /\ n.nr # 0}
  BY DEF Of
<1>3. \A m : (m \in Of(s) /\ m.nr # 0) <=> (m \in Of(s)' /\ m.nr # 0)
  BY <1>1, <1>2
<1> QED
  BY <1>3 DEF Regular

\* Each position of it has one prompt and one answer at most.
LEMMA OneOfEach ==
  ASSUME IInv, RoundInv, PositionOrdersRounds, NEW s, Regular(s),
         NEW m \in History(s), NEW n \in History(s), m.pos = n.pos, m.role = n.role
  PROVE  m = n
<1>1. m \in messages /\ n \in messages /\ m.session = n.session /\ m \in Of(s) /\ n \in Of(s)
  BY DEF History, Of
<1>2. m.by = n.by
  BY <1>1 DEF PositionOrdersRounds
<1>3. CASE m.nr # 0 /\ n.nr # 0
  BY <1>1, <1>3 DEF Regular
<1>4. CASE m.nr = 0 \/ n.nr = 0
  <2>1. m.nr = 0 /\ n.nr = 0
    BY <1>1, <1>2, <1>4 DEF IInv, RoundsInOrder
  <2>2. m.asked = n.asked
    BY <1>1, <1>2, <2>1 DEF RoundInv, AskedOnce
  <2>3. m \in MessageType /\ n \in MessageType
    BY <1>1 DEF IInv, TypeOK
  <2> QED
    BY <1>1, <1>2, <2>1, <2>2, <2>3 DEF MessageType
<1> QED
  BY <1>3, <1>4

\* What a row counts for
LEMMA PartNat ==
  ASSUME IInv, SizesOK, NEW s, NEW m \in History(s)
  PROVE  /\ m \in messages /\ m.session = s /\ Part(m) \in Nat
         /\ m.role = "query" \/ m.role = "assistant"
<1>1. m \in messages /\ m.session = s /\ m.role \in {"query", "assistant"}
  BY DEF History, Of
<1>2. m.by \in Requests
  BY <1>1 DEF IInv, TypeOK, MessageType
<1>3. size[m.by] \in Nat
  BY <1>2 DEF SizesOK
<1> QED
  BY <1>1, <1>3 DEF Part

\* ... and what it may count for in a regular session
LEMMA PartIs ==
  ASSUME IInv, SizesOK, PromptDoubles, NEW s, Regular(s), NEW m \in History(s)
  PROVE  /\ m.pos \in Nat \ {0}
         /\ m.role = "query" => Part(m) <= Power(m.pos) - 1
         /\ m.role = "assistant" => Part(m) = 1
<1>1. m \in messages /\ m.session = s /\ m \in Of(s)
  BY DEF History, Of
<1>2. m.pos \in Nat \ {0}
  BY <1>1, RegularPositions
<1>4. m.role = "query" => size[m.by] <= Power(m.pos) - 1
  BY <1>1 DEF PromptDoubles, Power
<1> QED
  BY <1>2, <1>4 DEF Part

\* A set with one element more, at most
LEMMA OneMore ==
  ASSUME NEW f, NEW S, NEW T, NEW b \in Nat,
         S \subseteq T, f[S] \in Nat,
         \A x \in T : f[T] = Part(x) + f[T \ {x}] /\ Part(x) \in Nat,
         \A x \in T \ S : Part(x) <= b,
         \A x, y \in T \ S : x = y
  PROVE  f[T] <= f[S] + b
<1>1. CASE S = T
  BY <1>1
<1>2. CASE S # T
  <2>1. PICK x \in T : x \notin S
    BY <1>2
  <2>2. T \ {x} = S
    BY <2>1
  <2>3. f[T] = Part(x) + f[S] /\ Part(x) \in Nat /\ Part(x) <= b
    BY <2>1, <2>2
  <2> QED
    BY <2>3
<1> QED
  BY <1>1, <1>2

\* The rows of one more position
LEMMA OnePosition ==
  ASSUME IInv, RoundInv, PositionOrdersRounds, SizesOK, PromptDoubles,
         NEW s, Regular(s), NEW f, Sums(f, History(s)), NEW n \in Nat,
         f[UpTo(s, n)] <= Power(n + 1) - 2
  PROVE  f[UpTo(s, n + 1)] <= Power((n + 1) + 1) - 2
<1> DEFINE H == History(s)
           A == UpTo(s, n)
           B == {m \in H : m.pos <= n \/ (m.pos = n + 1 /\ m.role = "query")}
           C == UpTo(s, n + 1)
<1>1. IsFiniteSet(H) /\ \A m \in H : Part(m) \in Nat
  BY FS_Subset, PartNat DEF IInv, StoreInv, History, Of
<1>2. \A u \in SUBSET H : f[u] \in Nat /\ \A x \in u : f[u] = Part(x) + f[u \ {x}]
  BY <1>1, SumSplits
<1>3. A \in SUBSET H /\ B \in SUBSET H /\ C \in SUBSET H /\ A \subseteq B
  BY DEF UpTo
<1>4. \A m \in H : m.pos \in Nat \ {0} /\ (m.role = "query" \/ m.role = "assistant")
  BY PartIs, PartNat
<1>5. B \subseteq C
  BY <1>4 DEF UpTo
<1>6. ASSUME NEW x \in B \ A
      PROVE  x \in H /\ x.pos = n + 1 /\ x.role = "query" /\ Part(x) <= Power(n + 1) - 1
  <2>1. x \in H /\ x.pos = n + 1 /\ x.role = "query"
    BY DEF UpTo
  <2> QED
    BY <2>1, PartIs
<1>7. ASSUME NEW x \in C \ B
      PROVE  x \in H /\ x.pos = n + 1 /\ x.role = "assistant" /\ Part(x) = 1
  <2>1. x \in H /\ x.pos <= n + 1 /\ ~(x.pos <= n) /\ ~(x.pos = n + 1 /\ x.role = "query")
    BY DEF UpTo
  <2>2. x.pos = n + 1 /\ x.role = "assistant"
    BY <1>4, <2>1
  <2> QED
    BY <2>1, <2>2, PartIs
<1>8. /\ Power(n + 1) \in Nat /\ Power(n + 1) >= 1
      /\ Power((n + 1) + 1) = 2 * Power(n + 1)
  BY PowerDoubles, PowerPositive
<1>9. f[A] \in Nat /\ f[B] \in Nat /\ f[C] \in Nat
  BY <1>2, <1>3
<1>10. /\ \A x, y \in B \ A : x = y
       /\ \A x, y \in C \ B : x = y
  BY <1>6, <1>7, OneOfEach
<1> HIDE DEF H, A, B, C
<1>11. /\ \A x \in B : f[B] = Part(x) + f[B \ {x}] /\ Part(x) \in Nat
       /\ \A x \in C : f[C] = Part(x) + f[C \ {x}] /\ Part(x) \in Nat
  BY <1>1, <1>2, <1>3
<1>12. f[B] <= f[A] + (Power(n + 1) - 1)
  <2>1. Power(n + 1) - 1 \in Nat
    BY <1>8
  <2>2. \A x \in B \ A : Part(x) <= Power(n + 1) - 1
    BY <1>6
  <2> QED
    BY <1>3, <1>9, <1>10, <1>11, <2>1, <2>2, OneMore
<1>13. f[C] <= f[B] + 1
  <2>1. \A x \in C \ B : Part(x) <= 1
    BY <1>7
  <2> QED
    BY <1>5, <1>9, <1>10, <1>11, <2>1, OneMore
<1>14. f[C] <= 2 * Power(n + 1) - 2
  <2>1. f[A] <= Power(n + 1) - 2
    BY DEF A
  <2> QED
    BY <1>8, <1>9, <1>12, <1>13, <2>1
<1>15. f[C] <= Power((n + 1) + 1) - 2
  BY <1>8, <1>14
<1> QED
  BY <1>15 DEF C

\* What a history weighs is a number.
LEMMA WeightNat ==
  ASSUME IInv, SizesOK, NEW s
  PROVE  Weight(History(s)) \in Nat
<1>1. IsFiniteSet(History(s)) /\ \A m \in History(s) : Part(m) \in Nat
  BY FS_Subset, PartNat DEF IInv, StoreInv, History, Of
<1>2. PICK f : Weight(History(s)) = f[History(s)] /\ Sums(f, History(s))
  BY <1>1, WeightSums
<1> QED
  BY <1>1, <1>2, SumSplits

\* A prompt that quotes a history of n - 1 positions
LEMMA HistoryWeighs ==
  ASSUME IInv, RoundInv, PositionOrdersRounds, SizesOK, PromptDoubles, NEW s, Regular(s)
  PROVE  Weight(History(s)) + 1 <= Power(NextPosition(s)) - 1
<1>1. IsFiniteSet(History(s)) /\ \A m \in History(s) : Part(m) \in Nat
  BY FS_Subset, PartNat DEF IInv, StoreInv, History, Of
<1>2. PICK f : Weight(History(s)) = f[History(s)] /\ Sums(f, History(s))
  BY <1>1, WeightSums
<1>3. f[{}] = 0 /\ \A u \in SUBSET History(s) : f[u] \in Nat
  BY <1>1, <1>2, SumSplits
<1> DEFINE Good(n) == f[UpTo(s, n)] <= Power(n + 1) - 2
           T == {n \in Nat : ~Good(n)}
<1>t. T \subseteq Nat /\ \A n \in Nat : n \in T <=> ~Good(n)
  OBVIOUS
<1>4. Good(0)
  <2>1. UpTo(s, 0) = {}
    <3>1. \A m \in History(s) : m.pos \in Nat \ {0}
      BY PartIs
    <3> QED
      BY <3>1 DEF UpTo
  <2>2. Power(0 + 1) = 2
    BY PowerOne
  <2>3. f[UpTo(s, 0)] = 0
    BY <1>3, <2>1, Zenon
  <2> QED
    BY <2>2, <2>3
<1>5. \A n \in Nat : Good(n) => Good(n + 1)
  BY <1>2, OnePosition
<1> HIDE DEF Good, T
<1>6. T = {}
  <2> SUFFICES ASSUME T # {} PROVE FALSE
    OBVIOUS
  <2>1. PICK m \in T : \A n \in T : m <= n
    BY <1>t, LeastNatural
  <2>2. m \in Nat /\ m # 0
    BY <1>t, <1>4
  <2>3. m - 1 \in Nat /\ (m - 1) + 1 = m /\ ~(m <= m - 1)
    BY <2>2
  <2>4. Good(m - 1)
    BY <1>t, <2>1, <2>3
  <2> QED
    BY <1>t, <1>5, <2>3, <2>4
<1> PICK n \in Nat : NextPosition(s) = n + 1
  <2>1. NextPosition(s) \in Nat \ {0}
    BY RegularPositions
  <2>2. NextPosition(s) - 1 \in Nat /\ NextPosition(s) = (NextPosition(s) - 1) + 1
    BY <2>1
  <2> QED
    BY <2>2
<1>7. UpTo(s, n) = History(s)
  <2>1. ASSUME NEW m \in History(s) PROVE m.pos <= n
    <3>1. m \in Of(s) /\ m.pos \in Nat
      BY PartIs DEF History
    <3>2. m.pos < NextPosition(s)
      BY <3>1, NextPositionIsLater DEF IInv
    <3> QED
      BY <3>1, <3>2
  <2> QED
    BY <2>1 DEF UpTo
<1>8. f[History(s)] <= Power(n + 1) - 2
  BY <1>t, <1>6, <1>7 DEF Good
<1>9. f[History(s)] \in Nat /\ Power(n + 1) \in Nat
  BY <1>3, PowerDoubles
<1>10. f[History(s)] + 1 <= Power(n + 1) - 1
  BY <1>8, <1>9
<1> QED
  BY <1>2, <1>9, <1>10

-----------------------------------------------------------------------------
(* How large a prompt may become in a session that was opened regularly:    *)
(* the history of n - 1 rounds weighs up to                                 *)
(* 2 ^ n - 2, which is 2 - 1 and 1, 4 - 1 and 1, ... for their prompts and  *)
(* answers, and while requests do not overlap the prompt made of it is the  *)
(* one that is stored in round n.                                           *)

\* Phases in which no history has been read yet
EarlyPhases == {"find", "history", "owner", "lookup", "twin", "insert"}

\* The prompt of a request is as large as the history it has read allows.
SizedJob(j) ==
  /\ j.phase \in EarlyPhases => size[j.by] = 1
  /\ Live(j.session) /\ Regular(j.session) =>
       /\ j.phase = "position" => size[j.by] <= Power(NextPosition(j.session)) - 1
       /\ j.phase \in {"question", "prompt"} => size[j.by] <= Power(j.pos) - 1

SizeInv ==
  ~overlapped =>
    /\ SizesOK
    /\ PromptDoubles
    /\ \A r \in Requests : r > requests => size[r] = 1
    /\ \A k \in Slots : SizedJob(job[k])

\* Only reading a history makes a prompt larger; a request reaches the
\* phases before from one of them, or is new.
EarlyStep ==
  /\ size' = size
  /\ requests' >= requests
  /\ \A l \in Slots :
       /\ job'[l].phase \in EarlyPhases =>
            \/ job'[l].by = job[l].by /\ job[l].phase \in EarlyPhases
            \/ job'[l].by > requests
       /\ job'[l].phase = "position" =>
            \/ job'[l] = job[l]
            \/ /\ job[l].phase = "lookup" /\ job'[l].by = job[l].by
               /\ job'[l].session = job[l].session

\* A step of a request that goes on to another phase
LEMMA OnStep ==
  ASSUME IInv, NEW k \in Slots, UNCHANGED <<size, requests>>,
         \/ job' = [job EXCEPT ![k] = Idle]
         \/ \E p \in Phases :
              /\ Goto(k, p)
              /\ p \in EarlyPhases => job[k].phase \in EarlyPhases
              /\ p = "position" => job[k].phase = "lookup"
  PROVE  EarlyStep
<1>0. requests \in Nat
  BY ConversationAssumption DEF IInv, TypeOK
<1>1. CASE job' = [job EXCEPT ![k] = Idle]
  <2>1. /\ \A l \in Slots \ {k} : job'[l] = job[l]
        /\ job'[k].phase = "idle"
    BY <1>1, EndMoves
  <2> QED
    BY <1>0, <2>1 DEF EarlyStep, EarlyPhases
<1>2. ASSUME NEW p \in Phases, Goto(k, p),
             p \in EarlyPhases => job[k].phase \in EarlyPhases,
             p = "position" => job[k].phase = "lookup"
      PROVE  EarlyStep
  <2>1. /\ \A l \in Slots \ {k} : job'[l] = job[l]
        /\ job'[k].phase = p /\ job'[k].by = job[k].by
        /\ job'[k].session = job[k].session
    BY <1>2, GotoMoves
  <2> QED
    BY <1>0, <1>2, <2>1 DEF EarlyStep
<1> QED
  BY <1>1, <1>2

\* Every step but ReadHistory is one of these.
LEMMA StepsAreEarly ==
  ASSUME IInv, Next
  PROVE  EarlyStep \/ \E k \in Slots : ReadHistory(k)
<1>0. requests \in Nat
  BY ConversationAssumption DEF IInv, TypeOK
<1>1. ASSUME NEW k \in Slots, NEW u, NEW j, Take(k, u, j), j.by = requests + 1,
             j.phase # "position"
      PROVE  EarlyStep
  <2>1. /\ size' = size /\ requests' = requests + 1
        /\ job' = [job EXCEPT ![k] = j]
    BY <1>1 DEF Take
  <2>2. job'[k] = j /\ \A l \in Slots \ {k} : job'[l] = job[l]
    BY <2>1 DEF IInv, TypeOK
  <2> QED
    BY <1>0, <1>1, <2>1, <2>2 DEF EarlyStep
<1>2. ASSUME NEW k \in Slots, Start(k) PROVE EarlyStep
  <2> PICK i : i = Idle
    OBVIOUS
  <2> PICK b : b = requests + 1
    OBVIOUS
  <2>0. i \in JobType
    BY IdleType
  <2>1. ASSUME NEW u \in Users, NEW s \in Sessions, NEW q \in Questions, Ask(k, u, s, q)
        PROVE  EarlyStep
    <3> PICK j : j = [i EXCEPT !.phase = "find", !.kind = "followup", !.user = u, !.by = b,
                               !.session = s, !.asked = q]
      OBVIOUS
    <3>1. Take(k, u, j)
      BY <2>1 DEF Ask
    <3>2. j.by = b /\ j.phase = "find"
      BY <2>0 DEF JobType
    <3> QED
      BY <1>1, <3>1, <3>2
  <2>2. ASSUME NEW u \in Users, NEW s, NEW c \in Charts, NEW q \in Questions,
               Save(k, u, s, c, q)
        PROVE  EarlyStep
    <3> PICK j : j = [i EXCEPT !.phase = "owner", !.kind = "save", !.user = u, !.by = b,
                               !.session = s, !.chart = c, !.asked = q,
                               !.list = Round(q)]
      OBVIOUS
    <3>1. Take(k, u, j)
      BY <2>2 DEF Save
    <3>2. j.by = b /\ j.phase = "owner"
      BY <2>0 DEF JobType
    <3> QED
      BY <1>1, <3>1, <3>2
  <2>4. ASSUME NEW u \in Users, NEW c \in Charts, NEW list \in Posts, Post(k, u, c, list)
        PROVE  EarlyStep
    <3> PICK j : j = [i EXCEPT !.phase = "owner", !.kind = "save", !.user = u, !.by = b,
                               !.chart = c, !.list = list]
      OBVIOUS
    <3>1. Take(k, u, j)
      BY <2>4 DEF Post
    <3>2. j.by = b /\ j.phase = "owner"
      BY <2>0 DEF JobType
    <3> QED
      BY <1>1, <3>1, <3>2
  <2>3. ASSUME NEW u \in Users, NEW s \in Sessions, Remove(k, u, s)
        PROVE  EarlyStep
    <3> PICK j : j = [i EXCEPT !.phase = "victim", !.kind = "delete", !.user = u, !.by = b,
                               !.session = s]
      OBVIOUS
    <3>1. Take(k, u, j)
      BY <2>3 DEF Remove
    <3>2. j.by = b /\ j.phase = "victim"
      BY <2>0 DEF JobType
    <3> QED
      BY <1>1, <3>1, <3>2
  <2> QED
    BY <1>2, <2>1, <2>2, <2>3, <2>4 DEF Start
<1>3. ASSUME NEW k \in Slots, Step(k) PROVE EarlyStep \/ ReadHistory(k)
  <2> DEFINE Ends == job' = [job EXCEPT ![k] = Idle]
             Goes(p) == /\ Goto(k, p)
                        /\ p \in EarlyPhases => job[k].phase \in EarlyPhases
                        /\ p = "position" => job[k].phase = "lookup"
  <2>0. EarlyPhases \subseteq Phases /\ "position" \in Phases /\ "prompt" \in Phases
        /\ "model" \in Phases /\ "answer" \in Phases /\ "stream" \in Phases
        /\ "delete" \in Phases
    BY DEF EarlyPhases, Phases
  <2>1. ASSUME UNCHANGED <<size, requests>>, Ends \/ \E p \in Phases : Goes(p)
        PROVE  EarlyStep
    BY <2>1, OnStep
  <2> HIDE DEF Goes
  <2>2. ASSUME NEW p \in Phases, p \notin EarlyPhases, p # "position", Goto(k, p)
        PROVE  Goes(p)
    BY <2>2 DEF Goes
  <2>3. CASE \E admitted \in BOOLEAN : Admit(k, admitted)
    <3>1. Goto(k, "history") \/ Ends
      BY <2>3 DEF Admit, End
    <3>2. job[k].phase = "find" /\ UNCHANGED <<size, requests>>
      BY <2>3 DEF Admit, At, history
    <3> QED
      BY <2>0, <2>1, <3>1, <3>2 DEF Goes, EarlyPhases
  <2>4. CASE ReadPosition(k)
    <3> PICK j : j = [job[k] EXCEPT !.pos = NextPosition(job[k].session), !.phase = "question"]
      OBVIOUS
    <3>1. job' = [job EXCEPT ![k] = j] /\ size' = size /\ requests' = requests
      BY <2>4 DEF ReadPosition, history
    <3>2. job[k] \in JobType /\ job \in [Slots -> JobType]
      BY DEF IInv, TypeOK
    <3>3. j.phase = "question"
      BY <3>2 DEF JobType
    <3>4. job'[k].phase = "question" /\ \A l \in Slots \ {k} : job'[l] = job[l]
      BY <3>1, <3>2, <3>3
    <3> QED
      BY <1>0, <3>1, <3>4 DEF EarlyStep, EarlyPhases
  <2>5. CASE AppendQuestion(k)
    <3>1. Goto(k, "prompt") \/ Ends
      BY <2>5 DEF AppendQuestion, End
    <3>2. UNCHANGED <<size, requests>>
      BY <2>5 DEF AppendQuestion, history
    <3> QED
      BY <2>0, <2>1, <2>2, <3>1, <3>2 DEF EarlyPhases
  <2>6. CASE AppendPrompt(k)
    <3>1. Goto(k, "answer") \/ Goto(k, "model") \/ Ends
      BY <2>6 DEF AppendPrompt, End
    <3>2. UNCHANGED <<size, requests>>
      BY <2>6 DEF AppendPrompt, history
    <3> QED
      BY <2>0, <2>1, <2>2, <3>1, <3>2 DEF EarlyPhases
  <2>7. CASE LoadModel(k)
    <3>1. Goto(k, "stream") \/ Ends
      BY <2>7 DEF LoadModel, End
    <3>2. UNCHANGED <<size, requests>>
      BY <2>7 DEF LoadModel, history
    <3> QED
      BY <2>0, <2>1, <2>2, <3>1, <3>2 DEF EarlyPhases
  <2>8. CASE \E end \in StreamEnds : Stream(k, end)
    <3>1. Goto(k, "answer") \/ Ends
      BY <2>8 DEF Stream, End
    <3>2. UNCHANGED <<size, requests>>
      BY <2>8 DEF Stream, history
    <3> QED
      BY <2>0, <2>1, <2>2, <3>1, <3>2 DEF EarlyPhases
  <2>9. CASE AppendAnswer(k)
    <3>1. Ends
      BY <2>9 DEF AppendAnswer, End, Saved
    <3>2. UNCHANGED <<size, requests>>
      BY <2>9 DEF AppendAnswer, history
    <3> QED
      BY <2>1, <3>1, <3>2
  <2>10. CASE CheckPerson(k)
    <3>1. Goto(k, "lookup") \/ Goto(k, "twin") \/ Ends
      BY <2>10 DEF CheckPerson, End
    <3>2. job[k].phase = "owner" /\ UNCHANGED <<size, requests>>
      BY <2>10 DEF CheckPerson, At, history
    <3> QED
      BY <2>0, <2>1, <3>1, <3>2 DEF Goes, EarlyPhases
  <2>11. CASE Lookup(k)
    <3>1. Goto(k, "position") \/ Goto(k, "twin")
      BY <2>11 DEF Lookup
    <3>2. job[k].phase = "lookup" /\ UNCHANGED <<size, requests>>
      BY <2>11 DEF Lookup, At, history
    <3> QED
      BY <2>0, <2>1, <3>1, <3>2 DEF Goes, EarlyPhases
  <2>12. CASE FindTwin(k)
    <3>1. Goto(k, "insert") \/ Ends
      BY <2>12 DEF FindTwin, Saved
    <3>2. job[k].phase = "twin" /\ UNCHANGED <<size, requests>>
      BY <2>12 DEF FindTwin, At, history
    <3> QED
      BY <2>0, <2>1, <3>1, <3>2 DEF Goes, EarlyPhases
  <2>13. CASE InsertSession(k)
    <3>1. Ends
      BY <2>13 DEF InsertSession, End, Saved
    <3>2. UNCHANGED <<size, requests>>
      BY <2>13 DEF InsertSession, history
    <3> QED
      BY <2>1, <3>1, <3>2
  <2>14. CASE FindVictim(k)
    <3>1. Goto(k, "delete") \/ Ends
      BY <2>14 DEF FindVictim, End
    <3>2. UNCHANGED <<size, requests>>
      BY <2>14 DEF FindVictim, history
    <3> QED
      BY <2>0, <2>1, <2>2, <3>1, <3>2 DEF EarlyPhases
  <2>15. CASE DeleteSession(k) \/ Fail(k)
    <3>1. Ends
      BY <2>15 DEF DeleteSession, Fail, End
    <3>2. UNCHANGED <<size, requests>>
      BY <2>15 DEF DeleteSession, Fail, history
    <3> QED
      BY <2>1, <3>1, <3>2
  <2> QED
    BY <1>3, <2>3, <2>4, <2>5, <2>6, <2>7, <2>8, <2>9, <2>10, <2>11, <2>12, <2>13, <2>14,
       <2>15 DEF Step
<1>4. ASSUME NEW p \in Persons, DeletePerson(p) PROVE EarlyStep
  BY <1>0, <1>4 DEF DeletePerson, history, EarlyStep
<1> QED
  BY <1>2, <1>3, <1>4 DEF Next

\* What every step but ReadHistory leaves of the sizes
LEMMA EarlySizes ==
  ASSUME IInv, IInv', SizeInv, EarlyStep, ~overlapped
  PROVE  /\ SizesOK' /\ \A r \in Requests : r > requests' => size'[r] = 1
         /\ \A l \in Slots :
              /\ job'[l].phase \in EarlyPhases => size'[job'[l].by] = 1
              /\ job'[l].phase = "position" =>
                   \/ job'[l] = job[l]
                   \/ /\ job[l].phase = "lookup" /\ job'[l].session = job[l].session
                      /\ size'[job'[l].by] = 1
<1>1. size' = size /\ requests' >= requests /\ requests \in Nat /\ requests' \in Nat
  BY ConversationAssumption DEF EarlyStep, IInv, TypeOK
<1>2. /\ SizesOK /\ \A r \in Requests : r > requests => size[r] = 1
      /\ \A l \in Slots : job[l].phase \in EarlyPhases => size[job[l].by] = 1
  BY DEF SizeInv, SizedJob
<1>3. SizesOK' /\ \A r \in Requests : r > requests' => size'[r] = 1
  <2>1. \A r \in Requests : r > requests' => r > requests
    BY <1>1 DEF Requests
  <2> QED
    BY <1>1, <1>2, <2>1 DEF SizesOK
<1>4. ASSUME NEW l \in Slots, job'[l].phase \in EarlyPhases
      PROVE  size'[job'[l].by] = 1
  <2>1. CASE job'[l].by = job[l].by /\ job[l].phase \in EarlyPhases
    BY <1>1, <1>2, <2>1
  <2>2. CASE job'[l].by > requests
    <3>1. job'[l].phase # "idle"
      BY <1>4 DEF EarlyPhases
    <3>2. job'[l].by \in 1 .. requests' /\ requests' <= MaxRequests
      BY <3>1, ConversationAssumption DEF IInv, JobInv, OwnJob, TypeOK
    <3>3. job'[l].by \in Requests
      BY <1>1, <3>2, ConversationAssumption DEF Requests
    <3> QED
      BY <1>1, <1>2, <2>2, <3>3
  <2> QED
    BY <1>4, <2>1, <2>2 DEF EarlyStep
<1>5. ASSUME NEW l \in Slots, job'[l].phase = "position", job'[l] # job[l]
      PROVE  /\ job[l].phase = "lookup" /\ job'[l].session = job[l].session
             /\ size'[job'[l].by] = 1
  <2>1. /\ job[l].phase = "lookup" /\ job'[l].by = job[l].by
        /\ job'[l].session = job[l].session
    BY <1>5 DEF EarlyStep
  <2> QED
    BY <1>1, <1>2, <2>1 DEF EarlyPhases
<1> QED
  BY <1>3, <1>4, <1>5

\* A step that leaves the store as it is, and is not ReadHistory
LEMMA QuietSizes ==
  ASSUME IInv, IInv', SizeInv, EarlyStep, NEW k \in Slots, QuietStep(k), ~overlapped'
  PROVE  SizeInv'
<1>1. /\ session' = session /\ messages' = messages /\ size' = size
      /\ \A l \in Slots \ {k} : job'[l] = job[l]
      /\ ~overlapped
  BY DEF QuietStep, Moves, EarlyStep, IInv, TypeOK
<1>2. PromptDoubles /\ \A l \in Slots : SizedJob(job[l])
  BY <1>1 DEF SizeInv
<1>3. /\ SizesOK' /\ \A r \in Requests : r > requests' => size'[r] = 1
      /\ \A l \in Slots :
           /\ job'[l].phase \in EarlyPhases => size'[job'[l].by] = 1
           /\ job'[l].phase = "position" =>
                \/ job'[l] = job[l]
                \/ size'[job'[l].by] = 1
  BY <1>1, EarlySizes
<1>4. \A s : /\ NextPosition(s)' = NextPosition(s) /\ (Live(s)' <=> Live(s))
             /\ (Regular(s)' <=> Regular(s))
  BY <1>1 DEF NextPosition, Of, Live, Regular
<1>5. ASSUME NEW s, Regular(s)
      PROVE Power(NextPosition(s)) >= 2 /\ Power(NextPosition(s)) \in Nat
  <2>1. NextPosition(s) \in Nat \ {0}
    BY <1>5, RegularPositions
  <2>2. NextPosition(s) - 1 \in Nat /\ NextPosition(s) = (NextPosition(s) - 1) + 1
    BY <2>1
  <2> QED
    BY <2>1, <2>2, PowerPositive
<1>6. ASSUME NEW l \in Slots, Live(job[l].session)', Regular(job[l].session)',
             job'[l].phase = "position"
      PROVE  size'[job'[l].by] <= Power(NextPosition(job[l].session)') - 1
  <2>1. CASE job'[l] = job[l]
    <3>1. /\ NextPosition(job[l].session)' = NextPosition(job[l].session)
          /\ Live(job[l].session) /\ Regular(job[l].session)
      BY <1>1, <1>6, <2>1 DEF NextPosition, Of, Live, Regular
    <3> QED
      BY <1>1, <1>2, <1>6, <2>1, <3>1 DEF SizedJob
  <2>2. CASE size'[job'[l].by] = 1
    <3>0. Regular(job'[l].session)
      BY <1>1, <1>6 DEF Regular, Of
    <3>1. Power(NextPosition(job'[l].session)) >= 2 /\ Power(NextPosition(job'[l].session)) \in Nat
      BY <1>5, <3>0
    <3>2. NextPosition(job[l].session)' = NextPosition(job'[l].session)
      BY <1>1 DEF NextPosition, Of
    <3> QED
      BY <2>2, <3>1, <3>2
  <2> QED
    BY <1>3, <1>6, <2>1, <2>2
<1>7. ASSUME NEW l \in Slots, Live(job[l].session)', Regular(job[l].session)',
             job'[l].phase \in {"question", "prompt"}
      PROVE  size'[job'[l].by] <= Power(job'[l].pos) - 1
  <2>1. CASE job'[l] = job[l]
    <3>1. Live(job[l].session) /\ Regular(job[l].session)
      BY <1>1, <1>7, <2>1 DEF Of, Live, Regular
    <3> QED
      BY <1>1, <1>2, <1>7, <2>1, <3>1 DEF SizedJob
  <2>2. CASE job'[l] # job[l]
    <3>1. l = k
      BY <1>1, <2>2
    <3>2. /\ job[k].phase = "position" /\ job'[k].phase = "question"
          /\ job'[k].by = job[k].by /\ job'[k].session = job[k].session
          /\ job'[k].pos = NextPosition(job[k].session)
      BY <1>7, <3>1 DEF QuietStep, Moves
    <3>3. Live(job[k].session) /\ Regular(job[k].session)
      BY <1>1, <1>7, <3>1, <3>2 DEF Live, Regular, Of
    <3>4. size[job[k].by] <= Power(NextPosition(job[k].session)) - 1
      BY <1>2, <3>2, <3>3 DEF SizedJob
    <3> QED
      BY <1>1, <3>1, <3>2, <3>4
  <2> QED
    BY <2>1, <2>2
<1>8. \A l \in Slots : SizedJob(job[l])'
  BY <1>3, <1>6, <1>7 DEF SizedJob
<1>9. PromptDoubles'
  BY <1>1, <1>2 DEF PromptDoubles, Regular, Of
<1> QED
  BY <1>3, <1>8, <1>9 DEF SizeInv

\* Reading the history makes the prompt of the request what it weighs.
LEMMA HistorySizes ==
  ASSUME IInv, RoundInv, SerialInv, SerialInv', SizeInv, NEW k \in Slots, ReadHistory(k),
         ~overlapped'
  PROVE  SizeInv'
<1> PICK i : i = job[k]
  OBVIOUS
<1> PICK w : w = Weight(History(i.session)) + 1
  OBVIOUS
<1>1. /\ session' = session /\ messages' = messages /\ requests' = requests
      /\ size' = [size EXCEPT ![i.by] = w]
      /\ i.phase = "history" /\ ~overlapped /\ Goto(k, "position")
  BY DEF ReadHistory, At, store
<1>2. /\ \A l \in Slots \ {k} : job'[l] = job[l]
      /\ job'[k].phase = "position" /\ job'[k].by = i.by /\ job'[k].session = i.session
  <2>1. "position" \in Phases
    BY DEF Phases
  <2> QED
    BY <1>1, <2>1, GotoMoves
<1>3. /\ SizesOK /\ PromptDoubles /\ PositionOrdersRounds /\ AloneAtWork
      /\ \A r \in Requests : r > requests => size[r] = 1
  BY <1>1 DEF SizeInv, SerialInv
<1>4. w \in Nat /\ (Regular(i.session) => w <= Power(NextPosition(i.session)) - 1)
  <2>1. Weight(History(i.session)) \in Nat
    BY <1>3, WeightNat
  <2>2. Regular(i.session) =>
          Weight(History(i.session)) + 1 <= Power(NextPosition(i.session)) - 1
    BY <1>3, HistoryWeighs
  <2> QED
    BY <2>1, <2>2
<1>5. i.by \in Requests /\ i.by <= requests /\ requests \in Nat
  <2>1. i.by \in 1 .. requests /\ requests \in 0 .. MaxRequests
    BY <1>1 DEF IInv, TypeOK, JobInv, OwnJob
  <2> QED
    BY <2>1, ConversationAssumption DEF Requests
<1>6. \A r \in Requests : size'[r] = IF r = i.by THEN w ELSE size[r]
  BY <1>1, <1>3 DEF SizesOK
<1>7. SizesOK'
  BY <1>1, <1>3, <1>4 DEF SizesOK
<1>8. \A r \in Requests : r > requests' => size'[r] = 1
  <2>1. \A r \in Requests : r > requests => r # i.by
    BY <1>5 DEF Requests
  <2> QED
    BY <1>1, <1>3, <1>6, <2>1
<1>9. PromptDoubles'
  <2>1. \A m \in messages : m.by \in Requests /\ m.by # i.by
    BY <1>1 DEF IInv, TypeOK, MessageType, JobInv, StoredJob, PlacedPhases
  <2> QED
    BY <1>1, <1>3, <1>6, <2>1 DEF PromptDoubles, Regular, Of
<1>10. ASSUME NEW l \in Slots PROVE SizedJob(job[l])'
  <2>1. CASE l # k
    <3>1. job'[l].phase = "idle"
      BY <1>1, <1>2, <1>3, <2>1 DEF AloneAtWork
    <3> QED
      BY <3>1 DEF SizedJob, EarlyPhases
  <2>2. CASE l = k
    <3>1. /\ NextPosition(job[k].session)' = NextPosition(i.session)
          /\ Regular(job[k].session)' => Regular(i.session)
      BY <1>1, <1>2 DEF NextPosition, Of, Regular
    <3>2. size'[job'[k].by] = w
      BY <1>2, <1>5, <1>6
    <3> QED
      BY <1>2, <1>4, <2>2, <3>1, <3>2 DEF SizedJob, EarlyPhases
  <2> QED
    BY <2>1, <2>2
<1> QED
  BY <1>7, <1>8, <1>9, <1>10 DEF SizeInv

\* The prompt goes where its size is allowed.
LEMMA WriteSizes ==
  ASSUME IInv, IInv', SerialInv, SizeInv, EarlyStep, NEW k \in Slots,
         NEW role \in {"user", "query", "assistant"}, WriteStep(k, role), ~overlapped'
  PROVE  SizeInv'
<1> PICK i : i = job[k]
  OBVIOUS
<1> PICK w : w = Message(i.session, i.pos, role, i.by, i.asked, 0)
  OBVIOUS
<1>1. w.pos = i.pos /\ w.role = role /\ w.by = i.by /\ w.nr = 0 /\ w.session = i.session
  BY DEF Message
<1>2. /\ session' = session /\ messages' = messages \cup {w} /\ ~overlapped
      /\ \A l \in Slots \ {k} : job'[l] = job[l]
      /\ i.phase # "idle" /\ Live(i.session)
      /\ size' = size
  BY DEF WriteStep, EarlyStep
<1>3. PromptDoubles /\ AloneAtWork /\ SizedJob(i)
  BY <1>2 DEF SizeInv, SerialInv
<1>4. \A l \in Slots \ {k} : job'[l].phase = "idle"
  BY <1>2, <1>3 DEF AloneAtWork
<1>5. /\ SizesOK' /\ \A r \in Requests : r > requests' => size'[r] = 1
      /\ \A l \in Slots : job'[l].phase \in EarlyPhases => size'[job'[l].by] = 1
  BY <1>2, EarlySizes
<1>r. \A s : Regular(s)' <=> Regular(s)
  <2>1. ASSUME NEW s PROVE {m \in messages' : m.session = s /\ m.nr # 0}
                             = {m \in messages : m.session = s /\ m.nr # 0}
    BY <1>1, <1>2
  <2> QED
    BY <2>1, RegularSame
<1>6. PromptDoubles'
  <2>1. role = "query" /\ Regular(i.session) => size[i.by] <= Power(i.pos) - 1
    BY <1>2, <1>3 DEF WriteStep, SizedJob
  <2>2. ASSUME NEW m \in messages', m.role = "query", Regular(m.session)'
        PROVE  size'[m.by] <= Power(m.pos) - 1
    <3>1. Regular(m.session)
      <4> PICK s : s = m.session
        OBVIOUS
      <4>1. Regular(s)'
        BY <2>2
      <4> QED
        BY <1>r, <4>1
    <3>2. CASE m \in messages
      BY <1>2, <1>3, <2>2, <3>1, <3>2 DEF PromptDoubles, Power
    <3>3. CASE m = w
      BY <1>1, <1>2, <2>1, <2>2, <3>1, <3>3
    <3> QED
      BY <1>2, <3>2, <3>3
  <2> QED
    BY <2>2 DEF PromptDoubles, Power
<1>7. ASSUME NEW l \in Slots PROVE SizedJob(job[l])'
  <2>1. CASE l # k
    BY <1>4, <2>1 DEF SizedJob, EarlyPhases
  <2>2. CASE l = k
    <3>1. job'[k].phase # "position" /\ job'[k].phase # "question"
      BY DEF WriteStep
    <3>2. job'[k].phase = "prompt" /\ Regular(job[k].session)'
            => size'[job'[k].by] <= Power(job'[k].pos) - 1
      <4>1. job'[k].phase = "prompt" =>
              /\ i.phase = "question" /\ job'[k].by = i.by /\ job'[k].pos = i.pos
              /\ job'[k].session = i.session
        BY DEF WriteStep
      <4>2. i.phase = "question" /\ Regular(i.session) => size[i.by] <= Power(i.pos) - 1
        BY <1>2, <1>3 DEF SizedJob
      <4>3. job'[k].session = i.session /\ Regular(job[k].session)' => Regular(i.session)
        <5> PICK s : s = job'[k].session
          OBVIOUS
        <5>1. Regular(job[k].session)' <=> Regular(s)'
          OBVIOUS
        <5> QED
          BY <1>r, <5>1
      <4> QED
        BY <1>2, <4>1, <4>2, <4>3
    <3> QED
      BY <1>5, <2>2, <3>1, <3>2 DEF SizedJob
  <2> QED
    BY <2>1, <2>2
<1> QED
  BY <1>5, <1>6, <1>7 DEF SizeInv

\* The prompts a session is opened with quote nothing.
LEMMA OpenSizes ==
  ASSUME IInv, IInv', SerialInv, SizeInv, EarlyStep, NEW k \in Slots, OpenStep(k), ~overlapped'
  PROVE  SizeInv'
<1> PICK i : i = job[k]
  OBVIOUS
<1> PICK n : n = NewId
  OBVIOUS
<1> PICK O : O = Opening(n, i.by, i.list)
  OBVIOUS
<1>1. /\ messages' = messages \cup O /\ ~overlapped
      /\ \A l \in Slots \ {k} : job'[l] = job[l]
      /\ i.phase = "insert" /\ job'[k].phase = "idle"
      /\ size' = size
  BY DEF OpenStep, EarlyStep
<1>2. /\ \A m \in O : m \in MessageType /\ m.session = n /\ m.by = i.by /\ m.nr # 0
      /\ \A m \in messages : m.session # n
  BY OpenFacts
<1>3. PromptDoubles /\ AloneAtWork /\ size[i.by] = 1
  BY <1>1 DEF SizeInv, SerialInv, SizedJob, EarlyPhases
<1>4. \A l \in Slots : job'[l].phase = "idle"
  BY <1>1, <1>3 DEF AloneAtWork
<1>5. SizesOK' /\ \A r \in Requests : r > requests' => size'[r] = 1
  BY <1>1, EarlySizes
<1>6. PromptDoubles'
  <2>1. ASSUME NEW m \in messages, m.role = "query", Regular(m.session)'
        PROVE  size'[m.by] <= Power(m.pos) - 1
    <3> PICK s : s = m.session
      OBVIOUS
    <3>1. s # n
      BY <1>2
    <3>2. {l \in messages' : l.session = s /\ l.nr # 0}
            = {l \in messages : l.session = s /\ l.nr # 0}
      BY <1>1, <1>2, <3>1
    <3>3. Regular(s)'
      BY <2>1
    <3>4. Regular(s)
      BY <3>2, <3>3, RegularSame
    <3> QED
      BY <1>1, <1>3, <2>1, <3>4 DEF PromptDoubles, Power
  <2>2. ASSUME NEW m \in O, Regular(m.session)'
        PROVE  size'[m.by] <= Power(m.pos) - 1
    <3>1. m \in Of(n)' /\ m.nr # 0 /\ m.session = n
      BY <1>1, <1>2 DEF Of
    <3>2. Regular(n)'
      BY <2>2, <3>1
    <3>3. m.pos >= 1
      BY <3>1, <3>2 DEF Regular
    <3>4. m.pos \in Int
      BY <1>2, PositionsInt DEF MessageType
    <3> PICK p \in Nat : m.pos = p + 1
      <4>1. m.pos - 1 \in Nat /\ m.pos = (m.pos - 1) + 1
        BY <3>3, <3>4
      <4> QED
        BY <4>1
    <3>5. Power(p + 1) >= 2 /\ Power(p + 1) \in Nat
      <4>1. p + 1 \in Nat
        OBVIOUS
      <4>2. Power(p + 1) \in Nat
        BY <4>1, PowerPositive
      <4> QED
        BY <4>2, PowerPositive
    <3>6. size'[m.by] = 1
      BY <1>1, <1>2, <1>3
    <3> QED
      BY <3>5, <3>6
  <2> QED
    BY <1>1, <2>1, <2>2 DEF PromptDoubles, Power
<1> QED
  BY <1>4, <1>5, <1>6 DEF SizeInv, SizedJob, EarlyPhases

\* A deletion leaves the rows of the other sessions.
LEMMA DropSizes ==
  ASSUME IInv, IInv', SizeInv, EarlyStep, NEW S \in SUBSET Sessions, DropStep(S), ~overlapped'
  PROVE  SizeInv'
<1>1. /\ messages' = {m \in messages : m.session \notin S}
      /\ \A s \in Sessions : Live(s)' <=> Live(s) /\ s \notin S
  BY DropFacts
<1>2. /\ ~overlapped /\ \A l \in Slots : job'[l] = job[l] \/ job'[l].phase = "idle"
      /\ size' = size
  BY DEF DropStep, EarlyStep
<1>3. PromptDoubles /\ \A l \in Slots : SizedJob(job[l])
  BY <1>2 DEF SizeInv
<1>4. /\ SizesOK' /\ \A r \in Requests : r > requests' => size'[r] = 1
      /\ \A l \in Slots : job'[l].phase \in EarlyPhases => size'[job'[l].by] = 1
  BY <1>2, EarlySizes
<1>r. ASSUME NEW s, s \notin S PROVE Regular(s)' <=> Regular(s)
  <2>1. {m \in messages' : m.session = s /\ m.nr # 0}
          = {m \in messages : m.session = s /\ m.nr # 0}
    BY <1>1, <1>r
  <2> QED
    BY <2>1, RegularSame
<1>5. PromptDoubles'
  <2>1. ASSUME NEW m \in messages', m.role = "query", Regular(m.session)'
        PROVE  size'[m.by] <= Power(m.pos) - 1
    <3> PICK s : s = m.session
      OBVIOUS
    <3>1. m \in messages /\ s \notin S
      BY <1>1
    <3>2. Regular(s)'
      BY <2>1
    <3>3. Regular(s)
      BY <1>r, <3>1, <3>2
    <3> QED
      BY <1>2, <1>3, <2>1, <3>1, <3>3 DEF PromptDoubles, Power
  <2> QED
    BY <2>1 DEF PromptDoubles, Power
<1>6. ASSUME NEW l \in Slots PROVE SizedJob(job[l])'
  <2>1. CASE job'[l].phase \notin {"position", "question", "prompt"} \/ ~Live(job[l].session)'
    BY <1>4, <2>1 DEF SizedJob
  <2>2. CASE job'[l].phase \in {"position", "question", "prompt"} /\ Live(job[l].session)'
    <3> PICK i : i = job[l]
      OBVIOUS
    <3>1. job'[l] = i /\ i.phase \in {"position", "question", "prompt"}
      BY <1>2, <2>2
    <3>2. i.session \in Sessions
      <4>1. i.session \in 1 .. created /\ created \in 0 .. MaxSessions
        BY <3>1 DEF IInv, TypeOK, JobInv, FoundJob, FoundPhases
      <4> QED
        BY <4>1, ConversationAssumption DEF Sessions
    <3>3. Live(i.session) /\ i.session \notin S
      <4>1. Live(i.session)'
        BY <2>2, <3>1 DEF Live
      <4> QED
        BY <1>1, <3>2, <4>1
    <3>4. NextPosition(job[l].session)' = NextPosition(i.session)
      <4>1. {m \in messages' : m.session = i.session} = {m \in messages : m.session = i.session}
        BY <1>1, <3>3
      <4> QED
        BY <3>1, <4>1 DEF NextPosition, Of
    <3>5. SizedJob(i)
      BY <1>3
    <3>6. Regular(job[l].session)' => Regular(i.session)
      <4> PICK s : s = i.session
        OBVIOUS
      <4>1. Regular(job[l].session)' <=> Regular(s)'
        BY <3>1
      <4> QED
        BY <1>r, <3>3, <4>1
    <3> QED
      BY <1>2, <1>4, <3>1, <3>3, <3>4, <3>5, <3>6 DEF SizedJob
  <2> QED
    BY <2>1, <2>2
<1> QED
  BY <1>4, <1>5, <1>6 DEF SizeInv

\* It holds at the start ...
LEMMA SizeInit == Init => SizeInv
<1> SUFFICES ASSUME Init PROVE SizeInv
  OBVIOUS
<1>1. /\ messages = {} /\ size = [r \in Requests |-> 1]
      /\ \A k \in Slots : job[k] = Idle
  BY DEF Init
<1>2. \A k \in Slots : job[k].phase = "idle"
  BY <1>1, IdleType
<1> QED
  BY <1>1, <1>2 DEF SizeInv, SizesOK, PromptDoubles, SizedJob, EarlyPhases

\* ... and every step keeps it.
LEMMA SizeStep ==
  IInv /\ IInv' /\ RoundInv /\ SerialInv /\ SerialInv' /\ SizeInv /\ [Next]_vars => SizeInv'
<1> SUFFICES ASSUME IInv, IInv', RoundInv, SerialInv, SerialInv', SizeInv, [Next]_vars
             PROVE  SizeInv'
  OBVIOUS
<1>1. CASE overlapped'
  BY <1>1 DEF SizeInv
<1>2. CASE Next /\ ~overlapped'
  <2>1. CASE \E k \in Slots : ReadHistory(k)
    BY <1>2, <2>1, HistorySizes
  <2>2. CASE EarlyStep
    <3>1. AnyStep
      BY <1>2, StepKinds
    <3> QED
      BY <1>2, <2>2, <3>1, QuietSizes, WriteSizes, OpenSizes, DropSizes DEF AnyStep
  <2> QED
    BY <1>2, <2>1, <2>2, StepsAreEarly
<1>3. CASE UNCHANGED vars
  <2>1. /\ session' = session /\ messages' = messages /\ job' = job /\ overlapped' = overlapped
        /\ size' = size /\ requests' = requests
    BY <1>3 DEF vars, store, history
  <2>2. \A s : /\ NextPosition(s)' = NextPosition(s) /\ (Live(s)' <=> Live(s))
               /\ (Regular(s)' <=> Regular(s))
    BY <2>1 DEF NextPosition, Of, Live, Regular
  <2>3. PromptDoubles => PromptDoubles'
    BY <2>1 DEF PromptDoubles, Regular, Of
  <2>4. ASSUME NEW l \in Slots, SizedJob(job[l]) PROVE SizedJob(job[l])'
    <3>1. /\ NextPosition(job[l].session)' = NextPosition(job[l].session)
          /\ Live(job[l].session)' <=> Live(job[l].session)
          /\ Regular(job[l].session)' <=> Regular(job[l].session)
      BY <2>1 DEF NextPosition, Of, Live, Regular
    <3> QED
      BY <2>1, <2>4, <3>1 DEF SizedJob
  <2> QED
    BY <2>1, <2>3, <2>4 DEF SizeInv, SizesOK
<1> QED
  BY <1>1, <1>2, <1>3

\* As long as no two requests have been in progress at once, no position is
\* shared by two requests (get_next_round_position), no session is opened with
\* the first question another was opened with (create_interpretation), and in
\* a session that was opened regularly the prompt of round n is made of no
\* more than 2 ^ n - 1 texts (build_message_history), whatever lists clients
\* post, whatever fails between two statements and whoever deletes a person
\* meanwhile.
THEOREM SerialUseIsKept == Spec => []KeptInSerialUse
<1>1. SerialInv /\ SizeInv => KeptInSerialUse
  BY DEF SerialInv, SizeInv, KeptInSerialUse
<1> QED
  BY <1>1, IInvInit, IInvStep, RoundInit, RoundStep, SerialInit, SerialStep,
     SizeInit, SizeStep, PTL DEF Spec
=============================================================================
