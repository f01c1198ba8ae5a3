----------------------------- MODULE Conversation -----------------------------
(***************************************************************************)
(* Stored interpretation sessions and their messages                       *)
(* (app/services/interpretation_store.py) and the requests that work on    *)
(* them at the same time in several uvicorn workers: the save at the end   *)
(* of an AI stream, POST /interpretations with whatever list of messages   *)
(* the client sends, the follow-up question                                *)
(* (app/routers/interpretations.py), the deletions.                        *)
(*                                                                         *)
(* A step is one SQL statement that reads or one transaction that commits: *)
(* every service function has its own session, the isolation level is      *)
(* PostgreSQL's default READ COMMITTED, so a read sees what has committed  *)
(* when it runs and nothing holds a lock between two steps.                *)
(***************************************************************************)
EXTENDS Integers, Sequences, FiniteSets, FiniteSetsExt

CONSTANTS
  Slots,       \* requests that can be in progress at once
  Users,
  NoUser,      \* owner of a session id that is not in use
  Persons,     \* rows of user_persons at the start
  PersonOf,    \* PersonOf[p]: the user person p belongs to
  Charts,      \* context_type, persons, mode and date of an interpretation
  NoPerson,    \* "no person": the chart is of the user's own profile
  SubjectOf,   \* SubjectOf[c]: user_persons_id of chart c
  PartnerOf,   \* PartnerOf[c]: user_person_id_2 of chart c (synastry)
  Questions,   \* texts of questions
  Blank,       \* the empty question of a stream, one of Questions
  Answers,     \* texts the provider may answer with
  StreamEnds,  \* how the stream of a follow-up may end
  Posts,       \* lists of messages clients send to POST /interpretations
  MaxPosition, \* the largest position an INTEGER column holds
  MaxSessions, \* bound: sessions ever created
  MaxRequests  \* bound: requests ever made

Sessions == 1 .. MaxSessions
Requests == 1 .. MaxRequests
NoSession == 0

\* MessageCreate: the role is one of three, the position any integer.
Roles == {"user", "query", "assistant"}
MessageCreate == [pos : Int, role : Roles, asked : Questions]

\* what PostgreSQL stores in the column position; any other row is refused
Positions == (-MaxPosition - 1) .. MaxPosition

ASSUME ConversationAssumption ==
  /\ NoUser \notin Users
  /\ PersonOf \in [Persons -> Users]
  /\ Charts # {}
  /\ Answers # {}
  /\ SubjectOf \in [Charts -> Persons \cup {NoPerson}]
  /\ PartnerOf \in [Charts -> Persons \cup {NoPerson}]
  /\ Blank \in Questions
  /\ StreamEnds \subseteq {"answer", "error", "placeholder"}
  /\ <<>> \in Posts \* the default of InterpretationCreate
  /\ Posts \subseteq Seq(MessageCreate)
  /\ MaxPosition \in Nat \ {0}
  /\ MaxSessions \in Nat
  /\ MaxRequests \in Nat

VARIABLES
  persons,   \* rows of user_persons
  session,   \* rows of user_interpretations, by id
  created,   \* the id sequence: ids handed out so far
  messages,  \* rows of user_interpretation_messages
  requests,  \* number of requests made so far
  job,       \* job[k]: the request in slot k
  saved,     \* saved[r]: the session request r was told it was saved in
  size,      \* history: size[r] is the number of texts in the prompt of r
  asker,     \* history: asker[r] is the user who made request r
  said,      \* history: said[r] is the answer request r is for
  overlapped \* history: two requests have been in progress at once

store == <<persons, session, created, messages>>
history == <<size, asker, said, overlapped>>
vars == <<store, requests, job, saved, history>>

-----------------------------------------------------------------------------
Gone == [owner |-> NoUser, chart |-> CHOOSE c \in Charts : TRUE]

Live(s) == session[s].owner # NoUser

\* mutant: the session of another user is found too
Found_AnyOwner(u, s) == s # NoSession /\ Live(s)
\* get_interpretation: None when there is no such session or another owner's
Found(u, s) == s # NoSession /\ session[s].owner = u

Of(s) == {m \in messages : m.session = s}

\* mutant: the next position is the largest one in use
NextPosition_Largest(s) == IF Of(s) = {} THEN 1 ELSE Max({m.pos : m \in Of(s)})
\* mutant: messages are counted, not rounds
NextPosition_Count(s) == Cardinality(Of(s)) + 1
\* get_next_round_position: 1, or one more than the largest position in use,
\* which a client may have chosen below 0
NextPosition(s) == IF Of(s) = {} THEN 1 ELSE Max({m.pos : m \in Of(s)}) + 1

\* build_message_history: what the provider is sent of the earlier rounds
History(s) == {m \in Of(s) : m.role \in {"query", "assistant"}}

\* A query row holds the JSON of the whole history it was built from, so its
\* size is the number of texts in it; any other text counts once.
Weight(M) ==
  MapThenSumSet(LAMBDA m : IF m.role = "query" THEN size[m.by] ELSE 1, M)

\* A row.  nr is its place in the list its session was opened with, 0 for the
\* rows that are appended to the session later.
Message(s, p, role, r, q, n) ==
  [session |-> s, pos |-> p, role |-> role, by |-> r, asked |-> q, nr |-> n]

\* mutant: the roles the comment on UserInterpretationMessage names
Round_OpenAIRoles(q) ==
  <<[pos |-> 1, role |-> "system", asked |-> q],
    [pos |-> 1, role |-> "user", asked |-> q],
    [pos |-> 1, role |-> "assistant", asked |-> q]>>
\* The messages save_or_append_stream_result opens a session with.
Round(q) ==
  <<[pos |-> 1, role |-> "user", asked |-> q],
    [pos |-> 1, role |-> "query", asked |-> q],
    [pos |-> 1, role |-> "assistant", asked |-> q]>>

\* The lists of messages a session may be opened with
Lists == Posts \cup {Round(q) : q \in Questions}

\* The messages of a new session, added in one transaction.
Opening(s, r, list) ==
  {Message(s, list[i].pos, list[i].role, r, list[i].asked, i) : i \in 1 .. Len(list)}

\* list[i] is a message the check for duplicates looks for ...
Checked(list, i) == list[i].pos = 1 /\ list[i].role = "user"

\* ... and the first of them is the one it looks for: first_user_msg.
First(list, i) == Checked(list, i) /\ \A j \in 1 .. i - 1 : ~Checked(list, j)

\* create_interpretation: the sessions that count as a duplicate of j.  There
\* are none when the list of j has no first user message.
Twins(j) ==
  {s \in Sessions :
     /\ session[s] = [owner |-> j.user, chart |-> j.chart]
     /\ \E i \in 1 .. Len(j.list), m \in Of(s) :
          /\ First(j.list, i)
          /\ m.pos = 1 /\ m.role = "user" /\ m.asked = j.list[i].asked}

\* mutant: a deleted session's id is given out again
NewId_Reused == CHOOSE s \in Sessions : ~Live(s)
\* The id sequence never hands out an id twice.
NewId == created + 1

\* mutant: no cascade over user_person_id_2
Orphans_Subject(p) == {s \in Sessions : Live(s) /\ SubjectOf[session[s].chart] = p}
\* ON DELETE CASCADE of both references to user_persons
Orphans(p) ==
  {s \in Sessions :
     Live(s) /\ p \in {SubjectOf[session[s].chart], PartnerOf[session[s].chart]}}

Idle == [phase |-> "idle", kind |-> "none", user |-> NoUser, by |-> 0,
         session |-> NoSession, chart |-> Gone.chart, asked |-> Blank, pos |-> 0,
         list |-> <<>>]

Init ==
  /\ persons = Persons
  /\ session = [s \in Sessions |-> Gone]
  /\ created = 0
  /\ messages = {}
  /\ requests = 0
  /\ job = [k \in Slots |-> Idle]
  /\ saved = [r \in Requests |-> NoSession]
  /\ size = [r \in Requests |-> 1]
  /\ asker = [r \in Requests |-> NoUser]
  /\ said \in [Requests -> Answers]
  /\ overlapped = FALSE

-----------------------------------------------------------------------------
(* Steps of a request.                                                      *)

Take(k, u, j) ==
  /\ job[k].phase = "idle"
  /\ requests < MaxRequests
  /\ requests' = requests + 1
  /\ asker' = [asker EXCEPT ![requests + 1] = u]
  /\ job' = [job EXCEPT ![k] = j]
  /\ overlapped' = (overlapped \/ \E i \in Slots : job[i].phase # "idle")
  /\ UNCHANGED <<store, saved, size, said>>

\* The request of slot k goes on to phase p.
Goto(k, p) == job' = [job EXCEPT ![k].phase = p] /\ UNCHANGED saved

\* It ends with an error, with an answer that names no session ...
End(k) == job' = [job EXCEPT ![k] = Idle] /\ UNCHANGED saved

\* ... or with the id of the session it was saved in.
Saved(k, s) ==
  /\ job' = [job EXCEPT ![k] = Idle]
  /\ saved' = [saved EXCEPT ![job[k].by] = s]

Store(k, role) ==
  messages' = messages \cup {Message(job[k].session, job[k].pos, role,
                                     job[k].by, job[k].asked, 0)}

\* The insert of a row succeeds: its session is there, for the foreign key and
\* because append_message reads the expired object again, and its position
\* fits the column.
Storable(k) == Live(job[k].session) /\ job[k].pos \in Positions

Drop(S) ==
  /\ session' = [s \in Sessions |-> IF s \in S THEN Gone ELSE session[s]]
  /\ messages' = {m \in messages : m.session \notin S}

At(k, p) == job[k].phase = p

-----------------------------------------------------------------------------
(* POST /interpretations/{id}/messages: followup_message.                   *)

Ask(k, u, s, q) ==
  Take(k, u, [Idle EXCEPT !.phase = "find", !.kind = "followup", !.user = u,
              !.by = requests + 1, !.session = s, !.asked = q])

\* 404, then 403 (no poweruser) and 429 (rate limit), which admitted stands for
Admit(k, admitted) ==
  /\ At(k, "find")
  /\ IF Found(job[k].user, job[k].session) /\ admitted
     THEN Goto(k, "history")
     ELSE End(k)
  /\ UNCHANGED <<store, requests, history>>

ReadHistory(k) ==
  /\ At(k, "history")
  /\ size' = [size EXCEPT ![job[k].by] = Weight(History(job[k].session)) + 1]
  /\ Goto(k, "position")
  /\ UNCHANGED <<store, requests, asker, said, overlapped>>

\* The question of the round is stored before the provider is called ...
ReadPosition(k) ==
  /\ At(k, "position")
  /\ job' = [job EXCEPT ![k] = [@ EXCEPT !.pos = NextPosition(job[k].session),
                                         !.phase = "question"]]
  /\ UNCHANGED <<store, requests, saved, history>>

\* append_message commits a row of its own.
AppendQuestion(k) ==
  /\ At(k, "question")
  /\ IF Storable(k)
     THEN Store(k, "user") /\ Goto(k, "prompt")
     ELSE End(k) /\ UNCHANGED messages
  /\ UNCHANGED <<persons, session, created, requests, history>>

\* mutant: an exception of the insert is swallowed, as that of the answer is
AppendPrompt_Swallowed(k) ==
  /\ At(k, "prompt")
  /\ Store(k, "query") \/ UNCHANGED messages
  /\ Goto(k, IF job[k].kind = "save" THEN "answer" ELSE "model")
  /\ UNCHANGED <<persons, session, created, requests, history>>
\* ... and so is the prompt.
AppendPrompt(k) ==
  /\ At(k, "prompt")
  /\ IF Storable(k)
     THEN Store(k, "query") /\ Goto(k, IF job[k].kind = "save" THEN "answer" ELSE "model")
     ELSE End(k) /\ UNCHANGED messages
  /\ UNCHANGED <<persons, session, created, requests, history>>

\* interp.model is read again after the commit.
LoadModel(k) ==
  /\ At(k, "model")
  /\ IF Live(job[k].session)
     THEN Goto(k, "stream")
     ELSE End(k)
  /\ UNCHANGED <<store, requests, history>>

\* DISABLE_AI ends the stream with a placeholder that is not stored.
Stream(k, end) ==
  /\ At(k, "stream")
  /\ IF end = "answer" THEN Goto(k, "answer") ELSE End(k)
  /\ UNCHANGED <<store, requests, history>>

\* A follow-up reports "done" even when its answer could not be stored.
AppendAnswer(k) ==
  /\ At(k, "answer")
  /\ IF Storable(k)
     THEN /\ Store(k, "assistant")
          /\ IF job[k].kind = "save" THEN Saved(k, job[k].session) ELSE End(k)
     ELSE End(k) /\ UNCHANGED messages
  /\ UNCHANGED <<persons, session, created, requests, history>>

-----------------------------------------------------------------------------
(* save_or_append_stream_result, and POST /interpretations, which goes the  *)
(* same way with no session to append to and the list of the client.        *)

Save(k, u, s, c, q) ==
  Take(k, u, [Idle EXCEPT !.phase = "owner", !.kind = "save", !.user = u,
              !.by = requests + 1, !.session = s, !.chart = c, !.asked = q,
              !.list = Round(q)])

Post(k, u, c, list) ==
  Take(k, u, [Idle EXCEPT !.phase = "owner", !.kind = "save", !.user = u,
              !.by = requests + 1, !.chart = c, !.list = list])

\* _assert_person_ownership
CheckPerson(k) ==
  LET p == SubjectOf[job[k].chart] IN
  /\ At(k, "owner")
  /\ IF p = NoPerson \/ (p \in persons /\ PersonOf[p] = job[k].user)
     THEN Goto(k, IF job[k].session = NoSession THEN "twin" ELSE "lookup")
     ELSE End(k)
  /\ UNCHANGED <<store, requests, history>>

Lookup(k) ==
  /\ At(k, "lookup")
  /\ Goto(k, IF Found(job[k].user, job[k].session) THEN "position" ELSE "twin")
  /\ UNCHANGED <<store, requests, history>>

\* A duplicate is returned as if it had been saved.
FindTwin(k) ==
  /\ At(k, "twin")
  /\ IF Twins(job[k]) = {}
     THEN Goto(k, "insert")
     ELSE \E s \in Twins(job[k]) : Saved(k, s)
  /\ UNCHANGED <<store, requests, history>>

\* The session and all of its messages, or an error and none of them.
InsertSession(k) ==
  LET j == job[k] IN
  /\ At(k, "insert")
  /\ IF /\ {SubjectOf[j.chart], PartnerOf[j.chart]} \subseteq persons \cup {NoPerson}
        /\ \A i \in 1 .. Len(j.list) : j.list[i].pos \in Positions
     THEN /\ created < MaxSessions
          /\ created' = created + 1
          /\ session' = [session EXCEPT ![NewId] = [owner |-> j.user, chart |-> j.chart]]
          /\ messages' = messages \cup Opening(NewId, j.by, j.list)
          /\ Saved(k, NewId)
     ELSE End(k) /\ UNCHANGED <<session, created, messages>>
  /\ UNCHANGED <<persons, requests, history>>

-----------------------------------------------------------------------------
(* Deletions and failures.                                                  *)

Remove(k, u, s) ==
  Take(k, u, [Idle EXCEPT !.phase = "victim", !.kind = "delete", !.user = u,
              !.by = requests + 1, !.session = s])

FindVictim(k) ==
  /\ At(k, "victim")
  /\ IF Found(job[k].user, job[k].session)
     THEN Goto(k, "delete")
     ELSE End(k)
  /\ UNCHANGED <<store, requests, history>>

DeleteSession(k) ==
  /\ At(k, "delete")
  /\ Drop({job[k].session})
  /\ End(k)
  /\ UNCHANGED <<persons, created, requests, history>>

\* auth.delete_person: the cascades of the database remove the rest.
DeletePerson(p) ==
  /\ p \in persons
  /\ persons' = persons \ {p}
  /\ Drop(Orphans(p))
  /\ UNCHANGED <<created, requests, job, saved, history>>

\* The worker is killed, the client goes away, a statement raises: what the
\* request has committed stays, the rest never happens.
Fail(k) ==
  /\ ~At(k, "idle")
  /\ End(k)
  /\ UNCHANGED <<store, requests, history>>

-----------------------------------------------------------------------------
Start(k) ==
  \E u \in Users :
    \/ \E s \in Sessions, q \in Questions \ {Blank} : Ask(k, u, s, q)
    \/ \E s \in Sessions \cup {NoSession}, c \in Charts, q \in Questions :
         Save(k, u, s, c, q)
    \/ \E c \in Charts, list \in Posts : Post(k, u, c, list)
    \/ \E s \in Sessions : Remove(k, u, s)

Step(k) ==
  \/ \E admitted \in BOOLEAN : Admit(k, admitted)
  \/ ReadHistory(k) \/ ReadPosition(k)
  \/ AppendQuestion(k) \/ AppendPrompt(k)
  \/ LoadModel(k)
  \/ \E end \in StreamEnds : Stream(k, end)
  \/ AppendAnswer(k)
  \/ CheckPerson(k) \/ Lookup(k) \/ FindTwin(k) \/ InsertSession(k)
  \/ FindVictim(k) \/ DeleteSession(k)
  \/ Fail(k)

Next ==
  \/ \E k \in Slots : Start(k) \/ Step(k)
  \/ \E p \in Persons : DeletePerson(p)

Spec == Init /\ [][Next]_vars

-----------------------------------------------------------------------------
(* Properties.                                                              *)

MessageType ==
  [session : Sessions, pos : Positions, role : Roles, by : Requests,
   asked : Questions, nr : Nat]

Phases == {"idle", "find", "history", "position", "question", "prompt", "model",
           "stream", "answer", "owner", "lookup", "twin", "insert", "victim",
           "delete"}

JobType ==
  [phase : Phases, kind : {"none", "followup", "save", "delete"},
   user : Users \cup {NoUser}, by : 0 .. MaxRequests,
   session : Sessions \cup {NoSession}, chart : Charts, asked : Questions,
   pos : Int, list : Lists]

\* Every variable has its type; a role outside user, query and assistant
\* would be left out of every history.
TypeOK ==
  /\ persons \subseteq Persons
  /\ session \in [Sessions -> [owner : Users \cup {NoUser}, chart : Charts]]
  /\ created \in 0 .. MaxSessions
  /\ messages \subseteq MessageType
  /\ requests \in 0 .. MaxRequests
  /\ job \in [Slots -> JobType]
  /\ saved \in [Requests -> Sessions \cup {NoSession}]
  /\ asker \in [Requests -> Users \cup {NoUser}]
  /\ said \in [Requests -> Answers]
  /\ overlapped \in BOOLEAN

\* No message outlives its session and no session outlives a person it is
\* about, whatever the requests in flight go on to write after the deletion.
NothingDangles ==
  /\ \A m \in messages : Live(m.session)
  /\ \A s \in Sessions : Live(s) =>
       {SubjectOf[session[s].chart], PartnerOf[session[s].chart]}
         \subseteq persons \cup {NoPerson}

\* A message stands only in a session of the user who made the request, and
\* no request reports another user's session as the one it saved.
OnlyOwnerWrites ==
  /\ \A m \in messages : asker[m.by] = session[m.session].owner
  /\ \A r \in Requests :
       saved[r] # NoSession /\ Live(saved[r]) => session[saved[r]].owner = asker[r]

\* What a request has appended is the question, the question and the prompt,
\* or all three, under one position: an answer never stands without its
\* question, however the request ended.  A request never writes to two
\* sessions, nor both opens one and appends to one.
RoundsInOrder ==
  \A m \in messages :
    /\ m.nr = 0 => \A role \in {"user", "query"} :
         (m.role = "assistant" \/ (m.role = "query" /\ role = "user")) =>
            Message(m.session, m.pos, role, m.by, m.asked, 0) \in messages
    /\ \A n \in messages : n.by = m.by =>
         /\ n.session = m.session
         /\ m.nr = 0 => n.nr = 0 /\ n.pos = m.pos

\* A round that is appended continues the numbering of its session: it is
\* round 1 or follows a row that is there, also when two requests computed the
\* next position at once, and wherever the client let the numbering begin.
NoGaps ==
  \A m \in messages :
    m.nr = 0 /\ m.pos # 1 => \E n \in Of(m.session) : n.pos = m.pos - 1

\* "Die Reihenfolge im Gespraech wird durch position ... bestimmt"
\* (UserInterpretationMessage): no two requests share a position of a session.
PositionOrdersRounds ==
  \A m, n \in messages :
    m.session = n.session /\ m.pos = n.pos => m.by = n.by

\* the rows a session was opened with that are a first question of the user
Asking(m) == m.nr # 0 /\ m.pos = 1 /\ m.role = "user"

\* m is the first of them, the one that the check for duplicates looked for.
AskedFirst(m) ==
  Asking(m) /\ \A n \in Of(m.session) : Asking(n) => m.nr <= n.nr

\* "Duplikatschutz" (create_interpretation): no session is opened with the
\* first question that an older one of the same user and chart was opened
\* with.  A session opened with no question at position 1 is not checked.
NoTwins ==
  \A m, n \in messages :
    /\ Asking(m) /\ AskedFirst(n)
    /\ m.asked = n.asked
    /\ session[m.session] = session[n.session]
    => n.session <= m.session

\* Session s was opened with positions from 1 on and no role twice at one,
\* as save_or_append_stream_result opens it.
Regular(s) ==
  \A m, n \in Of(s) : m.nr # 0 /\ n.nr # 0 =>
    m.pos >= 1 /\ (m.pos = n.pos /\ m.role = n.role => m = n)

\* The prompt stored for round n quotes every prompt before it, so it can hold
\* up to 2^n - 1 texts, and no more: each text of the conversation is quoted
\* at most once per prompt that quotes it.
PromptDoubles ==
  \A m \in messages :
    m.role = "query" /\ Regular(m.session) => size[m.by] <= 2 ^ m.pos - 1

\* A user with one tab finds these promises of the store kept, whatever fails
\* between two statements: they need two requests in progress at once to
\* break, and then all of them do.
KeptInSerialUse == ~overlapped => PositionOrdersRounds /\ NoTwins /\ PromptDoubles

-----------------------------------------------------------------------------
(* The stored rows keep the promise of a Dialogue.                          *)

\* The rows session s was opened with, and those appended to it
Opened(s) == {m \in Of(s) : m.nr # 0}
Appended(s) == {m \in Of(s) : m.nr = 0}

\* The round of the request that appended row m: one per such request
RoundOf(m) ==
  [by |-> m.by, pos |-> m.pos,
   stage |-> IF [m EXCEPT !.role = "assistant"] \in messages THEN 3
             ELSE IF [m EXCEPT !.role = "query"] \in messages THEN 2 ELSE 1]

\* The row as the client sent it, with its place and its request
SentOf(m) ==
  [by |-> m.by, nr |-> m.nr, pos |-> m.pos, role |-> m.role, asked |-> m.asked]

Life == [s \in Sessions |->
           IF Live(s) THEN "open" ELSE IF s <= created THEN "gone" ELSE "new"]

Openings == [s \in Sessions |-> {SentOf(m) : m \in Opened(s)}]

Rounds == [s \in Sessions |-> {RoundOf(m) : m \in Appended(s)}]

Promise == INSTANCE Dialogue WITH life <- Life, opening <- Openings, rounds <- Rounds

\* Sessions are opened with a whole list, deleted whole and never return; later
\* rounds are begun, prompted and answered in that order and never change
\* afterwards.
Promised == Promise!Spec
=============================================================================
