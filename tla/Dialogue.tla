------------------------------- MODULE Dialogue -------------------------------
(***************************************************************************)
(* What a stored conversation promises, with no database, no statements    *)
(* and no transactions: a session is opened once, with the whole of a list *)
(* of messages, and keeps them as they are; a later round is begun with    *)
(* its question, gets its prompt and then its answer, and never loses any  *)
(* of them while the session lives; its number continues those in use; a   *)
(* session that was deleted takes everything with it and never comes back. *)
(***************************************************************************)
EXTENDS Integers, Sequences

CONSTANTS
  Sessions,  \* session ids
  Requests,  \* the requests that may open a session or contribute a round
  Lists      \* the lists of messages a session may be opened with

VARIABLES
  life,      \* life[s]: "new", "open" or "gone"
  opening,   \* opening[s]: the messages session s was opened with
  rounds     \* rounds[s]: the rounds after that, [by, pos, stage]; stage 1: the
             \* question is stored, 2: and the prompt, 3: and the answer

vars == <<life, opening, rounds>>

Contributed(r) ==
  \E s \in Sessions : \E m \in opening[s] \cup rounds[s] : m.by = r

\* The numbers that continue the numbering of s: 1 and those after a number in
\* use (two requests that ask at once may share one).
Continuing(s) == {1} \cup {m.pos + 1 : m \in opening[s] \cup rounds[s]}

\* The messages of list as request r sent them
Sent(r, list) ==
  {[by |-> r, nr |-> i, pos |-> list[i].pos, role |-> list[i].role,
    asked |-> list[i].asked] : i \in 1 .. Len(list)}

Init ==
  /\ life = [s \in Sessions |-> "new"]
  /\ opening = [s \in Sessions |-> {}]
  /\ rounds = [s \in Sessions |-> {}]

Open(s, r, list) ==
  /\ life[s] = "new"
  /\ ~Contributed(r)
  /\ life' = [life EXCEPT ![s] = "open"]
  /\ opening' = [opening EXCEPT ![s] = Sent(r, list)]
  /\ UNCHANGED rounds

Begin(s, r, p) ==
  /\ life[s] = "open"
  /\ ~Contributed(r)
  /\ rounds' = [rounds EXCEPT ![s] = @ \cup {[by |-> r, pos |-> p, stage |-> 1]}]
  /\ UNCHANGED <<life, opening>>

Advance(s, m) ==
  /\ m.stage < 3
  /\ rounds' = [rounds EXCEPT ![s] =
                  (@ \ {m}) \cup {[m EXCEPT !.stage = m.stage + 1]}]
  /\ UNCHANGED <<life, opening>>

Forget(S) ==
  /\ S # {} /\ \A s \in S : life[s] = "open"
  /\ life' = [s \in Sessions |-> IF s \in S THEN "gone" ELSE life[s]]
  /\ opening' = [s \in Sessions |-> IF s \in S THEN {} ELSE opening[s]]
  /\ rounds' = [s \in Sessions |-> IF s \in S THEN {} ELSE rounds[s]]

Next ==
  \/ \E s \in Sessions, r \in Requests, list \in Lists : Open(s, r, list)
  \/ \E s \in Sessions, r \in Requests : \E p \in Continuing(s) : Begin(s, r, p)
  \/ \E s \in Sessions : \E m \in rounds[s] : Advance(s, m)
  \/ \E S \in SUBSET Sessions : Forget(S)

Spec == Init /\ [][Next]_vars
=============================================================================
