--------------------------- MODULE MCConversation ---------------------------
(***************************************************************************)
(* Instances of Conversation for TLC: the persons of the users, the charts *)
(* that refer to them and the lists that clients send.                     *)
(***************************************************************************)
EXTENDS Conversation, TLC

CONSTANTS u1, u2, p1, p2, pair, np, k1, k2, blank, q1

SlotSymmetry == Permutations({k1, k2})

\* u1 has entered the persons p1 and p2; "pair" is their synastry.
PersonsOfU1 == p1 :> u1 @@ p2 :> u1
Subjects == pair :> p1
Partners == pair :> p2

Row(p, role, q) == [pos |-> p, role |-> role, asked |-> q]

\* No message at all; an answer alone, before the first position; two first
\* questions behind a prompt at the last position; a position that does not fit.
PostedLists ==
  {<<>>,
   <<Row(-1, "assistant", blank)>>,
   <<Row(MaxPosition, "query", q1), Row(1, "user", q1), Row(1, "user", blank)>>,
   <<Row(MaxPosition + 1, "user", q1)>>}
=============================================================================
