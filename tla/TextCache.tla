------------------------------ MODULE TextCache ------------------------------
(***************************************************************************)
(* What the provider cache promises whatever happens to Redis and to the   *)
(* workers: it may forget at any time, but a hit is a text that was put    *)
(* under that very key less than Ttl ago.  The implementation is           *)
(* ProviderCache.                                                          *)
(***************************************************************************)
EXTENDS Integers

CONSTANTS Keys, Texts, Ttl

VARIABLES
  clock,   \* the time
  kept,    \* the puts the cache may still answer: [key, text, until]
  answer   \* the last answer: [key, hit, text, until]

vars == <<clock, kept, answer>>

Put == [key : Keys, text : Texts, until : Nat]
Answer == [key : Keys, hit : BOOLEAN, text : Texts, until : Nat]

Init ==
  /\ clock = 0
  /\ kept = {}
  /\ answer \in {a \in Answer : ~a.hit}

Forget ==
  /\ kept' \subseteq kept
  /\ UNCHANGED <<clock, answer>>

Store ==
  /\ \E k \in Keys, x \in Texts :
       kept' \subseteq kept \cup {[key |-> k, text |-> x, until |-> clock + Ttl]}
  /\ UNCHANGED <<clock, answer>>

Lookup ==
  /\ answer' \in Answer
  /\ answer'.hit =>
       \E p \in kept : /\ p.key = answer'.key
                       /\ p.text = answer'.text
                       /\ p.until = answer'.until
                       /\ p.until > clock
  /\ kept' \subseteq kept
  /\ UNCHANGED clock

Tick ==
  /\ clock' = clock + 1
  /\ kept' \subseteq kept
  /\ UNCHANGED answer

Next == Forget \/ Store \/ Lookup \/ Tick

Spec == Init /\ [][Next]_vars
=============================================================================
