----------------------------- MODULE ThinkFilter -----------------------------
(***************************************************************************)
(* What keeps a reasoning model's <think> blocks from the reader of a      *)
(* streamed answer: _ThinkStreamFilter (app/services/perplexity.py), whose *)
(* chunks are cut at arbitrary places.                                     *)
(*                                                                         *)
(* A text is a sequence of characters.  The code lower-cases the buffer    *)
(* before it looks for a tag, so the case of the tags is left out here.    *)
(***************************************************************************)
EXTENDS Integers, Sequences, FiniteSetsExt, SequencesExt

CONSTANTS
  Characters,
  OpenTag,   \* _THINK_OPEN_TAG
  CloseTag,  \* _THINK_CLOSE_TAG
  Texts      \* the answers the model may stream

ASSUME ThinkFilterAssumption ==
  /\ OpenTag \in Seq(Characters) /\ CloseTag \in Seq(Characters)
  /\ Texts \subseteq Seq(Characters)
  /\ OpenTag # <<>> /\ CloseTag # <<>>

VARIABLES
  text,     \* the answer
  read,     \* number of its characters that have arrived
  buffer,   \* _buffer
  inside,   \* _inside_think
  output,   \* output of the process call in progress
  shown,    \* what process and flush have returned so far
  dropped,  \* history: a process call returned "" although output was not
  phase     \* "wait" for a chunk, "scan" in process, "done" after flush

vars == <<text, read, buffer, inside, output, shown, dropped, phase>>

-----------------------------------------------------------------------------
(* Strings.                                                                 *)

Occurs(s, tag, i) ==
  i + Len(tag) - 1 <= Len(s) /\ SubSeq(s, i, i + Len(tag) - 1) = tag

Finds(s, tag) == {i \in 1 .. Len(s) : Occurs(s, tag, i)}

From(s, i) == SubSeq(s, i, Len(s))
Before(s, i) == SubSeq(s, 1, i - 1)

\* mutant: the range of sizes ends one too early
Overlap_Short(s, marker) ==
  Max({0} \cup {n \in 1 .. Len(marker) - 2 :
                  n <= Len(s) /\ IsSuffix(SubSeq(marker, 1, n), s)})
\* _suffix_prefix_overlap
Overlap(s, marker) ==
  Max({0} \cup {n \in 1 .. Len(marker) - 1 :
                  n <= Len(s) /\ IsSuffix(SubSeq(marker, 1, n), s)})

\* mutant: the whole rest is kept while a block is open
Keep_All(s, marker) == s
\* The end of s that may be the beginning of a tag
Keep(s, marker) == From(s, Len(s) - Overlap(s, marker) + 1)

-----------------------------------------------------------------------------
Init ==
  /\ text \in Texts
  /\ read = 0 /\ buffer = <<>> /\ inside = FALSE
  /\ output = <<>> /\ shown = <<>> /\ dropped = FALSE
  /\ phase = "wait"

\* process is called with the next n characters.
Process(n) ==
  /\ phase = "wait"
  /\ buffer' = buffer \o SubSeq(text, read + 1, read + n)
  /\ read' = read + n
  /\ output' = <<>>
  /\ phase' = "scan"
  /\ UNCHANGED <<text, inside, shown, dropped>>

Return(s) == shown' = shown \o s /\ phase' = "wait"

\* The loop body in a block that ends in the buffer: it goes on behind it.
SkipBlock ==
  /\ phase = "scan" /\ inside /\ Finds(buffer, CloseTag) # {}
  /\ buffer' = From(buffer, Min(Finds(buffer, CloseTag)) + Len(CloseTag))
  /\ inside' = FALSE
  /\ UNCHANGED <<text, read, output, shown, dropped, phase>>

\* The block does not end in the buffer: process returns "" and with it
\* forgets what this call had collected.
AwaitClose ==
  /\ phase = "scan" /\ inside /\ buffer # <<>> /\ Finds(buffer, CloseTag) = {}
  /\ buffer' = Keep(buffer, CloseTag)
  /\ dropped' = (dropped \/ output # <<>>)
  /\ Return(<<>>)
  /\ UNCHANGED <<text, read, inside, output>>

\* mutant: what is shown stays in the buffer
ShowRest_NotCut ==
  LET kept == Keep(buffer, OpenTag) IN
  /\ phase = "scan" /\ ~inside /\ buffer # <<>> /\ Finds(buffer, OpenTag) = {}
  /\ Return(output \o Before(buffer, Len(buffer) - Len(kept) + 1))
  /\ UNCHANGED <<text, read, buffer, inside, output, dropped>>
\* No block begins in the buffer: all but a possible beginning is shown.
ShowRest ==
  LET kept == Keep(buffer, OpenTag) IN
  /\ phase = "scan" /\ ~inside /\ buffer # <<>> /\ Finds(buffer, OpenTag) = {}
  /\ buffer' = kept
  /\ Return(output \o Before(buffer, Len(buffer) - Len(kept) + 1))
  /\ UNCHANGED <<text, read, inside, output, dropped>>

\* A block begins: what stands before it is visible.
EnterBlock ==
  LET i == Min(Finds(buffer, OpenTag)) IN
  /\ phase = "scan" /\ ~inside /\ Finds(buffer, OpenTag) # {}
  /\ output' = output \o Before(buffer, i)
  /\ buffer' = From(buffer, i + Len(OpenTag))
  /\ inside' = TRUE
  /\ UNCHANGED <<text, read, shown, dropped, phase>>

\* while self._buffer ends
Empty ==
  /\ phase = "scan" /\ buffer = <<>>
  /\ Return(output)
  /\ UNCHANGED <<text, read, buffer, inside, output, dropped>>

Remainder == IF inside THEN <<>> ELSE buffer

Flush ==
  /\ phase = "wait" /\ read = Len(text)
  /\ shown' = shown \o Remainder
  /\ buffer' = <<>>
  /\ phase' = "done"
  /\ UNCHANGED <<text, read, inside, output, dropped>>

Next ==
  \/ \E n \in 1 .. Len(text) - read : Process(n)
  \/ SkipBlock \/ AwaitClose \/ ShowRest \/ EnterBlock \/ Empty
  \/ Flush

Spec == Init /\ [][Next]_vars

-----------------------------------------------------------------------------
(* What the reader should see.                                              *)

\* Where a block that begins at i may end
Ends(s, i) ==
  {j + Len(CloseTag) : j \in {k \in Finds(s, CloseTag) : k >= i + Len(OpenTag)}}

\* What is visible from each place on: s without its blocks, a block that is
\* never closed reaching to the end
VisibleFrom(s) ==
  LET V[i \in 1 .. Len(s) + 1] ==
        IF i > Len(s) THEN <<>>
        ELSE IF ~Occurs(s, OpenTag, i) THEN <<s[i]>> \o V[i + 1]
        ELSE IF Ends(s, i) = {} THEN <<>> ELSE V[Min(Ends(s, i))]
  IN V
Visible(s) == VisibleFrom(s)[1]

\* The earliest places in b of the elements of a, in their order
Places(a, b) ==
  LET At[i \in 0 .. Len(a)] ==
        IF i = 0 THEN 0
        ELSE Min({j \in At[i - 1] + 1 .. Len(b) : b[j] = a[i]} \cup {Len(b) + 1})
  IN At
\* a is b with some elements left out
IsPartOf(a, b) == Places(a, b)[Len(a)] <= Len(b)

\* Every variable has its type; no string grows beyond the answer.
TypeOK ==
  /\ read \in 0 .. Len(text)
  /\ inside \in BOOLEAN /\ dropped \in BOOLEAN
  /\ phase \in {"wait", "scan", "done"}
  /\ \A s \in {buffer, output, shown} : Len(s) <= Len(text)

\* However an answer is cut into chunks, nothing of a block is ever shown,
\* and in the end the reader has seen exactly the visible part, unless a call
\* dropped what it had collected.  (A call that enters a block it does not
\* leave returns nothing: _ThinkStreamFilter.process.)
ShowsTheVisible ==
  /\ IsPartOf(shown, Visible(text))
  /\ phase = "done" /\ ~dropped => shown = Visible(text)

\* Between two chunks the filter holds back less than a tag, whatever the
\* model streams: the buffer does not grow with the answer.
HoldsBackLittle ==
  phase = "wait" =>
    Len(buffer) < Len(IF inside THEN CloseTag ELSE OpenTag)
=============================================================================
