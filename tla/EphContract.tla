----------------------------- MODULE EphContract -----------------------------
(***************************************************************************)
(* What the callers of the Swiss Ephemeris library count on: the answer to *)
(* a question is a function of the question, of the files there are and of *)
(* the directory they are in.  Nothing asked before, of any body, date or  *)
(* theory, shows in it.                                                    *)
(***************************************************************************)
CONSTANTS Files, Path, Question, AnswerOf, NoQuestion, NoAnswer

VARIABLES files, path, asked, answer
vars == <<files, path, asked, answer>>

Init == files \in Files /\ path \in Path /\ asked = NoQuestion /\ answer = NoAnswer

SetPath == /\ path' \in Path
           /\ asked' = NoQuestion /\ answer' = NoAnswer
           /\ UNCHANGED files

Ask == /\ asked' \in Question
       /\ answer' = AnswerOf[files, path, asked']
       /\ UNCHANGED <<files, path>>

Next == SetPath \/ Ask
Spec == Init /\ [][Next]_vars
=============================================================================
