------------------------------ MODULE MCSessions ------------------------------
(***************************************************************************)
(* Instance of Sessions for TLC.                                           *)
(***************************************************************************)
EXTENDS Sessions, TLC

CONSTANTS t1, t2, c1

\* The ordinary request is of t1, whose user's activity refreshes as well; the
\* other tab shares the cookies.
MCHome == c1 :> t1

\* The slots are alike.
MCSymmetry == Permutations(Handlers)
=============================================================================
