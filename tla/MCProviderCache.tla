--------------------------- MODULE MCProviderCache ---------------------------
(***************************************************************************)
(* Instances of ProviderCache for TLC: which worker each thread is in.     *)
(***************************************************************************)
EXTENDS ProviderCache, TLC

CONSTANTS w1, w2, t1, t2

TwoThreads == t1 :> w1 @@ t2 :> w2
OneThread  == t1 :> w1
=============================================================================
