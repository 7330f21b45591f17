--------------------------- MODULE MCReductionHandler ---------------------------
EXTENDS ReductionHandler, TLC
CONSTANTS t1, t2
TwoThreads == {t1, t2}
TwoInOrder == <<t1, t2>>

(* Key 10 has its slot for itself; 11 and 15 share the last slot as home,  *)
(* so that one of them wraps around, and have only one contribution each.  *)
MixedKeys == {10, 11, 15}
MixedExpected == (10 :> 3) @@ (11 :> 1) @@ (15 :> 1)
=============================================================================
