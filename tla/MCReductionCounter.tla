--------------------------- MODULE MCReductionCounter ---------------------------
EXTENDS ReductionCounter, TLC
CONSTANTS t1, t2
TwoThreads == {t1, t2}

(* Two keys with the same home.                                            *)
CollidingKeys == {9, 13}
CollidingExpected == [k \in CollidingKeys |-> 2]
=============================================================================
