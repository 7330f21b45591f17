------------------------------ MODULE MCAtomic128 ------------------------------
EXTENDS Atomic128
CONSTANTS t1, t2
TwoThreads == {t1, t2}
TwoWords == {0, 1}

(* Two values that share no half, so that a torn one is neither of them.   *)
Whole == {[low |-> n, high |-> n] : n \in TwoWords}
Zero == [low |-> 0, high |-> 0]

(* The operands a call does not use are zero.  Of the orders there is      *)
(* another one than seq_cst where it selects other instructions.           *)
Calls ==
  {r \in [build : Build, op : Op, order : {"relaxed", "seq_cst"},
          expected : Whole, desired : Whole] :
     /\ IF r.op = "cas" THEN r.expected # r.desired ELSE r.expected = Zero
     /\ r.op = "load" => r.desired = Zero
     /\ r.order = "relaxed" => Fast(r) \/ <<r.op, r.build>> = <<"cas", "x86_64">>}
=============================================================================
