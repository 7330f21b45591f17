---------------------------- MODULE ReductionCounter ----------------------------
(***************************************************************************)
(* reduction::detail::Counter: the lock-free table in which the threads of *)
(* a process count their contributions to each reduction.  A slot holds    *)
(* the key of a reduction and the number of contributions it still expects.*)
(* Keys are found by linear probing from key % Size.                       *)
(*                                                                         *)
(* Each atomic operation of increment() is a step of its own.  Any thread  *)
(* may make any contribution: elements are not bound to threads.           *)
(***************************************************************************)
EXTENDS Integers, FiniteSets

CONSTANTS
  Thread,
  Key,        \* the reductions; 0 is the sentinel
  Size,       \* max_entries
  Expected    \* what compute_expected returns for each key

ASSUME KeyAssumption == Key \subseteq Nat \ {0}
ASSUME SizeAssumption == Size \in Nat \ {0} /\ \E n \in 0 .. Size : Size = 2 ^ n
ASSUME ExpectedAssumption == Expected \in [Key -> Nat \ {0}]

Slot == 0 .. Size - 1
Free == 0   \* the sentinel
Home(k) == k % Size

VARIABLES
  key, counter,    \* the two atomics of each entry
  pc, op, index,   \* the place of each thread in increment, its key, its slot
  left,            \* contributions nobody has started to make
  completed        \* how often increment has returned true for a key

table == <<key, counter>>
vars == <<table, pc, op, index, left, completed>>

TypeOK ==
  /\ key \in [Slot -> Key \cup {Free}]
  /\ counter \in [Slot -> Int]
  /\ pc \in [Thread -> {"idle", "probe", "claim", "add", "sub", "free", "thrown"}]
  /\ op \in [Thread -> Key \cup {Free}]
  /\ index \in [Thread -> Slot]
  /\ left \in [Key -> Nat]
  /\ completed \in [Key -> Nat]

Init ==
  /\ key = [i \in Slot |-> Free]
  /\ counter = [i \in Slot |-> 0]
  /\ pc = [t \in Thread |-> "idle"]
  /\ op = [t \in Thread |-> Free]
  /\ index = [t \in Thread |-> 0]
  /\ left = Expected
  /\ completed = [k \in Key |-> 0]

Goto(t, place) == pc' = [pc EXCEPT ![t] = place]
Working(k) == {t \in Thread : op[t] = k}

-----------------------------------------------------------------------------
(* increment                                                               *)

Begin(t, k) ==
  /\ pc[t] = "idle"
  /\ left[k] > 0
  /\ left' = [left EXCEPT ![k] = @ - 1]
  /\ op' = [op EXCEPT ![t] = k]
  /\ index' = [index EXCEPT ![t] = Home(k)]
  /\ Goto(t, "probe")
  /\ UNCHANGED <<table, completed>>

(* Mutant of Advance: the slot is never left.                              *)
AdvanceNowhere(t) == Goto(t, "probe") /\ UNCHANGED index

(* Mutant of Advance: the index is masked too late.                        *)
AdvanceUnmasked(t) ==
  /\ Goto(t, "probe")
  /\ index' = [index EXCEPT ![t] = @ + 1]

(* The end of a turn of the loop.  The incremented index is not masked yet *)
(* when it is compared with key - 1, so it is one of 1 .. Size.            *)
Advance(t) ==
  /\ Goto(t, IF index[t] + 1 = op[t] - 1 THEN "thrown" ELSE "probe")
  /\ index' = [index EXCEPT ![t] = (@ + 1) % Size]

(* The relaxed load of the slot's key.                                     *)
Probe(t) ==
  /\ pc[t] = "probe"
  /\ \/ key[index[t]] = op[t] /\ Goto(t, "sub") /\ UNCHANGED index
     \/ key[index[t]] = Free /\ Goto(t, "claim") /\ UNCHANGED index
     \/ key[index[t]] \notin {op[t], Free} /\ Advance(t)
  /\ UNCHANGED <<table, op, left, completed>>

(* Mutant of Claim: who finds that another thread has just claimed the     *)
(* slot for the same key adds the expected number as well.                 *)
ClaimForAll(t) ==
  /\ pc[t] = "claim"
  /\ \/ /\ key[index[t]] \in {Free, op[t]}
        /\ key' = [key EXCEPT ![index[t]] = op[t]]
        /\ Goto(t, "add")
        /\ UNCHANGED index
     \/ key[index[t]] \notin {op[t], Free} /\ Advance(t) /\ UNCHANGED key
  /\ UNCHANGED <<counter, op, left, completed>>

(* compare_exchange_strong: the slot was free when it was probed, and may  *)
(* have been claimed since, for this key or for another one.               *)
Claim(t) ==
  /\ pc[t] = "claim"
  /\ \/ /\ key[index[t]] = Free
        /\ key' = [key EXCEPT ![index[t]] = op[t]]
        /\ Goto(t, "add")
        /\ UNCHANGED index
     \/ key[index[t]] = op[t] /\ Goto(t, "sub") /\ UNCHANGED <<key, index>>
     \/ key[index[t]] \notin {op[t], Free} /\ Advance(t) /\ UNCHANGED key
  /\ UNCHANGED <<counter, op, left, completed>>

(* Mutant of Add: the contribution of this thread is subtracted twice.     *)
AddOthers(t) ==
  /\ pc[t] = "add"
  /\ counter' = [counter EXCEPT ![index[t]] = @ + Expected[op[t]] - 1]
  /\ Goto(t, "sub")
  /\ UNCHANGED <<key, op, index, left, completed>>

(* fetch_add, by the thread that claimed the slot.  Others may have        *)
(* subtracted their contributions already.                                 *)
Add(t) ==
  /\ pc[t] = "add"
  /\ counter' = [counter EXCEPT ![index[t]] = @ + Expected[op[t]]]
  /\ Goto(t, "sub")
  /\ UNCHANGED <<key, op, index, left, completed>>

(* fetch_sub: increment returns false unless this was the last one.        *)
Sub(t) ==
  /\ pc[t] = "sub"
  /\ counter' = [counter EXCEPT ![index[t]] = @ - 1]
  /\ \/ counter[index[t]] = 1 /\ Goto(t, "free") /\ UNCHANGED op
     \/ counter[index[t]] # 1 /\ Goto(t, "idle") /\ op' = [op EXCEPT ![t] = Free]
  /\ UNCHANGED <<key, index, left, completed>>

(* The slot is given back and increment returns true.                      *)
Release(t) ==
  /\ pc[t] = "free"
  /\ key' = [key EXCEPT ![index[t]] = Free]
  /\ completed' = [completed EXCEPT ![op[t]] = @ + 1]
  /\ op' = [op EXCEPT ![t] = Free]
  /\ Goto(t, "idle")
  /\ UNCHANGED <<counter, index, left>>

(* After the callback of a reduction the program may start the next one    *)
(* under the same id.                                                      *)
Reuse(k) ==
  /\ completed[k] = 1
  /\ left[k] = 0
  /\ Working(k) = {}
  /\ left' = [left EXCEPT ![k] = Expected[k]]
  /\ completed' = [completed EXCEPT ![k] = 0]
  /\ UNCHANGED <<table, pc, op, index>>

Increment(t) ==
  Probe(t) \/ Claim(t) \/ Add(t) \/ Sub(t) \/ Release(t)

Next ==
  \/ \E t \in Thread, k \in Key : Begin(t, k)
  \/ \E t \in Thread : Increment(t)
  \/ \E k \in Key : Reuse(k)

Spec == Init /\ [][Next]_vars

-----------------------------------------------------------------------------
(* Properties *)

(* "returns true if ... all expected contributions have been made": when a *)
(* thread has got the last one, nobody else contributes to this reduction  *)
(* or will, in whatever order claim, add and subtractions have mixed.      *)
TrueMeansAllMade ==
  \A t \in Thread :
    pc[t] = "free" => left[op[t]] = 0 /\ Working(op[t]) = {t}

(* "Only one thread will observe true": once all the contributions have    *)
(* been made one thread, and one only, has been told so.                   *)
OneThreadIsTold ==
  \A k \in Key :
    /\ completed[k] <= 1
    /\ left[k] = 0 /\ Working(k) = {} => completed[k] = 1
=============================================================================
