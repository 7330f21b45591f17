------------------------ MODULE ReductionHandlerProofs -------------------------
(***************************************************************************)
(* Proofs about ReductionCounter and ReductionHandler, for any number of   *)
(* threads, reductions and expected contributions.                         *)
(*                                                                         *)
(* The type of the counter table is invariant whatever the keys are.  The  *)
(* rest is proved for keys with a home slot each: with two keys of the     *)
(* same home it is false (run reduction_counter_collision).                *)
(***************************************************************************)
EXTENDS ReductionHandler, FiniteSetTheorems,
        WellFoundedInduction, TLAPS

DistinctHomes == \A j, k \in Key : Home(j) = Home(k) => j = k

-----------------------------------------------------------------------------
(* The inductive invariant of the counter *)

(* A thread has a key while it is inside increment.                        *)
TypeInv ==
  /\ TypeOK
  /\ \A t \in Thread : pc[t] = "idle" <=> op[t] = Free

(* A thread inside increment works for a key, at the home of that key.     *)
ThreadsAreHome ==
  \A t \in Thread :
    /\ pc[t] # "thrown"
    /\ op[t] # Free => index[t] = Home(op[t])

(* Contributions that have not been subtracted yet.                        *)
Outstanding(k) == left[k] + Cardinality(Working(k))

(* Nobody has claimed the slot: the reduction has not begun to be counted, *)
(* or it has been completed.                                               *)
Unclaimed(k) ==
  /\ key[Home(k)] = Free
  /\ counter[Home(k)] = 0
  /\ \A t \in Working(k) : pc[t] \in {"probe", "claim"}
  /\ \/ completed[k] = 0 /\ Outstanding(k) = Expected[k]
     \/ completed[k] = 1 /\ left[k] = 0 /\ Working(k) = {}

(* The expected number has still to be added.                              *)
Claimed(k) ==
  /\ key[Home(k)] = k
  /\ completed[k] = 0
  /\ \E a \in Working(k) :
       \A t \in Working(k) :
         IF t = a THEN pc[t] = "add" ELSE pc[t] \notin {"add", "free"}
  /\ counter[Home(k)] = Outstanding(k) - Expected[k]
  /\ Outstanding(k) <= Expected[k]

(* The counter holds the number of the outstanding contributions.          *)
Counting(k) ==
  /\ key[Home(k)] = k
  /\ completed[k] = 0
  /\ \A t \in Working(k) : pc[t] \notin {"add", "free"}
  /\ counter[Home(k)] = Outstanding(k)
  /\ Outstanding(k) \in 1 .. Expected[k]

(* The last contribution has been subtracted.                              *)
Counted(k) ==
  /\ key[Home(k)] = k
  /\ completed[k] = 0
  /\ counter[Home(k)] = 0
  /\ left[k] = 0
  /\ \E t \in Thread : pc[t] = "free" /\ Working(k) = {t}

KeyInv(k) ==
  /\ IsFiniteSet(Working(k))
  /\ Unclaimed(k) \/ Claimed(k) \/ Counting(k) \/ Counted(k)

CounterInv ==
  /\ TypeInv
  /\ ThreadsAreHome
  /\ \A k \in Key : KeyInv(k)

-----------------------------------------------------------------------------
(* The inductive invariant of the handler *)

(* A thread whose contribution is not in its table yet.                    *)
Storing(t) == hpc[t] \in {"store", "insert", "combine"}

(* The threads that have begun a contribution to k and have not called     *)
(* increment for it.                                                       *)
Uncounted(k) ==
  {t \in Thread :
     /\ mine[t].id = k
     /\ Storing(t) \/ (hpc[t] = "count" /\ pc[t] = "idle")}

(* What the table of t holds for k.                                        *)
Entry(t, k) == data[t][Home(k)]

Tables ==
  [Thread -> [Slot -> [id : Key \cup {Free}, parts : SUBSET Contribution]]]

HandlerTypes ==
  /\ hpc \in [Thread -> {"out", "store", "insert", "combine", "count", "pop",
                         "gather"}]
  /\ mine \in [Thread -> [id : Key \cup {Free}, part : Nat]]
  /\ at = [t \in Thread |-> 0]
  /\ data \in Tables
  /\ todo \in [Key -> Nat]
  /\ gathered \in [Thread -> SUBSET Contribution]
  /\ pending \in [Thread -> SUBSET Thread]
  /\ result \in [Key -> SUBSET Contribution]

(* A thread is inside increment only between storing and popping, and then *)
(* for the contribution it has stored.                                     *)
CallsAreMatched ==
  \A t \in Thread :
    /\ hpc[t] # "out" => mine[t].id \in Key
    /\ Storing(t) => mine[t].part \in Contribution
    /\ pc[t] # "idle" => hpc[t] = "count" /\ op[t] = mine[t].id

(* An entry is in the home of its key, and empty when it has no key.       *)
EntriesAreHome ==
  \A t \in Thread : \A i \in Slot :
    /\ data[t][i].id # Free => Home(data[t][i].id) = i
    /\ data[t][i].parts = {} <=> data[t][i].id = Free

(* What a thread has seen in its table is still there, and what it has     *)
(* stored is not taken out before it is counted.                           *)
OwnEntryStays ==
  \A t \in Thread :
    /\ hpc[t] = "insert" => Entry(t, mine[t].id).id = Free
    /\ hpc[t] \in {"combine", "count", "pop"} =>
         Entry(t, mine[t].id).id = mine[t].id

GatheredIsEmpty == \A t \in Thread : hpc[t] # "gather" => gathered[t] = {}

(* The reduction is being counted: every contribution that has begun is in *)
(* a table or about to be stored.                                          *)
Collecting(k) ==
  /\ completed[k] = 0
  /\ result[k] = {}
  /\ \A t \in Thread : hpc[t] \in {"pop", "gather"} => mine[t].id # k
  /\ \A n \in Contribution :
       n \in todo[k] + 1 .. Expected[k] <=>
         \E t \in Thread : \/ n \in Entry(t, k).parts
                           \/ Storing(t) /\ mine[t] = [id |-> k, part |-> n]

(* The thread that was told true is taking the entries out.                *)
Emptying(k, t) ==
  /\ completed[k] = 1
  /\ result[k] = {}
  /\ mine[t].id = k
  /\ hpc[t] \in {"pop", "gather"}
  /\ \A s \in Thread : s # t /\ hpc[s] \in {"pop", "gather"} => mine[s].id # k
  /\ \A n \in Contribution :
       n \in 1 .. Expected[k] <=>
         n \in gathered[t] \/ \E s \in Thread : n \in Entry(s, k).parts
  /\ hpc[t] = "gather" =>
       \A s \in Thread : s \notin pending[t] => Entry(s, k).id = Free

(* The result has been handed on.                                          *)
Done(k) ==
  /\ completed[k] = 1
  /\ result[k] = 1 .. Expected[k]
  /\ \A t \in Thread : hpc[t] \in {"pop", "gather"} => mine[t].id # k
  /\ \A t \in Thread : Entry(t, k).id = Free

ReductionInv(k) ==
  /\ IsFiniteSet(Uncounted(k))
  /\ left[k] = todo[k] + Cardinality(Uncounted(k))
  /\ Collecting(k) \/ (\E t \in Thread : Emptying(k, t)) \/ Done(k)

HandlerInv ==
  /\ CounterInv
  /\ HandlerTypes
  /\ CallsAreMatched
  /\ EntriesAreHome
  /\ OwnEntryStays
  /\ GatheredIsEmpty
  /\ \A k \in Key : ReductionInv(k)

-----------------------------------------------------------------------------
(* The type of the counter *)

LEMMA ModRange ==
  ASSUME NEW a \in Nat, NEW b \in Nat \ {0}
  PROVE  a % b \in 0 .. b - 1
  OBVIOUS

LEMMA HomeIsASlot ==
  ASSUME NEW k \in Key
  PROVE  Home(k) \in Slot /\ k \in Nat \ {0} /\ k # Free
  BY ModRange, KeyAssumption, SizeAssumption DEF Home, Slot, Free

LEMMA NextSlot ==
  ASSUME NEW i \in Slot
  PROVE  (i + 1) % Size \in Slot
  BY ModRange, SizeAssumption DEF Slot

LEMMA InitType == Init => TypeInv
  <1>1. 0 \in Slot
    BY SizeAssumption DEF Slot
  <1> QED
    BY <1>1, ExpectedAssumption DEF Init, TypeInv, TypeOK, Free

LEMMA NextType == TypeInv /\ [Next]_vars => TypeInv'
  <1> SUFFICES ASSUME TypeInv, [Next]_vars PROVE TypeInv'
    OBVIOUS
  <1> USE DEF TypeInv, TypeOK, Goto
  <1>1. ASSUME NEW t \in Thread, NEW k \in Key, Begin(t, k) PROVE TypeInv'
    BY <1>1, HomeIsASlot DEF Begin, table
  <1>2. ASSUME NEW t \in Thread, Advance(t)
        PROVE  /\ index' \in [Thread -> Slot]
               /\ \E place \in {"thrown", "probe"} :
                    pc' = [pc EXCEPT ![t] = place]
    BY <1>2, NextSlot DEF Advance
  <1>3. ASSUME NEW t \in Thread, Probe(t) PROVE TypeInv'
    <2>1. CASE Advance(t)
      <3>1. PICK place \in {"thrown", "probe"} : pc' = [pc EXCEPT ![t] = place]
        BY <1>2, <2>1
      <3> QED
        BY <1>2, <1>3, <2>1, <3>1 DEF Probe, table
    <2>2. CASE ~ Advance(t)
      BY <1>3, <2>2 DEF Probe, table
    <2> QED
      BY <2>1, <2>2
  <1>4. ASSUME NEW t \in Thread, Claim(t) PROVE TypeInv'
    <2> op[t] # Free
      BY <1>4 DEF Claim
    <2>1. CASE Advance(t) /\ UNCHANGED key
      <3>1. PICK place \in {"thrown", "probe"} : pc' = [pc EXCEPT ![t] = place]
        BY <1>2, <2>1
      <3> QED
        BY <1>2, <1>4, <2>1, <3>1 DEF Claim
    <2>2. CASE ~ (Advance(t) /\ UNCHANGED key)
      BY <1>4, <2>2 DEF Claim
    <2> QED
      BY <2>1, <2>2
  <1>5. ASSUME NEW t \in Thread, Add(t) PROVE TypeInv'
    <2>1. op[t] \in Key
      BY <1>5 DEF Add
    <2> QED
      BY <1>5, <2>1, ExpectedAssumption DEF Add
  <1>6. ASSUME NEW t \in Thread, Sub(t) PROVE TypeInv'
    BY <1>6 DEF Sub
  <1>7. ASSUME NEW t \in Thread, Release(t) PROVE TypeInv'
    BY <1>7 DEF Release
  <1>8. ASSUME NEW k \in Key, Reuse(k) PROVE TypeInv'
    BY <1>8, ExpectedAssumption DEF Reuse, table
  <1>9. CASE UNCHANGED vars
    BY <1>9 DEF vars, table
  <1> QED
    BY <1>1, <1>3, <1>4, <1>5, <1>6, <1>7, <1>8, <1>9 DEF Next, Increment

(* The table, the threads and the counts keep their types whatever the     *)
(* keys are: however the probes wrap, an index is a slot.                  *)
THEOREM TypeCorrect == Spec => []TypeOK
    <1>1. TypeInv => TypeOK
    BY DEF TypeInv
  <1> QED
    BY <1>1, InitType, NextType, PTL DEF Spec

-----------------------------------------------------------------------------
(* The invariant of the counter *)

LEMMA InitCounter == Init => CounterInv
  <1> SUFFICES ASSUME Init PROVE CounterInv
    OBVIOUS
  <1>1. TypeInv
    BY InitType
  <1>2. ThreadsAreHome
    BY DEF Init, ThreadsAreHome
  <1>3. ASSUME NEW k \in Key PROVE KeyInv(k)
    <2>1. Working(k) = {}
      BY HomeIsASlot DEF Init, Working
    <2>2. IsFiniteSet(Working(k)) /\ Cardinality(Working(k)) = 0
      BY <2>1, FS_EmptySet
    <2>3. Unclaimed(k)
      BY <2>1, <2>2, HomeIsASlot, ExpectedAssumption DEF Init, Unclaimed, Outstanding
    <2> QED
      BY <2>2, <2>3 DEF KeyInv
  <1> QED
    BY <1>1, <1>2, <1>3 DEF CounterInv

(* What is invariant of a key depends on the slot at its home, its counts  *)
(* and the threads that work for it.                                       *)
LEMMA OtherKeys ==
  ASSUME NEW k \in Key, KeyInv(k),
         key'[Home(k)] = key[Home(k)], counter'[Home(k)] = counter[Home(k)],
         left'[k] = left[k], completed'[k] = completed[k],
         Working(k)' = Working(k),
         \A t \in Working(k) : pc'[t] = pc[t]
  PROVE  KeyInv(k)'
  <1> DEFINE W == Working(k)
             c == Cardinality(W)
             h == Home(k)
  <1> W' = W /\ c' = c /\ h' = h /\ W \subseteq Thread
    BY DEF Working
  <1>o. Outstanding(k)' = Outstanding(k)
    BY DEF Outstanding
  <1>1. ASSUME Unclaimed(k) PROVE Unclaimed(k)'
    BY <1>1, <1>o DEF Unclaimed
  <1>2. ASSUME Claimed(k) PROVE Claimed(k)'
    BY <1>2, <1>o DEF Claimed
  <1>3. ASSUME Counting(k) PROVE Counting(k)'
    BY <1>3, <1>o DEF Counting
  <1>4. ASSUME Counted(k) PROVE Counted(k)'
    BY <1>4, <1>o DEF Counted
  <1> QED
    BY <1>1, <1>2, <1>3, <1>4 DEF KeyInv

(* A thread that begins or ends its call joins or leaves those working for *)
(* its key.                                                                *)
LEMMA Joins ==
  ASSUME TypeInv, NEW t \in Thread, NEW k \in Key, op[t] = Free,
         op' = [op EXCEPT ![t] = k], IsFiniteSet(Working(k))
  PROVE  /\ Working(k)' = Working(k) \cup {t}
         /\ t \notin Working(k)
         /\ IsFiniteSet(Working(k)')
         /\ Cardinality(Working(k)) \in Nat
         /\ Cardinality(Working(k)') = Cardinality(Working(k)) + 1
         /\ \A j \in Key \ {k} : Working(j)' = Working(j)
  <1>1. Working(k)' = Working(k) \cup {t} /\ t \notin Working(k)
    BY HomeIsASlot DEF TypeInv, TypeOK, Working
  <1>2. \A j \in Key \ {k} : Working(j)' = Working(j)
    BY HomeIsASlot DEF TypeInv, TypeOK, Working
  <1> QED
    BY <1>1, <1>2, FS_AddElement, FS_CardinalityType

LEMMA Leaves ==
  ASSUME TypeInv, NEW t \in Thread, NEW k \in Key, op[t] = k,
         op' = [op EXCEPT ![t] = Free], IsFiniteSet(Working(k))
  PROVE  /\ Working(k)' = Working(k) \ {t}
         /\ t \in Working(k)
         /\ IsFiniteSet(Working(k)')
         /\ Cardinality(Working(k)) \in Nat \ {0}
         /\ Cardinality(Working(k)') = Cardinality(Working(k)) - 1
         /\ \A j \in Key \ {k} : Working(j)' = Working(j)
  <1>1. Working(k)' = Working(k) \ {t} /\ t \in Working(k)
    BY HomeIsASlot DEF TypeInv, TypeOK, Working
  <1>2. \A j \in Key \ {k} : Working(j)' = Working(j)
    BY HomeIsASlot DEF TypeInv, TypeOK, Working
  <1>3. Cardinality(Working(k)) \in Nat /\ Cardinality(Working(k)) # 0
    BY <1>1, FS_EmptySet, FS_CardinalityType
  <1> QED
    BY <1>1, <1>2, <1>3, FS_RemoveElement

LEMMA InsideACall ==
  ASSUME DistinctHomes, CounterInv, NEW t \in Thread, pc[t] # "idle"
  PROVE  /\ op[t] \in Key
         /\ index[t] = Home(op[t])
         /\ t \in Working(op[t])
         /\ KeyInv(op[t])
         /\ key[Home(op[t])] \in {op[t], Free}
         /\ \A j \in Key \ {op[t]} : Home(j) # Home(op[t]) /\ t \notin Working(j)
  <1>1. op[t] \in Key
    BY DEF CounterInv, TypeInv, TypeOK
  <1>2. index[t] = Home(op[t])
    BY <1>1, HomeIsASlot DEF CounterInv, ThreadsAreHome
  <1>3. KeyInv(op[t]) /\ key[Home(op[t])] \in {op[t], Free}
    BY <1>1 DEF CounterInv, KeyInv, Unclaimed, Claimed, Counting, Counted
  <1> QED
    BY <1>1, <1>2, <1>3 DEF DistinctHomes, Working

LEMMA StepBegin ==
  ASSUME DistinctHomes, CounterInv, TypeInv', NEW t \in Thread, NEW k \in Key, Begin(t, k)
  PROVE  CounterInv'
  <1> USE DEF Begin, table, Goto
  <1>0. TypeInv /\ TypeOK /\ op[t] = Free /\ KeyInv(k)
    BY DEF CounterInv, TypeInv
  <1>1. ThreadsAreHome'
    BY HomeIsASlot DEF CounterInv, TypeInv, TypeOK, ThreadsAreHome
  <1> DEFINE W == Working(k)
  <1>2. /\ W' = W \cup {t} /\ t \notin W
        /\ IsFiniteSet(W') /\ Cardinality(W) \in Nat
        /\ Cardinality(W') = Cardinality(W) + 1
        /\ \A j \in Key \ {k} : Working(j)' = Working(j) /\ t \notin Working(j)
    <2>1. \A j \in Key : t \notin Working(j)
      BY <1>0, HomeIsASlot DEF Working
    <2>2. IsFiniteSet(Working(k))
      BY <1>0 DEF KeyInv
    <2> QED
      BY <2>1, <2>2, <1>0, Joins
  <1>3. left[k] \in Nat /\ left'[k] = left[k] - 1 /\ left[k] > 0
    BY <1>0 DEF TypeOK
  <1>4. Outstanding(k)' = Outstanding(k)
    BY <1>2, <1>3 DEF Outstanding
  <1>5. /\ \A s \in W : pc'[s] = pc[s]
        /\ pc'[t] = "probe" /\ t \in Thread
    BY <1>0, <1>2 DEF TypeOK, Working
  <1>6. KeyInv(k)'
    <2>1. ASSUME Unclaimed(k) PROVE Unclaimed(k)'
      BY <2>1, <1>2, <1>3, <1>4, <1>5 DEF Unclaimed
    <2>2. ASSUME Claimed(k) PROVE Claimed(k)'
      <3>1. PICK a \in W : \A s \in W : IF s = a THEN pc[s] = "add" ELSE pc[s] \notin {"add", "free"}
        BY <2>2 DEF Claimed
      <3>2. a \in W' /\ \A s \in W' : IF s = a THEN pc'[s] = "add" ELSE pc'[s] \notin {"add", "free"}
        BY <3>1, <1>2, <1>5
      <3> QED
        BY <2>2, <3>2, <1>4 DEF Claimed
    <2>3. ASSUME Counting(k) PROVE Counting(k)'
      BY <2>3, <1>2, <1>4, <1>5 DEF Counting
    <2>4. ~ Counted(k)
      BY <1>3 DEF Counted
    <2> QED
      BY <2>1, <2>2, <2>3, <2>4, <1>0, <1>2 DEF KeyInv
  <1>7. ASSUME NEW j \in Key \ {k} PROVE KeyInv(j)'
    <2>1. left'[j] = left[j] /\ \A s \in Working(j) : pc'[s] = pc[s]
      BY <1>0, <1>2 DEF TypeOK, Working
    <2> QED
      BY <2>1, <1>2, OtherKeys DEF CounterInv
  <1> QED
    BY <1>1, <1>6, <1>7 DEF CounterInv

LEMMA StepReuse ==
  ASSUME CounterInv, TypeInv', NEW k \in Key, Reuse(k)
  PROVE  CounterInv'
  <1> USE DEF Reuse, table
  <1>1. ThreadsAreHome'
    BY DEF CounterInv, ThreadsAreHome
  <1>2. \A j \in Key : Working(j)' = Working(j)
    BY DEF Working
  <1>3. KeyInv(k)'
    <2>1. KeyInv(k) /\ TypeOK
      BY DEF CounterInv, TypeInv
    <2>2. Unclaimed(k)
      BY <2>1 DEF KeyInv, Claimed, Counting, Counted
    <2>3. Cardinality(Working(k)') = 0 /\ left'[k] = Expected[k] /\ completed'[k] = 0
      BY <1>2, <2>1, FS_EmptySet DEF TypeOK
    <2>4. Unclaimed(k)'
      BY <1>2, <2>2, <2>3, ExpectedAssumption DEF Unclaimed, Outstanding
    <2> QED
      BY <1>2, <2>1, <2>4 DEF KeyInv
  <1>4. ASSUME NEW j \in Key \ {k} PROVE KeyInv(j)'
    <2>1. left'[j] = left[j] /\ completed'[j] = completed[j]
      BY DEF CounterInv, TypeInv, TypeOK
    <2> QED
      BY <2>1, <1>2, OtherKeys DEF CounterInv
  <1> QED
    BY <1>1, <1>3, <1>4 DEF CounterInv

LEMMA StepProbe ==
  ASSUME DistinctHomes, CounterInv, TypeInv', NEW t \in Thread, Probe(t),
         NEW k \in Key, op[t] = k
  PROVE  CounterInv'
  <1>0. /\ k \in Key /\ index[t] = Home(k) /\ t \in Working(k) /\ KeyInv(k)
        /\ key[Home(k)] \in {k, Free} /\ TypeOK
        /\ \A j \in Key \ {k} : Home(j) # Home(k) /\ t \notin Working(j)
    BY InsideACall DEF Probe, CounterInv, TypeInv
  <1>1. /\ UNCHANGED <<table, op, left, completed, index>>
        /\ pc' = [pc EXCEPT ![t] = IF key[Home(k)] = k THEN "sub" ELSE "claim"]
    BY <1>0, HomeIsASlot DEF Probe, Goto
  <1>2. ThreadsAreHome'
    BY <1>0, <1>1 DEF CounterInv, ThreadsAreHome, TypeOK
  <1>3. \A j \in Key : Working(j)' = Working(j) /\ Outstanding(j)' = Outstanding(j)
    BY <1>1 DEF Working, Outstanding
  <1>4. KeyInv(k)'
    <2>1. /\ \A s \in Working(k) : s # t => pc'[s] = pc[s]
          /\ pc'[t] = IF key[Home(k)] = k THEN "sub" ELSE "claim"
          /\ pc[t] = "probe"
      BY <1>0, <1>1 DEF TypeOK, Working, Probe
    <2> USE <1>0, <1>1, <1>3, <2>1 DEF table
    <2>2. ASSUME Unclaimed(k) PROVE Unclaimed(k)'
      BY <2>2, HomeIsASlot DEF Unclaimed
    <2>3. ASSUME Claimed(k) PROVE Claimed(k)'
      BY <2>3 DEF Claimed
    <2>4. ASSUME Counting(k) PROVE Counting(k)'
      BY <2>4 DEF Counting
    <2>5. ASSUME Counted(k) PROVE Counted(k)'
      BY <2>5 DEF Counted
    <2> QED
      BY <2>2, <2>3, <2>4, <2>5 DEF KeyInv
  <1>5. ASSUME NEW j \in Key \ {k} PROVE KeyInv(j)'
    <2>1. \A s \in Working(j) : pc'[s] = pc[s]
      BY <1>0, <1>1 DEF TypeOK, Working
    <2> QED
      BY <2>1, <1>1, <1>3, OtherKeys DEF CounterInv, table
  <1> QED
    BY <1>2, <1>4, <1>5 DEF CounterInv

LEMMA StepClaim ==
  ASSUME DistinctHomes, CounterInv, TypeInv', NEW t \in Thread, Claim(t),
         NEW k \in Key, op[t] = k
  PROVE  CounterInv'
  <1>0. /\ k \in Key /\ index[t] = Home(k) /\ t \in Working(k) /\ KeyInv(k)
        /\ key[Home(k)] \in {k, Free} /\ TypeOK /\ pc[t] = "claim"
        /\ \A j \in Key \ {k} : Home(j) # Home(k) /\ t \notin Working(j)
    BY InsideACall DEF Claim, CounterInv, TypeInv
  <1>1. /\ UNCHANGED <<counter, op, left, completed, index>>
        /\ key' = [key EXCEPT ![Home(k)] = k]
        /\ pc' = [pc EXCEPT ![t] = IF key[Home(k)] = k THEN "sub" ELSE "add"]
    BY <1>0, HomeIsASlot DEF Claim, Goto, TypeOK
  <1>2. ThreadsAreHome'
    BY <1>0, <1>1 DEF CounterInv, ThreadsAreHome, TypeOK
  <1>3. \A j \in Key : Working(j)' = Working(j) /\ Outstanding(j)' = Outstanding(j)
    BY <1>1 DEF Working, Outstanding
  <1>4. KeyInv(k)'
    <2>1. /\ \A s \in Working(k) : s # t => pc'[s] = pc[s]
          /\ pc'[t] = IF key[Home(k)] = k THEN "sub" ELSE "add"
          /\ key'[Home(k)] = k
      BY <1>0, <1>1, HomeIsASlot DEF TypeOK, Working, Probe
    <2> USE <1>0, <1>1, <1>3, <2>1
    <2>2. ASSUME Unclaimed(k) PROVE Claimed(k)'
      <3>1. key[Home(k)] # k /\ pc'[t] = "add"
        BY <2>2, HomeIsASlot DEF Unclaimed
      <3>2. \A s \in Working(k) : s # t => pc'[s] \in {"probe", "claim"}
        BY <2>2 DEF Unclaimed
      <3>3. completed[k] = 0 /\ Outstanding(k) = Expected[k] /\ counter[Home(k)] = 0
        BY <2>2 DEF Unclaimed
      <3>4. Expected[k] \in Nat
        BY ExpectedAssumption
      <3>5. \A s \in Working(k)' : IF s = t THEN pc'[s] = "add" ELSE pc'[s] \notin {"add", "free"}
        BY <3>1, <3>2
      <3>6. Outstanding(k)' <= Expected[k] /\ 0 = Outstanding(k)' - Expected[k]
        BY <3>3, <3>4
      <3> QED
        BY <3>3, <3>5, <3>6 DEF Claimed
    <2>3. ASSUME Claimed(k) PROVE Claimed(k)'
      BY <2>3 DEF Claimed
    <2>4. ASSUME Counting(k) PROVE Counting(k)'
      BY <2>4 DEF Counting
    <2>5. ASSUME Counted(k) PROVE Counted(k)'
      BY <2>5 DEF Counted
    <2> QED
      BY <2>2, <2>3, <2>4, <2>5 DEF KeyInv
  <1>5. ASSUME NEW j \in Key \ {k} PROVE KeyInv(j)'
    <2>1. \A s \in Working(j) : pc'[s] = pc[s]
      BY <1>0, <1>1 DEF TypeOK, Working
    <2>2. key'[Home(j)] = key[Home(j)]
      BY <1>0, <1>1, HomeIsASlot DEF TypeOK
    <2> QED
      BY <2>1, <2>2, <1>1, <1>3, OtherKeys DEF CounterInv
  <1> QED
    BY <1>2, <1>4, <1>5 DEF CounterInv

LEMMA StepAdd ==
  ASSUME DistinctHomes, CounterInv, TypeInv', NEW t \in Thread, Add(t),
         NEW k \in Key, op[t] = k
  PROVE  CounterInv'
  <1>0. /\ k \in Key /\ index[t] = Home(k) /\ t \in Working(k) /\ KeyInv(k)
        /\ TypeOK /\ pc[t] = "add"
        /\ \A j \in Key \ {k} : Home(j) # Home(k) /\ t \notin Working(j)
    BY InsideACall DEF Add, CounterInv, TypeInv
  <1>1. /\ UNCHANGED <<key, op, left, completed, index>>
        /\ counter' = [counter EXCEPT ![Home(k)] = @ + Expected[k]]
        /\ pc' = [pc EXCEPT ![t] = "sub"]
    BY <1>0 DEF Add, Goto
  <1>2. ThreadsAreHome'
    BY <1>0, <1>1 DEF CounterInv, ThreadsAreHome, TypeOK
  <1>3. \A j \in Key : Working(j)' = Working(j) /\ Outstanding(j)' = Outstanding(j)
    BY <1>1 DEF Working, Outstanding
  <1>4. KeyInv(k)'
    <2>1. Claimed(k)
      BY <1>0 DEF KeyInv, Unclaimed, Claimed, Counting, Counted
    <2>2. PICK a \in Working(k) : \A s \in Working(k) : IF s = a THEN pc[s] = "add" ELSE pc[s] \notin {"add", "free"}
      BY <2>1 DEF Claimed
    <2>3. \A s \in Working(k)' : pc'[s] \notin {"add", "free"}
      BY <1>0, <1>1, <1>3, <2>2 DEF Working, TypeOK
    <2>4. left[k] \in Nat /\ Cardinality(Working(k)) \in Nat \ {0} /\ Expected[k] \in Nat
      <3>1. Cardinality(Working(k)) \in Nat /\ Cardinality(Working(k)) # 0
        BY <1>0, FS_EmptySet, FS_CardinalityType DEF KeyInv
      <3> QED
        BY <1>0, <3>1, ExpectedAssumption DEF TypeOK
    <2>5. Outstanding(k) \in 1 .. Expected[k]
      BY <2>1, <2>4 DEF Claimed, Outstanding
    <2>6. counter'[Home(k)] = Outstanding(k)
      BY <1>0, <1>1, <2>1, <2>4, <2>5, HomeIsASlot DEF Claimed, TypeOK
    <2>7. Counting(k)'
      BY <1>1, <1>3, <2>1, <2>3, <2>5, <2>6 DEF Claimed, Counting
    <2> QED
      BY <1>0, <1>3, <2>7 DEF KeyInv
  <1>5. ASSUME NEW j \in Key \ {k} PROVE KeyInv(j)'
    <2>1. \A s \in Working(j) : pc'[s] = pc[s]
      BY <1>0, <1>1 DEF TypeOK, Working
    <2>2. counter'[Home(j)] = counter[Home(j)]
      BY <1>0, <1>1, HomeIsASlot DEF TypeOK
    <2> QED
      BY <2>1, <2>2, <1>1, <1>3, OtherKeys DEF CounterInv
  <1> QED
    BY <1>2, <1>4, <1>5 DEF CounterInv

LEMMA StepSub ==
  ASSUME DistinctHomes, CounterInv, TypeInv', NEW t \in Thread, Sub(t),
         NEW k \in Key, op[t] = k
  PROVE  CounterInv'
  <1> DEFINE W == Working(k)
             h == Home(k)
  <1>0. /\ index[t] = h /\ t \in W /\ KeyInv(k) /\ h \in Slot
        /\ TypeInv /\ TypeOK /\ pc[t] = "sub" /\ k # Free
        /\ \A j \in Key \ {k} : Home(j) # h /\ t \notin Working(j)
    BY InsideACall, HomeIsASlot DEF Sub, CounterInv, TypeInv
  <1>1. /\ UNCHANGED <<key, left, completed, index>>
        /\ counter' = [counter EXCEPT ![h] = @ - 1]
        /\ \/ counter[h] = 1 /\ pc' = [pc EXCEPT ![t] = "free"] /\ op' = op
           \/ counter[h] # 1 /\ pc' = [pc EXCEPT ![t] = "idle"]
                             /\ op' = [op EXCEPT ![t] = Free]
    BY <1>0 DEF Sub, Goto
  <1>2. ThreadsAreHome'
    BY <1>0, <1>1 DEF CounterInv, ThreadsAreHome, TypeOK
  <1>3. /\ left[k] \in Nat /\ Cardinality(W) \in Nat \ {0} /\ Expected[k] \in Nat
        /\ IsFiniteSet(W) /\ counter'[h] = counter[h] - 1 /\ counter[h] \in Int
    <2>1. Cardinality(W) \in Nat /\ Cardinality(W) # 0
      BY <1>0, FS_EmptySet, FS_CardinalityType DEF KeyInv
    <2> QED
      BY <1>0, <1>1, <2>1, ExpectedAssumption DEF TypeOK, KeyInv
  <1>4. \A s \in Thread \ {t} : pc'[s] = pc[s]
    BY <1>0, <1>1 DEF TypeOK
  <1>5. Claimed(k) \/ Counting(k)
    BY <1>0 DEF KeyInv, Unclaimed, Counted, Working
  <1>6. KeyInv(k)'
    <2>1. CASE counter[h] = 1
      <3>1. W' = W /\ Outstanding(k)' = Outstanding(k)
        BY <1>1, <2>1 DEF Working, Outstanding
      <3>2. ~ Claimed(k)
        BY <1>3, <2>1 DEF Claimed, Outstanding
      <3>3. Counting(k) /\ left[k] = 0 /\ Cardinality(W) = 1
        BY <1>3, <1>5, <2>1, <3>2 DEF Counting, Outstanding
      <3>4. W = {t}
        BY <1>0, <1>3, <3>3, FS_Singleton
      <3>5. pc'[t] = "free"
        BY <1>0, <1>1, <2>1 DEF TypeOK
      <3>6. Counted(k)'
        BY <1>1, <1>3, <2>1, <3>1, <3>3, <3>4, <3>5 DEF Counting, Counted
      <3> QED
        BY <1>3, <3>1, <3>6 DEF KeyInv
    <2>2. CASE counter[h] # 1
      <3>1. /\ W' = W \ {t} /\ IsFiniteSet(W')
            /\ Cardinality(W') = Cardinality(W) - 1
        BY <1>0, <1>1, <1>3, <2>2, Leaves
      <3>2. Outstanding(k)' = Outstanding(k) - 1
        BY <1>1, <1>3, <3>1 DEF Outstanding
      <3>3. \A s \in W' : s \in W /\ pc'[s] = pc[s]
        BY <1>4, <3>1 DEF Working
      <3>4. ASSUME Claimed(k) PROVE Claimed(k)'
        <4>1. PICK a \in W : \A s \in W : IF s = a THEN pc[s] = "add" ELSE pc[s] \notin {"add", "free"}
          BY <3>4 DEF Claimed
        <4>2. a \in W'
          BY <1>0, <3>1, <4>1
        <4>3. \A s \in W' : IF s = a THEN pc'[s] = "add" ELSE pc'[s] \notin {"add", "free"}
          BY <3>3, <4>1
        <4>4. counter'[h] = Outstanding(k)' - Expected[k] /\ Outstanding(k)' <= Expected[k]
          BY <1>3, <3>2, <3>4 DEF Claimed, Outstanding
        <4> QED
          BY <1>1, <3>4, <4>2, <4>3, <4>4 DEF Claimed
      <3>5. ASSUME Counting(k) PROVE Counting(k)'
        <4>1. counter'[h] = Outstanding(k)' /\ Outstanding(k)' \in 1 .. Expected[k]
          BY <1>3, <2>2, <3>2, <3>5 DEF Counting, Outstanding
        <4> QED
          BY <1>1, <3>3, <3>5, <4>1 DEF Counting
      <3> QED
        BY <1>5, <3>1, <3>4, <3>5 DEF KeyInv
    <2> QED
      BY <2>1, <2>2
  <1>7. ASSUME NEW j \in Key \ {k} PROVE KeyInv(j)'
    <2>1. \A s \in Working(j) : pc'[s] = pc[s]
      BY <1>0, <1>4 DEF Working
    <2>2. counter'[Home(j)] = counter[Home(j)]
      BY <1>0, <1>1, HomeIsASlot DEF TypeOK
    <2>3. Working(j)' = Working(j)
      BY <1>0, <1>1, HomeIsASlot DEF Working, TypeOK
    <2> QED
      BY <2>1, <2>2, <2>3, <1>1, OtherKeys DEF CounterInv
  <1> QED
    BY <1>2, <1>6, <1>7 DEF CounterInv

LEMMA StepRelease ==
  ASSUME DistinctHomes, CounterInv, TypeInv', NEW t \in Thread, Release(t),
         NEW k \in Key, op[t] = k
  PROVE  /\ CounterInv'
         /\ left[k] = 0 /\ Working(k) = {t}
         /\ completed[k] = 0 /\ completed' = [completed EXCEPT ![k] = 1]
  <1> DEFINE W == Working(k)
             h == Home(k)
  <1>0. /\ index[t] = h /\ t \in W /\ KeyInv(k) /\ h \in Slot
        /\ TypeInv /\ TypeOK /\ pc[t] = "free" /\ k # Free
        /\ \A j \in Key \ {k} : Home(j) # h /\ t \notin Working(j)
    BY InsideACall, HomeIsASlot DEF Release, CounterInv, TypeInv
  <1>1. /\ UNCHANGED <<counter, left, index>>
        /\ key' = [key EXCEPT ![h] = Free]
        /\ completed' = [completed EXCEPT ![k] = @ + 1]
        /\ op' = [op EXCEPT ![t] = Free]
        /\ pc' = [pc EXCEPT ![t] = "idle"]
    BY <1>0 DEF Release, Goto
  <1>2. ThreadsAreHome'
    BY <1>0, <1>1 DEF CounterInv, ThreadsAreHome, TypeOK
  <1>3. Counted(k)
    BY <1>0 DEF KeyInv, Unclaimed, Claimed, Counting, Working
  <1>4. W = {t}
    BY <1>0, <1>3 DEF Counted
  <1>5. completed[k] = 0 /\ completed'[k] = 1 /\ completed' = [completed EXCEPT ![k] = 1]
    BY <1>0, <1>1, <1>3 DEF Counted, TypeOK
  <1>6. KeyInv(k)'
    <2>1. W' = {} /\ IsFiniteSet(W')
      BY <1>0, <1>1, <1>4, FS_EmptySet DEF Working, TypeOK
    <2>2. key'[h] = Free
      BY <1>0, <1>1 DEF TypeOK
    <2>3. Unclaimed(k)'
      BY <1>1, <1>3, <1>5, <2>1, <2>2 DEF Unclaimed, Counted
    <2> QED
      BY <2>1, <2>3 DEF KeyInv
  <1>7. ASSUME NEW j \in Key \ {k} PROVE KeyInv(j)'
    <2>1. \A s \in Working(j) : pc'[s] = pc[s]
      BY <1>0, <1>1 DEF Working, TypeOK
    <2>2. key'[Home(j)] = key[Home(j)] /\ completed'[j] = completed[j]
      BY <1>0, <1>1, HomeIsASlot DEF TypeOK
    <2>3. Working(j)' = Working(j)
      BY <1>0, <1>1, HomeIsASlot DEF Working, TypeOK
    <2> QED
      BY <2>1, <2>2, <2>3, <1>1, OtherKeys DEF CounterInv
  <1> QED
    BY <1>2, <1>3, <1>4, <1>5, <1>6, <1>7 DEF CounterInv, Counted

LEMMA NextCounter == DistinctHomes /\ CounterInv /\ [Next]_vars => CounterInv'
  <1> SUFFICES ASSUME DistinctHomes, CounterInv, [Next]_vars PROVE CounterInv'
    OBVIOUS
  <1>0. TypeInv'
    BY NextType DEF CounterInv
  <1>1. ASSUME NEW t \in Thread, NEW k \in Key, Begin(t, k) PROVE CounterInv'
    BY <1>0, <1>1, StepBegin
  <1>2. ASSUME NEW t \in Thread, Increment(t) PROVE CounterInv'
    <2>1. op[t] \in Key
      BY <1>2, InsideACall DEF Increment, Probe, Claim, Add, Sub, Release
    <2> QED
      BY <1>0, <1>2, <2>1, StepProbe, StepClaim, StepAdd, StepSub, StepRelease
         DEF Increment
  <1>3. ASSUME NEW k \in Key, Reuse(k) PROVE CounterInv'
    BY <1>0, <1>3, StepReuse
  <1>4. CASE UNCHANGED vars
    <2>1. ThreadsAreHome'
      BY <1>4 DEF CounterInv, ThreadsAreHome, vars, table
    <2>2. ASSUME NEW k \in Key PROVE KeyInv(k)'
      <3>1. Working(k)' = Working(k)
        BY <1>4 DEF Working, vars, table
      <3> QED
        BY <1>4, <3>1, OtherKeys DEF CounterInv, vars, table
    <2> QED
      BY <1>0, <2>1, <2>2 DEF CounterInv
  <1> QED
    BY <1>1, <1>2, <1>3, <1>4 DEF Next

LEMMA CounterConsequences ==
  ASSUME DistinctHomes, CounterInv
  PROVE  TrueMeansAllMade /\ OneThreadIsTold
  <1>1. TrueMeansAllMade
    <2> SUFFICES ASSUME NEW t \in Thread, pc[t] = "free"
                 PROVE  left[op[t]] = 0 /\ Working(op[t]) = {t}
      BY DEF TrueMeansAllMade
    <2>1. op[t] \in Key /\ t \in Working(op[t]) /\ KeyInv(op[t])
      BY InsideACall
    <2>2. Counted(op[t])
      BY <2>1 DEF KeyInv, Unclaimed, Claimed, Counting, Working
    <2> QED
      BY <2>1, <2>2 DEF Counted
  <1>2. OneThreadIsTold
    <2> SUFFICES ASSUME NEW k \in Key
                 PROVE  /\ completed[k] <= 1
                        /\ left[k] = 0 /\ Working(k) = {} => completed[k] = 1
      BY DEF OneThreadIsTold
    <2>1. Cardinality({}) = 0 /\ Expected[k] \in Nat \ {0} /\ KeyInv(k)
      BY FS_EmptySet, ExpectedAssumption DEF CounterInv
    <2> QED
      BY <2>1 DEF KeyInv, Unclaimed, Claimed, Counting, Counted, Outstanding
  <1> QED
    BY <1>1, <1>2

(* When keys have a home each, the thread that increment told true of a    *)
(* reduction has got its last contribution: none is outstanding and no     *)
(* other thread is inside increment for it, for any number of threads,     *)
(* reductions, contributions and rounds under the same id.                 *)
THEOREM TrueMeansComplete ==
  ASSUME DistinctHomes
  PROVE  Spec => []TrueMeansAllMade
  <1>1. Init => CounterInv
    BY InitCounter
  <1>2. CounterInv /\ [Next]_vars => CounterInv'
    BY NextCounter
  <1>3. CounterInv => TrueMeansAllMade
    BY CounterConsequences
  <1> QED
    BY <1>1, <1>2, <1>3, PTL DEF Spec

(* Under the same hypothesis one thread, and only one, is told true in     *)
(* each round of a reduction.                                              *)
THEOREM OnlyOneIsTold ==
  ASSUME DistinctHomes
  PROVE  Spec => []OneThreadIsTold
  <1>1. Init => CounterInv
    BY InitCounter
  <1>2. CounterInv /\ [Next]_vars => CounterInv'
    BY NextCounter
  <1>3. CounterInv => OneThreadIsTold
    BY CounterConsequences
  <1> QED
    BY <1>1, <1>2, <1>3, PTL DEF Spec

-----------------------------------------------------------------------------
(* Finding an entry in a table *)

LEMMA ModShift ==
  ASSUME NEW a \in Nat, NEW b \in Nat \ {0}, NEW j \in 0 .. b - 1,
         (a + j) % b = a % b
  PROVE  j = 0
  <1> DEFINE q == a \div b
             r == (a + j) \div b
  <1>1. q \in Int /\ r \in Int /\ a = b * q + (a % b) /\ a + j = b * r + ((a + j) % b)
    OBVIOUS
  <1>2. j = b * (r - q)
    BY <1>1
  <1>3. r - q \in Int
    BY <1>1
  <1> HIDE DEF q, r
  <1>4. CASE r - q <= 0
    BY <1>2, <1>3, <1>4
  <1>5. CASE r - q >= 1
    <2>1. b * (r - q) >= b
      BY <1>3, <1>5
    <2> QED
      BY <1>2, <2>1
  <1> QED
    BY <1>3, <1>4, <1>5

LEMMA SmallestIsInIt ==
  ASSUME NEW S \in SUBSET Nat, S # {}
  PROVE  Min(S) \in S
  <1> DEFINE less == OpToRel(<, Nat)
  <1>1. PICK p \in S : \A q \in S : <<q, p>> \notin less
    BY NatLessThanWellFounded, WFMin
  <1>2. \A q \in S : ~(q < p)
    BY <1>1 DEF OpToRel
  <1>3. \A q \in S : p <= q
    BY <1>2
  <1> QED
    BY <1>3 DEF Min

(* With homes of their own keys are found at the first probe.              *)
LEMMA TableFacts ==
  ASSUME DistinctHomes, HandlerInv, NEW s \in Thread, NEW k \in Key
  PROVE  /\ Entry(s, k) \in [id : {k, Free}, parts : SUBSET Contribution]
         /\ Entry(s, k).parts = {} <=> Entry(s, k).id = Free
         /\ Entry(s, k).id = k => Holding(s, k) = {0} /\ IndexOf(s, k) = Home(k)
         /\ Entry(s, k).id # k => Holding(s, k) = {}
  <1> DEFINE e == Entry(s, k)
  <1>1. /\ Home(k) \in Slot /\ k \in Nat \ {0} /\ k # Free
        /\ e \in [id : Key \cup {Free}, parts : SUBSET Contribution]
        /\ e.parts = {} <=> e.id = Free
        /\ e.id # Free => Home(e.id) = Home(k)
    BY HomeIsASlot DEF HandlerInv, HandlerTypes, Tables, EntriesAreHome, Entry
  <1>2. e.id \in {k, Free}
    BY <1>1 DEF DistinctHomes
  <1>3. \A j \in 0 .. Size - 1 : data[s][(k + j) % Size].id = k => j = 0
    <2> SUFFICES ASSUME NEW j \in 0 .. Size - 1, data[s][(k + j) % Size].id = k
                 PROVE  j = 0
      OBVIOUS
    <2>1. (k + j) % Size \in Slot
      <3>1. k + j \in Nat /\ Size \in Nat \ {0}
        BY <1>1, SizeAssumption
      <3> HIDE DEF e
      <3>2. (k + j) % Size \in 0 .. Size - 1
        BY <3>1, ModRange
      <3> QED
        BY <3>2 DEF Slot
    <2>2. Home(k) = (k + j) % Size
      BY <1>1, <2>1 DEF HandlerInv, EntriesAreHome
    <2> QED
      BY <1>1, <2>2, ModShift, SizeAssumption DEF Home
  <1>4. 0 \in 0 .. Size - 1 /\ (k + 0) % Size = Home(k)
    BY <1>1, SizeAssumption DEF Home
  <1>5. ASSUME e.id = k PROVE Holding(s, k) = {0} /\ IndexOf(s, k) = Home(k)
    <2>1. Holding(s, k) = {0}
      BY <1>3, <1>4, <1>5 DEF Holding, Entry
    <2>2. Min({0}) = 0
      BY SmallestIsInIt
    <2> QED
      BY <1>4, <2>1, <2>2 DEF IndexOf
  <1>6. ASSUME e.id # k PROVE Holding(s, k) = {}
    BY <1>3, <1>4, <1>6 DEF Holding, Entry
  <1> QED
    BY <1>1, <1>2, <1>5, <1>6

LEMMA NextTableIsPending ==
  ASSUME HandlerInv, NEW t \in Thread, pending[t] # {}
  PROVE  NextTable(t) \in pending[t] /\ NextTable(t) \in Thread
  <1> DEFINE S == {n \in DOMAIN Order : Order[n] \in pending[t]}
  <1>1. pending[t] \subseteq Thread
    BY DEF HandlerInv, HandlerTypes, Tables
  <1>2. S \in SUBSET Nat /\ S # {}
    BY <1>1, OrderAssumption
  <1>3. Min(S) \in S
    BY <1>2, SmallestIsInIt
  <1> QED
    BY <1>1, <1>3 DEF NextTable

-----------------------------------------------------------------------------
(* The invariant of the handler *)

LEMMA InitHandler == HandlerInit => HandlerInv
  <1> SUFFICES ASSUME HandlerInit PROVE HandlerInv
    OBVIOUS
  <1> USE DEF HandlerInit
  <1>1. CounterInv
    BY InitCounter
  <1>2. HandlerTypes
    BY ExpectedAssumption DEF HandlerTypes, Tables, NoEntry, Contribution
  <1>3. CallsAreMatched /\ OwnEntryStays /\ GatheredIsEmpty
    BY DEF CallsAreMatched, OwnEntryStays, GatheredIsEmpty, Storing, Init
  <1>4. EntriesAreHome
    BY DEF EntriesAreHome, NoEntry
  <1>5. ASSUME NEW k \in Key PROVE ReductionInv(k)
    <2>1. Uncounted(k) = {}
      BY DEF Uncounted, Storing
    <2>2. IsFiniteSet(Uncounted(k)) /\ Cardinality(Uncounted(k)) = 0
      BY <2>1, FS_EmptySet
    <2>3. \A t \in Thread : Entry(t, k).parts = {}
      BY HomeIsASlot DEF Entry, NoEntry
    <2>4. Collecting(k)
      BY <2>3, ExpectedAssumption DEF Collecting, Storing, Init
    <2> QED
      BY <2>2, <2>4, ExpectedAssumption DEF ReductionInv, Init
  <1> QED
    BY <1>1, <1>2, <1>3, <1>4, <1>5 DEF HandlerInv

(* What threads are doing for k.                                           *)
DoingFor(k) == {t \in Thread : hpc[t] # "out" /\ mine[t].id = k}

LEMMA OtherReductions ==
  ASSUME NEW k \in Key, ReductionInv(k),
         left'[k] = left[k], todo'[k] = todo[k], completed'[k] = completed[k],
         result'[k] = result[k], \A t \in Thread : Entry(t, k)' = Entry(t, k),
         DoingFor(k)' = DoingFor(k),
         \A t \in DoingFor(k) :
           /\ hpc'[t] = hpc[t] /\ mine'[t] = mine[t] /\ gathered'[t] = gathered[t]
           /\ pending'[t] = pending[t] /\ (pc'[t] = "idle" <=> pc[t] = "idle")
  PROVE  ReductionInv(k)'
  <1>1. \A t \in Thread : t \in DoingFor(k)' <=> t \in DoingFor(k)
    OBVIOUS
  <1>2. Uncounted(k)' = Uncounted(k)
    <2>1. Uncounted(k) \subseteq DoingFor(k) /\ Uncounted(k)' \subseteq DoingFor(k)'
      BY DEF Uncounted, DoingFor, Storing
    <2> QED
      BY <2>1 DEF Uncounted, Storing, DoingFor
  <1>3. \A t \in Thread :
          (hpc[t] # "out" /\ mine[t].id = k) <=> (hpc'[t] # "out" /\ mine'[t].id = k)
    BY <1>1 DEF DoingFor
  <1>4. \A t \in Thread :
          hpc[t] # "out" /\ mine[t].id = k =>
            /\ hpc'[t] = hpc[t] /\ mine'[t] = mine[t] /\ gathered'[t] = gathered[t]
            /\ pending'[t] = pending[t]
    BY DEF DoingFor
  <1>5. \A t \in Thread : \A n \in Contribution :
          (Storing(t) /\ mine[t] = [id |-> k, part |-> n]) <=>
            (Storing(t) /\ mine[t] = [id |-> k, part |-> n])'
    <2> SUFFICES ASSUME NEW t \in Thread, NEW n \in Contribution
                 PROVE  (Storing(t) /\ mine[t] = [id |-> k, part |-> n]) <=>
                          (Storing(t) /\ mine[t] = [id |-> k, part |-> n])'
      OBVIOUS
    <2> QED
      BY <1>3, <1>4 DEF Storing
  <1>6. ASSUME Collecting(k) PROVE Collecting(k)'
    BY <1>3, <1>4, <1>5, <1>6 DEF Collecting
  <1>7. ASSUME NEW t \in Thread, Emptying(k, t) PROVE Emptying(k, t)'
    BY <1>3, <1>4, <1>7 DEF Emptying
  <1>8. ASSUME Done(k) PROVE Done(k)'
    BY <1>3, <1>4, <1>8 DEF Done
  <1> QED
    BY <1>2, <1>6, <1>7, <1>8 DEF ReductionInv

LEMMA InsideTheHandler ==
  ASSUME DistinctHomes, HandlerInv, NEW t \in Thread, hpc[t] # "out"
  PROVE  /\ mine[t].id \in Key
         /\ ProbedBy(t) = Home(mine[t].id)
         /\ at[t] = 0 /\ 0 < Size
         /\ ReductionInv(mine[t].id)
         /\ \A j \in Key \ {mine[t].id} : t \notin DoingFor(j)
  <1>1. mine[t].id \in Key
    BY DEF HandlerInv, CallsAreMatched
  <1>2. at[t] = 0
    BY DEF HandlerInv, HandlerTypes, Tables
  <1>3. ProbedBy(t) = Home(mine[t].id)
    BY <1>1, <1>2, HomeIsASlot DEF ProbedBy, Home
  <1> QED
    BY <1>1, <1>2, <1>3, SizeAssumption DEF HandlerInv, DoingFor

LEMMA CountsOf ==
  ASSUME HandlerInv, NEW k \in Key
  PROVE  /\ todo[k] \in Nat /\ todo[k] <= left[k] /\ left[k] <= Expected[k]
         /\ left[k] \in Nat /\ Expected[k] \in Nat \ {0}
         /\ IsFiniteSet(Uncounted(k)) /\ Cardinality(Uncounted(k)) \in Nat
  <1>1. /\ KeyInv(k) /\ ReductionInv(k) /\ left[k] \in Nat /\ todo[k] \in Nat
        /\ Expected[k] \in Nat \ {0}
    BY ExpectedAssumption
       DEF HandlerInv, HandlerTypes, CounterInv, TypeInv, TypeOK
  <1>2. Cardinality(Working(k)) \in Nat /\ Cardinality(Uncounted(k)) \in Nat
    BY <1>1, FS_CardinalityType DEF KeyInv, ReductionInv
  <1>3. left[k] <= Expected[k]
    BY <1>1, <1>2
       DEF KeyInv, Unclaimed, Claimed, Counting, Counted, Outstanding
  <1> QED
    BY <1>1, <1>2, <1>3 DEF ReductionInv

(* Once a reduction is completed nobody contributes to it.                 *)
LEMMA CompletedIsQuiet ==
  ASSUME HandlerInv, NEW k \in Key, completed[k] # 0
  PROVE  /\ left[k] = 0 /\ todo[k] = 0
         /\ Working(k) = {} /\ Uncounted(k) = {}
         /\ ~ Collecting(k)
  <1>1. left[k] = 0 /\ Working(k) = {}
    BY DEF HandlerInv, CounterInv, KeyInv, Unclaimed, Claimed, Counting, Counted
  <1>2. todo[k] = 0 /\ Cardinality(Uncounted(k)) = 0
    BY <1>1, CountsOf DEF HandlerInv, ReductionInv
  <1>3. Uncounted(k) = {}
    BY <1>2, CountsOf, FS_EmptySet
  <1> QED
    BY <1>1, <1>2, <1>3 DEF Collecting

LEMMA StepContribute ==
  ASSUME DistinctHomes, HandlerInv, NEW t \in Thread, NEW k \in Key, Contribute(t, k)
  PROVE  HandlerInv'
  <1> USE DEF Contribute, Move
  <1> DEFINE U == Uncounted(k)
  <1>0. /\ HandlerTypes /\ CounterInv /\ k # Free
        /\ todo[k] \in Nat \ {0} /\ todo[k] \in Contribution
        /\ todo[k] <= Expected[k] /\ Expected[k] \in Nat
    BY CountsOf, HomeIsASlot DEF HandlerInv, HandlerTypes, Contribution
  <1>1. CounterInv'
    BY <1>0, NextCounter
  <1>2. HandlerTypes'
    BY <1>0 DEF HandlerTypes, Contribution
  <1>3. /\ hpc' = [hpc EXCEPT ![t] = "store"]
        /\ mine' = [mine EXCEPT ![t] = [id |-> k, part |-> todo[k]]]
        /\ pc[t] = "idle" /\ hpc[t] = "out" /\ hpc'[t] = "store"
        /\ mine'[t] = [id |-> k, part |-> todo[k]]
        /\ pc' = pc /\ op' = op /\ data' = data /\ gathered' = gathered
        /\ left' = left /\ completed' = completed
        /\ \A s \in Thread \ {t} : hpc'[s] = hpc[s] /\ mine'[s] = mine[s]
    BY <1>0 DEF HandlerInv, CallsAreMatched, HandlerTypes, vars
  <1> HIDE DEF Contribute
  <1>4. CallsAreMatched'
    BY <1>0, <1>3 DEF HandlerInv, CallsAreMatched, Storing
  <1>5. EntriesAreHome'
    BY <1>3 DEF HandlerInv, EntriesAreHome
  <1>6. OwnEntryStays' /\ GatheredIsEmpty'
    BY <1>3 DEF HandlerInv, OwnEntryStays, GatheredIsEmpty, Entry
  <1>7. ReductionInv(k)'
    <2>1. U' = U \cup {t} /\ t \notin U
      BY <1>3 DEF Uncounted, Storing
    <2>2. IsFiniteSet(U') /\ Cardinality(U') = Cardinality(U) + 1
      BY <2>1, CountsOf, FS_AddElement
    <2>3. todo'[k] = todo[k] - 1
      BY <1>0 DEF Contribute, HandlerTypes
    <2>4. left'[k] = todo'[k] + Cardinality(U')
      BY <1>0, <1>3, <2>2, <2>3, CountsOf DEF HandlerInv, ReductionInv
    <2>5. Collecting(k)
      <3>1. completed[k] = 0
        BY <1>0, CompletedIsQuiet
      <3> QED
        BY <3>1 DEF HandlerInv, ReductionInv, Emptying, Done
    <2>6. Collecting(k)'
      <3>1. result'[k] = {} /\ completed'[k] = 0
        BY <2>5, <1>3 DEF Contribute, Collecting
      <3>2. \A s \in Thread : hpc'[s] \in {"pop", "gather"} => mine'[s].id # k
        BY <2>5, <1>3 DEF Collecting
      <3>3. \A n \in Contribution :
              n \in todo'[k] + 1 .. Expected[k] <=>
                n = todo[k] \/ n \in todo[k] + 1 .. Expected[k]
        BY <1>0, <2>3 DEF Contribution
      <3>4. \A s \in Thread : Entry(s, k)' = Entry(s, k)
        BY <1>3 DEF Entry
      <3>5. \A n \in Contribution : \A s \in Thread \ {t} :
              (Storing(s) /\ mine[s] = [id |-> k, part |-> n])' <=>
                Storing(s) /\ mine[s] = [id |-> k, part |-> n]
        BY <1>3 DEF Storing
      <3>6. /\ ~ Storing(t)
            /\ \A n \in Contribution :
                 (Storing(t) /\ mine[t] = [id |-> k, part |-> n])' <=> n = todo[k]
        BY <1>3 DEF Storing
      <3> HIDE DEF Move
      <3>7. ASSUME NEW n \in Contribution
            PROVE  n \in todo'[k] + 1 .. Expected[k] <=>
                     \E s \in Thread : \/ n \in Entry(s, k)'.parts
                                       \/ (Storing(s) /\ mine[s] = [id |-> k, part |-> n])'
        BY <2>5, <3>3, <3>4, <3>5, <3>6 DEF Collecting
      <3> QED
        BY <3>1, <3>2, <3>7 DEF Collecting
    <2> QED
      BY <2>2, <2>4, <2>6 DEF ReductionInv
  <1>8. ASSUME NEW j \in Key \ {k} PROVE ReductionInv(j)'
    <2>1. DoingFor(j)' = DoingFor(j) /\ t \notin DoingFor(j)
      BY <1>3 DEF DoingFor
    <2>2. \A s \in DoingFor(j) : s \in Thread \ {t}
      BY <2>1 DEF DoingFor
    <2>3. todo'[j] = todo[j]
      BY <1>0 DEF Contribute, HandlerTypes
    <2>4. \A s \in Thread : Entry(s, j)' = Entry(s, j)
      BY <1>3 DEF Entry
    <2>5. UNCHANGED <<result, pending>>
      BY DEF Contribute
    <2> QED
      BY <1>3, <2>1, <2>2, <2>3, <2>4, <2>5, OtherReductions DEF HandlerInv
  <1> QED
    BY <1>1, <1>2, <1>4, <1>5, <1>6, <1>7, <1>8 DEF HandlerInv

LEMMA StepLook ==
  ASSUME DistinctHomes, HandlerInv, NEW t \in Thread, Look(t),
         NEW k \in Key, mine[t].id = k
  PROVE  HandlerInv'
  <1> DEFINE place == IF Entry(t, k).id = k THEN "combine" ELSE "insert"
  <1>1. /\ hpc[t] = "store" /\ at[t] = 0 /\ ProbedBy(t) = Home(k) /\ 0 < Size
        /\ Entry(t, k).id \in {k, Free} /\ k # Free /\ ReductionInv(k)
        /\ HandlerTypes /\ CounterInv
        /\ \A j \in Key \ {k} : t \notin DoingFor(j)
    BY InsideTheHandler, TableFacts, HomeIsASlot DEF Look, HandlerInv
  <1>2. /\ UNCHANGED <<vars, mine, at, data, todo, gathered, pending, result>>
        /\ hpc' = [hpc EXCEPT ![t] = place]
    BY <1>1 DEF Look, Looked, Entry, Move
  <1>3. /\ UNCHANGED <<pc, op, left, completed>>
        /\ hpc'[t] = place /\ \A s \in Thread \ {t} : hpc'[s] = hpc[s]
        /\ \A s \in Thread : Storing(s)' <=> Storing(s)
    BY <1>1, <1>2 DEF HandlerTypes, vars, Storing
  <1>4. CounterInv'
    BY <1>1, <1>2, NextCounter
  <1>5. HandlerTypes'
    BY <1>1, <1>2 DEF HandlerTypes
  <1>6. CallsAreMatched'
    BY <1>1, <1>2, <1>3 DEF HandlerInv, CallsAreMatched
  <1>7. EntriesAreHome'
    BY <1>2 DEF HandlerInv, EntriesAreHome
  <1>8. OwnEntryStays'
    <2>1. /\ hpc'[t] = "insert" => Entry(t, k).id = Free
          /\ hpc'[t] # "insert" => hpc'[t] = "combine" /\ Entry(t, k).id = k
      BY <1>1, <1>3
    <2>2. ASSUME NEW s \in Thread
          PROVE  /\ hpc'[s] = "insert" => Entry(s, mine[s].id).id = Free
                 /\ hpc'[s] \in {"combine", "count", "pop"} =>
                      Entry(s, mine[s].id).id = mine[s].id
      BY <1>3, <2>1 DEF HandlerInv, OwnEntryStays
    <2> QED
      BY <1>2, <2>2 DEF OwnEntryStays, Entry
  <1>9. GatheredIsEmpty'
    BY <1>1, <1>2, <1>3 DEF HandlerInv, GatheredIsEmpty
  <1>10. ReductionInv(k)'
    <2>1. Uncounted(k)' = Uncounted(k)
      BY <1>1, <1>2, <1>3 DEF Uncounted, Storing
    <2>2. Collecting(k)
      <3>1. t \in Uncounted(k)
        BY <1>1 DEF Uncounted, Storing
      <3>2. completed[k] = 0
        BY <3>1, CompletedIsQuiet
      <3> QED
        BY <1>1, <3>2 DEF ReductionInv, Emptying, Done
    <2>3. \A s \in Thread : hpc'[s] \in {"pop", "gather"} => hpc[s] \in {"pop", "gather"}
      BY <1>3
    <2>4. Collecting(k)'
      BY <1>2, <1>3, <2>2, <2>3 DEF Collecting, Entry
    <2> QED
      BY <1>1, <1>2, <1>3, <2>1, <2>4 DEF ReductionInv
  <1>11. ASSUME NEW j \in Key \ {k} PROVE ReductionInv(j)'
    <2>1. DoingFor(j)' = DoingFor(j) /\ \A s \in DoingFor(j) : s \in Thread \ {t}
      BY <1>1, <1>2, <1>3 DEF DoingFor
    <2>2. \A s \in Thread : Entry(s, j)' = Entry(s, j)
      BY <1>2 DEF Entry
    <2> QED
      BY <1>2, <1>3, <2>1, <2>2, OtherReductions DEF HandlerInv
  <1> QED
    BY <1>4, <1>5, <1>6, <1>7, <1>8, <1>9, <1>10, <1>11 DEF HandlerInv

(* A table changes at the home of k only.                                  *)
LEMMA EntryChanges ==
  ASSUME DistinctHomes, HandlerInv, NEW s \in Thread, NEW k \in Key, NEW e,
         data' = [data EXCEPT ![s][Home(k)] = e]
  PROVE  /\ Entry(s, k)' = e
         /\ \A r \in Thread, j \in Key :
              r # s \/ j # k => Entry(r, j)' = Entry(r, j)
         /\ \A r \in Thread, i \in Slot :
              r # s \/ i # Home(k) => data'[r][i] = data[r][i]
  <1>1. Home(k) \in Slot /\ data \in [Thread -> [Slot -> [id : Key \cup {Free}, parts : SUBSET Contribution]]]
    BY HomeIsASlot DEF HandlerInv, HandlerTypes, Tables
  <1>2. Entry(s, k)' = e
    BY <1>1 DEF Entry
  <1>3. \A r \in Thread, i \in Slot :
          r # s \/ i # Home(k) => data'[r][i] = data[r][i]
    BY <1>1
  <1>4. \A j \in Key : Home(j) \in Slot /\ (j # k => Home(j) # Home(k))
    BY HomeIsASlot DEF DistinctHomes
  <1> QED
    BY <1>2, <1>3, <1>4 DEF Entry

LEMMA StepPut ==
  ASSUME DistinctHomes, HandlerInv, NEW t \in Thread, Put(t),
         NEW k \in Key, mine[t].id = k
  PROVE  HandlerInv'
  <1> DEFINE part == mine[t].part
             e == [id |-> k, parts |-> Entry(t, k).parts \cup {part}]
  <1>1. /\ hpc[t] \in {"insert", "combine"} /\ ProbedBy(t) = Home(k) /\ k \in Nat
        /\ k # Free /\ ReductionInv(k) /\ Home(k) \in Slot
        /\ HandlerTypes /\ CounterInv /\ Storing(t)
        /\ part \in Contribution
        /\ Entry(t, k).parts \subseteq Contribution
        /\ hpc[t] = "insert" => Entry(t, k).id = Free
        /\ hpc[t] = "combine" => Entry(t, k).id = k
        /\ \A j \in Key \ {k} : t \notin DoingFor(j)
    BY InsideTheHandler, TableFacts, HomeIsASlot
       DEF Put, HandlerInv, Storing, CallsAreMatched, OwnEntryStays
  <1>2. /\ UNCHANGED <<vars, mine, at, todo, gathered, pending, result>>
        /\ hpc' = [hpc EXCEPT ![t] = "count"]
        /\ data' = [data EXCEPT ![t][Home(k)] = e]
    <2>1. Entry(t, k).id + (IF hpc[t] = "insert" THEN k ELSE 0) = k
      BY <1>1 DEF Free
    <2>2. /\ data' = [data EXCEPT ![t][Home(k)] =
                       [id |-> @.id + (IF hpc[t] = "insert" THEN k ELSE 0),
                        parts |-> @.parts \cup {part}]]
          /\ data[t][Home(k)] = Entry(t, k)
          /\ t \in DOMAIN data /\ Home(k) \in DOMAIN data[t]
      BY <1>1 DEF Put, Entry, HandlerTypes, Tables
    <2>3. data' = [data EXCEPT ![t][Home(k)] = e]
      BY <2>1, <2>2
    <2> QED
      BY <2>3 DEF Put, Move
  <1>3. /\ UNCHANGED <<pc, op, left, completed>>
        /\ hpc'[t] = "count" /\ \A s \in Thread \ {t} : hpc'[s] = hpc[s]
        /\ \A s \in Thread \ {t} : Storing(s)' <=> Storing(s)
        /\ ~ Storing(t)'
    BY <1>1, <1>2 DEF HandlerTypes, vars, Storing
  <1>4. CounterInv'
    BY <1>1, <1>2, NextCounter
  <1>5. /\ Entry(t, k)' = e
        /\ \A s \in Thread, j \in Key : s # t \/ j # k => Entry(s, j)' = Entry(s, j)
        /\ \A s \in Thread, i \in Slot : s # t \/ i # Home(k) => data'[s][i] = data[s][i]
        /\ data'[t][Home(k)] = e
    <2> HIDE DEF e
    <2>1. PICK d : d = e
      OBVIOUS
    <2>2. data' = [data EXCEPT ![t][Home(k)] = d]
      BY <1>2, <2>1
    <2>3. /\ Entry(t, k)' = d
          /\ \A s \in Thread, j \in Key : s # t \/ j # k => Entry(s, j)' = Entry(s, j)
          /\ \A s \in Thread, i \in Slot : s # t \/ i # Home(k) => data'[s][i] = data[s][i]
      BY <2>2, EntryChanges
    <2> QED
      BY <2>1, <2>3 DEF Entry
  <1>6. HandlerTypes'
    <2>1. e \in [id : Key \cup {Free}, parts : SUBSET Contribution]
      BY <1>1
    <2> HIDE DEF e
    <2>2. data' \in Tables
      BY <1>1, <1>2, <2>1 DEF HandlerTypes, Tables
    <2>3. hpc' \in [Thread -> {"out", "store", "insert", "combine", "count", "pop", "gather"}]
      BY <1>1, <1>2 DEF HandlerTypes
    <2> QED
      BY <1>1, <1>2, <2>2, <2>3 DEF HandlerTypes
  <1>7. CallsAreMatched'
    BY <1>1, <1>2, <1>3 DEF HandlerInv, CallsAreMatched
  <1>8. EntriesAreHome'
    BY <1>1, <1>5 DEF HandlerInv, EntriesAreHome
  <1>9. OwnEntryStays'
    <2> SUFFICES ASSUME NEW s \in Thread
                 PROVE  /\ hpc'[s] = "insert" => Entry(s, mine[s].id)'.id = Free
                        /\ hpc'[s] \in {"combine", "count", "pop"} =>
                             Entry(s, mine[s].id)'.id = mine[s].id
      BY <1>2 DEF OwnEntryStays
    <2>1. CASE s = t
      BY <1>2, <1>3, <1>5, <2>1 DEF Entry
    <2>2. CASE s # t
      <3>1. Entry(s, mine[s].id)' = Entry(s, mine[s].id)
        BY <1>2, <1>5, <2>2, InsideTheHandler DEF Entry
      <3> QED
        BY <1>3, <2>2, <3>1 DEF HandlerInv, OwnEntryStays
    <2> QED
      BY <2>1, <2>2
  <1>10. GatheredIsEmpty'
    BY <1>1, <1>2, <1>3 DEF HandlerInv, GatheredIsEmpty
  <1>11. ReductionInv(k)'
    <2>1. Uncounted(k)' = Uncounted(k) /\ t \in Uncounted(k)
      BY <1>1, <1>2, <1>3 DEF Uncounted, Storing, HandlerInv, CallsAreMatched
    <2>2. Collecting(k)
      <3>1. completed[k] = 0
        BY <2>1, CompletedIsQuiet
      <3> QED
        BY <1>1, <3>1 DEF ReductionInv, Emptying, Done
    <2>3. \A s \in Thread : hpc'[s] \in {"pop", "gather"} => hpc[s] \in {"pop", "gather"}
      BY <1>3
    <2>4. mine[t] = [id |-> k, part |-> part] /\ mine' = mine
      BY <1>1, <1>2 DEF HandlerTypes
    <2>5. ASSUME NEW n \in Contribution
          PROVE  (\E s \in Thread : \/ n \in Entry(s, k)'.parts
                                    \/ Storing(s)' /\ mine[s] = [id |-> k, part |-> n])
                 <=> (\E s \in Thread : \/ n \in Entry(s, k).parts
                                        \/ Storing(s) /\ mine[s] = [id |-> k, part |-> n])
      BY <1>1, <1>3, <1>5, <2>4
    <2>6. Collecting(k)'
      BY <1>2, <1>3, <2>2, <2>3, <2>5 DEF Collecting
    <2> QED
      BY <1>1, <1>2, <1>3, <2>1, <2>6 DEF ReductionInv
  <1>12. ASSUME NEW j \in Key \ {k} PROVE ReductionInv(j)'
    <2>1. DoingFor(j)' = DoingFor(j) /\ \A s \in DoingFor(j) : s \in Thread \ {t}
      BY <1>1, <1>2, <1>3 DEF DoingFor
    <2>2. \A s \in Thread : Entry(s, j)' = Entry(s, j)
      BY <1>5
    <2> QED
      BY <1>2, <1>3, <2>1, <2>2, OtherReductions DEF HandlerInv
  <1> QED
    BY <1>4, <1>6, <1>7, <1>8, <1>9, <1>10, <1>11, <1>12 DEF HandlerInv

LEMMA StepCall ==
  ASSUME DistinctHomes, HandlerInv, NEW t \in Thread, Call(t),
         NEW k \in Key, mine[t].id = k
  PROVE  HandlerInv'
  <1> DEFINE U == Uncounted(k)
  <1>1. /\ hpc[t] = "count" /\ k # Free /\ ReductionInv(k)
        /\ CounterInv /\ TypeOK
        /\ \A j \in Key \ {k} : t \notin DoingFor(j)
    BY InsideTheHandler, HomeIsASlot DEF Call, HandlerInv, CounterInv, TypeInv
  <1>2. /\ UNCHANGED handlerVars
        /\ UNCHANGED <<hpc, mine, at, data, todo, gathered, pending, result, completed>>
        /\ pc[t] = "idle" /\ pc'[t] = "probe" /\ op'[t] = k
        /\ left[k] > 0 /\ left'[k] = left[k] - 1
        /\ \A j \in Key \ {k} : left'[j] = left[j]
        /\ \A s \in Thread \ {t} : pc'[s] = pc[s] /\ op'[s] = op[s]
    BY <1>1 DEF Call, Begin, Goto, TypeOK, handlerVars
  <1>3. CounterInv'
    BY <1>1, NextCounter DEF Call, Next
  <1>4. HandlerTypes' /\ EntriesAreHome' /\ GatheredIsEmpty'
    BY <1>2 DEF HandlerInv, HandlerTypes, EntriesAreHome, GatheredIsEmpty
  <1>5. CallsAreMatched'
    BY <1>1, <1>2 DEF HandlerInv, CallsAreMatched, Storing
  <1>6. OwnEntryStays'
    BY <1>2 DEF HandlerInv, OwnEntryStays, Entry
  <1>7. ReductionInv(k)'
    <2>1. U' = U \ {t} /\ t \in U
      BY <1>1, <1>2 DEF Uncounted, Storing
    <2>2. IsFiniteSet(U') /\ Cardinality(U') = Cardinality(U) - 1
      BY <2>1, CountsOf, FS_RemoveElement
    <2>3. left'[k] = todo'[k] + Cardinality(U')
      BY <1>1, <1>2, <2>2, CountsOf DEF ReductionInv
    <2>4. Collecting(k)
      <3>1. completed[k] = 0
        BY <1>2, CompletedIsQuiet
      <3> QED
        BY <1>1, <3>1 DEF ReductionInv, Emptying, Done
    <2>5. Collecting(k)'
      BY <1>2, <2>4 DEF Collecting, Entry, Storing
    <2> QED
      BY <2>2, <2>3, <2>5 DEF ReductionInv
  <1>8. ASSUME NEW j \in Key \ {k} PROVE ReductionInv(j)'
    <2>1. DoingFor(j)' = DoingFor(j) /\ \A s \in DoingFor(j) : s \in Thread \ {t}
      BY <1>1, <1>2 DEF DoingFor
    <2>2. \A s \in Thread : Entry(s, j)' = Entry(s, j)
      BY <1>2 DEF Entry
    <2> QED
      BY <1>2, <2>1, <2>2, OtherReductions DEF HandlerInv
  <1> QED
    BY <1>3, <1>4, <1>5, <1>6, <1>7, <1>8 DEF HandlerInv

LEMMA IncrementEffect ==
  ASSUME DistinctHomes, CounterInv, NEW t \in Thread, Increment(t),
         NEW k \in Key, op[t] = k
  PROVE  /\ left' = left /\ pc[t] # "idle"
         /\ \A s \in Thread \ {t} : pc'[s] = pc[s] /\ op'[s] = op[s]
         /\ op'[t] \in {k, Free}
         /\ pc[t] = "free" => /\ pc'[t] = "idle" /\ left[k] = 0 /\ completed[k] = 0
                              /\ completed' = [completed EXCEPT ![k] = 1]
         /\ pc[t] # "free" => completed' = completed
  <1>1. TypeOK /\ TypeInv' /\ index[t] = Home(k)
    <2>1. [Next]_vars /\ pc[t] # "idle"
      BY DEF Next, Increment, Probe, Claim, Add, Sub, Release
    <2> QED
      BY <2>1, NextType, InsideACall DEF CounterInv, TypeInv
  <1>2. CASE Release(t)
    <2>1. left[k] = 0 /\ completed[k] = 0 /\ completed' = [completed EXCEPT ![k] = 1]
      BY <1>1, <1>2, StepRelease
    <2> QED
      BY <1>1, <1>2, <2>1 DEF Release, Goto, TypeOK
  <1>3. CASE Probe(t) \/ Claim(t)
    BY <1>1, <1>3 DEF Probe, Claim, Advance, Goto, TypeOK, table
  <1>4. CASE Add(t) \/ Sub(t)
    BY <1>1, <1>4 DEF Add, Sub, Goto, TypeOK
  <1> QED
    BY <1>2, <1>3, <1>4 DEF Increment

LEMMA StepReturn ==
  ASSUME DistinctHomes, HandlerInv, NEW t \in Thread, Return(t),
         NEW k \in Key, mine[t].id = k
  PROVE  HandlerInv'
  <1>1. /\ hpc[t] = "count" /\ op[t] = k /\ k # Free /\ ReductionInv(k)
        /\ pc[t] # "idle" /\ CounterInv /\ TypeInv /\ TypeOK /\ HandlerTypes
        /\ \A j \in Key \ {k} : t \notin DoingFor(j)
    <2>1. pc[t] # "idle"
      BY DEF Return, Increment, Probe, Claim, Add, Sub, Release
    <2>2. hpc[t] = "count" /\ op[t] = k
      BY <2>1 DEF HandlerInv, CallsAreMatched
    <2> QED
      BY <2>1, <2>2, InsideTheHandler, HomeIsASlot DEF HandlerInv, CounterInv, TypeInv
  <1>2. /\ UNCHANGED <<mine, at, data, todo, gathered, pending, result, left>>
        /\ \A s \in Thread \ {t} : pc'[s] = pc[s] /\ op'[s] = op[s]
        /\ op'[t] \in {k, Free}
        /\ pc[t] = "free" => /\ pc'[t] = "idle" /\ left[k] = 0 /\ completed[k] = 0
                             /\ completed' = [completed EXCEPT ![k] = 1]
        /\ pc[t] # "free" => completed' = completed
    BY <1>1, IncrementEffect DEF Return
  <1>3. CounterInv'
    BY <1>1, NextCounter DEF Return, Next
  <1>4. /\ hpc' = [hpc EXCEPT ![t] = IF pc[t] = "free" THEN "pop"
                                     ELSE IF pc'[t] = "idle" THEN "out" ELSE "count"]
        /\ hpc'[t] = IF pc[t] = "free" THEN "pop"
                     ELSE IF pc'[t] = "idle" THEN "out" ELSE "count"
        /\ \A s \in Thread \ {t} : hpc'[s] = hpc[s]
    BY <1>1, <1>2 DEF Return, Move, HandlerTypes
  <1>5. HandlerTypes'
    BY <1>1, <1>2, <1>4 DEF HandlerTypes
  <1>6. CallsAreMatched'
    BY <1>1, <1>2, <1>3, <1>4, HomeIsASlot
       DEF HandlerInv, CallsAreMatched, Storing, CounterInv, TypeInv
  <1>7. EntriesAreHome'
    BY <1>2 DEF HandlerInv, EntriesAreHome
  <1>8. OwnEntryStays' /\ GatheredIsEmpty'
    BY <1>1, <1>2, <1>4
       DEF HandlerInv, OwnEntryStays, GatheredIsEmpty, Entry
  <1>9. ReductionInv(k)'
    <2>1. Uncounted(k)' = Uncounted(k)
      BY <1>1, <1>2, <1>4 DEF Uncounted, Storing
    <2>2. Collecting(k)
      <3>1. t \in Working(k)
        BY <1>1 DEF Working
      <3>2. completed[k] = 0
        BY <3>1, CompletedIsQuiet
      <3> QED
        BY <1>1, <3>2 DEF ReductionInv, Emptying, Done
    <2>3. \A s \in Thread : Storing(s)' <=> Storing(s)
      BY <1>1, <1>4 DEF Storing
    <2>4. \A s \in Thread \ {t} : hpc'[s] \in {"pop", "gather"} => mine[s].id # k
      BY <1>4, <2>2 DEF Collecting
    <2>5. CASE pc[t] # "free"
      <3>1. hpc'[t] \notin {"pop", "gather"}
        BY <1>4, <2>5
      <3>2. Collecting(k)'
        BY <1>2, <2>2, <2>3, <2>4, <2>5, <3>1 DEF Collecting, Entry
      <3> QED
        BY <1>1, <1>2, <2>1, <3>2 DEF ReductionInv
    <2>6. CASE pc[t] = "free"
      <3>1. hpc'[t] = "pop" /\ completed'[k] = 1
        BY <1>1, <1>2, <1>4, <2>6 DEF TypeOK
      <3>2. todo[k] = 0 /\ Uncounted(k) = {}
        <4>1. todo[k] = 0 /\ Cardinality(Uncounted(k)) = 0
          BY <1>1, <1>2, <2>6, CountsOf DEF ReductionInv
        <4> QED
          BY <4>1, CountsOf, FS_EmptySet
      <3>3. \A n \in Contribution :
              n \in 1 .. Expected[k] <=>
                \E s \in Thread : n \in Entry(s, k).parts
        <4>1. \A s \in Thread : ~ (Storing(s) /\ mine[s].id = k)
          BY <3>2 DEF Uncounted
        <4>2. \A s \in Thread, n \in Contribution :
                ~ (Storing(s) /\ mine[s] = [id |-> k, part |-> n])
          BY <4>1
        <4>3. todo[k] + 1 = 1
          BY <3>2
        <4>4. \A n \in Contribution :
                n \in todo[k] + 1 .. Expected[k] <=>
                  \E s \in Thread : \/ n \in Entry(s, k).parts
                                    \/ Storing(s) /\ mine[s] = [id |-> k, part |-> n]
          BY <2>2 DEF Collecting
        <4>5. todo[k] + 1 .. Expected[k] = 1 .. Expected[k]
          BY <4>3
        <4> HIDE DEF Storing
        <4>6. ASSUME NEW n \in Contribution
              PROVE  n \in 1 .. Expected[k] <=> \E s \in Thread : n \in Entry(s, k).parts
          <5>1. n \in 1 .. Expected[k] <=>
                  \E s \in Thread : \/ n \in Entry(s, k).parts
                                    \/ Storing(s) /\ mine[s] = [id |-> k, part |-> n]
            BY <4>4, <4>5, Zenon
          <5> QED
            BY <4>2, <5>1, Zenon
        <4> QED
          BY <4>6, Zenon
      <3>4. gathered[t] = {}
        BY <1>1 DEF HandlerInv, GatheredIsEmpty
      <3>5. Emptying(k, t)'
        BY <1>2, <2>2, <2>4, <3>1, <3>3, <3>4 DEF Emptying, Collecting, Entry
      <3> QED
        BY <1>1, <1>2, <2>1, <3>5 DEF ReductionInv
    <2> QED
      BY <2>5, <2>6
  <1>10. ASSUME NEW j \in Key \ {k} PROVE ReductionInv(j)'
    <2>1. DoingFor(j)' = DoingFor(j) /\ \A s \in DoingFor(j) : s \in Thread \ {t}
      BY <1>1, <1>2, <1>4 DEF DoingFor
    <2>2. \A s \in Thread : Entry(s, j)' = Entry(s, j)
      BY <1>2 DEF Entry
    <2>3. completed'[j] = completed[j]
      BY <1>1, <1>2 DEF TypeOK
    <2> QED
      BY <1>2, <1>4, <2>1, <2>2, <2>3, OtherReductions DEF HandlerInv
  <1> QED
    BY <1>3, <1>5, <1>6, <1>7, <1>8, <1>9, <1>10 DEF HandlerInv

(* The thread that has been told true is the one that empties the tables.  *)
LEMMA WhoEmpties ==
  ASSUME DistinctHomes, HandlerInv, NEW t \in Thread, hpc[t] \in {"pop", "gather"},
         NEW k \in Key, mine[t].id = k
  PROVE  Emptying(k, t) /\ left[k] = 0 /\ Working(k) = {} /\ Uncounted(k) = {}
  <1>1. Emptying(k, t)
    <2>1. ReductionInv(k) /\ ~ Collecting(k) /\ ~ Done(k)
      BY DEF HandlerInv, Collecting, Done
    <2>2. PICK s \in Thread : Emptying(k, s)
      BY <2>1 DEF ReductionInv
    <2> QED
      BY <2>2 DEF Emptying
  <1> QED
    BY <1>1, CompletedIsQuiet DEF Emptying

(* The tables without what that of s holds for k.                          *)
Without(s, k) == [data EXCEPT ![s][Home(k)] = NoEntry]

(* Taking an entry of k out of a table while its thread may be at work     *)
(* there: no thread counts on an entry of k any more.                      *)
LEMMA EntryTakenOut ==
  ASSUME DistinctHomes, HandlerInv, NEW t \in Thread, hpc[t] \in {"pop", "gather"},
         NEW k \in Key, mine[t].id = k, NEW s \in Thread,
         data' = Without(s, k),
         hpc' = [hpc EXCEPT ![t] = "gather"], UNCHANGED <<mine, pc, op>>
  PROVE  /\ data' \in Tables
         /\ Entry(s, k)' = NoEntry
         /\ \A r \in Thread, j \in Key : r # s \/ j # k => Entry(r, j)' = Entry(r, j)
         /\ CallsAreMatched' /\ EntriesAreHome' /\ OwnEntryStays'
  <1>1. /\ HandlerTypes /\ Home(k) \in Slot
        /\ NoEntry \in [id : Key \cup {Free}, parts : SUBSET Contribution]
        /\ Emptying(k, t) /\ Working(k) = {} /\ Uncounted(k) = {}
    BY HomeIsASlot, WhoEmpties DEF HandlerInv, NoEntry
  <1>2. /\ UNCHANGED <<pc, op>> /\ hpc'[t] = "gather"
        /\ \A r \in Thread \ {t} : hpc'[r] = hpc[r]
    BY <1>1 DEF HandlerTypes
  <1>3. data' \in Tables
    BY <1>1 DEF HandlerTypes, Tables, Without
  <1>4. /\ Entry(s, k)' = NoEntry
        /\ \A r \in Thread, j \in Key : r # s \/ j # k => Entry(r, j)' = Entry(r, j)
        /\ \A r \in Thread, i \in Slot : r # s \/ i # Home(k) => data'[r][i] = data[r][i]
    BY EntryChanges DEF Without
  <1>5. CallsAreMatched'
    BY <1>2 DEF HandlerInv, CallsAreMatched, Storing
  <1>6. EntriesAreHome'
    BY <1>4 DEF HandlerInv, EntriesAreHome, Entry, NoEntry
  <1>7. OwnEntryStays'
    <2> SUFFICES ASSUME NEW r \in Thread
                 PROVE  /\ hpc'[r] = "insert" => Entry(r, mine[r].id)'.id = Free
                        /\ hpc'[r] \in {"combine", "count", "pop"} =>
                             Entry(r, mine[r].id)'.id = mine[r].id
      BY DEF OwnEntryStays
    <2>1. CASE r = t
      BY <1>2, <2>1
    <2>2. CASE r # t /\ mine[r].id = k
      <3>1. hpc[r] \notin {"pop", "gather", "combine"} /\ (hpc[r] = "count" => pc[r] # "idle")
        BY <1>1, <2>2 DEF Emptying, Uncounted, Storing
      <3>2. hpc[r] # "count"
        BY <1>1, <2>2, <3>1 DEF HandlerInv, CallsAreMatched, Working
      <3>3. Entry(r, k)'.id = Free \/ Entry(r, k)' = Entry(r, k)
        BY <1>4 DEF NoEntry
      <3>4. Entry(r, mine[r].id)' = Entry(r, k)'
        BY <2>2 DEF Entry
      <3> QED
        BY <1>2, <2>2, <3>1, <3>2, <3>3, <3>4 DEF HandlerInv, OwnEntryStays
    <2>3. CASE r # t /\ mine[r].id # k /\ hpc[r] # "out"
      <3>1. Entry(r, mine[r].id)' = Entry(r, mine[r].id)
        BY <1>4, <2>3, InsideTheHandler DEF Entry
      <3> QED
        BY <1>2, <2>3, <3>1 DEF HandlerInv, OwnEntryStays
    <2>4. CASE r # t /\ hpc[r] = "out"
      BY <1>2, <2>4
    <2> QED
      BY <2>1, <2>2, <2>3, <2>4
  <1> QED
    BY <1>3, <1>4, <1>5, <1>6, <1>7

LEMMA StepPopOwn ==
  ASSUME DistinctHomes, HandlerInv, NEW t \in Thread, PopOwn(t),
         NEW k \in Key, mine[t].id = k
  PROVE  HandlerInv'
  <1>1. /\ hpc[t] = "pop" /\ Emptying(k, t) /\ Uncounted(k) = {} /\ left[k] = 0
        /\ Entry(t, k).id = k /\ IndexOf(t, k) = Home(k)
        /\ Entry(t, k).parts \subseteq Contribution
        /\ gathered[t] = {} /\ HandlerTypes /\ CounterInv /\ ReductionInv(k)
        /\ \A j \in Key \ {k} : t \notin DoingFor(j)
    BY WhoEmpties, TableFacts, InsideTheHandler
       DEF PopOwn, HandlerInv, OwnEntryStays, GatheredIsEmpty
  <1>2. /\ UNCHANGED <<vars, mine, at, todo, result>>
        /\ UNCHANGED <<pc, op>>
        /\ hpc' = [hpc EXCEPT ![t] = "gather"]
        /\ data' = Without(t, k)
        /\ gathered' = [gathered EXCEPT ![t] = Entry(t, k).parts]
        /\ pending' = [pending EXCEPT ![t] = Thread \ {t}]
    BY <1>1 DEF PopOwn, TakeOut, Move, Entry, HandlerTypes, Without, vars
  <1>3. /\ data' \in Tables
        /\ Entry(t, k)' = NoEntry
        /\ \A r \in Thread, j \in Key : r # t \/ j # k => Entry(r, j)' = Entry(r, j)
        /\ CallsAreMatched' /\ EntriesAreHome' /\ OwnEntryStays'
    <2>1. hpc[t] \in {"pop", "gather"}
      BY <1>1
    <2> QED
      BY <2>1, <1>2, EntryTakenOut
  <1>4. CounterInv'
    BY <1>1, <1>2, NextCounter
  <1>5. HandlerTypes'
    BY <1>1, <1>2, <1>3 DEF HandlerTypes
  <1>6. /\ UNCHANGED <<pc, op, left, completed>>
        /\ hpc'[t] = "gather" /\ gathered'[t] = Entry(t, k).parts
        /\ pending'[t] = Thread \ {t}
        /\ \A s \in Thread \ {t} : /\ hpc'[s] = hpc[s] /\ gathered'[s] = gathered[s]
                                   /\ pending'[s] = pending[s]
    BY <1>1, <1>2 DEF HandlerTypes, vars
  <1>7. GatheredIsEmpty'
    BY <1>6 DEF HandlerInv, GatheredIsEmpty
  <1>8. ReductionInv(k)'
    <2>1. Uncounted(k)' = Uncounted(k)
      BY <1>1, <1>2, <1>6 DEF Uncounted, Storing
    <2>2. \A n \in Contribution :
            (n \in gathered[t] \/ \E s \in Thread : n \in Entry(s, k).parts) <=>
              (n \in gathered'[t] \/ \E s \in Thread : n \in Entry(s, k)'.parts)
      BY <1>1, <1>3, <1>6 DEF NoEntry
    <2>3. \A s \in Thread : s # t /\ hpc'[s] \in {"pop", "gather"} => mine[s].id # k
      BY <1>1, <1>6 DEF Emptying
    <2>4. \A s \in Thread : s \notin pending'[t] => Entry(s, k)'.id = Free
      BY <1>3, <1>6 DEF NoEntry
    <2>5. Emptying(k, t)'
      BY <1>1, <1>2, <1>6, <2>2, <2>3, <2>4 DEF Emptying
    <2> QED
      BY <1>1, <1>2, <1>6, <2>1, <2>5 DEF ReductionInv
  <1>9. ASSUME NEW j \in Key \ {k} PROVE ReductionInv(j)'
    <2>1. DoingFor(j)' = DoingFor(j) /\ \A s \in DoingFor(j) : s \in Thread \ {t}
      BY <1>1, <1>2, <1>6 DEF DoingFor
    <2>2. \A s \in Thread : Entry(s, j)' = Entry(s, j)
      BY <1>3
    <2> QED
      BY <1>2, <1>6, <2>1, <2>2, OtherReductions DEF HandlerInv
  <1> QED
    BY <1>3, <1>4, <1>5, <1>7, <1>8, <1>9 DEF HandlerInv

LEMMA StepGather ==
  ASSUME DistinctHomes, HandlerInv, NEW t \in Thread, Gather(t),
         NEW k \in Key, mine[t].id = k, NEW s \in Thread, s = NextTable(t)
  PROVE  HandlerInv'
  <1>1. /\ hpc[t] = "gather" /\ Emptying(k, t) /\ Uncounted(k) = {} /\ left[k] = 0
        /\ s \in pending[t]
        /\ HandlerTypes /\ CounterInv /\ ReductionInv(k)
        /\ \A j \in Key \ {k} : t \notin DoingFor(j)
    BY WhoEmpties, InsideTheHandler, NextTableIsPending DEF Gather, HandlerInv
  <1>2. /\ UNCHANGED <<vars, hpc, mine, at, todo, result>>
        /\ UNCHANGED <<pc, op>>
        /\ pending' = [pending EXCEPT ![t] = @ \ {s}]
    BY DEF Gather, vars
  <1>3. /\ UNCHANGED <<pc, op, left, completed>>
        /\ pending'[t] = pending[t] \ {s}
        /\ \A r \in Thread \ {t} : pending'[r] = pending[r]
    BY <1>1, <1>2 DEF HandlerTypes, vars
  <1>4. /\ data' \in Tables
        /\ Entry(s, k)'.id = Free
        /\ \A r \in Thread : r # s => Entry(r, k)' = Entry(r, k)
        /\ \A r \in Thread, j \in Key : j # k => Entry(r, j)' = Entry(r, j)
        /\ CallsAreMatched' /\ EntriesAreHome' /\ OwnEntryStays'
        /\ gathered' = [gathered EXCEPT ![t] = @ \cup Entry(s, k).parts]
        /\ Entry(s, k).parts \subseteq Contribution
        /\ Entry(s, k)'.parts = {}
    <2>1. CASE Entry(s, k).id = k
      <3>1. Holding(s, k) # {} /\ IndexOf(s, k) = Home(k)
        BY <1>1, <2>1, TableFacts
      <3>2. TakeOut(t, s, k)
        BY <3>1 DEF Gather
      <3>3. /\ data' = Without(s, k)
            /\ gathered' = [gathered EXCEPT ![t] = @ \cup Entry(s, k).parts]
        BY <3>1, <3>2 DEF TakeOut, Entry, Without
      <3>4. hpc' = [hpc EXCEPT ![t] = "gather"]
        BY <1>1, <1>2 DEF HandlerTypes
      <3> QED
        <4>1. hpc[t] \in {"pop", "gather"}
          BY <1>1
        <4> UNCHANGED <<mine, pc, op>>
          BY <1>2
        <4>2. /\ data' \in Tables
              /\ Entry(s, k)' = NoEntry
              /\ \A r \in Thread, j \in Key : r # s \/ j # k => Entry(r, j)' = Entry(r, j)
              /\ CallsAreMatched' /\ EntriesAreHome' /\ OwnEntryStays'
          BY <4>1, <3>3, <3>4, EntryTakenOut
        <4>3. Entry(s, k).parts \subseteq Contribution
          BY TableFacts
        <4> QED
          BY <3>3, <4>2, <4>3 DEF NoEntry
    <2>2. CASE Entry(s, k).id # k
      <3>1. Holding(s, k) = {} /\ Entry(s, k).id = Free /\ Entry(s, k).parts = {}
        BY <1>1, <2>2, TableFacts
      <3>2. UNCHANGED <<data, gathered>>
        BY <3>1 DEF Gather
      <3>3. CallsAreMatched' /\ EntriesAreHome' /\ OwnEntryStays'
        BY <1>2, <1>3, <3>2
           DEF HandlerInv, CallsAreMatched, EntriesAreHome, OwnEntryStays, Entry, Storing
      <3>4. gathered' = [gathered EXCEPT ![t] = @ \cup Entry(s, k).parts]
        BY <1>1, <3>1, <3>2 DEF HandlerTypes
      <3> QED
        BY <1>1, <3>1, <3>2, <3>3, <3>4 DEF HandlerTypes, Entry
    <2> QED
      BY <2>1, <2>2
  <1>5. CounterInv'
    BY <1>1, <1>2, NextCounter
  <1>6. HandlerTypes'
    BY <1>1, <1>2, <1>4 DEF HandlerTypes
  <1>7. /\ gathered'[t] = gathered[t] \cup Entry(s, k).parts
        /\ \A r \in Thread \ {t} : gathered'[r] = gathered[r]
    BY <1>1, <1>4 DEF HandlerTypes
  <1>8. GatheredIsEmpty'
    BY <1>1, <1>2, <1>7 DEF HandlerInv, GatheredIsEmpty
  <1>9. ReductionInv(k)'
    <2>1. Uncounted(k)' = Uncounted(k)
      BY <1>2, <1>3 DEF Uncounted, Storing
    <2>2. \A n \in Contribution :
            (n \in gathered[t] \/ \E r \in Thread : n \in Entry(r, k).parts) <=>
              (n \in gathered'[t] \/ \E r \in Thread : n \in Entry(r, k)'.parts)
      BY <1>1, <1>4, <1>7
    <2>3. \A r \in Thread : r \notin pending'[t] => Entry(r, k)'.id = Free
      BY <1>1, <1>3, <1>4 DEF Emptying
    <2>4. Emptying(k, t)'
      BY <1>1, <1>2, <1>3, <2>2, <2>3 DEF Emptying
    <2> QED
      BY <1>1, <1>2, <1>3, <2>1, <2>4 DEF ReductionInv
  <1>10. ASSUME NEW j \in Key \ {k} PROVE ReductionInv(j)'
    <2>1. DoingFor(j)' = DoingFor(j) /\ \A r \in DoingFor(j) : r \in Thread \ {t}
      BY <1>1, <1>2, <1>3 DEF DoingFor
    <2>2. \A r \in Thread : Entry(r, j)' = Entry(r, j)
      BY <1>4
    <2> QED
      BY <1>2, <1>3, <1>7, <2>1, <2>2, OtherReductions DEF HandlerInv
  <1> QED
    BY <1>4, <1>5, <1>6, <1>8, <1>9, <1>10 DEF HandlerInv

LEMMA StepHandOn ==
  ASSUME DistinctHomes, HandlerInv, NEW t \in Thread, HandOn(t),
         NEW k \in Key, mine[t].id = k
  PROVE  HandlerInv'
  <1>1. /\ hpc[t] = "gather" /\ Emptying(k, t) /\ Uncounted(k) = {} /\ left[k] = 0
        /\ HandlerTypes /\ CounterInv /\ ReductionInv(k) /\ k # Free
        /\ gathered[t] \subseteq Contribution
        /\ \A j \in Key \ {k} : t \notin DoingFor(j)
    BY WhoEmpties, InsideTheHandler, HomeIsASlot DEF HandOn, HandlerInv, HandlerTypes
  <1>2. /\ UNCHANGED <<vars, mine, at, data, todo, pending>>
        /\ UNCHANGED <<pc, op, left, completed>>
        /\ pending[t] = {}
        /\ result' = [result EXCEPT ![k] = gathered[t]]
        /\ gathered' = [gathered EXCEPT ![t] = {}]
        /\ hpc' = [hpc EXCEPT ![t] = "out"]
    BY DEF HandOn, Move, vars
  <1>3. /\ hpc'[t] = "out" /\ gathered'[t] = {} /\ result'[k] = gathered[t]
        /\ \A s \in Thread \ {t} : hpc'[s] = hpc[s] /\ gathered'[s] = gathered[s]
        /\ \A j \in Key \ {k} : result'[j] = result[j]
    BY <1>1, <1>2 DEF HandlerTypes
  <1>4. CounterInv'
    BY <1>1, <1>2, NextCounter
  <1>5. HandlerTypes'
    BY <1>1, <1>2 DEF HandlerTypes
  <1>6. CallsAreMatched'
    BY <1>1, <1>2, <1>3 DEF HandlerInv, CallsAreMatched, Storing
  <1>7. EntriesAreHome'
    BY <1>2 DEF HandlerInv, EntriesAreHome
  <1>8. OwnEntryStays' /\ GatheredIsEmpty'
    BY <1>2, <1>3 DEF HandlerInv, OwnEntryStays, GatheredIsEmpty, Entry
  <1>9. ReductionInv(k)'
    <2>1. Uncounted(k)' = Uncounted(k)
      BY <1>1, <1>2, <1>3 DEF Uncounted, Storing
    <2>2. \A s \in Thread : Entry(s, k).id = Free /\ Entry(s, k).parts = {}
      BY <1>1, <1>2, TableFacts DEF Emptying
    <2>3. 1 .. Expected[k] \subseteq Contribution
      BY ExpectedAssumption DEF Contribution
    <2>4. \A n \in Contribution : n \in 1 .. Expected[k] <=> n \in gathered[t]
      BY <1>1, <2>2 DEF Emptying
    <2>5. gathered[t] = 1 .. Expected[k]
      BY <1>1, <2>3, <2>4
    <2>6. \A s \in Thread : hpc'[s] \in {"pop", "gather"} => mine[s].id # k
      BY <1>1, <1>3 DEF Emptying
    <2>7. Done(k)'
      BY <1>1, <1>2, <1>3, <2>2, <2>5, <2>6 DEF Done, Emptying, Entry
    <2> QED
      BY <1>1, <1>2, <2>1, <2>7 DEF ReductionInv
  <1>10. ASSUME NEW j \in Key \ {k} PROVE ReductionInv(j)'
    <2>1. DoingFor(j)' = DoingFor(j) /\ \A s \in DoingFor(j) : s \in Thread \ {t}
      BY <1>1, <1>2, <1>3 DEF DoingFor
    <2>2. \A s \in Thread : Entry(s, j)' = Entry(s, j)
      BY <1>2 DEF Entry
    <2> QED
      BY <1>2, <1>3, <2>1, <2>2, OtherReductions DEF HandlerInv
  <1> QED
    BY <1>4, <1>5, <1>6, <1>7, <1>8, <1>9, <1>10 DEF HandlerInv

LEMMA StepStartAgain ==
  ASSUME DistinctHomes, HandlerInv, NEW k \in Key, StartAgain(k)
  PROVE  HandlerInv'
  <1>1. /\ HandlerTypes /\ CounterInv /\ TypeOK /\ ReductionInv(k)
        /\ Expected[k] \in Nat \ {0}
    BY ExpectedAssumption DEF HandlerInv, CounterInv, TypeInv
  <1>2. /\ UNCHANGED <<hpc, mine, at, data, gathered, pending>>
        /\ UNCHANGED <<pc, op>>
        /\ result[k] # {} /\ completed[k] = 1
        /\ todo' = [todo EXCEPT ![k] = Expected[k]]
        /\ result' = [result EXCEPT ![k] = {}]
        /\ left' = [left EXCEPT ![k] = Expected[k]]
        /\ completed' = [completed EXCEPT ![k] = 0]
    BY DEF StartAgain, Reuse
  <1>3. CounterInv'
    BY <1>1, NextCounter DEF StartAgain, Next
  <1>4. /\ todo'[k] = Expected[k] /\ left'[k] = Expected[k]
        /\ result'[k] = {} /\ completed'[k] = 0
        /\ \A j \in Key \ {k} : /\ todo'[j] = todo[j] /\ left'[j] = left[j]
                                /\ result'[j] = result[j] /\ completed'[j] = completed[j]
    BY <1>1, <1>2 DEF HandlerTypes, TypeOK
  <1>5. HandlerTypes'
    BY <1>1, <1>2 DEF HandlerTypes
  <1>6. CallsAreMatched'
    BY <1>2 DEF HandlerInv, CallsAreMatched, Storing
  <1>7. EntriesAreHome' /\ OwnEntryStays' /\ GatheredIsEmpty'
    BY <1>2 DEF HandlerInv, EntriesAreHome, OwnEntryStays, GatheredIsEmpty, Entry
  <1>8. ReductionInv(k)'
    <2>1. Done(k)
      BY <1>1, <1>2 DEF ReductionInv, Collecting, Emptying
    <2>2. Uncounted(k) = {} /\ Uncounted(k)' = {}
      <3>1. Uncounted(k) = {}
        BY <1>2, CompletedIsQuiet
      <3> QED
        BY <1>2, <3>1 DEF Uncounted, Storing
    <2>3. IsFiniteSet(Uncounted(k)') /\ Cardinality(Uncounted(k)') = 0
      BY <2>2, FS_EmptySet
    <2>4. \A s \in Thread : Entry(s, k).parts = {}
      BY <2>1, TableFacts DEF Done
    <2>5. \A s \in Thread : ~ (Storing(s) /\ mine[s].id = k)
      BY <2>2 DEF Uncounted
    <2>6. \A n \in Contribution : n \notin Expected[k] + 1 .. Expected[k]
      BY <1>1
    <2>7. \A s \in Thread, n \in Contribution :
            ~ (Storing(s) /\ mine[s] = [id |-> k, part |-> n])
      BY <2>5
    <2>8. Collecting(k)'
      BY <1>2, <1>4, <2>1, <2>4, <2>6, <2>7
         DEF Collecting, Done, Entry, Storing
    <2> QED
      BY <1>1, <1>4, <2>3, <2>8 DEF ReductionInv
  <1>9. ASSUME NEW j \in Key \ {k} PROVE ReductionInv(j)'
    <2>1. DoingFor(j)' = DoingFor(j)
      BY <1>2 DEF DoingFor
    <2>2. \A s \in Thread : Entry(s, j)' = Entry(s, j)
      BY <1>2 DEF Entry
    <2> QED
      BY <1>2, <1>4, <2>1, <2>2, OtherReductions DEF HandlerInv
  <1> QED
    BY <1>3, <1>5, <1>6, <1>7, <1>8, <1>9 DEF HandlerInv

LEMMA NextHandler == DistinctHomes /\ HandlerInv /\ [HandlerNext]_allVars => HandlerInv'
  <1> SUFFICES ASSUME DistinctHomes, HandlerInv, [HandlerNext]_allVars
               PROVE  HandlerInv'
    OBVIOUS
  <1>1. ASSUME NEW t \in Thread, NEW k \in Key, Contribute(t, k) PROVE HandlerInv'
    BY <1>1, StepContribute
  <1>2. ASSUME NEW t \in Thread, InsertOrCombine(t) PROVE HandlerInv'
    <2>1. hpc[t] # "out"
      BY <1>2 DEF InsertOrCombine, Look, Put, Call, Return, PopOwn, Gather, HandOn,
                  HandlerInv, CallsAreMatched, Increment, Probe, Claim, Add, Sub, Release
    <2>2. mine[t].id \in Key
      BY <2>1, InsideTheHandler
    <2>3. CASE Gather(t)
      <3>1. NextTable(t) \in Thread
        BY <2>3, NextTableIsPending DEF Gather
      <3> QED
        BY <2>2, <2>3, <3>1, StepGather
    <2>4. CASE ~ Gather(t)
      BY <1>2, <2>2, <2>4, StepLook, StepPut, StepCall, StepReturn, StepPopOwn,
         StepHandOn DEF InsertOrCombine
    <2> QED
      BY <2>3, <2>4
  <1>3. ASSUME NEW k \in Key, StartAgain(k) PROVE HandlerInv'
    BY <1>3, StepStartAgain
  <1>4. CASE UNCHANGED allVars
    <2>1. /\ UNCHANGED <<vars, hpc, mine, at, data, todo, gathered, pending, result>>
          /\ UNCHANGED <<pc, op, left, completed>>
      BY <1>4 DEF allVars, handlerVars, vars
    <2>2. CounterInv'
      BY <2>1, NextCounter DEF HandlerInv
    <2>3. HandlerTypes' /\ CallsAreMatched'
      BY <2>1 DEF HandlerInv, HandlerTypes, CallsAreMatched, Storing
    <2>4. EntriesAreHome' /\ OwnEntryStays' /\ GatheredIsEmpty'
      BY <2>1 DEF HandlerInv, EntriesAreHome, OwnEntryStays, GatheredIsEmpty, Entry
    <2>5. ASSUME NEW j \in Key PROVE ReductionInv(j)'
      <3>1. DoingFor(j)' = DoingFor(j)
        BY <2>1 DEF DoingFor
      <3>2. \A s \in Thread : Entry(s, j)' = Entry(s, j)
        BY <2>1 DEF Entry
      <3> QED
        BY <2>1, <3>1, <3>2, OtherReductions DEF HandlerInv
    <2> QED
      BY <2>2, <2>3, <2>4, <2>5 DEF HandlerInv
  <1> QED
    BY <1>1, <1>2, <1>3, <1>4 DEF HandlerNext

LEMMA HandlerConsequences ==
  ASSUME DistinctHomes, HandlerInv
  PROVE  HandlerTypeOK /\ HandedOnIsWhole /\ TablesAreEmptied
  <1>1. HandlerTypeOK
    BY SizeAssumption
       DEF HandlerInv, HandlerTypes, Tables, EntriesAreHome, CounterInv, TypeInv,
           HandlerTypeOK
  <1>2. ASSUME NEW k \in Key
        PROVE  /\ result[k] \in {{}, 1 .. Expected[k]}
               /\ result[k] # {} => \A t \in Thread : Holding(t, k) = {}
    <2>1. ReductionInv(k)
      BY DEF HandlerInv
    <2>2. CASE Done(k)
      <3>1. \A t \in Thread : Holding(t, k) = {}
        BY <2>2, TableFacts, HomeIsASlot DEF Done
      <3> QED
        BY <2>2, <3>1 DEF Done
    <2>3. CASE ~ Done(k)
      BY <2>1, <2>3 DEF ReductionInv, Collecting, Emptying
    <2> QED
      BY <2>2, <2>3
  <1> QED
    BY <1>1, <1>2 DEF HandedOnIsWhole, TablesAreEmptied

LEMMA HandlerInvariant ==
  ASSUME DistinctHomes
  PROVE  HandlerSpec => []HandlerInv
  <1>1. HandlerInit => HandlerInv
    BY InitHandler
  <1>2. HandlerInv /\ [HandlerNext]_allVars => HandlerInv'
    BY NextHandler
  <1> QED
    BY <1>1, <1>2, PTL DEF HandlerSpec

(* Under the same hypothesis, and from here on: the tables of the threads  *)
(* keep their types, an entry without a key holds nothing, and no probe of *)
(* insert_or_combine runs past the end of a table.                         *)
THEOREM HandlerTypeCorrect ==
  ASSUME DistinctHomes
  PROVE  HandlerSpec => []HandlerTypeOK
  <1>1. HandlerInv => HandlerTypeOK
    BY HandlerConsequences
  <1> QED
    BY <1>1, HandlerInvariant, PTL

(* What the process hands on for a reduction is all the contributions of   *)
(* its elements and nothing else, whichever threads made them and while    *)
(* other reductions use the same tables.                                   *)
THEOREM ResultsAreWhole ==
  ASSUME DistinctHomes
  PROVE  HandlerSpec => []HandedOnIsWhole
  <1>1. HandlerInv => HandedOnIsWhole
    BY HandlerConsequences
  <1> QED
    BY <1>1, HandlerInvariant, PTL

(* When the result has been handed on no table holds anything for the      *)
(* reduction: the next one under its id starts from nothing.               *)
THEOREM NothingIsLeftBehind ==
  ASSUME DistinctHomes
  PROVE  HandlerSpec => []TablesAreEmptied
  <1>1. HandlerInv => TablesAreEmptied
    BY HandlerConsequences
  <1> QED
    BY <1>1, HandlerInvariant, PTL

(* Inside the handler the counter takes only the steps it takes on its     *)
(* own: what is proved of the counter holds of the handler.                *)
THEOREM HandlerImplementsCounter ==
  ASSUME DistinctHomes
  PROVE  HandlerSpec => Spec
  <1>1. HandlerInit => Init
    BY DEF HandlerInit
  <1>2. HandlerInv /\ [HandlerNext]_allVars => [Next]_vars
    <2> SUFFICES ASSUME HandlerInv, [HandlerNext]_allVars PROVE [Next]_vars
      OBVIOUS
    <2>1. ASSUME NEW t \in Thread, Call(t) PROVE Next
      <3>1. mine[t].id \in Key
        BY <2>1, InsideTheHandler DEF Call
      <3> QED
        BY <2>1, <3>1 DEF Call, Next
    <2>2. ASSUME NEW t \in Thread, Return(t) PROVE Next
      BY <2>2 DEF Return, Next
    <2>3. ASSUME NEW k \in Key, StartAgain(k) PROVE Next
      BY <2>3 DEF StartAgain, Next
    <2> QED
      BY <2>1, <2>2, <2>3
         DEF HandlerNext, InsertOrCombine, Contribute, Look, Put, PopOwn, Gather,
             HandOn, allVars
  <1> QED
    BY <1>1, <1>2, HandlerInvariant, PTL DEF HandlerSpec, Spec

=============================================================================
