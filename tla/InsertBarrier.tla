------------------------------ MODULE InsertBarrier ------------------------------
(***************************************************************************)
(* insert_barrier: how the processes leave insert mode together.  Between  *)
(* two barriers each process sends a description of the components it has  *)
(* inserted to its parent and compares those of its children with its own; *)
(* it throws if one differs.                                               *)
(*                                                                         *)
(* What a process has inserted is one value, its description, of which     *)
(* only equality matters.  A description is never empty: it begins with    *)
(* two counts.  InsertMode says what is inserted and how it is described.  *)
(***************************************************************************)
EXTENDS ProcessTree

CONSTANTS Accounting   \* what a process may have inserted

VARIABLES
  inserted,       \* the component accounting of each process
  pc,             \* where each process is in insert_barrier
  wire,           \* the processes whose description is on its way
  in_insert_mode

vars == <<inserted, pc, wire, in_insert_mode>>

Places == {"insert", "barrier1", "send", "left", "right", "wait", "barrier2",
           "run", "thrown"}

TypeOK ==
  /\ inserted \in [Process -> Accounting]
  /\ pc \in [Process -> Places]
  /\ wire \subseteq Process \ {Root}
  /\ in_insert_mode \in [Process -> BOOLEAN]

Init ==
  /\ inserted \in [Process -> Accounting]
  /\ pc = [p \in Process |-> "insert"]
  /\ wire = {}
  /\ in_insert_mode = [p \in Process |-> TRUE]

Goto(p, place) == pc' = [pc EXCEPT ![p] = place]

(* The process inserts or removes something, or an insertion fails.        *)
Insert(p) ==
  /\ pc[p] = "insert"
  /\ inserted'[p] \in Accounting
  /\ inserted' = [inserted EXCEPT ![p] = inserted'[p]]
  /\ UNCHANGED <<pc, wire, in_insert_mode>>

(* insert_barrier is called: barrier().                                    *)
Enter(p) ==
  /\ pc[p] = "insert"
  /\ Goto(p, "barrier1")
  /\ UNCHANGED <<inserted, wire, in_insert_mode>>

(* MPI_Barrier returns once everybody is in it.                            *)
FirstBarrier ==
  /\ \A p \in Process : pc[p] = "barrier1"
  /\ pc' = [p \in Process |-> "send"]
  /\ UNCHANGED <<inserted, wire, in_insert_mode>>

(* Mutant of SendUp: the root sends as well.                               *)
SendUpAlways(p) ==
  /\ pc[p] = "send"
  /\ wire' = wire \cup {p}
  /\ Goto(p, "left")
  /\ UNCHANGED <<inserted, in_insert_mode>>

(* MPI_Isend to the parent, if there is one.                               *)
SendUp(p) ==
  /\ pc[p] = "send"
  /\ wire' = IF Parent(p) = None THEN wire ELSE wire \cup {p}
  /\ Goto(p, "left")
  /\ UNCHANGED <<inserted, in_insert_mode>>

(* compare_component_accounting_buffers: it throws if they differ.         *)
Agrees(p, child) == inserted[child] = inserted[p]

(* Mutant of CompareWith: a description that differs is let through.       *)
CompareLoosely(p, child, here, next) ==
  /\ pc[p] = here
  /\ \/ child = None /\ Goto(p, next) /\ UNCHANGED wire
     \/ /\ child \in wire
        /\ wire' = wire \ {child}
        /\ Goto(p, next)
  /\ UNCHANGED <<inserted, in_insert_mode>>

(* Mutant of CompareWith: a description is awaited from a child that does  *)
(* not exist.                                                              *)
CompareNobody(p, child, here, next) ==
  /\ pc[p] = here
  /\ child \in wire
  /\ wire' = wire \ {child}
  /\ Goto(p, IF Agrees(p, child) THEN next ELSE "thrown")
  /\ UNCHANGED <<inserted, in_insert_mode>>

(* receive_and_compare                                                     *)
CompareWith(p, child, here, next) ==
  /\ pc[p] = here
  /\ \/ child = None /\ Goto(p, next) /\ UNCHANGED wire
     \/ /\ child \in wire
        /\ wire' = wire \ {child}
        /\ Goto(p, IF Agrees(p, child) THEN next ELSE "thrown")
  /\ UNCHANGED <<inserted, in_insert_mode>>

(* MPI_Wait for the send to the parent.  MPI may buffer a description and  *)
(* call it sent before it has been received, but need not.                 *)
SendDone(p) ==
  /\ pc[p] = "wait"
  /\ Goto(p, "barrier2")
  /\ UNCHANGED <<inserted, wire, in_insert_mode>>

SecondBarrier ==
  /\ \A p \in Process : pc[p] = "barrier2"
  /\ pc' = [p \in Process |-> "run"]
  /\ in_insert_mode' = [p \in Process |-> FALSE]
  /\ UNCHANGED <<inserted, wire>>

Step(p) ==
  \/ Enter(p)
  \/ SendUp(p)
  \/ CompareWith(p, LeftChild(p), "left", "right")
  \/ CompareWith(p, RightChild(p), "right", "wait")
  \/ SendDone(p)

Next ==
  \/ FirstBarrier
  \/ SecondBarrier
  \/ \E p \in Process : Insert(p) \/ Step(p)

Spec == Init /\ [][Next]_vars

(* A send is bound to be complete only once it has been received.          *)
Ready(p) == pc[p] = "wait" => p \notin wire

-----------------------------------------------------------------------------
(* Properties *)

(* The point of the check: nobody leaves insert mode unless all processes  *)
(* have inserted the same, although each is compared with its parent only. *)
OnlyAgreementLeavesInsertMode ==
  (\E p \in Process : ~in_insert_mode[p]) =>
    \A p, q \in Process : inserted[p] = inserted[q]

=============================================================================
