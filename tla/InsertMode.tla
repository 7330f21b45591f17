------------------------------- MODULE InsertMode -------------------------------
(***************************************************************************)
(* How the processes of a program get from insertion to execution: each    *)
(* inserts its components by itself, then all call insert_barrier, which   *)
(* compares what ComponentRegistry says they have.                         *)
(***************************************************************************)
EXTENDS ComponentRegistry

CONSTANT Program   \* the sequences of calls a process may make before it

Insertion ==
  [call : {"component", "look up"}, component : Component]
    \cup [call : {"remove"}, component : Component, index : ElementIndex]
    \cup [call : {"element"}, component : Component, index : ElementIndex, process : Nat]
ASSUME ProgramAssumption == Program \subseteq Seq(Insertion)

VARIABLES
  todo,    \* the calls each process has yet to make
  pc,      \* where each process is in insert_barrier
  wire     \* the processes whose description is on its way to the parent

insertVars == <<object_index, distributed_objects, in_insert_mode, todo, pc, wire>>

(* What the processes compare.                                             *)
Account == [p \in Process |-> Description(distributed_objects[p])]

Barrier == INSTANCE InsertBarrier WITH
  inserted <- Account,
  Accounting <- {Description(objs) : objs \in Seq(Holder)}

InsertTypeOK ==
  /\ RegistryTypeOK
  /\ todo \in [Process -> Seq(Insertion)]
  /\ pc \in [Process -> Barrier!Places]
  /\ wire \subseteq Process \ {Root}

InsertInit ==
  /\ RegistryInit
  /\ todo \in [Process -> Program]
  /\ pc = [p \in Process |-> "insert"]
  /\ wire = {}

-----------------------------------------------------------------------------
(* The next call of a program                                              *)

Perform(p, call) ==
  \/ call.call = "component" /\ InsertComponent(p, call.component)
  \/ call.call = "element" /\ InsertElement(p, call.component, call.index, call.process)
  \/ call.call = "remove" /\ RemoveElement(p, call.component, call.index)
  \/ call.call = "look up" /\ LookUp(p, call.component)

Prepare(p) ==
  /\ pc[p] = "insert" /\ todo[p] # <<>>
  /\ Perform(p, Head(todo[p]))
  /\ todo' = [todo EXCEPT ![p] = Tail(@)]
  /\ UNCHANGED <<pc, wire>>

(* insert_barrier, with or without the check of the accounting             *)

Check(p) ==
  /\ pc[p] # "insert" \/ todo[p] = <<>>
  /\ UNCHANGED <<object_index, distributed_objects, todo>>
  /\ Barrier!Step(p)

Meet ==
  /\ UNCHANGED <<object_index, distributed_objects, todo>>
  /\ Barrier!FirstBarrier \/ Barrier!SecondBarrier

InsertNext == Meet \/ \E p \in Process : Prepare(p) \/ Check(p)

InsertSpec == InsertInit /\ [][InsertNext]_insertVars

(* What has to happen in the end: a process makes its calls and then calls *)
(* insert_barrier, and goes on in it as soon as it can.                    *)
Proceed == Meet \/ \E p \in Process : Prepare(p) \/ (Barrier!Ready(p) /\ Check(p))

-----------------------------------------------------------------------------
(* Properties *)

Agree == \A p, q \in Process : Account[p] = Account[q]

(* The point of the check: nobody leaves insert mode unless all processes  *)
(* have inserted the same, although each is compared with its parent only. *)
OnlyAgreementLeavesInsertMode == Barrier!OnlyAgreementLeavesInsertMode

(* insert_barrier "ensures that all ranks registered the same set of       *)
(* parallel components and collection elements in the same order": whoever *)
(* is out of insert mode may send the number of a component to anybody.    *)
SameNumbering ==
  (\E p \in Process : ~in_insert_mode[p]) =>
    \A p, q \in Process : Named(distributed_objects[p]) = Named(distributed_objects[q])

(* Whether processes that have all called it and agree are through.        *)
AgreementIsThrough ==
  ((\A p \in Process : pc[p] # "insert") /\ Agree) => \A p \in Process : pc[p] = "run"
=============================================================================
