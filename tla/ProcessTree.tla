------------------------------ MODULE ProcessTree ------------------------------
(***************************************************************************)
(* The binary virtual tree the processes form: process p has the children  *)
(* 2p+1 and 2p+2 when they exist, and process 0 is the root.  Everything   *)
(* that crosses processes (quiescence detection, broadcasts, reductions)   *)
(* runs along this tree.  Source: ParentAndChildren.hpp/.cpp.              *)
(***************************************************************************)
EXTENDS Integers, FiniteSets

CONSTANT N    \* total_process_ids: how many processes there are

ASSUME NAssumption == N \in Nat \ {0}

Process == 0 .. N - 1
None == -1    \* "no such process" in ParentAndChildren
Root == 0

-----------------------------------------------------------------------------
(* parent_and_children *)

LeftChild(p) == IF 2 * p + 1 < N THEN 2 * p + 1 ELSE None
RightChild(p) == IF 2 * p + 2 < N THEN 2 * p + 2 ELSE None

Parent(p) == IF p = 0 THEN None
             ELSE IF p % 2 = 0 THEN (p - 2) \div 2
             ELSE (p - 1) \div 2

Children(p) == {LeftChild(p), RightChild(p)} \ {None}
IsLeaf(p) == Children(p) = {}

(* The processes on the path from p to the root, for the properties.       *)
Ancestors[p \in Process] ==
  IF p = Root THEN {} ELSE {Parent(p)} \cup Ancestors[Parent(p)]

-----------------------------------------------------------------------------
(* The walks of a reduction along the tree.  S are the processes that      *)
(* satisfy the predicate.                                                  *)

(* find_first_parent: the nearest of S above p.                            *)
FirstParent(p, S) ==
  LET up[q \in Process] ==
        IF q = Root THEN None
        ELSE IF Parent(q) \in S THEN Parent(q) ELSE up[Parent(q)]
  IN  up[p]

(* count_first_descendants: a branch is followed down to its first process *)
(* of S.                                                                   *)
FirstDescendants(p, S) ==
  LET down[q \in Process] ==
        UNION {IF c \in S THEN {c} ELSE down[c] : c \in Children(q)}
  IN  down[p]
=============================================================================
