---------------------------- MODULE ComponentRegistry ----------------------------
(***************************************************************************)
(* What each process knows of the parallel components: the vector          *)
(* distributed_objects_ with one entry per component, and for a collection *)
(* on which process each element is.  A component is addressed by its      *)
(* place in that vector, counted from 0, which distributed_object_index    *)
(* gives it: a static variable, set from a counter when the process asks   *)
(* for it for the first time, whatever for.                                *)
(*                                                                         *)
(* The objects themselves are left out.  A call that throws is taken to be *)
(* caught: the process goes on with what the call has left behind.         *)
(***************************************************************************)
EXTENDS ProcessTree, Sequences, SequencesExt

CONSTANTS
  Component,     \* the parallel components
  Collections,   \* those that are collections
  ElementIndex   \* the indices their elements may have

ASSUME ComponentAssumption == Collections \subseteq Component
ASSUME ElementAssumption == IsFiniteSet(ElementIndex)

VARIABLES
  object_index,          \* the components a process has asked for, in order
  distributed_objects,   \* distributed_objects_ of each process
  in_insert_mode         \* in_insert_mode_

registryVars == <<object_index, distributed_objects, in_insert_mode>>

(* DistributedOjectClassHolder: a map from the elements to their processes *)
(* and, kept apart from it, what each process has and how many are here.   *)
Locations == UNION {[S -> Process] : S \in SUBSET ElementIndex}
Holder ==
  [name : Component, objects : Locations, number_of_local_objects : Int,
   ids_per_process : [Process -> SUBSET ElementIndex]]

RegistryTypeOK ==
  /\ object_index \in [Process -> Seq(Component)]
  /\ distributed_objects \in [Process -> Seq(Holder)]
  /\ in_insert_mode \in [Process -> BOOLEAN]

RegistryInit ==
  /\ object_index = [p \in Process |-> <<>>]
  /\ distributed_objects = [p \in Process |-> <<>>]
  /\ in_insert_mode = [p \in Process |-> TRUE]

-----------------------------------------------------------------------------
(* distributed_object_index *)

(* The components p has a number for once it has asked for c.              *)
Asked(p, c) ==
  IF Contains(object_index[p], c) THEN object_index[p] ELSE Append(object_index[p], c)

(* The place of c in distributed_objects, were it inserted in this order.  *)
Place(p, c) ==
  IF Contains(object_index[p], c)
  THEN CHOOSE i \in DOMAIN object_index[p] : object_index[p][i] = c
  ELSE Len(object_index[p]) + 1

Ask(p, c) == object_index' = [object_index EXCEPT ![p] = Asked(p, c)]

Inserted(p, c) == Place(p, c) <= Len(distributed_objects[p])

-----------------------------------------------------------------------------
(* insert_parallel_component *)

NoIds == [q \in Process |-> {}]
Regular(c) ==
  [name |-> c, objects |-> <<>>, number_of_local_objects |-> 1, ids_per_process |-> NoIds]

(* It throws if there is something in the place of c, and also if c comes  *)
(* to stand in another place than its own, but then it has been inserted.  *)
InsertComponent(p, c) ==
  /\ c \notin Collections
  /\ Ask(p, c)
  /\ in_insert_mode' = [in_insert_mode EXCEPT ![p] = TRUE]
  /\ distributed_objects' =
       IF Inserted(p, c) THEN distributed_objects
       ELSE [distributed_objects EXCEPT ![p] = Append(@, Regular(c))]

-----------------------------------------------------------------------------
(* insert_parallel_component_collection, of element e on process q.  q may *)
(* be a process that does not exist.                                       *)

Empty(c) ==
  [name |-> c, objects |-> <<>>, number_of_local_objects |-> 0, ids_per_process |-> NoIds]

(* The registry with an empty collection in the place of c, if c is next.  *)
Opened(p, c) ==
  IF Place(p, c) = Len(distributed_objects[p]) + 1
  THEN Append(distributed_objects[p], Empty(c))
  ELSE distributed_objects[p]

(* Mutant of WithElement: each element is counted as local.                *)
WithElementHere(holder, e, q, p) ==
  [holder EXCEPT
     !.objects = [f \in DOMAIN @ \cup {e} |-> IF f = e THEN q ELSE @[f]],
     !.number_of_local_objects = @ + 1,
     !.ids_per_process[q] = @ \cup {e}]

WithElement(holder, e, q, p) ==
  [holder EXCEPT
     !.objects = [f \in DOMAIN @ \cup {e} |-> IF f = e THEN q ELSE @[f]],
     !.number_of_local_objects = IF q = p THEN @ + 1 ELSE @,
     !.ids_per_process[q] = @ \cup {e}]

(* std::get throws if a regular component is in the place, and the         *)
(* element may exist or its process may not; by then an empty collection   *)
(* may have been added.  If the place is past the end, the code reads past *)
(* the end of the vector: the model excludes that.                         *)
InsertElement(p, c, e, q) ==
  /\ c \in Collections
  /\ Place(p, c) <= Len(distributed_objects[p]) + 1
  /\ Ask(p, c)
  /\ in_insert_mode' = [in_insert_mode EXCEPT ![p] = TRUE]
  /\ LET here == Opened(p, c)
         at == here[Place(p, c)]
         refused == at.name \notin Collections \/ e \in DOMAIN at.objects \/ q \notin Process
     IN  distributed_objects' = [distributed_objects EXCEPT ![p] =
           IF refused THEN here
           ELSE [here EXCEPT ![Place(p, c)] = WithElement(@, e, q, p)]]

-----------------------------------------------------------------------------
(* remove_parallel_component_collection *)

(* Mutant of WithoutElement: the list of the ids is forgotten.             *)
WithoutElementInMap(holder, e, p) ==
  [holder EXCEPT
     !.objects = [f \in DOMAIN @ \ {e} |-> @[f]],
     !.number_of_local_objects = IF holder.objects[e] = p THEN @ - 1 ELSE @]

WithoutElement(holder, e, p) ==
  [holder EXCEPT
     !.objects = [f \in DOMAIN @ \ {e} |-> @[f]],
     !.number_of_local_objects = IF holder.objects[e] = p THEN @ - 1 ELSE @,
     !.ids_per_process[holder.objects[e]] = @ \ {e}]

(* It throws unless there is a collection in the place that has the        *)
(* element.                                                                *)
RemoveElement(p, c, e) ==
  /\ c \in Collections
  /\ Ask(p, c)
  /\ in_insert_mode' = [in_insert_mode EXCEPT ![p] = TRUE]
  /\ LET at == distributed_objects[p][Place(p, c)]
         found == /\ Inserted(p, c)
                  /\ at.name \in Collections
                  /\ e \in DOMAIN at.objects
     IN  distributed_objects' =
           IF ~found THEN distributed_objects
           ELSE [distributed_objects EXCEPT ![p][Place(p, c)] = WithoutElement(@, e, p)]

(* collection_ids_on_processes, collection_ids_and_locations: a look that  *)
(* gives c its number and may throw.                                       *)
LookUp(p, c) ==
  /\ c \in Collections
  /\ Ask(p, c)
  /\ UNCHANGED <<distributed_objects, in_insert_mode>>

-----------------------------------------------------------------------------
(* serialize_component_accounting: how many regular components and         *)
(* collections, the names of the regular ones in order, then the           *)
(* collections in order with the places of their elements, sorted.  How    *)
(* the two kinds alternate in the vector is not said.                      *)

Named(objs) == [i \in DOMAIN objs |-> [name |-> objs[i].name, objects |-> objs[i].objects]]
IsCollection(holder) == holder.name \in Collections
IsRegular(holder) == ~IsCollection(holder)

Description(objs) ==
  [regular |-> Named(SelectSeq(objs, IsRegular)),
   collections |-> Named(SelectSeq(objs, IsCollection))]

-----------------------------------------------------------------------------
(* Properties *)

(* What is kept twice agrees: the list of the ids of each process and the  *)
(* number of the local elements say of every collection what its map says, *)
(* whatever has been inserted, removed, refused or thrown.  A broadcast    *)
(* stops after number_of_local_objects elements.                           *)
IdsMatchLocations ==
  \A p \in Process : \A i \in DOMAIN distributed_objects[p] :
    LET holder == distributed_objects[p][i]
        At(q) == {e \in DOMAIN holder.objects : holder.objects[e] = q}
    IN  holder.name \in Collections =>
          /\ \A q \in Process : holder.ids_per_process[q] = At(q)
          /\ holder.number_of_local_objects = Cardinality(At(p))
=============================================================================
