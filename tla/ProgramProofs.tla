------------------------------ MODULE ProgramProofs ------------------------------
(***************************************************************************)
(* What holds of a program and of its parts: of the layouts of its         *)
(* messages, for data of every size, every number of ids and every         *)
(* alignment; of the registry of every process and of the way out of       *)
(* insert mode, whatever the components, the elements, the programs and    *)
(* the number of processes; and of the messages of the calls it makes, on  *)
(* all their ways through queues, channels, receives and tasks.            *)
(***************************************************************************)
EXTENDS Program, ProcessTreeProofs, SequenceTheorems, FiniteSetTheorems, TLAPS

-----------------------------------------------------------------------------
(* Messages                                                                *)

LEMMA AlignmentsAreNumbers == Alignments \subseteq Nat \ {0}
  BY DEF Alignments

(* What is added reaches a multiple of the alignment.                      *)
LEMMA DataAfterIsAligned ==
  ASSUME NEW end \in Nat, NEW a \in Alignments
  PROVE  /\ DataAfter(end, a) \in Nat
         /\ DataAfter(end, a) > end /\ DataAfter(end, a) <= end + a
         /\ DataAfter(end, a) % a = 0
<1>1. CASE a = 1 BY <1>1, SMT DEF DataAfter
<1>2. CASE a = 2 BY <1>2, SMT DEF DataAfter
<1>3. CASE a = 4 BY <1>3, SMT DEF DataAfter
<1>4. CASE a = 8 BY <1>4, SMT DEF DataAfter
<1>5. CASE a = 16 BY <1>5, SMT DEF DataAfter
<1>6. CASE a = 32 BY <1>6, SMT DEF DataAfter
<1>7. CASE a = 64 BY <1>7, SMT DEF DataAfter
<1>8. CASE a = 128 BY <1>8, SMT DEF DataAfter
<1> QED BY <1>1, <1>2, <1>3, <1>4, <1>5, <1>6, <1>7, <1>8 DEF Alignments

LEMMA RoundUpIsAligned ==
  ASSUME NEW end \in Nat, NEW a \in Alignments
  PROVE  /\ RoundUp(end, a) \in Nat
         /\ RoundUp(end, a) >= end /\ RoundUp(end, a) < end + a
         /\ RoundUp(end, a) % a = 0
<1>1. CASE a = 1 BY <1>1, SMT DEF RoundUp
<1>2. CASE a = 2 BY <1>2, SMT DEF RoundUp
<1>3. CASE a = 4 BY <1>3, SMT DEF RoundUp
<1>4. CASE a = 8 BY <1>4, SMT DEF RoundUp
<1>5. CASE a = 16 BY <1>5, SMT DEF RoundUp
<1>6. CASE a = 32 BY <1>6, SMT DEF RoundUp
<1>7. CASE a = 64 BY <1>7, SMT DEF RoundUp
<1>8. CASE a = 128 BY <1>8, SMT DEF RoundUp
<1> QED BY <1>1, <1>2, <1>3, <1>4, <1>5, <1>6, <1>7, <1>8 DEF Alignments

-----------------------------------------------------------------------------
(* A message to one element or process has room for header and data, which *)
(* are aligned, in memory that is: however large they are.                 *)
THEOREM InvokeMessagesHold ==
  ASSUME NEW size \in Nat, NEW a \in Alignments
  PROVE  /\ Holds(CreateMessage(size, a)) /\ Aligned(CreateMessage(size, a))
         /\ Holds(CreateMessageFrom(size, a)) /\ Aligned(CreateMessageFrom(size, a))
<1>1. DataAfter(64, a) \in Nat /\ DataAfter(64, a) > 64 /\ DataAfter(64, a) % a = 0
  BY DataAfterIsAligned
<1> QED BY <1>1, AlignmentsAreNumbers
        DEF Holds, Aligned, CreateMessage, CreateMessageFrom, Block, HeaderSize

(* In a message of broadcast_to the ids, as many as there are, come        *)
(* between header and data and overlap neither.                            *)
THEOREM BroadcastToMessagesHold ==
  ASSUME NEW n \in Nat, NEW size \in Nat, NEW a \in Alignments
  PROVE  /\ Holds(CreateBroadcastTo(n, size, a)) /\ Aligned(CreateBroadcastTo(n, size, a))
         /\ IdsEnd(n) <= CreateBroadcastTo(n, size, a).data_offset
         /\ SizeOfData(CreateBroadcastTo(n, size, a)) = size
<1>1. IdsEnd(n) \in Nat /\ IdsEnd(n) > 64
  BY DEF IdsEnd, HeaderSize, IndexSize
<1>2. /\ DataAfter(IdsEnd(n), a) \in Nat /\ DataAfter(IdsEnd(n), a) > IdsEnd(n)
      /\ DataAfter(IdsEnd(n), a) % a = 0
  BY <1>1, DataAfterIsAligned
<1> QED BY <1>1, <1>2, AlignmentsAreNumbers
        DEF Holds, Aligned, CreateBroadcastTo, Block, HeaderSize, SizeOfData

(* A copy can be freed as it was allocated, and a received message if its  *)
(* data need no more than the alignment of the header: initiate_receives   *)
(* does not know what they need.                                           *)
THEOREM CopiesAreAligned ==
  ASSUME NEW b \in Blocks
  PROVE  /\ Aligned(Copied(b))
         /\ Aligned(Received(b)) <=> b.alignment <= HeaderSize
<1>1. /\ Copied(b).allocated = Larger(HeaderSize, b.alignment)
      /\ Copied(b).alignment = b.alignment
      /\ Received(b).allocated = HeaderSize /\ Received(b).alignment = b.alignment
  BY DEF Copied, Received, Blocks
<1>2. b.alignment \in Nat
  BY AlignmentsAreNumbers DEF Blocks
<1>3. Aligned(Copied(b))
  BY <1>1 DEF Aligned
<1>4. Aligned(Received(b)) <=> 64 = Larger(64, b.alignment)
  BY <1>1 DEF Aligned, HeaderSize
<1>5. 64 = Larger(64, b.alignment) <=> b.alignment <= 64
  BY <1>2 DEF Larger
<1> QED BY <1>3, <1>4, <1>5 DEF HeaderSize

-----------------------------------------------------------------------------
(* The metadata of a reduction lie one after the other in their block.     *)
LEMMA MetadataFit ==
  /\ \A i \in 1 .. 8 : MetadataFields[i].at + MetadataFields[i].size <= MetadataFields[i + 1].at
  /\ MetadataFields[9].at + MetadataFields[9].size <= HeaderSize + MetadataBlock
  BY DEF MetadataFields, HeaderSize, MetadataBlock

LEMMA CallbackFollows ==
  ASSUME NEW meta \in Nat, NEW offset \in Nat, NEW size \in Nat, NEW a \in Alignments,
         NEW callback \in Nat,
         HeaderSize <= meta, meta <= offset, offset % a = 0
  PROVE  LET b == WithCallback(meta, offset, size, a, callback) IN
         /\ b \in Blocks /\ Holds(b) /\ Aligned(b)
         /\ b.callback % CallbackAlignment = 0
<1> DEFINE at == RoundUp(offset + size, 64)
<1>1. at \in Nat /\ at >= offset + size /\ at % 64 = 0
  <2>1. offset + size \in Nat /\ 64 \in Alignments
    BY DEF Alignments
  <2> QED BY ONLY <2>1, RoundUpIsAligned
<1>2. Larger(HeaderSize, a) \in Nat
  BY AlignmentsAreNumbers DEF Larger, HeaderSize
<1> QED BY <1>1, <1>2, AlignmentsAreNumbers
        DEF WithCallback, Holds, Aligned, Blocks, CallbackAlignment, HeaderSize

(* The message of a reduction holds its data and its callback, also after  *)
(* the data have been replaced by their serialization, of any size.        *)
THEOREM ReductionMessagesHold ==
  ASSUME NEW size \in Nat, NEW a \in Alignments, NEW callback \in Nat, NEW packed \in Nat
  PROVE  LET b == CreateReduction(size, a, callback)
             r == Reserialize(b, packed)
         IN  /\ Holds(b) /\ Aligned(b) /\ b.callback % CallbackAlignment = 0
             /\ Holds(r) /\ Aligned(r) /\ r.callback % CallbackAlignment = 0
             /\ r.data_offset = b.data_offset /\ r.data_size = packed
<1> DEFINE b == CreateReduction(size, a, callback)
           offset == RoundUp(128, a)
<1>1. offset \in Nat /\ offset >= 128 /\ offset % a = 0
  BY RoundUpIsAligned
<1>2. b = WithCallback(128, offset, size, a, callback)
  BY DEF CreateReduction, HeaderSize, MetadataBlock
<1>3. b \in Blocks /\ Holds(b) /\ Aligned(b) /\ b.callback % CallbackAlignment = 0
  BY <1>1, <1>2, CallbackFollows DEF HeaderSize
<1>4. /\ b.meta = 128 /\ b.data_offset = offset /\ b.alignment = a
      /\ b.bytes - b.callback = callback
  <2>1. RoundUp(offset + size, 64) \in Nat
    <3>1. offset + size \in Nat /\ 64 \in Alignments
      BY <1>1 DEF Alignments
    <3> QED BY ONLY <3>1, RoundUpIsAligned
  <2> QED BY <2>1, <1>2 DEF WithCallback, CallbackAlignment
<1>5. Reserialize(b, packed) = WithCallback(128, offset, packed, a, callback)
  BY <1>4 DEF Reserialize
<1>6. LET r == Reserialize(b, packed) IN
      /\ Holds(r) /\ Aligned(r) /\ r.callback % CallbackAlignment = 0
  BY <1>1, <1>5, CallbackFollows DEF HeaderSize
<1>7. LET r == Reserialize(b, packed) IN
      r.data_offset = b.data_offset /\ r.data_size = packed
  BY <1>4, <1>5 DEF WithCallback
<1> QED BY <1>3, <1>6, <1>7

(* Combined data overrun the callback just when their serialization is     *)
(* larger than the room up to it: combine_impl does not look.              *)
THEOREM CombiningNeedsRoom ==
  ASSUME NEW b \in Blocks, Holds(b), NEW size \in Nat
  PROVE  Holds(Combined(b, size)) <=> size <= b.callback - b.data_offset
<1>1. /\ Combined(b, size).data_size = size
      /\ Combined(b, size).data_offset = b.data_offset
      /\ Combined(b, size).callback = b.callback
      /\ Combined(b, size).bytes = b.bytes
      /\ Combined(b, size).meta = b.meta
      /\ Combined(b, size).alignment = b.alignment
  BY DEF Combined, Blocks
<1> QED BY <1>1 DEF Holds, Blocks

-----------------------------------------------------------------------------
(* The registry                                                            *)

(* What a process keeps twice about a collection agrees.                   *)
At(holder, q) == {e \in DOMAIN holder.objects : holder.objects[e] = q}
Matches(p, holder) ==
  holder.name \in Collections =>
    /\ \A q \in Process : holder.ids_per_process[q] = At(holder, q)
    /\ holder.number_of_local_objects = Cardinality(At(holder, p))

Matching(p, objs) == objs \in Seq(Holder) /\ \A i \in DOMAIN objs : Matches(p, objs[i])

LEMMA IdsMatchByHolder ==
  ASSUME RegistryTypeOK, \A p \in Process : Matching(p, distributed_objects[p])
  PROVE  IdsMatchLocations
BY DEF IdsMatchLocations, Matching, Matches, At

-----------------------------------------------------------------------------
(* The operations on one holder                                            *)

LEMMA AtIsFinite ==
  ASSUME NEW holder \in Holder, NEW q
  PROVE  At(holder, q) \subseteq ElementIndex /\ IsFiniteSet(At(holder, q))
<1>1. At(holder, q) \subseteq ElementIndex
  BY DEF Holder, Locations, At
<1> QED
  BY <1>1, ElementAssumption, FS_Subset

LEMMA RegularMatches ==
  ASSUME NEW p \in Process, NEW c \in Component \ Collections
  PROVE  Regular(c) \in Holder /\ Matches(p, Regular(c))
<1>1. <<>> \in Locations
  <2>1. <<>> \in [{} -> Process]
    OBVIOUS
  <2> QED
    BY <2>1 DEF Locations
<1>2. NoIds \in [Process -> SUBSET ElementIndex]
  BY DEF NoIds
<1> QED
  BY <1>1, <1>2 DEF Regular, Holder, Matches

LEMMA EmptyMatches ==
  ASSUME NEW p \in Process, NEW c \in Component
  PROVE  Empty(c) \in Holder /\ Matches(p, Empty(c))
<1>1. <<>> \in Locations
  <2>1. <<>> \in [{} -> Process]
    OBVIOUS
  <2> QED
    BY <2>1 DEF Locations
<1>2. NoIds \in [Process -> SUBSET ElementIndex]
  BY DEF NoIds
<1>3. \A q \in Process : At(Empty(c), q) = {}
  BY DEF Empty, At
<1>4. Cardinality(At(Empty(c), p)) = 0
  BY <1>3, FS_EmptySet
<1> QED
  <2>1. Empty(c) \in Holder
    BY <1>1, <1>2 DEF Empty, Holder
  <2>2. \A q \in Process : Empty(c).ids_per_process[q] = {}
    BY DEF Empty, NoIds
  <2> QED
    BY <1>3, <1>4, <2>1, <2>2 DEF Empty, Matches

(* An element that is new is put on its process and nowhere else.          *)
LEMMA WithElementMatches ==
  ASSUME NEW p \in Process, NEW q \in Process, NEW e \in ElementIndex,
         NEW holder \in Holder, Matches(p, holder),
         holder.name \in Collections, e \notin DOMAIN holder.objects
  PROVE  WithElement(holder, e, q, p) \in Holder /\ Matches(p, WithElement(holder, e, q, p))
<1> DEFINE after == WithElement(holder, e, q, p)
<1> DEFINE objects == [f \in DOMAIN holder.objects \cup {e} |->
                         IF f = e THEN q ELSE holder.objects[f]]
<1>1. PICK S \in SUBSET ElementIndex : holder.objects \in [S -> Process]
  BY DEF Holder, Locations
<1>2. objects \in [S \cup {e} -> Process]
      /\ objects[e] = q /\ \A f \in S : objects[f] = holder.objects[f]
  BY <1>1
<1>3. objects \in Locations
  <2>1. S \cup {e} \in SUBSET ElementIndex
    OBVIOUS
  <2> QED
    BY <1>2, <2>1 DEF Locations
<1>4. after.name = holder.name /\ after.objects = objects
      /\ after.number_of_local_objects =
           (IF q = p THEN holder.number_of_local_objects + 1
                     ELSE holder.number_of_local_objects)
      /\ after.ids_per_process =
           [holder.ids_per_process EXCEPT ![q] = @ \cup {e}]
  BY DEF WithElement, Holder
<1>5. after \in Holder
  <2>1. after.ids_per_process \in [Process -> SUBSET ElementIndex]
    BY <1>4 DEF Holder
  <2>2. after.number_of_local_objects \in Int
    BY <1>4 DEF Holder
  <2>3. after = [holder EXCEPT
                   !.objects = objects,
                   !.number_of_local_objects = after.number_of_local_objects,
                   !.ids_per_process = after.ids_per_process]
    BY DEF WithElement, Holder
  <2> HIDE DEF after, objects
  <2> QED
    BY <1>3, <2>1, <2>2, <2>3 DEF Holder
<1>6. At(after, q) = At(holder, q) \cup {e}
  BY <1>1, <1>2, <1>4 DEF At
<1>7. \A r \in Process \ {q} : At(after, r) = At(holder, r)
  BY <1>1, <1>2, <1>4 DEF At
<1>8. \A r \in Process : after.ids_per_process[r] = At(after, r)
  <2> HIDE DEF after
  <2> QED
    BY <1>4, <1>6, <1>7 DEF Matches, Holder
<1>9. after.number_of_local_objects = Cardinality(At(after, p))
  <2>1. CASE q = p
    <3>1. e \notin At(holder, p)
      BY DEF At
    <3>2. Cardinality(At(holder, p) \cup {e}) = Cardinality(At(holder, p)) + 1
      BY <3>1, AtIsFinite, FS_AddElement
    <3> QED
      BY <1>4, <1>6, <2>1, <3>2 DEF Matches
  <2>2. CASE q # p
    BY <1>4, <1>7, <2>2 DEF Matches
  <2> QED
    BY <2>1, <2>2
<1> QED
  BY <1>5, <1>8, <1>9 DEF Matches

(* An element that is there is taken from its process.                     *)
LEMMA WithoutElementMatches ==
  ASSUME NEW p \in Process, NEW holder \in Holder, Matches(p, holder),
         holder.name \in Collections, NEW e \in DOMAIN holder.objects
  PROVE  WithoutElement(holder, e, p) \in Holder /\ Matches(p, WithoutElement(holder, e, p))
<1> DEFINE after == WithoutElement(holder, e, p)
<1> DEFINE objects == [f \in DOMAIN holder.objects \ {e} |-> holder.objects[f]]
<1> DEFINE q == holder.objects[e]
<1>1. PICK S \in SUBSET ElementIndex : holder.objects \in [S -> Process]
  BY DEF Holder, Locations
<1>2. q \in Process
  BY <1>1
<1>3. objects \in [S \ {e} -> Process] /\ \A f \in S \ {e} : objects[f] = holder.objects[f]
  BY <1>1
<1>4. objects \in Locations
  <2>1. S \ {e} \in SUBSET ElementIndex
    OBVIOUS
  <2> QED
    BY <1>3, <2>1 DEF Locations
<1>5. after.name = holder.name /\ after.objects = objects
      /\ after.number_of_local_objects =
           (IF q = p THEN holder.number_of_local_objects - 1
                     ELSE holder.number_of_local_objects)
      /\ after.ids_per_process =
           [holder.ids_per_process EXCEPT ![q] = @ \ {e}]
  BY DEF WithoutElement, Holder
<1>6. after \in Holder
  <2>1. after.ids_per_process \in [Process -> SUBSET ElementIndex]
    BY <1>2, <1>5 DEF Holder
  <2>2. after.number_of_local_objects \in Int
    BY <1>5 DEF Holder
  <2>3. after = [holder EXCEPT
                   !.objects = objects,
                   !.number_of_local_objects = after.number_of_local_objects,
                   !.ids_per_process = after.ids_per_process]
    BY DEF WithoutElement, Holder
  <2> HIDE DEF after, objects
  <2> QED
    BY <1>4, <2>1, <2>2, <2>3 DEF Holder
<1>7. At(after, q) = At(holder, q) \ {e}
  BY <1>1, <1>3, <1>5 DEF At
<1>8. \A r \in Process \ {q} : At(after, r) = At(holder, r)
  BY <1>1, <1>3, <1>5 DEF At
<1>9. \A r \in Process : after.ids_per_process[r] = At(after, r)
  <2> HIDE DEF after
  <2> QED
    BY <1>2, <1>5, <1>7, <1>8 DEF Matches, Holder
<1>10. after.number_of_local_objects = Cardinality(At(after, p))
  <2>1. CASE q = p
    <3>1. e \in At(holder, p)
      BY <2>1 DEF At
    <3>2. Cardinality(At(holder, p) \ {e}) = Cardinality(At(holder, p)) - 1
      BY <3>1, AtIsFinite, FS_RemoveElement
    <3> QED
      BY <1>5, <1>7, <2>1, <3>2 DEF Matches
  <2>2. CASE q # p
    BY <1>5, <1>8, <2>2 DEF Matches
  <2> QED
    BY <2>1, <2>2
<1> QED
  BY <1>6, <1>9, <1>10 DEF Matches

-----------------------------------------------------------------------------
(* The calls of one process                                                *)

LEMMA PlaceIsANumber ==
  ASSUME RegistryTypeOK, NEW p \in Process, NEW c \in Component
  PROVE  Place(p, c) \in Nat \ {0} /\ Asked(p, c) \in Seq(Component)
<1>1. object_index[p] \in Seq(Component)
  BY DEF RegistryTypeOK
<1>2. Len(object_index[p]) \in Nat
  BY <1>1
<1>3. CASE Contains(object_index[p], c)
  <2>1. \E i \in DOMAIN object_index[p] : object_index[p][i] = c
    BY <1>1, <1>3 DEF Contains
  <2>2. Place(p, c) \in DOMAIN object_index[p]
    BY <1>3, <2>1 DEF Place
  <2> QED
    BY <1>1, <1>3, <2>2 DEF Asked
<1>4. CASE ~Contains(object_index[p], c)
  BY <1>1, <1>2, <1>4 DEF Place, Asked
<1> QED
  BY <1>3, <1>4

LEMMA AppendMatches ==
  ASSUME NEW p, NEW objs, Matching(p, objs), NEW holder \in Holder, Matches(p, holder)
  PROVE  Matching(p, Append(objs, holder))
BY DEF Matching

LEMMA ReplaceMatches ==
  ASSUME NEW p, NEW objs, Matching(p, objs), NEW i \in DOMAIN objs,
         NEW holder \in Holder, Matches(p, holder)
  PROVE  Matching(p, [objs EXCEPT ![i] = holder])
BY DEF Matching

(* Whatever the call and however it ends, it leaves the registries of the  *)
(* others alone and its own as it should be.                               *)
Keeps(p) ==
  /\ RegistryTypeOK'
  /\ \E objs : /\ Matching(p, objs)
               /\ distributed_objects' = [distributed_objects EXCEPT ![p] = objs]

LEMMA PerformKeeps ==
  ASSUME RegistryTypeOK, \A r \in Process : Matching(r, distributed_objects[r]),
         NEW p \in Process, NEW call \in Insertion, Perform(p, call)
  PROVE  Keeps(p) /\ in_insert_mode' \in {in_insert_mode, [in_insert_mode EXCEPT ![p] = TRUE]}
<1> DEFINE c == call.component
<1> DEFINE mine == distributed_objects[p]
<1> DEFINE place == Place(p, c)
<1>1. c \in Component
  BY DEF Insertion
<1>2. /\ place \in Nat \ {0}
      /\ Asked(p, c) \in Seq(Component)
  BY <1>1, PlaceIsANumber
<1>3. Matching(p, mine) /\ mine \in Seq(Holder) /\ Len(mine) \in Nat
  BY DEF Matching
<1>4. ASSUME NEW objs, Matching(p, objs),
             distributed_objects' = [distributed_objects EXCEPT ![p] = objs],
             Ask(p, c),
             in_insert_mode' \in {in_insert_mode, [in_insert_mode EXCEPT ![p] = TRUE]}
      PROVE  Keeps(p)
  <2>1. objs \in Seq(Holder)
    BY <1>4 DEF Matching
  <2>2. object_index' \in [Process -> Seq(Component)]
    BY <1>2, <1>4 DEF Ask, RegistryTypeOK
  <2>3. in_insert_mode' \in [Process -> BOOLEAN]
    BY <1>4 DEF RegistryTypeOK
  <2>4. distributed_objects' \in [Process -> Seq(Holder)]
    BY <1>4, <2>1 DEF RegistryTypeOK
  <2> QED
    BY <1>4, <2>2, <2>3, <2>4 DEF Keeps, RegistryTypeOK
<1>5. ASSUME UNCHANGED distributed_objects
      PROVE  distributed_objects' = [distributed_objects EXCEPT ![p] = mine]
  BY <1>5 DEF RegistryTypeOK
<1>6. CASE InsertComponent(p, c)
  <2>1. c \in Component \ Collections
    BY <1>1, <1>6 DEF InsertComponent
  <2>2. Matching(p, Append(mine, Regular(c)))
    BY <1>3, <2>1, RegularMatches, AppendMatches
  <2>3. CASE Inserted(p, c)
    BY <1>3, <1>4, <1>5, <1>6, <2>3 DEF InsertComponent
  <2>4. CASE ~Inserted(p, c)
    BY <1>4, <1>6, <2>2, <2>4 DEF InsertComponent
  <2> QED
    BY <1>6, <2>3, <2>4 DEF InsertComponent
<1>7. ASSUME NEW e \in ElementIndex, NEW q \in Nat, InsertElement(p, c, e, q)
      PROVE  Keeps(p)
  <2> DEFINE here == Opened(p, c)
  <2> DEFINE at == here[place]
  <2>1. place <= Len(mine) + 1
    BY <1>7 DEF InsertElement
  <2>2. Matching(p, here) /\ place \in DOMAIN here
    <3>1. CASE place = Len(mine) + 1
      <4>1. Matching(p, Append(mine, Empty(c)))
        BY <1>1, <1>3, EmptyMatches, AppendMatches
      <4> QED
        BY <1>3, <3>1, <4>1 DEF Opened
    <3>2. CASE place # Len(mine) + 1
      BY <1>2, <1>3, <2>1, <3>2 DEF Opened
    <3> QED
      BY <3>1, <3>2
  <2>3. at \in Holder /\ Matches(p, at)
    BY <2>2 DEF Matching
  <2> DEFINE refused == at.name \notin Collections \/ e \in DOMAIN at.objects \/ q \notin Process
  <2>4. distributed_objects' = [distributed_objects EXCEPT ![p] =
           IF refused THEN here ELSE [here EXCEPT ![place] = WithElement(at, e, q, p)]]
    BY <1>7 DEF InsertElement
  <2>5. Ask(p, c) /\ in_insert_mode' = [in_insert_mode EXCEPT ![p] = TRUE]
    BY <1>7 DEF InsertElement
  <2>6. CASE refused
    BY <1>4, <2>2, <2>4, <2>5, <2>6
  <2>7. CASE ~refused
    <3>1. WithElement(at, e, q, p) \in Holder /\ Matches(p, WithElement(at, e, q, p))
      BY <2>3, <2>7, WithElementMatches
    <3>2. Matching(p, [here EXCEPT ![place] = WithElement(at, e, q, p)])
      BY <2>2, <3>1, ReplaceMatches
    <3> QED
      BY <1>4, <2>4, <2>5, <2>7, <3>2
  <2> QED
    BY <2>6, <2>7
<1>8. ASSUME NEW e \in ElementIndex, RemoveElement(p, c, e)
      PROVE  Keeps(p)
  <2> DEFINE at == mine[place]
  <2> DEFINE found == Inserted(p, c) /\ at.name \in Collections /\ e \in DOMAIN at.objects
  <2>1. Ask(p, c) /\ in_insert_mode' = [in_insert_mode EXCEPT ![p] = TRUE]
    BY <1>8 DEF RemoveElement
  <2>2. distributed_objects' =
          IF ~found THEN distributed_objects
          ELSE [distributed_objects EXCEPT ![p] =
                  [mine EXCEPT ![place] = WithoutElement(at, e, p)]]
    BY <1>8 DEF RemoveElement
  <2>3. CASE ~found
    BY <1>3, <1>4, <1>5, <2>1, <2>2, <2>3
  <2>4. CASE found
    <3>1. place \in DOMAIN mine
      BY <1>2, <1>3, <2>4 DEF Inserted
    <3>2. at \in Holder /\ Matches(p, at)
      BY <1>3, <3>1 DEF Matching
    <3>3. WithoutElement(at, e, p) \in Holder /\ Matches(p, WithoutElement(at, e, p))
      BY <2>4, <3>2, WithoutElementMatches
    <3>4. Matching(p, [mine EXCEPT ![place] = WithoutElement(at, e, p)])
      BY <1>3, <3>1, <3>3, ReplaceMatches
    <3> QED
      BY <1>4, <2>1, <2>2, <2>4, <3>4
  <2> QED
    BY <2>3, <2>4
<1>9. CASE LookUp(p, c)
  BY <1>3, <1>4, <1>5, <1>9 DEF LookUp
<1>10. call.call = "remove" => call.index \in ElementIndex
  BY DEF Insertion
<1>11. call.call = "element" => call.index \in ElementIndex /\ call.process \in Nat
  BY DEF Insertion
<1>12. Keeps(p)
  BY <1>6, <1>7, <1>8, <1>9, <1>10, <1>11 DEF Perform
<1>13. in_insert_mode' \in {in_insert_mode, [in_insert_mode EXCEPT ![p] = TRUE]}
  BY DEF Perform, InsertComponent, InsertElement, RemoveElement, LookUp
<1> QED
  BY <1>12, <1>13

-----------------------------------------------------------------------------
(* The whole of insert mode                                                *)

(* The barrier and this module speak of the same tree.                     *)
LEMMA SameTree ==
  /\ Barrier!Process = Process
  /\ Barrier!Root = Root
  /\ \A p : /\ Barrier!Parent(p) = Parent(p)
            /\ Barrier!LeftChild(p) = LeftChild(p)
            /\ Barrier!RightChild(p) = RightChild(p)
  /\ Parent(Root) = None /\ Barrier!None = None
BY DEF Process, Barrier!Process, Root, Barrier!Root, Parent, Barrier!Parent, LeftChild,
       Barrier!LeftChild, RightChild, Barrier!RightChild, None, Barrier!None

(* A process that has got past a child has found it equal.                 *)
LeftCompared ==
  \A p \in Process : pc[p] \in {"right", "wait", "barrier2", "run"} =>
    LeftChild(p) = None \/ Account[LeftChild(p)] = Account[p]

RightCompared ==
  \A p \in Process : pc[p] \in {"wait", "barrier2", "run"} =>
    RightChild(p) = None \/ Account[RightChild(p)] = Account[p]

(* Insert mode is left by all processes or by none.                        *)
LeftTogether ==
  (\E p \in Process : ~in_insert_mode[p]) => \A p \in Process : pc[p] = "run"

(* Nobody is past the first barrier while another may still insert.        *)
Early == {"insert", "barrier1"}
PastTheFirst ==
  (\E p \in Process : pc[p] \notin Early) => \A p \in Process : pc[p] \notin Early

BarrierTypes ==
  /\ pc \in [Process -> Barrier!Places]
  /\ wire \subseteq Process \ {Root}
  /\ in_insert_mode \in [Process -> BOOLEAN]

BarrierInv ==
  BarrierTypes /\ LeftCompared /\ RightCompared /\ LeftTogether /\ PastTheFirst

(* When everybody has compared its children with itself, all agree.        *)
LEMMA ComparedEverywhere ==
  ASSUME LeftCompared, RightCompared,
         \A p \in Process : pc[p] \in {"barrier2", "run"}
  PROVE  Agree
<1>1. ASSUME NEW q \in Process \ {Root}
      PROVE  Account[q] = Account[Parent(q)]
  <2>1. Parent(q) \in Process
    BY ParentIsSmaller
  <2>2. q \in Children(Parent(q))
    BY <2>1, ChildrenMatchParent
  <2>3. q \in {LeftChild(Parent(q)), RightChild(Parent(q))} /\ q # None
    BY <2>2 DEF Children
  <2> QED
    BY <2>1, <2>3 DEF LeftCompared, RightCompared
<1>2. \A p \in Process : Account[p] = Account[Root]
  BY <1>1, AgreementAlongTheTree
<1> QED
  BY <1>2 DEF Agree

(* Whatever the processes insert, of the kind that insert_barrier compares. *)
LEMMA BarrierSteps == BarrierInv /\ [Barrier!Next]_(Barrier!vars) => BarrierInv'
<1> SUFFICES ASSUME BarrierInv, [Barrier!Next]_(Barrier!vars) PROVE BarrierInv'
  OBVIOUS
<1> USE SameTree
    DEF BarrierInv, BarrierTypes, LeftCompared, RightCompared, LeftTogether, PastTheFirst,
        Early, Barrier!Places, Barrier!Goto
<1>1. CASE Barrier!FirstBarrier
  BY <1>1 DEF Barrier!FirstBarrier
<1>2. CASE Barrier!SecondBarrier
  <2>1. pc' = [p \in Process |-> "run"] /\ in_insert_mode' = [p \in Process |-> FALSE]
        /\ UNCHANGED <<Account, wire>> /\ \A p \in Process : pc[p] = "barrier2"
    BY <1>2 DEF Barrier!SecondBarrier
  <2> QED
    BY <2>1
<1>3. ASSUME NEW p \in Process, Barrier!Enter(p)
      PROVE  BarrierInv'
  BY <1>3 DEF Barrier!Enter
<1>4. ASSUME NEW p \in Process, Barrier!SendUp(p)
      PROVE  BarrierInv'
  <2>1. wire' \subseteq Process \ {Root}
    BY <1>4 DEF Barrier!SendUp
  <2> QED
    BY <1>4, <2>1 DEF Barrier!SendUp
<1>5. ASSUME NEW p \in Process,
             Barrier!CompareWith(p, LeftChild(p), "left", "right")
      PROVE  BarrierInv'
  BY <1>5 DEF Barrier!CompareWith, Barrier!Agrees
<1>6. ASSUME NEW p \in Process,
             Barrier!CompareWith(p, RightChild(p), "right", "wait")
      PROVE  BarrierInv'
  BY <1>6 DEF Barrier!CompareWith, Barrier!Agrees
<1>7. ASSUME NEW p \in Process, Barrier!SendDone(p)
      PROVE  BarrierInv'
  BY <1>7 DEF Barrier!SendDone
<1>8. CASE UNCHANGED Barrier!vars
  BY <1>8 DEF Barrier!vars
<1>9. ASSUME NEW p \in Process, Barrier!Insert(p)
      PROVE  BarrierInv'
  <2>1. \A q \in Process : pc[q] \in Early
    BY <1>9 DEF Barrier!Insert
  <2>2. BarrierTypes'
    BY <1>9 DEF Barrier!Insert
  <2> QED
    BY <1>9, <2>1, <2>2 DEF Barrier!Insert
<1> QED
  BY <1>1, <1>2, <1>3, <1>4, <1>5, <1>6, <1>7, <1>8, <1>9 DEF Barrier!Next, Barrier!Step

LEMMA BarrierInvHolds == Barrier!Spec => []BarrierInv
<1>1. Barrier!Init => BarrierInv
  BY SameTree
     DEF Barrier!Init, BarrierInv, BarrierTypes, LeftCompared, RightCompared, LeftTogether,
         PastTheFirst, Early, Barrier!Places
<1> QED
  BY <1>1, BarrierSteps, PTL DEF Barrier!Spec

(* The comparisons along the edges of the tree are enough: nobody leaves   *)
(* insert mode unless all processes have inserted the same components,     *)
(* whatever those are and however many processes there are.                *)
THEOREM InsertModeIsLeftInAgreement ==
  Barrier!Spec => []OnlyAgreementLeavesInsertMode
<1>1. BarrierInv => OnlyAgreementLeavesInsertMode
  <2> SUFFICES ASSUME BarrierInv, NEW p \in Process, ~in_insert_mode[p]
               PROVE  \A q, r \in Process : Account[q] = Account[r]
    BY SameTree DEF OnlyAgreementLeavesInsertMode, Barrier!OnlyAgreementLeavesInsertMode
  <2>1. \A q \in Process : pc[q] \in {"barrier2", "run"}
    BY DEF BarrierInv, LeftTogether
  <2>2. Agree
    BY <2>1, ComparedEverywhere DEF BarrierInv
  <2> QED
    BY <2>2 DEF Agree
<1> QED
  BY <1>1, BarrierInvHolds, PTL

(* A process that can call the barrier is in insert mode, so that an       *)
(* insertion does not bring it back there.                                 *)
StillInserting == \A p \in Process : pc[p] # "run" => in_insert_mode[p]

IInv ==
  /\ InsertTypeOK
  /\ \A p \in Process : Matching(p, distributed_objects[p])
  /\ StillInserting

LEMMA InitIInv == InsertInit => IInv
<1> SUFFICES ASSUME InsertInit PROVE IInv
  OBVIOUS
<1>1. RegistryTypeOK
  BY DEF InsertInit, RegistryInit, RegistryTypeOK
<1>2. InsertTypeOK
  <2>1. todo \in [Process -> Seq(Insertion)]
    BY ProgramAssumption DEF InsertInit
  <2> QED
    BY <1>1, <2>1 DEF InsertInit, InsertTypeOK, Barrier!Places
<1>3. \A p \in Process : Matching(p, distributed_objects[p])
  BY DEF InsertInit, RegistryInit, Matching
<1>4. StillInserting
  BY DEF InsertInit, RegistryInit, StillInserting
<1> QED
  BY <1>2, <1>3, <1>4 DEF IInv

(* An insertion changes what one process has inserted, and nothing else    *)
(* that insert_barrier sees.                                               *)
LEMMA PrepareIsAnInsertion ==
  ASSUME IInv, NEW p \in Process, Prepare(p)
  PROVE  IInv' /\ Barrier!Insert(p)
<1> DEFINE call == Head(todo[p])
<1>1. call \in Insertion /\ todo' \in [Process -> Seq(Insertion)]
  <2>1. todo[p] \in Seq(Insertion) /\ todo[p] # <<>>
    BY DEF Prepare, IInv, InsertTypeOK
  <2> QED
    BY <2>1 DEF Prepare, IInv, InsertTypeOK
<1>2. Keeps(p) /\ in_insert_mode' \in {in_insert_mode, [in_insert_mode EXCEPT ![p] = TRUE]}
  BY <1>1, PerformKeeps DEF Prepare, IInv, InsertTypeOK
<1>3. PICK objs : /\ Matching(p, objs)
                  /\ distributed_objects' = [distributed_objects EXCEPT ![p] = objs]
  BY <1>2 DEF Keeps
<1>4. in_insert_mode' = in_insert_mode
  BY <1>2 DEF Prepare, IInv, StillInserting, InsertTypeOK, RegistryTypeOK
<1>5. distributed_objects \in [Process -> Seq(Holder)]
  BY DEF IInv, InsertTypeOK, RegistryTypeOK
<1>6. IInv'
  <2>1. \A q \in Process : Matching(q, distributed_objects'[q])
    BY <1>3, <1>5 DEF IInv
  <2>2. (\A q \in Process : Matching(q, distributed_objects[q]))'
    BY <2>1 DEF Matching, Matches, At
  <2>3. InsertTypeOK'
    BY <1>1, <1>2 DEF Keeps, IInv, InsertTypeOK, Prepare
  <2>4. StillInserting'
    BY <1>4 DEF IInv, StillInserting, Prepare
  <2> QED
    BY <2>2, <2>3, <2>4 DEF IInv
<1>7. Barrier!Insert(p)
  <2>1. objs \in Seq(Holder)
    BY <1>3 DEF Matching
  <2>2. Account' = [q \in Process |-> Description(distributed_objects'[q])]
    BY DEF Account
  <2>3. Account' = [Account EXCEPT ![p] = Description(objs)]
    BY <1>3, <1>5, <2>2 DEF Account
  <2>4. Account'[p] = Description(objs)
    BY <1>3, <1>5, <2>2
  <2> QED
    BY <1>4, <2>1, <2>3, <2>4 DEF Barrier!Insert, Prepare
<1> QED
  BY <1>6, <1>7

LEMMA NextIInv == IInv /\ [InsertNext]_insertVars => IInv' /\ [Barrier!Next]_(Barrier!vars)
<1> SUFFICES ASSUME IInv, [InsertNext]_insertVars PROVE IInv' /\ [Barrier!Next]_(Barrier!vars)
  OBVIOUS
<1>1. ASSUME UNCHANGED <<object_index, distributed_objects, todo>>,
             pc' \in [Process -> Barrier!Places], wire' \subseteq Process \ {Root},
             in_insert_mode' \in [Process -> BOOLEAN], StillInserting'
      PROVE  IInv'
  <2>1. RegistryTypeOK'
    BY <1>1 DEF IInv, InsertTypeOK, RegistryTypeOK
  <2>2. InsertTypeOK'
    BY <1>1, <2>1 DEF IInv, InsertTypeOK
  <2>3. \A p \in Process : Matching(p, distributed_objects'[p])
    BY <1>1 DEF IInv
  <2>4. (\A p \in Process : Matching(p, distributed_objects[p]))'
    BY <2>3 DEF Matching, Matches, At
  <2> QED
    BY <1>1, <2>2, <2>4 DEF IInv
<1> USE DEF IInv, InsertTypeOK, RegistryTypeOK, StillInserting
<1>2. ASSUME NEW p \in Process, Prepare(p)
      PROVE  IInv' /\ [Barrier!Next]_(Barrier!vars)
  BY <1>2, PrepareIsAnInsertion, SameTree DEF Barrier!Next
<1>3. ASSUME NEW p \in Process, Check(p)
      PROVE  IInv' /\ [Barrier!Next]_(Barrier!vars)
  <2> USE DEF Barrier!Places, Barrier!Goto
  <2>1. UNCHANGED <<object_index, distributed_objects, todo>> /\ Barrier!Step(p)
    BY <1>3 DEF Check
  <2>2. CASE Barrier!Enter(p)
    BY <1>1, <2>1, <2>2, SameTree DEF Barrier!Enter, Barrier!Goto, Barrier!Step, Barrier!Next
  <2>3. CASE Barrier!SendUp(p)
    <3>1. wire' \subseteq Process \ {Root}
      BY <2>3, SameTree DEF Barrier!SendUp
    <3> QED
      BY <1>1, <2>1, <2>3, <3>1, SameTree DEF Barrier!SendUp, Barrier!Goto, Barrier!Step, Barrier!Next
  <2>4. CASE Barrier!CompareWith(p, Barrier!LeftChild(p), "left", "right")
    BY <1>1, <2>1, <2>4, SameTree
       DEF Barrier!CompareWith, Barrier!Agrees, Barrier!Goto, Barrier!Step, Barrier!Next
  <2>5. CASE Barrier!CompareWith(p, Barrier!RightChild(p), "right", "wait")
    BY <1>1, <2>1, <2>5, SameTree
       DEF Barrier!CompareWith, Barrier!Agrees, Barrier!Goto, Barrier!Step, Barrier!Next
  <2>6. CASE Barrier!SendDone(p)
    BY <1>1, <2>1, <2>6, SameTree DEF Barrier!SendDone, Barrier!Goto, Barrier!Step, Barrier!Next
  <2> QED
    BY <2>1, <2>2, <2>3, <2>4, <2>5, <2>6 DEF Barrier!Step
<1>4. CASE Meet
  <2>1. UNCHANGED <<object_index, distributed_objects, todo>>
    BY <1>4 DEF Meet
  <2>2. CASE Barrier!FirstBarrier
    BY <1>1, <2>1, <2>2, SameTree DEF Barrier!FirstBarrier, Barrier!Places, Barrier!Next
  <2>3. CASE Barrier!SecondBarrier
    BY <1>1, <2>1, <2>3, SameTree DEF Barrier!SecondBarrier, Barrier!Places, Barrier!Next
  <2> QED
    BY <1>4, <2>2, <2>3 DEF Meet
<1>5. CASE UNCHANGED insertVars
  <2>1. UNCHANGED Barrier!vars
    BY <1>5 DEF insertVars, Barrier!vars, Account
  <2> QED
    BY <1>1, <1>5, <2>1 DEF insertVars
<1> QED
  BY <1>2, <1>3, <1>4, <1>5 DEF InsertNext

LEMMA IInvHolds == InsertSpec => []IInv
  BY InitIInv, NextIInv, PTL DEF InsertSpec

(* Every registry keeps its type, through every call of every program and  *)
(* through insert_barrier.                                                 *)
THEOREM InsertTypeCorrect == InsertSpec => []InsertTypeOK
<1>1. IInv => InsertTypeOK
  BY DEF IInv
<1> QED
  BY <1>1, IInvHolds, PTL

(* Whatever is inserted, removed, refused or thrown, in whatever order:    *)
(* the map of a collection, the lists of the ids and the count of the      *)
(* local elements agree.                                                   *)
THEOREM RegistryIsConsistent == InsertSpec => []IdsMatchLocations
<1>1. IInv => IdsMatchLocations
  BY IdsMatchByHolder DEF IInv, InsertTypeOK
<1> QED
  BY <1>1, IInvHolds, PTL

(* Programs that insert through the registry and then call insert_barrier  *)
(* behave as InsertBarrier says of any processes that insert something.    *)
THEOREM InsertModeImplementsBarrier == InsertSpec => Barrier!Spec
<1>1. InsertInit => Barrier!Init
  BY InitIInv, SameTree
     DEF InsertInit, RegistryInit, Barrier!Init, IInv, InsertTypeOK, RegistryTypeOK, Account
<1> QED
  BY <1>1, IInvHolds, NextIInv, PTL DEF InsertSpec, Barrier!Spec

(* So nobody leaves insert mode unless all processes describe what they    *)
(* have inserted in the same way.                                          *)
THEOREM InsertModeIsLeftTogether == InsertSpec => []OnlyAgreementLeavesInsertMode
  BY InsertModeImplementsBarrier, InsertModeIsLeftInAgreement, PTL

-----------------------------------------------------------------------------
(* Calls and their messages                                                *)

Fields ==
  {"type", "call", "arguments", "object", "source", "dest", "index", "ids", "form",
   "block", "again"}
IsMessage(m) == m = [x \in Fields |-> m[x]]

(* The block of a message holds what is in the message.                    *)
Fitting(m) ==
  /\ m.block \in Blocks /\ Holds(m.block) /\ Aligned(m.block)
  /\ m.block.alignment = Alignment[m.arguments]
  /\ SizeOfData(m.block) = Size(m.arguments, IF m.form = "packed" THEN "packed" ELSE "object")
  /\ IsFiniteSet(m.ids)
  /\ m.ids # {} => HeaderSize + IndexSize * (2 + Cardinality(m.ids)) <= m.block.meta

(* A message is of a call, whatever has become of it.                      *)
IsOf(m, call) ==
  /\ m.call = call.name /\ m.arguments = call.arguments /\ m.source = call.from
  /\ m.again => call.requeue
  /\ m.type = "Broadcast" => ToAll(call)
IsOfSome(m, calls) == \E call \in calls : IsOf(m, call)

(* One that is to leave, or has left, its process.                         *)
Mail(m, calls) ==
  IsMessage(m) /\ Fitting(m) /\ IsOfSome(m, calls) /\ m.form = Form(m.arguments)

(* Only a broadcast comes back to the process it is from.                  *)
Leaves(m, p) == m.type = "Broadcast" \/ (m.source = p /\ m.dest # p)
Reaches(m, q) == m.type = "Broadcast" \/ m.source # q

(* A task: only a message of invoke that does not leave is not as it would *)
(* be sent; after its first run there are no arguments left in it.         *)
Stays(m, call, p) ==
  /\ call.kind = "invoke" /\ call.from = p
  /\ \/ m.form = "object"
     \/ m.form = "moved" /\ call.requeue /\ ~m.again /\ m.arguments \notin Plain
Task(m, calls, p) ==
  /\ IsMessage(m) /\ Fitting(m)
  /\ \E call \in calls : IsOf(m, call) /\ (m.form = Form(m.arguments) \/ Stays(m, call, p))

(* What has run has seen the arguments, or what a first run has left.      *)
HasSeen(x, call) ==
  \/ x.seen = call.arguments
  \/ /\ call.kind = "invoke" /\ x.process = call.from
     /\ call.requeue /\ ~x.again /\ call.arguments \notin Plain
Shown(x, calls) == \E call \in calls : x.call = call.name /\ HasSeen(x, call)

IsSequence(s) == s \in Seq(ToSet(s))

(* The outgoing messages, the tasks and what is on its way.                *)
GoodOutgoing(out, calls) ==
  /\ out = [p \in Process |-> out[p]]
  /\ \A p \in Process : /\ IsABag(out[p])
                        /\ \A m \in BagToSet(out[p]) : Mail(m, calls) /\ Leaves(m, p)
GoodTasks(queues, calls) ==
  /\ queues = [p \in Process |-> queues[p]]
  /\ \A p \in Process : /\ IsABag(queues[p])
                        /\ \A m \in BagToSet(queues[p]) : Task(m, calls, p)
GoodChannel(ch, calls) ==
  /\ ch = [p \in Process |-> [q \in Process |-> ch[p][q]]]
  /\ \A p, q \in Process :
       /\ IsSequence(ch[p][q])
       /\ \A m \in ToSet(ch[p][q]) : Mail(m, calls) /\ Reaches(m, q)
GoodRuns(runs, calls) == IsABag(runs) /\ \A x \in BagToSet(runs) : Shown(x, calls)

DeliveryInv ==
  /\ made \subseteq Call
  /\ GoodOutgoing(outgoing, made) /\ GoodTasks(tasks, made)
  /\ GoodChannel(channel, made) /\ GoodRuns(ran, made)

CallbackInv ==
  /\ Callbacks \subseteq ThroughCallback
  /\ \A call \in Callbacks :
       /\ callbacks[call] \in CallbackState
       /\ ~callbacks[call].invoked => callbacks[call].arguments = call.arguments

(* Each entry has the message it was made for.                             *)
WholeEntry == {[request |-> n, buffer |-> n] : n \in Names}
ReceivingInv ==
  /\ node \in 0 .. N
  /\ incoming \in Seq(WholeEntry)
  /\ complete \subseteq Names
  /\ handed \in [Names -> Nat]
  /\ receiving \in {"receive", "clean", "crashed"}
  /\ \A i \in DOMAIN incoming : \E m \in arrived : m.call = incoming[i].request
  /\ \A m \in arrived : Mail(m, made)

ProgramInv == IInv /\ DeliveryInv /\ CallbackInv /\ ReceivingInv
-----------------------------------------------------------------------------
(* Sequences and bags                                                      *)

LEMMA SequenceOf ==
  ASSUME NEW S, NEW s \in Seq(S)
  PROVE  IsSequence(s) /\ ToSet(s) \subseteq S
<1>1. s \in [1 .. Len(s) -> ToSet(s)] /\ Len(s) \in Nat
  BY LenProperties DEF ToSet
<1>2. [1 .. Len(s) -> ToSet(s)] \subseteq Seq(ToSet(s))
  BY <1>1, SeqDef
<1> QED
  BY <1>1, <1>2 DEF IsSequence, ToSet

LEMMA EmptyIsSequence == IsSequence(<<>>) /\ ToSet(<<>>) = {}
  BY DEF IsSequence, ToSet

LEMMA AppendIsSequence ==
  ASSUME NEW s, IsSequence(s), NEW e
  PROVE  /\ IsSequence(Append(s, e))
         /\ ToSet(Append(s, e)) \subseteq ToSet(s) \cup {e}
<1> DEFINE S == ToSet(s) \cup {e}
<1>1. s \in Seq(S)
  BY SeqMonotonic DEF IsSequence
<1>2. Append(s, e) \in Seq(S)
  BY <1>1
<1> QED
  BY <1>2, SequenceOf

LEMMA TailIsSequence ==
  ASSUME NEW s, IsSequence(s), s # <<>>
  PROVE  /\ IsSequence(Tail(s)) /\ ToSet(Tail(s)) \subseteq ToSet(s)
         /\ Head(s) \in ToSet(s)
<1>1. Tail(s) \in Seq(ToSet(s)) /\ Head(s) \in ToSet(s)
  BY DEF IsSequence
<1> QED
  BY <1>1, SequenceOf

LEMMA ConcatIsSequence ==
  ASSUME NEW s, IsSequence(s), NEW t, IsSequence(t)
  PROVE  IsSequence(s \o t) /\ ToSet(s \o t) \subseteq ToSet(s) \cup ToSet(t)
<1> DEFINE S == ToSet(s) \cup ToSet(t)
<1>1. s \in Seq(S) /\ t \in Seq(S)
  BY SeqMonotonic DEF IsSequence
<1>2. s \o t \in Seq(S)
  BY <1>1
<1> QED
  BY <1>2, SequenceOf

(* A function that is defined on the indices of a sequence.                *)
LEMMA LikeASequence ==
  ASSUME NEW s, IsSequence(s), NEW t, DOMAIN t = DOMAIN s, t = [i \in DOMAIN s |-> t[i]]
  PROVE  IsSequence(t)
<1>1. DOMAIN s = 1 .. Len(s) /\ Len(s) \in Nat
  BY DEF IsSequence
<1>2. t \in [1 .. Len(s) -> ToSet(t)]
  BY <1>1 DEF ToSet
<1>3. [1 .. Len(s) -> ToSet(t)] \subseteq Seq(ToSet(t))
  BY <1>1, SeqDef
<1> QED
  BY <1>2, <1>3 DEF IsSequence

LEMMA SelectedExists ==
  ASSUME NEW s, IsSequence(s), NEW T
  PROVE  \E f : f = [i \in 0 .. Len(s) |->
                       IF i = 0 THEN <<>>
                       ELSE IF s[i] \in T THEN Append(f[i - 1], s[i]) ELSE f[i - 1]]
<1> DEFINE Step(f, i) == IF i = 0 THEN <<>>
                         ELSE IF s[i] \in T THEN Append(f[i - 1], s[i]) ELSE f[i - 1]
           A == {n \in Nat : \E f : f = [i \in 0 .. n |-> Step(f, i)]}
<1>1. 0 \in A
  <2> DEFINE f == [i \in 0 .. 0 |-> <<>>]
  <2>1. f = [i \in 0 .. 0 |-> Step(f, i)]
    OBVIOUS
  <2> QED
    BY <2>1
<1>2. ASSUME NEW n \in Nat, n \in A
      PROVE  n + 1 \in A
  <2>1. PICK f : f = [i \in 0 .. n |-> Step(f, i)]
    BY <1>2
  <2> DEFINE g == [i \in 0 .. n + 1 |-> IF i = n + 1 THEN Step(f, i) ELSE f[i]]
  <2>2. \A i \in 0 .. n : g[i] = f[i] /\ f[i] = Step(f, i)
    <3> HIDE DEF Step
    <3>1. \A i \in 0 .. n : i \in 0 .. n + 1 /\ i # n + 1
      OBVIOUS
    <3>2. \A i \in 0 .. n : f[i] = Step(f, i)
      BY <2>1
    <3> QED
      BY <3>1, <3>2
  <2>3. \A i \in 0 .. n + 1 : i # 0 => g[i - 1] = f[i - 1]
    <3>1. \A i \in 0 .. n + 1 : i # 0 => i - 1 \in 0 .. n
      OBVIOUS
    <3> QED
      BY <2>2, <3>1
  <2>4. \A i \in 0 .. n + 1 : g[i] = Step(g, i)
    <3> TAKE i \in 0 .. n + 1
    <3>1. Step(g, i) = Step(f, i)
      BY <2>3
    <3>2. i = n + 1 \/ i \in 0 .. n
      OBVIOUS
    <3>3. CASE i = n + 1
      BY <3>1, <3>3
    <3>4. CASE i \in 0 .. n
      BY <3>1, <3>4, <2>2
    <3> QED
      BY <3>2, <3>3, <3>4
  <2>5. g = [i \in 0 .. n + 1 |-> g[i]]
    OBVIOUS
  <2>6. g = [i \in 0 .. n + 1 |-> Step(g, i)]
    <3> HIDE DEF g
    <3> QED
      BY <2>4, <2>5
  <2> HIDE DEF g, Step
  <2> QED
    BY <2>6
<1>3. Nat \subseteq A
  <2> HIDE DEF A
  <2> QED
    BY <1>1, <1>2, SetInduction
<1>4. Len(s) \in Nat
  BY DEF IsSequence
<1> QED
  BY <1>3, <1>4

(* What is selected is of the sequence and of the set.                     *)
LEMMA SelectedIsSequence ==
  ASSUME NEW s, IsSequence(s), NEW T
  PROVE  /\ IsSequence(Selected(s, T)) /\ ToSet(Selected(s, T)) \subseteq ToSet(s) \cap T
<1> DEFINE Step(f, i) == IF i = 0 THEN <<>>
                         ELSE IF s[i] \in T THEN Append(f[i - 1], s[i]) ELSE f[i - 1]
           upto == CHOOSE f : f = [i \in 0 .. Len(s) |-> Step(f, i)]
           S == ToSet(s) \cap T
<1>1. upto = [i \in 0 .. Len(s) |-> Step(upto, i)]
  <2>1. \E f : f = [i \in 0 .. Len(s) |-> Step(f, i)]
    BY SelectedExists, Zenon
  <2> HIDE DEF Step
  <2> QED
    BY <2>1, Zenon
<1>2. Selected(s, T) = upto[Len(s)]
  BY DEF Selected
<1>3. Len(s) \in Nat /\ DOMAIN s = 1 .. Len(s)
  BY DEF IsSequence
<1> HIDE DEF upto
<1> DEFINE A == {n \in Nat : n <= Len(s) => upto[n] \in Seq(S)}
<1>4. 0 \in A
  BY <1>1, <1>3
<1>5. ASSUME NEW n \in Nat, n \in A
      PROVE  n + 1 \in A
  <2>1. SUFFICES ASSUME n + 1 <= Len(s) PROVE upto[n + 1] \in Seq(S)
    OBVIOUS
  <2>2. upto[n] \in Seq(S)
    BY <1>3, <1>5, <2>1
  <2>3. n + 1 \in 1 .. Len(s) /\ n + 1 # 0 /\ (n + 1) - 1 = n
    BY <1>3, <2>1
  <2>4. upto[n + 1] = IF s[n + 1] \in T THEN Append(upto[n], s[n + 1]) ELSE upto[n]
    <3>1. upto[n + 1] = Step(upto, n + 1)
      <4> HIDE DEF Step
      <4>1. n + 1 \in 0 .. Len(s)
        BY <2>3
      <4> QED
        BY <1>1, <4>1
    <3> QED
      BY <2>3, <3>1
  <2>5. s[n + 1] \in ToSet(s)
    BY <1>3, <2>3 DEF ToSet
  <2> QED
    BY <2>2, <2>4, <2>5
<1>6. Nat \subseteq A
  <2> HIDE DEF A
  <2> QED
    BY <1>4, <1>5, SetInduction
<1>7. Selected(s, T) \in Seq(S)
  BY <1>2, <1>3, <1>6
<1> QED
  BY <1>7, SequenceOf

LEMMA UnionIsBag ==
  ASSUME NEW A, IsABag(A), NEW B, IsABag(B)
  PROVE  IsABag(A (+) B) /\ BagToSet(A (+) B) = BagToSet(A) \cup BagToSet(B)
BY DEF IsABag, BagToSet, (+)

LEMMA DifferenceIsBag ==
  ASSUME NEW A, IsABag(A), NEW B, IsABag(B)
  PROVE  IsABag(A (-) B) /\ BagToSet(A (-) B) \subseteq BagToSet(A)
BY DEF IsABag, BagToSet, (-)

LEMMA SetIsBag ==
  ASSUME NEW S
  PROVE  IsABag(SetToBag(S)) /\ BagToSet(SetToBag(S)) = S
BY DEF IsABag, BagToSet, SetToBag

LEMMA EmptyIsBag == IsABag(EmptyBag) /\ BagToSet(EmptyBag) = {}
BY SetIsBag DEF EmptyBag
-----------------------------------------------------------------------------
(* What becomes of a message                                               *)

LEMMA SizesAreNumbers ==
  ASSUME NEW a \in Arguments, NEW form
  PROVE  /\ Size(a, form) \in Nat
         /\ Size(a, IF form = "packed" THEN "packed" ELSE "object") = Size(a, form)
         /\ Alignment[a] \in Alignments /\ Alignment[a] <= HeaderSize
BY ArgumentsAssumption, AlignmentAssumption DEF Size

LEMMA NewBlocksFit ==
  ASSUME NEW size \in Nat, NEW a \in Alignments
  PROVE  /\ CreateMessage(size, a) \in Blocks /\ CreateMessageFrom(size, a) \in Blocks
         /\ CreateMessage(size, a).alignment = a /\ CreateMessageFrom(size, a).alignment = a
         /\ SizeOfData(CreateMessage(size, a)) = size
         /\ SizeOfData(CreateMessageFrom(size, a)) = size
<1>1. DataAfter(64, a) \in Nat
  BY DataAfterIsAligned
<1> QED
  BY <1>1, AlignmentsAreNumbers
     DEF CreateMessage, CreateMessageFrom, Block, Blocks, HeaderSize, SizeOfData, Larger

LEMMA NewIdsFit ==
  ASSUME NEW n \in Nat, NEW size \in Nat, NEW a \in Alignments
  PROVE  /\ CreateBroadcastTo(n, size, a) \in Blocks
         /\ CreateBroadcastTo(n, size, a).alignment = a
         /\ CreateBroadcastTo(n, size, a).meta = IdsEnd(n)
<1>1. IdsEnd(n) \in Nat
  BY DEF IdsEnd, HeaderSize, IndexSize
<1>2. DataAfter(IdsEnd(n), a) \in Nat
  BY <1>1, DataAfterIsAligned
<1> QED
  BY <1>1, <1>2, AlignmentsAreNumbers DEF CreateBroadcastTo, Block, Blocks, Larger, HeaderSize

LEMMA NewMessage ==
  ASSUME NEW call, NEW type, NEW object, NEW dest, NEW index, NEW ids, NEW form, NEW block,
         type = "Broadcast" => ToAll(call)
  PROVE  LET m == Message(type, call, object, dest, index, ids, form, block) IN
         /\ IsMessage(m) /\ IsOf(m, call)
         /\ m.type = type /\ m.dest = dest /\ m.source = call.from
         /\ m.ids = ids /\ m.form = form /\ m.block = block /\ m.arguments = call.arguments
BY DEF Message, IsMessage, Fields, IsOf

(* A new message for one element or process.                               *)
LEMMA NewMessageFits ==
  ASSUME NEW m, m.arguments \in Arguments, m.ids = {},
         \/ m.block = NewBlock(m.arguments, m.form)
         \/ m.block = BlockFor(m.arguments, m.form)
  PROVE  Fitting(m)
<1>1. /\ Size(m.arguments, m.form) \in Nat
      /\ Size(m.arguments, IF m.form = "packed" THEN "packed" ELSE "object")
           = Size(m.arguments, m.form)
      /\ Alignment[m.arguments] \in Alignments
  BY SizesAreNumbers
<1>2. /\ m.block \in Blocks /\ Holds(m.block) /\ Aligned(m.block)
      /\ m.block.alignment = Alignment[m.arguments]
      /\ SizeOfData(m.block) = Size(m.arguments, m.form)
  BY <1>1, NewBlocksFit, InvokeMessagesHold DEF NewBlock, BlockFor
<1> QED
  BY <1>1, <1>2, FS_EmptySet DEF Fitting

(* One of broadcast_to.                                                    *)
LEMMA NewBundleFits ==
  ASSUME NEW m, m.arguments \in Arguments, IsFiniteSet(m.ids),
         m.block = CreateBroadcastTo(Cardinality(m.ids), Size(m.arguments, m.form),
                                     Alignment[m.arguments])
  PROVE  Fitting(m)
<1>1. /\ Size(m.arguments, m.form) \in Nat
      /\ Size(m.arguments, IF m.form = "packed" THEN "packed" ELSE "object")
           = Size(m.arguments, m.form)
      /\ Alignment[m.arguments] \in Alignments
  BY SizesAreNumbers
<1>2. Cardinality(m.ids) \in Nat
  BY FS_CardinalityType
<1>3. /\ m.block \in Blocks /\ Holds(m.block) /\ Aligned(m.block)
      /\ m.block.alignment = Alignment[m.arguments]
      /\ SizeOfData(m.block) = Size(m.arguments, m.form)
      /\ m.block.meta = IdsEnd(Cardinality(m.ids))
  BY <1>1, <1>2, NewIdsFit, BroadcastToMessagesHold
<1>4. HeaderSize + IndexSize * (2 + Cardinality(m.ids)) <= m.block.meta
  BY <1>2, <1>3 DEF IdsEnd, HeaderSize, IndexSize
<1> QED
  BY <1>1, <1>3, <1>4 DEF Fitting

(* A message with another block and form, and elsewhere.                   *)
LEMMA StillFits ==
  ASSUME NEW m, Fitting(m), NEW n,
         n.arguments = m.arguments, n.ids = m.ids, m.form = "packed" <=> n.form = "packed",
         \/ n.block = m.block
         \/ n.block = Copied(m.block)
         \/ n.block = Received(m.block) /\ m.block.alignment <= HeaderSize
  PROVE  Fitting(n)
<1>1. ASSUME NEW b \in Blocks, NEW a \in Nat, Holds(b)
      PROVE  LET c == [b EXCEPT !.allocated = a] IN
             /\ c \in Blocks /\ Holds(c) /\ c.alignment = b.alignment /\ c.meta = b.meta
             /\ SizeOfData(c) = SizeOfData(b)
  BY <1>1 DEF Blocks, Holds, SizeOfData
<1>2. m.block \in Blocks /\ Holds(m.block) /\ Larger(HeaderSize, m.block.alignment) \in Nat
  BY AlignmentsAreNumbers DEF Fitting, Blocks, Larger, HeaderSize
<1>3. /\ n.block \in Blocks /\ Holds(n.block) /\ n.block.alignment = m.block.alignment
      /\ n.block.meta = m.block.meta /\ SizeOfData(n.block) = SizeOfData(m.block)
  <2>1. CASE n.block = m.block
    BY <1>2, <2>1
  <2>2. CASE n.block = Copied(m.block)
    BY ONLY <1>1, <1>2, <2>2 DEF Copied
  <2>3. CASE n.block = Received(m.block)
    <3>1. HeaderSize \in Nat
      BY DEF HeaderSize
    <3> QED
      BY ONLY <1>1, <1>2, <2>3, <3>1 DEF Received
  <2> QED
    BY <2>1, <2>2, <2>3
<1>4. Aligned(n.block)
  <2>1. CASE n.block = m.block
    BY <2>1 DEF Fitting
  <2>2. CASE n.block # m.block
    BY <1>2, <2>2, CopiesAreAligned
  <2> QED
    BY <2>1, <2>2
<1> QED
  BY <1>3, <1>4 DEF Fitting

LEMMA SameFields ==
  ASSUME NEW m, IsMessage(m), NEW x, NEW y
  PROVE  /\ IsMessage([m EXCEPT !.dest = x])
         /\ IsMessage([m EXCEPT !.block = x])
         /\ IsMessage([m EXCEPT !.block = x, !.form = y])
BY DEF IsMessage, Fields

LEMMA CopyOfFields ==
  ASSUME NEW m, IsMessage(m)
  PROVE  LET n == CopyOf(m) IN
         /\ IsMessage(n) /\ n.block = Copied(m.block)
         /\ n.form = IF m.form = "object" /\ m.arguments \notin Plain THEN "broken" ELSE m.form
         /\ n.type = m.type /\ n.call = m.call /\ n.arguments = m.arguments /\ n.ids = m.ids
         /\ n.source = m.source /\ n.again = m.again /\ n.dest = m.dest
BY DEF CopyOf, IsMessage, Fields

LEMMA SentFields ==
  ASSUME NEW m, IsMessage(m)
  PROVE  LET n == Sent(m) IN
         /\ IsMessage(n) /\ n.block = m.block
         /\ n.form = IF m.form = "object" /\ m.arguments \notin Plain THEN "broken" ELSE m.form
         /\ n.type = m.type /\ n.call = m.call /\ n.arguments = m.arguments /\ n.ids = m.ids
         /\ n.source = m.source /\ n.again = m.again
<1> DEFINE c == CopyOf(m)
<1>1. IsMessage(c)
  BY CopyOfFields
<1>2. Sent(m) = [c EXCEPT !.block = m.block]
  BY DEF Sent
<1> HIDE DEF c
<1>3. /\ IsMessage(Sent(m)) /\ Sent(m).block = m.block /\ Sent(m).form = c.form
      /\ Sent(m).type = c.type /\ Sent(m).call = c.call /\ Sent(m).arguments = c.arguments
      /\ Sent(m).ids = c.ids /\ Sent(m).source = c.source /\ Sent(m).again = c.again
  BY <1>1, <1>2 DEF IsMessage, Fields
<1> QED
  BY <1>3, CopyOfFields DEF c

LEMMA RedirectedFields ==
  ASSUME NEW m, IsMessage(m), NEW q
  PROVE  LET n == Redirected(m, q) IN
         /\ IsMessage(n) /\ n.block = m.block /\ n.form = m.form /\ n.dest = q
         /\ n.type = m.type /\ n.call = m.call /\ n.arguments = m.arguments /\ n.ids = m.ids
         /\ n.source = m.source /\ n.again = m.again
BY DEF Redirected, IsMessage, Fields

LEMMA GotFields ==
  ASSUME NEW m, IsMessage(m)
  PROVE  LET n == Got(m) IN
         /\ IsMessage(n) /\ n.block = Received(m.block) /\ n.form = m.form
         /\ n.type = m.type /\ n.call = m.call /\ n.arguments = m.arguments /\ n.ids = m.ids
         /\ n.source = m.source /\ n.again = m.again
BY DEF Got, IsMessage, Fields

LEMMA ToInvokeFields ==
  ASSUME NEW m, IsMessage(m), NEW p, NEW e
  PROVE  LET n == ToInvoke(m, p, e) IN
         /\ IsMessage(n) /\ n.block = m.block /\ n.form = m.form
         /\ n.type = "Invoke" /\ n.call = m.call /\ n.arguments = m.arguments /\ n.ids = m.ids
         /\ n.source = m.source /\ n.again = m.again
BY DEF ToInvoke, IsMessage, Fields

LEMMA UnbundledFields ==
  ASSUME NEW m, IsMessage(m), NEW p, NEW e
  PROVE  LET n == Unbundled(m, p, e) IN
         /\ IsMessage(n)
         /\ n.block = CreateMessageFrom(SizeOfData(m.block), m.block.alignment)
         /\ n.form = IF m.form = "object" /\ m.arguments \notin Plain THEN "broken" ELSE m.form
         /\ n.type = "Invoke" /\ n.call = m.call /\ n.arguments = m.arguments /\ n.ids = {}
         /\ n.source = m.source /\ n.again = m.again
<1> DEFINE c == ToInvoke(CopyOf(m), p, e)
           n == Unbundled(m, p, e)
<1>1. /\ IsMessage(c) /\ c.type = "Invoke" /\ c.call = m.call /\ c.arguments = m.arguments
      /\ c.form = IF m.form = "object" /\ m.arguments \notin Plain THEN "broken" ELSE m.form
      /\ c.source = m.source /\ c.again = m.again
  BY CopyOfFields, ToInvokeFields
<1>2. n = [c EXCEPT !.ids = {}, !.block = CreateMessageFrom(SizeOfData(m.block), m.block.alignment)]
  BY DEF Unbundled
<1> HIDE DEF c, n
<1>3. /\ IsMessage(n) /\ n.ids = {}
      /\ n.block = CreateMessageFrom(SizeOfData(m.block), m.block.alignment)
      /\ n.form = c.form /\ n.type = c.type /\ n.call = c.call /\ n.arguments = c.arguments
      /\ n.source = c.source /\ n.again = c.again
  BY <1>1, <1>2 DEF IsMessage, Fields
<1> QED
  BY <1>1, <1>3 DEF n

LEMMA AfterRunFields ==
  ASSUME NEW m, IsMessage(m)
  PROVE  LET n == AfterRun(m) IN
         /\ IsMessage(n) /\ n.block = m.block
         /\ n.form = IF m.form = "object" /\ m.arguments \notin Plain THEN "moved" ELSE m.form
         /\ n.type = m.type /\ n.call = m.call /\ n.arguments = m.arguments /\ n.ids = m.ids
         /\ n.source = m.source /\ n.again = FALSE
BY DEF AfterRun, IsMessage, Fields
-----------------------------------------------------------------------------
(* Where a message is                                                      *)

LEMMA CallFields ==
  ASSUME NEW call \in Call
  PROVE  /\ call.arguments \in Arguments /\ call.from \in Process
         /\ call.component \in Component /\ IsFiniteSet(call.to)
         /\ call = [name |-> call.name, kind |-> call.kind, from |-> call.from,
                    component |-> call.component, to |-> call.to,
                    arguments |-> call.arguments, requeue |-> call.requeue]
<1>1. call \in [name : STRING, kind : Kinds, from : Process, component : Component,
                to : SUBSET (Process \cup ElementIndex), arguments : Arguments, requeue : BOOLEAN]
  BY CallAssumption
<1>2. IsFiniteSet(Process \cup ElementIndex)
  <2>1. IsFiniteSet(Process)
    BY NAssumption, FS_Interval DEF Process
  <2> QED
    BY <2>1, ElementAssumption, FS_Union
<1>3. IsFiniteSet(call.to)
  BY <1>1, <1>2, FS_Subset
<1> QED
  BY <1>1, <1>3

LEMMA MoreCalls ==
  ASSUME NEW M, NEW L, M \subseteq L
  PROVE  /\ \A m : Mail(m, M) => Mail(m, L)
         /\ \A m, p : Task(m, M, p) => Task(m, L, p)
         /\ \A x : Shown(x, M) => Shown(x, L)
BY DEF Mail, IsOfSome, Task, Shown

LEMMA StillMail ==
  ASSUME NEW M \in SUBSET Call, NEW m, Mail(m, M), NEW n, IsMessage(n),
         n.type = m.type \/ n.type = "Invoke",
         n.call = m.call, n.arguments = m.arguments, n.ids = m.ids,
         n.source = m.source, n.again = m.again,
         n.form = IF m.form = "object" /\ m.arguments \notin Plain THEN "broken" ELSE m.form,
         n.block = m.block \/ n.block = Copied(m.block) \/ n.block = Received(m.block)
  PROVE  Mail(n, M)
<1>1. PICK call \in M : IsOf(m, call)
  BY DEF Mail, IsOfSome
<1>2. IsOf(n, call)
  BY <1>1 DEF IsOf
<1>3. n.form = m.form /\ m.form = Form(m.arguments)
  BY DEF Mail, Form
<1>4. m.arguments \in Arguments
  BY <1>1, CallFields DEF IsOf
<1>5. m.block.alignment <= HeaderSize
  BY <1>4, SizesAreNumbers DEF Mail, Fitting
<1>6. Fitting(n)
  BY <1>3, <1>5, StillFits DEF Mail
<1> QED
  BY <1>1, <1>2, <1>3, <1>6 DEF Mail, IsOfSome

LEMMA MailMoves ==
  ASSUME NEW M \in SUBSET Call, NEW m, Mail(m, M)
  PROVE  /\ Mail(CopyOf(m), M) /\ Mail(Sent(m), M) /\ Mail(Got(m), M)
         /\ \A q : Mail(Redirected(m, q), M)
         /\ \A p, e : Mail(ToInvoke(CopyOf(m), p, e), M)
<1>1. IsMessage(m) /\ m.form = Form(m.arguments)
  BY DEF Mail
<1>2. m.form = IF m.form = "object" /\ m.arguments \notin Plain THEN "broken" ELSE m.form
  BY <1>1 DEF Form
<1>3. Mail(CopyOf(m), M)
  BY <1>1, CopyOfFields, StillMail
<1>4. Mail(Sent(m), M)
  BY <1>1, SentFields, StillMail
<1>5. Mail(Got(m), M)
  BY <1>1, <1>2, GotFields, StillMail
<1>6. ASSUME NEW q PROVE Mail(Redirected(m, q), M)
  BY <1>1, <1>2, RedirectedFields, StillMail
<1>7. ASSUME NEW p, NEW e PROVE Mail(ToInvoke(CopyOf(m), p, e), M)
  <2> DEFINE c == CopyOf(m)
  <2>1. IsMessage(c) /\ Mail(c, M) /\ c.form = Form(c.arguments)
    BY <1>3 DEF Mail
  <2>2. c.form = IF c.form = "object" /\ c.arguments \notin Plain THEN "broken" ELSE c.form
    BY <2>1 DEF Form
  <2> HIDE DEF c
  <2> QED
    BY <2>1, <2>2, ToInvokeFields, StillMail DEF c
<1> QED
  BY <1>3, <1>4, <1>5, <1>6, <1>7

LEMMA MailIsTask ==
  ASSUME NEW M, NEW m, Mail(m, M), NEW p
  PROVE  Task(m, M, p)
BY DEF Mail, Task, IsOfSome

LEMMA UnbundledIsTask ==
  ASSUME NEW M \in SUBSET Call, NEW m, Mail(m, M), NEW p, NEW e
  PROVE  Task(Unbundled(m, p, e), M, p)
<1> DEFINE n == Unbundled(m, p, e)
<1>1. IsMessage(m) /\ m.form = Form(m.arguments) /\ Fitting(m)
  BY DEF Mail
<1>2. /\ IsMessage(n) /\ n.form = m.form
      /\ n.block = CreateMessageFrom(SizeOfData(m.block), m.block.alignment)
      /\ n.type = "Invoke" /\ n.call = m.call /\ n.arguments = m.arguments /\ n.ids = {}
      /\ n.source = m.source /\ n.again = m.again
  BY <1>1, UnbundledFields DEF Form
<1> HIDE DEF n
<1>3. PICK call \in M : IsOf(m, call)
  BY DEF Mail, IsOfSome
<1>4. m.arguments \in Arguments /\ IsOf(n, call)
  BY <1>2, <1>3, CallFields DEF IsOf
<1>5. n.block = BlockFor(n.arguments, n.form)
  BY <1>1, <1>2, <1>4, SizesAreNumbers DEF Fitting, BlockFor
<1>6. Fitting(n)
  BY <1>2, <1>4, <1>5, NewMessageFits
<1> QED
  BY <1>1, <1>2, <1>3, <1>4, <1>6 DEF Task, n

LEMMA LocalTasksAreTasks ==
  ASSUME NEW M \in SUBSET Call, NEW m, Mail(m, M), NEW p, NEW t \in LocalTasks(p, m)
  PROVE  Task(t, M, p)
<1>1. PICK e : t = ToInvoke(CopyOf(m), p, e) \/ t = Unbundled(m, p, e)
  BY DEF LocalTasks
<1>2. Mail(ToInvoke(CopyOf(m), p, e), M)
  BY MailMoves
<1> QED
  BY <1>1, <1>2, MailIsTask, UnbundledIsTask

(* What is made of messages that have come in.                             *)
LEMMA CountIsBag ==
  ASSUME NEW s, IsSequence(s), NEW S, NEW B, B = [t \in S |-> B[t]],
         \A t \in S : \E I \in SUBSET DOMAIN s : I # {} /\ B[t] = Cardinality(I)
  PROVE  IsABag(B) /\ BagToSet(B) = S
<1>1. DOMAIN s = 1 .. Len(s) /\ Len(s) \in Nat
  BY DEF IsSequence
<1>2. IsFiniteSet(DOMAIN s)
  <2>1. IsFiniteSet(1 .. Len(s))
    BY ONLY <1>1, FS_Interval
  <2> QED
    BY <1>1, <2>1
<1>3. ASSUME NEW t \in S PROVE B[t] \in {n \in Nat : n > 0}
  <2>1. PICK I \in SUBSET DOMAIN s : I # {} /\ B[t] = Cardinality(I)
    OBVIOUS
  <2>2. IsFiniteSet(I)
    BY <1>2, FS_Subset
  <2>3. Cardinality(I) \in Nat /\ Cardinality(I) # 0
    BY <2>1, <2>2, FS_CardinalityType, FS_EmptySet
  <2> QED
    BY <2>1, <2>3
<1> QED
  BY <1>3 DEF IsABag, BagToSet

LEMMA TasksFromAreTasks ==
  ASSUME NEW M \in SUBSET Call, NEW ms, IsSequence(ms), \A m \in ToSet(ms) : Mail(m, M), NEW p
  PROVE  /\ IsABag(TasksFrom(p, ms))
         /\ \A t \in BagToSet(TasksFrom(p, ms)) : Task(t, M, p)
<1> DEFINE Ready(m) == IF m.type = "Invoke" THEN {m} ELSE LocalTasks(p, m)
           S == UNION {Ready(ms[i]) : i \in DOMAIN ms}
           B == [t \in S |-> Cardinality({i \in DOMAIN ms : t \in Ready(ms[i])})]
<1>1. TasksFrom(p, ms) = IF \A i \in DOMAIN ms : ms[i].type = "Invoke" THEN InBulk(ms) ELSE B
  BY DEF TasksFrom
<1>2. CASE \A i \in DOMAIN ms : ms[i].type = "Invoke"
  <2> DEFINE C == InBulk(ms)
  <2>1. C = [t \in ToSet(ms) |-> Cardinality({i \in DOMAIN ms : ms[i] = t})]
    BY DEF InBulk
  <2>2. \A t \in ToSet(ms) : {i \in DOMAIN ms : ms[i] = t} # {}
    BY DEF ToSet
  <2>3. \A t \in ToSet(ms) : \E I \in SUBSET DOMAIN ms : I # {} /\ C[t] = Cardinality(I)
    <3> TAKE t \in ToSet(ms)
    <3> WITNESS {i \in DOMAIN ms : ms[i] = t} \in SUBSET DOMAIN ms
    <3> QED
      BY <2>1, <2>2
  <2> HIDE DEF C
  <2>4. C = [t \in ToSet(ms) |-> C[t]]
    BY <2>1
  <2>5. IsABag(C) /\ BagToSet(C) = ToSet(ms)
    BY <2>3, <2>4, CountIsBag
  <2> QED
    BY <1>1, <1>2, <2>5, MailIsTask DEF C
<1>3. CASE ~\A i \in DOMAIN ms : ms[i].type = "Invoke"
  <2>1. \A t \in S : {i \in DOMAIN ms : t \in Ready(ms[i])} # {}
    OBVIOUS
  <2>2. \A t \in S : \E I \in SUBSET DOMAIN ms : I # {} /\ B[t] = Cardinality(I)
    <3> TAKE t \in S
    <3> WITNESS {i \in DOMAIN ms : t \in Ready(ms[i])} \in SUBSET DOMAIN ms
    <3> QED
      BY <2>1
  <2>3. B = [t \in S |-> B[t]]
    OBVIOUS
  <2>4. ASSUME NEW t \in S PROVE Task(t, M, p)
    <3>1. PICK i \in DOMAIN ms : t \in Ready(ms[i])
      OBVIOUS
    <3>2. Mail(ms[i], M)
      BY DEF ToSet
    <3> QED
      BY <3>1, <3>2, MailIsTask, LocalTasksAreTasks
  <2> HIDE DEF B, S
  <2>5. IsABag(B) /\ BagToSet(B) = S
    BY <2>2, <2>3, CountIsBag
  <2> QED
    BY <1>1, <1>3, <2>4, <2>5
<1> QED
  BY <1>2, <1>3
-----------------------------------------------------------------------------
(* Queues and channels                                                     *)

LEMMA MoreOutgoing ==
  ASSUME NEW M, NEW out, GoodOutgoing(out, M), NEW p \in Process, NEW B, IsABag(B),
         \A m \in BagToSet(B) : Mail(m, M) /\ Leaves(m, p)
  PROVE  GoodOutgoing([out EXCEPT ![p] = @ (+) B], M)
<1> DEFINE after == [out EXCEPT ![p] = @ (+) B]
<1>1. IsABag(out[p] (+) B) /\ BagToSet(out[p] (+) B) = BagToSet(out[p]) \cup BagToSet(B)
  BY UnionIsBag DEF GoodOutgoing
<1>2. /\ DOMAIN out = Process
      /\ after = [q \in Process |-> after[q]]
      /\ \A q \in Process : after[q] = IF q = p THEN out[p] (+) B ELSE out[q]
  BY DEF GoodOutgoing
<1> HIDE DEF after
<1> QED
  BY <1>1, <1>2 DEF GoodOutgoing, after

LEMMA FewerOutgoing ==
  ASSUME NEW M, NEW out, GoodOutgoing(out, M), NEW p \in Process, NEW B, IsABag(B)
  PROVE  GoodOutgoing([out EXCEPT ![p] = @ (-) B], M)
<1> DEFINE after == [out EXCEPT ![p] = @ (-) B]
<1>1. IsABag(out[p] (-) B) /\ BagToSet(out[p] (-) B) \subseteq BagToSet(out[p])
  BY DifferenceIsBag DEF GoodOutgoing
<1>2. /\ DOMAIN out = Process
      /\ after = [q \in Process |-> after[q]]
      /\ \A q \in Process : after[q] = IF q = p THEN out[p] (-) B ELSE out[q]
  BY DEF GoodOutgoing
<1> HIDE DEF after
<1> QED
  BY <1>1, <1>2 DEF GoodOutgoing, after

LEMMA MoreTasks ==
  ASSUME NEW M, NEW queues, GoodTasks(queues, M), NEW p \in Process, NEW B, IsABag(B),
         \A m \in BagToSet(B) : Task(m, M, p)
  PROVE  GoodTasks([queues EXCEPT ![p] = @ (+) B], M)
<1> DEFINE after == [queues EXCEPT ![p] = @ (+) B]
<1>1. /\ IsABag(queues[p] (+) B)
      /\ BagToSet(queues[p] (+) B) = BagToSet(queues[p]) \cup BagToSet(B)
  BY UnionIsBag DEF GoodTasks
<1>2. /\ DOMAIN queues = Process
      /\ after = [q \in Process |-> after[q]]
      /\ \A q \in Process : after[q] = IF q = p THEN queues[p] (+) B ELSE queues[q]
  BY DEF GoodTasks
<1> HIDE DEF after
<1> QED
  BY <1>1, <1>2 DEF GoodTasks, after

LEMMA TaskRequeued ==
  ASSUME NEW M, NEW queues, GoodTasks(queues, M), NEW p \in Process, NEW A, IsABag(A),
         NEW B, IsABag(B), \A m \in BagToSet(B) : Task(m, M, p)
  PROVE  GoodTasks([queues EXCEPT ![p] = (@ (-) A) (+) B], M)
<1> DEFINE after == [queues EXCEPT ![p] = (@ (-) A) (+) B]
<1>1. /\ IsABag(queues[p] (-) A)
      /\ BagToSet(queues[p] (-) A) \subseteq BagToSet(queues[p])
  BY DifferenceIsBag DEF GoodTasks
<1>2. /\ IsABag((queues[p] (-) A) (+) B)
      /\ BagToSet((queues[p] (-) A) (+) B) = BagToSet(queues[p] (-) A) \cup BagToSet(B)
  BY <1>1, UnionIsBag
<1>3. /\ DOMAIN queues = Process
      /\ after = [q \in Process |-> after[q]]
      /\ \A q \in Process : after[q] = IF q = p THEN (queues[p] (-) A) (+) B ELSE queues[q]
  BY DEF GoodTasks
<1> HIDE DEF after
<1> QED
  BY <1>1, <1>2, <1>3 DEF GoodTasks, after

(* One way between two processes changes.                                  *)
LEMMA OneWay ==
  ASSUME NEW M, NEW ch, GoodChannel(ch, M), NEW p \in Process, NEW row,
         row = [q \in Process |-> row[q]],
         \A q \in Process : /\ IsSequence(row[q])
                            /\ \A m \in ToSet(row[q]) : Mail(m, M) /\ Reaches(m, q)
  PROVE  GoodChannel([ch EXCEPT ![p] = row], M)
<1> DEFINE after == [ch EXCEPT ![p] = row]
<1>1. \A q, r \in Process : after[q][r] = IF q = p THEN row[r] ELSE ch[q][r]
  BY DEF GoodChannel
<1>2. after = [q \in Process |-> [r \in Process |-> after[q][r]]]
  BY DEF GoodChannel
<1> HIDE DEF after
<1> QED
  BY <1>1, <1>2 DEF GoodChannel, after

LEMMA LessOnTheWay ==
  ASSUME NEW M, NEW ch, GoodChannel(ch, M), NEW p \in Process, NEW q \in Process,
         ch[p][q] # <<>>
  PROVE  /\ GoodChannel([ch EXCEPT ![p][q] = Tail(@)], M)
         /\ Mail(Head(ch[p][q]), M) /\ Reaches(Head(ch[p][q]), q)
<1> DEFINE row == [ch[p] EXCEPT ![q] = Tail(@)]
<1>1. /\ IsSequence(Tail(ch[p][q])) /\ ToSet(Tail(ch[p][q])) \subseteq ToSet(ch[p][q])
      /\ Head(ch[p][q]) \in ToSet(ch[p][q])
  BY TailIsSequence DEF GoodChannel
<1>2. /\ row = [r \in Process |-> row[r]]
      /\ \A r \in Process : row[r] = IF r = q THEN Tail(ch[p][q]) ELSE ch[p][r]
  BY DEF GoodChannel
<1>3. [ch EXCEPT ![p][q] = Tail(@)] = [ch EXCEPT ![p] = row]
  OBVIOUS
<1> HIDE DEF row
<1>4. \A r \in Process : /\ IsSequence(row[r])
                         /\ \A m \in ToSet(row[r]) : Mail(m, M) /\ Reaches(m, r)
  BY <1>1, <1>2 DEF GoodChannel
<1>5. GoodChannel([ch EXCEPT ![p] = row], M)
  BY <1>2, <1>4, OneWay
<1>6. Mail(Head(ch[p][q]), M) /\ Reaches(Head(ch[p][q]), q)
  BY <1>1 DEF GoodChannel
<1> QED
  BY <1>3, <1>5, <1>6

(* send_data of a message that is not for this process                     *)
LEMMA MoreOnTheWay ==
  ASSUME NEW M, NEW ch, GoodChannel(ch, M), NEW p \in Process, NEW d, NEW m,
         Mail(m, M), Reaches(m, d)
  PROVE  GoodChannel([ch EXCEPT ![p][d] = Append(@, m)], M)
<1> DEFINE row == [ch[p] EXCEPT ![d] = Append(@, m)]
<1>1. /\ row = [r \in Process |-> row[r]]
      /\ \A r \in Process : row[r] = IF r = d THEN Append(ch[p][d], m) ELSE ch[p][r]
  BY DEF GoodChannel
<1>2. [ch EXCEPT ![p][d] = Append(@, m)] = [ch EXCEPT ![p] = row]
  OBVIOUS
<1>3. d \in Process =>
        /\ IsSequence(Append(ch[p][d], m))
        /\ ToSet(Append(ch[p][d], m)) \subseteq ToSet(ch[p][d]) \cup {m}
  BY AppendIsSequence DEF GoodChannel
<1> HIDE DEF row
<1>4. \A r \in Process : /\ IsSequence(row[r])
                         /\ \A n \in ToSet(row[r]) : Mail(n, M) /\ Reaches(n, r)
  BY <1>1, <1>3 DEF GoodChannel
<1>5. GoodChannel([ch EXCEPT ![p] = row], M)
  BY <1>1, <1>4, OneWay
<1> QED
  BY <1>2, <1>5

LEMMA ChildrenGetMail ==
  ASSUME NEW M \in SUBSET Call, NEW ch, GoodChannel(ch, M), NEW p \in Process,
         NEW ms, IsSequence(ms), \A m \in ToSet(ms) : Mail(m, M) /\ m.type = "Broadcast"
  PROVE  GoodChannel(ToChildren(ch, p, ms), M)
<1> DEFINE copies(q) == [i \in DOMAIN ms |-> Redirected(CopyOf(ms[i]), q)]
           row == [q \in Process |->
                     IF q \notin Children(p) THEN ch[p][q] ELSE ch[p][q] \o copies(q)]
<1>1. ToChildren(ch, p, ms) = [ch EXCEPT ![p] = row]
  BY DEF ToChildren
<1>2. ASSUME NEW q \in Process
      PROVE  /\ IsSequence(copies(q))
             /\ \A m \in ToSet(copies(q)) : Mail(m, M) /\ m.type = "Broadcast"
  <2>1. IsSequence(copies(q))
    <3> DEFINE t == copies(q)
    <3>1. DOMAIN t = DOMAIN ms /\ t = [i \in DOMAIN ms |-> t[i]]
      OBVIOUS
    <3> HIDE DEF t
    <3> QED
      BY <3>1, LikeASequence DEF t
  <2>2. ASSUME NEW m \in ToSet(copies(q)) PROVE Mail(m, M) /\ m.type = "Broadcast"
    <3>1. PICK i \in DOMAIN ms : m = Redirected(CopyOf(ms[i]), q)
      BY DEF ToSet
    <3>2. Mail(ms[i], M) /\ ms[i].type = "Broadcast"
      BY DEF ToSet
    <3>3. Mail(CopyOf(ms[i]), M) /\ CopyOf(ms[i]).type = "Broadcast"
      BY <3>2, MailMoves, CopyOfFields DEF Mail
    <3> QED
      BY <3>1, <3>3, MailMoves, RedirectedFields DEF Mail
  <2> QED
    BY <2>1, <2>2
<1>3. ASSUME NEW q \in Process
      PROVE  /\ IsSequence(row[q])
             /\ \A m \in ToSet(row[q]) : Mail(m, M) /\ Reaches(m, q)
  <2>1. CASE q \notin Children(p)
    BY <2>1 DEF GoodChannel
  <2>2. CASE q \in Children(p)
    <3>1. /\ IsSequence(ch[p][q])
          /\ \A m \in ToSet(ch[p][q]) : Mail(m, M) /\ Reaches(m, q)
      BY DEF GoodChannel
    <3> DEFINE s == ch[p][q]
               t == copies(q)
    <3>2. /\ IsSequence(t)
          /\ \A m \in ToSet(t) : Mail(m, M) /\ m.type = "Broadcast"
      BY <1>2
    <3>3. row[q] = s \o t
      BY <2>2
    <3> HIDE DEF s, t
    <3>4. IsSequence(s \o t) /\ ToSet(s \o t) \subseteq ToSet(s) \cup ToSet(t)
      BY <3>1, <3>2, ConcatIsSequence DEF s
    <3> QED
      BY <3>1, <3>2, <3>3, <3>4 DEF Reaches, s
  <2> QED
    BY <2>1, <2>2
<1>4. row = [q \in Process |-> row[q]]
  OBVIOUS
<1> HIDE DEF row
<1>5. GoodChannel([ch EXCEPT ![p] = row], M)
  BY <1>3, <1>4, OneWay
<1> QED
  BY <1>1, <1>5
-----------------------------------------------------------------------------
(* The steps of delivery                                                   *)

LEMMA MoreMade ==
  ASSUME NEW M, NEW L, M \subseteq L
  PROVE  /\ \A out : GoodOutgoing(out, M) => GoodOutgoing(out, L)
         /\ \A queues : GoodTasks(queues, M) => GoodTasks(queues, L)
         /\ \A ch : GoodChannel(ch, M) => GoodChannel(ch, L)
         /\ \A runs : GoodRuns(runs, M) => GoodRuns(runs, L)
<1>1. /\ \A m : Mail(m, M) => Mail(m, L)
      /\ \A m, p : Task(m, M, p) => Task(m, L, p)
      /\ \A x : Shown(x, M) => Shown(x, L)
  BY MoreCalls
<1>2. \A out : GoodOutgoing(out, M) => GoodOutgoing(out, L)
  BY <1>1 DEF GoodOutgoing
<1>3. \A queues : GoodTasks(queues, M) => GoodTasks(queues, L)
  BY <1>1 DEF GoodTasks
<1>4. \A ch : GoodChannel(ch, M) => GoodChannel(ch, L)
  BY <1>1 DEF GoodChannel
<1>5. \A runs : GoodRuns(runs, M) => GoodRuns(runs, L)
  BY <1>1 DEF GoodRuns
<1> QED
  BY <1>2, <1>3, <1>4, <1>5

LEMMA SendDataGood ==
  ASSUME NEW L, GoodOutgoing(outgoing, L), GoodTasks(tasks, L), NEW p \in Process,
         NEW dest, NEW m, SendData(p, dest, m), Task(m, L, p),
         dest # p => Mail(m, L) /\ Leaves(m, p)
  PROVE  GoodOutgoing(outgoing', L) /\ GoodTasks(tasks', L)
<1> DEFINE B == SetToBag({m})
<1>1. IsABag(B) /\ BagToSet(B) = {m}
  BY SetIsBag
<1> HIDE DEF B
<1>2. CASE dest = p
  <2>1. tasks' = [tasks EXCEPT ![p] = @ (+) B] /\ outgoing' = outgoing
    BY <1>2 DEF SendData, B
  <2>2. GoodTasks([tasks EXCEPT ![p] = @ (+) B], L)
    BY <1>1, MoreTasks
  <2> QED
    BY <2>1, <2>2
<1>3. CASE dest # p
  <2>1. outgoing' = [outgoing EXCEPT ![p] = @ (+) B] /\ tasks' = tasks
    BY <1>3 DEF SendData, B
  <2>2. GoodOutgoing([outgoing EXCEPT ![p] = @ (+) B], L)
    BY <1>1, <1>3, MoreOutgoing
  <2> QED
    BY <2>1, <2>2
<1> QED
  BY <1>2, <1>3

LEMMA SendInvokeGood ==
  ASSUME NEW L, GoodOutgoing(outgoing, L), GoodTasks(tasks, L), NEW call \in L, call \in Call,
         NEW form, NEW block, SendInvoke(call, form, block),
         block = NewBlock(call.arguments, form) \/ block = BlockFor(call.arguments, form),
         \/ form = Form(call.arguments)
         \/ /\ call.kind = "invoke" /\ form = "object"
            /\ Target(call.from, call).process = call.from
  PROVE  GoodOutgoing(outgoing', L) /\ GoodTasks(tasks', L)
<1> DEFINE p == call.from
           to == Target(p, call).process
           m == Message("Invoke", call, Place(p, call.component), to, Target(p, call).index,
                     {}, form, block)
<1>1. p \in Process /\ call.arguments \in Arguments
  BY CallFields
<1>2. /\ IsMessage(m) /\ IsOf(m, call) /\ m.dest = to /\ m.source = p
      /\ m.ids = {} /\ m.form = form /\ m.block = block /\ m.arguments = call.arguments
  BY NewMessage
<1> HIDE DEF m
<1>3. Fitting(m)
  BY <1>1, <1>2, NewMessageFits
<1>4. Task(m, L, p)
  BY <1>2, <1>3 DEF Task, Stays
<1>5. to # p => Mail(m, L) /\ Leaves(m, p)
  BY <1>2, <1>3 DEF Mail, IsOfSome, Leaves
<1>6. CASE There(p, call)
  <2>1. SendData(p, to, m)
    BY <1>6 DEF SendInvoke, m
  <2> HIDE DEF p, to
  <2> QED
    BY <2>1, <1>1, <1>4, <1>5, SendDataGood
<1>7. CASE ~There(p, call)
  BY <1>7 DEF SendInvoke
<1> QED
  BY <1>6, <1>7

LEMMA SendBroadcastGood ==
  ASSUME NEW L, GoodOutgoing(outgoing, L), GoodTasks(tasks, L), NEW call \in L, call \in Call,
         NEW block, SendBroadcast(call, block), ToAll(call),
         \/ block = NewBlock(call.arguments, Form(call.arguments))
         \/ block = BlockFor(call.arguments, Form(call.arguments))
  PROVE  GoodOutgoing(outgoing', L) /\ GoodTasks(tasks', L)
<1> DEFINE p == call.from
           m == Message("Broadcast", call, Place(p, call.component), p, NoIndex, {},
                     Form(call.arguments), block)
<1>1. p \in Process /\ call.arguments \in Arguments /\ None # p
  BY CallFields, NAssumption DEF None, Process
<1>2. /\ IsMessage(m) /\ IsOf(m, call) /\ m.type = "Broadcast"
      /\ m.ids = {} /\ m.form = Form(call.arguments) /\ m.block = block
      /\ m.arguments = call.arguments
  BY NewMessage
<1>3. SendData(p, None, m)
  BY DEF SendBroadcast
<1> HIDE DEF m
<1>4. Fitting(m)
  BY <1>1, <1>2, NewMessageFits
<1>5. Mail(m, L) /\ Leaves(m, p)
  BY <1>2, <1>4 DEF Mail, IsOfSome, Leaves
<1>6. Task(m, L, p)
  BY <1>5, MailIsTask
<1> HIDE DEF p
<1> QED
  BY <1>1, <1>3, <1>5, <1>6, SendDataGood

LEMMA BroadcastToGood ==
  ASSUME NEW L, GoodOutgoing(outgoing, L), GoodTasks(tasks, L), NEW call \in L, call \in Call,
         BroadcastTo(call)
  PROVE  GoodOutgoing(outgoing', L) /\ GoodTasks(tasks', L)
<1> DEFINE p == call.from
           form == Form(call.arguments)
           size == Size(call.arguments, form)
           object == Place(p, call.component)
           For(q) ==
             Message("BroadcastTo", call, object, q, NoIndex, Chosen(p, call, q), form,
                  CreateBroadcastTo(Cardinality(Chosen(p, call, q)), size,
                                    Alignment[call.arguments]))
           Here(e) ==
             Message("Invoke", call, object, p, e, {}, form, BlockFor(call.arguments, form))
           others == {q \in Process \ {p} : Chosen(p, call, q) # {}}
           A == SetToBag({For(q) : q \in others})
           B == SetToBag({Here(e) : e \in Chosen(p, call, p)})
<1>1. p \in Process /\ call.arguments \in Arguments
  BY CallFields
<1>2. ASSUME NEW q PROVE IsFiniteSet(Chosen(p, call, q))
  <2>1. Chosen(p, call, q) \subseteq call.to
    BY DEF Chosen
  <2> QED
    BY <2>1, CallFields, FS_Subset
<1>3. ASSUME NEW q \in others PROVE Mail(For(q), L) /\ Leaves(For(q), p)
  <2> DEFINE m == For(q)
  <2>1. /\ IsMessage(m) /\ IsOf(m, call) /\ m.type = "BroadcastTo" /\ m.dest = q
        /\ m.source = p /\ m.ids = Chosen(p, call, q) /\ m.form = form
        /\ m.block = CreateBroadcastTo(Cardinality(Chosen(p, call, q)), size,
                                       Alignment[call.arguments])
        /\ m.arguments = call.arguments
    BY NewMessage
  <2> HIDE DEF m
  <2>2. Fitting(m)
    BY <1>1, <1>2, <2>1, NewBundleFits
  <2>3. Mail(m, L) /\ Leaves(m, p)
    BY <2>1, <2>2 DEF Mail, IsOfSome, Leaves
  <2> QED
    BY <2>3 DEF m
<1>4. ASSUME NEW e PROVE Task(Here(e), L, p)
  <2> DEFINE m == Here(e)
  <2>1. /\ IsMessage(m) /\ IsOf(m, call) /\ m.ids = {} /\ m.form = form
        /\ m.block = BlockFor(call.arguments, form) /\ m.arguments = call.arguments
    BY NewMessage
  <2> HIDE DEF m
  <2>2. Fitting(m)
    BY <1>1, <2>1, NewMessageFits
  <2>3. Task(m, L, p)
    BY <2>1, <2>2 DEF Task
  <2> QED
    BY <2>3 DEF m
<1>5. IsABag(A) /\ BagToSet(A) = {For(q) : q \in others}
  BY SetIsBag
<1>6. IsABag(B) /\ BagToSet(B) = {Here(e) : e \in Chosen(p, call, p)}
  BY SetIsBag
<1>7. CASE Knows(p, call.component)
  <2>1. /\ outgoing' = [outgoing EXCEPT ![p] = @ (+) A]
        /\ tasks' = [tasks EXCEPT ![p] = @ (+) B]
    BY <1>7 DEF BroadcastTo
  <2>2. \A m \in BagToSet(A) : Mail(m, L) /\ Leaves(m, p)
    BY <1>3, <1>5
  <2>3. \A m \in BagToSet(B) : Task(m, L, p)
    BY <1>4, <1>6
  <2> HIDE DEF A, B, p
  <2>4. GoodOutgoing([outgoing EXCEPT ![p] = @ (+) A], L)
    BY <1>1, <1>5, <2>2, MoreOutgoing
  <2>5. GoodTasks([tasks EXCEPT ![p] = @ (+) B], L)
    BY <1>1, <1>6, <2>3, MoreTasks
  <2> QED
    BY <2>1, <2>4, <2>5
<1>8. CASE ~Knows(p, call.component)
  BY <1>8 DEF BroadcastTo
<1> QED
  BY <1>7, <1>8

LEMMA CarryGood ==
  ASSUME DeliveryInv, NEW call \in Call, Carry(call), made' = made \cup {call}
  PROVE  DeliveryInv'
<1> DEFINE L == made \cup {call}
<1>1. /\ GoodOutgoing(outgoing, L) /\ GoodTasks(tasks, L)
      /\ GoodChannel(channel, L) /\ GoodRuns(ran, L)
  BY MoreMade DEF DeliveryInv
<1>2. call \in L
  OBVIOUS
<1>3. UNCHANGED <<channel, ran>>
  BY DEF Carry
<1> HIDE DEF L
<1>4. GoodOutgoing(outgoing', L) /\ GoodTasks(tasks', L)
  <2>1. CASE Invoke(call)
    <3> DEFINE form == InvokeForm(call.from, call.arguments, Target(call.from, call).process)
    <3>1. SendInvoke(call, form, NewBlock(call.arguments, form)) /\ call.kind = "invoke"
      BY <2>1 DEF Invoke
    <3>2. form = Form(call.arguments) \/ (form = "object" /\ Target(call.from, call).process = call.from)
      BY DEF InvokeForm
    <3> HIDE DEF form
    <3> QED
      BY <1>1, <1>2, <3>1, <3>2, SendInvokeGood
  <2>2. CASE Broadcast(call)
    <3>1. ToAll(call) /\ SendBroadcast(call, NewBlock(call.arguments, Form(call.arguments)))
      BY <2>2 DEF Broadcast, ToAll
    <3> QED
      BY <1>1, <1>2, <3>1, SendBroadcastGood
  <2>3. CASE BroadcastTo(call)
    BY <1>1, <1>2, <2>3, BroadcastToGood
  <2>4. CASE Finish(call)
    <3> DEFINE form == Form(call.arguments)
    <3>1. CASE call.kind = "result" /\ SendInvoke(call, form, BlockFor(call.arguments, form))
      BY <1>1, <1>2, <3>1, SendInvokeGood
    <3>2. CASE call.kind = "result for all" /\ SendBroadcast(call, BlockFor(call.arguments, form))
      <4>1. ToAll(call)
        BY <3>2 DEF ToAll
      <4> QED
        BY <1>1, <1>2, <3>2, <4>1, SendBroadcastGood
    <3> QED
      BY <2>4, <3>1, <3>2 DEF Finish
  <2> QED
    BY <2>1, <2>2, <2>3, <2>4 DEF Carry
<1>5. GoodChannel(channel', L) /\ GoodRuns(ran', L)
  BY <1>1, <1>3
<1>6. made' = L /\ made' \subseteq Call
  BY DEF DeliveryInv, L
<1> QED
  BY <1>4, <1>5, <1>6 DEF DeliveryInv
LEMMA InitiateSendGood ==
  ASSUME DeliveryInv, NEW p \in Process, NEW m, InitiateSend(p, m)
  PROVE  DeliveryInv'
<1>1. UNCHANGED <<made, ran>>
  BY DEF InitiateSend
<1>2. m \in BagToSet(outgoing[p])
  BY DEF InitiateSend, BagIn
<1>3. Mail(m, made) /\ Leaves(m, p) /\ IsMessage(m) /\ made \in SUBSET Call
  BY <1>2 DEF DeliveryInv, GoodOutgoing, Mail
<1>4. GoodOutgoing(outgoing', made)
  <2> DEFINE B == SetToBag({m})
  <2>1. outgoing' = [outgoing EXCEPT ![p] = @ (-) B] /\ IsABag(B)
    BY SetIsBag DEF InitiateSend
  <2> HIDE DEF B
  <2>2. GoodOutgoing([outgoing EXCEPT ![p] = @ (-) B], made)
    BY <2>1, FewerOutgoing DEF DeliveryInv
  <2> QED
    BY <2>1, <2>2
<1>5. GoodTasks(tasks, made) /\ GoodChannel(channel, made)
  BY DEF DeliveryInv
<1>6. GoodTasks(tasks', made) /\ GoodChannel(channel', made)
  <2>1. CASE m.type # "Broadcast"
    <3> DEFINE n == Sent(m)
    <3>1. channel' = [channel EXCEPT ![p][m.dest] = Append(@, n)] /\ tasks' = tasks
      BY <2>1 DEF InitiateSend, Departed
    <3>2. Mail(n, made) /\ n.source = m.source
      BY <1>3, MailMoves, SentFields
    <3>3. Reaches(n, m.dest)
      BY <1>3, <2>1, <3>2 DEF Leaves, Reaches
    <3> HIDE DEF n
    <3>4. GoodChannel([channel EXCEPT ![p][m.dest] = Append(@, n)], made)
      BY <1>5, <3>2, <3>3, MoreOnTheWay
    <3> QED
      BY <1>5, <3>1, <3>4
  <2>2. CASE m.type = "Broadcast" /\ m.dest = p /\ m.source = p /\ p # Root
    <3> DEFINE r == Redirected(m, Root)
               n == Sent(r)
               d == r.dest
    <3>1. channel' = [channel EXCEPT ![p][d] = Append(@, n)] /\ tasks' = tasks
      BY <2>2 DEF InitiateSend, Departed
    <3>2. Mail(r, made) /\ IsMessage(r) /\ r.type = "Broadcast"
      BY <1>3, <2>2, MailMoves, RedirectedFields
    <3> HIDE DEF r
    <3>3. Mail(n, made) /\ Reaches(n, d)
      BY <1>3, <3>2, MailMoves, SentFields DEF Reaches
    <3> HIDE DEF n, d
    <3>4. GoodChannel([channel EXCEPT ![p][d] = Append(@, n)], made)
      BY <1>5, <3>3, MoreOnTheWay
    <3> QED
      BY <1>5, <3>1, <3>4
  <2>3. CASE m.type = "Broadcast" /\ ~(m.dest = p /\ m.source = p /\ p # Root)
    <3> DEFINE ms == <<m>>
               B == SetToBag(LocalTasks(p, m))
    <3>1. channel' = ToChildren(channel, p, ms) /\ tasks' = [tasks EXCEPT ![p] = @ (+) B]
      BY <2>3 DEF InitiateSend
    <3>2. IsSequence(ms) /\ \A n \in ToSet(ms) : Mail(n, made) /\ n.type = "Broadcast"
      <4>1. ms \in Seq({m})
        OBVIOUS
      <4> HIDE DEF ms
      <4> QED
        BY <1>3, <2>3, <4>1, SequenceOf
    <3>3. IsABag(B) /\ \A t \in BagToSet(B) : Task(t, made, p)
      BY <1>3, SetIsBag, LocalTasksAreTasks
    <3> HIDE DEF ms, B
    <3>4. GoodChannel(ToChildren(channel, p, ms), made)
      BY <1>3, <1>5, <3>2, ChildrenGetMail
    <3>5. GoodTasks([tasks EXCEPT ![p] = @ (+) B], made)
      BY <1>5, <3>3, MoreTasks
    <3> QED
      BY <3>1, <3>4, <3>5
  <2> QED
    BY <2>1, <2>2, <2>3
<1>7. GoodRuns(ran', made) /\ made' = made
  BY <1>1 DEF DeliveryInv
<1> QED
  BY <1>3, <1>4, <1>6, <1>7 DEF DeliveryInv

LEMMA HandOnGood ==
  ASSUME DeliveryInv, NEW ch, GoodChannel(ch, made), NEW p \in Process, NEW ms, HandOn(ch, p, ms),
         IsSequence(ms), \A m \in ToSet(ms) : Mail(m, made)
  PROVE  DeliveryInv'
<1> DEFINE B == TasksFrom(p, ms)
           some == Selected(ms, Broadcasts(ms))
<1>1. made \in SUBSET Call
  BY DEF DeliveryInv
<1>2. IsABag(B) /\ \A t \in BagToSet(B) : Task(t, made, p)
  BY <1>1, TasksFromAreTasks
<1>3. IsSequence(some) /\ \A m \in ToSet(some) : Mail(m, made) /\ m.type = "Broadcast"
  BY SelectedIsSequence DEF Broadcasts
<1>4. tasks' = [tasks EXCEPT ![p] = @ (+) B] /\ channel' = ToChildren(ch, p, some)
  BY DEF HandOn, ForwardedFrom
<1>5. UNCHANGED <<made, outgoing, ran>>
  BY DEF HandOn
<1> HIDE DEF B, some
<1>6. GoodTasks([tasks EXCEPT ![p] = @ (+) B], made)
  BY <1>2, MoreTasks DEF DeliveryInv
<1>7. GoodChannel(ToChildren(ch, p, some), made)
  BY <1>1, <1>3, ChildrenGetMail
<1> QED
  BY <1>1, <1>4, <1>5, <1>6, <1>7 DEF DeliveryInv

LEMMA RunGood ==
  ASSUME DeliveryInv, NEW p \in Process, NEW m, Run(p, m)
  PROVE  DeliveryInv'
<1> DEFINE x == [call |-> m.call, process |-> p, index |-> m.index,
                 component |-> distributed_objects[p][m.object].name,
                 seen |-> Seen(m), form |-> m.form, again |-> m.again]
           A == SetToBag({m})
           B == IF m.again THEN SetToBag({AfterRun(m)}) ELSE EmptyBag
           X == SetToBag({x})
<1>1. /\ ran' = ran (+) X /\ tasks' = [tasks EXCEPT ![p] = (@ (-) A) (+) B]
      /\ UNCHANGED <<made, outgoing, channel>>
  BY DEF Run
<1>2. Task(m, made, p)
  BY DEF Run, BagIn, DeliveryInv, GoodTasks
<1>3. PICK call \in made : IsOf(m, call) /\ (m.form = Form(m.arguments) \/ Stays(m, call, p))
  BY <1>2 DEF Task
<1>4. Shown(x, made)
  <2>1. x.call = m.call /\ x.process = p /\ x.again = m.again /\ x.seen = Seen(m)
    OBVIOUS
  <2> HIDE DEF x
  <2>2. CASE m.form \in {"object", "packed"}
    BY <1>3, <2>1, <2>2 DEF Shown, HasSeen, IsOf, Seen
  <2>3. CASE m.form \notin {"object", "packed"}
    BY <1>3, <2>1, <2>3 DEF Shown, HasSeen, IsOf, Stays, Form
  <2> QED
    BY <2>2, <2>3
<1>5. GoodRuns(ran (+) X, made)
  <2>1. IsABag(X) /\ BagToSet(X) = {x}
    BY SetIsBag
  <2> HIDE DEF X, x
  <2>2. IsABag(ran (+) X) /\ BagToSet(ran (+) X) = BagToSet(ran) \cup {x}
    BY <2>1, UnionIsBag DEF DeliveryInv, GoodRuns
  <2> QED
    BY <1>4, <2>2 DEF DeliveryInv, GoodRuns
<1>6. m.again => Task(AfterRun(m), made, p)
  <2> DEFINE n == AfterRun(m)
  <2>1. IsMessage(m) /\ Fitting(m)
    BY <1>2 DEF Task
  <2>2. /\ IsMessage(n) /\ n.block = m.block
        /\ n.form = IF m.form = "object" /\ m.arguments \notin Plain THEN "moved" ELSE m.form
        /\ n.type = m.type /\ n.call = m.call /\ n.arguments = m.arguments /\ n.ids = m.ids
        /\ n.source = m.source /\ n.again = FALSE
    BY <2>1, AfterRunFields
  <2> HIDE DEF n
  <2>3. Fitting(n)
    BY <2>1, <2>2, StillFits
  <2>4. IsOf(n, call)
    BY <1>3, <2>2 DEF IsOf
  <2>5. m.again => (n.form = Form(n.arguments) \/ Stays(n, call, p))
    BY <1>3, <2>2 DEF Stays, Form, IsOf
  <2> QED
    BY <2>2, <2>3, <2>4, <2>5 DEF Task, n
<1>7. IsABag(A) /\ IsABag(B) /\ \A n \in BagToSet(B) : Task(n, made, p)
  BY <1>6, SetIsBag, EmptyIsBag
<1> HIDE DEF A, B, X, x
<1>8. GoodTasks([tasks EXCEPT ![p] = (@ (-) A) (+) B], made)
  BY <1>7, TaskRequeued DEF DeliveryInv
<1> QED
  BY <1>1, <1>5, <1>8 DEF DeliveryInv

-----------------------------------------------------------------------------
(* Callbacks                                                               *)

(* What is put for a call is what is there afterwards.                     *)
LEMMA PutGood ==
  ASSUME CallbackInv, NEW call \in ThroughCallback, NEW callback \in CallbackState,
         ~callback.invoked => callback.arguments = call.arguments, Put(call, callback)
  PROVE  CallbackInv'
<1>1. /\ DOMAIN callbacks' = DOMAIN callbacks \cup {call}
      /\ callbacks'[call] = callback
      /\ \A other \in DOMAIN callbacks \ {call} : callbacks'[other] = callbacks[other]
  BY DEF Put, Callbacks
<1> QED
  BY <1>1 DEF CallbackInv, Callbacks

LEMMA CallbackGood ==
  ASSUME CallbackInv, DeliveryInv, NEW call \in ThroughCallback,
         \/ MakeCallback(call) \/ MakeBroadcastTo(call)
         \/ UpdateArguments(call)
         \/ \E clone \in ThroughCallback : GetClone(call, clone)
         \/ InvokeCallback(call) \/ InvokeBroadcastTo(call)
  PROVE  CallbackInv' /\ DeliveryInv'
<1>1. call \in Call /\ call.arguments \in Arguments
  BY CallbackAssumption, CallFields
<1>2. ASSUME NEW one \in ThroughCallback, NEW callback \in CallbackState,
             ~callback.invoked => callback.arguments = one.arguments,
             Keep(one, callback)
      PROVE  CallbackInv' /\ DeliveryInv'
  <2>1. CallbackInv'
    BY <1>2, PutGood DEF Keep
  <2>2. UNCHANGED deliveryVars
    BY <1>2 DEF Keep
  <2> QED
    BY <2>1, <2>2 DEF deliveryVars, DeliveryInv
<1>3. CASE MakeCallback(call) \/ MakeBroadcastTo(call)
  BY <1>1, <1>2, <1>3 DEF MakeCallback, MakeBroadcastTo, CallbackState
<1>4. CASE UpdateArguments(call)
  BY <1>1, <1>2, <1>4 DEF UpdateArguments, CallbackInv, CallbackState
<1>5. ASSUME NEW clone \in ThroughCallback, GetClone(call, clone)
      PROVE  CallbackInv' /\ DeliveryInv'
  <2>1. clone.arguments = call.arguments
    <3>1. call = [name |-> call.name, kind |-> call.kind, from |-> call.from,
                  component |-> call.component, to |-> call.to,
                  arguments |-> call.arguments, requeue |-> call.requeue]
      BY <1>1, CallFields
    <3> QED
      BY <1>5, <3>1 DEF GetClone
  <2> QED
    BY <1>2, <1>5, <2>1 DEF GetClone, CallbackInv
<1>6. ASSUME NEW left \in Arguments, Fire(call, left)
      PROVE  CallbackInv' /\ DeliveryInv'
  <2>1. CallbackInv'
    BY <1>6, PutGood DEF Fire, CallbackState
  <2>2. [call EXCEPT !.arguments = callbacks[call].arguments] = call
    <3>1. callbacks[call].arguments = call.arguments
      BY <1>6 DEF Fire, CallbackInv
    <3>2. call = [name |-> call.name, kind |-> call.kind, from |-> call.from,
                  component |-> call.component, to |-> call.to,
                  arguments |-> call.arguments, requeue |-> call.requeue]
      BY <1>1, CallFields
    <3> QED
      BY <3>1, <3>2
  <2>3. Carry(call) /\ made' = made \cup {call}
    BY <1>6, <2>2 DEF Fire
  <2> QED
    BY <1>1, <2>1, <2>3, CarryGood
<1>7. call \in Callbacks => callbacks[call].arguments \in Arguments
  BY DEF CallbackInv, CallbackState
<1>8. CASE InvokeCallback(call)
  <2>1. Left(call, callbacks[call].arguments) \in Arguments
    BY <1>7, <1>8, CallbackAssumption DEF Left, InvokeCallback, Fire
  <2> QED
    BY <1>6, <1>8, <2>1 DEF InvokeCallback
<1>9. CASE InvokeBroadcastTo(call)
  BY <1>6, <1>7, <1>9 DEF InvokeBroadcastTo, Fire
<1> QED
  BY <1>3, <1>4, <1>5, <1>8, <1>9
-----------------------------------------------------------------------------
(* Receiving                                                               *)

(* What reaches Self goes by one of the names that messages to it have.    *)
LEMMA ReachingIsNamed ==
  ASSUME NEW M \in SUBSET Call, NEW m, Mail(m, M), Reaches(m, Self)
  PROVE  m.call \in Names
<1>1. PICK call \in M : IsOf(m, call)
  BY DEF Mail, IsOfSome
<1>2. Hop(call) # Self
  <2>1. CASE ToAll(call)
    <3>1. Self \in Nat /\ Parent(Self) # Self
      BY NAssumption, ReceivingAssumption DEF In!ParametersFit, Parent, None, Root
    <3> QED
      BY <2>1, <3>1 DEF Hop
  <2>2. CASE ~ToAll(call)
    BY <1>1, <2>2 DEF Hop, IsOf, Reaches
  <2> QED
    BY <2>1, <2>2
<1> QED
  BY <1>1, <1>2 DEF ToSelf, Names, IsOf

LEMMA MoreMadeReceived ==
  ASSUME ReceivingInv, UNCHANGED receivingVars, made \subseteq made'
  PROVE  ReceivingInv'
<1>1. \A m : Mail(m, made) => Mail(m, made')
  BY MoreCalls
<1> QED
  BY <1>1 DEF ReceivingInv, receivingVars

LEMMA TakingInGood ==
  ASSUME DeliveryInv, NEW p \in Process, TakingIn(p)
  PROVE  DeliveryInv'
<1>1. PICK q \in Process :
        /\ channel[q][p] # <<>>
        /\ HandOn([channel EXCEPT ![q][p] = Tail(@)], p, <<Got(Head(channel[q][p]))>>)
  BY DEF TakingIn
<1> DEFINE ch == [channel EXCEPT ![q][p] = Tail(@)]
           m == Got(Head(channel[q][p]))
           ms == <<m>>
<1>2. GoodChannel(ch, made) /\ Mail(Head(channel[q][p]), made) /\ made \in SUBSET Call
  BY <1>1, LessOnTheWay DEF DeliveryInv
<1>3. Mail(m, made)
  BY <1>2, MailMoves
<1>4. HandOn(ch, p, ms)
  BY <1>1
<1> HIDE DEF ch, m
<1>5. IsSequence(ms) /\ \A n \in ToSet(ms) : Mail(n, made)
  <2>1. ms \in Seq({m})
    OBVIOUS
  <2> HIDE DEF ms
  <2> QED
    BY <1>3, <2>1, SequenceOf
<1> HIDE DEF ms
<1> QED
  BY <1>2, <1>4, <1>5, HandOnGood

LEMMA SelfIsAProcess == Self \in Process
  BY ReceivingAssumption DEF In!ParametersFit, Process

LEMMA AskedIsAProcess ==
  ASSUME ReceivingInv
  PROVE  In!Asked \in Process
BY NAssumption DEF ReceivingInv, In!Asked, Process

(* initiate_receives starts to receive a message from another process.     *)
LEMMA StartingGood ==
  ASSUME DeliveryInv, ReceivingInv, Starting
  PROVE  DeliveryInv' /\ ReceivingInv'
<1> DEFINE p == In!Asked
           h == Head(channel[p][Self])
           m == Got(h)
           n == h.call
<1>1. p \in Process /\ Self \in Process /\ channel[p][Self] # <<>>
  BY AskedIsAProcess, SelfIsAProcess DEF Starting
<1>2. /\ GoodChannel([channel EXCEPT ![p][Self] = Tail(@)], made)
      /\ Mail(h, made) /\ Reaches(h, Self) /\ made \in SUBSET Call
  BY <1>1, LessOnTheWay DEF DeliveryInv
<1>3. Mail(m, made) /\ m.call = n
  BY <1>2, MailMoves, GotFields DEF Mail
<1>4. n \in Names
  BY <1>2, ReachingIsNamed
<1>5. DeliveryInv'
  <2>1. channel' = [channel EXCEPT ![p][Self] = Tail(@)] /\ UNCHANGED <<made, outgoing, tasks, ran>>
    BY DEF Starting
  <2> QED
    BY <1>2, <2>1 DEF DeliveryInv
<1>6. arrived' = arrived \cup {m} /\ UNCHANGED made
  BY DEF Starting
<1>7. Head([i \in DOMAIN channel[p][Self] |-> channel[p][Self][i].call]) = n
  <2> DEFINE s == channel[p][Self]
             t == [i \in DOMAIN s |-> s[i].call]
  <2>1. IsSequence(s) /\ s # <<>>
    BY <1>1 DEF DeliveryInv, GoodChannel
  <2>2. Len(s) \in Nat \ {0} /\ DOMAIN s = 1 .. Len(s) /\ Head(s) = s[1]
    BY <2>1 DEF IsSequence
  <2>3. IsSequence(t)
    <3>1. DOMAIN t = DOMAIN s /\ t = [i \in DOMAIN s |-> t[i]]
      OBVIOUS
    <3> HIDE DEF t
    <3> QED
      BY <2>1, <3>1, LikeASequence
  <2>4. t[1] = n /\ t # <<>> /\ DOMAIN t = 1 .. Len(s)
    BY <2>2
  <2> HIDE DEF t, s
  <2>5. Head(t) = t[1]
    BY <2>2, <2>3, <2>4 DEF IsSequence
  <2> QED
    BY <2>4, <2>5 DEF t, s
<1>8. /\ incoming' = Append(incoming, [request |-> n, buffer |-> n])
      /\ complete' = (IF n \in Rendezvous THEN complete ELSE complete \cup {n})
      /\ node' = p + 1 /\ UNCHANGED <<handed, receiving>>
  BY <1>1, <1>7 DEF Starting, In!Receive
<1>9. ReceivingInv'
  <2>1. node' \in 0 .. N
    BY <1>1, <1>8, NAssumption DEF Process
  <2>2. incoming' \in Seq(WholeEntry)
    BY <1>4, <1>8 DEF ReceivingInv, WholeEntry
  <2>3. complete' \subseteq Names
    BY <1>4, <1>8 DEF ReceivingInv
  <2>4. \A i \in DOMAIN incoming' : \E a \in arrived' : a.call = incoming'[i].request
    <3> TAKE i \in DOMAIN incoming'
    <3>1. i \in DOMAIN incoming \/ incoming'[i] = [request |-> n, buffer |-> n]
      BY <1>4, <1>8 DEF ReceivingInv, WholeEntry
    <3>2. i \in DOMAIN incoming => incoming'[i] = incoming[i]
      BY <1>4, <1>8 DEF ReceivingInv, WholeEntry
    <3> QED
      BY <1>3, <1>6, <3>1, <3>2 DEF ReceivingInv
  <2>5. \A a \in arrived' : Mail(a, made')
    BY <1>3, <1>6 DEF ReceivingInv
  <2> QED
    BY <1>8, <2>1, <2>2, <2>3, <2>4, <2>5 DEF ReceivingInv, WholeEntry
<1> QED
  BY <1>5, <1>9

LEMMA OtherReceiving ==
  ASSUME ReceivingInv, UNCHANGED <<made, arrived>>,
         In!Skip \/ In!ReceivesDone \/ \E n \in Rendezvous : In!Complete(n)
  PROVE  ReceivingInv'
<1>1. incoming' = incoming /\ handed' = handed
  BY DEF In!Skip, In!ReceivesDone, In!Complete
<1>2. node' \in 0 .. N
  <2>1. In!Asked + 1 \in 0 .. N
    BY AskedIsAProcess, NAssumption DEF Process
  <2> QED
    BY <2>1 DEF In!Skip, In!ReceivesDone, In!Complete, ReceivingInv
<1>3. complete' \subseteq Names
  <2>1. Rendezvous \subseteq Names
    BY ReceivingAssumption DEF In!ParametersFit
  <2> QED
    BY <2>1 DEF In!Skip, In!ReceivesDone, In!Complete, ReceivingInv
<1>4. receiving' \in {"receive", "clean", "crashed"}
  BY DEF In!Skip, In!ReceivesDone, In!Complete, ReceivingInv
<1> QED
  BY <1>1, <1>2, <1>3, <1>4 DEF ReceivingInv

(* What remove_if has left behind.                                         *)
LEMMA UpToIsSequence ==
  ASSUME NEW k \in Int, NEW t, t = [i \in 1 .. k |-> t[i]]
  PROVE  IsSequence(t)
<1>1. CASE k >= 0
  <2>1. t \in [1 .. k -> ToSet(t)] /\ k \in Nat
    BY <1>1 DEF ToSet
  <2>2. [1 .. k -> ToSet(t)] \subseteq Seq(ToSet(t))
    BY <2>1, SeqDef
  <2> QED
    BY <2>1, <2>2 DEF IsSequence
<1>2. CASE k < 0
  <2>1. 1 .. k = {}
    BY <1>2
  <2>2. t = <<>>
    BY <2>1
  <2> QED
    BY <2>2, EmptyIsSequence
<1> QED
  BY <1>1, <1>2

LEMMA KeptAreEntries ==
  ASSUME ReceivingInv
  PROVE  /\ In!Kept \in Seq(WholeEntry) /\ ToSet(In!Kept) \subseteq ToSet(incoming)
         /\ Len(In!Kept) \in Nat
<1>1. IsSequence(incoming) /\ ToSet(incoming) \subseteq WholeEntry
  BY SequenceOf DEF ReceivingInv
<1>2. IsSequence(In!Kept) /\ ToSet(In!Kept) \subseteq ToSet(incoming)
  <2>1. In!Kept = Selected(incoming, In!Pending)
    BY DEF In!Kept, In!Selected, Selected
  <2> QED
    BY <1>1, <2>1, SelectedIsSequence
<1>3. In!Kept \in Seq(WholeEntry)
  BY <1>1, <1>2, SeqMonotonic DEF IsSequence
<1> QED
  BY <1>2, <1>3

LEMMA RemovedBuffers ==
  ASSUME ReceivingInv
  PROVE  /\ DOMAIN In!Removed = 1 .. Len(incoming) - Len(In!Kept)
         /\ Len(incoming) - Len(In!Kept) \in Int
         /\ \A i \in DOMAIN In!Removed : In!Removed[i].buffer \in Names =>
              \E m \in arrived : m.call = In!Removed[i].buffer
<1>1. Len(In!Kept) \in Nat /\ Len(incoming) \in Nat /\ DOMAIN incoming = 1 .. Len(incoming)
  BY KeptAreEntries DEF ReceivingInv
<1> DEFINE k == Len(In!Kept)
           Rest(e) == IF In!Done(e) THEN e ELSE [e EXCEPT !.buffer = NoMessage]
<1>2. In!Removed = [i \in 1 .. Len(incoming) - k |-> Rest(incoming[k + i])]
  BY DEF In!Removed
<1>3. NoMessage \notin Names
  BY ReceivingAssumption DEF In!ParametersFit
<1>4. ASSUME NEW i \in 1 .. Len(incoming) - k, In!Removed[i].buffer \in Names
      PROVE  \E m \in arrived : m.call = In!Removed[i].buffer
  <2>1. k + i \in DOMAIN incoming
    BY <1>1
  <2>2. PICK n \in Names : incoming[k + i] = [request |-> n, buffer |-> n]
    BY <2>1 DEF ReceivingInv, WholeEntry
  <2>3. In!Removed[i] = Rest([request |-> n, buffer |-> n])
    BY <1>2, <2>2
  <2>4. In!Removed[i].buffer = n
    BY <1>3, <1>4, <2>3
  <2>5. \E m \in arrived : m.call = incoming[k + i].request
    BY <2>1 DEF ReceivingInv
  <2> QED
    BY <2>2, <2>4, <2>5
<1> QED
  BY <1>1, <1>2, <1>4

LEMMA SameCardinality == \A S : In!Cardinality(S) = Cardinality(S)
  BY DEF In!Cardinality, Cardinality, In!ExistsBijection, ExistsBijection,
         In!Bijection, Bijection, In!Injection, Injection, In!Surjection, Surjection

(* clean_incoming_mpi_messages                                             *)
LEMMA CleaningGood ==
  ASSUME DeliveryInv, ReceivingInv, Cleaning
  PROVE  DeliveryInv' /\ ReceivingInv'
<1> DEFINE names == [i \in DOMAIN In!Removed |-> In!Removed[i].buffer]
           there == Selected(names, Names)
           MessageOf(n) == CHOOSE m \in arrived : m.call = n
           ms == [i \in DOMAIN there |-> MessageOf(there[i])]
<1>1. /\ HandOn(channel, Self, ms) /\ In!Clean
      /\ arrived' = {m \in arrived : \E i \in DOMAIN incoming' : incoming'[i].request = m.call}
  BY DEF Cleaning
<1>2. IsSequence(names)
  <2>1. names = [i \in 1 .. Len(incoming) - Len(In!Kept) |-> names[i]]
    BY RemovedBuffers
  <2> HIDE DEF names
  <2> QED
    BY <2>1, RemovedBuffers, UpToIsSequence
<1>3. IsSequence(there) /\ ToSet(there) \subseteq ToSet(names) \cap Names
  <2> HIDE DEF names
  <2> QED
    BY <1>2, SelectedIsSequence
<1>4. ASSUME NEW n \in ToSet(there)
      PROVE  MessageOf(n) \in arrived
  <2>1. n \in ToSet(names) /\ n \in Names
    BY <1>3
  <2>2. PICK i \in DOMAIN In!Removed : n = In!Removed[i].buffer
    BY <2>1 DEF ToSet
  <2>3. \E m \in arrived : m.call = n
    BY <2>1, <2>2, RemovedBuffers
  <2> QED
    BY <2>3
<1>5. IsSequence(ms) /\ \A m \in ToSet(ms) : Mail(m, made)
  <2>1. IsSequence(ms)
    <3>1. DOMAIN ms = DOMAIN there /\ ms = [i \in DOMAIN there |-> ms[i]]
      OBVIOUS
    <3> HIDE DEF ms, there
    <3> QED
      BY <1>3, <3>1, LikeASequence
  <2>2. ASSUME NEW m \in ToSet(ms) PROVE m \in arrived
    <3> HIDE DEF there
    <3>1. PICK i \in DOMAIN there : m = MessageOf(there[i])
      BY DEF ToSet
    <3>2. there[i] \in ToSet(there)
      BY DEF ToSet
    <3> QED
      BY <1>4, <3>1, <3>2
  <2> QED
    BY <2>1, <2>2 DEF ReceivingInv
<1>6. DeliveryInv'
  <2>1. GoodChannel(channel, made)
    BY DEF DeliveryInv
  <2> HIDE DEF ms
  <2> QED
    BY <1>1, <1>5, <2>1, SelfIsAProcess, HandOnGood
<1>7. ReceivingInv'
  <2>1. incoming' = In!Kept /\ UNCHANGED <<node, complete, made>>
    BY <1>1 DEF In!Clean, HandOn
  <2>2. receiving' \in {"receive", "clean", "crashed"}
    BY <1>1 DEF In!Clean
  <2>3. handed' \in [Names -> Nat]
    <3>1. ASSUME NEW n \in Names
          PROVE  Cardinality({i \in DOMAIN In!Removed : In!Removed[i].buffer = n}) \in Nat
      <4>1. IsFiniteSet(DOMAIN In!Removed)
        <5>1. IsFiniteSet(1 .. Len(incoming) - Len(In!Kept))
          BY RemovedBuffers, FS_Interval
        <5> QED
          BY <5>1, RemovedBuffers
      <4>2. IsFiniteSet({i \in DOMAIN In!Removed : In!Removed[i].buffer = n})
        BY <4>1, FS_Subset
      <4> QED
        BY <4>2, FS_CardinalityType
    <3>2. handed' = [n \in Names |-> handed[n] +
                      Cardinality({i \in DOMAIN In!Removed : In!Removed[i].buffer = n})]
      BY <1>1, SameCardinality DEF In!Clean
    <3> QED
      BY <3>1, <3>2 DEF ReceivingInv
  <2>4. ASSUME NEW i \in DOMAIN incoming'
        PROVE  \E m \in arrived' : m.call = incoming'[i].request
    <3>1. incoming'[i] \in ToSet(incoming)
      BY <2>1, KeptAreEntries DEF ToSet
    <3>2. PICK m \in arrived : m.call = incoming'[i].request
      BY <3>1 DEF ReceivingInv, ToSet
    <3> QED
      BY <1>1, <3>2
  <2>5. \A m \in arrived' : Mail(m, made')
    BY <1>1, <2>1 DEF ReceivingInv
  <2> QED
    BY <2>1, <2>2, <2>3, <2>4, <2>5, KeptAreEntries DEF ReceivingInv
<1> QED
  BY <1>6, <1>7
-----------------------------------------------------------------------------
(* The whole program                                                       *)

LEMMA InitProgramInv == Init => ProgramInv
<1> SUFFICES ASSUME Init PROVE ProgramInv
  OBVIOUS
<1>1. IInv
  BY InitIInv DEF Init
<1>2. GoodOutgoing(outgoing, made) /\ GoodTasks(tasks, made) /\ GoodRuns(ran, made)
  <2>1. /\ outgoing = [p \in Process |-> EmptyBag] /\ tasks = [p \in Process |-> EmptyBag]
        /\ ran = EmptyBag
    BY DEF Init, DeliveryInit
  <2> QED
    BY <2>1, EmptyIsBag DEF GoodOutgoing, GoodTasks, GoodRuns
<1>3. GoodChannel(channel, made)
  BY EmptyIsSequence DEF Init, DeliveryInit, GoodChannel
<1>4. DeliveryInv
  BY <1>2, <1>3 DEF Init, DeliveryInit, DeliveryInv
<1>5. CallbackInv
  BY DEF Init, CallbackInit, CallbackInv, Callbacks
<1>6. ReceivingInv
  BY NAssumption DEF Init, ReceivingInv
<1> QED
  BY <1>1, <1>4, <1>5, <1>6 DEF ProgramInv

(* What the processes compare does not change any more.                    *)
LEMMA InsertedStays ==
  ASSUME IInv, UNCHANGED <<distributed_objects, in_insert_mode, todo, pc, wire>>,
         object_index' \in [Process -> Seq(Component)]
  PROVE  IInv'
<1>1. InsertTypeOK'
  BY DEF IInv, InsertTypeOK, RegistryTypeOK
<1>2. \A p \in Process : Matching(p, distributed_objects'[p])
  BY DEF IInv
<1>3. (\A p \in Process : Matching(p, distributed_objects[p]))'
  BY <1>2 DEF Matching, Matches, At
<1>4. StillInserting'
  BY DEF IInv, StillInserting
<1> QED
  BY <1>1, <1>3, <1>4 DEF IInv

LEMMA CarryStays ==
  ASSUME IInv, NEW call \in Call, Carry(call), UNCHANGED <<todo, pc, wire>>
  PROVE  IInv'
<1>1. call.from \in Process /\ call.component \in Component
  BY CallFields
<1>2. object_index \in [Process -> Seq(Component)]
  BY DEF IInv, InsertTypeOK, RegistryTypeOK
<1>3. Asked(call.from, call.component) \in Seq(Component)
  BY <1>1, PlaceIsANumber DEF IInv, InsertTypeOK
<1>4. object_index' \in [Process -> Seq(Component)]
  BY <1>1, <1>2, <1>3 DEF Carry, Ask
<1> QED
  BY <1>4, InsertedStays DEF Carry

LEMMA UnchangedStays ==
  ASSUME IInv, UNCHANGED insertVars
  PROVE  IInv'
BY InsertedStays DEF insertVars, IInv, InsertTypeOK, RegistryTypeOK

LEMMA CallingBackStays ==
  ASSUME ProgramInv, NEW p \in Process, CallingBack(p)
  PROVE  IInv' /\ CallbackInv' /\ DeliveryInv' /\ made \subseteq made'
<1>1. PICK call \in ThroughCallback :
        \/ MakeCallback(call) \/ MakeBroadcastTo(call)
        \/ UpdateArguments(call)
        \/ \E clone \in ThroughCallback : GetClone(call, clone)
        \/ InvokeCallback(call) \/ InvokeBroadcastTo(call)
  BY DEF CallingBack
<1>2. UNCHANGED <<todo, pc, wire>>
  BY DEF CallingBack
<1>3. CallbackInv' /\ DeliveryInv'
  BY <1>1, CallbackGood DEF ProgramInv
<1>4. ASSUME NEW c, NEW callback, Keep(c, callback)
      PROVE  IInv' /\ made \subseteq made'
  BY <1>2, <1>4, InsertedStays
     DEF Keep, registryVars, deliveryVars, ProgramInv, IInv, InsertTypeOK, RegistryTypeOK
<1>5. ASSUME NEW left, Fire(call, left)
      PROVE  IInv' /\ made \subseteq made'
  <2>1. call \in Call /\ callbacks[call].arguments = call.arguments
    BY <1>5, CallbackAssumption DEF Fire, ProgramInv, CallbackInv
  <2>2. [call EXCEPT !.arguments = callbacks[call].arguments] = call
    <3>1. call = [name |-> call.name, kind |-> call.kind, from |-> call.from,
                  component |-> call.component, to |-> call.to,
                  arguments |-> call.arguments, requeue |-> call.requeue]
      BY <2>1, CallFields
    <3> QED
      BY <2>1, <3>1
  <2>3. Carry(call) /\ made \subseteq made'
    BY <1>5, <2>2 DEF Fire
  <2> QED
    BY <1>2, <2>1, <2>3, CarryStays DEF ProgramInv
<1>6. IInv' /\ made \subseteq made'
  BY <1>1, <1>4, <1>5
     DEF MakeCallback, MakeBroadcastTo, UpdateArguments, GetClone, InvokeCallback, InvokeBroadcastTo
<1> QED
  BY <1>3, <1>6

LEMMA NextProgramInv == ProgramInv /\ [Next]_programVars => ProgramInv'
<1> SUFFICES ASSUME ProgramInv, [Next]_programVars PROVE ProgramInv'
  OBVIOUS
<1>1. CASE Inserting
  <2>1. IInv'
    BY <1>1, NextIInv DEF Inserting, ProgramInv
  <2>2. UNCHANGED callVars /\ UNCHANGED receivingVars
    BY <1>1 DEF Inserting
  <2> QED
    BY <2>1, <2>2 DEF ProgramInv, callVars, deliveryVars, receivingVars, DeliveryInv, CallbackInv,
       Callbacks, ReceivingInv
<1>2. ASSUME NEW p \in Process, Calling(p)
      PROVE  ProgramInv'
  <2>1. PICK call \in Call : Make(call)
    BY <1>2 DEF Calling
  <2>2. Carry(call) /\ made' = made \cup {call}
    BY <2>1 DEF Make
  <2>3. UNCHANGED <<todo, pc, wire, callbacks, receivingVars>>
    BY <1>2 DEF Calling
  <2>4. IInv' /\ DeliveryInv'
    BY <2>2, <2>3, CarryStays, CarryGood DEF ProgramInv
  <2>5. ReceivingInv'
    BY <2>2, <2>3, MoreMadeReceived DEF ProgramInv
  <2> QED
    BY <2>3, <2>4, <2>5 DEF ProgramInv, CallbackInv, Callbacks
<1>3. ASSUME NEW p \in Process, CallingBack(p)
      PROVE  ProgramInv'
  <2>1. UNCHANGED receivingVars
    BY <1>3 DEF CallingBack
  <2> QED
    BY <1>3, <2>1, CallingBackStays, MoreMadeReceived DEF ProgramInv
<1>4. ASSUME DeliveryInv', UNCHANGED made, UNCHANGED <<insertVars, callbacks, receivingVars>>
      PROVE  ProgramInv'
  BY <1>4, UnchangedStays, MoreMadeReceived DEF ProgramInv, CallbackInv, Callbacks
<1>5. ASSUME NEW p \in Process, Sending(p)
      PROVE  ProgramInv'
  <2>1. PICK m : InitiateSend(p, m)
    BY <1>5 DEF Sending
  <2>2. DeliveryInv' /\ UNCHANGED made
    BY <2>1, InitiateSendGood DEF ProgramInv, InitiateSend
  <2> QED
    BY <1>4, <1>5, <2>2 DEF Sending
<1>6. ASSUME NEW p \in Process, Working(p)
      PROVE  ProgramInv'
  <2>1. PICK m : Run(p, m)
    BY <1>6 DEF Working
  <2>2. DeliveryInv' /\ UNCHANGED made
    BY <2>1, RunGood DEF ProgramInv, Run
  <2> QED
    BY <1>4, <1>6, <2>2 DEF Working
<1>7. ASSUME NEW p \in Process, TakingIn(p)
      PROVE  ProgramInv'
  <2>1. DeliveryInv' /\ UNCHANGED made
    BY <1>7, TakingInGood DEF ProgramInv, TakingIn, HandOn
  <2> QED
    BY <1>4, <1>7, <2>1 DEF TakingIn
<1>8. ASSUME DeliveryInv', ReceivingInv', UNCHANGED <<insertVars, callbacks>>
      PROVE  ProgramInv'
  BY <1>8, UnchangedStays DEF ProgramInv, CallbackInv, Callbacks
<1>9. CASE Driving
  <2>1. UNCHANGED insertVars
    BY <1>9 DEF Driving
  <2>2. CASE Starting
    <3>1. UNCHANGED callbacks
      BY <2>2 DEF Starting
    <3> QED
      BY <1>8, <2>1, <2>2, <3>1, StartingGood DEF ProgramInv
  <2>3. CASE PassingBy
    <3>1. UNCHANGED <<made, outgoing, channel, tasks, ran, callbacks, arrived>>
          /\ (In!Skip \/ In!ReceivesDone)
      BY <2>3 DEF PassingBy, callVars, deliveryVars
    <3>2. DeliveryInv' /\ ReceivingInv'
      BY <3>1, OtherReceiving DEF ProgramInv, DeliveryInv
    <3> QED
      BY <1>8, <2>1, <3>1, <3>2
  <2>4. CASE Cleaning /\ UNCHANGED callbacks
    BY <1>8, <2>1, <2>4, CleaningGood DEF ProgramInv
  <2> QED
    BY <1>9, <2>2, <2>3, <2>4 DEF Driving
<1>10. CASE Arriving /\ UNCHANGED insertVars
  <2>1. UNCHANGED <<made, outgoing, channel, tasks, ran, callbacks, arrived>>
        /\ (\E n \in Rendezvous : In!Complete(n))
    BY <1>10 DEF Arriving, callVars, deliveryVars
  <2>2. DeliveryInv' /\ ReceivingInv'
    BY <2>1, OtherReceiving DEF ProgramInv, DeliveryInv
  <2> QED
    BY <1>8, <1>10, <2>1, <2>2
<1>11. CASE UNCHANGED programVars
  <2>1. UNCHANGED insertVars /\ UNCHANGED callVars /\ UNCHANGED receivingVars
    BY <1>11 DEF programVars
  <2>2. DeliveryInv' /\ UNCHANGED <<made, callbacks>>
    BY <2>1 DEF callVars, deliveryVars, ProgramInv, DeliveryInv
  <2> QED
    BY <1>4, <2>1, <2>2
<1> QED
  BY <1>1, <1>2, <1>3, <1>5, <1>6, <1>7, <1>9, <1>10, <1>11 DEF Next

LEMMA ProgramInvHolds == Spec => []ProgramInv
  BY InitProgramInv, NextProgramInv, PTL DEF Spec

(* Whatever is called, through callbacks or not, and however it travels    *)
(* and is taken in: the registries, the callbacks, the queues and what     *)
(* Self has begun to receive are what they should be.                      *)
THEOREM ProgramTypeCorrect == Spec => []TypeOK
<1>1. ProgramInv => TypeOK
  <2> SUFFICES ASSUME ProgramInv PROVE TypeOK
    OBVIOUS
  <2>1. InsertTypeOK
    BY DEF ProgramInv, IInv
  <2>2. /\ made \subseteq Call
        /\ \A p \in Process : IsABag(outgoing[p]) /\ IsABag(tasks[p])
        /\ IsABag(ran)
    BY DEF ProgramInv, DeliveryInv, GoodOutgoing, GoodTasks, GoodRuns
  <2>3. /\ Callbacks \subseteq ThroughCallback
        /\ \A call \in Callbacks : callbacks[call] \in CallbackState
    BY DEF ProgramInv, CallbackInv
  <2>4. /\ incoming \in Seq(In!Entry) /\ complete \subseteq Names
        /\ handed \in [Names -> Nat]
        /\ receiving \in {"receive", "clean", "crashed"}
    <3>1. WholeEntry \subseteq In!Entry
      BY DEF WholeEntry, In!Entry
    <3> QED
      BY <3>1, SeqMonotonic DEF ProgramInv, ReceivingInv
  <2> QED
    BY <2>1, <2>2, <2>3, <2>4 DEF TypeOK
<1> QED
  BY <1>1, ProgramInvHolds, PTL

(* Every message, wherever it is, has room for what is in it, in memory    *)
(* that suits it: in a queue, on its way, received, copied for a child or  *)
(* for one element, and requeued.                                          *)
THEOREM AllBuffersHold == Spec => []BuffersHold
<1>1. ProgramInv => BuffersHold
  <2> SUFFICES ASSUME ProgramInv, NEW m \in Messages PROVE Fitting(m)
    BY DEF BuffersHold, Fitting
  <2>1. CASE m \in arrived
    BY <2>1 DEF ProgramInv, ReceivingInv, Mail
  <2>2. ASSUME NEW p \in Process, m \in InMessages(p)
        PROVE  Fitting(m)
    <3>1. CASE m \in BagToSet(outgoing[p])
      BY <3>1 DEF ProgramInv, DeliveryInv, GoodOutgoing, Mail
    <3>2. CASE m \in BagToSet(tasks[p])
      BY <3>2 DEF ProgramInv, DeliveryInv, GoodTasks, Task
    <3>3. CASE \E q \in Process : m \in ToSet(channel[p][q])
      BY <3>3 DEF ProgramInv, DeliveryInv, GoodChannel, Mail
    <3> QED
      BY <2>2, <3>1, <3>2, <3>3 DEF InMessages
  <2> QED
    BY <2>1, <2>2 DEF Messages
<1> QED
  BY <1>1, ProgramInvHolds, PTL

(* Every action sees the arguments of its call, by whatever way they have  *)
(* come, but for the second run of an action on the process that has       *)
(* called it, with arguments that are not plain.                           *)
THEOREM ArgumentsDoArrive == Spec => []ArgumentsArrive
<1>1. ProgramInv => ArgumentsArrive
  <2> SUFFICES ASSUME ProgramInv, NEW call \in made, NEW x \in RunsOf(call)
               PROVE  HasSeen(x, call)
    BY DEF ArgumentsArrive, HasSeen
  <2>1. x \in BagToSet(ran) /\ x.call = call.name
    BY DEF RunsOf
  <2>2. PICK other \in made : x.call = other.name /\ HasSeen(x, other)
    BY <2>1 DEF ProgramInv, DeliveryInv, GoodRuns, Shown
  <2>3. other = call
    BY <2>1, <2>2, CallAssumption DEF ProgramInv, DeliveryInv
  <2> QED
    BY <2>2, <2>3
<1> QED
  BY <1>1, ProgramInvHolds, PTL
=================================================================================
