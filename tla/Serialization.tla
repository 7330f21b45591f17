----------------------------- MODULE Serialization -----------------------------
(***************************************************************************)
(* How values become bytes and values again.  One operator | serves all    *)
(* modes of a Serializer, so what is sized is what is packed.  A stream is *)
(* a sequence of items, what one call of Serializer::bytes copies; an item *)
(* has a size and a value, whose bytes are not looked into.                *)
(*                                                                         *)
(* A type is a record with its kind:                                       *)
(*   "item"       fundamental, enum, or serialize_as_bytes_v, of .bytes;   *)
(*                also a pair, tuple, array or complex of such             *)
(*   "string"     of characters of .bytes                                  *)
(*   "vector", "list", "deque", "forward_list"   of elements .of           *)
(*   "fields"     a pair, tuple, array, complex, or a class that pups its  *)
(*                members .of one after the other                          *)
(*   "built"      such a class that is constructible from a Serializer     *)
(*   "map", "set" of keys .key (and values .of), ordered or not            *)
(*   "multimap", "multiset"   the same with keys that may be there twice   *)
(*   "pointer"    unique_ptr or shared_ptr to .of                          *)
(*   "base"       unique_ptr or shared_ptr to an abstract base class       *)
(* Sequences are values of the first, functions and sets of "map" and      *)
(* "set", bags of pairs and keys of the next, and a pointer is a sequence  *)
(* of at most one.                                                         *)
(***************************************************************************)
EXTENDS Integers, Sequences, FiniteSets, SequencesExt, TLC

CONSTANTS
  Derived,             \* the members of each derived class of the base class
  serializable_hash,   \* what stands for the name of each
  MaxLength            \* bound: the length of the values in Values

WordSize == 8    \* size_t
BoolSize == 1

-----------------------------------------------------------------------------
(* The derived classes of the base class                                   *)

ClassEntry(class) == [class |-> class, members |-> Derived[class]]

(* register_derived: it throws if the name is taken.                       *)
RegisterDerived(entries, class) ==
  IF serializable_hash[class] \in DOMAIN entries THEN entries
  ELSE entries @@ (serializable_hash[class] :> ClassEntry(class))

registry == FoldLeft(RegisterDerived, <<>>, SetToSeq(DOMAIN Derived))

(* It is called before main, where nobody can catch the exception: in a    *)
(* program that starts every class has been registered.                    *)
ASSUME RegistryAssumption ==
  /\ DOMAIN serializable_hash = DOMAIN Derived
  /\ \A class \in DOMAIN Derived : \E h \in DOMAIN registry : registry[h].class = class

-----------------------------------------------------------------------------
(* Serializer::bytes *)

Item(bytes, value) == <<[bytes |-> bytes, value |-> value]>>

number_of_bytes(stream) == FoldLeft(LAMBDA n, item : n + item.bytes, 0, stream)

-----------------------------------------------------------------------------
(* Packing *)

RECURSIVE Packed(_, _)

Each(type, values) == FlattenSeq([i \in DOMAIN values |-> Packed(type, values[i])])

PackFields(types, values) == FlattenSeq([i \in DOMAIN types |-> Packed(types[i], values[i])])

(* The capacity of a vector and a string is packed as well.  Any number    *)
(* from the size on will do: it is only reserved.                          *)
PackVector(type, v) == Item(WordSize, Len(v)) \o Item(WordSize, Len(v)) \o Each(type.of, v)

PackString(type, v) ==
  Item(WordSize, Len(v)) \o Item(WordSize, Len(v)) \o Item(Len(v) * type.bytes, v)

PackList(type, v) == Item(WordSize, Len(v)) \o Each(type.of, v)

PackMap(type, v) ==
  LET keys == SetToSeq(DOMAIN v)
  IN  Item(WordSize, Len(keys)) \o
        FlattenSeq([i \in DOMAIN keys |-> Packed(type.key, keys[i]) \o Packed(type.of, v[keys[i]])])

PackSet(type, v) == Item(WordSize, Cardinality(v)) \o Each(type.key, SetToSeq(v))

(* With keys that may be there twice                                       *)
Listed(bag) == FlattenSeq([i \in 1 .. Cardinality(DOMAIN bag) |->
  LET x == SetToSeq(DOMAIN bag)[i] IN [j \in 1 .. bag[x] |-> x]])

PackMultimap(type, v) ==
  Item(WordSize, BagCardinality(v)) \o
    FlattenSeq([i \in DOMAIN Listed(v) |->
      Packed(type.key, Listed(v)[i][1]) \o Packed(type.of, Listed(v)[i][2])])

PackMultiset(type, v) == Item(WordSize, BagCardinality(v)) \o Each(type.key, Listed(v))

(* Mutant of PackPointer: the flag of a null pointer is left out.          *)
PackPointerBare(type, v) == IF v = <<>> THEN Item(BoolSize, TRUE) ELSE Packed(type.of, v[1])

PackPointer(type, v) == Item(BoolSize, v = <<>>) \o Each(type.of, v)

(* serialize_abstract_base: which class it is, then its members.           *)
PackBase(v) ==
  IF v = <<>> THEN Item(BoolSize, TRUE)
  ELSE Item(BoolSize, FALSE) \o Item(WordSize, serializable_hash[v[1].class])
         \o PackFields(Derived[v[1].class], v[1].members)

Packed(type, v) ==
  CASE type.kind = "item" -> Item(type.bytes, v)
    [] type.kind = "string" -> PackString(type, v)
    [] type.kind = "vector" -> PackVector(type, v)
    [] type.kind \in {"list", "deque", "forward_list"} -> PackList(type, v)
    [] type.kind \in {"fields", "built"} -> PackFields(type.of, v)
    [] type.kind = "map" -> PackMap(type, v)
    [] type.kind = "set" -> PackSet(type, v)
    [] type.kind = "multimap" -> PackMultimap(type, v)
    [] type.kind = "multiset" -> PackMultiset(type, v)
    [] type.kind = "pointer" -> PackPointer(type, v)
    [] type.kind = "base" -> PackBase(v)

-----------------------------------------------------------------------------
(* Unpacking into a target that has a value already.  The result is the    *)
(* new value and what is left of the stream.                               *)

RECURSIVE Fresh(_), Unpacked(_, _, _)

(* A default-constructed value.                                            *)
Fresh(type) ==
  CASE type.kind = "item" -> 0
    [] type.kind \in {"fields", "built"} -> [i \in DOMAIN type.of |-> Fresh(type.of[i])]
    [] type.kind = "set" -> {}
    [] OTHER -> <<>>

(* Unpack one after the other into the targets.                            *)
UnpackFields(types, targets, stream) ==
  FoldLeft(LAMBDA done, i :
             LET next == Unpacked(types[i], targets[i], done.rest)
             IN  [value |-> Append(done.value, next.value), rest |-> next.rest],
           [value |-> <<>>, rest |-> stream], [i \in DOMAIN types |-> i])

UnpackEach(type, targets, stream) ==
  UnpackFields([i \in DOMAIN targets |-> type], targets, stream)

NewOnes(type, n) == [i \in 1 .. n |-> Fresh(type)]

(* vector.resize: the elements that are there are kept and unpacked into.  *)
Resized(type, target, n) ==
  [i \in 1 .. n |-> IF i <= Len(target) THEN target[i] ELSE Fresh(type)]

(* emplace_back: those that are there stay.                                *)
UnpackBehind(type, target, n, stream) ==
  LET new == UnpackEach(type, NewOnes(type, n), stream)
  IN  [new EXCEPT !.value = target \o @]

UnpackVector(type, target, stream) ==
  LET size == stream[2].value
      rest == SubSeq(stream, 3, Len(stream))
  IN  IF type.of.kind = "built" THEN UnpackBehind(type.of, target, size, rest)
      ELSE UnpackEach(type.of, Resized(type.of, target, size), rest)

UnpackString(stream) ==
  [value |-> stream[3].value, rest |-> SubSeq(stream, 4, Len(stream))]

UnpackList(type, target, stream) ==
  LET size == Head(stream).value
  IN  IF type.of.kind = "built" THEN UnpackBehind(type.of, target, size, Tail(stream))
      ELSE UnpackEach(type.of, Resized(type.of, target, size), Tail(stream))

UnpackDeque(type, target, stream) ==
  UnpackEach(type.of, Resized(type.of, target, Head(stream).value), Tail(stream))

(* The new elements come before those that are there.                      *)
UnpackForwardList(type, target, stream) ==
  LET new == UnpackEach(type.of, NewOnes(type.of, Head(stream).value), Tail(stream))
  IN  [new EXCEPT !.value = @ \o target]

(* The pairs of a map, each a key and a value.                             *)
UnpackPairs(type, n, stream) ==
  UnpackEach([kind |-> "fields", of |-> <<type.key, type.of>>],
             NewOnes([kind |-> "fields", of |-> <<type.key, type.of>>], n), stream)

(* emplace leaves a key alone that is there.                               *)
UnpackMap(type, target, stream) ==
  LET new == UnpackPairs(type, Head(stream).value, Tail(stream))
  IN  [new EXCEPT !.value = FoldLeft(LAMBDA map, pair : map @@ (pair[1] :> pair[2]), target, @)]

UnpackSet(type, target, stream) ==
  LET new == UnpackEach(type.key, NewOnes(type.key, Head(stream).value), Tail(stream))
  IN  [new EXCEPT !.value = target \cup ToSet(@)]

(* Here emplace always inserts.                                            *)
Emplaced(target, new) ==
  [new EXCEPT !.value = FoldLeft(LAMBDA bag, x : bag (+) SetToBag({x}), target, @)]

UnpackMultimap(type, target, stream) ==
  Emplaced(target, UnpackPairs(type, Head(stream).value, Tail(stream)))

UnpackMultiset(type, target, stream) ==
  Emplaced(target, UnpackEach(type.key, NewOnes(type.key, Head(stream).value), Tail(stream)))

UnpackPointer(type, stream) ==
  UnpackEach(type.of, NewOnes(type.of, IF Head(stream).value THEN 0 ELSE 1), Tail(stream))

(* create finds the class by what stands for its name, and makes one.      *)
Create(id) ==
  LET entry == registry[id]
  IN  [class |-> entry.class,
       members |-> [i \in DOMAIN entry.members |-> Fresh(entry.members[i])]]

(* deserialize_abstract_base                                               *)
UnpackBase(stream) ==
  IF Head(stream).value THEN [value |-> <<>>, rest |-> Tail(stream)]
  ELSE LET new == Create(stream[2].value)
           read == UnpackFields(Derived[new.class], new.members, SubSeq(stream, 3, Len(stream)))
       IN  [read EXCEPT !.value = <<[new EXCEPT !.members = read.value]>>]

Unpacked(type, target, stream) ==
  CASE type.kind = "item" -> [value |-> Head(stream).value, rest |-> Tail(stream)]
    [] type.kind = "string" -> UnpackString(stream)
    [] type.kind = "vector" -> UnpackVector(type, target, stream)
    [] type.kind = "list" -> UnpackList(type, target, stream)
    [] type.kind = "deque" -> UnpackDeque(type, target, stream)
    [] type.kind = "forward_list" -> UnpackForwardList(type, target, stream)
    [] type.kind \in {"fields", "built"} -> UnpackFields(type.of, target, stream)
    [] type.kind = "map" -> UnpackMap(type, target, stream)
    [] type.kind = "set" -> UnpackSet(type, target, stream)
    [] type.kind = "multimap" -> UnpackMultimap(type, target, stream)
    [] type.kind = "multiset" -> UnpackMultiset(type, target, stream)
    [] type.kind = "pointer" -> UnpackPointer(type, stream)
    [] type.kind = "base" -> UnpackBase(stream)

-----------------------------------------------------------------------------
(* Properties *)

(* The values of a type with at most MaxLength elements on each level.     *)
RECURSIVE Values(_)
Rows(types) ==
  FoldLeft(LAMBDA rows, type : {Append(row, v) : row \in rows, v \in Values(type)},
           {<<>>}, types)
Lists(type, n) == UNION {[1 .. k -> Values(type)] : k \in 0 .. n}
BagsOf(S) ==
  {b \in UNION {[K -> 1 .. MaxLength] : K \in {K \in SUBSET S : Cardinality(K) <= MaxLength}} :
     BagCardinality(b) <= MaxLength}
Values(type) ==
  CASE type.kind = "item" -> {0, 1}
    [] type.kind = "string" -> UNION {[1 .. k -> {0, 1}] : k \in 0 .. MaxLength}
    [] type.kind \in {"vector", "list", "deque", "forward_list"} -> Lists(type.of, MaxLength)
    [] type.kind \in {"fields", "built"} -> Rows(type.of)
    [] type.kind = "map" ->
         UNION {[K -> Values(type.of)] : K \in {K \in SUBSET Values(type.key) : Cardinality(K) <= MaxLength}}
    [] type.kind = "set" -> {K \in SUBSET Values(type.key) : Cardinality(K) <= MaxLength}
    [] type.kind = "multimap" -> BagsOf(Values(type.key) \X Values(type.of))
    [] type.kind = "multiset" -> BagsOf(Values(type.key))
    [] type.kind = "pointer" -> Lists(type.of, 1)
    [] type.kind = "base" ->
         {<<>>} \cup
           UNION {{<<[class |-> c, members |-> row]>> : row \in Rows(Derived[c])} : c \in DOMAIN Derived}

(* Unpacking what has been packed into a fresh object gives the value that *)
(* was packed, and reads exactly what was written: whatever comes next in  *)
(* the stream is found.                                                    *)
ComesBack(type, v) ==
  Unpacked(type, Fresh(type), Packed(type, v)) = [value |-> v, rest |-> <<>>]
=============================================================================
