------------------------------- MODULE MCProgram -------------------------------
EXTENDS PackedProgram
CONSTANTS r, c, e, f, plain, rows, hollow, maps, bases

(* Selected is what SelectSeq selects.                                     *)
ASSUME SelectionAssumption ==
  \A s \in SeqOf(1 .. 3, 4), T \in SUBSET (1 .. 3) :
    Selected(s, T) = SelectSeq(s, LAMBDA x : x \in T)

(* Components and what is inserted                                         *)
AllComponents == {r, c}
OneCollection == {c}
TwoElements == {e, f}
Regularly == [call |-> "component", component |-> r]
Element(i, q) == [call |-> "element", component |-> c, index |-> i, process |-> q]
Removal(i) == [call |-> "remove", component |-> c, index |-> i]
Look == [call |-> "look up", component |-> c]
P1 == <<Regularly, Element(f, 1), Element(e, 1)>>
P2 == <<Regularly, Look, Element(e, N), Element(e, 1), Removal(e), Element(e, 1), Element(f, 3)>>
Programs == {P1, P2}

(* Types of arguments, with classes derived from a base class              *)
Number == [kind |-> "item", bytes |-> 4]
Text == [kind |-> "string", bytes |-> 1]
Of(kind, type) == [kind |-> kind, of |-> type]
Point == Of("built", <<Number, Number>>)
Pointer(type) == Of("pointer", type)
Base == [kind |-> "base"]
Classes == "A" :> <<Number>> @@ "B" :> <<Text, Number>>
Hashes == "A" :> 17 @@ "B" :> 23

SomeArguments == {plain, rows, hollow, maps, bases}
OnlyPlain == {plain}
Hollowed == [a \in SomeArguments |-> IF a \in OnlyPlain THEN a ELSE hollow]
SomeRows == Of("fields", <<Of("vector", Of("vector", Number)), Of("list", Point),
                       [kind |-> "multiset", key |-> Number]>>)
Tuples ==
  plain :> Of("fields", <<Number>>) @@ rows :> SomeRows @@ hollow :> SomeRows @@
  maps :> Of("fields", <<[kind |-> "map", key |-> Number, of |-> Of("deque", Number)],
                         [kind |-> "multimap", key |-> Number, of |-> Number],
                         [kind |-> "set", key |-> Text]>>) @@
  bases :> Of("fields", <<Of("vector", Base), Of("forward_list", Pointer(Pointer(Number)))>>)
AValue ==
  plain :> <<1>> @@ rows :> <<<<<<1, 2>>, <<3>>>>, <<>>, <<>>>> @@ hollow :> <<<<>>, <<>>, <<>>>> @@
  maps :> <<3 :> <<1, 2>>, <<>>, {<<1>>}>> @@
  bases :> <<<<<<>>, <<[class |-> "B", members |-> <<<<1>>, 2>>]>>>>, <<>>>>
Sizes == plain :> 4 @@ rows :> 48 @@ hollow :> 48 @@ maps :> 104 @@ bases :> 32
Aligns == plain :> 4 @@ rows :> 8 @@ hollow :> 8 @@ maps :> 16 @@ bases :> 32
Packs == [a \in SomeArguments |-> number_of_bytes(Packed(Tuples[a], AValue[a]))]

(* Calls                                                                   *)
A(name, kind, from, component, to, arguments, requeue) ==
  [name |-> name, kind |-> kind, from |-> from, component |-> component, to |-> to,
   arguments |-> arguments, requeue |-> requeue]
ByCallback ==
  {A("first", "invoke", 3, c, {f}, rows, FALSE), A("second", "invoke", 3, c, {f}, rows, FALSE),
   A("some", "broadcast_to", 0, c, {e, f}, bases, FALSE)}
Calls ==
  ByCallback \cup
  {A("local", "invoke", 1, c, {e}, maps, TRUE),
   A("all", "broadcast", 2, r, {}, plain, FALSE),
   A("sum", "result", 0, r, {1}, plain, FALSE),
   A("every", "result for all", 0, c, {}, plain, FALSE)}
LargeOnes == {"some"}
=============================================================================
