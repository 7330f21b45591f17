----------------------------- MODULE PackedProgram -----------------------------
(***************************************************************************)
(* Program, with what its messages contain when arguments are packed:      *)
(* streams of Serialization.                                               *)
(***************************************************************************)
EXTENDS Program, Serialization

CONSTANT TypeOf   \* the type of the tuple some arguments are

(* Of what is packed in a message every value of its type comes back when  *)
(* the message is unpacked, as often as that is.                           *)
Faithful == [a \in Arguments |-> \A v \in Values(TypeOf[a]) : ComesBack(TypeOf[a], v)]
RoundTrips == \A m \in Messages : m.form = "packed" => Faithful[m.arguments]
=============================================================================
