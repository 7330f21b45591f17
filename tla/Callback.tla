-------------------------------- MODULE Callback --------------------------------
(***************************************************************************)
(* Callbacks: calls that are put together in one place and made in         *)
(* another, once.  A clone makes the call a second time, under a name of   *)
(* its own.  A callback stays with the process that made it.               *)
(***************************************************************************)
EXTENDS Delivery

CONSTANTS
  ThroughCallback,   \* the calls that are made by invoking a callback
  MovedFrom          \* what is left of arguments that have been moved out

ASSUME CallbackAssumption ==
  /\ ThroughCallback \subseteq {call \in Call : call.kind \notin Results}
  /\ MovedFrom \in [Arguments -> Arguments]
  /\ \A a \in Plain : MovedFrom[a] = a

VARIABLES
  callbacks   \* args_ and invoked_ of those there are, by the call they make

(* Members of CallbackArgs, and of Callback or CallbackBroadcastTo; the     *)
(* rest is in the call.                                                    *)
CallbackState == [arguments : Arguments, invoked : BOOLEAN]

(* Of class CallbackBroadcastTo: its predicate, which is called when it is *)
(* invoked and not before, is satisfied by the elements .to of the call.   *)
IsBroadcastTo(call) == call.kind = "broadcast_to"

CallbackInit == callbacks = <<>>

Callbacks == DOMAIN callbacks

(* A new or changed callback; the driver has nothing to do with it.        *)
Put(call, callback) ==
  callbacks' = [c \in Callbacks \cup {call} |-> IF c = call THEN callback ELSE callbacks[c]]
Keep(call, callback) == Put(call, callback) /\ UNCHANGED <<deliveryVars, registryVars>>

(* make_invoke_callback and make_broadcast_callback                        *)
MakeCallback(call) ==
  /\ call \in ThroughCallback \ Callbacks /\ ~IsBroadcastTo(call)
  /\ Keep(call, [arguments |-> call.arguments, invoked |-> FALSE])

(* make_broadcast_to_callback: the predicate is copied as well.            *)
MakeBroadcastTo(call) ==
  /\ call \in ThroughCallback \ Callbacks /\ IsBroadcastTo(call)
  /\ Keep(call, [arguments |-> call.arguments, invoked |-> FALSE])

(* update_arguments, here with those of the call.                          *)
UpdateArguments(call) ==
  /\ call \in Callbacks
  /\ Keep(call, [callbacks[call] EXCEPT !.arguments = call.arguments])

(* Mutant of GetClone: the clone of a callback can be invoked in any case. *)
GetCloneUninvoked(call, clone) ==
  /\ call \in Callbacks /\ clone \in ThroughCallback \ Callbacks
  /\ clone = [call EXCEPT !.name = clone.name]
  /\ Keep(clone, [callbacks[call] EXCEPT !.invoked = FALSE])

(* get_clone: that of a callback that has been invoked counts as invoked.  *)
GetClone(call, clone) ==
  /\ call \in Callbacks /\ clone \in ThroughCallback \ Callbacks
  /\ clone = [call EXCEPT !.name = clone.name]
  /\ Keep(clone, callbacks[call])

-----------------------------------------------------------------------------
(* invoke *)

(* It throws if it has been called before.  The arguments are forwarded to *)
(* the driver, and left is what remains of them.                           *)
Fire(call, left) ==
  /\ call \in Callbacks /\ ~callbacks[call].invoked
  /\ Put(call, [arguments |-> left, invoked |-> TRUE])
  /\ made' = made \cup {call}
  /\ Carry([call EXCEPT !.arguments = callbacks[call].arguments])

(* Only a message to this process takes them; what is packed is copied.    *)
Left(call, arguments) ==
  IF call.kind = "invoke" /\ There(call.from, call) /\ Target(call.from, call).process = call.from
  THEN MovedFrom[arguments] ELSE arguments

(* Callback::invoke                                                        *)
InvokeCallback(call) ==
  /\ ~IsBroadcastTo(call)
  /\ Fire(call, Left(call, callbacks[call].arguments))

(* CallbackBroadcastTo::invoke                                             *)
InvokeBroadcastTo(call) ==
  /\ IsBroadcastTo(call)
  /\ Fire(call, callbacks[call].arguments)
=============================================================================
