-------------------------------- MODULE Program --------------------------------
(***************************************************************************)
(* A program from its first insertion to the last action it has asked for: *)
(* InsertMode, then Delivery and Callback.  The receiving half of the      *)
(* driver is that of IncomingMessages on one process, Self; the others     *)
(* take in one message at a time.  A call sends at most one message to     *)
(* each process, which goes by the name of the call there.                 *)
(***************************************************************************)
EXTENDS InsertMode, Callback

CONSTANTS Self, Rendezvous, NoMessage, MaxToReceive,
  MaxCalls    \* bound: how many calls and callbacks are made

ASSUME BoundAssumption == MaxCalls \in Nat

VARIABLES node, turn, incoming, complete, handed, receiving,
  arrived   \* the buffers of the entries of incoming

receivingVars == <<node, turn, incoming, complete, handed, receiving, arrived>>
callVars == <<deliveryVars, callbacks>>
programVars == <<insertVars, callVars, receivingVars>>

(* Which process sends Self the message of a call, if one is sent.         *)
Hop(call) == IF ToAll(call) THEN Parent(Self) ELSE call.from
ToSelf == {call \in Call : Hop(call) # Self}
Names == {call.name : call \in ToSelf}
SourceOf == [n \in Names |-> Hop(CHOOSE call \in ToSelf : call.name = n)]

In == INSTANCE IncomingMessages WITH
  Msg <- Names, Source <- SourceOf, Null <- NoMessage, unsent <- {},
  wire <- [p \in Process |-> [i \in DOMAIN channel[p][Self] |-> channel[p][Self][i].call]],
  pc <- receiving

ASSUME ReceivingAssumption == In!ParametersFit

TypeOK ==
  /\ InsertTypeOK
  /\ made \subseteq Call
  /\ Callbacks \subseteq ThroughCallback
  /\ \A call \in Callbacks : callbacks[call] \in CallbackState
  /\ \A p \in Process : IsABag(outgoing[p]) /\ IsABag(tasks[p])
  /\ IsABag(ran)
  /\ incoming \in Seq(In!Entry) /\ complete \subseteq Names
  /\ handed \in [Names -> Nat]
  /\ receiving \in {"receive", "clean", "crashed"}

Init ==
  /\ InsertInit /\ DeliveryInit /\ CallbackInit
  /\ node = 0 /\ turn = 0 /\ incoming = <<>> /\ complete = {}
  /\ handed = [n \in Names |-> 0]
  /\ receiving = "receive"
  /\ arrived = {}

-----------------------------------------------------------------------------
Running(p) == pc[p] = "run"

Inserting ==
  /\ InsertNext
  /\ UNCHANGED <<callVars, receivingVars>>

(* Threads, and the sending half of the driver                             *)

Calling(p) ==
  /\ Running(p)
  /\ \E call \in Call \ ThroughCallback : call.from = p /\ Make(call)
  /\ Cardinality(made' \cup Callbacks) <= MaxCalls
  /\ UNCHANGED <<todo, pc, wire, callbacks, receivingVars>>

CallingBack(p) ==
  /\ Running(p)
  /\ \E call \in ThroughCallback :
       /\ call.from = p
       /\ \/ MakeCallback(call) \/ MakeBroadcastTo(call)
          \/ UpdateArguments(call)
          \/ \E clone \in ThroughCallback : GetClone(call, clone)
          \/ InvokeCallback(call) \/ InvokeBroadcastTo(call)
  /\ Cardinality(made' \cup Callbacks') <= MaxCalls
  /\ UNCHANGED <<todo, pc, wire, receivingVars>>

Sending(p) ==
  /\ Running(p)
  /\ \E m \in BagToSet(outgoing[p]) : InitiateSend(p, m)
  /\ UNCHANGED <<insertVars, callbacks, receivingVars>>

Working(p) ==
  /\ Running(p)
  /\ \E m \in BagToSet(tasks[p]) : Run(p, m)
  /\ UNCHANGED <<insertVars, callbacks, receivingVars>>

(* What has been taken off the network.                                    *)
Got(m) == [m EXCEPT !.block = Received(@)]

TakingIn(p) ==
  /\ Running(p) /\ p # Self
  /\ \E q \in Process :
       /\ channel[q][p] # <<>>
       /\ HandOn([channel EXCEPT ![q][p] = Tail(@)], p, <<Got(Head(channel[q][p]))>>)
  /\ UNCHANGED <<insertVars, callbacks, receivingVars>>

(* The receiving half of Self                                              *)

Starting ==
  /\ channel[In!Asked][Self] # <<>>
  /\ channel' = [channel EXCEPT ![In!Asked][Self] = Tail(@)]
  /\ arrived' = arrived \cup {Got(Head(channel[In!Asked][Self]))}
  /\ UNCHANGED <<made, outgoing, tasks, ran, callbacks>>
  /\ In!Receive

PassingBy ==
  /\ UNCHANGED <<callVars, arrived>>
  /\ In!Skip \/ In!ReceivesDone

Arriving ==
  /\ UNCHANGED <<callVars, arrived>>
  /\ \E n \in Rendezvous : In!Complete(n)

(* The messages behind what remove_if leaves, as long as they are there.   *)
Cleaning ==
  LET names == [i \in DOMAIN In!Removed |-> In!Removed[i].buffer]
      there == Selected(names, Names)
      Of(n) == CHOOSE m \in arrived : m.call = n
  IN  /\ receiving = "clean"
      /\ HandOn(channel, Self, [i \in DOMAIN there |-> Of(there[i])])
      /\ In!Clean
      /\ arrived' = {m \in arrived : \E i \in DOMAIN incoming' : incoming'[i].request = m.call}

Driving ==
  /\ Running(Self)
  /\ Starting \/ PassingBy \/ (Cleaning /\ UNCHANGED callbacks)
  /\ UNCHANGED insertVars

Next ==
  \/ Inserting
  \/ \E p \in Process : Calling(p) \/ CallingBack(p) \/ Sending(p) \/ Working(p) \/ TakingIn(p)
  \/ Driving
  \/ Arriving /\ UNCHANGED insertVars

Spec == Init /\ [][Next]_programVars

(* What ends by itself: a process leaves insert mode, then its threads and *)
(* the driver carry out what there is.                                     *)
GoOn ==
  \/ Proceed /\ UNCHANGED <<callVars, receivingVars>>
  \/ \E p \in Process : Sending(p) \/ Working(p) \/ TakingIn(p)

(* Each process and each thread that can go on does so, and large messages *)
(* arrive; nobody has to call.  Of the parts that end by themselves it is  *)
(* enough that some process goes on; the driver of Self polls for ever.    *)
FairSpec ==
  /\ Spec
  /\ WF_programVars(GoOn)
  /\ WF_programVars(Driving)
  /\ WF_programVars(Arriving /\ UNCHANGED insertVars)

-----------------------------------------------------------------------------
(* Properties *)

(* The processes and elements a call is to: for invoke and broadcast_to    *)
(* those the caller knows of, for broadcast all.                           *)
Addressed(call) ==
  LET p == call.from
      objects == HolderOf(p, call.component).objects
      Elements(S) == {[process |-> objects[e], index |-> e] : e \in S \cap DOMAIN objects}
  IN  IF ~Knows(p, call.component) THEN {}
      ELSE IF call.component \in Collections
           THEN Elements(IF ToAll(call) THEN DOMAIN objects ELSE call.to)
           ELSE {[process |-> q, index |-> NoIndex] :
                   q \in IF ToAll(call) THEN Process ELSE call.to}

RunsOf(call) == {x \in BagToSet(ran) : x.call = call.name}

Answered(call) ==
  \A t \in Addressed(call) : \E x \in RunsOf(call) :
    x.process = t.process /\ x.index = t.index /\ ~x.again

InMessages(p) ==
  BagToSet(outgoing[p]) \cup BagToSet(tasks[p]) \cup UNION {ToSet(channel[p][q]) : q \in Process}
Messages == arrived \cup UNION {InMessages(p) : p \in Process}

(* A call reaches those it is to, each of them once and nobody else, on    *)
(* the component it is of: no message is lost, and none is turned into too *)
(* many tasks, on whatever way it takes through the processes.             *)
ExactlyTheAddressed ==
  \A call \in made :
    /\ \A x, y \in RunsOf(call) :
         /\ ran[x] = 1 /\ x.component = call.component
         /\ [process |-> x.process, index |-> x.index] \in Addressed(call)
         /\ x.process = y.process /\ x.index = y.index /\ x.again = y.again => x = y
    /\ (\E m \in Messages : m.call = call.name) \/ Answered(call)

(* An action sees the arguments it was called with, packed, copied,        *)
(* received or as they are.  The one case in which it does not is that of  *)
(* a message requeued on the process that made it: the first run has moved *)
(* the arguments out.                                                      *)
ArgumentsArrive ==
  \A call \in made : \A x \in RunsOf(call) :
    \/ x.seen = call.arguments
    \/ /\ call.kind = "invoke" /\ x.process = call.from
       /\ call.requeue /\ ~x.again /\ call.arguments \notin Plain

(* In every message, wherever it is and whoever has put it together, the   *)
(* header, the ids and the data have room, the data are aligned, and the   *)
(* memory is given back as it was asked for.                               *)
BuffersHold ==
  \A m \in Messages :
    /\ Holds(m.block) /\ Aligned(m.block)
    /\ m.block.alignment = Alignment[m.arguments]
    /\ SizeOfData(m.block) = Size(m.arguments, IF m.form = "packed" THEN "packed" ELSE "object")
    /\ m.ids # {} => HeaderSize + IndexSize * (2 + Cardinality(m.ids)) <= m.block.meta

(* What has been asked for is done, whatever else is going on: processes   *)
(* that have called insert_barrier and agree all get through, whatever     *)
(* order they arrive in, and time and again everybody has got what the     *)
(* calls made so far are to bring.                                         *)
CallsAreCarriedOut ==
  []<>(AgreementIsThrough /\ \A call \in made : Answered(call))
=============================================================================
