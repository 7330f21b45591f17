-------------------------------- MODULE Delivery --------------------------------
(***************************************************************************)
(* From a call of invoke, broadcast or broadcast_to, or a reduction whose  *)
(* result is there, to the actions that run: what message the call makes,  *)
(* how it travels, what tasks are made of it and what they do.  Messages   *)
(* travel between two processes in order; the queues in a process keep     *)
(* none.                                                                   *)
(*                                                                         *)
(* A call is a record: its kind, the process that makes it, the component, *)
(* whom it is to (of invoke, the element or the process; of broadcast_to,  *)
(* the elements that satisfy the predicate), the arguments, and whether    *)
(* the action asks for its message to be requeued the first time it runs.  *)
(* A call of kind "result" or "result for all" is made at the root when a  *)
(* reduction is finished: its arguments are the result.                    *)
(* Arguments are one value; they are in a message as an object or packed.  *)
(***************************************************************************)
EXTENDS ComponentRegistry, MessageBuffer, Selection, Bags

CONSTANTS
  Call,         \* the calls that may be made, each once
  Arguments,
  Plain,        \* those whose types are trivially copyable
  ObjectSize,   \* sizeof and alignof of the tuple they are
  Alignment,
  PackedSize    \* and how many bytes they are packed

Results == {"result", "result for all"}
Kinds == {"invoke", "broadcast", "broadcast_to"} \cup Results

ASSUME CallAssumption ==
  /\ Call \subseteq
       [name : STRING, kind : Kinds, from : Process, component : Component,
        to : SUBSET (Process \cup ElementIndex), arguments : Arguments, requeue : BOOLEAN]
  /\ \A call \in Call :
       /\ call.kind \in Results => call.from = Root
       /\ call.kind = "broadcast_to" => call.component \in Collections
       /\ call.kind \in {"invoke", "result"} =>
            \E t \in call.to : call.to = {t} /\ (call.component \in Collections \/ t \in Process)
  /\ \A a, b \in Call : a.name = b.name => a = b
ASSUME ArgumentsAssumption ==
  /\ Plain \subseteq Arguments
  /\ ObjectSize \in [Arguments -> Nat] /\ PackedSize \in [Arguments -> Nat]
(* A receiver does not know the alignment of what it makes room for.       *)
ASSUME AlignmentAssumption ==
  Alignment \in [Arguments -> {a \in Alignments : a <= HeaderSize}]

VARIABLES
  made,       \* the calls that have been made
  outgoing,   \* outgoing_messages_ of each process
  channel,    \* what is on its way from one process to another
  tasks,      \* the task queue of each process
  ran         \* what has run, how often

deliveryVars == <<made, outgoing, channel, tasks, ran>>

DeliveryInit ==
  /\ made = {}
  /\ outgoing = [p \in Process |-> EmptyBag]
  /\ channel = [p \in Process |-> [q \in Process |-> <<>>]]
  /\ tasks = [p \in Process |-> EmptyBag]
  /\ ran = EmptyBag

-----------------------------------------------------------------------------
(* Messages *)

NoIndex == -1

(* object is the place of the component in the registry of the caller;     *)
(* form says what has become of the arguments; ids are those written into  *)
(* a BroadcastTo message.                                                  *)
Message(type, call, object, dest, index, ids, form, block) ==
  [type |-> type, call |-> call.name, arguments |-> call.arguments, object |-> object,
   source |-> call.from, dest |-> dest, index |-> index, ids |-> ids,
   form |-> form, block |-> block, again |-> call.requeue]

(* How the arguments of a call are put into a message that may leave.      *)
Form(arguments) == IF arguments \in Plain THEN "object" ELSE "packed"
Size(arguments, form) ==
  IF form = "packed" THEN PackedSize[arguments] ELSE ObjectSize[arguments]

NewBlock(arguments, form) == CreateMessage(Size(arguments, form), Alignment[arguments])
BlockFor(arguments, form) == CreateMessageFrom(Size(arguments, form), Alignment[arguments])

(* The bytes of a message are copied: an object that is not plain is not   *)
(* what it was.                                                            *)
CopyOf(m) ==
  [m EXCEPT !.block = Copied(@),
            !.form = IF @ = "object" /\ m.arguments \notin Plain THEN "broken" ELSE @]
Redirected(m, dest) == [m EXCEPT !.dest = dest]

(* convert_broadcast_to_invoke and change_destination_process_id           *)
ToInvoke(m, p, index) == [m EXCEPT !.type = "Invoke", !.index = index, !.dest = p]

-----------------------------------------------------------------------------
(* invoke *)

HolderOf(p, c) == distributed_objects[p][Place(p, c)]
Knows(p, c) == Inserted(p, c) /\ (c \in Collections <=> HolderOf(p, c).name \in Collections)
There(p, call) ==
  Knows(p, call.component)
    /\ (call.component \in Collections => call.to \subseteq DOMAIN HolderOf(p, call.component).objects)

Target(p, call) ==
  LET to == CHOOSE t \in call.to : TRUE
  IN  IF call.component \in Collections
      THEN [process |-> HolderOf(p, call.component).objects[to], index |-> to]
      ELSE [process |-> to, index |-> NoIndex]

(* Mutant of InvokeForm: what is to leave is not packed.                   *)
InvokeFormObject(p, arguments, dest) == "object"

InvokeForm(p, arguments, dest) == IF dest = p THEN "object" ELSE Form(arguments)

(* send_data *)
SendData(p, dest, m) ==
  IF dest = p
  THEN tasks' = [tasks EXCEPT ![p] = @ (+) SetToBag({m})] /\ UNCHANGED outgoing
  ELSE outgoing' = [outgoing EXCEPT ![p] = @ (+) SetToBag({m})] /\ UNCHANGED tasks

(* It throws unless the component is a collection in its place that has    *)
(* the element.                                                            *)
SendInvoke(call, form, block) ==
  LET p == call.from
      target == Target(p, call)
  IN  IF There(p, call)
      THEN SendData(p, target.process,
             Message("Invoke", call, Place(p, call.component), target.process, target.index,
                  {}, form, block))
      ELSE UNCHANGED <<tasks, outgoing>>

(* A component that is not a collection is not looked up before the task   *)
(* runs, and there its being missing throws; the model excludes that.      *)
Invoke(call) ==
  LET form == InvokeForm(call.from, call.arguments, Target(call.from, call).process)
  IN  /\ call.kind = "invoke"
      /\ call.component \in Collections \/ Knows(call.from, call.component)
      /\ SendInvoke(call, form, NewBlock(call.arguments, form))

-----------------------------------------------------------------------------
(* broadcast *)

(* The message goes through the outgoing queue even if it is for this      *)
(* process only.                                                           *)
SendBroadcast(call, block) ==
  SendData(call.from, None,
    Message("Broadcast", call, Place(call.from, call.component), call.from, NoIndex, {},
         Form(call.arguments), block))

(* Of a component that has been inserted: nothing looks it up before the   *)
(* message is sent.                                                        *)
Broadcast(call) ==
  /\ call.kind = "broadcast" /\ Knows(call.from, call.component)
  /\ SendBroadcast(call, NewBlock(call.arguments, Form(call.arguments)))

(* A reduction that is finished, at the root: its message has the result   *)
(* as its data and is told whether that was packed; what is sent is made   *)
(* of those bytes, also to the root itself.  As above, the component has   *)
(* been inserted.                                                          *)
Finish(call) ==
  LET form == Form(call.arguments)
  IN  /\ Knows(call.from, call.component)
      /\ \/ /\ call.kind = "result"
            /\ SendInvoke(call, form, BlockFor(call.arguments, form))
         \/ /\ call.kind = "result for all"
            /\ SendBroadcast(call, BlockFor(call.arguments, form))

ToAll(call) == call.kind \in {"broadcast", "result for all"}

(* broadcast_to: one message for each other process on which there are     *)
(* elements that satisfy the predicate, and one task for each here.  It    *)
(* throws if the collection has not been inserted.                         *)
Chosen(p, call, q) ==
  LET objects == HolderOf(p, call.component).objects
  IN  {e \in DOMAIN objects \cap call.to : objects[e] = q}

BroadcastTo(call) ==
  LET p == call.from
      form == Form(call.arguments)
      size == Size(call.arguments, form)
      object == Place(p, call.component)
      For(q) ==
        Message("BroadcastTo", call, object, q, NoIndex, Chosen(p, call, q), form,
             CreateBroadcastTo(Cardinality(Chosen(p, call, q)), size, Alignment[call.arguments]))
      Here(e) ==
        Message("Invoke", call, object, p, e, {}, form, BlockFor(call.arguments, form))
      others == {q \in Process \ {p} : Chosen(p, call, q) # {}}
  IN  /\ call.kind = "broadcast_to"
      /\ IF Knows(p, call.component)
         THEN /\ outgoing' = [outgoing EXCEPT ![p] = @ (+) SetToBag({For(q) : q \in others})]
              /\ tasks' = [tasks EXCEPT ![p] = @ (+) SetToBag({Here(e) : e \in Chosen(p, call, p)})]
         ELSE UNCHANGED <<tasks, outgoing>>

(* What any of them does, whatever its name: the first to name a component *)
(* on a process gives it its place.                                        *)
Carry(call) ==
  /\ Ask(call.from, call.component)
  /\ Invoke(call) \/ Broadcast(call) \/ BroadcastTo(call) \/ Finish(call)
  /\ UNCHANGED <<distributed_objects, in_insert_mode, channel, ran>>

Make(call) ==
  /\ call \notin made
  /\ made' = made \cup {call}
  /\ Carry(call)

-----------------------------------------------------------------------------
(* add_local_broadcast_tasks *)

(* All the elements here: number_of_local_objects of them at most.         *)
LocalElements(p, holder) ==
  LET local == {e \in DOMAIN holder.objects : holder.objects[e] = p}
  IN  {S \in SUBSET local :
         Cardinality(S) = LET n == holder.number_of_local_objects
                          IN  IF n < 0 THEN 0
                              ELSE IF n < Cardinality(local) THEN n ELSE Cardinality(local)}

(* What is unpacked of a BroadcastTo message for one element.              *)
Unbundled(m, p, e) ==
  [ToInvoke(CopyOf(m), p, e) EXCEPT
     !.ids = {}, !.block = CreateMessageFrom(SizeOfData(m.block), m.block.alignment)]

(* Mutant of LocalTasks: the first id only is read.                        *)
LocalTasksFirst(p, m) ==
  LET holder == distributed_objects[p][m.object]
      elements ==
        IF m.type = "BroadcastTo" THEN {CHOOSE e \in m.ids : TRUE}
        ELSE CHOOSE S \in LocalElements(p, holder) : TRUE
  IN  IF holder.name \notin Collections THEN {ToInvoke(CopyOf(m), p, NoIndex)}
      ELSE IF m.type = "BroadcastTo" THEN {Unbundled(m, p, e) : e \in elements}
      ELSE {ToInvoke(CopyOf(m), p, e) : e \in elements}

LocalTasks(p, m) ==
  LET holder == distributed_objects[p][m.object]
  IN  IF holder.name \notin Collections THEN {ToInvoke(CopyOf(m), p, NoIndex)}
      ELSE IF m.type = "BroadcastTo" THEN {Unbundled(m, p, e) : e \in m.ids}
      ELSE {ToInvoke(CopyOf(m), p, e) : e \in CHOOSE S \in LocalElements(p, holder) : TRUE}

-----------------------------------------------------------------------------
(* What the driver sends *)

Sent(m) == [CopyOf(m) EXCEPT !.block = m.block]

Departed(p, m) == [channel EXCEPT ![p][m.dest] = Append(@, Sent(m))]

(* send_to_children, for a number of broadcasts; ch is what channel is.    *)
ToChildren(ch, p, ms) ==
  [ch EXCEPT ![p] =
    [q \in Process |->
       IF q \notin Children(p) THEN @[q]
       ELSE @[q] \o [i \in DOMAIN ms |-> Redirected(CopyOf(ms[i]), q)]]]

(* Mutant of InitiateSend: each process starts its broadcasts itself.      *)
InitiateSendHere(p, m) ==
  /\ BagIn(m, outgoing[p])
  /\ outgoing' = [outgoing EXCEPT ![p] = @ (-) SetToBag({m})]
  /\ IF m.type # "Broadcast"
     THEN channel' = Departed(p, m) /\ UNCHANGED tasks
     ELSE /\ channel' = ToChildren(channel, p, <<m>>)
          /\ tasks' = [tasks EXCEPT ![p] = @ (+) SetToBag(LocalTasks(p, m))]
  /\ UNCHANGED <<made, ran>>

(* initiate_sends, one message of it.  A broadcast begins at process 0.    *)
InitiateSend(p, m) ==
  /\ BagIn(m, outgoing[p])
  /\ outgoing' = [outgoing EXCEPT ![p] = @ (-) SetToBag({m})]
  /\ IF m.type # "Broadcast"
     THEN channel' = Departed(p, m) /\ UNCHANGED tasks
     ELSE IF m.dest = p /\ m.source = p /\ p # Root
     THEN channel' = Departed(p, Redirected(m, Root)) /\ UNCHANGED tasks
     ELSE /\ channel' = ToChildren(channel, p, <<m>>)
          /\ tasks' = [tasks EXCEPT ![p] = @ (+) SetToBag(LocalTasks(p, m))]
  /\ UNCHANGED <<made, ran>>

-----------------------------------------------------------------------------
(* clean_incoming_mpi_messages, the messages ms having come in: broadcasts *)
(* go on to the children, and what they are here is added to the tasks.    *)
(* It throws if a message names more elements than there are here.         *)

Broadcasts(ms) == {m \in ToSet(ms) : m.type = "Broadcast"}
Fits(p, m) ==
  /\ m.type # "Invoke" => m.object \in DOMAIN distributed_objects[p]
  /\ m.type = "BroadcastTo" =>
    Cardinality(m.ids) <= distributed_objects[p][m.object].number_of_local_objects

(* BulkEnqueueIterator: if all are messages of invoke, they are the tasks. *)
InBulk(ms) == [m \in ToSet(ms) |-> Cardinality({i \in DOMAIN ms : ms[i] = m})]

TasksFrom(p, ms) ==
  LET Of(m) == IF m.type = "Invoke" THEN {m} ELSE LocalTasks(p, m)
  IN  IF \A i \in DOMAIN ms : ms[i].type = "Invoke" THEN InBulk(ms)
      ELSE [t \in UNION {Of(ms[i]) : i \in DOMAIN ms} |->
              Cardinality({i \in DOMAIN ms : t \in Of(ms[i])})]

(* Mutant of ForwardedFrom: broadcasts stop here.                          *)
ForwardedFromNone(ch, p, ms) == ch

ForwardedFrom(ch, p, ms) == ToChildren(ch, p, Selected(ms, Broadcasts(ms)))

HandOn(ch, p, ms) ==
  /\ \A i \in DOMAIN ms : Fits(p, ms[i])
  /\ tasks' = [tasks EXCEPT ![p] = @ (+) TasksFrom(p, ms)]
  /\ channel' = ForwardedFrom(ch, p, ms)
  /\ UNCHANGED <<made, outgoing, ran>>

-----------------------------------------------------------------------------
(* DistributedTaskDriver::invoke and findus_invoke_action_impl             *)

(* What the action is called with.                                         *)
Seen(m) == IF m.form \in {"object", "packed"} THEN m.arguments ELSE m.form

(* Its arguments are moved out of the object in the message; a packed one  *)
(* is unpacked anew.                                                       *)
AfterRun(m) ==
  [m EXCEPT !.form = IF @ = "object" /\ m.arguments \notin Plain THEN "moved" ELSE @,
            !.again = FALSE]

(* There has to be something in the place, and an element has to be here.  *)
(* That it is of the class the action is for, a dynamic_cast, is left to   *)
(* ExactlyTheAddressed.                                                    *)
Runs(p, m) ==
  /\ m.object \in DOMAIN distributed_objects[p]
  /\ LET holder == distributed_objects[p][m.object]
     IN  /\ holder.name \in Collections <=> m.index # NoIndex
         /\ m.index # NoIndex => m.index \in DOMAIN holder.objects /\ holder.objects[m.index] = p

Run(p, m) ==
  /\ BagIn(m, tasks[p])
  /\ Runs(p, m)
  /\ ran' = ran (+) SetToBag({[call |-> m.call, process |-> p, index |-> m.index,
                               component |-> distributed_objects[p][m.object].name,
                               seen |-> Seen(m), form |-> m.form, again |-> m.again]})
  /\ tasks' = [tasks EXCEPT ![p] =
       (@ (-) SetToBag({m})) (+) (IF m.again THEN SetToBag({AfterRun(m)}) ELSE EmptyBag)]
  /\ UNCHANGED <<made, outgoing, channel>>
=============================================================================
