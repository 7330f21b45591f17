---------------------------- MODULE IncomingMessages ----------------------------
(***************************************************************************)
(* How one process takes in messages: the receiving half of a turn of      *)
(* run_to_quiescence.  initiate_receives asks one process after another    *)
(* for a message and starts to receive it; clean_incoming_mpi_messages     *)
(* picks the messages that are complete out of incoming_mpi_messages_ and  *)
(* hands them on, to the thread pool or to the reductions.                 *)
(*                                                                         *)
(* incoming is that vector, an entry being the pair of the MPI request of  *)
(* a message and the buffer that owns it.  A buffer is Null once it has    *)
(* been moved from.                                                        *)
(***************************************************************************)
EXTENDS Selection, FiniteSets, SequencesExt

CONSTANTS
  N,              \* how many processes there are
  Self,           \* the one that receives
  Msg,            \* the messages sent to it
  Source,         \* the process each message comes from
  Rendezvous,     \* those whose data arrive after the receive has started
  Null,
  MaxToReceive    \* the argument max_to_receive

(* What the module takes for granted of them; who uses it assumes it.      *)
ParametersFit ==
  /\ N \in Nat /\ Self \in 0 .. N - 1
  /\ Null \notin Msg /\ Rendezvous \subseteq Msg
  /\ Source \in [Msg -> (0 .. N - 1) \ {Self}]
  /\ MaxToReceive \in Nat \ {0}

VARIABLES
  unsent,      \* messages that are yet to be sent
  wire,        \* what each process has sent, in order
  node,        \* node_id_for_receive_
  turn,        \* number_of_receives in initiate_receives
  incoming,    \* incoming_mpi_messages_
  complete,    \* the messages whose request is complete
  handed,      \* how often each message was handed on
  pc           \* "receive", "clean", or "crashed"

vars == <<unsent, wire, node, turn, incoming, complete, handed, pc>>

Entry == [request : Msg, buffer : Msg \cup {Null}]

TypeOK ==
  /\ unsent \subseteq Msg /\ complete \subseteq Msg
  /\ wire \in [0 .. N - 1 -> Seq(Msg)]
  /\ node \in 0 .. N
  /\ turn \in 0 .. MaxToReceive
  /\ incoming \in Seq(Entry)
  /\ handed \in [Msg -> Nat]
  /\ pc \in {"receive", "clean", "crashed"}

Init ==
  /\ unsent = Msg
  /\ wire = [p \in 0 .. N - 1 |-> <<>>]
  /\ node = 0 /\ turn = 0
  /\ incoming = <<>>
  /\ complete = {}
  /\ handed = [m \in Msg |-> 0]
  /\ pc = "receive"

-----------------------------------------------------------------------------
(* The other processes and MPI *)

Send(m) ==
  /\ m \in unsent
  /\ unsent' = unsent \ {m}
  /\ wire' = [wire EXCEPT ![Source[m]] = Append(@, m)]
  /\ UNCHANGED <<node, turn, incoming, complete, handed, pc>>

(* The data of a large message arrive.                                     *)
Complete(m) ==
  /\ \E i \in DOMAIN incoming : incoming[i].request = m
  /\ m \notin complete
  /\ complete' = complete \cup {m}
  /\ UNCHANGED <<unsent, wire, node, turn, incoming, handed, pc>>

-----------------------------------------------------------------------------
(* initiate_receives *)

Asked == IF node >= N THEN 0 ELSE node

(* The process asked has sent something: Irecv.  A small message is there  *)
(* at once.                                                                *)
Receive ==
  /\ pc = "receive" /\ turn < MaxToReceive
  /\ Asked # Self /\ wire[Asked] # <<>>
  /\ LET m == Head(wire[Asked]) IN
       /\ wire' = [wire EXCEPT ![Asked] = Tail(@)]
       /\ incoming' = Append(incoming, [request |-> m, buffer |-> m])
       /\ complete' = IF m \in Rendezvous THEN complete ELSE complete \cup {m}
  /\ node' = Asked + 1
  /\ turn' = turn + 1
  /\ UNCHANGED <<unsent, handed, pc>>

(* Mutant of Skip: the turn moves on twice.                                *)
SkipTwice ==
  /\ pc = "receive" /\ turn < MaxToReceive
  /\ Asked = Self \/ wire[Asked] = <<>>
  /\ node' = Asked + 2
  /\ turn' = turn + 1
  /\ UNCHANGED <<unsent, wire, incoming, complete, handed, pc>>

(* It is this process, or Iprobe finds nothing.                            *)
Skip ==
  /\ pc = "receive" /\ turn < MaxToReceive
  /\ Asked = Self \/ wire[Asked] = <<>>
  /\ node' = Asked + 1
  /\ turn' = turn + 1
  /\ UNCHANGED <<unsent, wire, incoming, complete, handed, pc>>

(* Mutant of ReceivesDone: each call begins with process 0 again.          *)
ReceivesDoneAfresh ==
  /\ pc = "receive" /\ turn = MaxToReceive
  /\ turn' = 0 /\ node' = 0
  /\ pc' = "clean"
  /\ UNCHANGED <<unsent, wire, incoming, complete, handed>>

ReceivesDone ==
  /\ pc = "receive" /\ turn = MaxToReceive
  /\ turn' = 0
  /\ pc' = "clean"
  /\ UNCHANGED <<unsent, wire, node, incoming, complete, handed>>

-----------------------------------------------------------------------------
(* clean_incoming_mpi_messages *)

Done(e) == e.request \in complete
Pending == {e \in ToSet(incoming) : ~Done(e)}
Kept == Selected(incoming, Pending)

(* What std::remove_if leaves behind the entries it keeps.  It has moved   *)
(* forward the pending ones, over complete ones: theirs are the buffers    *)
(* that are gone, and the place a pending one has left is moved from.      *)
Removed ==
  LET Left(e) == IF Done(e) THEN e ELSE [e EXCEPT !.buffer = Null]
  IN  [i \in 1 .. Len(incoming) - Len(Kept) |-> Left(incoming[Len(Kept) + i])]

(* Mutant of Clean: all the entries are erased.                            *)
CleanAll ==
  /\ pc = "clean"
  /\ handed' = [m \in Msg |-> handed[m] +
                  Cardinality({i \in DOMAIN Removed : Removed[i].buffer = m})]
  /\ incoming' = <<>>
  /\ pc' = "receive"
  /\ UNCHANGED <<unsent, wire, node, turn, complete>>

(* Mutant of Clean: the entries are looked at and left in the vector.      *)
CleanNothing ==
  /\ pc = "clean"
  /\ handed' = [m \in Msg |-> handed[m] +
                  Cardinality({i \in DOMAIN Removed : Removed[i].buffer = m})]
  /\ pc' = "receive"
  /\ UNCHANGED <<unsent, wire, node, turn, complete, incoming>>

(* What remove_if left behind is taken for the messages it removed.  Each  *)
(* is counted and its header read, which needs a buffer, and handed on.    *)
Clean ==
  /\ pc = "clean"
  /\ handed' = [m \in Msg |-> handed[m] +
                  Cardinality({i \in DOMAIN Removed : Removed[i].buffer = m})]
  /\ incoming' = Kept
  /\ pc' = IF \E i \in DOMAIN Removed : Removed[i].buffer = Null
           THEN "crashed" ELSE "receive"
  /\ UNCHANGED <<unsent, wire, node, turn, complete>>

-----------------------------------------------------------------------------
Drive == Receive \/ Skip \/ ReceivesDone \/ Clean

Next ==
  \/ \E m \in Msg : Send(m)
  \/ \E m \in Rendezvous : Complete(m)
  \/ Drive

Spec == Init /\ [][Next]_vars

-----------------------------------------------------------------------------
(* Properties *)

Waiting(m) ==
  \/ m \in unsent
  \/ \E p \in 0 .. N - 1 : m \in ToSet(wire[p])
  \/ \E i \in DOMAIN incoming : incoming[i] = [request |-> m, buffer |-> m]

(* "Checks for incoming MPI messages that have been received. The messages *)
(* are added to the task pool": each message is handed on once when it is  *)
(* complete, and until then it is kept.                                    *)
EachMessageOnce ==
  \A m \in Msg : handed[m] = IF Waiting(m) THEN 0 ELSE 1
=============================================================================
