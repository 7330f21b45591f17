---------------------------- MODULE GlobalQuiescence ----------------------------
(***************************************************************************)
(* qd::Global: the tree-based (BCJ) detection of quiescence across the     *)
(* processes, with the regular messages whose end it is to detect.         *)
(*                                                                         *)
(* A process calls check() only when it is locally quiescent (module       *)
(* ThreadPool): no task, no message being sent or received.  Here that is  *)
(* ~active[p].  One call of check() is one action: during the call the     *)
(* process does nothing else, so the call may be placed at its last MPI    *)
(* call, provided that each of its probes sees any prefix of what has been *)
(* sent, for a message may not have arrived yet when it is probed for.     *)
(*                                                                         *)
(* MPI keeps the order of the messages from one process to another that    *)
(* have the same tag.  A nonblocking send is complete once its message has *)
(* been received.                                                          *)
(***************************************************************************)
EXTENDS ProcessTree, Sequences, Functions, FiniteSetsExt, SequencesExt

CONSTANTS
  Int64Max,     \* numeric_limits<int64_t>::max(): "count unknown"
  MaxSent,      \* bound: regular messages the application sends in all
  MaxSweep      \* bound: sweeps the root starts before it is reset

ASSUME SeveralProcesses == N > 1
ASSUME BoundsAssumption == MaxSent \in Nat /\ MaxSweep \in Nat
                           /\ Int64Max \in Nat /\ Int64Max > MaxSent * N

VARIABLES
  active,                  \* the process is not locally quiescent
  local_sends, local_processed,
  last_regular_message_sweep_number,
  local_sweep_number,
  root_down_sweep,
  accum_data,              \* sweep -> counts that came up from the children
  phase,                   \* "running", "waiting" or "barrier"
  wire,                    \* wire[p][q]: regular messages from p to q
  down, up, term,          \* messages from the parent, to it, termination
  budget,                  \* regular messages left to send (bound)
  \* history, read by properties only
  reported,                \* who has sent its counts up in this sweep
  hidden,                  \* a message that no test can tell has gone round
  premature                \* the root has detected what was not there

appVars == <<active, local_sends, local_processed,
             last_regular_message_sweep_number, wire, budget>>
treeVars == <<local_sweep_number, root_down_sweep, accum_data, phase,
              down, up, term>>
vars == <<appVars, treeVars, reported, hidden, premature>>

Count == -Int64Max .. Int64Max
Sweep == 0 .. MaxSweep
Regular == [sweep : Sweep, broadcast : BOOLEAN]
UpMessage == [sweep : Sweep, count : Count]

TypeOK ==
  /\ active \in [Process -> BOOLEAN]
  /\ local_sends \in [Process -> Nat]
  /\ local_processed \in [Process -> Nat]
  /\ last_regular_message_sweep_number \in [Process -> Sweep]
  /\ local_sweep_number \in [Process -> Sweep]
  /\ root_down_sweep \in Sweep
  /\ \A p \in Process :
       /\ DOMAIN accum_data[p] \subseteq Sweep
       /\ \A s \in DOMAIN accum_data[p] :
            accum_data[p][s] \in [count : Count, received : 1 .. 2]
  /\ phase \in [Process -> {"running", "waiting", "barrier"}]
  /\ wire \in [Process -> [Process -> Seq(Regular)]]
  /\ down \in [Process -> Seq(Sweep)]
  /\ up \in [Process -> Seq(UpMessage)]
  /\ term \in [Process -> BOOLEAN]
  /\ budget \in 0 .. MaxSent
  /\ reported \subseteq Process
  /\ hidden \in BOOLEAN /\ premature \in BOOLEAN

Init ==
  /\ active \in [Process -> BOOLEAN]
  /\ local_sends = [p \in Process |-> 0]
  /\ local_processed = [p \in Process |-> 0]
  /\ last_regular_message_sweep_number = [p \in Process |-> 0]
  /\ local_sweep_number = [p \in Process |-> 0]
  /\ root_down_sweep = 0
  /\ accum_data = [p \in Process |-> <<>>]
  /\ phase = [p \in Process |-> "running"]
  /\ wire = [p \in Process |-> [q \in Process |-> <<>>]]
  /\ down = [p \in Process |-> <<>>]
  /\ up = [p \in Process |-> <<>>]
  /\ term = [p \in Process |-> FALSE]
  /\ budget = MaxSent
  /\ reported = {} /\ hidden = FALSE /\ premature = FALSE

InFlight == {pq \in Process \X Process : wire[pq[1]][pq[2]] # <<>>}
Quiet == (\A p \in Process : ~active[p]) /\ InFlight = {}

-----------------------------------------------------------------------------
(* Regular messages: send_message_impl, clean_incoming_mpi_messages        *)

(* p hands one copy of m to MPI for each process of to.  After its report  *)
(* of this sweep, only a message with the sweep's number can be told from  *)
(* the messages the report has counted, and only by a process that makes   *)
(* the test of LocalCount: a leaf does not.                                *)
Hand(p, to, m, w) ==
  [w EXCEPT ![p] = [q \in Process |-> IF q \in to THEN Append(@[q], m) ELSE @[q]]]

Hides(p, to, m) == to # {} /\ p \in reported /\ m.sweep < root_down_sweep
Overlooks(p, m) == IsLeaf(p) /\ p \notin reported /\ m.sweep = root_down_sweep

(* The application sends to one process: invoke stamps the message with    *)
(* the sweep, the loop hands it to MPI and counts it.  The sweep does not  *)
(* change in between, for check() is not called while p has work.          *)
Send(p, q) ==
  /\ active[p]
  /\ p # q
  /\ budget > 0
  /\ LET m == [sweep |-> local_sweep_number[p], broadcast |-> FALSE] IN
       /\ wire' = Hand(p, {q}, m, wire)
       /\ hidden' = (hidden \/ Hides(p, {q}, m))
  /\ local_sends' = [local_sends EXCEPT ![p] = @ + 1]
  /\ budget' = budget - 1
  /\ UNCHANGED <<active, local_processed, last_regular_message_sweep_number,
                 treeVars, reported, premature>>

(* The application broadcasts: the root starts the tree broadcast, any     *)
(* other process sends the message to the root first.                      *)
Broadcast(p) ==
  /\ active[p]
  /\ budget > 0
  /\ LET m == [sweep |-> local_sweep_number[p], broadcast |-> TRUE]
         to == IF p = Root THEN Children(Root) ELSE {Root} IN
       /\ wire' = Hand(p, to, m, wire)
       /\ hidden' = (hidden \/ Hides(p, to, m))
       /\ local_sends' = [local_sends EXCEPT ![p] = @ + Cardinality(to)]
  /\ budget' = budget - 1
  /\ UNCHANGED <<active, local_processed, last_regular_message_sweep_number,
                 treeVars, reported, premature>>

(* Mutant of Receive: a broadcast is passed on and not counted as sent.    *)
ReceiveUncounted(p, q) ==
  /\ phase[p] = "running"
  /\ wire[q][p] # <<>>
  /\ LET m == Head(wire[q][p])
         to == IF m.broadcast THEN Children(p) ELSE {} IN
       /\ wire' = Hand(p, to, m, [wire EXCEPT ![q][p] = Tail(@)])
       /\ last_regular_message_sweep_number' =
            [last_regular_message_sweep_number EXCEPT ![p] = Max({@, m.sweep})]
  /\ local_processed' = [local_processed EXCEPT ![p] = @ + 1]
  /\ active' \in {active, [active EXCEPT ![p] = TRUE]}
  /\ UNCHANGED <<local_sends, budget, treeVars, reported, hidden, premature>>

(* p receives a message from q.  A broadcast goes on to the children with  *)
(* the sweep number it came with.  The message becomes local tasks, or     *)
(* none: a reduction, or a component without elements here.                *)
Receive(p, q) ==
  /\ phase[p] = "running"
  /\ wire[q][p] # <<>>
  /\ LET m == Head(wire[q][p])
         to == IF m.broadcast THEN Children(p) ELSE {}
         rest == [wire EXCEPT ![q][p] = Tail(@)] IN
       /\ wire' = Hand(p, to, m, rest)
       /\ hidden' = (hidden \/ Hides(p, to, m) \/ Overlooks(p, m))
       /\ local_sends' = [local_sends EXCEPT ![p] = @ + Cardinality(to)]
       /\ last_regular_message_sweep_number' =
            [last_regular_message_sweep_number EXCEPT ![p] = Max({@, m.sweep})]
  /\ local_processed' = [local_processed EXCEPT ![p] = @ + 1]
  /\ active' \in {active, [active EXCEPT ![p] = TRUE]}
  /\ UNCHANGED <<budget, treeVars, reported, premature>>

(* The last local task is done.                                            *)
BecomeQuiescent(p) ==
  /\ active[p]
  /\ active' = [active EXCEPT ![p] = FALSE]
  /\ UNCHANGED <<local_sends, local_processed, wire, budget,
                 last_regular_message_sweep_number, treeVars,
                 reported, hidden, premature>>

-----------------------------------------------------------------------------
(* check(): the parts                                                      *)

Checks(p) == ~active[p] /\ phase[p] = "running"

safe_add(a, b) == IF a = Int64Max \/ b = Int64Max THEN Int64Max ELSE a + b

(* Mutant of LocalCount: the number of the last message is not looked at.  *)
LocalCountUntested(p) == local_sends[p] - local_processed[p]

(* What a process other than a leaf adds to the counts of its children.    *)
LocalCount(p) ==
  IF last_regular_message_sweep_number[p] > local_sweep_number[p]
  THEN Int64Max
  ELSE local_sends[p] - local_processed[p]

(* receive_up_messages_from: every message that has arrived, from the left *)
(* child first.  k says how many have arrived from each child.             *)
Accumulate(acc, m) ==
  LET old == IF m.sweep \in DOMAIN acc THEN acc[m.sweep]
             ELSE [count |-> 0, received |-> 0]
  IN  [s \in DOMAIN acc \cup {m.sweep} |->
         IF s # m.sweep THEN acc[s]
         ELSE [count |-> safe_add(old.count, m.count),
               received |-> old.received + 1]]

Arrivals(p) == [Children(p) -> {0, 1, 2}]
Arrived(p, k) == \A c \in Children(p) : k[c] <= Len(up[c])
ReceiveAll(p, k) ==
  LET from(c) == IF c \in Children(p) THEN SubSeq(up[c], 1, k[c]) ELSE <<>>
  IN  FoldLeft(Accumulate, accum_data[p],
               from(LeftChild(p)) \o from(RightChild(p)))
UpAfter(p, k) ==
  [c \in Process |-> IF c \in Children(p) THEN SubSeq(up[c], k[c] + 1, Len(up[c]))
                     ELSE up[c]]

(* Only the first sweep in the map is looked at.                           *)
First(acc) == Min(DOMAIN acc)
Complete(p, acc) ==
  DOMAIN acc # {} /\ acc[First(acc)].received = Cardinality(Children(p))

SentToChildren(p, s) ==
  [c \in Process |-> IF c \in Children(p) THEN Append(down[c], s) ELSE down[c]]
TerminationTo(p) == [c \in Process |-> term[c] \/ c \in Children(p)]

-----------------------------------------------------------------------------
(* check(): what a call does                                               *)

(* Nothing has arrived, or the root waits for its sweep.                   *)
CheckInVain(p) == Checks(p) /\ UNCHANGED vars

(* Mutant of CheckTerminated: the termination is not passed on.            *)
CheckTerminatedAlone(p) ==
  /\ Checks(p)
  /\ term[p]
  /\ term' = [term EXCEPT ![p] = FALSE]
  /\ phase' = [phase EXCEPT ![p] = "waiting"]
  /\ UNCHANGED <<appVars, local_sweep_number, root_down_sweep, accum_data,
                 down, up, reported, hidden, premature>>

(* The termination has arrived from the parent and goes on to the children.*)
CheckTerminated(p) ==
  /\ Checks(p)
  /\ term[p]
  /\ term' = [TerminationTo(p) EXCEPT ![p] = FALSE]
  /\ phase' = [phase EXCEPT ![p] = "waiting"]
  /\ UNCHANGED <<appVars, local_sweep_number, root_down_sweep, accum_data,
                 down, up, reported, hidden, premature>>

(* A leaf answers the parent's sweep.  It keeps its local_sweep_number.    *)
CheckLeaf(p) ==
  /\ Checks(p)
  /\ IsLeaf(p)
  /\ down[p] # <<>>
  /\ down' = [down EXCEPT ![p] = Tail(@)]
  /\ up' = [up EXCEPT ![p] =
              Append(@, [sweep |-> Head(down[p]),
                         count |-> local_sends[p] - local_processed[p]])]
  /\ reported' = reported \cup {p}
  /\ UNCHANGED <<appVars, local_sweep_number, root_down_sweep, accum_data,
                 phase, term, hidden, premature>>

(* An inner process passes the sweep on to its children.                   *)
CheckDown(p) ==
  /\ Checks(p)
  /\ p # Root /\ ~IsLeaf(p)
  /\ DOMAIN accum_data[p] = {}
  /\ down[p] # <<>>
  /\ down' = [SentToChildren(p, Head(down[p])) EXCEPT ![p] = Tail(@)]
  /\ UNCHANGED <<appVars, local_sweep_number, root_down_sweep, accum_data,
                 phase, up, term, reported, hidden, premature>>

(* Something came up, and a child is still missing.                        *)
CheckIncomplete(p, k) ==
  /\ Checks(p)
  /\ Arrived(p, k)
  /\ \E c \in Children(p) : k[c] > 0
  /\ ~Complete(p, ReceiveAll(p, k))
  /\ accum_data' = [accum_data EXCEPT ![p] = ReceiveAll(p, k)]
  /\ up' = UpAfter(p, k)
  /\ UNCHANGED <<appVars, local_sweep_number, root_down_sweep, phase, down,
                 term, reported, hidden, premature>>

(* Mutant of CheckInner: the counts are not erased once they are passed    *)
(* on.                                                                     *)
CheckInnerKeeps(p, k) ==
  LET acc == ReceiveAll(p, k)
      s == First(acc) IN
  /\ Checks(p)
  /\ p # Root
  /\ Arrived(p, k)
  /\ Complete(p, acc)
  /\ accum_data' = [accum_data EXCEPT ![p] = acc]
  /\ up' = [UpAfter(p, k) EXCEPT ![p] =
              Append(@, [sweep |-> s,
                         count |-> safe_add(LocalCount(p), acc[s].count)])]
  /\ local_sweep_number' = [local_sweep_number EXCEPT ![p] = s]
  /\ reported' = reported \cup {p}
  /\ UNCHANGED <<appVars, root_down_sweep, phase, down, term, hidden, premature>>

(* All the children of an inner process have answered: it answers.         *)
CheckInner(p, k) ==
  LET acc == ReceiveAll(p, k)
      s == First(acc) IN
  /\ Checks(p)
  /\ p # Root
  /\ Arrived(p, k)
  /\ Complete(p, acc)
  /\ accum_data' = [accum_data EXCEPT ![p] = Restrict(acc, DOMAIN acc \ {s})]
  /\ up' = [UpAfter(p, k) EXCEPT ![p] =
              Append(@, [sweep |-> s,
                         count |-> safe_add(LocalCount(p), acc[s].count)])]
  /\ local_sweep_number' = [local_sweep_number EXCEPT ![p] = s]
  /\ reported' = reported \cup {p}
  /\ UNCHANGED <<appVars, root_down_sweep, phase, down, term, hidden, premature>>

(* down_traversal of the root: the next sweep, of which nobody has         *)
(* reported yet.                                                           *)
StartSweep(s) ==
  /\ s <= MaxSweep
  /\ root_down_sweep' = s
  /\ down' = SentToChildren(Root, s)
  /\ reported' = {}
  /\ hidden' = FALSE

(* Mutant of CheckStart: the root does not remember the sweep it started.  *)
CheckStartAgain ==
  /\ Checks(Root)
  /\ DOMAIN accum_data[Root] = {}
  /\ StartSweep(local_sweep_number[Root] + 1)
  /\ UNCHANGED <<appVars, local_sweep_number, accum_data, phase, up, term,
                 premature>>

CheckStart ==
  /\ Checks(Root)
  /\ DOMAIN accum_data[Root] = {}
  /\ root_down_sweep <= local_sweep_number[Root]
  /\ StartSweep(local_sweep_number[Root] + 1)
  /\ UNCHANGED <<appVars, local_sweep_number, accum_data, phase, up, term,
                 premature>>

(* All the counts are in.  Zero means quiescence, anything else another    *)
(* sweep.                                                                  *)
CheckRoot(k) ==
  LET acc == ReceiveAll(Root, k)
      s == First(acc) IN
  /\ Checks(Root)
  /\ Arrived(Root, k)
  /\ Complete(Root, acc)
  /\ accum_data' = [accum_data EXCEPT ![Root] = Restrict(acc, DOMAIN acc \ {s})]
  /\ up' = UpAfter(Root, k)
  /\ local_sweep_number' = [local_sweep_number EXCEPT ![Root] = s]
  /\ \/ /\ safe_add(LocalCount(Root), acc[s].count) = 0
        /\ term' = TerminationTo(Root)
        /\ phase' = [phase EXCEPT ![Root] = "waiting"]
        /\ premature' = (premature \/ ~Quiet)
        /\ UNCHANGED <<root_down_sweep, down, reported, hidden>>
     \/ /\ safe_add(LocalCount(Root), acc[s].count) # 0
        /\ root_down_sweep <= s
        /\ StartSweep(s + 1)
        /\ UNCHANGED <<term, phase, premature>>
  /\ UNCHANGED appVars

-----------------------------------------------------------------------------
(* safe_reset and the barrier                                              *)

(* wait_for_broadcast, then back to the initial state.  A small message    *)
(* may be buffered, so the wait need not last until the child has it.      *)
Reset(p) ==
  /\ phase[p] = "waiting"
  /\ phase' = [phase EXCEPT ![p] = "barrier"]
  /\ local_sweep_number' = [local_sweep_number EXCEPT ![p] = 0]
  /\ last_regular_message_sweep_number' =
       [last_regular_message_sweep_number EXCEPT ![p] = 0]
  /\ local_sends' = [local_sends EXCEPT ![p] = 0]
  /\ local_processed' = [local_processed EXCEPT ![p] = 0]
  /\ root_down_sweep' = IF p = Root THEN 0 ELSE root_down_sweep
  /\ UNCHANGED <<active, wire, budget, accum_data, down, up, term,
                 reported, hidden, premature>>

(* MPI_Barrier.  Then run_to_quiescence returns, the program invokes what  *)
(* it likes and calls it again.                                            *)
Barrier ==
  /\ \A p \in Process : phase[p] = "barrier"
  /\ phase' = [p \in Process |-> "running"]
  /\ active' \in [Process -> BOOLEAN]
  /\ reported' = {} /\ hidden' = FALSE
  /\ UNCHANGED <<local_sends, local_processed, wire, budget,
                 last_regular_message_sweep_number, local_sweep_number,
                 root_down_sweep, accum_data, down, up, term, premature>>

-----------------------------------------------------------------------------
Check(p, k) ==
  \/ CheckInVain(p)
  \/ CheckTerminated(p)
  \/ CheckLeaf(p)
  \/ CheckDown(p)
  \/ CheckIncomplete(p, k)
  \/ CheckInner(p, k)
  \/ p = Root /\ CheckStart
  \/ p = Root /\ CheckRoot(k)

Next ==
  \/ \E p, q \in Process : Send(p, q)
  \/ \E p \in Process : Broadcast(p)
  \/ \E p, q \in Process : Receive(p, q)
  \/ \E p \in Process : BecomeQuiescent(p)
  \/ \E p \in Process : \E k \in Arrivals(p) : Check(p, k)
  \/ \E p \in Process : Reset(p)
  \/ Barrier

Spec == Init /\ [][Next]_vars

(* Every process keeps going round the loop of run_to_quiescence; what was *)
(* sent arrives; the tasks of a process come to an end.                    *)
AllUp(p) == [c \in Children(p) |-> Len(up[c])]

Fairness ==
  /\ \A p \in Process :
       /\ WF_vars(\E q \in Process : Receive(p, q))
       /\ WF_vars(BecomeQuiescent(p))
       /\ WF_vars(Check(p, AllUp(p)))
       /\ WF_vars(Reset(p))
  /\ WF_vars(Barrier)

FairSpec == Spec /\ Fairness

-----------------------------------------------------------------------------
(* Properties *)

(* QuiescenceDetection.hpp: "Returns `true` if quiescence is detected",    *)
(* "the system has reached global quiescence": when the root decides to    *)
(* terminate, no process has a task and no message is on its way.          *)
TerminationIsReal == ~premature

(* The decision can only be wrong if, during the deciding sweep, a process *)
(* that had already answered sent a message with an older sweep number (a  *)
(* leaf, or one that passes on a broadcast), or sent one to a leaf that    *)
(* was yet to answer.  However the other messages overtake the sweep, the  *)
(* test of last_regular_message_sweep_number_ catches them.                *)
OnlyHiddenMessagesDeceive == [][premature' /\ ~premature => hidden]_vars

(* While nobody has reset its counters, what the processes have sent and   *)
(* not processed is what is in flight: a message counted twice or not at   *)
(* all, in the broadcast tree for instance, would show here, and the sum   *)
(* would never be zero again.                                              *)
CountsBalance ==
  (~premature /\ \A p \in Process : phase[p] # "barrier")
    => SumFunction([p \in Process |-> local_sends[p] - local_processed[p]])
         = SumFunction([pq \in Process \X Process |-> Len(wire[pq[1]][pq[2]])])

(* safe_reset throws unless all that the process has sent up and down has  *)
(* been received and all that came up has been used: a termination never   *)
(* overtakes the sweep it ends.                                            *)
ResetFindsNothing ==
  \A p \in Process : phase[p] = "waiting" =>
    /\ DOMAIN accum_data[p] = {}
    /\ up[p] = <<>>
    /\ \A c \in Children(p) : down[c] = <<>>

(* There is one sweep at a time: a link of the tree holds at most one      *)
(* message, going one way, and every number in the tree is the root's.     *)
OneSweepAtATime ==
  \A p \in Process :
    /\ Len(down[p]) + Len(up[p]) <= 1
    /\ \A i \in DOMAIN down[p] : down[p][i] = root_down_sweep
    /\ \A i \in DOMAIN up[p] : up[p][i].sweep = root_down_sweep
    /\ DOMAIN accum_data[p] \subseteq {root_down_sweep}
    /\ \A s \in DOMAIN accum_data[p] :
         accum_data[p][s].received <= Cardinality(Children(p))

(* No process is left behind: once the root has terminated, a process that *)
(* still runs has the termination waiting at itself or at an ancestor, and *)
(* nobody enters the barrier before the root has decided.                  *)
TerminationReachesAll ==
  phase[Root] # "running" =>
    \A p \in Process : phase[p] = "running" =>
      \E a \in {p} \cup Ancestors[p] : term[a]

(* Quiescence is detected: in the sweep under way or in the next one.      *)
QuiescenceIsDetected ==
  (Quiet /\ ~premature /\ root_down_sweep < MaxSweep)
    ~> (\A p \in Process : phase[p] = "barrier")
=============================================================================
