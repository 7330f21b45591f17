-------------------------- MODULE InterProcessReduction --------------------------
(***************************************************************************)
(* The part of a reduction that crosses processes: each process whose      *)
(* elements contribute combines what they have contributed into one        *)
(* message, adds what comes from below, and sends the result to the        *)
(* nearest process above that contributes too, or else to the root.  How   *)
(* many messages a process has to wait for is written into the messages    *)
(* themselves, and a process can hear from below before its own elements   *)
(* have contributed.                                                       *)
(*                                                                         *)
(* Only the driver thread of a process works on its table, so that         *)
(* send_reduction_message_impl is one step.  What is combined is the set   *)
(* of the processes whose contributions it contains.                       *)
(***************************************************************************)
EXTENDS ProcessTree, Sequences, FiniteSetsExt

CONSTANTS
  Id,       \* the reductions; 0 is the sentinel
  Size      \* max_simultaneous_reductions

ASSUME IdAssumption == Id \subseteq Nat \ {0}
(* There is a slot for every reduction in progress.  Beyond that           *)
(* combine_inter_process drops messages without a word.                    *)
ASSUME SizeAssumption == Size \in Nat \ {0} /\ Cardinality(Id) <= Size

VARIABLES
  contributors,  \* the processes with an element that satisfies the predicate
  made,          \* whose own message for a reduction has been combined
  entries,       \* inter_process_entries_ of each process
  wire,          \* reduction messages between processes
  result         \* what the callback of each reduction has been given

vars == <<contributors, made, entries, wire, result>>

Slot == 0 .. Size - 1
Empty == [id |-> 0]
IsEmpty(e) == e.id = 0

Bound == N + 1    \* no count leaves -Bound .. Bound

(* The metadata of a reduction message, and its data.                      *)
Message == [id : Id, target : Process, source : Process,
            expected : -Bound .. Bound, root : 0 .. N, data : SUBSET Process]

TypeOK ==
  /\ contributors \in [Id -> SUBSET Process]
  /\ made \in [Id -> SUBSET Process]
  /\ entries \in [Process -> [Slot -> Message \cup {Empty}]]
  /\ wire \subseteq Message
  /\ result \in [Id -> SUBSET Process]

Init ==
  /\ contributors \in [Id -> (SUBSET Process) \ {{}}]
  /\ made = [r \in Id |-> {}]
  /\ entries = [p \in Process |-> [i \in Slot |-> Empty]]
  /\ wire = {}
  /\ result = [r \in Id |-> {}]

-----------------------------------------------------------------------------
(* set_interprocess_message_info                                           *)

(* Mutants of LocalMessage: the root is not told how many to expect; "no   *)
(* parent" is not the root.                                                *)
LocalMessageForOthers(p, r) ==
  LET above == FirstParent(p, contributors[r]) IN
  [id |-> r, source |-> p,
   target |-> IF p = Root \/ above = None THEN Root ELSE above,
   expected |-> Cardinality(FirstDescendants(p, contributors[r])) + 1,
   root |-> 0, data |-> {p}]

LocalMessageToNobody(p, r) ==
  LET S == contributors[r] IN
  [id |-> r, source |-> p,
   target |-> IF p = Root THEN Root ELSE FirstParent(p, S),
   expected |-> Cardinality(FirstDescendants(p, S)) + 1,
   root |-> IF p # Root /\ FirstParent(p, S) = None
            THEN Cardinality(FirstDescendants(Root, S)) ELSE 0,
   data |-> {p}]

(* The message of p's own contributions.  The root cannot tell how many    *)
(* messages it will get if none of its elements contributes: then the      *)
(* messages sent to it tell it.                                            *)
LocalMessage(p, r) ==
  LET S == contributors[r]
      above == FirstParent(p, S) IN
  [id |-> r, source |-> p,
   target |-> IF p = Root \/ above = None THEN Root ELSE above,
   expected |-> Cardinality(FirstDescendants(p, S)) + 1,
   root |-> IF p # Root /\ above = None /\ Root \notin S
            THEN Cardinality(FirstDescendants(Root, S)) ELSE 0,
   data |-> {p}]

-----------------------------------------------------------------------------
(* combine_inter_process                                                   *)

(* The slots in the order in which they are probed.                        *)
Probed(r, j) == (r + j) % Size

(* The first slot that holds r or is free.                                 *)
Found(p, r) ==
  Probed(r, Min({j \in Slot : entries[p][Probed(r, j)].id \in {r, 0}}))

(* Mutant of Inserted: a message from below is counted against itself, not *)
(* against what the process expects.                                       *)
InsertedFinal(p, m, remote) ==
  [m EXCEPT !.expected = IF remote /\ p = Root /\ m.root # 0 THEN m.root - 1
                         ELSE IF remote THEN 0 ELSE m.expected - 1]

(* The first message.  A message from below brings the number its sender   *)
(* has counted down to zero.                                               *)
Inserted(p, m, remote) ==
  [m EXCEPT !.expected = IF remote /\ p = Root /\ m.root # 0 THEN m.root - 1
                         ELSE m.expected - 1]

(* Mutants of Combined: the expected number of the local message is taken  *)
(* as it is, whatever has come before it; what comes is not combined with  *)
(* what is there but replaces it.                                          *)
CombinedAfresh(p, e, m) ==
  LET own == m.source = p IN
  [e EXCEPT !.expected = IF own THEN m.expected - 1 ELSE e.expected - 1,
            !.target = IF own THEN m.target ELSE e.target,
            !.root = IF own THEN m.root ELSE e.root,
            !.data = e.data \cup m.data]

CombinedInstead(p, e, m) ==
  LET own == m.source = p IN
  [e EXCEPT !.expected = e.expected + m.expected - 1,
            !.target = IF own THEN m.target ELSE e.target,
            !.root = IF own THEN m.root ELSE e.root,
            !.data = m.data]

(* A further message, in either order.                                     *)
Combined(p, e, m) ==
  LET own == m.source = p IN
  [e EXCEPT !.expected = e.expected + m.expected - 1,
            !.target = IF own THEN m.target ELSE e.target,
            !.root = IF own THEN m.root ELSE e.root,
            !.data = e.data \cup m.data]

(* What becomes of the message m at p, rest being the others on the wire.  *)
Combine(p, m, remote, rest) ==
  LET i == Found(p, m.id)
      old == entries[p][i]
      new == IF IsEmpty(old) THEN Inserted(p, m, remote) ELSE Combined(p, old, m)
  IN
  \/ /\ new.expected # 0
     /\ entries' = [entries EXCEPT ![p][i] = new]
     /\ wire' = rest
     /\ UNCHANGED result
  \/ /\ new.expected = 0
     /\ entries' = [entries EXCEPT ![p][i] = Empty]
     /\ \/ /\ p # Root
           /\ wire' = rest \cup {[new EXCEPT !.source = p]}
           /\ UNCHANGED result
        \/ /\ p = Root
           /\ result' = [result EXCEPT ![m.id] = new.data]
           /\ wire' = rest

(* The local message comes out of outgoing_messages_.                      *)
Contribute(p, r) ==
  /\ p \in contributors[r] \ made[r]
  /\ made' = [made EXCEPT ![r] = @ \cup {p}]
  /\ Combine(p, LocalMessage(p, r), FALSE, wire)
  /\ UNCHANGED contributors

(* A message from below is complete: large messages may overtake others.   *)
Deliver(m) ==
  /\ m \in wire
  /\ Combine(m.target, m, TRUE, wire \ {m})
  /\ UNCHANGED <<contributors, made>>

Next ==
  \/ \E p \in Process, r \in Id : Contribute(p, r)
  \/ \E m \in wire : Deliver(m)

Spec == Init /\ [][Next]_vars

-----------------------------------------------------------------------------
(* Properties *)

(* What is held for a reduction, anywhere.                                 *)
Held(r) == {h \in Process \X Slot : entries[h[1]][h[2]].id = r}
Flying(r) == {m \in wire : m.id = r}

(* The callback gets the contributions of all the contributors, not of     *)
(* some: nobody stops waiting too early, whatever the order of arrival.    *)
ResultIsWhole ==
  \A r \in Id : result[r] # {} => result[r] = contributors[r]

(* Each contribution that has been made is in one place: it is not         *)
(* combined twice and not dropped.                                         *)
ContributionsAreConserved ==
  \A r \in Id : \A p \in made[r] :
    Cardinality({h \in Held(r) : p \in entries[h[1]][h[2]].data})
      + Cardinality({m \in Flying(r) : p \in m.data})
      + (IF p \in result[r] THEN 1 ELSE 0) = 1

(* "The reduction is complete": when everybody has contributed and nothing *)
(* is on its way, the callback has been called.  No process waits for a    *)
(* message nobody will send.                                               *)
NobodyWaitsInVain ==
  \A r \in Id : made[r] = contributors[r] /\ Flying(r) = {} => result[r] # {}
=============================================================================
