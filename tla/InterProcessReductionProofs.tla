----------------------- MODULE InterProcessReductionProofs ------------------------
(***************************************************************************)
(* Proofs about reductions across processes, for every tree, every set of  *)
(* contributors and every order in which messages arrive.  Slots of        *)
(* different reductions do not meet: DistinctHomes.                        *)
(***************************************************************************)
EXTENDS InterProcessReduction, ProcessTreeProofs, FiniteSetTheorems

Home(r) == r % Size

(* No two reductions in progress are looked for in the same slot first.    *)
DistinctHomes == \A r, s \in Id : r # s => Home(r) # Home(s)

-----------------------------------------------------------------------------
(* The inductive invariant *)

(* Where a contributor sends its message, who sends to p, whose messages p *)
(* waits for, and those of them it has, d being what it has combined.      *)
Target(p, S) == IF FirstParent(p, S) = None THEN Root ELSE FirstParent(p, S)
Feeds(p, S) == {x \in S \ {Root} : Target(x, S) = p}
Awaited(p, S) == Feeds(p, S) \cup ({p} \cap S)
Got(p, S, d) == d \cap Awaited(p, S)

(* What a message tells the root about the number it has to wait for.      *)
RootCount(p, S) ==
  IF p # Root /\ FirstParent(p, S) = None /\ Root \notin S THEN Cardinality(Feeds(Root, S)) ELSE 0

(* What p holds for a reduction: with each contributor of which it has got *)
(* something it has all that is below that, and it has counted as many as  *)
(* it has got; what it waits for it knows once its own message is there.   *)
EntryShape(p, S, e) ==
  /\ p \in S \cup {Root}
  /\ e.data \subseteq S
  /\ Root \in e.data => p = Root
  /\ Got(p, S, e.data) # {}
  /\ \A x \in S \ (Feeds(p, S) \cup {Root, p}) : x \in e.data <=> Target(x, S) \in e.data
  /\ e.expected = (IF p \in S \ e.data THEN 0 ELSE Cardinality(Awaited(p, S)))
                    - Cardinality(Got(p, S, e.data))
  /\ p \in e.data \ {Root} => e.target = Target(p, S) /\ e.root = RootCount(p, S)

(* What is on its way holds the contributions of its source and of all     *)
(* that are below.                                                         *)
WireShape(S, m) ==
  /\ m.source \in m.data
  /\ m.data \subseteq S \ {Root}
  /\ m.target = Target(m.source, S)
  /\ m.expected = 0
  /\ m.root = RootCount(m.source, S)
  /\ \A x \in S \ {Root, m.source} : x \in m.data <=> Target(x, S) \in m.data

(* What p has combined for r.                                              *)
Has(p, r) == IF entries[p][Home(r)].id = r THEN entries[p][Home(r)].data ELSE {}
Data(r) == [p \in Process |-> Has(p, r)]

(* The contributions that have been made, mk, are in the entries, in       *)
(* messages, in the result and in hand, md, each in one place.             *)
Accounts(D, F, res, mk, S, md) ==
  /\ \A p, q \in Process : p # q => D[p] \cap D[q] = {}
  /\ \A p \in Process : \A m \in F : D[p] \cap m.data = {}
  /\ \A m, n \in F : m # n => m.data \cap n.data = {}
  /\ \A p \in Process : md \cap D[p] = {}
  /\ \A m \in F : md \cap m.data = {}
  /\ md \cap res = {}
  /\ res # {} => res = S
  /\ \A p \in Process : D[p] \cap res = {}
  /\ \A m \in F : m.data \cap res = {}
  /\ mk = (UNION {D[p] : p \in Process}) \cup (UNION {m.data : m \in F}) \cup res \cup md
  /\ mk \subseteq S

SlotsInv ==
  \A p \in Process, i \in Slot :
    LET e == entries[p][i] IN
    e.id # 0 => /\ Home(e.id) = i
                /\ EntryShape(p, contributors[e.id], e)
                /\ e.expected # 0
WireInv == \A m \in wire : WireShape(contributors[m.id], m)
AccountsInv ==
  \A r \in Id : Accounts(Data(r), Flying(r), result[r], made[r], contributors[r], {})
SomebodyContributes == \A r \in Id : contributors[r] # {}

ReductionInv == TypeOK /\ SomebodyContributes /\ SlotsInv /\ WireInv /\ AccountsInv

-----------------------------------------------------------------------------
(* The tree of the contributors *)

LEMMA ProcessFacts ==
  /\ Process \subseteq Nat /\ Root \in Process /\ None \notin Process
  /\ IsFiniteSet(Process) /\ Cardinality(Process) = N
<1>1. Process \subseteq Nat /\ Root \in Process /\ None \notin Process
  BY NAssumption DEF Process, Root, None
<1>2. IsFiniteSet(Process) /\ Cardinality(Process) = N
  BY FS_Interval, NAssumption DEF Process
<1> QED
  BY <1>1, <1>2

LEMMA TargetIsAbove ==
  ASSUME NEW S \in SUBSET Process, NEW p \in Process \ {Root}
  PROVE  /\ Target(p, S) \in S \cup {Root}
         /\ Target(p, S) \in Process
         /\ Target(p, S) < p
<1>1. FirstParent(p, S) \in S \cup {None} /\ FirstParent(p, S) < p
  BY FirstParentIsAbove
<1>2. 0 < p
  BY NAssumption DEF Process, Root
<1> QED
  BY <1>1, <1>2, ProcessFacts DEF Target, Root

LEMMA FeedsAreCounted ==
  ASSUME NEW S \in SUBSET Process, NEW q \in S \cup {Root}
  PROVE  FirstDescendants(q, S) = Feeds(q, S)
BY CountedAreThoseWhoSend DEF Feeds, Target

LEMMA FeedsFacts ==
  ASSUME NEW S \in SUBSET Process, NEW p \in Process
  PROVE  /\ Feeds(p, S) \subseteq S \ {Root, p}
         /\ IsFiniteSet(Feeds(p, S)) /\ Cardinality(Feeds(p, S)) \in 0 .. N
         /\ IsFiniteSet(Awaited(p, S)) /\ Cardinality(Awaited(p, S)) \in 0 .. N
         /\ Cardinality(Awaited(p, S)) =
              Cardinality(Feeds(p, S)) + (IF p \in S THEN 1 ELSE 0)
<1>1. Feeds(p, S) \subseteq S \ {Root, p}
  BY TargetIsAbove, ProcessFacts DEF Feeds
<1>2. Feeds(p, S) \subseteq Process /\ Awaited(p, S) \subseteq Process
  BY <1>1 DEF Awaited
<1>3. \A T \in SUBSET Process : IsFiniteSet(T) /\ Cardinality(T) \in 0 .. N
  <2> TAKE T \in SUBSET Process
  <2>1. IsFiniteSet(T) /\ Cardinality(T) <= Cardinality(Process)
    BY ProcessFacts, FS_Subset
  <2>2. Cardinality(T) \in Nat
    BY <2>1, FS_CardinalityType
  <2> QED
    BY <2>1, <2>2, ProcessFacts, NAssumption
<1>4. CASE p \in S
  <2>1. Awaited(p, S) = Feeds(p, S) \cup {p} /\ p \notin Feeds(p, S)
    BY <1>1, <1>4 DEF Awaited
  <2>2. Cardinality(Feeds(p, S) \cup {p}) = Cardinality(Feeds(p, S)) + 1
    BY <2>1, <1>2, <1>3, FS_AddElement
  <2> QED
    BY <1>1, <1>2, <1>3, <1>4, <2>1, <2>2
<1>5. CASE p \notin S
  <2>1. Awaited(p, S) = Feeds(p, S)
    BY <1>5 DEF Awaited
  <2> QED
    BY <1>1, <1>2, <1>3, <1>5, <2>1
<1> QED
  BY <1>4, <1>5

LEMMA GotFacts ==
  ASSUME NEW S \in SUBSET Process, NEW p \in Process, NEW d
  PROVE  /\ IsFiniteSet(Got(p, S, d)) /\ Cardinality(Got(p, S, d)) \in Nat
         /\ Cardinality(Got(p, S, d)) <= Cardinality(Awaited(p, S))
         /\ Got(p, S, d) \subseteq Awaited(p, S)
         /\ Cardinality(Got(p, S, d)) = Cardinality(Awaited(p, S)) =>
              Got(p, S, d) = Awaited(p, S)
         /\ Got(p, S, d) = {} <=> Cardinality(Got(p, S, d)) = 0
<1>1. Got(p, S, d) \subseteq Awaited(p, S) /\ IsFiniteSet(Awaited(p, S))
  BY FeedsFacts DEF Got
<1>2. /\ IsFiniteSet(Got(p, S, d))
      /\ Cardinality(Got(p, S, d)) <= Cardinality(Awaited(p, S))
      /\ Cardinality(Got(p, S, d)) = Cardinality(Awaited(p, S)) =>
              Got(p, S, d) = Awaited(p, S)
  BY <1>1, FS_Subset
<1> QED
  BY <1>1, <1>2, FS_CardinalityType, FS_EmptySet

(* All that is in a message is at its source or below, by number.          *)
LEMMA SourceIsSmallest ==
  ASSUME NEW S \in SUBSET Process, NEW m, WireShape(S, m)
  PROVE  \A x \in m.data : m.source <= x
<1> DEFINE T == {x \in m.data : ~(m.source <= x)}
<1>0. m.data \subseteq S \ {Root} /\ m.source \in Process \ {Root}
  BY DEF WireShape
<1>1. SUFFICES ASSUME T # {} PROVE FALSE
  OBVIOUS
<1>2. PICK x \in T : \A y \in T : x <= y
  <2>1. T \in SUBSET Process
    BY <1>0
  <2> HIDE DEF T
  <2> QED
    BY <1>1, <2>1, SmallestProcess
<1>3. x \in S \ {Root} /\ x # m.source
  BY <1>0, <1>2, ProcessFacts
<1>4. Target(x, S) \in m.data /\ Target(x, S) < x
  BY <1>2, <1>3, TargetIsAbove DEF WireShape
<1>5. x \in Nat /\ Target(x, S) \in Nat /\ m.source \in Nat
  BY <1>0, <1>3, TargetIsAbove, ProcessFacts
<1>6. ~(x <= Target(x, S))
  BY <1>4, <1>5
<1>7. m.source <= Target(x, S)
  BY <1>2, <1>4, <1>6
<1>8. ~(m.source <= x)
  BY <1>2
<1> QED
  BY <1>4, <1>5, <1>7, <1>8

LEMMA HolderIsSmallest ==
  ASSUME NEW S \in SUBSET Process, NEW p \in Process, NEW e, EntryShape(p, S, e)
  PROVE  \A x \in e.data : p <= x
<1> DEFINE T == {x \in e.data : ~(p <= x)}
<1>0. e.data \subseteq S
  BY DEF EntryShape
<1>1. SUFFICES ASSUME T # {} PROVE FALSE
  OBVIOUS
<1>2. PICK x \in T : \A y \in T : x <= y
  <2>1. T \in SUBSET Process
    BY <1>0
  <2> HIDE DEF T
  <2> QED
    BY <1>1, <2>1, SmallestProcess
<1>3. x \in S /\ x # p /\ x \in e.data
  BY <1>0, <1>2, ProcessFacts
<1>4. x # Root
  BY <1>3 DEF EntryShape
<1>5. Target(x, S) < x /\ Target(x, S) \in Process
  BY <1>3, <1>4, TargetIsAbove
<1>6. x \notin Feeds(p, S)
  <2>1. SUFFICES ASSUME Target(x, S) = p PROVE FALSE
    BY DEF Feeds
  <2> QED
    BY <2>1, <1>2, <1>3, <1>5, ProcessFacts
<1>7. Target(x, S) \in e.data
  BY <1>3, <1>4, <1>6 DEF EntryShape
<1>8. x \in Nat /\ Target(x, S) \in Nat /\ p \in Nat
  BY <1>3, <1>5, ProcessFacts
<1>9. ~(x <= Target(x, S))
  BY <1>8, <1>5
<1>10. p <= Target(x, S)
  BY <1>2, <1>7, <1>9
<1>11. ~(p <= x)
  BY <1>2
<1> QED
  BY <1>5, <1>8, <1>10, <1>11

-----------------------------------------------------------------------------
(* What combine_inter_process makes of a message *)

(* The message a process combines next: its own or one that has come in.   *)
InHand(S, p, m, remote) ==
  \/ /\ ~remote /\ p \in S /\ m.source = p /\ m.data = {p}
     /\ m.expected = Cardinality(Awaited(p, S))
     /\ m.root = RootCount(p, S)
     /\ p # Root => m.target = Target(p, S)
  \/ /\ remote /\ m.target = p /\ WireShape(S, m)

DataOf(e) == IF IsEmpty(e) THEN {} ELSE e.data
NewEntry(p, e, m, remote) == IF IsEmpty(e) THEN Inserted(p, m, remote) ELSE Combined(p, e, m)

LEMMA MessageIds ==
  /\ \A m \in Message : m.id \in Id /\ m.id # 0 /\ ~IsEmpty(m)
  /\ IsEmpty(Empty) /\ Empty.id = 0
BY IdAssumption DEF Message, Empty, IsEmpty

LEMMA LocalMessageInHand ==
  ASSUME NEW r \in Id, contributors[r] \in SUBSET Process, NEW p \in contributors[r]
  PROVE  /\ LocalMessage(p, r) \in Message
         /\ LocalMessage(p, r).id = r
         /\ InHand(contributors[r], p, LocalMessage(p, r), FALSE)
<1> DEFINE S == contributors[r]
           m == LocalMessage(p, r)
<1>1. p \in Process /\ p \in S \cup {Root} /\ Root \in S \cup {Root}
  OBVIOUS
<1>2. FirstDescendants(p, S) = Feeds(p, S) /\ FirstDescendants(Root, S) = Feeds(Root, S)
  BY <1>1, FeedsAreCounted
<1>3. /\ m.id = r /\ m.source = p /\ m.data = {p}
      /\ m.target = IF p = Root \/ FirstParent(p, S) = None THEN Root ELSE FirstParent(p, S)
      /\ m.expected = Cardinality(Feeds(p, S)) + 1
      /\ m.root = RootCount(p, S)
  BY <1>2 DEF LocalMessage, RootCount
<1>4. /\ Cardinality(Awaited(p, S)) = Cardinality(Feeds(p, S)) + 1
      /\ Cardinality(Feeds(p, S)) \in 0 .. N
      /\ Cardinality(Feeds(Root, S)) \in 0 .. N
  BY <1>1, FeedsFacts, ProcessFacts
<1>5. p # Root => m.target = Target(p, S)
  BY <1>3 DEF Target
<1>6. m.target \in Process
  <2>1. CASE p = Root
    BY <2>1, <1>3, ProcessFacts
  <2>2. CASE p # Root
    BY <2>2, <1>1, <1>5, TargetIsAbove
  <2> QED
    BY <2>1, <2>2
<1>7. m.expected \in -Bound .. Bound
  BY <1>3, <1>4, NAssumption DEF Bound
<1>8. m.root \in 0 .. N
  BY <1>3, <1>4, NAssumption DEF RootCount
<1>9. m \in Message
  BY <1>1, <1>3, <1>6, <1>7, <1>8 DEF LocalMessage, Message
<1> QED
  BY <1>3, <1>4, <1>5, <1>9 DEF InHand

(* With a message a process gets just one of the contributors it waits for.*)
LEMMA GotGrows ==
  ASSUME NEW S \in SUBSET Process, NEW p \in S \cup {Root}, NEW m, NEW remote \in BOOLEAN,
         InHand(S, p, m, remote), NEW d, d \cap m.data = {}
  PROVE  /\ Got(p, S, d \cup m.data) = Got(p, S, d) \cup {m.source}
         /\ m.source \in m.data /\ m.source \in Awaited(p, S)
         /\ Cardinality(Got(p, S, d \cup m.data)) = Cardinality(Got(p, S, d)) + 1
         /\ remote => m.source # p /\ m.source \in Feeds(p, S) /\ p \notin m.data
<1>0. p \in Process
  BY ProcessFacts
<1>1. /\ m.data \cap Awaited(p, S) = {m.source} /\ m.source \in m.data
      /\ remote => m.source # p /\ m.source \in Feeds(p, S) /\ p \notin m.data
  <2>1. CASE ~remote
    <3>1. p \in S /\ m.source = p /\ m.data = {p}
      BY <2>1 DEF InHand
    <3> QED
      BY <2>1, <3>1 DEF Awaited
  <2>2. CASE remote
    <3>1. m.target = p /\ WireShape(S, m)
      BY <2>2 DEF InHand
    <3>2. /\ m.source \in S \ {Root} /\ m.source \in m.data
          /\ Target(m.source, S) = p
      BY <3>1 DEF WireShape
    <3>3. p < m.source /\ m.source \in Nat /\ p \in Nat
      BY <3>2, TargetIsAbove, ProcessFacts, <1>0
    <3>4. p \notin m.data /\ m.source # p
      <4>1. ~(m.source <= p)
        BY <3>3
      <4> QED
        BY <3>1, <3>3, <4>1, SourceIsSmallest
    <3>5. m.source \in Feeds(p, S)
      BY <3>2 DEF Feeds
    <3>6. \A x \in Feeds(p, S) : x \in m.data => x = m.source
      <4> SUFFICES ASSUME NEW x \in Feeds(p, S), x \in m.data, x # m.source PROVE FALSE
        OBVIOUS
      <4>1. x \in S \ {Root, m.source} /\ Target(x, S) = p
        BY DEF Feeds
      <4>2. Target(x, S) \in m.data
        BY <4>1, <3>1 DEF WireShape
      <4> QED
        BY <4>1, <4>2, <3>4
    <3> QED
      BY <3>2, <3>4, <3>5, <3>6 DEF Awaited
  <2> QED
    BY <2>1, <2>2
<1>2. m.source \notin Got(p, S, d)
  BY <1>1 DEF Got
<1>3. Got(p, S, d \cup m.data) = Got(p, S, d) \cup {m.source}
  BY <1>1 DEF Got
<1>4. Cardinality(Got(p, S, d) \cup {m.source}) = Cardinality(Got(p, S, d)) + 1
  BY <1>0, <1>2, GotFacts, FS_AddElement
<1> QED
  BY <1>1, <1>3, <1>4

LEMMA NewFields ==
  ASSUME NEW p \in Process, NEW m \in Message, NEW e \in Message \cup {Empty},
         NEW remote \in BOOLEAN, IsEmpty(e) \/ e.id = m.id
  PROVE  LET new == NewEntry(p, e, m, remote) IN
         /\ new.id = m.id
         /\ new.data = DataOf(e) \cup m.data
         /\ new.expected =
              IF IsEmpty(e)
              THEN IF remote /\ p = Root /\ m.root # 0 THEN m.root - 1 ELSE m.expected - 1
              ELSE e.expected + m.expected - 1
         /\ new.target = IF IsEmpty(e) \/ m.source = p THEN m.target ELSE e.target
         /\ new.root = IF IsEmpty(e) \/ m.source = p THEN m.root ELSE e.root
         /\ new.expected \in -Bound .. Bound => new \in Message
<1> DEFINE new == NewEntry(p, e, m, remote)
<1>1. CASE IsEmpty(e)
  <2>1. new = Inserted(p, m, remote)
    BY <1>1 DEF NewEntry
  <2> QED
    BY <1>1, <2>1 DEF Inserted, Message, DataOf
<1>2. CASE ~IsEmpty(e)
  <2>1. new = Combined(p, e, m) /\ e \in Message
    BY <1>2, MessageIds DEF NewEntry
  <2>2. e.id = m.id
    BY <1>2
  <2>3. new = [e EXCEPT !.expected = e.expected + m.expected - 1,
                        !.target = IF m.source = p THEN m.target ELSE e.target,
                        !.root = IF m.source = p THEN m.root ELSE e.root,
                        !.data = e.data \cup m.data]
    BY <2>1 DEF Combined
  <2>4. /\ new.id = m.id /\ new.data = e.data \cup m.data
        /\ new.expected = e.expected + m.expected - 1
        /\ new.target = IF m.source = p THEN m.target ELSE e.target
        /\ new.root = IF m.source = p THEN m.root ELSE e.root
        /\ new.source = e.source
    BY <2>1, <2>2, <2>3 DEF Message
  <2>5. new.expected \in -Bound .. Bound => new \in Message
    <3> HIDE DEF new
    <3>1. /\ new.target \in Process /\ new.root \in 0 .. N /\ new.data \subseteq Process
          /\ new.id \in Id /\ new.source \in Process
      BY <2>1, <2>4 DEF Message
    <3>2. new = [id |-> new.id, target |-> new.target, source |-> new.source,
                 expected |-> new.expected, root |-> new.root, data |-> new.data]
      BY <2>1, <2>3 DEF Message
    <3> QED
      BY <3>1, <3>2 DEF Message
  <2> QED
    BY <1>2, <2>4, <2>5 DEF DataOf
<1> QED
  BY <1>1, <1>2

(* The count of a process that has its first message.                      *)
LEMMA FirstCount ==
  ASSUME NEW S \in SUBSET Process, NEW p \in S \cup {Root}, NEW m \in Message,
         NEW remote \in BOOLEAN, InHand(S, p, m, remote)
  PROVE  (IF remote /\ p = Root /\ m.root # 0 THEN m.root - 1 ELSE m.expected - 1)
           = (IF p \in S \ m.data THEN 0 ELSE Cardinality(Awaited(p, S))) - 1
<1>0. p \in Process /\ Cardinality(Awaited(p, S)) \in Nat
  <2>1. p \in Process
    BY ProcessFacts
  <2>2. Cardinality(Awaited(p, S)) \in 0 .. N
    BY <2>1, FeedsFacts
  <2> QED
    BY <2>1, <2>2, NAssumption
<1>1. CASE ~remote
  BY <1>0, <1>1 DEF InHand
<1>2. CASE remote
  <2>1. m.target = p /\ WireShape(S, m)
    BY <1>2 DEF InHand
  <2>2. m.source \in Feeds(p, S) /\ p \notin m.data
    <3>1. {} \cap m.data = {}
      OBVIOUS
    <3> QED
      BY <1>2, <3>1, GotGrows
  <2>3. m.expected = 0 /\ m.root = RootCount(m.source, S)
    BY <2>1 DEF WireShape
  <2>4. CASE p \in S
    <3>1. p = Root => m.root = 0
      BY <2>3, <2>4 DEF RootCount
    <3> QED
      BY <1>2, <2>2, <2>3, <2>4, <3>1
  <2>5. CASE p \notin S
    <3>1. p = Root
      BY <2>5
    <3>2. m.source # Root /\ m.source \in S /\ Target(m.source, S) = Root
      BY <2>2, <3>1 DEF Feeds
    <3>3. FirstParent(m.source, S) = None
      <4>1. FirstParent(m.source, S) \in S \cup {None}
        BY <3>2, FirstParentIsAbove
      <4> QED
        BY <4>1, <3>1, <3>2, <2>5 DEF Target
    <3>4. m.root = Cardinality(Feeds(Root, S))
      BY <2>3, <2>5, <3>1, <3>2, <3>3 DEF RootCount
    <3>5. Feeds(Root, S) # {} /\ IsFiniteSet(Feeds(Root, S))
      BY <2>2, <3>1, <1>0, FeedsFacts
    <3>6. Cardinality(Feeds(Root, S)) # 0
      BY <3>5, FS_EmptySet
    <3>7. Awaited(p, S) = Feeds(Root, S)
      BY <2>5, <3>1 DEF Awaited
    <3> QED
      BY <1>2, <2>5, <3>1, <3>4, <3>6, <3>7
  <2> QED
    BY <2>4, <2>5
<1> QED
  BY <1>1, <1>2

(* Combining keeps the shape of an entry.                                  *)
LEMMA NewEntryShape ==
  ASSUME NEW S \in SUBSET Process, NEW p \in S \cup {Root}, NEW m \in Message,
         NEW remote \in BOOLEAN, InHand(S, p, m, remote),
         NEW e \in Message \cup {Empty}, IsEmpty(e) \/ (e.id = m.id /\ EntryShape(p, S, e)),
         DataOf(e) \cap m.data = {}
  PROVE  /\ EntryShape(p, S, NewEntry(p, e, m, remote))
         /\ NewEntry(p, e, m, remote) \in Message
<1> DEFINE new == NewEntry(p, e, m, remote)
           d == DataOf(e)
<1>1. p \in Process
  BY ProcessFacts
<1>2. /\ new.id = m.id
      /\ new.data = d \cup m.data
      /\ new.expected =
           IF IsEmpty(e)
           THEN IF remote /\ p = Root /\ m.root # 0 THEN m.root - 1 ELSE m.expected - 1
           ELSE e.expected + m.expected - 1
      /\ new.target = IF IsEmpty(e) \/ m.source = p THEN m.target ELSE e.target
      /\ new.root = IF IsEmpty(e) \/ m.source = p THEN m.root ELSE e.root
      /\ new.expected \in -Bound .. Bound => new \in Message
  <2>1. IsEmpty(e) \/ e.id = m.id
    OBVIOUS
  <2> QED
    BY <1>1, <2>1, NewFields
<1>3. /\ Got(p, S, d \cup m.data) = Got(p, S, d) \cup {m.source}
      /\ m.source \in m.data /\ m.source \in Awaited(p, S)
      /\ Cardinality(Got(p, S, d \cup m.data)) = Cardinality(Got(p, S, d)) + 1
      /\ remote => m.source # p /\ m.source \in Feeds(p, S) /\ p \notin m.data
  BY GotGrows
<1>4. /\ Cardinality(Awaited(p, S)) \in 0 .. N
      /\ Cardinality(Got(p, S, d)) \in Nat
      /\ Cardinality(Got(p, S, d \cup m.data)) \in Nat
      /\ Cardinality(Got(p, S, d \cup m.data)) <= Cardinality(Awaited(p, S))
  BY <1>1, GotFacts, FeedsFacts
<1>5. m.expected = IF remote THEN 0 ELSE Cardinality(Awaited(p, S))
  BY DEF InHand, WireShape
<1>6. ~remote => m.data = {p} /\ m.source = p /\ p \in S
  BY DEF InHand
<1>7. new.expected = (IF p \in S \ new.data THEN 0 ELSE Cardinality(Awaited(p, S)))
                       - Cardinality(Got(p, S, new.data))
  <2>1. CASE IsEmpty(e)
    <3>1. d = {}
      BY <2>1 DEF DataOf
    <3>2. new.data = m.data /\ Got(p, S, d) = {}
      BY <1>2, <3>1 DEF Got
    <3>3. Cardinality(Got(p, S, new.data)) = 1
      BY <1>3, <1>2, <3>2, FS_EmptySet
    <3>4. (IF remote /\ p = Root /\ m.root # 0 THEN m.root - 1 ELSE m.expected - 1)
            = (IF p \in S \ m.data THEN 0 ELSE Cardinality(Awaited(p, S))) - 1
      BY FirstCount
    <3>5. new.expected = (IF p \in S \ m.data THEN 0 ELSE Cardinality(Awaited(p, S))) - 1
      BY <1>2, <2>1, <3>4
    <3> QED
      BY <3>2, <3>3, <3>5
  <2>2. CASE ~IsEmpty(e)
    <3>1. d = e.data /\ EntryShape(p, S, e)
      BY <2>2 DEF DataOf
    <3>2. e.expected = (IF p \in S \ d THEN 0 ELSE Cardinality(Awaited(p, S)))
                         - Cardinality(Got(p, S, d))
      BY <3>1 DEF EntryShape
    <3>3. new.expected = e.expected + m.expected - 1
      BY <1>2, <2>2
    <3>4. CASE remote
      <4>1. p \in S \ d <=> p \in S \ new.data
        BY <1>2, <1>3, <3>4
      <4> HIDE DEF new, d
      <4> QED
        BY <4>1, <3>2, <3>3, <3>4, <1>2, <1>3, <1>4, <1>5
    <3>5. CASE ~remote
      <4>1. p \in S \ d /\ p \notin S \ new.data
        BY <1>2, <1>6, <3>5
      <4> HIDE DEF new, d
      <4> QED
        BY <4>1, <3>2, <3>3, <3>5, <1>2, <1>3, <1>4, <1>5
    <3> QED
      BY <3>4, <3>5
  <2> QED
    BY <2>1, <2>2
<1>8. new.expected \in -Bound .. Bound
  <2> HIDE DEF new, d
  <2> QED
    BY <1>2, <1>4, <1>7, NAssumption DEF Bound
<1>9. m.data \subseteq S /\ (Root \in m.data => p = Root)
  <2>1. CASE remote
    BY <2>1 DEF InHand, WireShape
  <2>2. CASE ~remote
    BY <2>2, <1>6
  <2> QED
    BY <2>1, <2>2
<1>10. d \subseteq S /\ (Root \in d => p = Root)
  BY DEF DataOf, EntryShape
<1>11. ASSUME NEW x \in S \ (Feeds(p, S) \cup {Root, p})
       PROVE  x \in new.data <=> Target(x, S) \in new.data
  <2>1. x \in d <=> Target(x, S) \in d
    BY <1>11 DEF DataOf, EntryShape
  <2>2. x \in m.data <=> Target(x, S) \in m.data
    <3>1. CASE remote
      <4>1. x \in S \ {Root, m.source}
        BY <1>3, <3>1
      <4> QED
        BY <4>1, <3>1 DEF InHand, WireShape
    <3>2. CASE ~remote
      <4>1. Target(x, S) # p
        BY DEF Feeds
      <4> QED
        BY <4>1, <3>2, <1>6
    <3> QED
      BY <3>1, <3>2
  <2> QED
    BY <1>2, <2>1, <2>2
<1>12. ASSUME p \in new.data \ {Root}
       PROVE  new.target = Target(p, S) /\ new.root = RootCount(p, S)
  <2>1. CASE remote
    <3>1. p \in d
      BY <2>1, <1>2, <1>3, <1>12
    <3>2. ~IsEmpty(e) /\ p \in e.data \ {Root} /\ EntryShape(p, S, e)
      BY <3>1, <1>12 DEF DataOf
    <3>3. e.target = Target(p, S) /\ e.root = RootCount(p, S)
      BY <3>2 DEF EntryShape
    <3> QED
      BY <2>1, <3>2, <3>3, <1>2, <1>3
  <2>2. CASE ~remote
    <3>1. m.target = Target(p, S) /\ m.root = RootCount(p, S)
      BY <2>2, <1>12 DEF InHand
    <3> QED
      BY <2>2, <3>1, <1>2, <1>6
  <2> QED
    BY <2>1, <2>2
<1>13. Got(p, S, new.data) # {}
  BY <1>2, <1>3
<1> HIDE DEF new
<1>14. new.data \subseteq S /\ (Root \in new.data => p = Root)
  BY <1>2, <1>9, <1>10
<1>15. EntryShape(p, S, new)
  BY <1>7, <1>11, <1>12, <1>13, <1>14 DEF EntryShape
<1> QED
  BY <1>2, <1>8, <1>15 DEF new

(* An entry whose count is zero has everything: what is sent on is right,  *)
(* and what the root has is all there is.                                  *)
LEMMA CountedDown ==
  ASSUME NEW S \in SUBSET Process, NEW p \in S \cup {Root}, NEW e,
         EntryShape(p, S, e), e.expected = 0
  PROVE  Awaited(p, S) \subseteq e.data
<1>1. p \in Process
  BY ProcessFacts
<1>2. /\ Cardinality(Got(p, S, e.data)) \in Nat
      /\ Cardinality(Got(p, S, e.data)) # 0
      /\ Cardinality(Awaited(p, S)) \in Nat
  <2>1. Got(p, S, e.data) # {}
    BY DEF EntryShape
  <2> QED
    BY <1>1, <2>1, GotFacts, FeedsFacts, NAssumption
<1>3. 0 = (IF p \in S \ e.data THEN 0 ELSE Cardinality(Awaited(p, S)))
            - Cardinality(Got(p, S, e.data))
  BY DEF EntryShape
<1>4. Cardinality(Got(p, S, e.data)) = Cardinality(Awaited(p, S))
  BY <1>2, <1>3
<1>5. Got(p, S, e.data) = Awaited(p, S)
  BY <1>1, <1>4, GotFacts
<1> QED
  BY <1>5 DEF Got

LEMMA SentOn ==
  ASSUME NEW S \in SUBSET Process, NEW p \in S \cup {Root}, p # Root, NEW e \in Message,
         EntryShape(p, S, e), e.expected = 0
  PROVE  /\ WireShape(S, [e EXCEPT !.source = p])
         /\ [e EXCEPT !.source = p] \in Message
<1> DEFINE m == [e EXCEPT !.source = p]
<1>1. p \in S /\ p \in Process
  OBVIOUS
<1>2. /\ m.source = p /\ m.data = e.data /\ m.target = e.target /\ m.expected = 0
      /\ m.root = e.root
      /\ m \in Message
  BY <1>1 DEF Message
<1>3. Awaited(p, S) \subseteq e.data
  BY CountedDown
<1>4. p \in e.data
  BY <1>1, <1>3 DEF Awaited
<1>5. e.target = Target(p, S) /\ e.root = RootCount(p, S)
  BY <1>4 DEF EntryShape
<1>6. e.data \subseteq S \ {Root}
  BY DEF EntryShape
<1>7. ASSUME NEW x \in S \ {Root, p}
      PROVE  x \in e.data <=> Target(x, S) \in e.data
  <2>1. CASE x \in Feeds(p, S)
    <3>1. Target(x, S) = p /\ x \in e.data
      BY <2>1, <1>3 DEF Feeds, Awaited
    <3> QED
      BY <3>1, <1>4
  <2>2. CASE x \notin Feeds(p, S)
    BY <2>2 DEF EntryShape
  <2> QED
    BY <2>1, <2>2
<1> HIDE DEF m
<1>8. WireShape(S, m)
  BY <1>2, <1>4, <1>5, <1>6, <1>7 DEF WireShape
<1> QED
  BY <1>2, <1>8 DEF m

LEMMA WholeAtTheRoot ==
  ASSUME NEW S \in SUBSET Process, NEW e, EntryShape(Root, S, e), e.expected = 0
  PROVE  e.data = S
<1> DEFINE T == S \ e.data
<1>1. Awaited(Root, S) \subseteq e.data /\ e.data \subseteq S
  <2>1. Root \in S \cup {Root}
    OBVIOUS
  <2> QED
    BY <2>1, CountedDown DEF EntryShape
<1>2. SUFFICES ASSUME T # {} PROVE FALSE
  BY <1>1
<1>3. PICK x \in T : \A y \in T : x <= y
  BY <1>2, SmallestProcess
<1>4. x \in S /\ x \notin e.data /\ x # Root
  BY <1>1 DEF Awaited
<1>5. x \notin Feeds(Root, S)
  BY <1>1, <1>4 DEF Awaited
<1>6. Target(x, S) \in S /\ Target(x, S) < x /\ Target(x, S) \in Nat /\ x \in Nat
  <2>1. Target(x, S) \in S \cup {Root} /\ Target(x, S) \in Process /\ Target(x, S) < x
    BY <1>4, TargetIsAbove
  <2>2. Target(x, S) # Root
    BY <1>4, <1>5 DEF Feeds
  <2> QED
    BY <2>1, <2>2, <1>4, ProcessFacts
<1>7. Target(x, S) \notin T
  <2>1. ~(x <= Target(x, S))
    BY <1>6
  <2> QED
    BY <2>1, <1>3
<1>8. Target(x, S) \in e.data
  BY <1>6, <1>7
<1> QED
  BY <1>4, <1>5, <1>8 DEF EntryShape

-----------------------------------------------------------------------------
(* Where the contributions are *)

LEMMA AccountsByElement ==
  ASSUME NEW D, NEW F, NEW res, NEW mk, NEW S, NEW md
  PROVE  mk = (UNION {D[p] : p \in Process}) \cup (UNION {m.data : m \in F}) \cup res \cup md <=>
           \A x : x \in mk <=> \/ \E p \in Process : x \in D[p]
                               \/ \E m \in F : x \in m.data
                               \/ x \in res
                               \/ x \in md
OBVIOUS

(* What was in hand stays at p.                                            *)
LEMMA AccountsKept ==
  ASSUME NEW D, NEW F, NEW res, NEW mk, NEW S, NEW md, Accounts(D, F, res, mk, S, md),
         NEW p \in Process, NEW D2,
         \A q \in Process : D2[q] = IF q = p THEN D[p] \cup md ELSE D[q]
  PROVE  Accounts(D2, F, res, mk, S, {})
<1>1. /\ \A a, b \in Process : a # b => D[a] \cap D[b] = {}
      /\ \A a \in Process : \A m \in F : D[a] \cap m.data = {}
      /\ \A m, n \in F : m # n => m.data \cap n.data = {}
      /\ \A a \in Process : md \cap D[a] = {}
      /\ \A m \in F : md \cap m.data = {}
      /\ md \cap res = {}
      /\ res # {} => res = S
      /\ \A a \in Process : D[a] \cap res = {}
      /\ \A m \in F : m.data \cap res = {}
      /\ mk \subseteq S
  BY DEF Accounts
<1>2. \A x : x \in mk <=> \/ \E a \in Process : x \in D[a]
                          \/ \E m \in F : x \in m.data
                          \/ x \in res
                          \/ x \in md
  BY AccountsByElement DEF Accounts
<1>3. \A a, b \in Process : a # b => D2[a] \cap D2[b] = {}
  BY <1>1
<1>4. \A a \in Process : (\A m \in F : D2[a] \cap m.data = {}) /\ D2[a] \cap res = {}
  BY <1>1
<1>5. \A x : x \in mk <=> \/ \E a \in Process : x \in D2[a]
                          \/ \E m \in F : x \in m.data
                          \/ x \in res
                          \/ x \in {}
  <2>1. \A x : (\E a \in Process : x \in D2[a]) <=> (\E a \in Process : x \in D[a]) \/ x \in md
    OBVIOUS
  <2> QED
    BY <1>2, <2>1
<1>6. mk = (UNION {D2[a] : a \in Process}) \cup (UNION {m.data : m \in F}) \cup res \cup {}
  BY <1>5, AccountsByElement
<1> QED
  BY <1>1, <1>3, <1>4, <1>6 DEF Accounts

(* What was in hand leaves in a message, with all that was at p.           *)
LEMMA AccountsSent ==
  ASSUME NEW D, NEW F, NEW res, NEW mk, NEW S, NEW md, Accounts(D, F, res, mk, S, md),
         NEW p \in Process, NEW D2, NEW n, n.data = D[p] \cup md,
         NEW G, G = F \cup {n},
         \A q \in Process : D2[q] = IF q = p THEN {} ELSE D[q]
  PROVE  Accounts(D2, G, res, mk, S, {})
<1>1. /\ \A a, b \in Process : a # b => D[a] \cap D[b] = {}
      /\ \A a \in Process : \A m \in F : D[a] \cap m.data = {}
      /\ \A m, k \in F : m # k => m.data \cap k.data = {}
      /\ \A a \in Process : md \cap D[a] = {}
      /\ \A m \in F : md \cap m.data = {}
      /\ md \cap res = {}
      /\ res # {} => res = S
      /\ \A a \in Process : D[a] \cap res = {}
      /\ \A m \in F : m.data \cap res = {}
      /\ mk \subseteq S
  BY DEF Accounts
<1>2. \A x : x \in mk <=> \/ \E a \in Process : x \in D[a]
                          \/ \E m \in F : x \in m.data
                          \/ x \in res
                          \/ x \in md
  BY AccountsByElement DEF Accounts
<1>3. \A a, b \in Process : a # b => D2[a] \cap D2[b] = {}
  BY <1>1
<1>4. \A a \in Process : D2[a] \cap res = {} /\ D2[a] \cap n.data = {}
  BY <1>1
<1>5. n.data \cap res = {} /\ \A m \in F : n.data \cap m.data = {}
  BY <1>1
<1>6. \A a \in Process : \A m \in G : D2[a] \cap m.data = {}
  BY <1>1, <1>4
<1>7. \A m, k \in G : m # k => m.data \cap k.data = {}
  BY <1>1, <1>5
<1>8. \A x : x \in mk <=> \/ \E a \in Process : x \in D2[a]
                          \/ \E m \in G : x \in m.data
                          \/ x \in res
                          \/ x \in {}
  <2>1. \A x : (\E m \in G : x \in m.data)
                 <=> (\E m \in F : x \in m.data) \/ x \in D[p] \/ x \in md
    OBVIOUS
  <2>2. \A x : (\E a \in Process : x \in D2[a]) \/ x \in D[p]
                 <=> \E a \in Process : x \in D[a]
    OBVIOUS
  <2> QED
    BY <1>2, <2>1, <2>2
<1>9. mk = (UNION {D2[a] : a \in Process}) \cup (UNION {m.data : m \in G}) \cup res \cup {}
  BY <1>8, AccountsByElement
<1>10. \A m \in G : m.data \cap res = {}
  BY <1>1, <1>5
<1> QED
  BY <1>1, <1>3, <1>4, <1>6, <1>7, <1>9, <1>10 DEF Accounts

(* With what was in hand the result is whole: nothing is anywhere else.    *)
LEMMA AccountsDone ==
  ASSUME NEW D, NEW F, NEW res, NEW mk, NEW S, NEW md, Accounts(D, F, res, mk, S, md),
         NEW p \in Process, NEW D2, D[p] \cup md = S, md # {},
         \A m \in F : m.data # {},
         \A q \in Process : D2[q] = IF q = p THEN {} ELSE D[q]
  PROVE  Accounts(D2, F, S, mk, S, {})
<1>1. /\ \A a, b \in Process : a # b => D[a] \cap D[b] = {}
      /\ \A a \in Process : \A m \in F : D[a] \cap m.data = {}
      /\ \A a \in Process : md \cap D[a] = {}
      /\ \A m \in F : md \cap m.data = {}
      /\ mk \subseteq S
  BY DEF Accounts
<1>2. \A x : x \in mk <=> \/ \E a \in Process : x \in D[a]
                          \/ \E m \in F : x \in m.data
                          \/ x \in res
                          \/ x \in md
  BY AccountsByElement DEF Accounts
<1>3. F = {}
  <2> SUFFICES ASSUME NEW m \in F PROVE FALSE
    OBVIOUS
  <2>1. m.data \subseteq S
    BY <1>1, <1>2
  <2>2. D[p] \cap m.data = {} /\ md \cap m.data = {}
    BY <1>1
  <2> QED
    BY <2>1, <2>2
<1>4. \A q \in Process : D2[q] = {}
  <2> TAKE q \in Process
  <2>1. CASE q = p
    BY <2>1
  <2>2. CASE q # p
    <3>1. D[q] \subseteq S /\ D[p] \cap D[q] = {} /\ md \cap D[q] = {}
      BY <1>1, <1>2, <2>2
    <3> QED
      BY <3>1, <2>2
  <2> QED
    BY <2>1, <2>2
<1>5. S \subseteq mk
  BY <1>2
<1>6. mk = (UNION {D2[a] : a \in Process}) \cup (UNION {m.data : m \in F}) \cup S \cup {}
  <2>1. \A x : x \in mk <=> \/ \E a \in Process : x \in D2[a]
                            \/ \E m \in F : x \in m.data
                            \/ x \in S
                            \/ x \in {}
    BY <1>1, <1>3, <1>4, <1>5
  <2> QED
    BY <2>1, AccountsByElement
<1> QED
  BY <1>1, <1>3, <1>4, <1>6 DEF Accounts

(* Before: a contribution that is made is in hand, and so is a message     *)
(* that is taken off the wire.                                             *)
LEMMA AccountsMade ==
  ASSUME NEW D, NEW F, NEW res, NEW mk, NEW S, Accounts(D, F, res, mk, S, {}),
         NEW p \in S \ mk
  PROVE  Accounts(D, F, res, mk \cup {p}, S, {p})
<1>1. \A x : x \in mk <=> \/ \E a \in Process : x \in D[a]
                          \/ \E m \in F : x \in m.data
                          \/ x \in res
                          \/ x \in {}
  BY AccountsByElement DEF Accounts
<1>2. \A x : x \in mk \cup {p} <=> \/ \E a \in Process : x \in D[a]
                                   \/ \E m \in F : x \in m.data
                                   \/ x \in res
                                   \/ x \in {p}
  BY <1>1
<1> DEFINE mk2 == mk \cup {p}
           md == {p}
<1>3. mk2 = (UNION {D[a] : a \in Process}) \cup (UNION {m.data : m \in F}) \cup res \cup md
  <2>1. \A x : x \in mk2 <=> \/ \E a \in Process : x \in D[a]
                             \/ \E m \in F : x \in m.data
                             \/ x \in res
                             \/ x \in md
    BY <1>2
  <2> HIDE DEF mk2, md
  <2> QED
    BY <2>1, AccountsByElement
<1>4. /\ \A a \in Process : p \notin D[a]
      /\ \A m \in F : p \notin m.data
      /\ p \notin res
  BY <1>1
<1> QED
  BY <1>3, <1>4 DEF Accounts

LEMMA AccountsTaken ==
  ASSUME NEW D, NEW F, NEW res, NEW mk, NEW S, Accounts(D, F, res, mk, S, {}),
         NEW n \in F
  PROVE  Accounts(D, F \ {n}, res, mk, S, n.data)
<1>1. \A x : x \in mk <=> \/ \E a \in Process : x \in D[a]
                          \/ \E m \in F : x \in m.data
                          \/ x \in res
                          \/ x \in {}
  BY AccountsByElement DEF Accounts
<1> DEFINE G == F \ {n}
           md == n.data
<1>2. \A x : x \in mk <=> \/ \E a \in Process : x \in D[a]
                          \/ \E m \in G : x \in m.data
                          \/ x \in res
                          \/ x \in md
  <2>1. \A x : (\E m \in F : x \in m.data) <=> (\E m \in G : x \in m.data) \/ x \in md
    OBVIOUS
  <2> QED
    BY <1>1, <2>1
<1>3. mk = (UNION {D[a] : a \in Process}) \cup (UNION {m.data : m \in G}) \cup res \cup md
  <2> HIDE DEF G, md
  <2> QED
    BY <1>2, AccountsByElement
<1> QED
  BY <1>3 DEF Accounts

-----------------------------------------------------------------------------
(* The table of a process *)

LEMMA HomeIsSlot ==
  ASSUME NEW r \in Id
  PROVE  Home(r) \in Slot /\ Probed(r, 0) = Home(r) /\ 0 \in Slot
<1>1. r \in Nat /\ Size \in Nat /\ Size > 0
  BY IdAssumption, SizeAssumption
<1>2. r % Size \in 0 .. Size - 1
  BY <1>1
<1>3. r + 0 = r
  BY <1>1
<1> QED
  BY <1>1, <1>2, <1>3 DEF Home, Slot, Probed

(* What is at home for r is of r or nothing, so that the search ends there.*)
LEMMA FoundIsHome ==
  ASSUME DistinctHomes, TypeOK, SlotsInv, NEW p \in Process, NEW r \in Id
  PROVE  /\ Found(p, r) = Home(r)
         /\ entries[p][Home(r)] \in Message \cup {Empty}
         /\ \/ IsEmpty(entries[p][Home(r)])
            \/ /\ entries[p][Home(r)].id = r
               /\ entries[p][Home(r)] \in Message
               /\ EntryShape(p, contributors[r], entries[p][Home(r)])
<1> DEFINE e == entries[p][Home(r)]
<1>1. Home(r) \in Slot /\ Probed(r, 0) = Home(r) /\ 0 \in Slot
  BY HomeIsSlot
<1>2. e \in Message \cup {Empty}
  BY <1>1 DEF TypeOK
<1>3. \/ IsEmpty(e)
      \/ e.id = r /\ e \in Message /\ EntryShape(p, contributors[r], e)
  <2>1. SUFFICES ASSUME ~IsEmpty(e) PROVE e.id = r /\ e \in Message /\ EntryShape(p, contributors[r], e)
    OBVIOUS
  <2>2. e \in Message /\ e.id \in Id /\ e.id # 0
    BY <1>2, <2>1, MessageIds
  <2>3. Home(e.id) = Home(r) /\ EntryShape(p, contributors[e.id], e)
    BY <1>1, <2>2 DEF SlotsInv
  <2>4. e.id = r
    BY <2>2, <2>3 DEF DistinctHomes
  <2> QED
    BY <2>2, <2>3, <2>4
<1>4. e.id \in {r, 0}
  BY <1>3 DEF IsEmpty
<1> DEFINE J == {j \in Slot : entries[p][Probed(r, j)].id \in {r, 0}}
<1>5. 0 \in J /\ \A j \in J : 0 <= j /\ j \in Nat
  BY <1>1, <1>4, SizeAssumption DEF Slot
<1>6. Min(J) = 0
  <2> HIDE DEF J
  <2>1. \A x \in J : (\A y \in J : x <= y) => x = 0
    BY <1>5
  <2> QED
    BY <1>5, <2>1 DEF Min
<1>7. Found(p, r) = Probed(r, Min(J))
  BY DEF Found
<1> QED
  BY <1>1, <1>2, <1>3, <1>6, <1>7

(* Writing the slot of r changes what is held for r, and nothing else.     *)
LEMMA SlotWritten ==
  ASSUME DistinctHomes, NEW p \in Process, NEW r \in Id,
         NEW v, IsEmpty(v) \/ v.id = r,
         \A q \in Process, j \in Slot :
              entries'[q][j] = IF q = p /\ j = Home(r) THEN v ELSE entries[q][j]
  PROVE  /\ \A s \in Id, q \in Process : s # r => Has(q, s)' = Has(q, s)
         /\ \A q \in Process : Has(q, r)' = IF q = p THEN DataOf(v) ELSE Has(q, r)
<1>1. Home(r) \in Slot
  BY HomeIsSlot
<1>2. ASSUME NEW s \in Id, NEW q \in Process, s # r PROVE Has(q, s)' = Has(q, s)
  <2>1. Home(s) \in Slot /\ Home(s) # Home(r)
    BY <1>2, HomeIsSlot DEF DistinctHomes
  <2>2. entries'[q][Home(s)] = entries[q][Home(s)]
    BY <2>1
  <2> QED
    BY <2>2 DEF Has
<1>3. ASSUME NEW q \in Process
      PROVE  Has(q, r)' = IF q = p THEN DataOf(v) ELSE Has(q, r)
  <2>1. entries'[q][Home(r)] = IF q = p THEN v ELSE entries[q][Home(r)]
    BY <1>1
  <2>2. r # 0
    BY IdAssumption
  <2> QED
    BY <2>1, <2>2 DEF Has, DataOf, IsEmpty
<1> QED
  BY <1>2, <1>3

(* Slots keep their shape when what is written has it.                     *)
LEMMA SlotsKept ==
  ASSUME SlotsInv, NEW p \in Process, NEW r \in Id,
         NEW v, IsEmpty(v) \/ (v.id = r /\ EntryShape(p, contributors[r], v) /\ v.expected # 0),
         contributors' = contributors,
         \A q \in Process, j \in Slot :
              entries'[q][j] = IF q = p /\ j = Home(r) THEN v ELSE entries[q][j]
  PROVE  SlotsInv'
<1> SUFFICES ASSUME NEW q \in Process, NEW j \in Slot, entries'[q][j].id # 0
             PROVE  /\ Home(entries'[q][j].id) = j
                    /\ EntryShape(q, contributors[entries'[q][j].id], entries'[q][j])
                    /\ entries'[q][j].expected # 0
  BY DEF SlotsInv
<1>1. CASE q = p /\ j = Home(r)
  <2>1. entries'[q][j] = v
    BY <1>1
  <2>2. ~IsEmpty(v)
    BY <2>1 DEF IsEmpty
  <2> QED
    BY <1>1, <2>1, <2>2
<1>2. CASE ~(q = p /\ j = Home(r))
  <2>1. entries'[q][j] = entries[q][j]
    BY <1>2
  <2> QED
    BY <2>1 DEF SlotsInv
<1> QED
  BY <1>1, <1>2

-----------------------------------------------------------------------------
(* combine_inter_process: with m in hand, and rest on the wire, everything *)
(* is in its place but what is in hand; afterwards all is.                 *)

Others(rest, r) == {n \in rest : n.id = r}
InPlace(r, m, rest, mk) ==
  Accounts(Data(r), Others(rest, r), result[r], mk[r], contributors[r],
           IF r = m.id THEN m.data ELSE {})

Ready(p, m, remote, rest, mk) ==
  /\ TypeOK /\ SomebodyContributes /\ SlotsInv
  /\ m \in Message
  /\ p \in contributors[m.id] \cup {Root}
  /\ InHand(contributors[m.id], p, m, remote)
  /\ rest \subseteq Message
  /\ \A n \in rest : WireShape(contributors[n.id], n)
  /\ \A r \in Id : InPlace(r, m, rest, mk)
  /\ mk \in [Id -> SUBSET Process]

LEMMA CombineKeeps ==
  ASSUME DistinctHomes, NEW p, NEW m, NEW remote \in BOOLEAN, NEW rest, NEW mk,
         Ready(p, m, remote, rest, mk),
         Combine(p, m, remote, rest), contributors' = contributors, made' = mk
  PROVE  ReductionInv'
(* What is combined has the right shape, whether it is kept or handed on.  *)
<1>1. PICK r, S, md, old, new :
        /\ r = m.id /\ S = contributors[m.id] /\ md = m.data
        /\ old = entries[p][Home(m.id)]
        /\ new = NewEntry(p, old, m, remote)
  OBVIOUS
<1>2. m \in Message /\ r \in Id /\ r # 0 /\ md # {}
  <2>1. m \in Message /\ InHand(S, p, m, remote)
    BY <1>1 DEF Ready
  <2> QED
    BY <2>1, <1>1, MessageIds DEF InHand, WireShape
<1>3. S \in SUBSET Process /\ p \in S \cup {Root} /\ p \in Process /\ InHand(S, p, m, remote)
  <2>1. S \in SUBSET Process
    BY <1>1, <1>2 DEF Ready, TypeOK
  <2> QED
    BY <1>1, <2>1, ProcessFacts DEF Ready
<1>4. /\ Found(p, r) = Home(r)
      /\ old \in Message \cup {Empty}
      /\ IsEmpty(old) \/ (old.id = r /\ EntryShape(p, S, old))
  BY <1>1, <1>2, <1>3, FoundIsHome DEF Ready
<1>5. DataOf(old) = Has(p, r)
  BY <1>1, <1>2, <1>3, <1>4 DEF DataOf, Has, IsEmpty
<1>6. InPlace(r, m, rest, mk)
  BY <1>2 DEF Ready
<1>7. DataOf(old) \cap m.data = {}
  BY <1>1, <1>3, <1>5, <1>6 DEF InPlace, Accounts, Data
<1>8. EntryShape(p, S, new) /\ new \in Message
  BY <1>1, <1>2, <1>3, <1>4, <1>7, NewEntryShape
<1>9. new.id = r /\ new.data = Has(p, r) \cup md
  BY <1>1, <1>2, <1>3, <1>4, <1>5, NewFields
(* It is written to the slot, or the slot is emptied.                      *)
<1>10. \/ /\ new.expected # 0
          /\ entries' = [entries EXCEPT ![p][Home(r)] = new]
          /\ wire' = rest
          /\ result' = result
       \/ /\ new.expected = 0
          /\ entries' = [entries EXCEPT ![p][Home(r)] = Empty]
          /\ p # Root
          /\ wire' = rest \cup {[new EXCEPT !.source = p]}
          /\ result' = result
       \/ /\ new.expected = 0
          /\ entries' = [entries EXCEPT ![p][Home(r)] = Empty]
          /\ p = Root
          /\ wire' = rest
          /\ result' = [result EXCEPT ![r] = new.data]
  BY <1>1, <1>4 DEF Combine, NewEntry
<1>11. PICK v : /\ v \in Message \cup {Empty}
                /\ entries' = [entries EXCEPT ![p][Home(r)] = v]
                /\ v = IF new.expected = 0 THEN Empty ELSE new
  BY <1>8, <1>10
<1>12. IsEmpty(v) \/ (v.id = r /\ EntryShape(p, S, v) /\ v.expected # 0)
  BY <1>8, <1>9, <1>11, MessageIds
<1>13. /\ entries' \in [Process -> [Slot -> Message \cup {Empty}]]
       /\ \A q \in Process, j \in Slot :
            entries'[q][j] = IF q = p /\ j = Home(r) THEN v ELSE entries[q][j]
  BY <1>2, <1>3, <1>11, HomeIsSlot DEF Ready, TypeOK
<1>14. SlotsInv'
  BY <1>1, <1>2, <1>3, <1>12, <1>13, SlotsKept DEF Ready
<1>15. /\ \A s \in Id, q \in Process : s # r => Has(q, s)' = Has(q, s)
       /\ \A q \in Process : Has(q, r)' = IF q = p THEN DataOf(v) ELSE Has(q, r)
  BY <1>2, <1>3, <1>12, <1>13, SlotWritten
<1>16. /\ contributors' = contributors /\ contributors \in [Id -> SUBSET Process]
       /\ made' = mk /\ mk \in [Id -> SUBSET Process]
       /\ result \in [Id -> SUBSET Process] /\ rest \subseteq Message
       /\ \A n \in rest : WireShape(contributors[n.id], n)
       /\ SomebodyContributes'
  BY DEF Ready, TypeOK, SomebodyContributes
(* Other reductions are not concerned.                                     *)
<1>17. ASSUME NEW s \in Id, s # r, Flying(s)' = Others(rest, s), result'[s] = result[s]
       PROVE  Accounts(Data(s)', Flying(s)', result'[s], made'[s], contributors'[s], {})
  <2>1. Data(s)' = Data(s)
    BY <1>15, <1>17 DEF Data
  <2>2. InPlace(s, m, rest, mk)
    BY DEF Ready
  <2> QED
    BY <1>1, <1>16, <1>17, <2>1, <2>2 DEF InPlace
<1>18. PICK D, D2, F, res, mkr :
         /\ D = Data(r) /\ D2 = Data(r)' /\ F = Others(rest, r) /\ res = result[r] /\ mkr = mk[r]
  OBVIOUS
<1>19. /\ Accounts(D, F, res, mkr, S, md)
       /\ \A q \in Process : D[q] = Has(q, r)
       /\ \A q \in Process : D2[q] = IF q = p THEN DataOf(v) ELSE D[q]
  <2>1. \A q \in Process : D[q] = Has(q, r) /\ D2[q] = Has(q, r)'
    BY <1>18 DEF Data
  <2> QED
    BY <1>1, <1>6, <1>15, <1>18, <2>1 DEF InPlace
(* It is kept until the others have come.                                  *)
<1>20. CASE /\ new.expected # 0 /\ wire' = rest /\ result' = result
  <2>1. TypeOK' /\ WireInv'
    BY <1>13, <1>16, <1>20 DEF TypeOK, WireInv
  <2>2. \A q \in Process : D2[q] = IF q = p THEN D[p] \cup md ELSE D[q]
    BY <1>3, <1>8, <1>9, <1>11, <1>19, <1>20, MessageIds DEF DataOf
  <2>3. Accounts(D2, F, res, mkr, S, {})
    BY <1>3, <1>19, <2>2, AccountsKept
  <2>4. \A s \in Id : Flying(s)' = Others(rest, s)
    BY <1>20 DEF Flying, Others
  <2>5. Accounts(Data(r)', Flying(r)', result'[r], made'[r], contributors'[r], {})
    BY <1>1, <1>2, <1>16, <1>18, <1>20, <2>3, <2>4
  <2>6. AccountsInv'
    BY <1>17, <1>20, <2>4, <2>5 DEF AccountsInv
  <2> QED
    BY <1>14, <1>16, <2>1, <2>6 DEF ReductionInv
(* It is sent upwards.                                                     *)
<1>21. CASE /\ new.expected = 0 /\ p # Root
            /\ wire' = rest \cup {[new EXCEPT !.source = p]} /\ result' = result
  <2>1. PICK n : n = [new EXCEPT !.source = p]
    OBVIOUS
  <2>2. WireShape(S, n) /\ n \in Message
    BY <1>3, <1>8, <1>21, <2>1, SentOn
  <2>3. n.id = r /\ n.data = Has(p, r) \cup md
    BY <1>8, <1>9, <2>1 DEF Message
  <2>4. wire' = rest \cup {n}
    BY <1>21, <2>1
  <2>5. TypeOK' /\ WireInv'
    BY <1>1, <1>13, <1>16, <1>21, <2>2, <2>3, <2>4 DEF TypeOK, WireInv
  <2>6. \A q \in Process : D2[q] = IF q = p THEN {} ELSE D[q]
    BY <1>11, <1>19, <1>21, MessageIds DEF DataOf
  <2>7. PICK G : G = F \cup {n}
    OBVIOUS
  <2>8. Accounts(D2, G, res, mkr, S, {})
    <3>1. n.data = D[p] \cup md
      BY <1>3, <1>19, <2>3
    <3> QED
      BY <1>3, <1>19, <2>6, <2>7, <3>1, AccountsSent
  <2>9. Flying(r)' = G /\ \A s \in Id : s # r => Flying(s)' = Others(rest, s)
    BY <1>18, <2>3, <2>4, <2>7 DEF Flying, Others
  <2>10. Accounts(Data(r)', Flying(r)', result'[r], made'[r], contributors'[r], {})
    BY <1>1, <1>2, <1>16, <1>18, <1>21, <2>8, <2>9
  <2>11. AccountsInv'
    BY <1>17, <1>21, <2>9, <2>10 DEF AccountsInv
  <2> QED
    BY <1>14, <1>16, <2>5, <2>11 DEF ReductionInv
(* The root has them all.                                                  *)
<1>22. CASE /\ new.expected = 0 /\ p = Root
            /\ wire' = rest /\ result' = [result EXCEPT ![r] = new.data]
  <2>1. new.data = S
    BY <1>3, <1>8, <1>22, WholeAtTheRoot
  <2>2. TypeOK' /\ WireInv'
    BY <1>2, <1>3, <1>13, <1>16, <1>22, <2>1 DEF TypeOK, WireInv
  <2>3. /\ D[p] \cup md = S
        /\ \A q \in Process : D2[q] = IF q = p THEN {} ELSE D[q]
    BY <1>3, <1>9, <1>11, <1>19, <1>22, <2>1, MessageIds DEF DataOf
  <2>4. \A k \in F : k.data # {}
    BY <1>16, <1>18 DEF WireShape, Others
  <2>5. Accounts(D2, F, S, mkr, S, {})
    BY <1>2, <1>3, <1>19, <2>3, <2>4, AccountsDone
  <2>6. /\ \A s \in Id : Flying(s)' = Others(rest, s)
        /\ result'[r] = S /\ \A s \in Id : s # r => result'[s] = result[s]
    BY <1>2, <1>16, <1>22, <2>1 DEF Flying, Others
  <2>7. Accounts(Data(r)', Flying(r)', result'[r], made'[r], contributors'[r], {})
    BY <1>1, <1>2, <1>16, <1>18, <2>5, <2>6
  <2>8. AccountsInv'
    BY <1>17, <2>6, <2>7 DEF AccountsInv
  <2> QED
    BY <1>14, <1>16, <2>2, <2>8 DEF ReductionInv
<1> QED
  BY <1>10, <1>20, <1>21, <1>22

-----------------------------------------------------------------------------
(* Every step keeps the invariant *)

LEMMA InitInv ==
  ASSUME Init
  PROVE  ReductionInv
<1>1. TypeOK /\ SomebodyContributes
  <2>1. /\ contributors \in [Id -> SUBSET Process]
        /\ made \in [Id -> SUBSET Process] /\ result \in [Id -> SUBSET Process]
        /\ wire \subseteq Message
    BY DEF Init
  <2>2. entries \in [Process -> [Slot -> Message \cup {Empty}]]
    BY DEF Init
  <2> QED
    BY <2>1, <2>2 DEF Init, TypeOK, SomebodyContributes
<1>2. \A p \in Process, i \in Slot : entries[p][i].id = 0
  BY MessageIds DEF Init
<1>3. SlotsInv /\ WireInv
  BY <1>2 DEF Init, SlotsInv, WireInv
<1>4. ASSUME NEW r \in Id
      PROVE  Accounts(Data(r), Flying(r), result[r], made[r], contributors[r], {})
  <2>1. PICK D, F : D = Data(r) /\ F = Flying(r)
    OBVIOUS
  <2>2. F = {} /\ result[r] = {} /\ made[r] = {}
    BY <2>1 DEF Init, Flying
  <2>3. \A p \in Process : D[p] = {}
    <3> TAKE p \in Process
    <3>1. Home(r) \in Slot /\ r # 0
      BY HomeIsSlot, IdAssumption
    <3> QED
      BY <2>1, <3>1, <1>2 DEF Data, Has
  <2>4. UNION {D[p] : p \in Process} = {}
    BY <2>3
  <2>5. UNION {m.data : m \in F} = {}
    BY <2>2
  <2>6. Accounts(D, F, {}, {}, contributors[r], {})
    BY <2>2, <2>3, <2>4, <2>5 DEF Accounts
  <2> QED
    BY <2>1, <2>2, <2>6
<1> QED
  BY <1>1, <1>3, <1>4 DEF ReductionInv, AccountsInv

LEMMA ContributeKeeps ==
  ASSUME DistinctHomes, ReductionInv, NEW p \in Process, NEW r \in Id, Contribute(p, r)
  PROVE  ReductionInv'
<1>1. TypeOK /\ SomebodyContributes /\ SlotsInv /\ WireInv /\ AccountsInv
  BY DEF ReductionInv
<1>2. contributors[r] \in SUBSET Process /\ p \in contributors[r] /\ p \notin made[r]
  BY <1>1 DEF Contribute, TypeOK
<1>3. PICK m, mk : /\ m = LocalMessage(p, r)
                   /\ mk = [made EXCEPT ![r] = @ \cup {p}]
  OBVIOUS
<1>4. m \in Message /\ m.id = r /\ InHand(contributors[r], p, m, FALSE)
  BY <1>2, <1>3, LocalMessageInHand
<1>5. m.data = {p}
  BY <1>3 DEF LocalMessage
<1>6. /\ mk \in [Id -> SUBSET Process]
      /\ mk[r] = made[r] \cup {p}
      /\ \A s \in Id : s # r => mk[s] = made[s]
  BY <1>1, <1>3 DEF TypeOK
<1>7. wire \subseteq Message /\ \A n \in wire : WireShape(contributors[n.id], n)
  BY <1>1 DEF TypeOK, WireInv
<1>8. ASSUME NEW s \in Id PROVE InPlace(s, m, wire, mk)
  <2>1. PICK D, F, res, mks, S : /\ D = Data(s) /\ F = Flying(s) /\ res = result[s]
                                 /\ mks = made[s] /\ S = contributors[s]
    OBVIOUS
  <2>2. Accounts(D, F, res, mks, S, {})
    BY <1>1, <2>1 DEF AccountsInv
  <2>3. Others(wire, s) = F
    BY <2>1 DEF Others, Flying
  <2>4. CASE s = r
    <3>1. Accounts(D, F, res, mks \cup {p}, S, {p})
      BY <1>2, <2>1, <2>2, <2>4, AccountsMade
    <3> QED
      BY <1>4, <1>5, <1>6, <2>1, <2>3, <2>4, <3>1 DEF InPlace
  <2>5. CASE s # r
    BY <1>4, <1>6, <2>1, <2>2, <2>3, <2>5 DEF InPlace
  <2> QED
    BY <2>4, <2>5
<1>9. Ready(p, m, FALSE, wire, mk)
  BY <1>1, <1>2, <1>4, <1>6, <1>7, <1>8 DEF Ready
<1>10. Combine(p, m, FALSE, wire) /\ contributors' = contributors /\ made' = mk
  BY <1>3 DEF Contribute
<1> QED
  BY <1>9, <1>10, CombineKeeps

LEMMA DeliverKeeps ==
  ASSUME DistinctHomes, ReductionInv, NEW m \in wire, Deliver(m)
  PROVE  ReductionInv'
<1>1. TypeOK /\ SomebodyContributes /\ SlotsInv /\ WireInv /\ AccountsInv
  BY DEF ReductionInv
<1>2. m \in Message /\ m.id \in Id /\ WireShape(contributors[m.id], m)
  BY <1>1, MessageIds DEF TypeOK, WireInv
<1>3. PICK p, r, rest : p = m.target /\ r = m.id /\ rest = wire \ {m}
  OBVIOUS
<1>4. contributors[r] \in SUBSET Process
  BY <1>1, <1>2, <1>3 DEF TypeOK
<1>5. p \in contributors[r] \cup {Root}
  <2>1. m.source \in Process \ {Root} /\ m.target = Target(m.source, contributors[r])
    BY <1>2, <1>3, <1>4 DEF WireShape
  <2> QED
    BY <1>3, <1>4, <2>1, TargetIsAbove
<1>6. InHand(contributors[r], p, m, TRUE)
  BY <1>2, <1>3 DEF InHand
<1>7. /\ rest \subseteq Message /\ \A n \in rest : WireShape(contributors[n.id], n)
      /\ made \in [Id -> SUBSET Process]
  BY <1>1, <1>3 DEF TypeOK, WireInv
<1>8. ASSUME NEW s \in Id PROVE InPlace(s, m, rest, made)
  <2>1. PICK D, F, res, mks, S : /\ D = Data(s) /\ F = Flying(s) /\ res = result[s]
                                 /\ mks = made[s] /\ S = contributors[s]
    OBVIOUS
  <2>2. Accounts(D, F, res, mks, S, {})
    BY <1>1, <2>1 DEF AccountsInv
  <2>3. CASE s = r
    <3>1. m \in F /\ Others(rest, s) = F \ {m}
      BY <1>3, <2>1, <2>3 DEF Others, Flying
    <3>2. Accounts(D, F \ {m}, res, mks, S, m.data)
      BY <2>2, <3>1, AccountsTaken
    <3> QED
      BY <1>3, <2>1, <2>3, <3>1, <3>2 DEF InPlace
  <2>4. CASE s # r
    <3>1. Others(rest, s) = F
      BY <1>3, <2>1, <2>4 DEF Others, Flying
    <3> QED
      BY <1>3, <2>1, <2>2, <2>4, <3>1 DEF InPlace
  <2> QED
    BY <2>3, <2>4
<1>9. Ready(p, m, TRUE, rest, made)
  BY <1>1, <1>2, <1>3, <1>5, <1>6, <1>7, <1>8 DEF Ready
<1>10. Combine(p, m, TRUE, rest) /\ contributors' = contributors /\ made' = made
  BY <1>3 DEF Deliver
<1> QED
  BY <1>9, <1>10, CombineKeeps

LEMMA StuttersKeep ==
  ASSUME ReductionInv, UNCHANGED vars
  PROVE  ReductionInv'
<1>1. TypeOK' /\ SomebodyContributes'
  BY DEF ReductionInv, TypeOK, SomebodyContributes, vars
<1>2. SlotsInv' /\ WireInv'
  BY DEF ReductionInv, SlotsInv, WireInv, vars
<1>3. AccountsInv'
  <2>1. \A r \in Id : Data(r)' = Data(r) /\ Flying(r)' = Flying(r)
    BY DEF vars, Data, Has, Flying
  <2> QED
    BY <2>1 DEF ReductionInv, AccountsInv, vars
<1> QED
  BY <1>1, <1>2, <1>3 DEF ReductionInv

LEMMA ReductionInvHolds ==
  ASSUME DistinctHomes
  PROVE  Spec => []ReductionInv
<1>1. Init => ReductionInv
  BY InitInv
<1>2. ReductionInv /\ [Next]_vars => ReductionInv'
  <2> SUFFICES ASSUME ReductionInv, [Next]_vars PROVE ReductionInv'
    OBVIOUS
  <2>1. ASSUME NEW p \in Process, NEW r \in Id, Contribute(p, r) PROVE ReductionInv'
    BY <2>1, ContributeKeeps
  <2>2. ASSUME NEW m \in wire, Deliver(m) PROVE ReductionInv'
    BY <2>2, DeliverKeeps
  <2>3. CASE UNCHANGED vars
    BY <2>3, StuttersKeep
  <2> QED
    BY <2>1, <2>2, <2>3 DEF Next
<1> QED
  BY <1>1, <1>2, PTL DEF Spec

-----------------------------------------------------------------------------
(* The properties *)

(* Every variable keeps its type, and no count leaves -Bound .. Bound: none *)
(* of the messages that come in any order is counted twice.                *)
THEOREM ReductionTypeCorrect ==
  ASSUME DistinctHomes
  PROVE  Spec => []TypeOK
<1>1. ReductionInv => TypeOK
  BY DEF ReductionInv
<1> QED
  BY <1>1, ReductionInvHolds, PTL

(* What the callback is given has the contributions of all contributors.   *)
THEOREM TheResultIsWhole ==
  ASSUME DistinctHomes
  PROVE  Spec => []ResultIsWhole
<1>1. ReductionInv => ResultIsWhole
  BY DEF ReductionInv, AccountsInv, Accounts, ResultIsWhole
<1> QED
  BY <1>1, ReductionInvHolds, PTL

LEMMA Conserved ==
  ASSUME DistinctHomes, ReductionInv, NEW r \in Id, NEW p \in made[r]
  PROVE  Cardinality({h \in Held(r) : p \in entries[h[1]][h[2]].data})
           + Cardinality({m \in Flying(r) : p \in m.data})
           + (IF p \in result[r] THEN 1 ELSE 0) = 1
<1> DEFINE H == {h \in Held(r) : p \in entries[h[1]][h[2]].data}
           W == {m \in Flying(r) : p \in m.data}
<1>1. TypeOK /\ SlotsInv
  BY DEF ReductionInv
<1>2. PICK D, F, res : /\ D = Data(r) /\ F = Flying(r) /\ res = result[r]
                       /\ Accounts(D, F, res, made[r], contributors[r], {})
  BY DEF ReductionInv, AccountsInv
<1>3. \A q \in Process : D[q] = Has(q, r)
  BY <1>2 DEF Data
<1>4. r # 0 /\ Home(r) \in Slot
  BY IdAssumption, HomeIsSlot
(* It is held where it is in the data, at home.                            *)
<1>5. \A h : h \in H <=> \E q \in Process : h = <<q, Home(r)>> /\ p \in D[q]
  <2> TAKE h
  <2>1. ASSUME h \in H
        PROVE  \E q \in Process : h = <<q, Home(r)>> /\ p \in D[q]
    <3>1. PICK q \in Process, i \in Slot : h = <<q, i>>
      BY <2>1 DEF Held
    <3>2. entries[q][i].id = r /\ p \in entries[q][i].data
      BY <2>1, <3>1 DEF Held
    <3>3. Home(r) = i
      BY <1>1, <1>4, <3>2 DEF SlotsInv
    <3>4. p \in D[q]
      BY <1>3, <3>2, <3>3 DEF Has
    <3> QED
      BY <3>1, <3>3, <3>4
  <2>2. ASSUME NEW q \in Process, h = <<q, Home(r)>>, p \in D[q]
        PROVE  h \in H
    <3>1. entries[q][Home(r)].id = r /\ p \in entries[q][Home(r)].data
      BY <1>3, <2>2 DEF Has
    <3> QED
      BY <1>4, <2>2, <3>1 DEF Held
  <2> QED
    BY <2>1, <2>2
<1>6. /\ \A a, b \in Process : a # b => ~(p \in D[a] /\ p \in D[b])
      /\ \A a \in Process : \A m \in F : ~(p \in D[a] /\ p \in m.data)
      /\ \A m, n \in F : m # n => ~(p \in m.data /\ p \in n.data)
      /\ \A a \in Process : ~(p \in D[a] /\ p \in res)
      /\ \A m \in F : ~(p \in m.data /\ p \in res)
  BY <1>2 DEF Accounts
<1>7. (\E q \in Process : p \in D[q]) \/ (\E m \in F : p \in m.data) \/ p \in res
  BY <1>2, AccountsByElement DEF Accounts
<1>8. W = {m \in F : p \in m.data}
  BY <1>2
<1> HIDE DEF H, W
<1>9. CASE \E q \in Process : p \in D[q]
  <2>1. PICK q \in Process : p \in D[q]
    BY <1>9
  <2>2. H = {<<q, Home(r)>>} /\ W = {} /\ p \notin res
    BY <1>5, <1>6, <1>8, <2>1
  <2>3. Cardinality(H) = 1 /\ Cardinality(W) = 0
    BY <2>2, FS_Singleton, FS_EmptySet
  <2> QED
    BY <1>2, <2>2, <2>3 DEF H, W
<1>10. CASE \E m \in F : p \in m.data
  <2>1. PICK m \in F : p \in m.data
    BY <1>10
  <2>2. H = {} /\ p \notin res
    BY <1>5, <1>6, <2>1
  <2>3. W = {m}
    BY <1>6, <1>8, <2>1
  <2>4. Cardinality(H) = 0 /\ Cardinality(W) = 1
    BY <2>2, <2>3, FS_Singleton, FS_EmptySet
  <2> QED
    BY <1>2, <2>2, <2>4 DEF H, W
<1>11. CASE p \in res
  <2>1. H = {} /\ W = {}
    BY <1>5, <1>6, <1>8, <1>11
  <2>2. Cardinality(H) = 0 /\ Cardinality(W) = 0
    BY <2>1, FS_EmptySet
  <2> QED
    BY <1>2, <1>11, <2>2 DEF H, W
<1> QED
  BY <1>7, <1>9, <1>10, <1>11

(* A contribution that has been made is in one place.                      *)
THEOREM NothingIsLostOrDoubled ==
  ASSUME DistinctHomes
  PROVE  Spec => []ContributionsAreConserved
<1>1. ReductionInv => ContributionsAreConserved
  BY Conserved DEF ContributionsAreConserved
<1> QED
  BY <1>1, ReductionInvHolds, PTL

(* Of the processes that still hold something the one lowest in the tree   *)
(* has all it waits for: there is nobody else left to hold it.             *)
LEMMA NoneWaits ==
  ASSUME DistinctHomes, ReductionInv, NEW r \in Id, made[r] = contributors[r], Flying(r) = {}
  PROVE  result[r] # {}
<1> SUFFICES ASSUME result[r] = {} PROVE FALSE
  OBVIOUS
<1>1. TypeOK /\ SlotsInv /\ contributors[r] \in (SUBSET Process) \ {{}}
  BY DEF ReductionInv, TypeOK, SomebodyContributes
<1>2. PICK D, S : /\ D = Data(r) /\ S = contributors[r] /\ S \in (SUBSET Process) \ {{}}
                  /\ Accounts(D, {}, {}, S, S, {})
  BY <1>1 DEF ReductionInv, AccountsInv
<1>3. /\ \A x : x \in S <=> \E q \in Process : x \in D[q]
      /\ \A a, b \in Process : a # b => D[a] \cap D[b] = {}
  <2>1. \A x : x \in S <=> \/ \E q \in Process : x \in D[q]
                           \/ \E m \in {} : x \in m.data
                           \/ x \in {}
                           \/ x \in {}
    BY <1>2, AccountsByElement DEF Accounts
  <2> QED
    BY <1>2, <2>1 DEF Accounts
<1>4. ASSUME NEW q \in Process, D[q] # {}
      PROVE  /\ entries[q][Home(r)].data = D[q]
             /\ EntryShape(q, S, entries[q][Home(r)])
             /\ entries[q][Home(r)].expected # 0
  <2>1. D[q] = Has(q, r)
    BY <1>2 DEF Data
  <2>2. entries[q][Home(r)].id = r /\ entries[q][Home(r)].data = D[q]
    BY <1>4, <2>1 DEF Has
  <2> QED
    BY <1>1, <1>2, <2>2, HomeIsSlot, IdAssumption DEF SlotsInv
<1> DEFINE Q == {q \in Process : D[q] # {}}
<1>5. Q # {}
  BY <1>2, <1>3
<1>6. PICK p \in Q : \A q \in Q : q <= p
  BY <1>5, LargestProcess
<1>7. PICK e : e = entries[p][Home(r)] /\ e.data = D[p] /\ EntryShape(p, S, e) /\ e.expected # 0
  BY <1>4, <1>6
<1>8. p \in Process /\ S \in SUBSET Process /\ p \in Nat
  BY <1>2, <1>6, ProcessFacts
(* Somebody else who had p's contribution would have all that p has.       *)
<1>9. ASSUME NEW q \in Process, q # p, p \in D[q]
      PROVE  FALSE
  <2>1. q \in Q /\ q <= p /\ q \in Nat
    BY <1>6, <1>9, ProcessFacts
  <2>2. EntryShape(q, S, entries[q][Home(r)]) /\ entries[q][Home(r)].data = D[q]
    BY <1>4, <1>9
  <2>3. D[p] \cap D[q] = {}
    BY <1>3, <1>8, <1>9
  <2>4. PICK x \in Feeds(p, S) : x \in D[p]
    <3>1. Got(p, S, D[p]) # {}
      BY <1>7 DEF EntryShape
    <3>2. p \notin D[p]
      BY <1>9, <2>3
    <3> QED
      BY <3>1, <3>2 DEF Got, Awaited
  <2>5. x \in S \ {Root, p} /\ Target(x, S) = p /\ x \in Nat
    <3>1. x \in S \ {Root, p}
      BY <1>8, <2>4, FeedsFacts
    <3> QED
      BY <1>8, <2>4, <3>1, ProcessFacts DEF Feeds
  <2>6. p <= x
    BY <1>7, <1>8, <2>4, HolderIsSmallest
  <2>7. x # q /\ x \notin Feeds(q, S)
    BY <1>8, <1>9, <2>1, <2>5, <2>6 DEF Feeds
  <2>8. x \in D[q]
    BY <1>9, <2>2, <2>5, <2>7 DEF EntryShape
  <2> QED
    BY <2>3, <2>4, <2>8
<1>10. ASSUME NEW c \in Feeds(p, S)
       PROVE  c \in D[p]
  <2>1. c \in S \ {Root, p} /\ Target(c, S) = p
    BY <1>8, FeedsFacts DEF Feeds
  <2>2. PICK q \in Process : c \in D[q]
    BY <1>3, <2>1
  <2>3. SUFFICES ASSUME q # p PROVE FALSE
    BY <2>2
  <2>4. EntryShape(q, S, entries[q][Home(r)]) /\ entries[q][Home(r)].data = D[q] /\ q <= p
    BY <1>4, <1>6, <2>2
  <2>5. c # q /\ c \notin Feeds(q, S)
    <3>1. p < c
      BY <1>8, <2>1, TargetIsAbove
    <3>2. c \in Nat /\ q \in Nat
      BY <1>8, <2>1, ProcessFacts
    <3> QED
      BY <1>8, <2>1, <2>3, <2>4, <3>1, <3>2 DEF Feeds
  <2>6. p \in D[q]
    BY <2>1, <2>2, <2>4, <2>5 DEF EntryShape
  <2> QED
    BY <1>9, <2>3, <2>6
<1>11. p \in S => p \in D[p]
  BY <1>3, <1>9
<1>12. Awaited(p, S) \subseteq D[p]
  BY <1>10, <1>11 DEF Awaited
<1>13. Got(p, S, D[p]) = Awaited(p, S) /\ Cardinality(Awaited(p, S)) \in Nat
  BY <1>8, <1>12, FeedsFacts, NAssumption DEF Got
<1>14. e.expected = Cardinality(Awaited(p, S)) - Cardinality(Got(p, S, D[p]))
  BY <1>7, <1>11 DEF EntryShape
<1> QED
  BY <1>7, <1>13, <1>14

(* When all have contributed and no message is on its way, the reduction   *)
(* has its result: no process waits for a message that nobody will send.   *)
THEOREM NoProcessWaitsInVain ==
  ASSUME DistinctHomes
  PROVE  Spec => []NobodyWaitsInVain
<1>1. ReductionInv => NobodyWaitsInVain
  BY NoneWaits DEF NobodyWaitsInVain
<1> QED
  BY <1>1, ReductionInvHolds, PTL
=============================================================================
