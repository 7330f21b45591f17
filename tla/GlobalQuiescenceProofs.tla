------------------------ MODULE GlobalQuiescenceProofs -------------------------
(***************************************************************************)
(* Proofs about qd::Global, for any number of processes, messages and      *)
(* sweeps.  First sums and the functions of the model that are defined by  *)
(* recursion, then the sweep as it goes through the tree, then the counts  *)
(* that it carries, and last how large those can be.                       *)
(***************************************************************************)
EXTENDS GlobalQuiescence, ProcessTreeProofs, FiniteSetTheorems

-----------------------------------------------------------------------------
(* The inductive invariant: the sweep *)

(* Where a process stands in the sweep: it has not been reached; the       *)
(* number is on its way to it; it waits for its children; its counts are   *)
(* on their way to the parent; the parent has them.  The root is never     *)
(* "down" or "up": it is "used" when it has terminated.                    *)
Status == {"out", "down", "below", "up", "used"}

NothingAt(p) == down[p] = <<>> /\ up[p] = <<>>
NothingKept(p) == DOMAIN accum_data[p] = {}

(* What a process that waits for its children has got of them: nothing, or *)
(* the counts of one of two.                                               *)
Waits(p, st) ==
  \/ NothingKept(p) /\ \A c \in Children(p) : st[c] # "used"
  \/ /\ DOMAIN accum_data[p] = {root_down_sweep}
     /\ accum_data[p][root_down_sweep].count \in Int
     /\ accum_data[p][root_down_sweep].received = 1
     /\ Cardinality(Children(p)) = 2
     /\ \E c \in Children(p) :
          st[c] = "used" /\ \A d \in Children(p) \ {c} : st[d] # "used"

Stands(p, st) ==
  CASE st[p] = "out"   -> NothingAt(p) /\ NothingKept(p) /\ p \notin reported
    [] st[p] = "down"  -> /\ p # Root /\ p \notin reported
                          /\ down[p] = <<root_down_sweep>> /\ up[p] = <<>>
                          /\ NothingKept(p)
    [] st[p] = "below" -> /\ NothingAt(p) /\ ~IsLeaf(p) /\ p \notin reported
                          /\ Waits(p, st)
    [] st[p] = "up"    -> /\ p # Root /\ p \in reported
                          /\ down[p] = <<>> /\ NothingKept(p)
                          /\ Len(up[p]) = 1 /\ up[p][1].sweep = root_down_sweep
    [] st[p] = "used"  -> NothingAt(p) /\ NothingKept(p) /\ (p = Root \/ p \in reported)

(* Children follow their parent down and are followed by it up.            *)
Follows(c, st) ==
  CASE st[Parent(c)] \in {"out", "down"} -> st[c] = "out"
    [] st[Parent(c)] = "below"           -> st[c] # "out"
    [] OTHER                             -> st[c] = "used"

RootStands(st) ==
  /\ Root \notin reported
  /\ CASE st[Root] = "out"   -> /\ phase[Root] = "running"
                                /\ root_down_sweep = 0 /\ local_sweep_number[Root] = 0
       [] st[Root] = "below" -> /\ phase[Root] = "running"
                                /\ root_down_sweep = local_sweep_number[Root] + 1
       [] OTHER              -> st[Root] = "used" /\ phase[Root] # "running"

Sweeping(st) ==
  /\ \A p \in Process : Stands(p, st)
  /\ \A c \in Process \ {Root} : Follows(c, st)
  /\ RootStands(st)

SweepInv == \E st \in [Process -> Status] : Sweeping(st)

(* The termination goes down the tree after the root, ahead of every reset.*)
TerminationInv ==
  /\ ~term[Root]
  /\ \A c \in Process \ {Root} :
       IF phase[Parent(c)] = "running"
       THEN phase[c] = "running" /\ ~term[c]
       ELSE phase[c] = "running" <=> term[c]

-----------------------------------------------------------------------------
(* The inductive invariant: the counts *)

Live(p) == local_sends[p] - local_processed[p]
KeptCount(p) == IF NothingKept(p) THEN 0 ELSE accum_data[p][root_down_sweep].count
UpCount(p) == IF up[p] = <<>> THEN 0 ELSE up[p][1].count

(* What the sweep knows of p and of those below it that have reported, as  *)
(* far as it is still at p.                                                *)
Carried(p) == (IF p \in reported THEN 0 ELSE Live(p)) + UpCount(p) + KeptCount(p)

SumLive == SumFunction([p \in Process |-> Live(p)])
SumCarried == SumFunction([p \in Process |-> Carried(p)])

(* Messages in flight, those of them that are older than the sweep r, and  *)
(* the numbers of the sweeps they were sent in.                            *)
Older(s, r) == {i \in DOMAIN s : s[i].sweep < r}
Lengths(w) == [pq \in Process \X Process |-> Len(w[pq[1]][pq[2]])]
Olds(w, r) == [pq \in Process \X Process |-> Cardinality(Older(w[pq[1]][pq[2]], r))]
Numbers(w) ==
  {s \in Sweep : \E p, q \in Process : \E i \in DOMAIN w[p][q] : w[p][q][i].sweep = s}

SumFlight == SumFunction(Lengths(wire))
SumOld == SumFunction(Olds(wire, root_down_sweep))

(* The sweep has met, or will meet, a message with its own number: the     *)
(* root will start another one.                                            *)
UnknownAt(p) ==
  \/ /\ p \notin reported /\ ~IsLeaf(p)
     /\ last_regular_message_sweep_number[p] > local_sweep_number[p]
  \/ UpCount(p) = Int64Max
  \/ KeptCount(p) = Int64Max

Unknown == \E p \in Process : UnknownAt(p)

(* A process that has terminated has no work, and no counts once it has    *)
(* been reset.                                                             *)
ResetInv ==
  \A p \in Process :
    /\ phase[p] # "running" => ~active[p]
    /\ phase[p] = "barrier" =>
         /\ local_sends[p] = 0 /\ local_processed[p] = 0
         /\ last_regular_message_sweep_number[p] = 0 /\ local_sweep_number[p] = 0
         /\ p = Root => root_down_sweep = 0

(* Once the root has decided, nothing is left; and while no process has     *)
(* been reset, what was sent and not processed is in flight.               *)
FlightInv ==
  ~premature =>
    /\ phase[Root] # "running" => Quiet
    /\ (\A p \in Process : phase[p] # "barrier") => SumLive = SumFlight

(* The numbers of sweeps do not run ahead of the root's.                   *)
NumbersAt(p) ==
  /\ last_regular_message_sweep_number[p] <= root_down_sweep
  /\ local_sweep_number[p] <= root_down_sweep
  /\ IsLeaf(p) => local_sweep_number[p] = 0
  /\ p \notin reported /\ root_down_sweep > 0 =>
       local_sweep_number[p] < root_down_sweep
  /\ p \in reported /\ ~IsLeaf(p) => local_sweep_number[p] = root_down_sweep

NumbersInv ==
  (~premature /\ phase[Root] = "running") =>
    /\ \A s \in Numbers(wire) : s <= root_down_sweep
    /\ \A p \in Process : NumbersAt(p)

(* While nothing hides, the sweep has counted what is in flight and older  *)
(* than itself, and more than that if work has got behind it.              *)
CountsCover ==
  /\ SumCarried >= SumOld
  /\ (root_down_sweep \in Numbers(wire) \/ \E p \in reported : active[p])
       => SumCarried > SumOld

CarriedInv ==
  (~premature /\ phase[Root] = "running" /\ root_down_sweep > 0 /\ ~hidden /\ ~Unknown)
    => CountsCover

(* The type, but for the range of the counts.                              *)
UpInt == [sweep : Sweep, count : Int]

TypeInv ==
  /\ active \in [Process -> BOOLEAN]
  /\ local_sends \in [Process -> Nat]
  /\ local_processed \in [Process -> Nat]
  /\ last_regular_message_sweep_number \in [Process -> Sweep]
  /\ local_sweep_number \in [Process -> Sweep]
  /\ root_down_sweep \in Sweep
  /\ accum_data = [p \in Process |-> accum_data[p]]
  /\ phase \in [Process -> {"running", "waiting", "barrier"}]
  /\ wire \in [Process -> [Process -> Seq(Regular)]]
  /\ down \in [Process -> Seq(Sweep)]
  /\ up \in [Process -> Seq(UpInt)]
  /\ term \in [Process -> BOOLEAN]
  /\ budget \in 0 .. MaxSent
  /\ reported \subseteq Process
  /\ hidden \in BOOLEAN /\ premature \in BOOLEAN

GlobalInv ==
  /\ TypeInv /\ SweepInv /\ TerminationInv /\ ResetInv
  /\ FlightInv /\ NumbersInv /\ CarriedInv

-----------------------------------------------------------------------------
(* Sums over finite sets, and other functions defined by recursion *)

(* Induction on the size of the subsets of a finite set.                   *)
LEMMA SubsetInduction ==
  ASSUME NEW D, IsFiniteSet(D), NEW S, {} \in S,
         \A s \in SUBSET D : \A x \in s : s \ {x} \in S => s \in S
  PROVE  SUBSET D \subseteq S
  <1> DEFINE T == {n \in Nat : \A s \in SUBSET D : Cardinality(s) = n => s \in S}
  <1>1. \A s \in SUBSET D : IsFiniteSet(s) /\ Cardinality(s) \in Nat
    BY FS_Subset, FS_CardinalityType
  <1>2. 0 \in T
    BY <1>1, FS_EmptySet
  <1>3. ASSUME NEW n \in Nat, n \in T PROVE n + 1 \in T
    <2> SUFFICES ASSUME NEW s \in SUBSET D, Cardinality(s) = n + 1 PROVE s \in S
      OBVIOUS
    <2>1. s # {}
      BY <1>1, FS_EmptySet
    <2>2. PICK x : x \in s
      BY <2>1
    <2>3. Cardinality(s \ {x}) = n
      BY <1>1, <2>2, FS_RemoveElement
    <2>4. s \ {x} \in SUBSET D
      OBVIOUS
    <2> QED
      BY <1>3, <2>2, <2>3, <2>4
  <1>4. Nat \subseteq T
    BY <1>2, <1>3, SetInduction
  <1> QED
    BY <1>1, <1>4

Some(s) == CHOOSE x \in s : TRUE

(* g is the running sum of f on the subsets of D.                          *)
Sums(g, f, D) ==
  g = [s \in SUBSET D |-> IF s = {} THEN 0 ELSE f[Some(s)] + g[s \ {Some(s)}]]

LEMMA SumsExist ==
  ASSUME NEW D, IsFiniteSet(D), NEW f
  PROVE  \E g : Sums(g, f, D)
  <1> DEFINE upto(n) == {s \in SUBSET D : Cardinality(s) <= n}
             eq(g, n) ==
               g = [s \in upto(n) |-> IF s = {} THEN 0 ELSE f[Some(s)] + g[s \ {Some(s)}]]
             T == {n \in Nat : \E g : eq(g, n)}
  <1>1. \A s \in SUBSET D : IsFiniteSet(s) /\ Cardinality(s) \in Nat
    BY FS_Subset, FS_CardinalityType
  <1>2. 0 \in T
    <2> DEFINE g == [s \in upto(0) |-> 0]
    <2>1. \A s \in upto(0) : s = {}
      BY <1>1, FS_EmptySet
    <2>2. eq(g, 0)
      BY <2>1
    <2> QED
      BY <2>2
  <1>3. ASSUME NEW n \in Nat, n \in T PROVE n + 1 \in T
    <2>1. PICK g : eq(g, n)
      BY <1>3
    <2> DEFINE h == [s \in upto(n + 1) |->
                       IF s = {} THEN 0 ELSE f[Some(s)] + g[s \ {Some(s)}]]
    <2>2. \A s \in upto(n) : s \in upto(n + 1) /\ h[s] = g[s]
      <3> SUFFICES ASSUME NEW s \in upto(n) PROVE s \in upto(n + 1) /\ h[s] = g[s]
        OBVIOUS
      <3>1. s \in upto(n + 1)
        BY <1>1
      <3>2. g[s] = IF s = {} THEN 0 ELSE f[Some(s)] + g[s \ {Some(s)}]
        BY <2>1
      <3> QED
        BY <3>1, <3>2
    <2>3. \A s \in upto(n + 1) : s # {} => s \ {Some(s)} \in upto(n)
      <3> SUFFICES ASSUME NEW s \in upto(n + 1), s # {} PROVE s \ {Some(s)} \in upto(n)
        OBVIOUS
      <3>1. Some(s) \in s
        BY DEF Some
      <3>2. Cardinality(s \ {Some(s)}) = Cardinality(s) - 1
        BY <1>1, <3>1, FS_RemoveElement
      <3> QED
        BY <1>1, <3>2
    <2>4. \A s \in upto(n + 1) : s # {} => h[s \ {Some(s)}] = g[s \ {Some(s)}]
      BY <2>2, <2>3
    <2>5. eq(h, n + 1)
      BY <2>4
    <2>6. \E g2 : eq(g2, n + 1)
      <3> HIDE DEF h, eq
      <3> QED
        BY <2>5
    <2>7. n + 1 \in Nat
      OBVIOUS
    <2> HIDE DEF eq
    <2> QED
      BY <2>6, <2>7, Zenon
  <1>4. Cardinality(D) \in T
    BY <1>1, <1>2, <1>3, SetInduction
  <1>5. PICK g : eq(g, Cardinality(D))
    BY <1>4
  <1>6. upto(Cardinality(D)) = SUBSET D
    BY FS_Subset
  <1>7. Sums(g, f, D)
    BY <1>5, <1>6 DEF Sums
  <1> QED
    BY <1>7

(* The sum on D that the community module computes, and what it is.        *)
LEMMA SumIsRunningSum ==
  ASSUME NEW D, IsFiniteSet(D), NEW f, f = [x \in D |-> f[x]]
  PROVE  \E g : Sums(g, f, D) /\ SumFunction(f) = g[D]
  <1> DEFINE iter == CHOOSE g : Sums(g, f, D)
  <1>1. Sums(iter, f, D)
    BY SumsExist
  <1>2. DOMAIN f = D
    OBVIOUS
  <1>3. SumFunction(f) = iter[D]
    BY <1>2 DEF SumFunction, SumFunctionOnSet, FoldFunctionOnSet, MapThenFoldSet, Sums, Some
  <1> QED
    BY <1>1, <1>3

LEMMA RunningSum ==
  ASSUME NEW D, IsFiniteSet(D), NEW f \in [D -> Int], NEW g, Sums(g, f, D)
  PROVE  /\ g[{}] = 0
         /\ \A s \in SUBSET D : g[s] \in Int
         /\ \A s \in SUBSET D : \A x \in s : g[s] = f[x] + g[s \ {x}]
  <1>1. \A s \in SUBSET D :
          g[s] = IF s = {} THEN 0 ELSE f[Some(s)] + g[s \ {Some(s)}]
    BY DEF Sums
  <1>2. \A s \in SUBSET D : s # {} => Some(s) \in s
    BY DEF Some
  <1>3. g[{}] = 0
    BY <1>1
  <1>4. \A s \in SUBSET D : g[s] \in Int
    <2> DEFINE S == {s \in SUBSET D : g[s] \in Int}
               T == {n \in Nat : \A s \in SUBSET D : Cardinality(s) = n => s \in S}
    <2>1. \A s \in SUBSET D : IsFiniteSet(s) /\ Cardinality(s) \in Nat
      BY FS_Subset, FS_CardinalityType
    <2>2. 0 \in T
      BY <1>3, <2>1, FS_EmptySet
    <2>3. ASSUME NEW n \in Nat, n \in T PROVE n + 1 \in T
      <3> SUFFICES ASSUME NEW s \in SUBSET D, Cardinality(s) = n + 1 PROVE s \in S
        OBVIOUS
      <3>1. s # {}
        BY <2>1, FS_EmptySet
      <3>2. Cardinality(s \ {Some(s)}) = n
        BY <1>2, <2>1, <3>1, FS_RemoveElement
      <3>3. g[s \ {Some(s)}] \in Int
        BY <2>3, <3>2
      <3> QED
        BY <1>1, <1>2, <3>1, <3>3
    <2>4. Nat \subseteq T
      BY <2>2, <2>3, SetInduction
    <2> QED
      BY <2>1, <2>4
  <1>5. \A s \in SUBSET D : \A x \in s : g[s] = f[x] + g[s \ {x}]
    <2> DEFINE S == {s \in SUBSET D : \A x \in s : g[s] = f[x] + g[s \ {x}]}
               T == {n \in Nat : \A s \in SUBSET D : Cardinality(s) = n => s \in S}
    <2>1. \A s \in SUBSET D : IsFiniteSet(s) /\ Cardinality(s) \in Nat
      BY FS_Subset, FS_CardinalityType
    <2>2. 0 \in T
      BY <2>1, FS_EmptySet
    <2>3. ASSUME NEW n \in Nat, n \in T PROVE n + 1 \in T
      <3> SUFFICES ASSUME NEW s \in SUBSET D, Cardinality(s) = n + 1, NEW x \in s
                   PROVE  g[s] = f[x] + g[s \ {x}]
        OBVIOUS
      <3> DEFINE y == Some(s)
      <3>1. y \in s /\ g[s] = f[y] + g[s \ {y}]
        BY <1>1, <1>2
      <3> HIDE DEF y
      <3>2. CASE x = y
        BY <3>1, <3>2
      <3>3. CASE x # y
        <4>1. Cardinality(s \ {y}) = n /\ Cardinality(s \ {x}) = n
          <5>1. IsFiniteSet(s)
            BY <2>1
          <5>2. /\ Cardinality(s \ {y}) = Cardinality(s) - 1
                /\ Cardinality(s \ {x}) = Cardinality(s) - 1
            BY <3>1, <5>1, FS_RemoveElement
          <5> QED
            BY <5>2
        <4>2. s \ {y} \in S /\ s \ {x} \in S
          BY <2>3, <4>1
        <4>3. g[s \ {y}] = f[x] + g[(s \ {y}) \ {x}]
          BY <3>3, <4>2
        <4>4. g[s \ {x}] = f[y] + g[(s \ {x}) \ {y}]
          BY <3>1, <3>3, <4>2
        <4>5. (s \ {y}) \ {x} = (s \ {x}) \ {y}
          OBVIOUS
        <4>6. f[x] \in Int /\ f[y] \in Int /\ g[(s \ {x}) \ {y}] \in Int
          BY <1>4, <3>1
        <4>7. g[s] = f[y] + (f[x] + g[(s \ {y}) \ {x}])
          BY <3>1, <4>3, Zenon
        <4>8. f[x] + g[s \ {x}] = f[x] + (f[y] + g[(s \ {y}) \ {x}])
          BY <4>4, <4>5, Zenon
        <4>9. g[(s \ {y}) \ {x}] \in Int
          BY <4>5, <4>6, Zenon
        <4> HIDE DEF S
        <4> QED
          BY <4>6, <4>7, <4>8, <4>9
      <3> QED
        BY <3>2, <3>3
    <2>4. Nat \subseteq T
      BY <2>2, <2>3, SetInduction
    <2> QED
      BY <2>1, <2>4
  <1> QED
    BY <1>3, <1>4, <1>5

(* g is a running sum of f: whatever the order of the summands.            *)
Running(g, f, D) ==
  /\ g[{}] = 0
  /\ \A s \in SUBSET D : g[s] \in Int
  /\ \A s \in SUBSET D : \A x \in s : g[s] = f[x] + g[s \ {x}]

LEMMA SumRuns ==
  ASSUME NEW D, IsFiniteSet(D), NEW f \in [D -> Int]
  PROVE  \E g : Running(g, f, D) /\ SumFunction(f) = g[D]
  <1>1. f = [x \in D |-> f[x]]
    OBVIOUS
  <1>2. PICK g : Sums(g, f, D) /\ SumFunction(f) = g[D]
    BY <1>1, SumIsRunningSum
  <1>3. /\ g[{}] = 0
        /\ \A s \in SUBSET D : g[s] \in Int
        /\ \A s \in SUBSET D : \A x \in s : g[s] = f[x] + g[s \ {x}]
    BY <1>2, RunningSum
  <1>4. Running(g, f, D)
    BY <1>3 DEF Running
  <1> QED
    BY <1>2, <1>4

(* A sum of integers is an integer; one summand can be set apart from the  *)
(* others, which do not depend on it.                                      *)
LEMMA SumChanges ==
  ASSUME NEW D, IsFiniteSet(D), NEW f \in [D -> Int], NEW h \in [D -> Int],
         NEW a \in D, \A x \in D \ {a} : h[x] = f[x]
  PROVE  /\ SumFunction(f) \in Int
         /\ SumFunction(h) = SumFunction(f) + h[a] - f[a]
  <1>1. PICK g : Running(g, f, D) /\ SumFunction(f) = g[D]
    BY SumRuns, Zenon
  <1>2. PICK k : Running(k, h, D) /\ SumFunction(h) = k[D]
    BY SumRuns, Zenon
  <1>3. /\ g[{}] = 0 /\ \A s \in SUBSET D : g[s] \in Int
        /\ \A s \in SUBSET D : \A x \in s : g[s] = f[x] + g[s \ {x}]
    BY <1>1 DEF Running
  <1>4. /\ k[{}] = 0 /\ \A s \in SUBSET D : k[s] \in Int
        /\ \A s \in SUBSET D : \A x \in s : k[s] = h[x] + k[s \ {x}]
    BY <1>2 DEF Running
  <1>5. SUFFICES ASSUME NEW E, E = D \ {a}
                 PROVE  SumFunction(f) \in Int
                        /\ SumFunction(h) = SumFunction(f) + h[a] - f[a]
    OBVIOUS
  <1>6. \A s \in SUBSET E : k[s] = g[s]
    <2> DEFINE S == {s \in SUBSET E : k[s] = g[s]}
    <2>1. {} \in S
      BY <1>3, <1>4
    <2>2. ASSUME NEW s \in SUBSET E, NEW x \in s, s \ {x} \in S PROVE s \in S
      <3>1. k[s \ {x}] = g[s \ {x}] /\ h[x] = f[x] /\ s \in SUBSET D
        BY <1>5, <2>2
      <3> QED
        BY <1>3, <1>4, <3>1
    <2>3. IsFiniteSet(E)
      BY <1>5, FS_Subset
    <2> HIDE DEF S
    <2>4. \A s \in SUBSET E : \A x \in s : s \ {x} \in S => s \in S
      BY <2>2
    <2>5. SUBSET E \subseteq S
      BY <2>1, <2>3, <2>4, SubsetInduction, Zenon
    <2> QED
      BY <2>5 DEF S
  <1>7. g[D] = f[a] + g[E] /\ k[D] = h[a] + k[E] /\ k[E] = g[E] /\ g[E] \in Int
    BY <1>3, <1>4, <1>5, <1>6
  <1>8. f[a] \in Int /\ h[a] \in Int
    OBVIOUS
  <1> QED
    BY <1>1, <1>2, <1>7, <1>8

(* A sum of natural numbers is one, and not smaller than any of them.      *)
LEMMA SumOfNaturals ==
  ASSUME NEW D, IsFiniteSet(D), NEW f \in [D -> Nat]
  PROVE  SumFunction(f) \in Nat /\ \A a \in D : f[a] <= SumFunction(f)
  <1>1. f \in [D -> Int]
    OBVIOUS
  <1>2. PICK g : Running(g, f, D) /\ SumFunction(f) = g[D]
    BY <1>1, SumRuns, Zenon
  <1>3. /\ g[{}] = 0
        /\ \A s \in SUBSET D : \A x \in s : g[s] = f[x] + g[s \ {x}]
    BY <1>2 DEF Running
  <1> DEFINE S == {s \in SUBSET D : g[s] \in Nat}
  <1>4. {} \in S
    BY <1>3
  <1>5. ASSUME NEW s \in SUBSET D, NEW x \in s, s \ {x} \in S PROVE s \in S
    <2>1. g[s] = f[x] + g[s \ {x}] /\ g[s \ {x}] \in Nat /\ f[x] \in Nat
      BY <1>3, <1>5
    <2> QED
      BY <2>1
  <1> HIDE DEF S
  <1>6. SUBSET D \subseteq S
    BY <1>4, <1>5, SubsetInduction
  <1>7. \A s \in SUBSET D : g[s] \in Nat
    BY <1>6 DEF S
  <1>8. ASSUME NEW a \in D PROVE f[a] <= g[D]
    <2>1. g[D] = f[a] + g[D \ {a}] /\ g[D \ {a}] \in Nat /\ f[a] \in Nat
      BY <1>3, <1>7
    <2> QED
      BY <2>1
  <1> QED
    BY <1>2, <1>7, <1>8

LEMMA SumOfZeros ==
  ASSUME NEW D, IsFiniteSet(D), NEW f \in [D -> Int], \A x \in D : f[x] = 0
  PROVE  SumFunction(f) = 0
  <1>2. PICK g : Running(g, f, D) /\ SumFunction(f) = g[D]
    BY SumRuns, Zenon
  <1>3. /\ g[{}] = 0
        /\ \A s \in SUBSET D : \A x \in s : g[s] = f[x] + g[s \ {x}]
    BY <1>2 DEF Running
  <1> DEFINE S == {s \in SUBSET D : g[s] = 0}
  <1>4. {} \in S
    BY <1>3
  <1>5. ASSUME NEW s \in SUBSET D, NEW x \in s, s \ {x} \in S PROVE s \in S
    BY <1>3, <1>5
  <1> HIDE DEF S
  <1>6. SUBSET D \subseteq S
    BY <1>4, <1>5, SubsetInduction
  <1> QED
    BY <1>2, <1>6 DEF S

LEMMA SumIsAnInteger ==
  ASSUME NEW D, IsFiniteSet(D), NEW f \in [D -> Int]
  PROVE  SumFunction(f) \in Int
  <1>1. CASE D = {}
    <2>1. \A x \in D : f[x] = 0
      BY <1>1
    <2>2. SumFunction(f) = 0
      BY <2>1, SumOfZeros, Zenon
    <2> QED
      BY <2>2
  <1>2. CASE D # {}
    <2>1. PICK a : a \in D
      BY <1>2
    <2>2. \A x \in D \ {a} : f[x] = f[x]
      OBVIOUS
    <2> QED
      BY <2>1, <2>2, SumChanges, Zenon
  <1> QED
    BY <1>1, <1>2

(* Adding one to some of the summands.                                     *)
LEMMA SumGrows ==
  ASSUME NEW D, IsFiniteSet(D), NEW f \in [D -> Int], NEW T \in SUBSET D
  PROVE  SumFunction([x \in D |-> IF x \in T THEN f[x] + 1 ELSE f[x]])
           = SumFunction(f) + Cardinality(T)
  <1> DEFINE more(t) == [x \in D |-> IF x \in t THEN f[x] + 1 ELSE f[x]]
             S == {t \in SUBSET D : SumFunction(more(t)) = SumFunction(f) + Cardinality(t)}
  <1>0. \A t \in SUBSET D : IsFiniteSet(t) /\ Cardinality(t) \in Nat
    BY FS_Subset, FS_CardinalityType
  <1>1. {} \in S
    <2>1. more({}) = f
      OBVIOUS
    <2>2. SumFunction(f) \in Int
      BY SumIsAnInteger
    <2> HIDE DEF more
    <2> QED
      BY <2>1, <2>2, FS_EmptySet
  <1>2. ASSUME NEW t \in SUBSET D, NEW x \in t, t \ {x} \in S PROVE t \in S
    <2>1. /\ more(t) \in [D -> Int] /\ more(t \ {x}) \in [D -> Int] /\ x \in D
          /\ \A y \in D \ {x} : more(t)[y] = more(t \ {x})[y]
          /\ more(t)[x] = more(t \ {x})[x] + 1
          /\ more(t \ {x})[x] \in Int
      OBVIOUS
    <2>2. Cardinality(t \ {x}) = Cardinality(t) - 1
      BY <1>0, FS_RemoveElement
    <2> HIDE DEF more
    <2>3. ASSUME NEW f1 \in [D -> Int], NEW f2 \in [D -> Int],
                 \A y \in D \ {x} : f2[y] = f1[y]
          PROVE  /\ SumFunction(f1) \in Int
                 /\ SumFunction(f2) = SumFunction(f1) + f2[x] - f1[x]
      BY <2>1, <2>3, SumChanges
    <2>4. SumFunction(more(t \ {x})) = SumFunction(f) + Cardinality(t \ {x})
      BY <1>2
    <2>5. /\ SumFunction(more(t \ {x})) \in Int
          /\ SumFunction(more(t)) = SumFunction(more(t \ {x})) + more(t)[x] - more(t \ {x})[x]
      BY <2>1, <2>3, Zenon
    <2>6. SumFunction(f) \in Int
      BY SumIsAnInteger
    <2>7. SumFunction(more(t)) = SumFunction(f) + Cardinality(t)
      BY <1>0, <2>1, <2>2, <2>4, <2>5, <2>6
    <2> QED
      BY <2>7
  <1> HIDE DEF S
  <1>3. SUBSET D \subseteq S
    BY <1>1, <1>2, SubsetInduction
  <1> QED
    BY <1>3 DEF S

-----------------------------------------------------------------------------
(* What a process accumulates *)

Collect(acc, s) == FoldLeft(Accumulate, acc, s)

(* A fold over no message, one or two.                                     *)
LEMMA FoldNone ==
  ASSUME NEW acc
  PROVE  Collect(acc, <<>>) = acc
  <1> DEFINE eq(g) == g = [s \in SUBSET {} |-> IF s = {} THEN acc
                             ELSE Accumulate(g[s \ {Max(s)}], <<>>[Max(s)])]
             iter == CHOOSE g : eq(g)
  <1>1. Collect(acc, <<>>) = iter[{}]
    BY DEF Collect, FoldLeft, MapThenFoldSet
  <1>2. eq([s \in SUBSET {} |-> acc])
    OBVIOUS
  <1>3. eq(iter)
    <2> HIDE DEF eq
    <2> QED
      BY <1>2, Zenon
  <1> QED
    BY <1>1, <1>3

LEMMA FoldOne ==
  ASSUME NEW acc, NEW m
  PROVE  Collect(acc, <<m>>) = Accumulate(acc, m)
  <1> DEFINE eq(g) == g = [s \in SUBSET {1} |-> IF s = {} THEN acc
                             ELSE Accumulate(g[s \ {Max(s)}], <<m>>[Max(s)])]
             iter == CHOOSE g : eq(g)
             sum == [s \in SUBSET {1} |-> IF s = {} THEN acc ELSE Accumulate(acc, m)]
  <1>0. DOMAIN <<m>> = {1} /\ <<m>>[1] = m
    OBVIOUS
  <1>1. Collect(acc, <<m>>) = iter[{1}]
    BY <1>0 DEF Collect, FoldLeft, MapThenFoldSet
  <1>2. eq(sum)
    <2>1. Max({1}) = 1
      BY DEF Max
    <2>2. \A s \in SUBSET {1} : s = {} \/ s = {1}
      OBVIOUS
    <2>3. sum[{1} \ {Max({1})}] = acc /\ <<m>>[Max({1})] = m
      BY <2>1, <1>0
    <2>4. \A s \in SUBSET {1} :
            sum[s] = IF s = {} THEN acc
                     ELSE Accumulate(sum[s \ {Max(s)}], <<m>>[Max(s)])
      BY <2>2, <2>3
    <2>5. sum = [s \in SUBSET {1} |-> sum[s]]
      OBVIOUS
    <2> HIDE DEF sum
    <2> QED
      BY <2>4, <2>5
  <1>3. eq(iter)
    <2> HIDE DEF eq
    <2> QED
      BY <1>2, Zenon
  <1> HIDE DEF iter
  <1>4. Max({1}) = 1 /\ {1} \ {1} = {} /\ {1} # {}
    BY DEF Max
  <1>5. iter[{}] = acc
    BY <1>3
  <1>6. iter[{1}] = Accumulate(iter[{1} \ {Max({1})}], <<m>>[Max({1})])
    BY <1>3, <1>4
  <1> QED
    BY <1>0, <1>1, <1>4, <1>5, <1>6

LEMMA FoldTwo ==
  ASSUME NEW acc, NEW m, NEW n
  PROVE  Collect(acc, <<m, n>>) = Accumulate(Accumulate(acc, m), n)
  <1> DEFINE eq(g) == g = [s \in SUBSET {1, 2} |-> IF s = {} THEN acc
                             ELSE Accumulate(g[s \ {Max(s)}], <<m, n>>[Max(s)])]
             iter == CHOOSE g : eq(g)
             sum == [s \in SUBSET {1, 2} |->
                       IF s = {} THEN acc
                       ELSE IF s = {1} THEN Accumulate(acc, m)
                       ELSE IF s = {2} THEN Accumulate(acc, n)
                       ELSE Accumulate(Accumulate(acc, m), n)]
  <1>0. DOMAIN <<m, n>> = {1, 2} /\ <<m, n>>[1] = m /\ <<m, n>>[2] = n
    OBVIOUS
  <1>1. Collect(acc, <<m, n>>) = iter[{1, 2}]
    BY <1>0 DEF Collect, FoldLeft, MapThenFoldSet
  <1>2. \A s \in SUBSET {1, 2} : s = {} \/ s = {1} \/ s = {2} \/ s = {1, 2}
    OBVIOUS
  <1>3. Max({1}) = 1 /\ Max({2}) = 2 /\ Max({1, 2}) = 2
    BY DEF Max
  <1>4. {1} \ {1} = {} /\ {2} \ {2} = {} /\ {1, 2} \ {2} = {1}
        /\ {1} # {2} /\ {1} # {} /\ {2} # {} /\ {1, 2} # {1} /\ {1, 2} # {2} /\ {1, 2} # {}
    OBVIOUS
  <1>5. eq(sum)
    <2>1. sum[{}] = acc /\ sum[{1}] = Accumulate(acc, m) /\ sum[{2}] = Accumulate(acc, n)
          /\ sum[{1, 2}] = Accumulate(Accumulate(acc, m), n)
      BY <1>4
    <2>2. sum = [s \in SUBSET {1, 2} |-> sum[s]]
      OBVIOUS
    <2> HIDE DEF sum
    <2>3. \A s \in SUBSET {1, 2} :
            sum[s] = IF s = {} THEN acc
                     ELSE Accumulate(sum[s \ {Max(s)}], <<m, n>>[Max(s)])
      <3> SUFFICES ASSUME NEW s \in SUBSET {1, 2}
                   PROVE  sum[s] = IF s = {} THEN acc
                                   ELSE Accumulate(sum[s \ {Max(s)}], <<m, n>>[Max(s)])
        OBVIOUS
      <3>1. CASE s = {}
        BY <2>1, <3>1
      <3>2. CASE s = {1}
        BY <1>0, <1>3, <1>4, <2>1, <3>2
      <3>3. CASE s = {2}
        BY <1>0, <1>3, <1>4, <2>1, <3>3
      <3>4. CASE s = {1, 2}
        BY <1>0, <1>3, <1>4, <2>1, <3>4
      <3> QED
        BY <1>2, <3>1, <3>2, <3>3, <3>4
    <2> QED
      BY <2>2, <2>3
  <1>6. eq(iter)
    <2> HIDE DEF eq
    <2> QED
      BY <1>5, Zenon
  <1> HIDE DEF iter
  <1>7. iter[{}] = acc
    BY <1>6
  <1>8. iter[{1}] = Accumulate(iter[{1} \ {Max({1})}], <<m, n>>[Max({1})])
    BY <1>4, <1>6
  <1>9. iter[{1, 2}] = Accumulate(iter[{1, 2} \ {Max({1, 2})}], <<m, n>>[Max({1, 2})])
    BY <1>4, <1>6
  <1> QED
    BY <1>0, <1>1, <1>3, <1>4, <1>7, <1>8, <1>9

KeptNumber(p) == IF NothingKept(p) THEN 0 ELSE accum_data[p][root_down_sweep].received

(* The map of a process with one entry.                                    *)
Entry(s, x, n) == [t \in {s} |-> [count |-> x, received |-> n]]

LEMMA AccumulateKept ==
  ASSUME NEW p, NothingKept(p) \/ DOMAIN accum_data[p] = {root_down_sweep},
         NEW m, m.sweep = root_down_sweep
  PROVE  Accumulate(accum_data[p], m)
           = Entry(root_down_sweep, safe_add(KeptCount(p), m.count), KeptNumber(p) + 1)
  <1> DEFINE acc == accum_data[p]
  <1>1. CASE NothingKept(p)
    <2>1. DOMAIN acc \cup {m.sweep} = {root_down_sweep} /\ m.sweep \notin DOMAIN acc
      BY <1>1 DEF NothingKept
    <2> HIDE DEF acc
    <2>2. Accumulate(acc, m)
            = Entry(root_down_sweep, safe_add(0, m.count), 0 + 1)
      BY <2>1 DEF Accumulate, Entry
    <2> QED
      BY <1>1, <2>2 DEF acc, KeptCount, KeptNumber
  <1>2. CASE DOMAIN acc = {root_down_sweep}
    <2>1. DOMAIN acc \cup {m.sweep} = {root_down_sweep} /\ m.sweep \in DOMAIN acc
      BY <1>2
    <2>2. Accumulate(acc, m)
            = Entry(root_down_sweep,
                    safe_add(acc[root_down_sweep].count, m.count),
                    acc[root_down_sweep].received + 1)
      BY <2>1 DEF Accumulate, Entry
    <2>3. ~NothingKept(p)
      BY <1>2 DEF NothingKept
    <2> QED
      BY <2>2, <2>3 DEF KeptCount, KeptNumber
  <1> QED
    BY <1>1, <1>2 DEF NothingKept

LEMMA AccumulateEntry ==
  ASSUME NEW s, NEW x, NEW n, NEW m, m.sweep = s
  PROVE  Accumulate(Entry(s, x, n), m) = Entry(s, safe_add(x, m.count), n + 1)
  BY DEF Accumulate, Entry

LEMMA OneIsTuple ==
  ASSUME NEW T, NEW s \in Seq(T), Len(s) = 1
  PROVE  s = <<s[1]>> /\ s # <<>> /\ s[1] \in T
  OBVIOUS

(* What is on its way up from a process.                                   *)
LEMMA OneMessageUp ==
  ASSUME TypeInv, NEW st \in [Process -> Status], Sweeping(st), NEW c \in Process
  PROVE  \/ up[c] = <<>> /\ st[c] # "up"
         \/ /\ st[c] = "up" /\ c # Root
            /\ Len(up[c]) = 1 /\ up[c] = <<up[c][1]>> /\ up[c] # <<>>
            /\ up[c][1].sweep = root_down_sweep /\ up[c][1].count \in Int
  <1>1. Stands(c, st) /\ st[c] \in Status /\ up[c] \in Seq(UpInt)
    BY DEF Sweeping, TypeInv
  <1>2. \/ up[c] = <<>> /\ st[c] # "up"
        \/ /\ st[c] = "up" /\ c # Root
           /\ Len(up[c]) = 1 /\ up[c][1].sweep = root_down_sweep
    BY <1>1 DEF Stands, Status, NothingAt
  <1>3. ASSUME Len(up[c]) = 1
        PROVE  up[c] = <<up[c][1]>> /\ up[c] # <<>> /\ up[c][1].count \in Int
    <2>1. up[c][1] \in UpInt
      BY <1>1, <1>3, OneIsTuple, Zenon
    <2>2. up[c] = <<up[c][1]>> /\ up[c] # <<>>
      BY <1>1, <1>3, OneIsTuple
    <2> QED
      BY <2>1, <2>2 DEF UpInt
  <1> QED
    BY <1>2, <1>3

(* The children are the left one and the right one.                        *)
LEMMA TwoChildren ==
  ASSUME NEW p \in Process
  PROVE  \/ Children(p) = {}
         \/ /\ LeftChild(p) # None /\ RightChild(p) = None /\ Children(p) = {LeftChild(p)}
            /\ Cardinality(Children(p)) = 1
         \/ /\ LeftChild(p) # None /\ RightChild(p) # None
            /\ Children(p) = {LeftChild(p), RightChild(p)}
            /\ LeftChild(p) # RightChild(p)
            /\ Cardinality(Children(p)) = 2
  <1>1. \/ LeftChild(p) = None /\ RightChild(p) = None
        \/ LeftChild(p) # None /\ RightChild(p) = None
        \/ LeftChild(p) # None /\ RightChild(p) # None /\ LeftChild(p) # RightChild(p)
    BY NAssumption DEF LeftChild, RightChild, None, Process
  <1>2. \A a, b : a # b => Cardinality({a}) = 1 /\ Cardinality({a, b}) = 2
    <2> TAKE a, b
    <2> HAVE a # b
    <2>1. IsFiniteSet({a}) /\ Cardinality({a}) = 1
      BY FS_Singleton
    <2>2. Cardinality({a} \cup {b}) = Cardinality({a}) + 1
      BY <2>1, FS_AddElement
    <2>3. {a} \cup {b} = {a, b}
      OBVIOUS
    <2> QED
      BY <2>1, <2>2, <2>3
  <1>3. LeftChild(p) = None /\ RightChild(p) = None => Children(p) = {}
    BY DEF Children
  <1>4. LeftChild(p) # None /\ RightChild(p) = None => Children(p) = {LeftChild(p)}
    BY DEF Children
  <1>5. LeftChild(p) # None /\ RightChild(p) # None
          => Children(p) = {LeftChild(p), RightChild(p)}
    BY DEF Children
  <1>6. Cardinality({LeftChild(p)}) = 1
    BY FS_Singleton
  <1> QED
    BY <1>1, <1>2, <1>3, <1>4, <1>5, <1>6

LEMMA SubSeqOfOne ==
  ASSUME NEW T, NEW s \in Seq(T)
  PROVE  /\ SubSeq(s, 1, Len(s)) = s /\ SubSeq(s, 1, 0) = <<>>
         /\ Len(s) = 1 => SubSeq(s, 2, 1) = <<>>
  OBVIOUS

LEMMA TwoIsTuple ==
  ASSUME NEW T, NEW s \in Seq(T), Len(s) = 2
  PROVE  s = <<s[1], s[2]>>
  OBVIOUS

LEMMA ConcatOfOnes ==
  ASSUME NEW T, NEW a \in T, NEW b \in T
  PROVE  /\ <<a>> \o <<>> = <<a>> /\ <<>> \o <<a>> = <<a>>
         /\ <<a>> \o <<b>> = <<a, b>>
  <1>1. <<a>> \in Seq(T) /\ <<b>> \in Seq(T) /\ <<a, b>> \in Seq(T)
    OBVIOUS
  <1>2. /\ <<a>> \o <<b>> \in Seq(T) /\ Len(<<a>> \o <<b>>) = 2
        /\ (<<a>> \o <<b>>)[1] = a /\ (<<a>> \o <<b>>)[2] = b
    BY <1>1
  <1>3. <<a>> \o <<b>> = <<a, b>>
    BY <1>1, <1>2, TwoIsTuple
  <1> QED
    BY <1>1, <1>3

(* The children whose counts p receives in a call of check().              *)
Taken(p, k) == {c \in Children(p) : k[c] > 0}

LEMMA Arrives ==
  ASSUME TypeInv, NEW st \in [Process -> Status], Sweeping(st),
         NEW p \in Process, NEW k \in Arrivals(p), Arrived(p, k)
  PROVE  /\ \A c \in Taken(p, k) : st[c] = "up" /\ k[c] = 1
         /\ \A c \in Children(p) \ Taken(p, k) : k[c] = 0
         /\ UpAfter(p, k) = [c \in Process |-> IF c \in Taken(p, k) THEN <<>> ELSE up[c]]
  <1>1. Children(p) \subseteq Process
    BY ChildrenAreProcesses
  <1>2. ASSUME NEW c \in Children(p)
        PROVE  /\ k[c] \in {0, 1, 2} /\ k[c] <= Len(up[c])
               /\ up[c] \in Seq(UpInt)
    BY <1>1 DEF Arrivals, Arrived, TypeInv
  <1>3. ASSUME NEW c \in Children(p)
        PROVE  \/ up[c] = <<>>
               \/ st[c] = "up" /\ Len(up[c]) = 1
    BY <1>1, OneMessageUp
  <1>4. ASSUME NEW c \in Children(p)
        PROVE  \/ k[c] = 0 /\ c \notin Taken(p, k)
               \/ k[c] = 1 /\ c \in Taken(p, k) /\ st[c] = "up" /\ Len(up[c]) = 1
    <2>1. CASE up[c] = <<>>
      <3>1. k[c] \in {0, 1, 2} /\ k[c] <= 0
        BY <1>2, <2>1
      <3> QED
        BY <3>1 DEF Taken
    <2>2. CASE st[c] = "up" /\ Len(up[c]) = 1
      <3>1. k[c] \in {0, 1, 2} /\ k[c] <= 1
        BY <1>2, <2>2
      <3> QED
        BY <2>2, <3>1 DEF Taken
    <2> QED
      BY <1>3, <2>1, <2>2
  <1>5. ASSUME NEW c \in Children(p)
        PROVE  SubSeq(up[c], k[c] + 1, Len(up[c])) = IF c \in Taken(p, k) THEN <<>> ELSE up[c]
    <2>0. up[c] \in Seq(UpInt)
      BY <1>2
    <2>1. CASE k[c] = 0
      <3>1. c \notin Taken(p, k) /\ k[c] + 1 = 1
        BY <1>4, <2>1
      <3> QED
        BY <2>0, <3>1, SubSeqOfOne
    <2>2. CASE k[c] = 1
      <3>1. c \in Taken(p, k) /\ k[c] + 1 = 2 /\ Len(up[c]) = 1
        BY <1>4, <2>2
      <3> QED
        BY <2>0, <3>1, SubSeqOfOne
    <2> QED
      BY <1>4, <2>1, <2>2
  <1>6. Taken(p, k) \subseteq Children(p)
    BY DEF Taken
  <1>7. UpAfter(p, k) = [c \in Process |-> IF c \in Taken(p, k) THEN <<>> ELSE up[c]]
    BY <1>1, <1>5, <1>6 DEF UpAfter
  <1> QED
    BY <1>4, <1>6, <1>7

LEMMA Collected ==
  ASSUME TypeInv, NEW st \in [Process -> Status], Sweeping(st),
         NEW p \in Process, NEW k \in Arrivals(p), Arrived(p, k),
         Taken(p, k) # {},
         NothingKept(p) \/ DOMAIN accum_data[p] = {root_down_sweep}
  PROVE  \/ \E c \in Children(p) :
              /\ Taken(p, k) = {c}
              /\ ReceiveAll(p, k)
                   = Entry(root_down_sweep,
                           safe_add(KeptCount(p), up[c][1].count), KeptNumber(p) + 1)
         \/ \E c, d \in Children(p) :
              /\ c # d /\ Taken(p, k) = {c, d} /\ Children(p) = {c, d}
              /\ ReceiveAll(p, k)
                   = Entry(root_down_sweep,
                           safe_add(safe_add(KeptCount(p), up[c][1].count), up[d][1].count),
                           KeptNumber(p) + 1 + 1)
  <1> DEFINE l == LeftChild(p)
             r == RightChild(p)
             from(c) == IF c \in Children(p) THEN SubSeq(up[c], 1, k[c]) ELSE <<>>
  <1>1. Children(p) \subseteq Process
    BY ChildrenAreProcesses
  <1>2. Taken(p, k) \subseteq Children(p)
    BY DEF Taken
  <1>3. ASSUME NEW c \in Taken(p, k)
        PROVE  /\ from(c) = <<up[c][1]>> /\ up[c][1].sweep = root_down_sweep
               /\ up[c][1] \in UpInt
    <2>1. c \in Process /\ st[c] = "up" /\ k[c] = 1
      BY <1>1, <1>2, Arrives
    <2>2. up[c] = <<up[c][1]>> /\ Len(up[c]) = 1 /\ up[c][1].sweep = root_down_sweep
      BY <2>1, OneMessageUp
    <2>3. up[c] \in Seq(UpInt)
      BY <2>1 DEF TypeInv
    <2>4. SubSeq(up[c], 1, 1) = up[c] /\ up[c][1] \in UpInt
      BY <2>2, <2>3, SubSeqOfOne, OneIsTuple
    <2>5. from(c) = SubSeq(up[c], 1, 1)
      BY <1>2, <2>1
    <2> HIDE DEF from
    <2> QED
      BY <2>2, <2>4, <2>5
  <1>4. ASSUME NEW c, c \notin Taken(p, k) PROVE from(c) = <<>>
    <2>1. CASE c \in Children(p)
      <3>1. k[c] = 0
        BY <1>4, <2>1, Arrives
      <3>2. up[c] \in Seq(UpInt)
        BY <1>1, <2>1 DEF TypeInv
      <3> QED
        BY <3>1, <3>2, SubSeqOfOne
    <2> QED
      BY <2>1
  <1>5. ReceiveAll(p, k) = Collect(accum_data[p], from(l) \o from(r))
    BY DEF ReceiveAll, Collect
  <1> HIDE DEF from
  <1>6. ASSUME NEW m, m.sweep = root_down_sweep
        PROVE  Accumulate(accum_data[p], m)
                 = Entry(root_down_sweep, safe_add(KeptCount(p), m.count), KeptNumber(p) + 1)
    BY <1>6, AccumulateKept, Zenon
  <1>7. CASE l \in Taken(p, k) /\ r \notin Taken(p, k)
    <2>1. from(l) \o from(r) = <<up[l][1]>>
      BY <1>3, <1>4, <1>7, ConcatOfOnes
    <2>2. ReceiveAll(p, k) = Accumulate(accum_data[p], up[l][1])
      BY <1>5, <2>1, FoldOne, Zenon
    <2>3. ReceiveAll(p, k) = Entry(root_down_sweep,
                           safe_add(KeptCount(p), up[l][1].count), KeptNumber(p) + 1)
      BY <1>3, <1>6, <1>7, <2>2
    <2>4. Taken(p, k) = {l}
      BY <1>2, <1>7 DEF Children
    <2> QED
      BY <1>2, <1>7, <2>3, <2>4
  <1>8. CASE l \notin Taken(p, k) /\ r \in Taken(p, k)
    <2>1. from(l) \o from(r) = <<up[r][1]>>
      BY <1>3, <1>4, <1>8, ConcatOfOnes
    <2>2. ReceiveAll(p, k) = Accumulate(accum_data[p], up[r][1])
      BY <1>5, <2>1, FoldOne, Zenon
    <2>3. ReceiveAll(p, k) = Entry(root_down_sweep,
                           safe_add(KeptCount(p), up[r][1].count), KeptNumber(p) + 1)
      BY <1>3, <1>6, <1>8, <2>2
    <2>4. Taken(p, k) = {r}
      BY <1>2, <1>8 DEF Children
    <2> QED
      BY <1>2, <1>8, <2>3, <2>4
  <1>9. CASE l \in Taken(p, k) /\ r \in Taken(p, k)
    <2>0. l # r /\ Taken(p, k) = {l, r} /\ Children(p) = {l, r}
      <3>1. l # None /\ r # None
        BY <1>2, <1>9 DEF Children
      <3>2. l # r
        BY <3>1, NAssumption DEF LeftChild, RightChild, None, Process
      <3>3. Children(p) = {l, r}
        BY <3>1 DEF Children
      <3> QED
        BY <1>2, <1>9, <3>2, <3>3
    <2>1. from(l) \o from(r) = <<up[l][1], up[r][1]>>
      BY <1>3, <1>9, ConcatOfOnes
    <2>2. ReceiveAll(p, k) = Accumulate(Accumulate(accum_data[p], up[l][1]), up[r][1])
      <3>1. \A acc, m, n : Collect(acc, <<m, n>>) = Accumulate(Accumulate(acc, m), n)
        BY FoldTwo
      <3>2. Collect(accum_data[p], <<up[l][1], up[r][1]>>)
              = Accumulate(Accumulate(accum_data[p], up[l][1]), up[r][1])
        BY <3>1
      <3> QED
        BY <1>5, <2>1, <3>2, Zenon
    <2>3. ReceiveAll(p, k)
            = Accumulate(Entry(root_down_sweep, safe_add(KeptCount(p), up[l][1].count),
                               KeptNumber(p) + 1), up[r][1])
      <3>1. up[l][1].sweep = root_down_sweep
        BY <1>3, <1>9
      <3>2. Accumulate(accum_data[p], up[l][1])
              = Entry(root_down_sweep, safe_add(KeptCount(p), up[l][1].count),
                      KeptNumber(p) + 1)
        BY <1>6, <3>1, Zenon
      <3> QED
        BY <2>2, <3>2, Zenon
    <2>4. ReceiveAll(p, k) = Entry(root_down_sweep,
                           safe_add(safe_add(KeptCount(p), up[l][1].count), up[r][1].count),
                           KeptNumber(p) + 1 + 1)
      <3>1. up[r][1].sweep = root_down_sweep
        BY <1>3, <1>9
      <3> QED
        <4>1. \A x, n, m : m.sweep = root_down_sweep =>
                Accumulate(Entry(root_down_sweep, x, n), m)
                  = Entry(root_down_sweep, safe_add(x, m.count), n + 1)
          BY DEF Accumulate, Entry
        <4>2. Accumulate(Entry(root_down_sweep, safe_add(KeptCount(p), up[l][1].count),
                               KeptNumber(p) + 1), up[r][1])
                = Entry(root_down_sweep,
                        safe_add(safe_add(KeptCount(p), up[l][1].count), up[r][1].count),
                        KeptNumber(p) + 1 + 1)
          BY <3>1, <4>1, Zenon
        <4> QED
          BY <2>3, <4>2, Zenon
    <2> QED
      BY <1>2, <1>9, <2>0, <2>4
  <1> QED
    BY <1>2, <1>7, <1>8, <1>9 DEF Children

-----------------------------------------------------------------------------
(* The sweep in the tree *)

(* What the root has and each process takes over from its parent, all the  *)
(* processes have.                                                         *)
LEMMA PassesDown ==
  ASSUME NEW S, Root \in S,
         \A c \in Process \ {Root} : Parent(c) \in S => c \in S
  PROVE  Process \subseteq S
  <1> DEFINE T == {p \in Process : p \notin S}
  <1>1. SUFFICES ASSUME T # {} PROVE FALSE
    OBVIOUS
  <1>2. PICK p \in T : \A q \in T : p <= q
    BY <1>1, SmallestProcess
  <1>3. p # Root
    OBVIOUS
  <1>4. Parent(p) \in Process /\ Parent(p) < p
    BY <1>3, ParentIsSmaller
  <1>5. Parent(p) \notin T
    BY <1>2, <1>4, NAssumption DEF Process
  <1> QED
    BY <1>3, <1>4, <1>5

LEMMA RootIsProcess == Root \in Process
  BY NAssumption DEF Root, Process

LEMMA AllUsed ==
  ASSUME NEW st \in [Process -> Status], Sweeping(st), st[Root] = "used"
  PROVE  \A p \in Process : st[p] = "used"
  <1> DEFINE S == {p \in Process : st[p] = "used"}
  <1>1. Root \in S
    BY RootIsProcess
  <1>2. ASSUME NEW c \in Process \ {Root}, Parent(c) \in S PROVE c \in S
    BY <1>2 DEF Sweeping, Follows
  <1> HIDE DEF S
  <1>3. Process \subseteq S
    BY <1>1, <1>2, PassesDown
  <1> QED
    BY <1>3 DEF S

LEMMA AllOut ==
  ASSUME NEW st \in [Process -> Status], Sweeping(st), st[Root] = "out"
  PROVE  \A p \in Process : st[p] = "out"
  <1> DEFINE S == {p \in Process : st[p] = "out"}
  <1>1. Root \in S
    BY RootIsProcess
  <1>2. ASSUME NEW c \in Process \ {Root}, Parent(c) \in S PROVE c \in S
    BY <1>2 DEF Sweeping, Follows
  <1> HIDE DEF S
  <1>3. Process \subseteq S
    BY <1>1, <1>2, PassesDown
  <1> QED
    BY <1>3 DEF S

(* Once all the children of the root have answered, so has everybody.      *)
LEMMA AllAnswered ==
  ASSUME NEW st \in [Process -> Status], Sweeping(st),
         \A c \in Children(Root) : st[c] \in {"up", "used"}
  PROVE  \A p \in Process \ {Root} : p \in Children(Root) \/ st[p] = "used"
  <1> DEFINE S == {p \in Process : p = Root \/ p \in Children(Root) \/ st[p] = "used"}
  <1>1. Root \in S
    BY RootIsProcess
  <1>2. ASSUME NEW c \in Process \ {Root}, Parent(c) \in S PROVE c \in S
    <2>1. CASE Parent(c) = Root
      BY <2>1, RootIsProcess, ChildrenMatchParent
    <2>2. CASE Parent(c) # Root
      <3>1. st[Parent(c)] \in {"up", "used"}
        BY <1>2, <2>2
      <3>2. Follows(c, st)
        BY DEF Sweeping
      <3> QED
        BY <3>1, <3>2 DEF Follows
    <2> QED
      BY <2>1, <2>2
  <1> HIDE DEF S
  <1>3. Process \subseteq S
    BY <1>1, <1>2, PassesDown
  <1> QED
    BY <1>3 DEF S

(* Where a process stands is not changed by a step that leaves it and the  *)
(* answers of its children alone.                                          *)
LEMMA Unmoved ==
  ASSUME NEW p, NEW st, NEW new, Stands(p, st), st[p] \in Status, new[p] = st[p],
         down'[p] = down[p], up'[p] = up[p], accum_data'[p] = accum_data[p],
         p \in reported' <=> p \in reported, root_down_sweep' = root_down_sweep,
         \A c \in Children(p) : new[c] = "used" <=> st[c] = "used"
  PROVE  Stands(p, new)'
  <1>1. NothingAt(p)' <=> NothingAt(p)
    BY DEF NothingAt
  <1>2. NothingKept(p)' <=> NothingKept(p)
    BY DEF NothingKept
  <1>3. Waits(p, st) => Waits(p, new)'
    BY <1>2 DEF Waits
  <1> QED
    BY <1>1, <1>2, <1>3 DEF Stands, Status

LEMMA SweepUnmoved ==
  ASSUME SweepInv, UNCHANGED <<treeVars, reported>>
  PROVE  SweepInv'
  <1>1. PICK st \in [Process -> Status] : Sweeping(st)
    BY DEF SweepInv
  <1>2. ASSUME NEW p \in Process PROVE Stands(p, st)'
    <2>1. Stands(p, st) /\ st[p] \in Status
      BY <1>1 DEF Sweeping
    <2> QED
      BY <2>1, Unmoved DEF treeVars
  <1>3. RootStands(st)'
    BY <1>1 DEF Sweeping, RootStands, treeVars
  <1>4. Sweeping(st)'
    BY <1>1, <1>2, <1>3 DEF Sweeping
  <1> QED
    BY <1>4 DEF SweepInv

(* x is what p has gathered with the counts it now takes.                  *)
Gathers(p, k, x) ==
  \/ \E c \in Children(p) :
       /\ Taken(p, k) = {c}
       /\ x = safe_add(KeptCount(p), up[c][1].count)
  \/ \E c, d \in Children(p) :
       /\ c # d /\ Taken(p, k) = {c, d} /\ Children(p) = {c, d}
       /\ NothingKept(p)
       /\ x = safe_add(safe_add(KeptCount(p), up[c][1].count), up[d][1].count)

LEMMA EntryIsComplete ==
  ASSUME NEW p, NEW s \in Int, NEW x, NEW n
  PROVE  /\ Complete(p, Entry(s, x, n)) <=> n = Cardinality(Children(p))
         /\ First(Entry(s, x, n)) = s /\ DOMAIN Entry(s, x, n) = {s}
         /\ Entry(s, x, n)[s] = [count |-> x, received |-> n]
  <1>1. First(Entry(s, x, n)) = s
    BY DEF First, Entry, Min
  <1>2. Entry(s, x, n)[s] = [count |-> x, received |-> n] /\ DOMAIN Entry(s, x, n) = {s}
    BY DEF Entry
  <1> QED
    BY <1>1, <1>2 DEF Complete

LEMMA TakesFromBelow ==
  ASSUME TypeInv, NEW st \in [Process -> Status], Sweeping(st),
         NEW p \in Process, NEW k \in Arrivals(p), Arrived(p, k), Taken(p, k) # {}
  PROVE  st[p] = "below" /\ Waits(p, st) /\ NothingAt(p) /\ p \notin reported
  <1>1. PICK c \in Children(p) : c \in Taken(p, k) /\ st[c] = "up"
    BY Arrives DEF Taken
  <1>2. c \in Process \ {Root} /\ Parent(c) = p
    BY <1>1, ChildrenMatchParent, ChildrenAreProcesses
  <1>3. Follows(c, st)
    BY <1>2 DEF Sweeping
  <1>4. st[p] = "below"
    BY <1>1, <1>2, <1>3 DEF Follows, Status
  <1>5. Stands(p, st)
    BY DEF Sweeping
  <1> QED
    BY <1>4, <1>5 DEF Stands

LEMMA NothingTaken ==
  ASSUME TypeInv, NEW st \in [Process -> Status], Sweeping(st),
         NEW p \in Process, NEW k \in Arrivals(p), Arrived(p, k), Taken(p, k) = {}
  PROVE  ReceiveAll(p, k) = accum_data[p] /\ ~Complete(p, ReceiveAll(p, k))
  <1> DEFINE from(c) == IF c \in Children(p) THEN SubSeq(up[c], 1, k[c]) ELSE <<>>
  <1>1. ASSUME NEW c PROVE from(c) = <<>>
    <2>1. CASE c \in Children(p)
      <3>1. k[c] = 0
        BY <2>1, Arrives
      <3>2. up[c] \in Seq(UpInt)
        BY <2>1, ChildrenAreProcesses DEF TypeInv
      <3> QED
        BY <3>1, <3>2, SubSeqOfOne
    <2> QED
      BY <2>1
  <1>2. ReceiveAll(p, k)
          = Collect(accum_data[p], from(LeftChild(p)) \o from(RightChild(p)))
    BY DEF ReceiveAll, Collect
  <1> HIDE DEF from
  <1>3. from(LeftChild(p)) \o from(RightChild(p)) = <<>>
    BY <1>1
  <1>4. ReceiveAll(p, k) = accum_data[p]
    BY <1>2, <1>3, FoldNone
  <1>5. Stands(p, st) /\ st[p] \in Status
    BY DEF Sweeping
  <1>6. \/ NothingKept(p)
        \/ /\ DOMAIN accum_data[p] = {root_down_sweep} /\ Cardinality(Children(p)) = 2
           /\ accum_data[p][root_down_sweep].received = 1
    BY <1>5 DEF Stands, Status, Waits
  <1>7. First(accum_data[p]) = root_down_sweep
          \/ DOMAIN accum_data[p] # {root_down_sweep}
    BY DEF First, Min, TypeInv, Sweep
  <1>8. ~Complete(p, accum_data[p])
    BY <1>6, <1>7 DEF Complete, NothingKept
  <1> QED
    BY <1>4, <1>8

LEMMA SafeAddType ==
  ASSUME NEW a \in Int, NEW b \in Int
  PROVE  /\ safe_add(a, b) \in Int
         /\ safe_add(a, b) # Int64Max
              => a # Int64Max /\ b # Int64Max /\ safe_add(a, b) = a + b
  BY BoundsAssumption DEF safe_add

(* A process is told of its children one by one or together; it has all of *)
(* them when none is missing.                                              *)
LEMMA Gathered ==
  ASSUME TypeInv, NEW st \in [Process -> Status], Sweeping(st),
         NEW p \in Process, NEW k \in Arrivals(p), Arrived(p, k), Taken(p, k) # {}
  PROVE  \E x \in Int :
           /\ Gathers(p, k, x)
           /\ \/ /\ Complete(p, ReceiveAll(p, k))
                 /\ ReceiveAll(p, k)
                      = Entry(root_down_sweep, x, Cardinality(Children(p)))
                 /\ \A c \in Children(p) : c \in Taken(p, k) \/ st[c] = "used"
              \/ /\ ~Complete(p, ReceiveAll(p, k))
                 /\ ReceiveAll(p, k) = Entry(root_down_sweep, x, 1)
                 /\ NothingKept(p) /\ Cardinality(Children(p)) = 2
                 /\ \E c \in Children(p) :
                      Taken(p, k) = {c} /\ \A d \in Children(p) \ {c} : st[d] # "used"
  <1>1. Waits(p, st)
    BY TakesFromBelow
  <1>2. Children(p) \subseteq Process /\ Taken(p, k) \subseteq Children(p)
    BY ChildrenAreProcesses DEF Taken
  <1>3. ASSUME NEW c \in Taken(p, k)
        PROVE  st[c] = "up" /\ up[c][1].count \in Int
    <2>1. st[c] = "up" /\ c \in Process
      BY <1>2, Arrives
    <2> QED
      BY <2>1, OneMessageUp
  <1>4. KeptCount(p) \in Int
    BY <1>1 DEF Waits, KeptCount
  <1>5. \/ NothingKept(p) /\ KeptNumber(p) = 0 /\ \A c \in Children(p) : st[c] # "used"
        \/ /\ KeptNumber(p) = 1 /\ Cardinality(Children(p)) = 2
           /\ DOMAIN accum_data[p] = {root_down_sweep} /\ ~NothingKept(p)
           /\ \E c \in Children(p) :
                st[c] = "used" /\ \A d \in Children(p) \ {c} : st[d] # "used"
    BY <1>1 DEF Waits, KeptNumber, NothingKept
  <1>6. root_down_sweep \in Int
    BY DEF TypeInv, Sweep
  <1>7. CASE \E c \in Children(p) :
              /\ Taken(p, k) = {c}
              /\ ReceiveAll(p, k)
                   = Entry(root_down_sweep,
                           safe_add(KeptCount(p), up[c][1].count), KeptNumber(p) + 1)
    <2>1. PICK c \in Children(p) :
              /\ Taken(p, k) = {c}
              /\ ReceiveAll(p, k)
                   = Entry(root_down_sweep,
                           safe_add(KeptCount(p), up[c][1].count), KeptNumber(p) + 1)
      BY <1>7
    <2>2. PICK x \in Int : x = safe_add(KeptCount(p), up[c][1].count)
      BY <1>3, <1>4, <2>1, SafeAddType
    <2>3. Gathers(p, k, x)
      BY <2>1, <2>2 DEF Gathers
    <2>4. st[c] = "up"
      BY <1>3, <2>1
    <2>5. ReceiveAll(p, k) = Entry(root_down_sweep, x, KeptNumber(p) + 1)
      BY <2>1, <2>2
    <2>6. Complete(p, ReceiveAll(p, k)) <=> KeptNumber(p) + 1 = Cardinality(Children(p))
      <3>1. Complete(p, Entry(root_down_sweep, x, KeptNumber(p) + 1))
              <=> KeptNumber(p) + 1 = Cardinality(Children(p))
        BY <1>6, EntryIsComplete, Zenon
      <3> QED
        BY <2>5, <3>1, Zenon
    <2>7. CASE NothingKept(p) /\ KeptNumber(p) = 0 /\ \A d \in Children(p) : st[d] # "used"
      <3>1. CASE Cardinality(Children(p)) = 2
        BY <2>1, <2>3, <2>5, <2>6, <2>7, <3>1
      <3>2. CASE Cardinality(Children(p)) = 1
        <4>1. Children(p) = {c}
          BY <2>1, <3>2, TwoChildren
        <4>2. \A d \in Children(p) : d \in Taken(p, k) \/ st[d] = "used"
          BY <2>1, <4>1
        <4>3. KeptNumber(p) + 1 = Cardinality(Children(p))
          BY <2>7, <3>2
        <4> QED
          BY <2>3, <2>5, <2>6, <4>2, <4>3
      <3> QED
        BY <2>1, <3>1, <3>2, TwoChildren
    <2>8. CASE /\ KeptNumber(p) = 1 /\ Cardinality(Children(p)) = 2
               /\ DOMAIN accum_data[p] = {root_down_sweep} /\ ~NothingKept(p)
               /\ \E d \in Children(p) :
                    st[d] = "used" /\ \A e \in Children(p) \ {d} : st[e] # "used"
      <3>1. PICK d \in Children(p) : st[d] = "used"
        BY <2>8
      <3>2. Children(p) = {c, d}
        BY <2>1, <2>4, <3>1, <2>8, TwoChildren
      <3>3. \A e \in Children(p) : e \in Taken(p, k) \/ st[e] = "used"
        BY <2>1, <3>1, <3>2
      <3>4. KeptNumber(p) + 1 = Cardinality(Children(p))
        BY <2>8
      <3> QED
        BY <2>3, <2>5, <2>6, <3>3, <3>4
    <2> QED
      BY <1>5, <2>7, <2>8
  <1>8. CASE \E c, d \in Children(p) :
              /\ c # d /\ Taken(p, k) = {c, d} /\ Children(p) = {c, d}
              /\ ReceiveAll(p, k)
                   = Entry(root_down_sweep,
                           safe_add(safe_add(KeptCount(p), up[c][1].count), up[d][1].count),
                           KeptNumber(p) + 1 + 1)
    <2>1. PICK c, d \in Children(p) :
              /\ c # d /\ Taken(p, k) = {c, d} /\ Children(p) = {c, d}
              /\ ReceiveAll(p, k)
                   = Entry(root_down_sweep,
                           safe_add(safe_add(KeptCount(p), up[c][1].count), up[d][1].count),
                           KeptNumber(p) + 1 + 1)
      BY <1>8
    <2>2. safe_add(KeptCount(p), up[c][1].count) \in Int /\ up[d][1].count \in Int
      BY <1>3, <1>4, <2>1, SafeAddType
    <2>3. PICK x \in Int :
            x = safe_add(safe_add(KeptCount(p), up[c][1].count), up[d][1].count)
      BY <2>2, SafeAddType
    <2>4. \A e \in Children(p) : st[e] = "up"
      BY <1>3, <2>1
    <2>5. NothingKept(p) /\ KeptNumber(p) = 0
      BY <1>5, <2>4
    <2>6. Gathers(p, k, x)
      BY <2>1, <2>3, <2>5 DEF Gathers
    <2>7. Cardinality(Children(p)) = 2
      <3>1. Children(p) # {} /\ \A z : Children(p) # {z}
        BY <2>1
      <3> QED
        BY <3>1, TwoChildren
    <2>8. ReceiveAll(p, k) = Entry(root_down_sweep, x, Cardinality(Children(p)))
      BY <2>1, <2>3, <2>5, <2>7
    <2>9. Complete(p, ReceiveAll(p, k))
      <3>1. Complete(p, Entry(root_down_sweep, x, Cardinality(Children(p))))
        BY <1>6, EntryIsComplete, Zenon
      <3> QED
        BY <2>8, <3>1, Zenon
    <2>10. \A e \in Children(p) : e \in Taken(p, k) \/ st[e] = "used"
      BY <2>1
    <2> QED
      BY <2>6, <2>8, <2>9, <2>10
  <1>9. NothingKept(p) \/ DOMAIN accum_data[p] = {root_down_sweep}
    BY <1>5
  <1> QED
    BY <1>7, <1>8, <1>9, Collected

(* A step that shows where everybody stands afterwards.                    *)
LEMMA SweepWitness ==
  ASSUME NEW new \in [Process -> Status],
         \A q \in Process : Stands(q, new)',
         \A c \in Process \ {Root} : Follows(c, new), RootStands(new)'
  PROVE  SweepInv'
  <1>1. Sweeping(new)'
    BY DEF Sweeping
  <1> QED
    BY <1>1 DEF SweepInv

LEMMA DownMeansBelow ==
  ASSUME NEW st \in [Process -> Status], Sweeping(st), NEW p \in Process,
         st[p] \in {"down", "below", "up"}, p # Root
  PROVE  st[Parent(p)] = "below" /\ Parent(p) \in Process /\ Parent(p) # p
  <1>1. Follows(p, st)
    BY DEF Sweeping
  <1>2. Parent(p) \in Process /\ Parent(p) < p /\ p \in Int
    BY ParentIsSmaller DEF Process
  <1> QED
    BY <1>1, <1>2 DEF Follows, Status

LEMMA OneMessageDown ==
  ASSUME NEW st \in [Process -> Status], Sweeping(st), NEW p \in Process
  PROVE  \/ down[p] = <<>> /\ st[p] # "down"
         \/ /\ st[p] = "down" /\ p # Root /\ down[p] = <<root_down_sweep>>
            /\ up[p] = <<>> /\ NothingKept(p) /\ p \notin reported
  BY DEF Sweeping, Stands, Status, NothingAt

LEMMA SweepLeaf ==
  ASSUME TypeInv, SweepInv, NEW p \in Process, CheckLeaf(p)
  PROVE  SweepInv'
  <1>1. PICK st \in [Process -> Status] : Sweeping(st)
    BY DEF SweepInv
  <1>2. /\ st[p] = "down" /\ p # Root /\ down[p] = <<root_down_sweep>>
        /\ up[p] = <<>> /\ NothingKept(p)
    BY <1>1, OneMessageDown DEF CheckLeaf
  <1>3. PICK new \in [Process -> Status] :
          new[p] = "up" /\ \A q \in Process \ {p} : new[q] = st[q]
    <2>1. [st EXCEPT ![p] = "up"] \in [Process -> Status]
      BY DEF Status
    <2> QED
      BY <2>1
  <1>4. Stands(p, new)'
    <2>1. down'[p] = <<>>
      BY <1>2 DEF CheckLeaf, TypeInv
    <2>2. Len(up'[p]) = 1 /\ up'[p][1].sweep = root_down_sweep'
      BY <1>2 DEF CheckLeaf, TypeInv
    <2>3. p \in reported' /\ NothingKept(p)'
      BY <1>2 DEF CheckLeaf, NothingKept
    <2> QED
      BY <1>2, <1>3, <2>1, <2>2, <2>3 DEF Stands
  <1>5. ASSUME NEW q \in Process \ {p} PROVE Stands(q, new)'
    <2>1. Stands(q, st) /\ st[q] \in Status /\ new[q] = st[q]
      BY <1>1, <1>3 DEF Sweeping
    <2>2. /\ down'[q] = down[q] /\ up'[q] = up[q] /\ accum_data'[q] = accum_data[q]
          /\ q \in reported' <=> q \in reported
          /\ root_down_sweep' = root_down_sweep
      BY DEF CheckLeaf, TypeInv
    <2>3. \A c \in Children(q) : new[c] = "used" <=> st[c] = "used"
      BY <1>2, <1>3, ChildrenAreProcesses
    <2> QED
      BY <2>1, <2>2, <2>3, Unmoved
  <1>6. ASSUME NEW c \in Process \ {Root} PROVE Follows(c, new)
    <2>1. Follows(c, st) /\ Parent(c) \in Process
      BY <1>1, ParentIsSmaller DEF Sweeping
    <2>2. Parent(c) # p
      <3>1. Children(p) = {}
        BY DEF CheckLeaf, IsLeaf
      <3> QED
        BY <3>1, ChildrenMatchParent
    <2>3. new[Parent(c)] = st[Parent(c)]
      BY <1>3, <2>1, <2>2
    <2>4. CASE c = p
      <3>1. st[Parent(p)] = "below"
        BY <1>1, <1>2, DownMeansBelow
      <3> QED
        BY <1>3, <2>3, <2>4, <3>1 DEF Follows
    <2>5. CASE c # p
      BY <1>3, <2>1, <2>3, <2>5 DEF Follows
    <2> QED
      BY <2>4, <2>5
  <1>7. RootStands(new)'
    <2>1. new[Root] = st[Root] /\ RootStands(st)
      BY <1>1, <1>2, <1>3, RootIsProcess DEF Sweeping
    <2> QED
      BY <1>2, <2>1 DEF RootStands, CheckLeaf
  <1> QED
    BY <1>4, <1>5, <1>6, <1>7, SweepWitness

LEMMA SweepDown ==
  ASSUME TypeInv, SweepInv, NEW p \in Process, CheckDown(p)
  PROVE  SweepInv'
  <1>1. PICK st \in [Process -> Status] : Sweeping(st)
    BY DEF SweepInv
  <1>2. /\ st[p] = "down" /\ p # Root /\ down[p] = <<root_down_sweep>>
        /\ up[p] = <<>> /\ NothingKept(p) /\ p \notin reported
    BY <1>1, OneMessageDown DEF CheckDown
  <1>3. Children(p) \subseteq Process \ {p, Root}
    BY ChildrenAreProcesses
  <1>4. PICK new \in [Process -> Status] :
          /\ new[p] = "below" /\ \A c \in Children(p) : new[c] = "down"
          /\ \A q \in Process \ (Children(p) \cup {p}) : new[q] = st[q]
    <2>1. [q \in Process |-> IF q = p THEN "below" ELSE IF q \in Children(p) THEN "down"
                             ELSE st[q]] \in [Process -> Status]
      BY DEF Status
    <2> QED
      BY <1>3, <2>1
  <1>5. \A c \in Children(p) : st[c] = "out"
    <2> SUFFICES ASSUME NEW c \in Children(p) PROVE st[c] = "out"
      OBVIOUS
    <2>1. Follows(c, st) /\ Parent(c) = p
      BY <1>1, <1>3, ChildrenMatchParent DEF Sweeping
    <2> QED
      BY <1>2, <2>1 DEF Follows
  <1>6. /\ UNCHANGED <<up, accum_data, reported, root_down_sweep, phase, local_sweep_number>>
        /\ down'[p] = <<>>
        /\ \A c \in Children(p) : down'[c] = Append(down[c], root_down_sweep)
        /\ \A q \in Process \ (Children(p) \cup {p}) : down'[q] = down[q]
    <2>1. down' = [SentToChildren(p, Head(down[p])) EXCEPT ![p] = Tail(@)]
      BY DEF CheckDown
    <2>2. SentToChildren(p, Head(down[p])) =
           [c \in Process |-> IF c \in Children(p) THEN Append(down[c], root_down_sweep)
                              ELSE down[c]]
      BY <1>2 DEF SentToChildren
    <2>3. down' = [c \in Process |-> IF c = p THEN <<>> ELSE IF c \in Children(p) THEN Append(down[c], root_down_sweep)
                              ELSE down[c]]
      <3>1. Tail(down[p]) = <<>> /\ p \notin Children(p)
        BY <1>2, <1>3
      <3> QED
        BY <2>1, <2>2, <3>1
    <2> QED
      BY <1>3, <2>3 DEF CheckDown
  <1>7. Stands(p, new)'
    <2>1. NothingAt(p)' /\ NothingKept(p)' /\ p \notin reported'
      BY <1>2, <1>6 DEF NothingAt, NothingKept
    <2>2. Waits(p, new)'
      BY <1>4, <2>1 DEF Waits
    <2> QED
      BY <1>4, <2>1, <2>2 DEF Stands, CheckDown
  <1>8. ASSUME NEW q \in Children(p) PROVE Stands(q, new)'
    <2>1. down[q] = <<>> /\ up[q] = <<>> /\ NothingKept(q) /\ q \notin reported
      <3>1. Stands(q, st) /\ st[q] = "out"
        BY <1>1, <1>3, <1>5 DEF Sweeping
      <3> QED
        BY <3>1 DEF Stands, NothingAt
    <2>2. down'[q] = <<root_down_sweep'>> /\ up'[q] = <<>> /\ NothingKept(q)'
          /\ q \notin reported'
      BY <1>6, <2>1 DEF NothingKept
    <2> QED
      BY <1>3, <1>4, <2>2 DEF Stands
  <1>9. ASSUME NEW q \in Process \ (Children(p) \cup {p}) PROVE Stands(q, new)'
    <2>1. Stands(q, st) /\ st[q] \in Status /\ new[q] = st[q]
      BY <1>1, <1>4 DEF Sweeping
    <2>2. \A c \in Children(q) : new[c] = "used" <=> st[c] = "used"
      <3> SUFFICES ASSUME NEW c \in Children(q) PROVE new[c] = "used" <=> st[c] = "used"
        OBVIOUS
      <3>1. c \in Process
        BY ChildrenAreProcesses
      <3> QED
        BY <1>2, <1>4, <1>5, <3>1
    <2> QED
      BY <1>6, <2>1, <2>2, Unmoved
  <1>10. ASSUME NEW c \in Process \ {Root} PROVE Follows(c, new)
    <2>1. Follows(c, st) /\ Parent(c) \in Process
      BY <1>1, ParentIsSmaller DEF Sweeping
    <2>2. c \in Children(p) <=> Parent(c) = p
      BY ChildrenMatchParent
    <2>3. CASE c \in Children(p)
      BY <1>4, <2>2, <2>3 DEF Follows
    <2>4. CASE c = p
      <3>1. st[Parent(p)] = "below" /\ Parent(p) # p
        BY <1>1, <1>2, DownMeansBelow
      <3>2. new[Parent(p)] = "below"
        BY <1>4, <1>5, <2>1, <2>4, <3>1
      <3> QED
        BY <1>4, <2>4, <3>2 DEF Follows
    <2>5. CASE c \notin Children(p) \cup {p}
      <3>1. new[c] = st[c]
        BY <1>4, <2>5
      <3>2. CASE Parent(c) \in Children(p)
        <4>1. st[Parent(c)] = "out" /\ new[Parent(c)] = "down"
          BY <1>4, <1>5, <3>2
        <4> QED
          BY <2>1, <3>1, <4>1 DEF Follows
      <3>3. CASE Parent(c) \notin Children(p)
        <4>1. new[Parent(c)] = st[Parent(c)]
          BY <1>4, <2>1, <2>2, <2>5, <3>3
        <4> QED
          BY <2>1, <3>1, <4>1 DEF Follows
      <3> QED
        BY <3>2, <3>3
    <2> QED
      BY <2>3, <2>4, <2>5
  <1>11. RootStands(new)'
    <2>1. new[Root] = st[Root] /\ RootStands(st)
      BY <1>1, <1>2, <1>3, <1>4, RootIsProcess DEF Sweeping
    <2> QED
      BY <1>6, <2>1 DEF RootStands
  <1> QED
    BY <1>7, <1>8, <1>9, <1>10, <1>11, SweepWitness

LEMMA SweepIncomplete ==
  ASSUME TypeInv, SweepInv, NEW p \in Process, NEW k \in Arrivals(p), CheckIncomplete(p, k)
  PROVE  SweepInv'
  <1>1. PICK st \in [Process -> Status] : Sweeping(st)
    BY DEF SweepInv
  <1>2. Arrived(p, k) /\ Taken(p, k) # {} /\ ~Complete(p, ReceiveAll(p, k))
    BY DEF CheckIncomplete, Taken
  <1>3. st[p] = "below" /\ NothingAt(p) /\ p \notin reported
    BY <1>1, <1>2, TakesFromBelow
  <1>4. PICK x \in Int : /\ ReceiveAll(p, k) = Entry(root_down_sweep, x, 1)
                         /\ NothingKept(p) /\ Cardinality(Children(p)) = 2
                         /\ \E c \in Children(p) :
                              /\ Taken(p, k) = {c}
                              /\ \A d \in Children(p) \ {c} : st[d] # "used"
    BY <1>1, <1>2, Gathered
  <1>5. PICK c \in Children(p) : /\ Taken(p, k) = {c}
                                 /\ \A d \in Children(p) \ {c} : st[d] # "used"
    BY <1>4
  <1>6. c \in Process /\ c # p /\ c # Root /\ st[c] = "up" /\ Parent(c) = p
    <2>1. c \in Process \ {p, Root}
      BY ChildrenAreProcesses
    <2> QED
      BY <1>1, <1>2, <1>5, <2>1, Arrives, ChildrenMatchParent
  <1>7. PICK new \in [Process -> Status] :
          new[c] = "used" /\ \A q \in Process \ {c} : new[q] = st[q]
    <2>1. [st EXCEPT ![c] = "used"] \in [Process -> Status]
      BY DEF Status
    <2> QED
      BY <1>6, <2>1
  <1>8. /\ UNCHANGED <<down, reported, root_down_sweep, phase, local_sweep_number>>
        /\ up'[c] = <<>> /\ \A q \in Process \ {c} : up'[q] = up[q]
        /\ accum_data'[p] = Entry(root_down_sweep, x, 1)
        /\ \A q \in Process \ {p} : accum_data'[q] = accum_data[q]
    <2>1. up' = [q \in Process |-> IF q \in {c} THEN <<>> ELSE up[q]]
      BY <1>1, <1>2, <1>5, Arrives DEF CheckIncomplete
    <2>2. accum_data' = [accum_data EXCEPT ![p] = Entry(root_down_sweep, x, 1)]
      BY <1>4 DEF CheckIncomplete
    <2> QED
      BY <1>6, <2>1, <2>2 DEF CheckIncomplete, TypeInv
  <1>9. Stands(c, new)'
    <2>1. Stands(c, st)
      BY <1>1, <1>6 DEF Sweeping
    <2>2. down[c] = <<>> /\ NothingKept(c) /\ c \in reported
      BY <1>6, <2>1 DEF Stands
    <2>3. NothingAt(c)' /\ NothingKept(c)' /\ c \in reported'
      BY <1>6, <1>8, <2>2 DEF NothingAt, NothingKept
    <2> QED
      BY <1>7, <2>3 DEF Stands
  <1>10. Stands(p, new)'
    <2>1. NothingAt(p)' /\ p \notin reported' /\ ~IsLeaf(p)
      BY <1>3, <1>6, <1>8 DEF NothingAt, IsLeaf
    <2>2. Waits(p, new)'
      <3>1. /\ DOMAIN accum_data'[p] = {root_down_sweep}
            /\ accum_data'[p][root_down_sweep] = [count |-> x, received |-> 1]
        BY <1>8 DEF Entry
      <3>2. \A d \in Children(p) \ {c} : new[d] # "used"
        BY <1>5, <1>7, ChildrenAreProcesses
      <3>3. root_down_sweep' = root_down_sweep
        BY <1>8
      <3>4. /\ accum_data'[p][root_down_sweep'].count \in Int
            /\ accum_data'[p][root_down_sweep'].received = 1
        BY <3>1, <3>3
      <3> QED
        BY <1>4, <1>7, <3>1, <3>2, <3>3, <3>4 DEF Waits
    <2> QED
      BY <1>3, <1>6, <1>7, <2>1, <2>2 DEF Stands
  <1>11. ASSUME NEW q \in Process \ {p, c} PROVE Stands(q, new)'
    <2>1. Stands(q, st) /\ st[q] \in Status /\ new[q] = st[q]
      BY <1>1, <1>7 DEF Sweeping
    <2>2. \A d \in Children(q) : new[d] = "used" <=> st[d] = "used"
      <3> SUFFICES ASSUME NEW d \in Children(q) PROVE new[d] = "used" <=> st[d] = "used"
        OBVIOUS
      <3>1. d \in Process /\ Parent(d) = q
        BY ChildrenAreProcesses, ChildrenMatchParent
      <3> QED
        BY <1>6, <1>7, <3>1
    <2> QED
      BY <1>8, <2>1, <2>2, Unmoved
  <1>12. ASSUME NEW d \in Process \ {Root} PROVE Follows(d, new)
    <2>1. Follows(d, st) /\ Parent(d) \in Process
      BY <1>1, ParentIsSmaller DEF Sweeping
    <2>2. CASE d = c
      BY <1>3, <1>6, <1>7, <2>2 DEF Follows
    <2>3. CASE d # c /\ Parent(d) = c
      <3>1. st[d] = "used"
        BY <1>6, <2>1, <2>3 DEF Follows
      <3> QED
        BY <1>7, <2>3, <3>1 DEF Follows
    <2>4. CASE d # c /\ Parent(d) # c
      BY <1>7, <2>1, <2>4 DEF Follows
    <2> QED
      BY <2>2, <2>3, <2>4
  <1>13. RootStands(new)'
    <2>1. new[Root] = st[Root] /\ RootStands(st)
      BY <1>1, <1>6, <1>7, RootIsProcess DEF Sweeping
    <2> QED
      BY <1>8, <2>1 DEF RootStands
  <1> QED
    BY <1>9, <1>10, <1>11, <1>12, <1>13, SweepWitness

(* What a process has gathered when it is complete.                        *)
LEMMA CompleteGathers ==
  ASSUME TypeInv, NEW st \in [Process -> Status], Sweeping(st),
         NEW p \in Process, NEW k \in Arrivals(p), Arrived(p, k),
         Complete(p, ReceiveAll(p, k))
  PROVE  /\ st[p] = "below" /\ NothingAt(p) /\ p \notin reported
         /\ Taken(p, k) # {}
         /\ \A c \in Children(p) : st[c] \in {"up", "used"}
         /\ \A c \in Children(p) : up[c] = <<>> \/ c \in Taken(p, k)
         /\ First(ReceiveAll(p, k)) = root_down_sweep
         /\ DOMAIN ReceiveAll(p, k) = {root_down_sweep}
         /\ \E x \in Int : Gathers(p, k, x) /\ ReceiveAll(p, k)[root_down_sweep].count = x
  <1>1. Taken(p, k) # {}
    BY NothingTaken
  <1>2. PICK x \in Int :
          /\ Gathers(p, k, x)
          /\ ReceiveAll(p, k) = Entry(root_down_sweep, x, Cardinality(Children(p)))
          /\ \A c \in Children(p) : c \in Taken(p, k) \/ st[c] = "used"
    BY <1>1, Gathered
  <1>3. st[p] = "below" /\ NothingAt(p) /\ p \notin reported
    BY <1>1, TakesFromBelow
  <1>4. root_down_sweep \in Int
    BY DEF TypeInv, Sweep
  <1>5. \A c \in Children(p) : st[c] \in {"up", "used"}
    BY <1>2, Arrives
  <1>6. /\ First(ReceiveAll(p, k)) = root_down_sweep
        /\ DOMAIN ReceiveAll(p, k) = {root_down_sweep}
        /\ ReceiveAll(p, k)[root_down_sweep].count = x
    <2>1. LET acc == Entry(root_down_sweep, x, Cardinality(Children(p))) IN
            /\ First(acc) = root_down_sweep
            /\ DOMAIN acc = {root_down_sweep}
            /\ acc[root_down_sweep] = [count |-> x, received |-> Cardinality(Children(p))]
      BY <1>4, EntryIsComplete
    <2> QED
      BY <1>2, <2>1
  <1>7. ASSUME NEW c \in Children(p), c \notin Taken(p, k) PROVE up[c] = <<>>
    <2>1. st[c] = "used" /\ c \in Process
      BY <1>2, <1>7, ChildrenAreProcesses
    <2> QED
      BY <2>1, OneMessageUp
  <1> QED
    BY <1>1, <1>2, <1>3, <1>5, <1>6, <1>7

(* What a process passes on is no longer kept, and its children have        *)
(* nothing left.                                                           *)
LEMMA CompleteClears ==
  ASSUME TypeInv, NEW st \in [Process -> Status], Sweeping(st),
         NEW p \in Process, NEW k \in Arrivals(p), Arrived(p, k),
         Complete(p, ReceiveAll(p, k)),
         accum_data' = [accum_data EXCEPT ![p] =
                          Restrict(ReceiveAll(p, k),
                                   DOMAIN ReceiveAll(p, k) \ {First(ReceiveAll(p, k))})]
  PROVE  /\ NothingKept(p)' /\ \A q \in Process \ {p} : accum_data'[q] = accum_data[q]
         /\ UpAfter(p, k) = [c \in Process |-> IF c \in Children(p) THEN <<>> ELSE up[c]]
  <1>1. /\ DOMAIN ReceiveAll(p, k) \ {First(ReceiveAll(p, k))} = {}
        /\ \A c \in Children(p) : up[c] = <<>> \/ c \in Taken(p, k)
    BY CompleteGathers
  <1>2. accum_data'[p] = Restrict(ReceiveAll(p, k), {})
    BY <1>1 DEF TypeInv
  <1>3. NothingKept(p)'
    BY <1>2 DEF NothingKept, Restrict
  <1>4. \A q \in Process \ {p} : accum_data'[q] = accum_data[q]
    BY DEF TypeInv
  <1>5. UpAfter(p, k) = [c \in Process |-> IF c \in Taken(p, k) THEN <<>> ELSE up[c]]
    BY Arrives
  <1>6. Taken(p, k) \subseteq Children(p)
    BY DEF Taken
  <1> QED
    BY <1>1, <1>3, <1>4, <1>5, <1>6

LEMMA SweepInner ==
  ASSUME TypeInv, SweepInv, NEW p \in Process, NEW k \in Arrivals(p), CheckInner(p, k)
  PROVE  SweepInv'
  <1>1. PICK st \in [Process -> Status] : Sweeping(st)
    BY DEF SweepInv
  <1>2. /\ Arrived(p, k) /\ Complete(p, ReceiveAll(p, k)) /\ p # Root
        /\ accum_data' = [accum_data EXCEPT ![p] =
                          Restrict(ReceiveAll(p, k),
                                   DOMAIN ReceiveAll(p, k) \ {First(ReceiveAll(p, k))})]
    BY DEF CheckInner
  <1>3. /\ st[p] = "below" /\ NothingAt(p) /\ p \notin reported
        /\ \A c \in Children(p) : st[c] \in {"up", "used"}
        /\ First(ReceiveAll(p, k)) = root_down_sweep
    BY <1>1, <1>2, CompleteGathers
  <1>4. Children(p) \subseteq Process \ {p, Root}
    BY ChildrenAreProcesses
  <1>5. PICK new \in [Process -> Status] :
          /\ new[p] = "up" /\ \A c \in Children(p) : new[c] = "used"
          /\ \A q \in Process \ (Children(p) \cup {p}) : new[q] = st[q]
    <2>1. [q \in Process |-> IF q = p THEN "up" ELSE IF q \in Children(p) THEN "used"
                             ELSE st[q]] \in [Process -> Status]
      BY DEF Status
    <2> QED
      BY <1>4, <2>1
  <1>6. /\ UNCHANGED <<down, root_down_sweep, phase>>
        /\ reported' = reported \cup {p}
        /\ \A q \in Process \ {p} : local_sweep_number'[q] = local_sweep_number[q]
        /\ Len(up'[p]) = 1 /\ up'[p][1].sweep = root_down_sweep
        /\ \A c \in Children(p) : up'[c] = <<>>
        /\ \A q \in Process \ (Children(p) \cup {p}) : up'[q] = up[q]
        /\ NothingKept(p)' /\ \A q \in Process \ {p} : accum_data'[q] = accum_data[q]
    <2>1. UpAfter(p, k) = [c \in Process |-> IF c \in Children(p) THEN <<>> ELSE up[c]]
      BY <1>1, <1>2, CompleteClears
    <2>2. PICK n : up' = [UpAfter(p, k) EXCEPT ![p] =
                            Append(@, [sweep |-> root_down_sweep, count |-> n])]
      BY <1>3 DEF CheckInner
    <2>3. UpAfter(p, k)[p] = <<>>
      BY <1>3, <1>4, <2>1 DEF NothingAt
    <2>4. up' = [c \in Process |->
                   IF c = p THEN <<[sweep |-> root_down_sweep, count |-> n]>>
                   ELSE IF c \in Children(p) THEN <<>> ELSE up[c]]
      BY <2>1, <2>2, <2>3
    <2>5. Len(up'[p]) = 1 /\ up'[p][1].sweep = root_down_sweep
      BY <2>4
    <2>6. /\ \A c \in Children(p) : up'[c] = <<>>
          /\ \A q \in Process \ (Children(p) \cup {p}) : up'[q] = up[q]
      BY <1>4, <2>4
    <2>7. NothingKept(p)' /\ \A q \in Process \ {p} : accum_data'[q] = accum_data[q]
      BY <1>1, <1>2, CompleteClears
    <2>8. \A q \in Process \ {p} : local_sweep_number'[q] = local_sweep_number[q]
      BY DEF CheckInner, TypeInv
    <2> QED
      BY <2>5, <2>6, <2>7, <2>8 DEF CheckInner
  <1>7. Stands(p, new)'
    <2>1. down'[p] = <<>>
      BY <1>3, <1>6 DEF NothingAt
    <2> QED
      BY <1>2, <1>5, <1>6, <2>1 DEF Stands
  <1>8. ASSUME NEW q \in Children(p) PROVE Stands(q, new)'
    <2>1. Stands(q, st) /\ st[q] \in {"up", "used"}
      BY <1>1, <1>3, <1>4 DEF Sweeping
    <2>2. down[q] = <<>> /\ NothingKept(q) /\ q \in reported
      BY <1>4, <2>1 DEF Stands, NothingAt
    <2>3. NothingAt(q)' /\ NothingKept(q)' /\ q \in reported'
      BY <1>4, <1>6, <2>2 DEF NothingAt, NothingKept
    <2> QED
      BY <1>5, <2>3 DEF Stands
  <1>9. ASSUME NEW q \in Process \ (Children(p) \cup {p}) PROVE Stands(q, new)'
    <2>1. Stands(q, st) /\ st[q] \in Status /\ new[q] = st[q]
      BY <1>1, <1>5 DEF Sweeping
    <2>2. \A d \in Children(q) : new[d] = "used" <=> st[d] = "used"
      <3> SUFFICES ASSUME NEW d \in Children(q) PROVE new[d] = "used" <=> st[d] = "used"
        OBVIOUS
      <3>1. d \in Process /\ Parent(d) = q
        BY ChildrenAreProcesses, ChildrenMatchParent
      <3>2. d \notin Children(p)
        BY <3>1, ChildrenMatchParent
      <3> QED
        BY <1>3, <1>5, <3>1, <3>2
    <2> QED
      BY <1>6, <2>1, <2>2, Unmoved
  <1>10. ASSUME NEW d \in Process \ {Root} PROVE Follows(d, new)
    <2>1. Follows(d, st) /\ Parent(d) \in Process
      BY <1>1, ParentIsSmaller DEF Sweeping
    <2>2. d \in Children(p) <=> Parent(d) = p
      BY ChildrenMatchParent
    <2>3. CASE d \in Children(p)
      BY <1>5, <2>2, <2>3 DEF Follows
    <2>4. CASE d = p
      <3>1. st[Parent(p)] = "below" /\ Parent(p) # p
        BY <1>1, <1>2, <1>3, DownMeansBelow
      <3>2. new[Parent(p)] = "below"
        BY <1>3, <1>5, <2>1, <2>4, <3>1
      <3> QED
        BY <1>5, <2>4, <3>2 DEF Follows
    <2>5. CASE d \notin Children(p) \cup {p}
      <3>1. new[d] = st[d]
        BY <1>5, <2>5
      <3>2. CASE Parent(d) \in Children(p)
        <4>1. st[Parent(d)] \in {"up", "used"} /\ new[Parent(d)] = "used"
          BY <1>3, <1>5, <3>2
        <4> QED
          BY <2>1, <3>1, <4>1 DEF Follows
      <3>3. CASE Parent(d) \notin Children(p)
        <4>1. new[Parent(d)] = st[Parent(d)]
          BY <1>5, <2>1, <2>2, <2>5, <3>3
        <4> QED
          BY <2>1, <3>1, <4>1 DEF Follows
      <3> QED
        BY <3>2, <3>3
    <2> QED
      BY <2>3, <2>4, <2>5
  <1>11. RootStands(new)'
    <2>1. new[Root] = st[Root] /\ RootStands(st) /\ local_sweep_number'[Root] = local_sweep_number[Root]
      BY <1>1, <1>2, <1>4, <1>5, <1>6, RootIsProcess DEF Sweeping
    <2> QED
      BY <1>2, <1>6, <2>1 DEF RootStands
  <1> QED
    BY <1>7, <1>8, <1>9, <1>10, <1>11, SweepWitness

(* A sweep starts when nobody is in one.                                   *)
LEMMA SweepStarts ==
  ASSUME TypeInv, \A q \in Process : down[q] = <<>> /\ up'[q] = <<>> /\ NothingKept(q)',
         down' = SentToChildren(Root, root_down_sweep'), reported' = {},
         phase'[Root] = "running", root_down_sweep' = local_sweep_number'[Root] + 1
  PROVE  SweepInv'
  <1>1. Children(Root) \subseteq Process \ {Root} /\ Root \in Process
    BY RootIsProcess, ChildrenAreProcesses
  <1>2. ~IsLeaf(Root)
    BY SeveralProcesses, NAssumption DEF IsLeaf, Children, LeftChild, RightChild, Root, None
  <1>3. PICK new \in [Process -> Status] :
          /\ new[Root] = "below" /\ \A c \in Children(Root) : new[c] = "down"
          /\ \A q \in Process \ (Children(Root) \cup {Root}) : new[q] = "out"
    <2>1. [q \in Process |-> IF q = Root THEN "below"
                             ELSE IF q \in Children(Root) THEN "down" ELSE "out"]
            \in [Process -> Status]
      BY DEF Status
    <2> QED
      BY <1>1, <2>1
  <1>4. /\ \A c \in Children(Root) : down'[c] = <<root_down_sweep'>>
        /\ \A q \in Process \ Children(Root) : down'[q] = <<>>
    <2>1. \A q \in Process :
            down'[q] = IF q \in Children(Root) THEN Append(down[q], root_down_sweep') ELSE down[q]
      BY DEF SentToChildren
    <2>2. Append(<<>>, root_down_sweep') = <<root_down_sweep'>>
      OBVIOUS
    <2> QED
      BY <1>1, <2>1, <2>2
  <1>5. ASSUME NEW q \in Process PROVE Stands(q, new)'
    <2>1. CASE q = Root
      <3>1. NothingAt(q)' /\ NothingKept(q)' /\ q \notin reported'
        BY <1>1, <1>4, <2>1 DEF NothingAt
      <3>2. Waits(q, new)'
        BY <1>3, <2>1, <3>1 DEF Waits
      <3> QED
        BY <1>2, <1>3, <2>1, <3>1, <3>2 DEF Stands
    <2>2. CASE q \in Children(Root)
      <3>1. /\ q # Root /\ q \notin reported'
            /\ down'[q] = <<root_down_sweep'>> /\ up'[q] = <<>> /\ NothingKept(q)'
        BY <1>1, <1>4, <2>2
      <3> QED
        BY <1>3, <2>2, <3>1 DEF Stands
    <2>3. CASE q \notin Children(Root) \cup {Root}
      <3>1. NothingAt(q)' /\ NothingKept(q)' /\ q \notin reported'
        BY <1>4, <2>3 DEF NothingAt
      <3> QED
        BY <1>3, <2>3, <3>1 DEF Stands
    <2> QED
      BY <2>1, <2>2, <2>3
  <1>6. ASSUME NEW c \in Process \ {Root} PROVE Follows(c, new)
    <2>1. Parent(c) \in Process /\ (c \in Children(Root) <=> Parent(c) = Root)
      BY <1>1, ParentIsSmaller, ChildrenMatchParent
    <2> QED
      BY <1>3, <2>1 DEF Follows
  <1>7. RootStands(new)'
    BY <1>3 DEF RootStands
  <1> QED
    BY <1>5, <1>6, <1>7, SweepWitness

LEMMA SweepStart ==
  ASSUME TypeInv, SweepInv, CheckStart
  PROVE  SweepInv'
  <1>1. PICK st \in [Process -> Status] : Sweeping(st)
    BY DEF SweepInv
  <1>2. st[Root] = "out"
    <2>1. RootStands(st) /\ phase[Root] = "running" /\ root_down_sweep <= local_sweep_number[Root]
      BY <1>1 DEF Sweeping, CheckStart, Checks
    <2>2. root_down_sweep \in Nat /\ local_sweep_number[Root] \in Nat
      BY RootIsProcess DEF TypeInv, Sweep
    <2> QED
      BY <2>1, <2>2 DEF RootStands
  <1>3. ASSUME NEW q \in Process PROVE NothingAt(q) /\ NothingKept(q)
    <2>1. Stands(q, st) /\ st[q] = "out"
      BY <1>1, <1>2, AllOut DEF Sweeping
    <2> QED
      BY <2>1 DEF Stands
  <1>4. \A q \in Process : down[q] = <<>> /\ up'[q] = <<>> /\ NothingKept(q)'
    BY <1>3 DEF CheckStart, NothingAt, NothingKept
  <1>5. /\ down' = SentToChildren(Root, root_down_sweep') /\ reported' = {}
        /\ phase'[Root] = "running" /\ root_down_sweep' = local_sweep_number'[Root] + 1
    BY DEF CheckStart, StartSweep, Checks
  <1> QED
    BY <1>4, <1>5, SweepStarts

LEMMA SweepRoot ==
  ASSUME TypeInv, SweepInv, NEW k \in Arrivals(Root), CheckRoot(k)
  PROVE  SweepInv'
  <1>1. PICK st \in [Process -> Status] : Sweeping(st)
    BY DEF SweepInv
  <1>2. /\ Arrived(Root, k) /\ Complete(Root, ReceiveAll(Root, k)) /\ Root \in Process
        /\ accum_data' = [accum_data EXCEPT ![Root] =
                          Restrict(ReceiveAll(Root, k),
                                   DOMAIN ReceiveAll(Root, k) \ {First(ReceiveAll(Root, k))})]
    BY RootIsProcess DEF CheckRoot
  <1>3. /\ st[Root] = "below" /\ NothingAt(Root)
        /\ \A c \in Children(Root) : st[c] \in {"up", "used"}
        /\ First(ReceiveAll(Root, k)) = root_down_sweep
    BY <1>1, <1>2, CompleteGathers
  <1>4. \A q \in Process \ {Root} : q \in Children(Root) \/ st[q] = "used"
    BY <1>1, <1>3, AllAnswered
  <1>5. ASSUME NEW q \in Process \ {Root}
        PROVE  /\ down[q] = <<>> /\ NothingKept(q) /\ q \in reported
               /\ q \notin Children(Root) => up[q] = <<>>
    <2>1. Stands(q, st) /\ st[q] \in {"up", "used"}
      BY <1>1, <1>3, <1>4 DEF Sweeping
    <2>2. q \notin Children(Root) => st[q] = "used"
      BY <1>4
    <2> QED
      BY <2>1, <2>2 DEF Stands, NothingAt
  <1>6. /\ NothingKept(Root)' /\ \A q \in Process \ {Root} : accum_data'[q] = accum_data[q]
        /\ up' = [c \in Process |-> IF c \in Children(Root) THEN <<>> ELSE up[c]]
    BY <1>1, <1>2, CompleteClears DEF CheckRoot
  <1>7. \A q \in Process : down[q] = <<>> /\ up'[q] = <<>> /\ NothingKept(q)'
    <2>1. down[Root] = <<>> /\ up'[Root] = <<>>
      BY <1>2, <1>3, <1>6 DEF NothingAt
    <2>2. \A q \in Process \ {Root} : up'[q] = <<>>
      BY <1>5, <1>6
    <2>3. \A q \in Process \ {Root} : NothingKept(q)'
      BY <1>5, <1>6 DEF NothingKept
    <2> QED
      BY <1>5, <1>6, <2>1, <2>2, <2>3
  <1>8. local_sweep_number'[Root] = root_down_sweep
    BY <1>2, <1>3 DEF CheckRoot, TypeInv
  <1>9. Root \notin reported
    BY <1>1 DEF Sweeping, RootStands
  <1>10. CASE /\ phase' = [phase EXCEPT ![Root] = "waiting"]
              /\ UNCHANGED <<root_down_sweep, down, reported>>
    <2>1. PICK new \in [Process -> Status] : \A q \in Process : new[q] = "used"
      <3>1. [q \in Process |-> "used"] \in [Process -> Status]
        BY DEF Status
      <3> QED
        BY <3>1
    <2>2. ASSUME NEW q \in Process PROVE Stands(q, new)'
      <3>1. NothingAt(q)'
        BY <1>7, <1>10 DEF NothingAt
      <3>2. q = Root \/ q \in reported'
        BY <1>5, <1>10
      <3> QED
        BY <1>7, <2>1, <3>1, <3>2 DEF Stands
    <2>3. \A c \in Process \ {Root} : Follows(c, new)
      BY <2>1, ParentIsSmaller DEF Follows
    <2>4. RootStands(new)'
      BY <1>2, <1>9, <1>10, <2>1 DEF RootStands, TypeInv
    <2> QED
      BY <2>2, <2>3, <2>4, SweepWitness
  <1>11. CASE StartSweep(First(ReceiveAll(Root, k)) + 1) /\ phase' = phase
    <2>1. /\ down' = SentToChildren(Root, root_down_sweep') /\ reported' = {}
          /\ phase'[Root] = "running" /\ root_down_sweep' = local_sweep_number'[Root] + 1
      BY <1>3, <1>8, <1>11 DEF StartSweep, CheckRoot, Checks
    <2> QED
      BY <1>7, <2>1, SweepStarts
  <1> QED
    BY <1>10, <1>11 DEF CheckRoot

LEMMA SweepReset ==
  ASSUME TypeInv, SweepInv, NEW p \in Process, Reset(p)
  PROVE  SweepInv'
  <1>1. PICK st \in [Process -> Status] : Sweeping(st)
    BY DEF SweepInv
  <1>2. CASE p # Root
    <2>1. ASSUME NEW q \in Process PROVE Stands(q, st)'
      <3>1. Stands(q, st) /\ st[q] \in Status
        BY <1>1 DEF Sweeping
      <3> QED
        BY <1>2, <3>1, Unmoved DEF Reset
    <2>2. RootStands(st)'
      BY <1>1, <1>2 DEF Sweeping, RootStands, Reset, TypeInv
    <2> QED
      BY <1>1, <2>1, <2>2, SweepWitness DEF Sweeping
  <1>3. CASE p = Root
    <2>1. st[Root] = "used"
      BY <1>1, <1>3 DEF Sweeping, RootStands, Reset
    <2>2. ASSUME NEW q \in Process PROVE Stands(q, st)'
      <3>1. Stands(q, st) /\ st[q] = "used"
        BY <1>1, <2>1, AllUsed DEF Sweeping
      <3>2. NothingAt(q) /\ NothingKept(q) /\ (q = Root \/ q \in reported)
        BY <3>1 DEF Stands
      <3>3. NothingAt(q)' /\ NothingKept(q)' /\ (q = Root \/ q \in reported')
        BY <3>2 DEF Reset, NothingAt, NothingKept
      <3> QED
        BY <3>1, <3>3 DEF Stands
    <2>3. RootStands(st)'
      <3>1. phase'[Root] = "barrier" /\ reported' = reported
        BY <1>3, RootIsProcess DEF Reset, TypeInv
      <3> QED
        BY <1>1, <2>1, <3>1 DEF Sweeping, RootStands
    <2> QED
      BY <1>1, <2>2, <2>3, SweepWitness DEF Sweeping
  <1> QED
    BY <1>2, <1>3

LEMMA SweepBarrier ==
  ASSUME TypeInv, SweepInv, ResetInv, Barrier
  PROVE  SweepInv'
  <1>1. PICK st \in [Process -> Status] : Sweeping(st)
    BY DEF SweepInv
  <1>2. st[Root] = "used" /\ local_sweep_number[Root] = 0 /\ root_down_sweep = 0
    BY <1>1, RootIsProcess DEF Sweeping, RootStands, Barrier, ResetInv
  <1>3. PICK new \in [Process -> Status] : \A q \in Process : new[q] = "out"
    <2>1. [q \in Process |-> "out"] \in [Process -> Status]
      BY DEF Status
    <2> QED
      BY <2>1
  <1>4. ASSUME NEW q \in Process PROVE Stands(q, new)'
    <2>1. Stands(q, st) /\ st[q] = "used"
      BY <1>1, <1>2, AllUsed DEF Sweeping
    <2>2. NothingAt(q) /\ NothingKept(q)
      BY <2>1 DEF Stands
    <2>3. NothingAt(q)' /\ NothingKept(q)' /\ q \notin reported'
      BY <2>2 DEF Barrier, NothingAt, NothingKept
    <2> QED
      BY <1>3, <2>3 DEF Stands
  <1>5. \A c \in Process \ {Root} : Follows(c, new)
    BY <1>3, ParentIsSmaller DEF Follows
  <1>6. RootStands(new)'
    BY <1>2, <1>3, RootIsProcess DEF RootStands, Barrier
  <1> QED
    BY <1>4, <1>5, <1>6, SweepWitness

-----------------------------------------------------------------------------
(* The type, the termination and the reset *)

Wires == [Process -> [Process -> Seq(Regular)]]

LEMMA Handed ==
  ASSUME NEW w \in Wires, NEW p \in Process, NEW to, NEW m \in Regular
  PROVE  /\ Hand(p, to, m, w) \in Wires
         /\ \A q \in Process :
              Hand(p, to, m, w)[p][q] = IF q \in to THEN Append(w[p][q], m) ELSE w[p][q]
         /\ \A r \in Process \ {p} : Hand(p, to, m, w)[r] = w[r]
  <1> DEFINE row == [q \in Process |-> IF q \in to THEN Append(w[p][q], m) ELSE w[p][q]]
  <1>1. Hand(p, to, m, w) = [w EXCEPT ![p] = row]
    BY DEF Hand
  <1>2. row \in [Process -> Seq(Regular)]
    BY DEF Wires
  <1> HIDE DEF row
  <1>3. Hand(p, to, m, w) \in Wires /\ Hand(p, to, m, w)[p] = row
        /\ \A r \in Process \ {p} : Hand(p, to, m, w)[r] = w[r]
    BY <1>1, <1>2 DEF Wires
  <1> QED
    BY <1>3 DEF row

LEMMA Taken1 ==
  ASSUME NEW w \in Wires, NEW q \in Process, NEW p \in Process, w[q][p] # <<>>
  PROVE  /\ [w EXCEPT ![q][p] = Tail(@)] \in Wires
         /\ Head(w[q][p]) \in Regular
  BY DEF Wires

LEMMA ChildrenCount ==
  ASSUME NEW p \in Process
  PROVE  IsFiniteSet(Children(p)) /\ Cardinality(Children(p)) \in Nat
  <1>1. IsFiniteSet(Process)
    BY FS_Interval, NAssumption DEF Process
  <1>2. IsFiniteSet(Children(p))
    BY <1>1, ChildrenAreProcesses, FS_Subset
  <1> QED
    BY <1>2, FS_CardinalityType

LEMMA BoundsAreNumbers == MaxSent \in Nat /\ MaxSweep \in Nat
  BY BoundsAssumption

LEMMA MaxOfTwo ==
  ASSUME NEW a \in Sweep, NEW b \in Sweep
  PROVE  Max({a, b}) = IF a < b THEN b ELSE a
  <1>1. a \in Int /\ b \in Int
    BY BoundsAreNumbers DEF Sweep
  <1> QED
    BY <1>1 DEF Max

LEMMA TypeSend ==
  ASSUME TypeInv, NEW p \in Process, NEW q \in Process, Send(p, q)
  PROVE  TypeInv'
  <1> DEFINE m == [sweep |-> local_sweep_number[p], broadcast |-> FALSE]
  <1>1. m \in Regular
    BY DEF TypeInv, Regular
  <1>2. wire' = Hand(p, {q}, m, wire) /\ wire \in Wires
    BY DEF Send, TypeInv, Wires
  <1>3. wire' \in Wires
    BY <1>1, <1>2, Handed
  <1>4. hidden' \in BOOLEAN
    BY DEF Send
  <1>5. budget' \in 0 .. MaxSent
    <2>1. MaxSent \in Nat
      BY BoundsAreNumbers
    <2>2. budget \in 0 .. MaxSent
      BY DEF TypeInv
    <2>3. budget > 0 /\ budget' = budget - 1
      BY DEF Send
    <2> QED
      BY <2>1, <2>2, <2>3
  <1>6. local_sends' \in [Process -> Nat]
    BY DEF Send, TypeInv
  <1> QED
    BY <1>3, <1>4, <1>5, <1>6 DEF Send, TypeInv, Wires, treeVars

LEMMA TypeBroadcast ==
  ASSUME TypeInv, NEW p \in Process, Broadcast(p)
  PROVE  TypeInv'
  <1> DEFINE m == [sweep |-> local_sweep_number[p], broadcast |-> TRUE]
             to == IF p = Root THEN Children(Root) ELSE {Root}
  <1>1. m \in Regular
    BY DEF TypeInv, Regular
  <1>2. wire' = Hand(p, to, m, wire) /\ wire \in Wires
    BY DEF Broadcast, TypeInv, Wires
  <1>3. wire' \in Wires
    BY <1>1, <1>2, Handed
  <1>4. hidden' \in BOOLEAN
    BY DEF Broadcast
  <1>5. budget' \in 0 .. MaxSent
    <2>1. MaxSent \in Nat
      BY BoundsAreNumbers
    <2>2. budget \in 0 .. MaxSent
      BY DEF TypeInv
    <2>3. budget > 0 /\ budget' = budget - 1
      BY DEF Broadcast
    <2> QED
      BY <2>1, <2>2, <2>3
  <1>6. Cardinality(to) \in Nat
    <2>1. Cardinality({Root}) = 1 /\ Cardinality(Children(Root)) \in Nat
      BY RootIsProcess, ChildrenCount, FS_Singleton
    <2> QED
      BY <2>1
  <1>7. local_sends' = [local_sends EXCEPT ![p] = @ + Cardinality(to)]
    BY DEF Broadcast
  <1> HIDE DEF to
  <1>8. local_sends' \in [Process -> Nat]
    BY <1>6, <1>7 DEF TypeInv
  <1> QED
    BY <1>3, <1>4, <1>5, <1>8 DEF Broadcast, TypeInv, Wires, treeVars

LEMMA TypeReceive ==
  ASSUME TypeInv, NEW p \in Process, NEW q \in Process, Receive(p, q)
  PROVE  TypeInv'
  <1> DEFINE m == Head(wire[q][p])
             to == IF m.broadcast THEN Children(p) ELSE {}
             rest == [wire EXCEPT ![q][p] = Tail(@)]
  <1>1. wire' = Hand(p, to, m, rest) /\ wire \in Wires /\ wire[q][p] # <<>>
    BY DEF Receive, TypeInv, Wires
  <1>2. m \in Regular /\ rest \in Wires
    BY <1>1, Taken1
  <1>3. wire' \in Wires
    BY <1>1, <1>2, Handed
  <1>4. hidden' \in BOOLEAN
    BY DEF Receive
  <1>5. Cardinality(to) \in Nat
    BY ChildrenCount, FS_EmptySet
  <1>6. local_sends' \in [Process -> Nat] /\ local_processed' \in [Process -> Nat]
    <2>1. /\ local_sends' = [local_sends EXCEPT ![p] = @ + Cardinality(to)]
          /\ local_processed' = [local_processed EXCEPT ![p] = @ + 1]
      BY DEF Receive
    <2> HIDE DEF to
    <2>2. local_sends' \in [Process -> Nat]
      BY <1>5, <2>1 DEF TypeInv
    <2>3. local_processed' \in [Process -> Nat]
      BY <2>1 DEF TypeInv
    <2> QED
      BY <2>2, <2>3
  <1>7. last_regular_message_sweep_number' \in [Process -> Sweep]
    <2>1. Max({last_regular_message_sweep_number[p], m.sweep}) \in Sweep
      <3>1. last_regular_message_sweep_number[p] \in Sweep /\ m.sweep \in Sweep
        BY <1>2 DEF TypeInv, Regular
      <3> HIDE DEF m
      <3>2. \A a, b \in Sweep : Max({a, b}) \in Sweep
        BY MaxOfTwo
      <3> QED
        BY <3>1, <3>2
    <2>2. last_regular_message_sweep_number' =
            [last_regular_message_sweep_number EXCEPT ![p] =
               Max({last_regular_message_sweep_number[p], m.sweep})]
      BY DEF Receive
    <2> QED
      BY <2>1, <2>2 DEF TypeInv
  <1>8. active' \in [Process -> BOOLEAN]
    BY DEF Receive, TypeInv
  <1> QED
    BY <1>3, <1>4, <1>6, <1>7, <1>8 DEF Receive, TypeInv, Wires, treeVars

LEMMA SentType ==
  ASSUME TypeInv, NEW p \in Process, NEW s \in Sweep
  PROVE  SentToChildren(p, s) \in [Process -> Seq(Sweep)]
  BY DEF TypeInv, SentToChildren

LEMMA UpType ==
  ASSUME TypeInv, NEW st \in [Process -> Status], Sweeping(st),
         NEW p \in Process, NEW k \in Arrivals(p), Arrived(p, k)
  PROVE  UpAfter(p, k) \in [Process -> Seq(UpInt)]
  <1>1. UpAfter(p, k) = [c \in Process |-> IF c \in Taken(p, k) THEN <<>> ELSE up[c]]
    BY Arrives
  <1>2. up \in [Process -> Seq(UpInt)]
    BY DEF TypeInv
  <1> QED
    BY <1>1, <1>2

LEMMA LocalCountType ==
  ASSUME TypeInv, NEW p \in Process
  PROVE  LocalCount(p) \in Int
  BY BoundsAssumption DEF TypeInv, LocalCount

LEMMA TypeCheck ==
  ASSUME TypeInv, SweepInv, NEW p \in Process, NEW k \in Arrivals(p), Check(p, k)
  PROVE  TypeInv'
  <1>0. PICK st \in [Process -> Status] : Sweeping(st)
    BY DEF SweepInv
  <1>1. CASE CheckInVain(p)
    BY <1>1 DEF CheckInVain, TypeInv, vars, appVars, treeVars
  <1>2. CASE CheckTerminated(p)
    <2>1. TerminationTo(p) \in [Process -> BOOLEAN]
      BY DEF TypeInv, TerminationTo
    <2>2. term' \in [Process -> BOOLEAN]
          /\ phase' \in [Process -> {"running", "waiting", "barrier"}]
      BY <1>2, <2>1 DEF CheckTerminated, TypeInv
    <2> QED
      BY <1>2, <2>2 DEF CheckTerminated, TypeInv, appVars
  <1>3. CASE CheckLeaf(p)
    <2>1. down' \in [Process -> Seq(Sweep)]
      BY <1>3 DEF CheckLeaf, TypeInv
    <2>2. [sweep |-> Head(down[p]), count |-> local_sends[p] - local_processed[p]]
            \in UpInt
      BY <1>3 DEF CheckLeaf, TypeInv, UpInt
    <2>3. up' \in [Process -> Seq(UpInt)]
      BY <1>3, <2>2 DEF CheckLeaf, TypeInv
    <2>4. reported' \subseteq Process
      BY <1>3 DEF CheckLeaf, TypeInv
    <2> QED
      BY <1>3, <2>1, <2>3, <2>4 DEF CheckLeaf, TypeInv, appVars
  <1>4. CASE CheckDown(p)
    <2>1. Head(down[p]) \in Sweep /\ Tail(down[p]) \in Seq(Sweep)
      BY <1>4 DEF CheckDown, TypeInv
    <2>2. SentToChildren(p, Head(down[p])) \in [Process -> Seq(Sweep)]
      BY <2>1, SentType
    <2>3. SentToChildren(p, Head(down[p]))[p] = down[p]
      BY ChildrenAreProcesses DEF SentToChildren
    <2>4. down' \in [Process -> Seq(Sweep)]
      BY <1>4, <2>1, <2>2, <2>3 DEF CheckDown
    <2> QED
      BY <1>4, <2>4 DEF CheckDown, TypeInv, appVars
  <1>5. CASE CheckIncomplete(p, k)
    <2>1. up' \in [Process -> Seq(UpInt)]
      BY <1>0, <1>5, UpType DEF CheckIncomplete
    <2>2. accum_data' = [q \in Process |-> accum_data'[q]]
      BY <1>5 DEF CheckIncomplete, TypeInv
    <2> QED
      BY <1>5, <2>1, <2>2 DEF CheckIncomplete, TypeInv, appVars
  <1>6. CASE CheckInner(p, k)
    <2>1. /\ Arrived(p, k) /\ Complete(p, ReceiveAll(p, k))
      BY <1>6 DEF CheckInner
    <2>2. First(ReceiveAll(p, k)) = root_down_sweep
          /\ ReceiveAll(p, k)[root_down_sweep].count \in Int
      BY <1>0, <2>1, CompleteGathers
    <2>3. UpAfter(p, k) \in [Process -> Seq(UpInt)]
      BY <1>0, <2>1, UpType
    <2>4. [sweep |-> root_down_sweep,
           count |-> safe_add(LocalCount(p), ReceiveAll(p, k)[root_down_sweep].count)]
            \in UpInt
      BY <2>2, LocalCountType, SafeAddType DEF TypeInv, UpInt
    <2>5. up' = [UpAfter(p, k) EXCEPT ![p] =
                   Append(@, [sweep |-> root_down_sweep,
                              count |-> safe_add(LocalCount(p),
                                                 ReceiveAll(p, k)[root_down_sweep].count)])]
      BY <1>6, <2>2 DEF CheckInner
    <2>6. up' \in [Process -> Seq(UpInt)]
      BY <2>3, <2>4, <2>5
    <2>7. accum_data' = [q \in Process |-> accum_data'[q]]
      BY <1>6 DEF CheckInner, TypeInv
    <2>8. local_sweep_number' \in [Process -> Sweep] /\ reported' \subseteq Process
      BY <1>6, <2>2 DEF CheckInner, TypeInv
    <2> QED
      BY <1>6, <2>6, <2>7, <2>8 DEF CheckInner, TypeInv, appVars
  <1>7. CASE p = Root /\ CheckStart
    <2>1. local_sweep_number[Root] + 1 \in Sweep
      BY <1>7, BoundsAreNumbers DEF CheckStart, StartSweep, TypeInv, Sweep
    <2>2. down' \in [Process -> Seq(Sweep)] /\ root_down_sweep' \in Sweep
          /\ reported' = {} /\ hidden' = FALSE
      BY <1>7, <2>1, SentType DEF CheckStart, StartSweep
    <2> QED
      BY <1>7, <2>2 DEF CheckStart, TypeInv, appVars
  <1>8. CASE p = Root /\ CheckRoot(k)
    <2>1. /\ Arrived(p, k) /\ Complete(p, ReceiveAll(p, k))
      BY <1>8 DEF CheckRoot
    <2>2. First(ReceiveAll(p, k)) = root_down_sweep
      BY <1>0, <2>1, CompleteGathers
    <2>3. up' \in [Process -> Seq(UpInt)]
      BY <1>0, <1>8, <2>1, UpType DEF CheckRoot
    <2>4. accum_data' = [q \in Process |-> accum_data'[q]]
      BY <1>8 DEF CheckRoot, TypeInv
    <2>5. local_sweep_number' \in [Process -> Sweep]
      BY <1>8, <2>2 DEF CheckRoot, TypeInv
    <2>6. /\ term' \in [Process -> BOOLEAN]
          /\ phase' \in [Process -> {"running", "waiting", "barrier"}]
          /\ premature' \in BOOLEAN /\ root_down_sweep' \in Sweep
          /\ down' \in [Process -> Seq(Sweep)]
          /\ reported' \subseteq Process /\ hidden' \in BOOLEAN
      <3>1. CASE /\ term' = TerminationTo(Root)
                 /\ phase' = [phase EXCEPT ![Root] = "waiting"]
                 /\ premature' = (premature \/ ~Quiet)
                 /\ UNCHANGED <<root_down_sweep, down, reported, hidden>>
        <4>1. TerminationTo(Root) \in [Process -> BOOLEAN]
          BY DEF TypeInv, TerminationTo
        <4> QED
          BY <3>1, <4>1 DEF TypeInv
      <3>2. CASE StartSweep(root_down_sweep + 1) /\ UNCHANGED <<term, phase, premature>>
        <4>1. root_down_sweep + 1 \in Sweep
          BY <3>2, BoundsAreNumbers DEF StartSweep, TypeInv, Sweep
        <4>2. SentToChildren(Root, root_down_sweep + 1) \in [Process -> Seq(Sweep)]
          BY <4>1, SentType, RootIsProcess
        <4> QED
          BY <3>2, <4>1, <4>2 DEF TypeInv, StartSweep
      <3> QED
        BY <1>8, <2>2, <3>1, <3>2 DEF CheckRoot
    <2> QED
      BY <1>8, <2>3, <2>4, <2>5, <2>6 DEF CheckRoot, TypeInv, appVars
  <1> QED
    BY <1>1, <1>2, <1>3, <1>4, <1>5, <1>6, <1>7, <1>8 DEF Check

LEMMA TypeStep ==
  ASSUME TypeInv, SweepInv, [Next]_vars
  PROVE  TypeInv'
  <1>1. CASE UNCHANGED vars
    BY <1>1 DEF TypeInv, vars, appVars, treeVars
  <1>2. ASSUME NEW p \in Process, BecomeQuiescent(p) PROVE TypeInv'
    BY <1>2 DEF BecomeQuiescent, TypeInv, treeVars
  <1>3. ASSUME NEW p \in Process, Reset(p) PROVE TypeInv'
    <2>1. 0 \in Sweep
      BY BoundsAreNumbers DEF Sweep
    <2> QED
      BY <1>3, <2>1 DEF Reset, TypeInv
  <1>4. CASE Barrier
    BY <1>4 DEF Barrier, TypeInv
  <1> QED
    BY <1>1, <1>2, <1>3, <1>4, TypeSend, TypeBroadcast, TypeReceive, TypeCheck DEF Next

(* The actions of the application leave the tree alone.                    *)
LEMMA AppSteps ==
  ASSUME NEW p \in Process, NEW q \in Process,
         Send(p, q) \/ Broadcast(p) \/ Receive(p, q) \/ BecomeQuiescent(p)
  PROVE  UNCHANGED <<treeVars, reported, premature>>
  BY DEF Send, Broadcast, Receive, BecomeQuiescent

LEMMA SweepStep ==
  ASSUME TypeInv, SweepInv, TerminationInv, ResetInv, [Next]_vars
  PROVE  SweepInv'
  <1>1. CASE UNCHANGED vars
    BY <1>1, SweepUnmoved DEF vars
  <1>2. ASSUME NEW p \in Process, NEW q \in Process,
               Send(p, q) \/ Broadcast(p) \/ Receive(p, q) \/ BecomeQuiescent(p)
        PROVE  SweepInv'
    BY <1>2, AppSteps, SweepUnmoved
  <1>3. ASSUME NEW p \in Process, NEW k \in Arrivals(p), Check(p, k) PROVE SweepInv'
    <2>1. CASE CheckInVain(p)
      BY <2>1, SweepUnmoved DEF CheckInVain, vars
    <2>2. CASE CheckTerminated(p)
      <3>1. PICK st \in [Process -> Status] : Sweeping(st)
        BY DEF SweepInv
      <3>2. ASSUME NEW q \in Process PROVE Stands(q, st)'
        <4>1. Stands(q, st) /\ st[q] \in Status
          BY <3>1 DEF Sweeping, TerminationInv
        <4> QED
          BY <2>2, <4>1, Unmoved DEF CheckTerminated
      <3>3. RootStands(st)'
        <4>1. phase[Root] = "running" /\ phase'[Root] # "running" => p = Root
          BY <2>2 DEF CheckTerminated, TypeInv
        <4>2. phase[Root] # "running" => phase'[Root] # "running"
          BY <2>2, RootIsProcess DEF CheckTerminated, TypeInv
        <4>3. RootStands(st) /\ ~term[Root]
          BY <3>1 DEF Sweeping, TerminationInv
        <4> QED
          BY <2>2, <4>1, <4>2, <4>3 DEF RootStands, CheckTerminated
      <3> QED
        BY <3>1, <3>2, <3>3, SweepWitness DEF Sweeping
    <2> QED
      BY <1>3, <2>1, <2>2, SweepLeaf, SweepDown, SweepIncomplete, SweepInner, SweepStart,
         SweepRoot DEF Check
  <1> QED
    BY <1>1, <1>2, <1>3, SweepReset, SweepBarrier DEF Next

LEMMA TerminationUnmoved ==
  ASSUME TerminationInv, UNCHANGED <<phase, term>>
  PROVE  TerminationInv'
  BY DEF TerminationInv

LEMMA TerminationStep ==
  ASSUME TypeInv, TerminationInv, [Next]_vars
  PROVE  TerminationInv'
  <1>1. CASE UNCHANGED vars
    BY <1>1, TerminationUnmoved DEF vars, treeVars
  <1>2. ASSUME NEW p \in Process, NEW q \in Process,
               Send(p, q) \/ Broadcast(p) \/ Receive(p, q) \/ BecomeQuiescent(p)
        PROVE  TerminationInv'
    BY <1>2, AppSteps, TerminationUnmoved DEF treeVars
  <1>3. ASSUME NEW p \in Process, p # Root => term[p], Checks(p),
               term' = [TerminationTo(p) EXCEPT ![p] = FALSE],
               phase' = [phase EXCEPT ![p] = "waiting"]
        PROVE  TerminationInv'
    <2>1. Children(p) \subseteq Process \ {p, Root}
      BY ChildrenAreProcesses
    <2>2. /\ ~term'[p] /\ phase'[p] = "waiting"
          /\ \A c \in Children(p) : term'[c]
          /\ \A c \in Process \ {p} : phase'[c] = phase[c]
          /\ \A c \in Process \ (Children(p) \cup {p}) : term'[c] = term[c]
      BY <1>3, <2>1 DEF TerminationTo, TypeInv
    <2>3. ~term'[Root]
      BY <2>1, <2>2, RootIsProcess DEF TerminationInv
    <2>4. ASSUME NEW c \in Process \ {Root}
          PROVE  IF phase'[Parent(c)] = "running"
                 THEN phase'[c] = "running" /\ ~term'[c]
                 ELSE phase'[c] = "running" <=> term'[c]
      <3>1. Parent(c) \in Process /\ (c \in Children(p) <=> Parent(c) = p)
        BY ParentIsSmaller, ChildrenMatchParent
      <3>2. IF phase[Parent(c)] = "running"
            THEN phase[c] = "running" /\ ~term[c]
            ELSE phase[c] = "running" <=> term[c]
        BY DEF TerminationInv
      <3>3. CASE c = p
        <4>1. Parent(c) # p /\ phase[Parent(c)] # "running"
          BY <1>3, <2>1, <3>1, <3>2, <3>3
        <4> QED
          BY <2>2, <3>1, <3>3, <4>1
      <3>4. CASE c \in Children(p)
        BY <1>3, <2>1, <2>2, <3>1, <3>2, <3>4 DEF Checks
      <3>5. CASE c # p /\ c \notin Children(p)
        BY <2>2, <3>1, <3>2, <3>5
      <3> QED
        BY <3>3, <3>4, <3>5
    <2> QED
      BY <2>3, <2>4 DEF TerminationInv
  <1>4. ASSUME NEW p \in Process, NEW k \in Arrivals(p), Check(p, k) PROVE TerminationInv'
    <2>1. CASE CheckTerminated(p)
      BY <1>3, <2>1 DEF CheckTerminated
    <2>2. CASE p = Root /\ CheckRoot(k)
      <3>1. CASE /\ term' = TerminationTo(Root)
                 /\ phase' = [phase EXCEPT ![Root] = "waiting"]
        <4>1. TerminationTo(Root) = [TerminationTo(Root) EXCEPT ![Root] = FALSE]
          <5>1. ~TerminationTo(Root)[Root]
            BY RootIsProcess, ChildrenAreProcesses DEF TerminationTo, TerminationInv
          <5>2. TerminationTo(Root) \in [Process -> BOOLEAN]
            BY DEF TerminationTo, TypeInv
          <5> QED
            BY <5>1, <5>2
        <4>2. Checks(Root)
          BY <2>2 DEF CheckRoot
        <4> QED
          BY <1>3, <3>1, <4>1, <4>2, RootIsProcess
      <3>2. CASE UNCHANGED <<term, phase, premature>>
        BY <3>2, TerminationUnmoved
      <3> QED
        BY <2>2, <3>1, <3>2 DEF CheckRoot
    <2>3. CASE ~CheckTerminated(p) /\ ~(p = Root /\ CheckRoot(k))
      <3>1. UNCHANGED <<phase, term>>
        BY <1>4, <2>3 DEF Check, CheckInVain, CheckLeaf, CheckDown, CheckIncomplete, CheckInner,
           CheckStart, vars, treeVars
      <3> QED
        BY <3>1, TerminationUnmoved
    <2> QED
      BY <2>1, <2>2, <2>3
  <1>5. ASSUME NEW p \in Process, Reset(p) PROVE TerminationInv'
    <2>1. /\ term' = term
          /\ \A c \in Process : phase'[c] = "running" <=> phase[c] = "running"
      BY <1>5 DEF Reset, TypeInv
    <2> QED
      BY <2>1, ParentIsSmaller DEF TerminationInv
  <1>6. CASE Barrier
    BY <1>6, ParentIsSmaller DEF Barrier, TerminationInv
  <1> QED
    BY <1>1, <1>2, <1>4, <1>5, <1>6 DEF Next

(* What is reset stays so until the barrier.                               *)
LEMMA ResetStep ==
  ASSUME TypeInv, TerminationInv, ResetInv, [Next]_vars
  PROVE  ResetInv'
  <1>1. SUFFICES ASSUME NEW p \in Process
                 PROVE  /\ phase'[p] # "running" => ~active'[p]
                        /\ phase'[p] = "barrier" =>
                             /\ local_sends'[p] = 0 /\ local_processed'[p] = 0
                             /\ last_regular_message_sweep_number'[p] = 0
                             /\ local_sweep_number'[p] = 0
                             /\ p = Root => root_down_sweep' = 0
    BY DEF ResetInv
  <1>2. /\ phase[p] # "running" => ~active[p]
        /\ phase[p] = "barrier" =>
             /\ local_sends[p] = 0 /\ local_processed[p] = 0
             /\ last_regular_message_sweep_number[p] = 0
             /\ local_sweep_number[p] = 0
             /\ p = Root => root_down_sweep = 0
    BY DEF ResetInv
  <1>3. CASE UNCHANGED vars
    BY <1>2, <1>3 DEF vars, appVars, treeVars
  <1>4. ASSUME NEW q \in Process, NEW r \in Process,
               Send(q, r) \/ Broadcast(q) \/ Receive(q, r) \/ BecomeQuiescent(q)
        PROVE  /\ phase'[p] # "running" => ~active'[p]
               /\ phase'[p] = "barrier" =>
                    /\ local_sends'[p] = 0 /\ local_processed'[p] = 0
                    /\ last_regular_message_sweep_number'[p] = 0
                    /\ local_sweep_number'[p] = 0
                    /\ p = Root => root_down_sweep' = 0
    <2>1. UNCHANGED treeVars
      BY <1>4, AppSteps
    <2>2. CASE p # q
      <3>1. /\ local_sends'[p] = local_sends[p] /\ local_processed'[p] = local_processed[p]
            /\ active'[p] = active[p]
            /\ last_regular_message_sweep_number'[p] = last_regular_message_sweep_number[p]
        BY <1>4, <2>2 DEF Send, Broadcast, Receive, BecomeQuiescent, TypeInv
      <3> QED
        BY <1>2, <2>1, <3>1 DEF treeVars
    <2>3. CASE p = q
      <3>1. CASE phase[p] = "running"
        BY <2>1, <3>1 DEF treeVars
      <3>2. CASE phase[p] # "running"
        BY <1>2, <1>4, <2>3, <3>2 DEF Send, Broadcast, Receive, BecomeQuiescent
      <3> QED
        BY <3>1, <3>2
    <2> QED
      BY <2>2, <2>3
  <1>5. ASSUME NEW q \in Process, NEW k \in Arrivals(q), Check(q, k)
        PROVE  /\ phase'[p] # "running" => ~active'[p]
               /\ phase'[p] = "barrier" =>
                    /\ local_sends'[p] = 0 /\ local_processed'[p] = 0
                    /\ last_regular_message_sweep_number'[p] = 0
                    /\ local_sweep_number'[p] = 0
                    /\ p = Root => root_down_sweep' = 0
    <2>1. UNCHANGED appVars
      BY <1>5 DEF Check, CheckInVain, CheckTerminated, CheckLeaf, CheckDown, CheckIncomplete,
         CheckInner, CheckStart, CheckRoot, vars
    <2>2. ~active[q] /\ phase[q] = "running"
      BY <1>5 DEF Check, CheckInVain, CheckTerminated, CheckLeaf, CheckDown, CheckIncomplete,
         CheckInner, CheckStart, CheckRoot, Checks
    <2>3. p # q => phase'[p] = phase[p] /\ local_sweep_number'[p] = local_sweep_number[p]
      BY <1>5 DEF Check, CheckInVain, CheckTerminated, CheckLeaf, CheckDown, CheckIncomplete,
         CheckInner, CheckStart, CheckRoot, vars, treeVars, TypeInv
    <2>4. p = q => phase'[p] # "barrier"
      BY <1>5, <2>2 DEF Check, CheckInVain, CheckTerminated, CheckLeaf, CheckDown,
         CheckIncomplete,
         CheckInner, CheckStart, CheckRoot, vars, treeVars, TypeInv
    <2>5. p = Root /\ p # q => root_down_sweep' = root_down_sweep
      BY <1>5 DEF Check, CheckInVain, CheckTerminated, CheckLeaf, CheckDown, CheckIncomplete,
         CheckInner, CheckStart, CheckRoot, vars, treeVars
    <2> QED
      BY <1>2, <2>1, <2>2, <2>3, <2>4, <2>5 DEF appVars
  <1>6. ASSUME NEW q \in Process, Reset(q)
        PROVE  /\ phase'[p] # "running" => ~active'[p]
               /\ phase'[p] = "barrier" =>
                    /\ local_sends'[p] = 0 /\ local_processed'[p] = 0
                    /\ last_regular_message_sweep_number'[p] = 0
                    /\ local_sweep_number'[p] = 0
                    /\ p = Root => root_down_sweep' = 0
    <2>1. CASE p = q
      BY <1>2, <1>6, <2>1 DEF Reset, TypeInv
    <2>2. CASE p # q
      BY <1>2, <1>6, <2>2 DEF Reset, TypeInv
    <2> QED
      BY <2>1, <2>2
  <1>7. CASE Barrier
    BY <1>7 DEF Barrier
  <1> QED
    BY <1>3, <1>4, <1>5, <1>6, <1>7 DEF Next

LEMMA SweepInitially ==
  ASSUME Init
  PROVE  TypeInv /\ SweepInv /\ TerminationInv /\ ResetInv
  <1>1. TypeInv
    <2>1. 0 \in Sweep /\ MaxSent \in 0 .. MaxSent
      BY BoundsAreNumbers DEF Sweep
    <2>2. <<>> \in Seq(Sweep) /\ <<>> \in Seq(UpInt) /\ <<>> \in Seq(Regular)
      OBVIOUS
    <2>3. /\ wire \in [Process -> [Process -> Seq(Regular)]]
          /\ down \in [Process -> Seq(Sweep)] /\ up \in [Process -> Seq(UpInt)]
      BY <2>2 DEF Init
    <2>4. accum_data = [p \in Process |-> accum_data[p]]
      BY DEF Init
    <2> QED
      BY <2>1, <2>3, <2>4 DEF Init, TypeInv
  <1>2. SweepInv
    <2>1. PICK st \in [Process -> Status] : \A q \in Process : st[q] = "out"
      <3>1. [q \in Process |-> "out"] \in [Process -> Status]
        BY DEF Status
      <3> QED
        BY <3>1
    <2>2. \A q \in Process : Stands(q, st)
      <3>1. DOMAIN <<>> = {}
        OBVIOUS
      <3>2. ASSUME NEW q \in Process
            PROVE  NothingAt(q) /\ NothingKept(q) /\ q \notin reported
        BY <3>1 DEF Init, NothingAt, NothingKept
      <3> QED
        BY <2>1, <3>2 DEF Stands
    <2>3. \A c \in Process \ {Root} : Follows(c, st)
      BY <2>1, ParentIsSmaller DEF Follows
    <2>4. RootStands(st)
      BY <2>1, RootIsProcess DEF Init, RootStands
    <2>5. Sweeping(st)
      BY <2>2, <2>3, <2>4 DEF Sweeping
    <2> QED
      BY <2>5 DEF SweepInv
  <1>3. TerminationInv
    BY RootIsProcess, ParentIsSmaller DEF Init, TerminationInv
  <1>4. ResetInv
    BY DEF Init, ResetInv
  <1> QED
    BY <1>1, <1>2, <1>3, <1>4

TreeInv == TypeInv /\ SweepInv /\ TerminationInv /\ ResetInv

LEMMA TreeInvariant == Spec => []TreeInv
  <1>1. Init => TreeInv
    BY SweepInitially DEF TreeInv
  <1>2. TreeInv /\ [Next]_vars => TreeInv'
    BY TypeStep, SweepStep, TerminationStep, ResetStep DEF TreeInv
  <1> QED
    BY <1>1, <1>2, PTL DEF Spec

-----------------------------------------------------------------------------
(* What the sweep and the termination guarantee *)

(* The ancestors of a process are its parent and the ancestors of that: a  *)
(* recursion that ends, for the parent is the smaller one.                 *)
LEMMA AncestorsOfChild ==
  ASSUME NEW p \in Process \ {Root}
  PROVE  Ancestors[p] = {Parent(p)} \cup Ancestors[Parent(p)]
  <1> DEFINE eq(g) == g = [q \in Process |-> IF q = Root THEN {}
                                             ELSE {Parent(q)} \cup g[Parent(q)]]
             above(q, T) == Parent(q) \in T /\ \A r \in T \ {Root} : Parent(r) \in T
             all == [q \in Process |->
                       {a \in Process : q # Root /\ \A T \in SUBSET Process :
                                                      above(q, T) => a \in T}]
  <1>1. ASSUME NEW q \in Process
        PROVE  all[q] = IF q = Root THEN {} ELSE {Parent(q)} \cup all[Parent(q)]
    <2>1. CASE q = Root
      BY <2>1
    <2>2. CASE q # Root
      <3>1. Parent(q) \in Process
        BY <2>2, ParentIsSmaller
      <3>2. Parent(q) \in all[q]
        BY <2>2, <3>1
      <3>3. ASSUME NEW a \in all[Parent(q)] PROVE a \in all[q]
        <4>1. Parent(q) # Root /\ a \in Process
          BY <3>1, <3>3
        <4>2. ASSUME NEW T \in SUBSET Process, above(q, T) PROVE a \in T
          <5>1. above(Parent(q), T)
            BY <4>1, <4>2
          <5> QED
            BY <3>1, <3>3, <5>1
        <4> QED
          BY <2>2, <4>1, <4>2
      <3>4. ASSUME NEW a \in all[q], a # Parent(q) PROVE a \in all[Parent(q)]
        <4>1. CASE Parent(q) = Root
          <5>1. above(q, {Root})
            BY <4>1
          <5>2. a \in {Root}
            BY <3>4, <5>1, RootIsProcess
          <5> QED
            BY <3>4, <4>1, <5>2
        <4>2. CASE Parent(q) # Root
          <5>1. ASSUME NEW T \in SUBSET Process, above(Parent(q), T) PROVE a \in T
            <6>1. above(q, T \cup {Parent(q)}) /\ T \cup {Parent(q)} \in SUBSET Process
              BY <3>1, <5>1
            <6>2. a \in T \cup {Parent(q)}
              BY <3>4, <6>1
            <6> QED
              BY <3>4, <6>2
          <5> QED
            BY <3>1, <3>4, <4>2, <5>1
        <4> QED
          BY <4>1, <4>2
      <3> HIDE DEF all
      <3> QED
        BY <2>2, <3>2, <3>3, <3>4
    <2> QED
      BY <2>1, <2>2
  <1>2. eq(all)
    <2>1. all = [q \in Process |-> all[q]]
      OBVIOUS
    <2> HIDE DEF all
    <2> QED
      BY <1>1, <2>1
  <1>3. Ancestors = CHOOSE g : eq(g)
    BY DEF Ancestors
  <1>4. eq(Ancestors)
    <2> HIDE DEF eq, all
    <2> QED
      BY <1>2, <1>3, Zenon
  <1> QED
    BY <1>4

(* There is one sweep at a time in the tree: no link carries two messages, *)
(* none carries an old number, and no process has heard more children than *)
(* it has.  Whatever the order in which check() is called and the messages *)
(* arrive.                                                                 *)
THEOREM SweepsDoNotMix == Spec => []OneSweepAtATime
  <1>1. TreeInv => OneSweepAtATime
    <2> SUFFICES ASSUME TreeInv, NEW p \in Process
                 PROVE  /\ Len(down[p]) + Len(up[p]) <= 1
                        /\ \A i \in DOMAIN down[p] : down[p][i] = root_down_sweep
                        /\ \A i \in DOMAIN up[p] : up[p][i].sweep = root_down_sweep
                        /\ DOMAIN accum_data[p] \subseteq {root_down_sweep}
                        /\ \A s \in DOMAIN accum_data[p] :
                             accum_data[p][s].received <= Cardinality(Children(p))
      BY DEF OneSweepAtATime
    <2>1. PICK st \in [Process -> Status] : Sweeping(st)
      BY DEF TreeInv, SweepInv
    <2>2. Stands(p, st) /\ st[p] \in Status
      BY <2>1 DEF Sweeping
    <2>3. \/ down[p] = <<>>
          \/ down[p] = <<root_down_sweep>> /\ up[p] = <<>>
      BY <2>1, OneMessageDown
    <2>4. \/ up[p] = <<>>
          \/ /\ Len(up[p]) = 1 /\ up[p] = <<up[p][1]>>
             /\ up[p][1].sweep = root_down_sweep
      BY <2>1, OneMessageUp DEF TreeInv
    <2>5. down[p] = <<>> \/ up[p] = <<>>
      BY <2>3
    <2>6. Len(down[p]) + Len(up[p]) <= 1
      <3>1. Len(<<>>) = 0 /\ Len(<<root_down_sweep>>) = 1
        OBVIOUS
      <3>2. \/ Len(down[p]) = 0 /\ Len(up[p]) = 0
            \/ Len(down[p]) = 1 /\ Len(up[p]) = 0
            \/ Len(down[p]) = 0 /\ Len(up[p]) = 1
        BY <2>3, <2>4, <3>1, Zenon
      <3>3. \A a, b : (a = 0 /\ b = 0) \/ (a = 1 /\ b = 0) \/ (a = 0 /\ b = 1) => a + b <= 1
        OBVIOUS
      <3> QED
        BY <3>2, <3>3, Zenon
    <2>7. /\ \A i \in DOMAIN down[p] : down[p][i] = root_down_sweep
          /\ \A i \in DOMAIN up[p] : up[p][i].sweep = root_down_sweep
      BY <2>3, <2>4
    <2>8. /\ DOMAIN accum_data[p] \subseteq {root_down_sweep}
          /\ \A s \in DOMAIN accum_data[p] :
               accum_data[p][s].received <= Cardinality(Children(p))
      <3>1. \/ DOMAIN accum_data[p] = {}
            \/ /\ DOMAIN accum_data[p] = {root_down_sweep}
               /\ accum_data[p][root_down_sweep].received = 1
               /\ Cardinality(Children(p)) = 2
        BY <2>2 DEF Stands, Status, Waits, NothingKept
      <3> QED
        BY <3>1
    <2> QED
      BY <2>6, <2>7, <2>8
  <1> QED
    BY <1>1, TreeInvariant, PTL

LEMMA TerminatesFromTheRoot ==
  ASSUME TerminationInv, phase[Root] = "running"
  PROVE  \A p \in Process : phase[p] = "running" /\ ~term[p]
  <1> DEFINE S == {p \in Process : phase[p] = "running" /\ ~term[p]}
  <1>1. Root \in S
    BY RootIsProcess DEF TerminationInv
  <1>2. \A c \in Process \ {Root} : Parent(c) \in S => c \in S
    BY DEF TerminationInv
  <1> HIDE DEF S
  <1>3. Process \subseteq S
    BY <1>1, <1>2, PassesDown
  <1> QED
    BY <1>3 DEF S

(* safe_reset never throws: when a process resets itself, everything it    *)
(* has sent has been received and everything that came up has been used.   *)
THEOREM ResetIsClean == Spec => []ResetFindsNothing
  <1>1. TreeInv => ResetFindsNothing
    <2> SUFFICES ASSUME TreeInv, NEW p \in Process, phase[p] = "waiting"
                 PROVE  /\ DOMAIN accum_data[p] = {} /\ up[p] = <<>>
                        /\ \A c \in Children(p) : down[c] = <<>>
      BY DEF ResetFindsNothing
    <2>1. PICK st \in [Process -> Status] : Sweeping(st)
      BY DEF TreeInv, SweepInv
    <2>2. phase[Root] # "running"
      BY TerminatesFromTheRoot DEF TreeInv
    <2>3. st[Root] = "used"
      BY <2>1, <2>2 DEF Sweeping, RootStands
    <2>4. ASSUME NEW q \in Process PROVE NothingAt(q) /\ NothingKept(q)
      <3>1. Stands(q, st) /\ st[q] = "used"
        BY <2>1, <2>3, AllUsed DEF Sweeping
      <3> QED
        BY <3>1 DEF Stands
    <2> QED
      BY <2>4, ChildrenAreProcesses DEF NothingAt, NothingKept
  <1> QED
    BY <1>1, TreeInvariant, PTL

(* No process is left behind: once the root has terminated, the            *)
(* termination is on its way to every process that still runs, and before  *)
(* that nobody has terminated.                                             *)
THEOREM NobodyIsLeftBehind == Spec => []TerminationReachesAll
  <1>1. TreeInv => TerminationReachesAll
    <2> SUFFICES ASSUME TreeInv, phase[Root] # "running"
                 PROVE  \A p \in Process : phase[p] = "running" =>
                          \E a \in {p} \cup Ancestors[p] : term[a]
      BY DEF TerminationReachesAll
    <2> DEFINE S == {p \in Process : phase[p] = "running" =>
                                       \E a \in {p} \cup Ancestors[p] : term[a]}
    <2>1. Root \in S
      BY RootIsProcess
    <2>2. ASSUME NEW c \in Process \ {Root}, Parent(c) \in S PROVE c \in S
      <3>1. Ancestors[c] = {Parent(c)} \cup Ancestors[Parent(c)]
        BY AncestorsOfChild
      <3>2. CASE phase[Parent(c)] = "running"
        <4>1. PICK a \in {Parent(c)} \cup Ancestors[Parent(c)] : term[a]
          BY <2>2, <3>2
        <4> QED
          BY <3>1, <4>1
      <3>3. CASE phase[Parent(c)] # "running"
        <4>1. phase[c] = "running" <=> term[c]
          BY <3>3 DEF TreeInv, TerminationInv
        <4> QED
          BY <4>1
      <3> QED
        BY <3>2, <3>3
    <2> HIDE DEF S
    <2>3. Process \subseteq S
      BY <2>1, <2>2, PassesDown
    <2> QED
      BY <2>3 DEF S
  <1> QED
    BY <1>1, TreeInvariant, PTL

-----------------------------------------------------------------------------
(* The messages in flight *)

(* The positions of the messages of Q in a queue.                          *)
Marked(s, Q) == {i \in DOMAIN s : s[i] \in Q}

LEMMA MarkedFinite ==
  ASSUME NEW s \in Seq(Regular), NEW Q
  PROVE  IsFiniteSet(Marked(s, Q)) /\ Cardinality(Marked(s, Q)) \in Nat
  <1>1. Marked(s, Q) \subseteq 1 .. Len(s)
    BY DEF Marked
  <1>2. IsFiniteSet(1 .. Len(s))
    BY FS_Interval
  <1>3. IsFiniteSet(Marked(s, Q))
    BY <1>1, <1>2, FS_Subset
  <1> QED
    BY <1>3, FS_CardinalityType

LEMMA MarkedAppend ==
  ASSUME NEW s \in Seq(Regular), NEW m \in Regular, NEW Q
  PROVE  Cardinality(Marked(Append(s, m), Q))
           = Cardinality(Marked(s, Q)) + (IF m \in Q THEN 1 ELSE 0)
  <1>1. /\ DOMAIN Append(s, m) = DOMAIN s \cup {Len(s) + 1} /\ Len(s) + 1 \notin DOMAIN s
        /\ Append(s, m)[Len(s) + 1] = m
        /\ \A i \in DOMAIN s : Append(s, m)[i] = s[i]
    OBVIOUS
  <1>2. CASE m \in Q
    <2>1. Marked(Append(s, m), Q) = Marked(s, Q) \cup {Len(s) + 1}
      BY <1>1, <1>2 DEF Marked
    <2>2. Len(s) + 1 \notin Marked(s, Q)
      BY <1>1 DEF Marked
    <2> QED
      BY <1>2, <2>1, <2>2, MarkedFinite, FS_AddElement
  <1>3. CASE m \notin Q
    <2>1. Marked(Append(s, m), Q) = Marked(s, Q)
      BY <1>1, <1>3 DEF Marked
    <2> QED
      BY <1>3, <2>1, MarkedFinite
  <1> QED
    BY <1>2, <1>3

LEMMA MarkedTail ==
  ASSUME NEW s \in Seq(Regular), s # <<>>, NEW Q
  PROVE  Cardinality(Marked(Tail(s), Q))
           = Cardinality(Marked(s, Q)) - (IF Head(s) \in Q THEN 1 ELSE 0)
  <1> DEFINE A == Marked(Tail(s), Q)
             B == Marked(s, Q) \ {1}
             shift == [i \in A |-> i + 1]
  <1>1. /\ Tail(s) \in Seq(Regular) /\ DOMAIN Tail(s) = 1 .. Len(s) - 1
        /\ DOMAIN s = 1 .. Len(s) /\ Len(s) \in Nat \ {0} /\ Head(s) = s[1]
        /\ \A i \in 1 .. Len(s) - 1 : Tail(s)[i] = s[i + 1]
    OBVIOUS
  <1>2. A \subseteq 1 .. Len(s) - 1 /\ B \subseteq 2 .. Len(s)
    BY <1>1 DEF Marked
  <1>3. \A i \in 1 .. Len(s) - 1 : i \in A <=> i + 1 \in B
    BY <1>1 DEF Marked
  <1>4. IsFiniteSet(A)
    BY <1>1, MarkedFinite
  <1> HIDE DEF A, B
  <1>5. shift \in [A -> B]
    BY <1>2, <1>3
  <1>6. \A i, j \in A : shift[i] = shift[j] => i = j
    BY <1>2
  <1>7. \A j \in B : \E i \in A : shift[i] = j
    <2> SUFFICES ASSUME NEW j \in B PROVE \E i \in A : shift[i] = j
      OBVIOUS
    <2>1. j - 1 \in 1 .. Len(s) - 1 /\ (j - 1) + 1 = j
      BY <1>1, <1>2
    <2>2. j - 1 \in A
      BY <1>3, <2>1
    <2> QED
      BY <2>1, <2>2
  <1>8. ExistsBijection(A, B)
    BY <1>5, <1>6, <1>7 DEF ExistsBijection, Bijection, Injection, Surjection, IsInjective
  <1>9. Cardinality(B) = Cardinality(A)
    BY <1>4, <1>8, FS_Bijection
  <1>10. Cardinality(B) = Cardinality(Marked(s, Q)) - (IF 1 \in Marked(s, Q) THEN 1 ELSE 0)
    <2>1. IsFiniteSet(Marked(s, Q)) /\ Cardinality(Marked(s, Q)) \in Nat
      BY MarkedFinite
    <2>2. Cardinality(Marked(s, Q) \ {1})
            = IF 1 \in Marked(s, Q) THEN Cardinality(Marked(s, Q)) - 1 ELSE Cardinality(Marked(s, Q))
      BY <2>1, FS_RemoveElement
    <2>3. Cardinality(B)
            = IF 1 \in Marked(s, Q) THEN Cardinality(Marked(s, Q)) - 1 ELSE Cardinality(Marked(s, Q))
      BY <2>2 DEF B
    <2> QED
      BY <2>1, <2>3
  <1>11. 1 \in Marked(s, Q) <=> Head(s) \in Q
    BY <1>1 DEF Marked
  <1> QED
    BY <1>9, <1>10, <1>11 DEF A

LEMMA OlderFinite ==
  ASSUME NEW s \in Seq(Regular), NEW r \in Int
  PROVE  IsFiniteSet(Older(s, r)) /\ Cardinality(Older(s, r)) \in Nat
  <1>1. Older(s, r) = Marked(s, {m \in Regular : m.sweep < r})
    BY DEF Older, Marked
  <1> QED
    BY <1>1, MarkedFinite

LEMMA OlderAppend ==
  ASSUME NEW s \in Seq(Regular), NEW m \in Regular, NEW r \in Int
  PROVE  Cardinality(Older(Append(s, m), r))
           = Cardinality(Older(s, r)) + (IF m.sweep < r THEN 1 ELSE 0)
  <1>1. PICK Q : Q = {n \in Regular : n.sweep < r}
    OBVIOUS
  <1>2. ASSUME NEW t \in Seq(Regular) PROVE Older(t, r) = Marked(t, Q)
    <2>1. \A i \in DOMAIN t : t[i] \in Regular
      OBVIOUS
    <2> QED
      BY <1>1, <2>1 DEF Older, Marked
  <1>3. Append(s, m) \in Seq(Regular) /\ (m \in Q <=> m.sweep < r)
    BY <1>1
  <1>4. Cardinality(Marked(Append(s, m), Q))
          = Cardinality(Marked(s, Q)) + (IF m \in Q THEN 1 ELSE 0)
    BY MarkedAppend
  <1>5. Older(s, r) = Marked(s, Q) /\ Older(Append(s, m), r) = Marked(Append(s, m), Q)
    BY <1>2, <1>3
  <1> QED
    BY <1>3, <1>4, <1>5

LEMMA OlderTail ==
  ASSUME NEW s \in Seq(Regular), s # <<>>, NEW r \in Int
  PROVE  Cardinality(Older(Tail(s), r))
           = Cardinality(Older(s, r)) - (IF Head(s).sweep < r THEN 1 ELSE 0)
  <1>1. PICK Q : Q = {n \in Regular : n.sweep < r}
    OBVIOUS
  <1>2. ASSUME NEW t \in Seq(Regular) PROVE Older(t, r) = Marked(t, Q)
    <2>1. \A i \in DOMAIN t : t[i] \in Regular
      OBVIOUS
    <2> QED
      BY <1>1, <2>1 DEF Older, Marked
  <1>3. Tail(s) \in Seq(Regular) /\ Head(s) \in Regular
    OBVIOUS
  <1>4. Head(s) \in Q <=> Head(s).sweep < r
    BY <1>1, <1>3
  <1>5. Cardinality(Marked(Tail(s), Q))
          = Cardinality(Marked(s, Q)) - (IF Head(s) \in Q THEN 1 ELSE 0)
    BY MarkedTail
  <1>6. Older(s, r) = Marked(s, Q) /\ Older(Tail(s), r) = Marked(Tail(s), Q)
    BY <1>2, <1>3
  <1> QED
    BY <1>4, <1>5, <1>6

(* A queue that is not empty and holds only older messages.                *)
LEMMA OlderAll ==
  ASSUME NEW s \in Seq(Regular), NEW r \in Int, \A i \in DOMAIN s : s[i].sweep < r
  PROVE  Cardinality(Older(s, r)) = Len(s)
  <1>1. Older(s, r) = 1 .. Len(s) /\ Len(s) \in Nat
    BY DEF Older
  <1>2. Cardinality(1 .. Len(s)) = Len(s)
    BY <1>1, FS_Interval
  <1> QED
    BY <1>1, <1>2

LEMMA PairsFinite == IsFiniteSet(Process) /\ IsFiniteSet(Process \X Process)
  <1>1. IsFiniteSet(Process)
    BY FS_Interval, NAssumption DEF Process
  <1> QED
    BY <1>1, FS_Product

LEMMA WireSumsType ==
  ASSUME NEW w \in Wires, NEW r \in Int
  PROVE  /\ Lengths(w) \in [Process \X Process -> Nat]
         /\ Olds(w, r) \in [Process \X Process -> Nat]
         /\ SumFunction(Lengths(w)) \in Nat /\ SumFunction(Olds(w, r)) \in Nat
  <1>1. \A p, q \in Process : w[p][q] \in Seq(Regular)
    BY DEF Wires
  <1>2. \A p, q \in Process : Cardinality(Older(w[p][q], r)) \in Nat /\ Len(w[p][q]) \in Nat
    BY <1>1, OlderFinite
  <1>3. Lengths(w) \in [Process \X Process -> Nat] /\ Olds(w, r) \in [Process \X Process -> Nat]
    BY <1>2 DEF Lengths, Olds
  <1> QED
    BY <1>3, PairsFinite, SumOfNaturals

(* To some of the summands one is added.                                   *)
LEMMA SumGrowsBy ==
  ASSUME NEW D, IsFiniteSet(D), NEW f \in [D -> Int], NEW h, NEW T \in SUBSET D,
         h = [x \in D |-> IF x \in T THEN f[x] + 1 ELSE f[x]]
  PROVE  SumFunction(h) = SumFunction(f) + Cardinality(T)
  BY SumGrows

LEMMA HandSums ==
  ASSUME NEW w \in Wires, NEW p \in Process, NEW to \in SUBSET Process, NEW m \in Regular,
         NEW r \in Int
  PROVE  /\ SumFunction(Lengths(Hand(p, to, m, w))) = SumFunction(Lengths(w)) + Cardinality(to)
         /\ SumFunction(Olds(Hand(p, to, m, w), r))
              = SumFunction(Olds(w, r)) + (IF m.sweep < r THEN Cardinality(to) ELSE 0)
  <1> DEFINE D == Process \X Process
             T == {p} \X to
  <1>1. SUFFICES ASSUME NEW v, v = Hand(p, to, m, w)
                 PROVE  /\ SumFunction(Lengths(v)) = SumFunction(Lengths(w)) + Cardinality(to)
                        /\ SumFunction(Olds(v, r))
                             = SumFunction(Olds(w, r)) + (IF m.sweep < r THEN Cardinality(to) ELSE 0)
    OBVIOUS
  <1>2. /\ v \in Wires
        /\ \A q \in Process : v[p][q] = IF q \in to THEN Append(w[p][q], m) ELSE w[p][q]
        /\ \A q \in Process \ {p} : v[q] = w[q]
    BY <1>1, Handed
  <1>3. Cardinality(T) = Cardinality(to) /\ T \in SUBSET D
    <2>1. IsFiniteSet(to) /\ Cardinality(to) \in Nat
      BY PairsFinite, FS_Subset, FS_CardinalityType
    <2>2. Cardinality({p} \X to) = Cardinality({p}) * Cardinality(to)
      BY <2>1, FS_Singleton, FS_Product
    <2>3. Cardinality({p}) = 1
      BY FS_Singleton
    <2> QED
      BY <2>1, <2>2, <2>3
  <1>4. ASSUME NEW a \in Process, NEW b \in Process
        PROVE  /\ w[a][b] \in Seq(Regular)
               /\ v[a][b] = IF <<a, b>> \in T THEN Append(w[a][b], m) ELSE w[a][b]
    BY <1>2 DEF Wires
  <1>5. ASSUME NEW a \in Process, NEW b \in Process
        PROVE  Len(v[a][b]) = IF <<a, b>> \in T THEN Len(w[a][b]) + 1 ELSE Len(w[a][b])
    <2>1. w[a][b] \in Seq(Regular)
      BY <1>4
    <2>2. Len(Append(w[a][b], m)) = Len(w[a][b]) + 1
      BY <2>1
    <2>3. v[a][b] = IF <<a, b>> \in T THEN Append(w[a][b], m) ELSE w[a][b]
      BY <1>4
    <2> HIDE DEF T
    <2> QED
      BY <2>2, <2>3
  <1>6. ASSUME NEW a \in Process, NEW b \in Process
        PROVE  Cardinality(Older(v[a][b], r))
                 = IF <<a, b>> \in T /\ m.sweep < r THEN Cardinality(Older(w[a][b], r)) + 1
                   ELSE Cardinality(Older(w[a][b], r))
    <2>1. w[a][b] \in Seq(Regular) /\ Cardinality(Older(w[a][b], r)) \in Nat
      BY <1>4, OlderFinite
    <2>2. CASE <<a, b>> \in T
      <3>1. v[a][b] = Append(w[a][b], m)
        BY <1>4, <2>2
      <3>2. Cardinality(Older(v[a][b], r))
              = Cardinality(Older(w[a][b], r)) + (IF m.sweep < r THEN 1 ELSE 0)
        BY <2>1, <3>1, OlderAppend
      <3> QED
        BY <2>1, <2>2, <3>2
    <2>3. CASE <<a, b>> \notin T
      BY <1>4, <2>3
    <2> QED
      BY <2>2, <2>3
  <1> HIDE DEF T
  <1>7. Lengths(v) = [x \in D |-> IF x \in T THEN Lengths(w)[x] + 1 ELSE Lengths(w)[x]]
    BY <1>5 DEF Lengths
  <1>8. m.sweep < r =>
          Olds(v, r) = [x \in D |-> IF x \in T THEN Olds(w, r)[x] + 1 ELSE Olds(w, r)[x]]
    BY <1>6 DEF Olds
  <1>9. ~(m.sweep < r) => Olds(v, r) = Olds(w, r)
    BY <1>6 DEF Olds
  <1>10. /\ Lengths(w) \in [D -> Int] /\ Olds(w, r) \in [D -> Int] /\ IsFiniteSet(D)
         /\ SumFunction(Olds(w, r)) \in Nat
    <2>1. \A f : f \in [D -> Nat] => f \in [D -> Int]
      OBVIOUS
    <2>2. /\ Lengths(w) \in [D -> Nat] /\ Olds(w, r) \in [D -> Nat] /\ IsFiniteSet(D)
          /\ SumFunction(Olds(w, r)) \in Nat
      BY WireSumsType, PairsFinite
    <2> HIDE DEF D
    <2> QED
      BY <2>1, <2>2
  <1> HIDE DEF D
  <1>11. SumFunction(Lengths(v)) = SumFunction(Lengths(w)) + Cardinality(T)
    BY <1>3, <1>7, <1>10, SumGrowsBy
  <1>12. m.sweep < r => SumFunction(Olds(v, r)) = SumFunction(Olds(w, r)) + Cardinality(T)
    BY <1>3, <1>8, <1>10, SumGrowsBy
  <1> QED
    BY <1>3, <1>9, <1>10, <1>11, <1>12

LEMMA TakeSums ==
  ASSUME NEW w \in Wires, NEW q \in Process, NEW p \in Process, w[q][p] # <<>>, NEW r \in Int
  PROVE  LET v == [w EXCEPT ![q][p] = Tail(@)] IN
         /\ SumFunction(Lengths(v)) = SumFunction(Lengths(w)) - 1
         /\ SumFunction(Olds(v, r))
              = SumFunction(Olds(w, r)) - (IF Head(w[q][p]).sweep < r THEN 1 ELSE 0)
  <1> DEFINE D == Process \X Process
  <1>1. SUFFICES ASSUME NEW v, v = [w EXCEPT ![q][p] = Tail(@)]
                 PROVE  /\ SumFunction(Lengths(v)) = SumFunction(Lengths(w)) - 1
                        /\ SumFunction(Olds(v, r))
                             = SumFunction(Olds(w, r))
                                 - (IF Head(w[q][p]).sweep < r THEN 1 ELSE 0)
    OBVIOUS
  <1>2. v \in Wires /\ v[q][p] = Tail(w[q][p])
    BY <1>1, Taken1 DEF Wires
  <1>3. ASSUME NEW a \in Process, NEW b \in Process, <<a, b>> # <<q, p>>
        PROVE  v[a][b] = w[a][b]
    BY <1>1, <1>3 DEF Wires
  <1>4. w[q][p] \in Seq(Regular)
    BY DEF Wires
  <1>5. Len(Tail(w[q][p])) = Len(w[q][p]) - 1 /\ Len(w[q][p]) \in Nat
    BY <1>4
  <1>6. Cardinality(Older(Tail(w[q][p]), r))
          = Cardinality(Older(w[q][p], r)) - (IF Head(w[q][p]).sweep < r THEN 1 ELSE 0)
    BY <1>4, OlderTail
  <1>7. Cardinality(Older(w[q][p], r)) \in Nat
    BY <1>4, OlderFinite
  <1>8. /\ Lengths(w) \in [D -> Int] /\ Olds(w, r) \in [D -> Int]
        /\ Lengths(v) \in [D -> Int] /\ Olds(v, r) \in [D -> Int]
        /\ IsFiniteSet(D) /\ <<q, p>> \in D
    <2>1. \A f : f \in [D -> Nat] => f \in [D -> Int]
      OBVIOUS
    <2>2. /\ Lengths(w) \in [D -> Nat] /\ Olds(w, r) \in [D -> Nat]
          /\ Lengths(v) \in [D -> Nat] /\ Olds(v, r) \in [D -> Nat]
          /\ IsFiniteSet(D) /\ <<q, p>> \in D
      BY <1>2, WireSumsType, PairsFinite
    <2> HIDE DEF D
    <2> QED
      BY <2>1, <2>2
  <1>9. /\ \A x \in D \ {<<q, p>>} : Lengths(v)[x] = Lengths(w)[x]
        /\ \A x \in D \ {<<q, p>>} : Olds(v, r)[x] = Olds(w, r)[x]
    BY <1>3 DEF Lengths, Olds
  <1>10. /\ Lengths(v)[<<q, p>>] = Lengths(w)[<<q, p>>] - 1
         /\ Lengths(w)[<<q, p>>] \in Int
    <2>1. Lengths(v)[<<q, p>>] = Len(v[q][p]) /\ Lengths(w)[<<q, p>>] = Len(w[q][p])
      BY DEF Lengths
    <2>2. Len(v[q][p]) = Len(w[q][p]) - 1
      BY <1>2, <1>5
    <2> QED
      BY <1>5, <2>1, <2>2
  <1>11. /\ Olds(v, r)[<<q, p>>] = Olds(w, r)[<<q, p>>]
                                    - (IF Head(w[q][p]).sweep < r THEN 1 ELSE 0)
         /\ Olds(w, r)[<<q, p>>] \in Int
    BY <1>2, <1>6, <1>7 DEF Olds
  <1>12. ASSUME NEW f \in [D -> Int], NEW h \in [D -> Int],
                \A x \in D \ {<<q, p>>} : h[x] = f[x]
         PROVE  /\ SumFunction(f) \in Int
                /\ SumFunction(h) = SumFunction(f) + h[<<q, p>>] - f[<<q, p>>]
    <2> HIDE DEF D
    <2> QED
      BY <1>8, <1>12, SumChanges
  <1> HIDE DEF D
  <1>13. /\ SumFunction(Lengths(w)) \in Int
         /\ SumFunction(Lengths(v))
              = SumFunction(Lengths(w)) + Lengths(v)[<<q, p>>] - Lengths(w)[<<q, p>>]
    BY <1>8, <1>9, <1>12
  <1>14. /\ SumFunction(Olds(w, r)) \in Int
         /\ SumFunction(Olds(v, r))
              = SumFunction(Olds(w, r)) + Olds(v, r)[<<q, p>>] - Olds(w, r)[<<q, p>>]
    BY <1>8, <1>9, <1>12
  <1> QED
    BY <1>10, <1>11, <1>13, <1>14

LEMMA AppendedElements ==
  ASSUME NEW s \in Seq(Regular), NEW m \in Regular, NEW i \in DOMAIN Append(s, m)
  PROVE  (i \in DOMAIN s /\ Append(s, m)[i] = s[i]) \/ Append(s, m)[i] = m
  <1>1. /\ DOMAIN Append(s, m) = DOMAIN s \cup {Len(s) + 1}
        /\ Append(s, m)[Len(s) + 1] = m
        /\ \A j \in DOMAIN s : Append(s, m)[j] = s[j]
    OBVIOUS
  <1> QED
    BY <1>1

LEMMA HeadElement ==
  ASSUME NEW s \in Seq(Regular), s # <<>>
  PROVE  1 \in DOMAIN s /\ s[1] = Head(s) /\ Head(s) \in Regular
  OBVIOUS

LEMMA TailElements ==
  ASSUME NEW s \in Seq(Regular), s # <<>>, NEW i \in DOMAIN Tail(s)
  PROVE  i + 1 \in DOMAIN s /\ Tail(s)[i] = s[i + 1]
  OBVIOUS

LEMMA NumbersHanded ==
  ASSUME NEW w \in Wires, NEW p \in Process, NEW to, NEW m \in Regular
  PROVE  /\ Numbers(Hand(p, to, m, w)) \subseteq Numbers(w) \cup {m.sweep}
  <1> SUFFICES ASSUME NEW v, v = Hand(p, to, m, w), NEW s \in Numbers(v), s # m.sweep
               PROVE  s \in Numbers(w)
    OBVIOUS
  <1>1. PICK a, b \in Process : \E i \in DOMAIN v[a][b] : v[a][b][i].sweep = s
    BY DEF Numbers
  <1>2. PICK i \in DOMAIN v[a][b] : v[a][b][i].sweep = s
    BY <1>1
  <1>3. w[a][b] \in Seq(Regular) /\ (v[a][b] = w[a][b] \/ v[a][b] = Append(w[a][b], m))
    <2>1. /\ \A q \in Process : v[p][q] = IF q \in to THEN Append(w[p][q], m) ELSE w[p][q]
          /\ \A q \in Process \ {p} : v[q] = w[q]
      BY Handed
    <2> QED
      BY <2>1 DEF Wires
  <1>4. \E j \in DOMAIN w[a][b] : w[a][b][j].sweep = s
    <2>1. CASE v[a][b] = w[a][b]
      BY <1>2, <2>1
    <2>2. CASE v[a][b] = Append(w[a][b], m)
      <3>1. \/ i \in DOMAIN w[a][b] /\ v[a][b][i] = w[a][b][i]
            \/ v[a][b][i] = m
        BY <1>2, <1>3, <2>2, AppendedElements
      <3> QED
        BY <1>2, <3>1
    <2> QED
      BY <1>3, <2>1, <2>2
  <1> QED
    BY <1>4 DEF Numbers

LEMMA NumbersTaken ==
  ASSUME NEW w \in Wires, NEW q \in Process, NEW p \in Process, w[q][p] # <<>>
  PROVE  /\ Numbers([w EXCEPT ![q][p] = Tail(@)]) \subseteq Numbers(w)
         /\ Head(w[q][p]).sweep \in Numbers(w)
  <1>1. w[q][p] \in Seq(Regular)
    BY DEF Wires
  <1>2. ASSUME NEW v, v = [w EXCEPT ![q][p] = Tail(@)], NEW s \in Numbers(v)
        PROVE  s \in Numbers(w)
    <2>1. PICK a, b \in Process : \E i \in DOMAIN v[a][b] : v[a][b][i].sweep = s
      BY <1>2 DEF Numbers
    <2>2. PICK i \in DOMAIN v[a][b] : v[a][b][i].sweep = s
      BY <2>1
    <2>3. /\ w[a][b] \in Seq(Regular)
          /\ v[a][b] = w[a][b] \/ (w[a][b] # <<>> /\ v[a][b] = Tail(w[a][b]))
      BY <1>2 DEF Wires
    <2>4. \E j \in DOMAIN w[a][b] : w[a][b][j].sweep = s
      <3>1. CASE v[a][b] = w[a][b]
        BY <2>2, <3>1
      <3>2. CASE w[a][b] # <<>> /\ v[a][b] = Tail(w[a][b])
        <4>1. i + 1 \in DOMAIN w[a][b] /\ w[a][b][i + 1] = v[a][b][i]
          BY <2>2, <2>3, <3>2, TailElements
        <4> QED
          BY <2>2, <4>1
      <3> QED
        BY <2>3, <3>1, <3>2
    <2> QED
      BY <1>2, <2>4 DEF Numbers
  <1>3. Head(w[q][p]).sweep \in Numbers(w)
    <2>1. 1 \in DOMAIN w[q][p] /\ w[q][p][1] = Head(w[q][p]) /\ Head(w[q][p]).sweep \in Sweep
      BY <1>1, HeadElement DEF Regular
    <2> QED
      BY <2>1 DEF Numbers
  <1> QED
    BY <1>2, <1>3

(* All that is in flight is older than a sweep that starts.                *)
LEMMA AllOlder ==
  ASSUME NEW w \in Wires, NEW r \in Int, \A s \in Numbers(w) : s < r
  PROVE  SumFunction(Olds(w, r)) = SumFunction(Lengths(w))
  <1>1. ASSUME NEW a \in Process, NEW b \in Process
        PROVE  Cardinality(Older(w[a][b], r)) = Len(w[a][b])
    <2>1. w[a][b] \in Seq(Regular)
      BY DEF Wires
    <2>2. ASSUME NEW i \in DOMAIN w[a][b] PROVE w[a][b][i].sweep < r
      <3>1. w[a][b][i] \in Regular
        BY <2>1
      <3>2. w[a][b][i].sweep \in Sweep
        BY <3>1 DEF Regular
      <3> QED
        BY <3>2 DEF Numbers
    <2> QED
      BY <2>1, <2>2, OlderAll
  <1>2. Olds(w, r) = Lengths(w)
    BY <1>1 DEF Olds, Lengths
  <1> QED
    BY <1>2

(* Nothing is in flight when nothing older is and nothing with the number. *)
LEMMA NothingInFlight ==
  ASSUME NEW w \in Wires, NEW r \in Int, \A s \in Numbers(w) : s <= r, r \notin Numbers(w),
         SumFunction(Olds(w, r)) = 0
  PROVE  \A a, b \in Process : w[a][b] = <<>>
  <1> SUFFICES ASSUME NEW a \in Process, NEW b \in Process, w[a][b] # <<>> PROVE FALSE
    OBVIOUS
  <1>1. w[a][b] \in Seq(Regular)
    BY DEF Wires
  <1>2. Head(w[a][b]).sweep \in Numbers(w)
    BY NumbersTaken
  <1>3. Head(w[a][b]).sweep < r
    <2>1. Head(w[a][b]).sweep \in Int
      BY <1>2, BoundsAreNumbers DEF Numbers, Sweep
    <2> QED
      BY <1>2, <2>1
  <1>4. 1 \in Older(w[a][b], r)
    BY <1>1, <1>3 DEF Older
  <1>5. Cardinality(Older(w[a][b], r)) # 0 /\ Cardinality(Older(w[a][b], r)) \in Nat
    BY <1>1, <1>4, OlderFinite, FS_EmptySet
  <1>6. Olds(w, r)[<<a, b>>] <= SumFunction(Olds(w, r))
    BY WireSumsType, PairsFinite, SumOfNaturals
  <1>7. Olds(w, r)[<<a, b>>] = Cardinality(Older(w[a][b], r))
    BY DEF Olds
  <1> QED
    BY <1>5, <1>6, <1>7

(* No number means that nothing is in flight.                              *)
LEMMA EmptyWires ==
  ASSUME NEW w \in Wires, \A a, b \in Process : w[a][b] = <<>>
  PROVE  Numbers(w) = {} /\ SumFunction(Lengths(w)) = 0
  <1>1. Numbers(w) = {}
    BY DEF Numbers
  <1>2. \A x \in Process \X Process : Lengths(w)[x] = 0
    BY DEF Lengths
  <1>3. Lengths(w) \in [Process \X Process -> Int] /\ IsFiniteSet(Process \X Process)
    <2> DEFINE D == Process \X Process
    <2>1. \A f : f \in [D -> Nat] => f \in [D -> Int]
      OBVIOUS
    <2>2. Lengths(w) \in [D -> Nat] /\ IsFiniteSet(D)
      <3>1. 0 \in Int
        OBVIOUS
      <3>2. Lengths(w) \in [Process \X Process -> Nat]
        BY <3>1, WireSumsType
      <3> QED
        BY <3>2, PairsFinite
    <2>3. Lengths(w) \in [D -> Int]
      <3> HIDE DEF D
      <3> QED
        BY <2>1, <2>2
    <2> QED
      BY <2>2, <2>3
  <1>4. SumFunction(Lengths(w)) = 0
    BY <1>2, <1>3, SumOfZeros
  <1> QED
    BY <1>1, <1>4

-----------------------------------------------------------------------------
(* The counts and the messages in flight *)

LEMMA SumOfOneMore ==
  ASSUME NEW f \in [Process -> Int], NEW h \in [Process -> Int], NEW p \in Process,
         \A x \in Process \ {p} : h[x] = f[x]
  PROVE  /\ SumFunction(f) \in Int
         /\ SumFunction(h) = SumFunction(f) + h[p] - f[p]
  BY PairsFinite, SumChanges

(* One process counts n more: so does the sum.                             *)
LEMMA LiveChanges ==
  ASSUME TypeInv, TypeInv', NEW p \in Process, NEW n \in Int,
         Live(p)' = Live(p) + n, \A x \in Process \ {p} : Live(x)' = Live(x)
  PROVE  SumLive \in Int /\ SumLive' = SumLive + n
  <1> DEFINE f == [x \in Process |-> Live(x)]
             h == [x \in Process |-> Live(x)']
  <1>1. f \in [Process -> Int] /\ h \in [Process -> Int]
    <2>1. ASSUME NEW x \in Process PROVE Live(x) \in Int /\ Live(x)' \in Int
      <3>1. /\ local_sends[x] \in Nat /\ local_processed[x] \in Nat
            /\ local_sends'[x] \in Nat /\ local_processed'[x] \in Nat
        BY DEF TypeInv
      <3> QED
        BY <3>1 DEF Live
    <2> QED
      BY <2>1
  <1>2. SumLive = SumFunction(f) /\ SumLive' = SumFunction(h)
    BY DEF SumLive
  <1>3. h[p] = f[p] + n /\ \A x \in Process \ {p} : h[x] = f[x]
    OBVIOUS
  <1>4. f[p] \in Int
    BY <1>1
  <1> HIDE DEF f, h
  <1>5. SumFunction(f) \in Int /\ SumFunction(h) = SumFunction(f) + h[p] - f[p]
    BY <1>1, <1>3, SumOfOneMore
  <1> QED
    BY <1>2, <1>3, <1>4, <1>5

(* What the application does to the counts and to what is in flight.       *)
LEMMA FlightOfMessages ==
  ASSUME TypeInv, TypeInv', NEW p \in Process, NEW q \in Process,
         Send(p, q) \/ Broadcast(p) \/ Receive(p, q)
  PROVE  \E n \in Int : SumLive' = SumLive + n /\ SumFlight' = SumFlight + n
  <1>1. /\ wire \in Wires /\ SumFlight \in Int /\ 0 \in Int
        /\ SumFlight' = SumFunction(Lengths(wire'))
    <2>1. wire \in Wires /\ 0 \in Int
      BY DEF TypeInv, Wires
    <2> QED
      BY <2>1, WireSumsType DEF SumFlight
  <1>2. ASSUME NEW to \in SUBSET Process, NEW m \in Regular,
               wire' = Hand(p, to, m, wire),
               local_sends' = [local_sends EXCEPT ![p] = @ + Cardinality(to)],
               local_processed' = local_processed
        PROVE  \E n \in Int : SumLive' = SumLive + n /\ SumFlight' = SumFlight + n
    <2>1. Cardinality(to) \in Nat
      BY PairsFinite, FS_Subset, FS_CardinalityType
    <2>2. SumFlight' = SumFlight + Cardinality(to)
      BY <1>1, <1>2, HandSums DEF SumFlight
    <2>3. Live(p)' = Live(p) + Cardinality(to) /\ \A x \in Process \ {p} : Live(x)' = Live(x)
      BY <1>2, <2>1 DEF Live, TypeInv
    <2>4. SumLive' = SumLive + Cardinality(to)
      BY <2>1, <2>3, LiveChanges
    <2> QED
      BY <2>1, <2>2, <2>4
  <1>3. CASE Send(p, q)
    <2>1. [sweep |-> local_sweep_number[p], broadcast |-> FALSE] \in Regular
      BY DEF TypeInv, Regular
    <2>2. Cardinality({q}) = 1
      BY FS_Singleton
    <2> QED
      BY <1>2, <1>3, <2>1, <2>2 DEF Send
  <1>4. CASE Broadcast(p)
    <2> DEFINE to == IF p = Root THEN Children(Root) ELSE {Root}
    <2>1. [sweep |-> local_sweep_number[p], broadcast |-> TRUE] \in Regular
      BY DEF TypeInv, Regular
    <2>2. to \in SUBSET Process
      BY RootIsProcess, ChildrenAreProcesses
    <2>3. /\ wire' = Hand(p, to, [sweep |-> local_sweep_number[p], broadcast |-> TRUE], wire)
          /\ local_sends' = [local_sends EXCEPT ![p] = @ + Cardinality(to)]
          /\ local_processed' = local_processed
      BY <1>4 DEF Broadcast
    <2> HIDE DEF to
    <2> QED
      BY <1>2, <2>1, <2>2, <2>3
  <1>5. CASE Receive(p, q)
    <2> DEFINE m == Head(wire[q][p])
               to == IF m.broadcast THEN Children(p) ELSE {}
               rest == [wire EXCEPT ![q][p] = Tail(@)]
    <2>1. /\ wire[q][p] # <<>> /\ wire' = Hand(p, to, m, rest)
          /\ local_sends' = [local_sends EXCEPT ![p] = @ + Cardinality(to)]
          /\ local_processed' = [local_processed EXCEPT ![p] = @ + 1]
      BY <1>5 DEF Receive
    <2>2. rest \in Wires /\ m \in Regular
      BY <1>1, <2>1, Taken1
    <2>3. to \in SUBSET Process
      BY ChildrenAreProcesses
    <2>4. SumFunction(Lengths(rest)) = SumFlight - 1
      BY <1>1, <2>1, TakeSums DEF SumFlight
    <2> HIDE DEF to, rest, m
    <2>5. Cardinality(to) \in Nat
      BY <2>3, PairsFinite, FS_Subset, FS_CardinalityType
    <2>6. SumFlight' = SumFlight + (Cardinality(to) - 1)
      <3>1. SumFunction(Lengths(Hand(p, to, m, rest)))
              = SumFunction(Lengths(rest)) + Cardinality(to)
        BY <1>1, <2>2, <2>3, HandSums
      <3> QED
        BY <1>1, <2>1, <2>4, <2>5, <3>1
    <2>7. /\ Live(p)' = Live(p) + (Cardinality(to) - 1)
          /\ \A x \in Process \ {p} : Live(x)' = Live(x)
      BY <2>1, <2>5 DEF Live, TypeInv
    <2>8. SumLive' = SumLive + (Cardinality(to) - 1)
      BY <2>5, <2>7, LiveChanges
    <2> QED
      BY <2>5, <2>6, <2>8
  <1> QED
    BY <1>3, <1>4, <1>5

(* Without messages nothing is in flight.                                  *)
LEMMA QuietWires ==
  ASSUME TypeInv, Quiet
  PROVE  SumFlight = 0 /\ Numbers(wire) = {} /\ \A a, b \in Process : wire[a][b] = <<>>
  <1>1. \A a, b \in Process : wire[a][b] = <<>>
    <2> SUFFICES ASSUME NEW a \in Process, NEW b \in Process, wire[a][b] # <<>> PROVE FALSE
      OBVIOUS
    <2>1. <<a, b>> \in InFlight
      BY DEF InFlight
    <2> QED
      BY <2>1 DEF Quiet
  <1>2. wire \in Wires
    BY DEF TypeInv, Wires
  <1> QED
    BY <1>1, <1>2, EmptyWires DEF SumFlight

LEMMA FlightStep ==
  ASSUME TypeInv, TypeInv', TerminationInv, ResetInv, FlightInv, [Next]_vars
  PROVE  FlightInv'
  <1>1. ASSUME UNCHANGED <<active, wire, local_sends, local_processed, premature>>,
               phase'[Root] # "running" => phase[Root] # "running",
               \A p \in Process : phase[p] = "barrier" => phase'[p] = "barrier"
        PROVE  FlightInv'
    <2>1. SumLive' = SumLive /\ SumFlight' = SumFlight /\ Quiet' = Quiet
      BY <1>1 DEF SumLive, Live, SumFlight, Quiet, InFlight
    <2> QED
      BY <1>1, <2>1 DEF FlightInv
  <1>2. CASE UNCHANGED vars
    BY <1>1, <1>2 DEF vars, appVars, treeVars
  <1>3. ASSUME NEW p \in Process, NEW q \in Process, Send(p, q) \/ Broadcast(p) \/ Receive(p, q)
        PROVE  FlightInv'
    <2>1. SUFFICES ASSUME ~premature PROVE FlightInv'
      BY <1>3, AppSteps DEF FlightInv
    <2>2. UNCHANGED phase /\ UNCHANGED premature
      BY <1>3, AppSteps DEF treeVars
    <2>3. ~Quiet
      <3>1. CASE active[p]
        BY <3>1 DEF Quiet
      <3>2. CASE wire[q][p] # <<>>
        BY <3>2, QuietWires
      <3> QED
        BY <1>3, <3>1, <3>2 DEF Send, Broadcast, Receive
    <2>4. phase[Root] = "running"
      BY <2>1, <2>3 DEF FlightInv
    <2>5. PICK n \in Int : SumLive' = SumLive + n /\ SumFlight' = SumFlight + n
      BY <1>3, FlightOfMessages
    <2> QED
      BY <2>1, <2>2, <2>4, <2>5 DEF FlightInv
  <1>4. ASSUME NEW p \in Process, BecomeQuiescent(p) PROVE FlightInv'
    <2>1. SumLive' = SumLive /\ SumFlight' = SumFlight
      BY <1>4 DEF BecomeQuiescent, SumLive, Live, SumFlight
    <2>2. Quiet => Quiet'
      BY <1>4 DEF BecomeQuiescent, Quiet
    <2> QED
      BY <1>4, <2>1, <2>2 DEF FlightInv, BecomeQuiescent, treeVars
  <1>5. ASSUME NEW p \in Process, NEW k \in Arrivals(p), Check(p, k) PROVE FlightInv'
    <2>1. CASE CheckInVain(p)
      BY <1>2, <2>1 DEF CheckInVain
    <2>2. CASE CheckTerminated(p)
      <3>1. p # Root /\ phase[p] = "running"
        BY <2>2 DEF CheckTerminated, Checks, TerminationInv
      <3> QED
        BY <1>1, <2>2, <3>1, RootIsProcess DEF CheckTerminated, appVars, TypeInv
    <2>3. CASE CheckLeaf(p)
      BY <1>1, <2>3 DEF CheckLeaf, appVars
    <2>4. CASE CheckDown(p)
      BY <1>1, <2>4 DEF CheckDown, appVars
    <2>5. CASE CheckIncomplete(p, k)
      BY <1>1, <2>5 DEF CheckIncomplete, appVars
    <2>6. CASE CheckInner(p, k)
      BY <1>1, <2>6 DEF CheckInner, appVars
    <2>7. CASE CheckStart
      BY <1>1, <2>7 DEF CheckStart, appVars
    <2>8. CASE p = Root /\ CheckRoot(k)
      <3>1. UNCHANGED appVars /\ phase[Root] = "running"
        BY <2>8 DEF CheckRoot, Checks
      <3>2. CASE UNCHANGED <<phase, premature>>
        BY <1>1, <3>1, <3>2 DEF appVars
      <3>3. CASE /\ phase' = [phase EXCEPT ![Root] = "waiting"]
                 /\ premature' = (premature \/ ~Quiet)
        <4>1. SumLive' = SumLive /\ SumFlight' = SumFlight /\ Quiet' = Quiet
          BY <3>1 DEF appVars, SumLive, Live, SumFlight, Quiet, InFlight
        <4>2. \A x \in Process : phase[x] = "barrier" => phase'[x] = "barrier"
          BY <3>1, <3>3 DEF TypeInv
        <4> QED
          BY <3>3, <4>1, <4>2 DEF FlightInv
      <3> QED
        BY <2>8, <3>2, <3>3 DEF CheckRoot
    <2> QED
      BY <1>5, <2>1, <2>2, <2>3, <2>4, <2>5, <2>6, <2>7, <2>8 DEF Check
  <1>6. ASSUME NEW p \in Process, Reset(p) PROVE FlightInv'
    <2>1. phase'[p] = "barrier"
      BY <1>6 DEF Reset, TypeInv
    <2>2. Quiet' = Quiet
      BY <1>6 DEF Reset, Quiet, InFlight
    <2>3. phase'[Root] # "running" => phase[Root] # "running"
      BY <1>6, RootIsProcess DEF Reset, TypeInv
    <2>4. UNCHANGED premature
      BY <1>6 DEF Reset
    <2> QED
      BY <2>1, <2>2, <2>3, <2>4 DEF FlightInv
  <1>7. CASE Barrier
    <2>1. SUFFICES ASSUME ~premature PROVE FlightInv'
      BY <1>7 DEF Barrier, FlightInv
    <2>2. Quiet
      BY <1>7, <2>1, RootIsProcess DEF Barrier, FlightInv
    <2>3. SumFlight' = 0
      BY <1>7, <2>2, QuietWires DEF Barrier, SumFlight
    <2>4. \A x \in Process : Live(x)' = 0
      BY <1>7 DEF Barrier, ResetInv, Live
    <2>5. SumLive' = 0
      <3> DEFINE f == [x \in Process |-> Live(x)']
      <3>1. f \in [Process -> Int] /\ \A x \in Process : f[x] = 0
        BY <2>4
      <3>2. SumLive' = SumFunction(f)
        BY DEF SumLive
      <3> HIDE DEF f
      <3> QED
        BY <3>1, <3>2, PairsFinite, SumOfZeros
    <2> QED
      BY <1>7, <2>3, <2>5, RootIsProcess DEF Barrier, FlightInv
  <1> QED
    BY <1>2, <1>3, <1>4, <1>5, <1>6, <1>7 DEF Next

LEMMA FlightInitially ==
  ASSUME Init
  PROVE  FlightInv
  <1>1. \A a, b \in Process : wire[a][b] = <<>>
    BY DEF Init
  <1>2. wire \in Wires
    <2>1. <<>> \in Seq(Regular)
      OBVIOUS
    <2> QED
      BY <2>1 DEF Init, Wires
  <1>3. SumFlight = 0
    BY <1>1, <1>2, EmptyWires DEF SumFlight
  <1>4. SumLive = 0
    <2> DEFINE f == [x \in Process |-> Live(x)]
    <2>1. f \in [Process -> Int] /\ \A x \in Process : f[x] = 0
      BY DEF Init, Live
    <2>2. SumLive = SumFunction(f)
      BY DEF SumLive
    <2> HIDE DEF f
    <2> QED
      BY <2>1, <2>2, PairsFinite, SumOfZeros
  <1> QED
    BY <1>3, <1>4, RootIsProcess DEF Init, FlightInv

(* While no process has reset its counters, what was sent and has not been *)
(* processed is what is in flight: each message is counted exactly once at *)
(* either end, in the tree of a broadcast too.                             *)
THEOREM CountsAreExact == Spec => []CountsBalance
  <1>1. Init => TreeInv /\ FlightInv
    BY SweepInitially, FlightInitially DEF TreeInv
  <1>2. TreeInv /\ FlightInv /\ TreeInv' /\ [Next]_vars => FlightInv'
    BY FlightStep DEF TreeInv
  <1>3. FlightInv => CountsBalance
    BY DEF FlightInv, CountsBalance, SumLive, Live, SumFlight, Lengths
  <1> QED
    BY <1>1, <1>2, <1>3, TreeInvariant, PTL DEF Spec

-----------------------------------------------------------------------------
(* The numbers of the sweeps *)

LEMMA StaysPremature ==
  ASSUME [Next]_vars, premature
  PROVE  premature'
  <1>1. CASE UNCHANGED vars
    BY <1>1 DEF vars
  <1>2. ASSUME NEW p \in Process, NEW q \in Process,
               Send(p, q) \/ Broadcast(p) \/ Receive(p, q) \/ BecomeQuiescent(p)
        PROVE  premature'
    BY <1>2, AppSteps
  <1>3. ASSUME NEW p \in Process, NEW k \in Arrivals(p), Check(p, k)
        PROVE  premature'
    BY <1>3 DEF Check, CheckInVain, vars, CheckTerminated, CheckLeaf, CheckDown,
                CheckIncomplete, CheckInner, CheckStart, CheckRoot
  <1>4. ASSUME NEW p \in Process, Reset(p) PROVE premature'
    BY <1>4 DEF Reset
  <1>5. CASE Barrier
    BY <1>5 DEF Barrier
  <1> QED
    BY <1>1, <1>2, <1>3, <1>4, <1>5 DEF Next

(* The root decides once: what has ended begins again with the barrier.    *)
LEMMA StaysEnded ==
  ASSUME TypeInv, [Next]_vars, phase[Root] # "running"
  PROVE  Barrier \/ phase'[Root] # "running"
  <1>1. CASE UNCHANGED vars
    BY <1>1 DEF vars, treeVars
  <1>2. ASSUME NEW p \in Process, NEW q \in Process,
               Send(p, q) \/ Broadcast(p) \/ Receive(p, q) \/ BecomeQuiescent(p)
        PROVE  phase'[Root] # "running"
    BY <1>2, AppSteps DEF treeVars
  <1>3. ASSUME NEW p \in Process, NEW k \in Arrivals(p), Check(p, k)
        PROVE  phase'[Root] # "running"
    <2>1. CASE UNCHANGED phase
      BY <2>1
    <2>2. CASE phase' = [phase EXCEPT ![p] = "waiting"]
      BY <2>2, RootIsProcess DEF TypeInv
    <2>3. UNCHANGED phase \/ phase' = [phase EXCEPT ![p] = "waiting"]
      BY <1>3 DEF Check, CheckInVain, vars, treeVars, CheckTerminated, CheckLeaf, CheckDown,
                  CheckIncomplete, CheckInner, CheckStart, CheckRoot
    <2> QED
      BY <2>1, <2>2, <2>3
  <1>4. ASSUME NEW p \in Process, Reset(p) PROVE phase'[Root] # "running"
    BY <1>4, RootIsProcess DEF Reset, TypeInv
  <1> QED
    BY <1>1, <1>2, <1>3, <1>4 DEF Next

(* A message carries the number of its sender; a process keeps the largest *)
(* number it has received.                                                 *)
LEMMA MessageNumbers ==
  ASSUME TypeInv, NEW p \in Process, NEW q \in Process,
         Send(p, q) \/ Broadcast(p) \/ Receive(p, q)
  PROVE  /\ Numbers(wire') \subseteq Numbers(wire) \cup {local_sweep_number[p]}
         /\ \A x \in Process :
              \/ last_regular_message_sweep_number'[x] = last_regular_message_sweep_number[x]
              \/ last_regular_message_sweep_number'[x] \in Numbers(wire)
  <1>1. wire \in Wires
    BY DEF TypeInv, Wires
  <1>2. CASE Send(p, q)
    <2>1. [sweep |-> local_sweep_number[p], broadcast |-> FALSE] \in Regular
      BY DEF TypeInv, Regular
    <2> QED
      BY <1>1, <1>2, <2>1, NumbersHanded DEF Send
  <1>3. CASE Broadcast(p)
    <2>1. [sweep |-> local_sweep_number[p], broadcast |-> TRUE] \in Regular
      BY DEF TypeInv, Regular
    <2> QED
      BY <1>1, <1>3, <2>1, NumbersHanded DEF Broadcast
  <1>4. CASE Receive(p, q)
    <2> DEFINE m == Head(wire[q][p])
               to == IF m.broadcast THEN Children(p) ELSE {}
               rest == [wire EXCEPT ![q][p] = Tail(@)]
    <2>1. /\ wire[q][p] # <<>> /\ wire' = Hand(p, to, m, rest)
          /\ last_regular_message_sweep_number' =
               [last_regular_message_sweep_number EXCEPT ![p] = Max({@, m.sweep})]
      BY <1>4 DEF Receive
    <2>2. m \in Regular /\ rest \in Wires
      BY <1>1, <2>1, Taken1
    <2>3. Numbers(rest) \subseteq Numbers(wire) /\ m.sweep \in Numbers(wire)
      BY <1>1, <2>1, NumbersTaken
    <2>4. last_regular_message_sweep_number[p] \in Sweep /\ m.sweep \in Sweep
      BY <2>3 DEF TypeInv, Numbers
    <2> HIDE DEF m, to, rest
    <2>5. Numbers(wire') \subseteq Numbers(wire)
      BY <2>1, <2>2, <2>3, NumbersHanded
    <2>6. Max({last_regular_message_sweep_number[p], m.sweep})
            \in {last_regular_message_sweep_number[p], m.sweep}
      <3>1. Max({last_regular_message_sweep_number[p], m.sweep})
              = IF last_regular_message_sweep_number[p] < m.sweep THEN m.sweep
                ELSE last_regular_message_sweep_number[p]
        BY <2>4, MaxOfTwo
      <3> QED
        BY <3>1
    <2> QED
      BY <2>1, <2>3, <2>5, <2>6 DEF TypeInv
  <1> QED
    BY <1>2, <1>3, <1>4

(* When a sweep starts, all the numbers are smaller.                       *)
LEMMA NumbersStart ==
  ASSUME TypeInv, TypeInv', UNCHANGED appVars, root_down_sweep' = root_down_sweep + 1, reported' = {},
         \A s \in Numbers(wire) : s <= root_down_sweep,
         \A p \in Process : NumbersAt(p),
         \A p \in Process : \/ local_sweep_number'[p] = local_sweep_number[p]
                            \/ local_sweep_number'[p] = root_down_sweep /\ ~IsLeaf(p)
  PROVE  /\ \A s \in Numbers(wire') : s < root_down_sweep'
         /\ \A p \in Process : NumbersAt(p)'
  <1>1. root_down_sweep \in Int /\ \A s \in Numbers(wire) : s \in Int
    BY BoundsAreNumbers DEF TypeInv, Sweep, Numbers
  <1>2. \A s \in Numbers(wire') : s < root_down_sweep'
    BY <1>1 DEF appVars
  <1>3. ASSUME NEW p \in Process PROVE NumbersAt(p)'
    <2>1. /\ last_regular_message_sweep_number[p] \in Int
          /\ local_sweep_number[p] \in Int
          /\ last_regular_message_sweep_number'[p] = last_regular_message_sweep_number[p]
      BY BoundsAreNumbers DEF TypeInv, Sweep, appVars
    <2>2. NumbersAt(p)
      OBVIOUS
    <2> QED
      BY <1>1, <2>1, <2>2 DEF NumbersAt
  <1> QED
    BY <1>2, <1>3

LEMMA RootHasChildren == ~IsLeaf(Root)
  BY SeveralProcesses, NAssumption DEF IsLeaf, Children, LeftChild, RightChild, Root, None

LEMMA StartNumbers ==
  ASSUME TypeInv, TypeInv', NumbersInv, ~premature, CheckStart
  PROVE  /\ \A s \in Numbers(wire') : s < root_down_sweep'
         /\ \A p \in Process : NumbersAt(p)'
  <1>1. phase[Root] = "running"
    BY DEF CheckStart, Checks
  <1>2. /\ \A s \in Numbers(wire) : s <= root_down_sweep
        /\ \A p \in Process : NumbersAt(p)
    BY <1>1 DEF NumbersInv
  <1>3. root_down_sweep' = root_down_sweep + 1 /\ reported' = {}
    <2>1. root_down_sweep \in Int /\ local_sweep_number[Root] \in Int
      BY RootIsProcess, BoundsAreNumbers DEF TypeInv, Sweep
    <2>2. local_sweep_number[Root] <= root_down_sweep
      BY <1>2, RootIsProcess DEF NumbersAt
    <2> QED
      BY <2>1, <2>2 DEF CheckStart, StartSweep
  <1>4. UNCHANGED appVars /\ UNCHANGED local_sweep_number
    BY DEF CheckStart
  <1> QED
    BY <1>2, <1>3, <1>4, NumbersStart

LEMMA NextNumbers ==
  ASSUME TypeInv, TypeInv', SweepInv, NumbersInv, ~premature, NEW k \in Arrivals(Root),
         CheckRoot(k), phase'[Root] = "running"
  PROVE  /\ \A s \in Numbers(wire') : s < root_down_sweep'
         /\ \A p \in Process : NumbersAt(p)'
         /\ reported' = {} /\ root_down_sweep' = root_down_sweep + 1
  <1>1. PICK st \in [Process -> Status] : Sweeping(st)
    BY DEF SweepInv
  <1>2. First(ReceiveAll(Root, k)) = root_down_sweep
    BY <1>1, RootIsProcess, CompleteGathers DEF CheckRoot
  <1>3. phase[Root] = "running" /\ UNCHANGED appVars
    BY DEF CheckRoot, Checks
  <1>4. /\ \A s \in Numbers(wire) : s <= root_down_sweep
        /\ \A p \in Process : NumbersAt(p)
    BY <1>3 DEF NumbersInv
  <1>5. root_down_sweep' = root_down_sweep + 1 /\ reported' = {}
    <2>1. phase' # [phase EXCEPT ![Root] = "waiting"]
      BY RootIsProcess DEF TypeInv
    <2> QED
      BY <1>2, <2>1 DEF CheckRoot, StartSweep
  <1>6. local_sweep_number' = [local_sweep_number EXCEPT ![Root] = root_down_sweep]
    BY <1>2 DEF CheckRoot
  <1>7. \A p \in Process : \/ local_sweep_number'[p] = local_sweep_number[p]
                           \/ local_sweep_number'[p] = root_down_sweep /\ ~IsLeaf(p)
    BY <1>6, RootHasChildren DEF TypeInv
  <1> QED
    BY <1>3, <1>4, <1>5, <1>7, NumbersStart

LEMMA NumbersStep ==
  ASSUME TypeInv, TypeInv', SweepInv, TerminationInv, ResetInv, FlightInv, NumbersInv, [Next]_vars
  PROVE  NumbersInv'
  <1>1. SUFFICES ASSUME ~premature', phase'[Root] = "running", ~premature
                 PROVE  /\ \A s \in Numbers(wire') : s <= root_down_sweep'
                        /\ \A p \in Process : NumbersAt(p)'
    BY StaysPremature DEF NumbersInv
  <1>2. CASE Barrier
    <2>1. Quiet
      BY <1>1, <1>2, RootIsProcess DEF Barrier, FlightInv
    <2>2. Numbers(wire) = {} /\ wire' = wire
      BY <1>2, <2>1, QuietWires DEF Barrier
    <2>3. root_down_sweep' = 0 /\ reported' = {}
      BY <1>2, RootIsProcess DEF Barrier, ResetInv
    <2>4. \A p \in Process : last_regular_message_sweep_number'[p] = 0 /\ local_sweep_number'[p] = 0
      BY <1>2 DEF Barrier, ResetInv
    <2> QED
      BY <2>2, <2>3, <2>4 DEF NumbersAt
  <1>3. SUFFICES ASSUME ~Barrier, phase[Root] = "running"
                 PROVE  /\ \A s \in Numbers(wire') : s <= root_down_sweep'
                        /\ \A p \in Process : NumbersAt(p)'
    BY <1>1, <1>2, StaysEnded
  <1>4. /\ \A s \in Numbers(wire) : s <= root_down_sweep
        /\ \A p \in Process : NumbersAt(p)
    BY <1>1, <1>3 DEF NumbersInv
  <1>5. ASSUME UNCHANGED <<wire, root_down_sweep, local_sweep_number,
                           last_regular_message_sweep_number>>,
               \A p \in Process : ~IsLeaf(p) => (p \in reported' <=> p \in reported),
               \A p \in Process : p \in reported => p \in reported'
        PROVE  /\ \A s \in Numbers(wire') : s <= root_down_sweep'
               /\ \A p \in Process : NumbersAt(p)'
    <2>1. ASSUME NEW p \in Process PROVE NumbersAt(p)'
      BY <1>4, <1>5 DEF NumbersAt
    <2> QED
      BY <1>4, <1>5, <2>1
  <1>6. CASE UNCHANGED vars
    BY <1>5, <1>6 DEF vars, appVars, treeVars
  <1>7. ASSUME NEW p \in Process, NEW q \in Process, Send(p, q) \/ Broadcast(p) \/ Receive(p, q)
        PROVE  /\ \A s \in Numbers(wire') : s <= root_down_sweep'
               /\ \A x \in Process : NumbersAt(x)'
    <2>1. UNCHANGED <<root_down_sweep, local_sweep_number, reported>>
      BY <1>7, AppSteps DEF treeVars
    <2>2. /\ Numbers(wire') \subseteq Numbers(wire) \cup {local_sweep_number[p]}
          /\ \A x \in Process :
               \/ last_regular_message_sweep_number'[x] = last_regular_message_sweep_number[x]
               \/ last_regular_message_sweep_number'[x] \in Numbers(wire)
      BY <1>7, MessageNumbers
    <2>3. local_sweep_number[p] <= root_down_sweep
      BY <1>4 DEF NumbersAt
    <2>4. ASSUME NEW x \in Process PROVE NumbersAt(x)'
      <3>1. last_regular_message_sweep_number'[x] <= root_down_sweep
        BY <1>4, <2>2 DEF NumbersAt
      <3> QED
        BY <1>4, <2>1, <3>1 DEF NumbersAt
    <2> QED
      BY <1>4, <2>1, <2>2, <2>3, <2>4
  <1>8. ASSUME NEW p \in Process, BecomeQuiescent(p)
        PROVE  /\ \A s \in Numbers(wire') : s <= root_down_sweep'
               /\ \A x \in Process : NumbersAt(x)'
    BY <1>5, <1>8 DEF BecomeQuiescent, treeVars
  <1>9. ASSUME NEW p \in Process, NEW k \in Arrivals(p), Check(p, k)
        PROVE  /\ \A s \in Numbers(wire') : s <= root_down_sweep'
               /\ \A x \in Process : NumbersAt(x)'
    <2>1. CASE CheckInVain(p)
      BY <1>6, <2>1 DEF CheckInVain
    <2>2. CASE CheckTerminated(p)
      BY <1>5, <2>2 DEF CheckTerminated, appVars
    <2>3. CASE CheckLeaf(p)
      BY <1>5, <2>3 DEF CheckLeaf, appVars
    <2>4. CASE CheckDown(p)
      BY <1>5, <2>4 DEF CheckDown, appVars
    <2>5. CASE CheckIncomplete(p, k)
      BY <1>5, <2>5 DEF CheckIncomplete, appVars
    <2>6. CASE CheckInner(p, k)
      <3>1. PICK st \in [Process -> Status] : Sweeping(st)
        BY DEF SweepInv
      <3>2. First(ReceiveAll(p, k)) = root_down_sweep /\ Taken(p, k) # {}
        BY <2>6, <3>1, CompleteGathers DEF CheckInner
      <3>3. ~IsLeaf(p)
        BY <3>2 DEF Taken, IsLeaf
      <3>4. /\ local_sweep_number' = [local_sweep_number EXCEPT ![p] = root_down_sweep]
            /\ reported' = reported \cup {p}
            /\ UNCHANGED <<wire, root_down_sweep, last_regular_message_sweep_number>>
        BY <2>6, <3>2 DEF CheckInner, appVars
      <3>5. root_down_sweep <= root_down_sweep
        BY BoundsAreNumbers DEF TypeInv, Sweep
      <3>6. ASSUME NEW x \in Process PROVE NumbersAt(x)'
        <4>1. CASE x = p
          <5>1. local_sweep_number'[p] = root_down_sweep /\ p \in reported'
            BY <3>4 DEF TypeInv
          <5> QED
            BY <1>4, <3>3, <3>4, <3>5, <4>1, <5>1 DEF NumbersAt
        <4>2. CASE x # p
          <5>1. local_sweep_number'[x] = local_sweep_number[x] /\ (x \in reported' <=> x \in reported)
            BY <3>4, <4>2 DEF TypeInv
          <5> QED
            BY <1>4, <3>4, <5>1 DEF NumbersAt
        <4> QED
          BY <4>1, <4>2
      <3> QED
        BY <1>4, <3>4, <3>6
    <2>7. CASE CheckStart
      <3>1. /\ \A s \in Numbers(wire') : s < root_down_sweep'
            /\ \A x \in Process : NumbersAt(x)'
        BY <1>1, <2>7, StartNumbers
      <3>2. root_down_sweep' \in Int /\ \A s \in Numbers(wire') : s \in Int
        BY BoundsAreNumbers DEF TypeInv, Sweep, Numbers
      <3> QED
        BY <3>1, <3>2
    <2>8. CASE p = Root /\ CheckRoot(k)
      <3>1. /\ \A s \in Numbers(wire') : s < root_down_sweep'
            /\ \A x \in Process : NumbersAt(x)'
        BY <1>1, <1>9, <2>8, NextNumbers
      <3>2. root_down_sweep' \in Int /\ \A s \in Numbers(wire') : s \in Int
        BY BoundsAreNumbers DEF TypeInv, Sweep, Numbers
      <3> QED
        BY <3>1, <3>2
    <2> QED
      BY <1>9, <2>1, <2>2, <2>3, <2>4, <2>5, <2>6, <2>7, <2>8 DEF Check
  <1>10. ASSUME NEW p \in Process, Reset(p)
         PROVE  /\ \A s \in Numbers(wire') : s <= root_down_sweep'
                /\ \A x \in Process : NumbersAt(x)'
    BY <1>3, <1>10, TerminatesFromTheRoot DEF Reset
  <1> QED
    BY <1>3, <1>6, <1>7, <1>8, <1>9, <1>10 DEF Next

-----------------------------------------------------------------------------
(* What the sweep carries *)

CarriedOK ==
  \A q \in Process :
    Live(q) \in Int /\ UpCount(q) \in Int /\ KeptCount(q) \in Int /\ Carried(q) \in Int

LEMMA CarriedTyped == TypeInv /\ SweepInv => CarriedOK
  <1> SUFFICES ASSUME TypeInv, SweepInv, NEW q \in Process
               PROVE  /\ Live(q) \in Int /\ UpCount(q) \in Int
                      /\ KeptCount(q) \in Int /\ Carried(q) \in Int
    BY DEF CarriedOK
  <1>1. PICK st \in [Process -> Status] : Sweeping(st)
    BY DEF SweepInv
  <1>2. Live(q) \in Int
    <2>1. local_sends[q] \in Nat /\ local_processed[q] \in Nat
      BY DEF TypeInv
    <2> QED
      BY <2>1 DEF Live
  <1>3. UpCount(q) \in Int
    BY <1>1, OneMessageUp DEF UpCount
  <1>4. KeptCount(q) \in Int
    <2>1. Stands(q, st) /\ st[q] \in Status
      BY <1>1 DEF Sweeping
    <2>2. NothingKept(q) \/ accum_data[q][root_down_sweep].count \in Int
      BY <2>1 DEF Stands, Status, Waits
    <2> QED
      BY <2>2 DEF KeptCount
  <1> QED
    BY <1>2, <1>3, <1>4 DEF Carried

(* At the start of a sweep nothing is carried, and nothing waits.          *)
FreshSweep ==
  (phase[Root] = "running" /\ reported = {}) =>
    \A q \in Process : up[q] = <<>> /\ NothingKept(q)

LEMMA SweepIsFresh == SweepInv => FreshSweep
  <1> SUFFICES ASSUME SweepInv, phase[Root] = "running", reported = {}, NEW q \in Process
               PROVE  up[q] = <<>> /\ NothingKept(q)
    BY DEF FreshSweep
  <1>1. PICK st \in [Process -> Status] : Sweeping(st)
    BY DEF SweepInv
  <1>2. st[Root] # "used"
    BY <1>1 DEF Sweeping, RootStands
  <1>3. ASSUME NEW x \in Process PROVE st[x] \notin {"up", "used"}
    <2>1. Stands(x, st)
      BY <1>1 DEF Sweeping
    <2> QED
      BY <1>2, <2>1 DEF Stands
  <1>4. Stands(q, st) /\ st[q] \in Status \ {"up", "used"}
    BY <1>1, <1>3 DEF Sweeping
  <1>5. Waits(q, st) => NothingKept(q)
    BY <1>3, ChildrenAreProcesses DEF Waits
  <1> QED
    BY <1>4, <1>5 DEF Stands, Status, NothingAt

(* The same carried by everybody: the same in all.                         *)
LEMMA CarriedSame ==
  ASSUME \A q \in Process : Carried(q)' = Carried(q)
  PROVE  SumCarried' = SumCarried
  <1>1. [q \in Process |-> Carried(q)'] = [q \in Process |-> Carried(q)]
    OBVIOUS
  <1>2. SumCarried' = SumFunction([q \in Process |-> Carried(q)'])
    BY DEF SumCarried
  <1> QED
    BY <1>1, <1>2 DEF SumCarried

LEMMA CarriedChanges ==
  ASSUME CarriedOK, CarriedOK', NEW p \in Process, NEW n \in Int,
         Carried(p)' = Carried(p) + n, \A x \in Process \ {p} : Carried(x)' = Carried(x)
  PROVE  SumCarried \in Int /\ SumCarried' = SumCarried + n
  <1> DEFINE f == [x \in Process |-> Carried(x)]
             h == [x \in Process |-> Carried(x)']
  <1>1. f \in [Process -> Int] /\ h \in [Process -> Int]
    BY DEF CarriedOK
  <1>2. SumCarried = SumFunction(f) /\ SumCarried' = SumFunction(h)
    BY DEF SumCarried
  <1>3. h[p] = f[p] + n /\ \A x \in Process \ {p} : h[x] = f[x]
    OBVIOUS
  <1>4. f[p] \in Int
    BY <1>1
  <1> HIDE DEF f, h
  <1>5. SumFunction(f) \in Int /\ SumFunction(h) = SumFunction(f) + h[p] - f[p]
    BY <1>1, <1>3, SumOfOneMore
  <1> QED
    BY <1>2, <1>3, <1>4, <1>5

LEMMA SumCarriedType ==
  ASSUME CarriedOK
  PROVE  SumCarried \in Int
  <1>1. [q \in Process |-> Carried(q)] \in [Process -> Int]
    BY DEF CarriedOK
  <1> QED
    BY <1>1, PairsFinite, SumIsAnInteger DEF SumCarried

(* A sum does not change when p takes over what another has.               *)
LEMMA SumMoves ==
  ASSUME NEW f \in [Process -> Int], NEW h \in [Process -> Int],
         NEW p \in Process, NEW c \in Process, c # p,
         h[p] = f[p] + f[c], h[c] = 0,
         \A x \in Process \ {p, c} : h[x] = f[x]
  PROVE  SumFunction(h) = SumFunction(f)
  <1> DEFINE g == [f EXCEPT ![c] = 0]
  <1>1. /\ g \in [Process -> Int] /\ g[c] = 0 /\ g[p] = f[p]
        /\ \A x \in Process \ {c} : g[x] = f[x]
    OBVIOUS
  <1>2. /\ f[p] \in Int /\ f[c] \in Int
        /\ \A x \in Process \ {p} : h[x] = g[x]
    BY <1>1
  <1> HIDE DEF g
  <1>3. SumFunction(f) \in Int /\ SumFunction(g) = SumFunction(f) + g[c] - f[c]
    BY <1>1, SumOfOneMore
  <1>4. SumFunction(g) \in Int /\ SumFunction(h) = SumFunction(g) + h[p] - g[p]
    BY <1>1, <1>2, SumOfOneMore
  <1> QED
    BY <1>1, <1>2, <1>3, <1>4

(* What p gathers from its children it carries on for them.                *)
LEMMA GatheredCounts ==
  ASSUME TypeInv, SweepInv, NEW st \in [Process -> Status], Sweeping(st),
         NEW p \in Process, NEW k \in Arrivals(p), Arrived(p, k), Taken(p, k) # {},
         NEW x, Gathers(p, k, x), x # Int64Max
  PROVE  /\ \A c \in Taken(p, k) : UpCount(c) # Int64Max
         /\ KeptCount(p) # Int64Max
         /\ \A h \in [Process -> Int] :
              /\ h[p] = Live(p) + x
              /\ \A c \in Taken(p, k) : h[c] = 0
              /\ \A q \in Process \ ({p} \cup Taken(p, k)) : h[q] = Carried(q)
              => SumFunction(h) = SumCarried
  <1>1. CarriedOK
    BY CarriedTyped
  <1>2. p \notin reported /\ up[p] = <<>>
    BY TakesFromBelow DEF NothingAt
  <1>3. Carried(p) = Live(p) + KeptCount(p)
    BY <1>1, <1>2 DEF Carried, UpCount, CarriedOK
  <1>4. ASSUME NEW c \in Taken(p, k)
        PROVE  /\ c \in Process /\ c # p /\ up[c] # <<>>
               /\ UpCount(c) = up[c][1].count /\ Carried(c) = UpCount(c)
               /\ UpCount(c) \in Int
    <2>1. c \in Process \ {p, Root}
      BY ChildrenAreProcesses DEF Taken
    <2>2. st[c] = "up" /\ Stands(c, st)
      BY <2>1, Arrives DEF Sweeping
    <2>3. up[c] # <<>>
      BY <2>1, <2>2, OneMessageUp
    <2>4. UpCount(c) = up[c][1].count /\ UpCount(c) \in Int
      BY <1>1, <2>1, <2>3 DEF UpCount, CarriedOK
    <2>5. c \in reported /\ NothingKept(c)
      BY <2>2 DEF Stands
    <2>6. Carried(c) = UpCount(c)
      BY <2>4, <2>5 DEF Carried, KeptCount
    <2> QED
      BY <2>1, <2>3, <2>4, <2>6
  <1> DEFINE f == [q \in Process |-> Carried(q)]
  <1>5. f \in [Process -> Int] /\ SumCarried = SumFunction(f) /\ \A q \in Process : f[q] = Carried(q)
    BY <1>1 DEF CarriedOK, SumCarried
  <1> HIDE DEF f
  <1>6. Live(p) \in Int /\ KeptCount(p) \in Int
    BY <1>1 DEF CarriedOK
  <1>7. CASE \E c \in Children(p) :
               /\ Taken(p, k) = {c}
               /\ x = safe_add(KeptCount(p), up[c][1].count)
    <2>1. PICK c \in Children(p) : Taken(p, k) = {c} /\ x = safe_add(KeptCount(p), up[c][1].count)
      BY <1>7
    <2>2. /\ c \in Process /\ c # p /\ UpCount(c) \in Int /\ Carried(c) = UpCount(c)
          /\ x = safe_add(KeptCount(p), UpCount(c))
      BY <1>4, <2>1
    <2>3. UpCount(c) # Int64Max /\ KeptCount(p) # Int64Max /\ x = KeptCount(p) + UpCount(c)
      BY <1>6, <2>2, SafeAddType
    <2>4. ASSUME NEW h \in [Process -> Int],
                 h[p] = Live(p) + x, h[c] = 0,
                 \A q \in Process \ {p, c} : h[q] = Carried(q)
          PROVE  SumFunction(h) = SumCarried
      <3>1. h[p] = f[p] + f[c]
        BY <1>3, <1>5, <1>6, <2>2, <2>3, <2>4
      <3>2. \A q \in Process \ {p, c} : h[q] = f[q]
        BY <1>5, <2>4
      <3> QED
        BY <1>5, <2>2, <2>4, <3>1, <3>2, SumMoves
    <2> QED
      BY <2>1, <2>3, <2>4
  <1>8. CASE \E c, d \in Children(p) :
               /\ c # d /\ Taken(p, k) = {c, d} /\ Children(p) = {c, d}
               /\ NothingKept(p)
               /\ x = safe_add(safe_add(KeptCount(p), up[c][1].count), up[d][1].count)
    <2>1. PICK c, d \in Children(p) :
               /\ c # d /\ Taken(p, k) = {c, d}
               /\ x = safe_add(safe_add(KeptCount(p), up[c][1].count), up[d][1].count)
      BY <1>8
    <2>2. /\ c \in Process /\ c # p /\ UpCount(c) \in Int /\ Carried(c) = UpCount(c)
          /\ d \in Process /\ d # p /\ UpCount(d) \in Int /\ Carried(d) = UpCount(d)
          /\ x = safe_add(safe_add(KeptCount(p), UpCount(c)), UpCount(d))
      BY <1>4, <2>1
    <2>3. /\ UpCount(d) # Int64Max /\ safe_add(KeptCount(p), UpCount(c)) # Int64Max
          /\ x = safe_add(KeptCount(p), UpCount(c)) + UpCount(d)
      BY <1>6, <2>2, SafeAddType
    <2>4. /\ UpCount(c) # Int64Max /\ KeptCount(p) # Int64Max
          /\ x = (KeptCount(p) + UpCount(c)) + UpCount(d)
      BY <1>6, <2>2, <2>3, SafeAddType
    <2>5. ASSUME NEW h \in [Process -> Int],
                 h[p] = Live(p) + x, h[c] = 0, h[d] = 0,
                 \A q \in Process \ {p, c, d} : h[q] = Carried(q)
          PROVE  SumFunction(h) = SumCarried
      <3> DEFINE g == [f EXCEPT ![p] = f[p] + f[c], ![c] = 0]
      <3>1. f[p] \in Int /\ f[c] \in Int /\ f[d] \in Int
        BY <1>5, <2>2
      <3>2. /\ g \in [Process -> Int] /\ g[p] = f[p] + f[c] /\ g[c] = 0 /\ g[d] = f[d]
            /\ \A q \in Process \ {p, c} : g[q] = f[q]
        BY <1>5, <2>1, <2>2, <3>1
      <3> HIDE DEF g
      <3>3. SumFunction(g) = SumFunction(f)
        BY <1>5, <2>2, <3>2, SumMoves
      <3>4. h[p] = g[p] + g[d]
        BY <1>3, <1>5, <1>6, <2>2, <2>4, <2>5, <3>2
      <3>5. \A q \in Process \ {p, d} : h[q] = g[q]
        BY <1>5, <2>5, <3>2
      <3>6. SumFunction(h) = SumFunction(g)
        BY <2>2, <2>5, <3>2, <3>4, <3>5, SumMoves
      <3> QED
        BY <1>5, <3>3, <3>6
    <2> QED
      BY <2>1, <2>3, <2>4, <2>5
  <1> QED
    BY <1>7, <1>8 DEF Gathers

LEMMA MaxIsPositive == Int64Max > 0 /\ Int64Max \in Int
  <1>1. MaxSent * N \in Nat
    <2>1. \A a, b \in Nat : a * b \in Nat
      OBVIOUS
    <2> QED
      BY <2>1, BoundsAssumption, NAssumption
  <1> QED
    BY <1>1, BoundsAssumption

(* A step of the sweep: the same is carried, nobody begins to work.        *)
LEMMA CoverStays ==
  ASSUME CountsCover, SumCarried' = SumCarried, UNCHANGED <<wire, root_down_sweep>>,
         \A p \in reported' : active'[p] => p \in reported /\ active[p]
  PROVE  CountsCover'
  <1>1. SumOld' = SumOld
    BY DEF SumOld
  <1> QED
    BY <1>1 DEF CountsCover

(* What a leaf's report changes.                                           *)
LEMMA LeafMoves ==
  ASSUME TypeInv, SweepInv, NEW p \in Process, CheckLeaf(p)
  PROVE  /\ p \notin reported /\ UpCount(p) = 0 /\ UpCount(p)' = Live(p) /\ p \in reported'
         /\ IsLeaf(p) /\ UNCHANGED <<accum_data, root_down_sweep>>
         /\ \A q \in Process : KeptCount(q)' = KeptCount(q)
         /\ \A q \in Process \ {p} : UpCount(q)' = UpCount(q) /\ (q \in reported' <=> q \in reported)
  <1>1. PICK st \in [Process -> Status] : Sweeping(st)
    BY DEF SweepInv
  <1>2. down[p] = <<root_down_sweep>> /\ up[p] = <<>> /\ p \notin reported /\ IsLeaf(p)
    BY <1>1, OneMessageDown DEF CheckLeaf
  <1>3. /\ up'[p][1].count = Live(p) /\ up'[p] # <<>>
        /\ \A q \in Process \ {p} : up'[q] = up[q]
        /\ reported' = reported \cup {p} /\ UNCHANGED <<accum_data, root_down_sweep>>
    <2>1. up' = [up EXCEPT ![p] = Append(@, [sweep |-> Head(down[p]), count |-> Live(p)])]
      BY DEF CheckLeaf, Live
    <2>2. up'[p] = <<[sweep |-> Head(down[p]), count |-> Live(p)]>>
      BY <1>2, <2>1 DEF TypeInv
    <2>3. \A q \in Process \ {p} : up'[q] = up[q]
      BY <2>1 DEF TypeInv
    <2>4. up'[p][1].count = Live(p) /\ up'[p] # <<>>
      BY <2>2
    <2> QED
      BY <2>3, <2>4 DEF CheckLeaf
  <1> QED
    BY <1>2, <1>3 DEF UpCount, KeptCount, NothingKept

(* What changes when p takes the counts of children, which come to x.      *)
GatherMove(p, k, st, x) ==
  /\ Sweeping(st) /\ Arrived(p, k) /\ Taken(p, k) # {} /\ Gathers(p, k, x)
  /\ p \notin reported
  /\ \A q \in Process \ {p} : q \in reported' <=> q \in reported
  /\ \A c \in Taken(p, k) :
       c \in Process \ {p} /\ c \in reported /\ UpCount(c)' = 0 /\ KeptCount(c)' = 0
  /\ \A q \in Process \ ({p} \cup Taken(p, k)) :
       UpCount(q)' = UpCount(q) /\ KeptCount(q)' = KeptCount(q)
  /\ \/ p \notin reported' /\ UpCount(p)' = 0 /\ KeptCount(p)' = x
     \/ /\ p \in reported' /\ KeptCount(p)' = 0
        /\ UpCount(p)' = safe_add(LocalCount(p), x)
     \/ CheckRoot(k) /\ p = Root /\ UpCount(p)' = 0 /\ KeptCount(p)' = 0

LEMMA MovesUp ==
  ASSUME TypeInv, NEW st \in [Process -> Status], Sweeping(st),
         NEW p \in Process, NEW k \in Arrivals(p), Arrived(p, k), Taken(p, k) # {},
         root_down_sweep' = root_down_sweep,
         \A q \in Process \ {p} : q \in reported' <=> q \in reported,
         \A q \in Process \ {p} : accum_data'[q] = accum_data[q],
         \A c \in Taken(p, k) : up'[c] = <<>>,
         \A q \in Process \ ({p} \cup Taken(p, k)) : up'[q] = up[q]
  PROVE  /\ p \notin reported
         /\ \A c \in Taken(p, k) :
              c \in Process \ {p} /\ c \in reported /\ UpCount(c)' = 0 /\ KeptCount(c)' = 0
         /\ \A q \in Process \ ({p} \cup Taken(p, k)) :
              UpCount(q)' = UpCount(q) /\ KeptCount(q)' = KeptCount(q)
  <1>1. p \notin reported
    BY TakesFromBelow
  <1>2. ASSUME NEW c \in Taken(p, k)
        PROVE  c \in Process \ {p} /\ c \in reported /\ UpCount(c)' = 0 /\ KeptCount(c)' = 0
    <2>1. c \in Process \ {p} /\ st[c] = "up" /\ Stands(c, st)
      BY Arrives, ChildrenAreProcesses DEF Sweeping, Taken
    <2>2. c \in reported /\ NothingKept(c)
      BY <2>1 DEF Stands
    <2> QED
      BY <2>1, <2>2 DEF UpCount, KeptCount, NothingKept
  <1>3. ASSUME NEW q \in Process \ ({p} \cup Taken(p, k))
        PROVE  UpCount(q)' = UpCount(q) /\ KeptCount(q)' = KeptCount(q)
    BY DEF UpCount, KeptCount, NothingKept
  <1> QED
    BY <1>1, <1>2, <1>3

LEMMA GatherMoves ==
  ASSUME TypeInv, SweepInv, NEW p \in Process, NEW k \in Arrivals(p),
         \/ CheckIncomplete(p, k) \/ CheckInner(p, k)
         \/ p = Root /\ CheckRoot(k) /\ UNCHANGED <<reported, root_down_sweep>>
  PROVE  \E st \in [Process -> Status] : \E x \in Int : GatherMove(p, k, st, x)
  <1>1. PICK st \in [Process -> Status] : Sweeping(st)
    BY DEF SweepInv
  <1>2. Taken(p, k) \subseteq Process \ {p} /\ Children(p) \subseteq Process \ {p}
    BY ChildrenAreProcesses DEF Taken
  <1>3. CASE CheckIncomplete(p, k)
    <2>1. Arrived(p, k) /\ Taken(p, k) # {} /\ ~Complete(p, ReceiveAll(p, k))
      BY <1>3 DEF CheckIncomplete, Taken
    <2>2. PICK x \in Int : Gathers(p, k, x) /\ ReceiveAll(p, k) = Entry(root_down_sweep, x, 1)
      BY <1>1, <2>1, Gathered
    <2>3. /\ up' = [c \in Process |-> IF c \in Taken(p, k) THEN <<>> ELSE up[c]]
          /\ accum_data' = [accum_data EXCEPT ![p] = Entry(root_down_sweep, x, 1)]
          /\ UNCHANGED <<reported, root_down_sweep>>
      BY <1>1, <1>3, <2>1, <2>2, Arrives DEF CheckIncomplete
    <2>4. accum_data'[p] = Entry(root_down_sweep, x, 1)
          /\ \A q \in Process \ {p} : accum_data'[q] = accum_data[q]
      BY <2>3 DEF TypeInv
    <2>5. KeptCount(p)' = x
      <3>1. DOMAIN accum_data'[p] = {root_down_sweep} /\ accum_data'[p][root_down_sweep].count = x
        BY <2>4 DEF Entry
      <3> QED
        BY <2>3, <3>1 DEF KeptCount, NothingKept
    <2>6. /\ up'[p] = up[p] /\ \A c \in Taken(p, k) : up'[c] = <<>>
          /\ \A q \in Process \ ({p} \cup Taken(p, k)) : up'[q] = up[q]
      BY <1>2, <2>3
    <2>7. UpCount(p)' = 0
      BY <1>1, <2>1, <2>6, TakesFromBelow DEF NothingAt, UpCount
    <2>8. GatherMove(p, k, st, x)
      BY <1>1, <2>1, <2>2, <2>3, <2>4, <2>5, <2>6, <2>7, MovesUp DEF GatherMove
    <2> QED
      BY <2>8
  <1>4. CASE \/ CheckInner(p, k)
             \/ p = Root /\ CheckRoot(k) /\ UNCHANGED <<reported, root_down_sweep>>
    <2>1. /\ Arrived(p, k) /\ Complete(p, ReceiveAll(p, k))
          /\ accum_data' = [accum_data EXCEPT ![p] =
                            Restrict(ReceiveAll(p, k),
                                     DOMAIN ReceiveAll(p, k) \ {First(ReceiveAll(p, k))})]
      BY <1>4 DEF CheckInner, CheckRoot
    <2>2. /\ NothingAt(p) /\ p \notin reported /\ Taken(p, k) # {}
          /\ First(ReceiveAll(p, k)) = root_down_sweep
      BY <1>1, <2>1, CompleteGathers
    <2>3. PICK x \in Int : Gathers(p, k, x) /\ ReceiveAll(p, k)[root_down_sweep].count = x
      BY <1>1, <2>1, CompleteGathers
    <2>4. /\ NothingKept(p)' /\ \A q \in Process \ {p} : accum_data'[q] = accum_data[q]
          /\ UpAfter(p, k) = [c \in Process |-> IF c \in Taken(p, k) THEN <<>> ELSE up[c]]
      BY <1>1, <2>1, CompleteClears, Arrives
    <2>5. KeptCount(p)' = 0
      BY <2>4 DEF KeptCount
    <2>6. CASE CheckInner(p, k)
      <3> DEFINE m == [sweep |-> root_down_sweep, count |-> safe_add(LocalCount(p), x)]
      <3>1. up' = [UpAfter(p, k) EXCEPT ![p] = Append(@, m)]
        BY <2>2, <2>3, <2>6 DEF CheckInner
      <3>2. m.count = safe_add(LocalCount(p), x)
        OBVIOUS
      <3> HIDE DEF m
      <3>3. up' = [c \in Process |-> IF c = p THEN <<m>>
                                     ELSE IF c \in Taken(p, k) THEN <<>> ELSE up[c]]
        <4>1. UpAfter(p, k)[p] = <<>>
          BY <1>2, <2>2, <2>4 DEF NothingAt
        <4> QED
          BY <2>4, <3>1, <4>1
      <3>4. up'[p] = <<m>>
        BY <3>3
      <3>5. /\ \A c \in Taken(p, k) : up'[c] = <<>>
            /\ \A q \in Process \ ({p} \cup Taken(p, k)) : up'[q] = up[q]
        BY <1>2, <3>3
      <3>6. UpCount(p)' = safe_add(LocalCount(p), x)
        BY <3>2, <3>4 DEF UpCount
      <3>7. reported' = reported \cup {p} /\ root_down_sweep' = root_down_sweep
        BY <2>6 DEF CheckInner
      <3>8. p \in reported' /\ \A q \in Process \ {p} : q \in reported' <=> q \in reported
        BY <3>7
      <3>9. GatherMove(p, k, st, x)
        BY <1>1, <2>1, <2>2, <2>3, <2>4, <2>5, <3>5, <3>6, <3>7, <3>8, MovesUp DEF GatherMove
      <3> QED
        BY <3>9
    <2>7. CASE p = Root /\ CheckRoot(k) /\ UNCHANGED <<reported, root_down_sweep>>
      <3>1. up' = UpAfter(p, k)
        BY <2>7 DEF CheckRoot
      <3>2. /\ up'[p] = up[p] /\ \A c \in Taken(p, k) : up'[c] = <<>>
            /\ \A q \in Process \ ({p} \cup Taken(p, k)) : up'[q] = up[q]
        BY <1>2, <2>4, <3>1
      <3>3. UpCount(p)' = 0
        BY <2>2, <3>2 DEF NothingAt, UpCount
      <3>4. GatherMove(p, k, st, x)
        BY <1>1, <2>1, <2>2, <2>3, <2>4, <2>5, <2>7, <3>2, <3>3, MovesUp DEF GatherMove
      <3> QED
        BY <3>4
    <2> QED
      BY <1>4, <2>6, <2>7
  <1> QED
    BY <1>3, <1>4

LEMMA CarriedLeaf ==
  ASSUME TypeInv, SweepInv, NEW p \in Process, CheckLeaf(p), ~Unknown'
  PROVE  ~Unknown /\ SumCarried' = SumCarried
  <1>1. /\ p \notin reported /\ UpCount(p) = 0 /\ UpCount(p)' = Live(p) /\ p \in reported'
        /\ IsLeaf(p) /\ \A q \in Process : KeptCount(q)' = KeptCount(q)
        /\ \A q \in Process \ {p} : UpCount(q)' = UpCount(q) /\ (q \in reported' <=> q \in reported)
    BY LeafMoves
  <1>2. UNCHANGED <<local_sends, local_processed, local_sweep_number,
                    last_regular_message_sweep_number>>
    BY DEF CheckLeaf, appVars
  <1>3. ASSUME NEW q \in Process PROVE Carried(q)' = Carried(q)
    <2>1. Live(q)' = Live(q)
      BY <1>2 DEF Live
    <2>2. Live(q) \in Int /\ KeptCount(q) \in Int
      BY CarriedTyped DEF CarriedOK
    <2>3. CASE q = p
      BY <1>1, <2>1, <2>2, <2>3 DEF Carried
    <2>4. CASE q # p
      BY <1>1, <2>1, <2>4 DEF Carried
    <2> QED
      BY <2>3, <2>4
  <1>4. ASSUME NEW q \in Process, UnknownAt(q) PROVE UnknownAt(q)'
    BY <1>1, <1>2, <1>4, MaxIsPositive DEF UnknownAt
  <1> QED
    BY <1>3, <1>4, CarriedSame DEF Unknown

(* The counts of children come up.  A process that has them all passes on  *)
(* their sum with its own count, unless it does not know its own.          *)
LEMMA CarriedGather ==
  ASSUME TypeInv, SweepInv, CarriedOK', NEW p \in Process, NEW k \in Arrivals(p),
         CheckIncomplete(p, k) \/ CheckInner(p, k), ~Unknown'
  PROVE  ~Unknown /\ SumCarried' = SumCarried
  <1>1. PICK st \in [Process -> Status], x \in Int : GatherMove(p, k, st, x)
    BY GatherMoves
  <1>2. ~(CheckRoot(k) /\ p = Root)
    BY DEF CheckIncomplete, CheckInner, CheckRoot
  <1>3. /\ Sweeping(st) /\ Arrived(p, k) /\ Taken(p, k) # {} /\ Gathers(p, k, x)
        /\ p \notin reported
        /\ \A q \in Process \ {p} : q \in reported' <=> q \in reported
        /\ \A c \in Taken(p, k) :
             c \in Process \ {p} /\ c \in reported /\ UpCount(c)' = 0 /\ KeptCount(c)' = 0
        /\ \A q \in Process \ ({p} \cup Taken(p, k)) :
             UpCount(q)' = UpCount(q) /\ KeptCount(q)' = KeptCount(q)
        /\ \/ p \notin reported' /\ UpCount(p)' = 0 /\ KeptCount(p)' = x
           \/ /\ p \in reported' /\ KeptCount(p)' = 0
              /\ UpCount(p)' = safe_add(LocalCount(p), x)
    BY <1>1, <1>2 DEF GatherMove
  <1>4. UpCount(p) = 0
    BY <1>3, TakesFromBelow DEF NothingAt, UpCount
  <1>5. /\ UNCHANGED <<local_sends, local_processed, last_regular_message_sweep_number>>
        /\ \A q \in Process \ {p} : local_sweep_number'[q] = local_sweep_number[q]
        /\ CheckIncomplete(p, k) => local_sweep_number' = local_sweep_number
        /\ CheckInner(p, k) => p \in reported'
    BY DEF CheckIncomplete, CheckInner, appVars, TypeInv
  <1>6. \A q \in Process : /\ Live(q)' = Live(q) /\ Live(q) \in Int
                           /\ Carried(q) \in Int /\ Carried(q)' \in Int
    BY <1>5, CarriedTyped DEF CarriedOK, Live
  <1>7. ~UnknownAt(p)'
    BY DEF Unknown
  <1>8. /\ x # Int64Max /\ Carried(p)' = Live(p) + x
        /\ IsLeaf(p) \/ ~(last_regular_message_sweep_number[p] > local_sweep_number[p])
    <2>1. CASE p \notin reported' /\ UpCount(p)' = 0 /\ KeptCount(p)' = x
      <3>1. local_sweep_number' = local_sweep_number
        BY <1>5, <2>1
      <3>2. x # Int64Max
        BY <1>7, <2>1 DEF UnknownAt
      <3>3. IsLeaf(p) \/ ~(last_regular_message_sweep_number[p] > local_sweep_number[p])
        BY <1>5, <1>7, <2>1, <3>1 DEF UnknownAt
      <3>4. Carried(p)' = Live(p)' + 0 + x
        BY <2>1 DEF Carried
      <3> QED
        BY <1>6, <3>2, <3>3, <3>4
    <2>2. CASE /\ p \in reported' /\ KeptCount(p)' = 0
               /\ UpCount(p)' = safe_add(LocalCount(p), x)
      <3>1. safe_add(LocalCount(p), x) # Int64Max
        BY <1>7, <2>2 DEF UnknownAt
      <3>2. LocalCount(p) # Int64Max /\ x # Int64Max
        BY <3>1 DEF safe_add
      <3>3. /\ LocalCount(p) = Live(p)
            /\ ~(last_regular_message_sweep_number[p] > local_sweep_number[p])
        BY <3>2 DEF LocalCount, Live
      <3>4. safe_add(LocalCount(p), x) = Live(p) + x
        BY <1>6, <3>1, <3>3, SafeAddType
      <3>5. Carried(p)' = 0 + (Live(p) + x) + 0
        BY <2>2, <3>4 DEF Carried
      <3> QED
        BY <1>6, <3>2, <3>3, <3>5
    <2> QED
      BY <1>3, <2>1, <2>2
  <1>9. /\ \A c \in Taken(p, k) : UpCount(c) # Int64Max
        /\ KeptCount(p) # Int64Max
        /\ \A h \in [Process -> Int] :
             /\ h[p] = Live(p) + x
             /\ \A c \in Taken(p, k) : h[c] = 0
             /\ \A q \in Process \ ({p} \cup Taken(p, k)) : h[q] = Carried(q)
             => SumFunction(h) = SumCarried
    BY <1>3, <1>8, GatheredCounts
  <1>10. ~Unknown
    <2> SUFFICES ASSUME NEW q \in Process, UnknownAt(q) PROVE UnknownAt(q)'
      BY DEF Unknown
    <2>1. q # p
      BY <1>4, <1>8, <1>9, MaxIsPositive DEF UnknownAt
    <2>2. q \notin Taken(p, k)
      <3>1. ASSUME q \in Taken(p, k) PROVE KeptCount(q) = 0
        <4>1. st[q] = "up" /\ Stands(q, st)
          BY <1>3, <3>1, Arrives DEF Sweeping
        <4> QED
          BY <4>1 DEF Stands, KeptCount
      <3> QED
        BY <1>3, <1>9, <3>1, MaxIsPositive DEF UnknownAt
    <2> QED
      BY <1>3, <1>5, <2>1, <2>2 DEF UnknownAt
  <1>11. SumCarried' = SumCarried
    <2> DEFINE h == [q \in Process |-> Carried(q)']
    <2>1. h \in [Process -> Int] /\ SumCarried' = SumFunction(h) /\ \A q \in Process : h[q] = Carried(q)'
      BY <1>6 DEF SumCarried
    <2>2. h[p] = Live(p) + x
      BY <1>8, <2>1
    <2>3. ASSUME NEW c \in Taken(p, k) PROVE h[c] = 0
      BY <1>3, <2>1 DEF Carried
    <2>4. ASSUME NEW q \in Process \ ({p} \cup Taken(p, k)) PROVE h[q] = Carried(q)
      BY <1>3, <1>6, <2>1 DEF Carried
    <2> HIDE DEF h
    <2> QED
      BY <1>9, <2>1, <2>2, <2>3, <2>4
  <1> QED
    BY <1>10, <1>11

(* What a process counts after its report is not carried.                  *)
LEMMA CarriedOfMessages ==
  ASSUME CarriedOK, CarriedOK', NEW p \in Process, NEW n \in Int,
         UNCHANGED <<reported, up, accum_data, root_down_sweep>>,
         Live(p)' = Live(p) + n, \A x \in Process \ {p} : Live(x)' = Live(x)
  PROVE  SumCarried \in Int /\ SumCarried' = SumCarried + (IF p \in reported THEN 0 ELSE n)
  <1>1. ASSUME NEW x \in Process
        PROVE  UpCount(x)' = UpCount(x) /\ KeptCount(x)' = KeptCount(x)
    BY DEF UpCount, KeptCount, NothingKept
  <1>2. \A x \in Process \ {p} : Carried(x)' = Carried(x)
    BY <1>1 DEF Carried
  <1>3. Carried(p)' = Carried(p) + (IF p \in reported THEN 0 ELSE n)
    <2>1. Live(p) \in Int /\ UpCount(p) \in Int /\ KeptCount(p) \in Int
      BY DEF CarriedOK
    <2> QED
      BY <1>1, <2>1 DEF Carried
  <1> DEFINE d == IF p \in reported THEN 0 ELSE n
  <1>4. d \in Int
    OBVIOUS
  <1>5. Carried(p)' = Carried(p) + d
    BY <1>3
  <1> HIDE DEF d
  <1>6. SumCarried \in Int /\ SumCarried' = SumCarried + d
    BY <1>2, <1>4, <1>5, CarriedChanges
  <1> QED
    BY <1>6 DEF d

(* A process sends: before its report both sums grow, and after it either  *)
(* the message hides or it has the number of the sweep.                    *)
LEMMA CoverSent ==
  ASSUME CarriedOK, CarriedOK', TypeInv, CountsCover,
         NEW p \in Process, NEW to \in SUBSET Process, to # {}, active[p],
         NEW m \in Regular, m.sweep = local_sweep_number[p],
         NumbersAt(p), root_down_sweep > 0, ~Hides(p, to, m),
         wire' = Hand(p, to, m, wire),
         local_sends' = [local_sends EXCEPT ![p] = @ + Cardinality(to)],
         UNCHANGED <<local_processed, active, reported, up, accum_data, root_down_sweep>>
  PROVE  CountsCover'
  <1>1. wire \in Wires /\ root_down_sweep \in Int /\ m.sweep \in Int
    <2>1. wire \in Wires /\ root_down_sweep \in Sweep /\ m.sweep \in Sweep
      BY DEF TypeInv, Wires, Regular
    <2> QED
      BY <2>1, BoundsAreNumbers DEF Sweep
  <1>2. Cardinality(to) \in Nat
    BY PairsFinite, FS_Subset, FS_CardinalityType
  <1>3. SumOld \in Nat
    BY <1>1, WireSumsType DEF SumOld
  <1>4. SumOld' = SumOld + (IF m.sweep < root_down_sweep THEN Cardinality(to) ELSE 0)
    <2>1. SumOld' = SumFunction(Olds(Hand(p, to, m, wire), root_down_sweep))
      BY DEF SumOld
    <2> QED
      BY <1>1, <2>1, HandSums DEF SumOld
  <1>5. /\ SumCarried \in Int
        /\ SumCarried' = SumCarried + (IF p \in reported THEN 0 ELSE Cardinality(to))
    <2>1. Live(p)' = Live(p) + Cardinality(to) /\ \A x \in Process \ {p} : Live(x)' = Live(x)
      BY <1>2 DEF Live, TypeInv
    <2> QED
      BY <1>2, <2>1, CarriedOfMessages
  <1>6. Numbers(wire') \subseteq Numbers(wire) \cup {m.sweep}
    BY <1>1, NumbersHanded
  <1>7. CASE p \notin reported
    <2>1. m.sweep < root_down_sweep
      BY <1>7 DEF NumbersAt
    <2>2. /\ SumOld' = SumOld + Cardinality(to)
          /\ SumCarried' = SumCarried + Cardinality(to)
      BY <1>4, <1>5, <1>7, <2>1
    <2>3. root_down_sweep' \in Numbers(wire') => root_down_sweep \in Numbers(wire)
      BY <1>1, <1>6, <2>1
    <2> QED
      BY <1>2, <1>3, <1>5, <2>2, <2>3 DEF CountsCover
  <1>8. CASE p \in reported
    <2>1. ~(m.sweep < root_down_sweep)
      BY <1>8 DEF Hides
    <2>2. SumOld' = SumOld /\ SumCarried' = SumCarried
      BY <1>3, <1>4, <1>5, <1>8, <2>1
    <2>3. SumCarried > SumOld
      BY <1>8 DEF CountsCover
    <2> QED
      BY <1>3, <1>5, <2>2, <2>3 DEF CountsCover
  <1> QED
    BY <1>7, <1>8

(* A process receives.  Before its report, an older message passes from    *)
(* the wire to its counts, and one with the number of the sweep makes them *)
(* unknown, or it hides.  After its report, an older message that it does  *)
(* not pass on is no longer in flight, though it is carried.               *)
LEMMA CoverReceived ==
  ASSUME CarriedOK, CarriedOK', TypeInv, TypeInv', CountsCover,
         NEW p \in Process, NEW q \in Process, Receive(p, q),
         \A s \in Numbers(wire) : s <= root_down_sweep,
         NumbersAt(p), root_down_sweep > 0, ~hidden', ~Unknown'
  PROVE  CountsCover'
  <1> DEFINE m == Head(wire[q][p])
             to == IF m.broadcast THEN Children(p) ELSE {}
             rest == [wire EXCEPT ![q][p] = Tail(@)]
             old == IF m.sweep < root_down_sweep THEN 1 ELSE 0
             more == IF m.sweep < root_down_sweep THEN Cardinality(to) ELSE 0
  <1>1. /\ wire[q][p] # <<>> /\ wire' = Hand(p, to, m, rest)
        /\ ~Hides(p, to, m) /\ ~Overlooks(p, m)
        /\ local_sends' = [local_sends EXCEPT ![p] = @ + Cardinality(to)]
        /\ local_processed' = [local_processed EXCEPT ![p] = @ + 1]
        /\ last_regular_message_sweep_number' =
             [last_regular_message_sweep_number EXCEPT ![p] = Max({@, m.sweep})]
        /\ \A x \in Process \ {p} : active'[x] = active[x]
        /\ UNCHANGED <<reported, up, accum_data, root_down_sweep, local_sweep_number>>
    BY DEF Receive, treeVars, TypeInv
  <1>2. wire \in Wires /\ root_down_sweep \in Int
    BY BoundsAreNumbers DEF TypeInv, Wires, Sweep
  <1>3. rest \in Wires /\ m \in Regular
    BY <1>1, <1>2, Taken1
  <1>4. to \in SUBSET Process
    BY ChildrenAreProcesses
  <1>5. Cardinality(to) \in Nat
    BY <1>4, PairsFinite, FS_Subset, FS_CardinalityType
  <1>6. /\ Numbers(rest) \subseteq Numbers(wire) /\ m.sweep \in Numbers(wire)
        /\ SumFunction(Olds(rest, root_down_sweep)) = SumOld - old
    BY <1>1, <1>2, NumbersTaken, TakeSums DEF SumOld
  <1>7. m.sweep \in Sweep /\ m.sweep \in Int /\ m.sweep <= root_down_sweep
    BY <1>6, BoundsAreNumbers DEF Numbers, Sweep
  <1>8. SumOld \in Nat
    BY <1>2, WireSumsType DEF SumOld
  <1>9. SumOld' = SumOld - old + more
    <2>1. SumOld' = SumFunction(Olds(Hand(p, to, m, rest), root_down_sweep))
      BY <1>1 DEF SumOld
    <2> HIDE DEF m, to, rest, old
    <2>2. SumFunction(Olds(Hand(p, to, m, rest), root_down_sweep))
            = SumFunction(Olds(rest, root_down_sweep)) + more
      BY <1>2, <1>3, <1>4, HandSums
    <2> QED
      BY <1>6, <2>1, <2>2
  <1>10. Numbers(wire') \subseteq Numbers(wire)
    <2> HIDE DEF m, to, rest
    <2> QED
      BY <1>1, <1>3, <1>6, NumbersHanded
  <1>11. /\ SumCarried \in Int
         /\ SumCarried' = SumCarried + (IF p \in reported THEN 0 ELSE Cardinality(to) - 1)
    <2> HIDE DEF m, to, rest
    <2>1. /\ Live(p)' = Live(p) + (Cardinality(to) - 1)
          /\ \A x \in Process \ {p} : Live(x)' = Live(x)
      BY <1>1, <1>5 DEF Live, TypeInv
    <2>2. Cardinality(to) - 1 \in Int
      BY <1>5
    <2> QED
      BY <1>1, <2>1, <2>2, CarriedOfMessages
  <1>12. CASE p \notin reported
    <2>1. m.sweep < root_down_sweep
      <3> SUFFICES ASSUME m.sweep = root_down_sweep PROVE FALSE
        BY <1>2, <1>7
      <3>1. ~IsLeaf(p)
        BY <1>1, <1>12 DEF Overlooks
      <3>2. last_regular_message_sweep_number'[p] >= m.sweep
        <4>1. last_regular_message_sweep_number[p] \in Sweep
          BY DEF TypeInv
        <4>2. Max({last_regular_message_sweep_number[p], m.sweep})
                = IF last_regular_message_sweep_number[p] < m.sweep THEN m.sweep
                  ELSE last_regular_message_sweep_number[p]
          BY <1>7, <4>1, MaxOfTwo
        <4>3. last_regular_message_sweep_number'[p]
                = Max({last_regular_message_sweep_number[p], m.sweep})
          BY <1>1 DEF TypeInv
        <4>4. last_regular_message_sweep_number[p] \in Int
          BY <4>1, BoundsAreNumbers DEF Sweep
        <4> HIDE DEF m
        <4> QED
          BY <1>7, <4>2, <4>3, <4>4
      <3>3. local_sweep_number[p] < root_down_sweep
        BY <1>12 DEF NumbersAt
      <3>4. last_regular_message_sweep_number'[p] > local_sweep_number'[p]
        <4>1. /\ local_sweep_number'[p] = local_sweep_number[p]
              /\ local_sweep_number[p] \in Int /\ last_regular_message_sweep_number'[p] \in Int
          BY <1>1, BoundsAreNumbers DEF TypeInv, Sweep
        <4> HIDE DEF m
        <4> QED
          BY <1>2, <3>2, <3>3, <4>1
      <3> QED
        BY <1>1, <1>12, <3>1, <3>4 DEF Unknown, UnknownAt
    <2>2. /\ SumOld' = SumOld - 1 + Cardinality(to)
          /\ SumCarried' = SumCarried + (Cardinality(to) - 1)
      BY <1>9, <1>11, <1>12, <2>1
    <2>3. /\ root_down_sweep' \in Numbers(wire') => root_down_sweep \in Numbers(wire)
          /\ (\E x \in reported' : active'[x]) => \E x \in reported : active[x]
      BY <1>1, <1>10, <1>12 DEF TypeInv
    <2> HIDE DEF m, to, rest, old, more
    <2> QED
      BY <1>5, <1>8, <1>11, <2>2, <2>3 DEF CountsCover
  <1>13. CASE p \in reported /\ m.sweep < root_down_sweep
    <2>1. to = {}
      BY <1>1, <1>13 DEF Hides
    <2>2. Cardinality(to) = 0
      BY <2>1, FS_EmptySet
    <2>3. SumOld' = SumOld - 1 + 0 /\ SumCarried' = SumCarried
      BY <1>9, <1>11, <1>13, <2>2
    <2> HIDE DEF m, to, rest, old, more
    <2> QED
      BY <1>8, <1>11, <2>3 DEF CountsCover
  <1>14. CASE p \in reported /\ ~(m.sweep < root_down_sweep)
    <2>1. SumOld' = SumOld - 0 + 0 /\ SumCarried' = SumCarried
      BY <1>9, <1>11, <1>14
    <2>2. root_down_sweep \in Numbers(wire)
      <3>1. m.sweep = root_down_sweep
        BY <1>2, <1>7, <1>14
      <3> QED
        BY <1>6, <3>1
    <2>3. SumCarried > SumOld
      BY <2>2 DEF CountsCover
    <2> HIDE DEF m, to, rest, old, more
    <2> QED
      BY <1>8, <1>11, <2>1, <2>3 DEF CountsCover
  <1> QED
    BY <1>12, <1>13, <1>14

(* Nothing becomes known by messages.                                      *)
LEMMA MessagesKeepUnknown ==
  ASSUME TypeInv, TypeInv', NEW p \in Process, NEW q \in Process,
         Send(p, q) \/ Broadcast(p) \/ Receive(p, q), ~Unknown', ~hidden'
  PROVE  ~Unknown /\ ~hidden
  <1>1. ~hidden
    BY DEF Send, Broadcast, Receive
  <1>2. UNCHANGED <<reported, up, accum_data, root_down_sweep, local_sweep_number>>
    BY AppSteps DEF treeVars
  <1>3. ASSUME NEW x \in Process
        PROVE  last_regular_message_sweep_number'[x] >= last_regular_message_sweep_number[x]
    <2>1. last_regular_message_sweep_number[x] \in Int
      BY BoundsAreNumbers DEF TypeInv, Sweep
    <2>2. CASE last_regular_message_sweep_number'[x] = last_regular_message_sweep_number[x]
      BY <2>1, <2>2
    <2>3. CASE Receive(p, q) /\ x = p
      <3> DEFINE m == Head(wire[q][p])
      <3>1. m.sweep \in Sweep
        BY <2>3, Taken1 DEF Receive, TypeInv, Wires, Regular
      <3>2. last_regular_message_sweep_number[p] \in Sweep
        BY DEF TypeInv
      <3>3. last_regular_message_sweep_number'[p]
              = Max({last_regular_message_sweep_number[p], m.sweep})
        BY <2>3 DEF Receive, TypeInv
      <3>4. m.sweep \in Int
        BY <3>1, BoundsAreNumbers DEF Sweep
      <3> HIDE DEF m
      <3>5. last_regular_message_sweep_number'[p]
              = IF last_regular_message_sweep_number[p] < m.sweep THEN m.sweep
                ELSE last_regular_message_sweep_number[p]
        BY <3>1, <3>2, <3>3, MaxOfTwo
      <3> QED
        BY <2>1, <2>3, <3>4, <3>5
    <2> QED
      BY <2>2, <2>3 DEF Send, Broadcast, Receive, TypeInv
  <1>4. ASSUME NEW x \in Process, UnknownAt(x) PROVE UnknownAt(x)'
    <2>1. /\ last_regular_message_sweep_number'[x] >= last_regular_message_sweep_number[x]
          /\ last_regular_message_sweep_number'[x] \in Int
          /\ last_regular_message_sweep_number[x] \in Int
          /\ local_sweep_number[x] \in Int
      BY <1>3, BoundsAreNumbers DEF TypeInv, Sweep
    <2>2. UpCount(x)' = UpCount(x) /\ KeptCount(x)' = KeptCount(x)
      BY <1>2 DEF UpCount, KeptCount, NothingKept
    <2> QED
      BY <1>2, <1>4, <2>1, <2>2 DEF UnknownAt
  <1> QED
    BY <1>1, <1>4 DEF Unknown

(* A sweep that starts has everything that is in flight to count.          *)
LEMMA CoverStarts ==
  ASSUME TypeInv, TypeInv', CarriedOK', FreshSweep', phase'[Root] = "running", reported' = {},
         UNCHANGED appVars, SumLive = SumFlight,
         \A s \in Numbers(wire') : s < root_down_sweep'
  PROVE  CountsCover'
  <1>1. wire' \in Wires /\ root_down_sweep' \in Int
    BY BoundsAreNumbers DEF TypeInv, Wires, Sweep
  <1>2. \A q \in Process : Carried(q)' = Live(q)
    <2> SUFFICES ASSUME NEW q \in Process PROVE Carried(q)' = Live(q)
      OBVIOUS
    <2>1. up'[q] = <<>> /\ NothingKept(q)' /\ q \notin reported'
      BY DEF FreshSweep
    <2>2. UpCount(q)' = 0 /\ KeptCount(q)' = 0 /\ Live(q)' = Live(q)
      BY <2>1 DEF UpCount, KeptCount, Live, appVars
    <2>3. Live(q)' \in Int
      BY DEF CarriedOK
    <2> QED
      BY <2>1, <2>2, <2>3 DEF Carried
  <1>3. SumCarried' = SumLive
    <2>1. SumCarried' = SumFunction([q \in Process |-> Carried(q)'])
      BY DEF SumCarried
    <2>2. [q \in Process |-> Carried(q)'] = [q \in Process |-> Live(q)]
      BY <1>2
    <2> QED
      BY <2>1, <2>2 DEF SumLive
  <1>4. SumOld' = SumFlight
    <2>1. SumOld' = SumFunction(Olds(wire', root_down_sweep'))
      BY DEF SumOld
    <2>2. SumFunction(Olds(wire', root_down_sweep')) = SumFunction(Lengths(wire'))
      BY <1>1, AllOlder
    <2>3. wire' = wire
      BY DEF appVars
    <2> QED
      BY <2>1, <2>2, <2>3 DEF SumFlight
  <1>5. SumFlight \in Int
    <2>1. wire \in Wires /\ 0 \in Int
      BY DEF TypeInv, Wires
    <2> QED
      BY <2>1, WireSumsType DEF SumFlight
  <1>6. root_down_sweep' \notin Numbers(wire')
    BY <1>1
  <1> QED
    BY <1>3, <1>4, <1>5, <1>6 DEF CountsCover

LEMMA CarriedStep ==
  ASSUME TypeInv, TypeInv', SweepInv, SweepInv', CarriedOK, CarriedOK', FreshSweep',
         TerminationInv, ResetInv, FlightInv, NumbersInv, CarriedInv, [Next]_vars
  PROVE  CarriedInv'
  <1>1. SUFFICES ASSUME ~premature', ~premature, phase'[Root] = "running",
                        root_down_sweep' > 0, ~hidden', ~Unknown'
                 PROVE  CountsCover'
    BY StaysPremature DEF CarriedInv
  <1>2. ~Barrier
    BY <1>1, RootIsProcess DEF Barrier, ResetInv
  <1>3. phase[Root] = "running"
    BY <1>1, <1>2, StaysEnded
  <1>4. /\ \A s \in Numbers(wire) : s <= root_down_sweep
        /\ \A p \in Process : NumbersAt(p)
    BY <1>1, <1>3 DEF NumbersInv
  <1>5. \A p \in Process : phase[p] = "running" /\ ~term[p]
    BY <1>3, TerminatesFromTheRoot
  <1>6. SumLive = SumFlight
    BY <1>1, <1>5 DEF FlightInv
  <1>7. ASSUME UNCHANGED <<root_down_sweep, hidden>>, ~Unknown PROVE CountsCover
    BY <1>1, <1>3, <1>7 DEF CarriedInv
  <1>8. ASSUME UNCHANGED <<up, accum_data, reported, root_down_sweep, hidden, wire,
                           local_sends, local_processed, local_sweep_number,
                           last_regular_message_sweep_number>>,
               \A p \in Process : active'[p] => active[p]
        PROVE  CountsCover'
    <2>1. ASSUME NEW q \in Process
          PROVE  Carried(q)' = Carried(q) /\ (UnknownAt(q)' <=> UnknownAt(q))
      BY <1>8 DEF Carried, Live, UpCount, KeptCount, NothingKept, UnknownAt
    <2>2. ~Unknown
      BY <1>1, <2>1 DEF Unknown
    <2>3. SumCarried' = SumCarried
      BY <2>1, CarriedSame
    <2>4. \A p \in reported' : active'[p] => p \in reported /\ active[p]
      BY <1>8 DEF TypeInv
    <2> QED
      BY <1>7, <1>8, <2>2, <2>3, <2>4, CoverStays
  <1>9. CASE UNCHANGED vars
    BY <1>8, <1>9 DEF vars, appVars, treeVars
  <1>10. ASSUME NEW p \in Process, NEW q \in Process, Send(p, q) \/ Broadcast(p) \/ Receive(p, q)
         PROVE  CountsCover'
    <2>1. ~Unknown /\ ~hidden
      BY <1>1, <1>10, MessagesKeepUnknown
    <2>2. UNCHANGED <<reported, up, accum_data, root_down_sweep, local_sweep_number>>
      BY <1>10, AppSteps DEF treeVars
    <2>3. CountsCover /\ root_down_sweep > 0
      BY <1>1, <1>3, <2>1, <2>2 DEF CarriedInv
    <2>4. CASE Send(p, q)
      <3> DEFINE m == [sweep |-> local_sweep_number[p], broadcast |-> FALSE]
      <3>1. m \in Regular /\ m.sweep = local_sweep_number[p]
        BY DEF TypeInv, Regular
      <3>2. Cardinality({q}) = 1
        BY FS_Singleton
      <3>3. /\ active[p] /\ wire' = Hand(p, {q}, m, wire) /\ ~Hides(p, {q}, m)
            /\ local_sends' = [local_sends EXCEPT ![p] = @ + Cardinality({q})]
            /\ UNCHANGED <<local_processed, active>>
        BY <1>1, <2>4, <3>2 DEF Send
      <3> HIDE DEF m
      <3>4. {q} \in SUBSET Process /\ {q} # {}
        OBVIOUS
      <3> QED
        BY <1>4, <2>2, <2>3, <3>1, <3>3, <3>4, CoverSent
    <2>5. CASE Broadcast(p)
      <3> DEFINE m == [sweep |-> local_sweep_number[p], broadcast |-> TRUE]
                 to == IF p = Root THEN Children(Root) ELSE {Root}
      <3>1. m \in Regular /\ m.sweep = local_sweep_number[p]
        BY DEF TypeInv, Regular
      <3>2. to \in SUBSET Process /\ to # {}
        BY RootIsProcess, ChildrenAreProcesses, RootHasChildren DEF IsLeaf
      <3>3. /\ active[p] /\ wire' = Hand(p, to, m, wire) /\ ~Hides(p, to, m)
            /\ local_sends' = [local_sends EXCEPT ![p] = @ + Cardinality(to)]
            /\ UNCHANGED <<local_processed, active>>
        BY <1>1, <2>5 DEF Broadcast
      <3> HIDE DEF m, to
      <3> QED
        BY <1>4, <2>2, <2>3, <3>1, <3>2, <3>3, CoverSent
    <2>6. CASE Receive(p, q)
      BY <1>1, <1>4, <2>3, <2>6, CoverReceived
    <2> QED
      BY <1>10, <2>4, <2>5, <2>6
  <1>11. ASSUME NEW p \in Process, BecomeQuiescent(p) PROVE CountsCover'
    BY <1>8, <1>11 DEF BecomeQuiescent, treeVars, TypeInv
  <1>12. ASSUME NEW p \in Process, NEW k \in Arrivals(p), Check(p, k) PROVE CountsCover'
    <2>1. CASE CheckInVain(p)
      BY <1>9, <2>1 DEF CheckInVain
    <2>2. CASE CheckTerminated(p)
      BY <1>5, <2>2 DEF CheckTerminated
    <2>3. CASE CheckDown(p)
      BY <1>8, <2>3 DEF CheckDown, appVars
    <2>4. ASSUME ~Unknown, SumCarried' = SumCarried, ~active[p],
                 UNCHANGED <<root_down_sweep, hidden, wire, active>>,
                 reported' \subseteq reported \cup {p}
          PROVE  CountsCover'
      <3>1. \A x \in reported' : active'[x] => x \in reported /\ active[x]
        BY <2>4
      <3> QED
        BY <1>7, <2>4, <3>1, CoverStays
    <2>5. CASE CheckLeaf(p)
      <3>1. ~Unknown /\ SumCarried' = SumCarried
        BY <1>1, <2>5, CarriedLeaf
      <3> QED
        BY <2>4, <2>5, <3>1 DEF CheckLeaf, Checks, appVars
    <2>6. CASE CheckIncomplete(p, k) \/ CheckInner(p, k)
      <3>1. ~Unknown /\ SumCarried' = SumCarried
        BY <1>1, <1>12, <2>6, CarriedGather
      <3> QED
        BY <2>4, <2>6, <3>1 DEF CheckIncomplete, CheckInner, Checks, appVars
    <2>7. CASE CheckStart
      <3>1. \A s \in Numbers(wire') : s < root_down_sweep'
        BY <1>1, <2>7, StartNumbers
      <3>2. reported' = {} /\ UNCHANGED appVars
        BY <2>7 DEF CheckStart, StartSweep
      <3> QED
        BY <1>1, <1>6, <3>1, <3>2, CoverStarts
    <2>8. CASE p = Root /\ CheckRoot(k)
      <3>1. (\A s \in Numbers(wire') : s < root_down_sweep') /\ reported' = {}
        BY <1>1, <1>12, <2>8, NextNumbers
      <3>2. UNCHANGED appVars
        BY <2>8 DEF CheckRoot
      <3> QED
        BY <1>1, <1>6, <3>1, <3>2, CoverStarts
    <2> QED
      BY <1>12, <2>1, <2>2, <2>3, <2>5, <2>6, <2>7, <2>8 DEF Check
  <1>13. ASSUME NEW p \in Process, Reset(p) PROVE CountsCover'
    BY <1>5, <1>13 DEF Reset
  <1> QED
    BY <1>2, <1>9, <1>10, <1>11, <1>12, <1>13 DEF Next

-----------------------------------------------------------------------------
(* When the root is right *)

(* If nothing hides, the root finds zero only when nothing is left: the    *)
(* counts it has are those of everybody, so nothing is in flight that is   *)
(* older than the sweep or as old, and nobody works behind it.             *)
LEMMA ZeroIsReal ==
  ASSUME TypeInv, SweepInv, NumbersInv, CarriedInv, ~premature, ~hidden,
         NEW k \in Arrivals(Root), CheckRoot(k),
         safe_add(LocalCount(Root), ReceiveAll(Root, k)[First(ReceiveAll(Root, k))].count) = 0
  PROVE  Quiet
  <1>1. PICK st \in [Process -> Status] : Sweeping(st)
    BY DEF SweepInv
  <1>2. /\ Arrived(Root, k) /\ Complete(Root, ReceiveAll(Root, k)) /\ Root \in Process
        /\ ~active[Root] /\ phase[Root] = "running"
    BY RootIsProcess DEF CheckRoot, Checks
  <1>3. /\ st[Root] = "below" /\ NothingAt(Root) /\ Root \notin reported
        /\ Taken(Root, k) # {}
        /\ \A c \in Children(Root) : st[c] \in {"up", "used"}
        /\ \A c \in Children(Root) : up[c] = <<>> \/ c \in Taken(Root, k)
        /\ First(ReceiveAll(Root, k)) = root_down_sweep
    BY <1>1, <1>2, CompleteGathers
  <1>4. PICK x \in Int : Gathers(Root, k, x) /\ ReceiveAll(Root, k)[root_down_sweep].count = x
    BY <1>1, <1>2, CompleteGathers
  <1>5. CarriedOK
    BY CarriedTyped
  <1>6. /\ x # Int64Max /\ Live(Root) + x = 0
        /\ ~(last_regular_message_sweep_number[Root] > local_sweep_number[Root])
    <2>1. safe_add(LocalCount(Root), x) = 0
      BY <1>3, <1>4
    <2>2. LocalCount(Root) # Int64Max /\ x # Int64Max /\ LocalCount(Root) + x = 0
      BY <2>1, MaxIsPositive DEF safe_add
    <2> QED
      BY <2>2 DEF LocalCount, Live
  <1>7. /\ \A c \in Taken(Root, k) : UpCount(c) # Int64Max
        /\ KeptCount(Root) # Int64Max
        /\ \A h \in [Process -> Int] :
             /\ h[Root] = Live(Root) + x
             /\ \A c \in Taken(Root, k) : h[c] = 0
             /\ \A q \in Process \ ({Root} \cup Taken(Root, k)) : h[q] = Carried(q)
             => SumFunction(h) = SumCarried
    BY <1>1, <1>2, <1>3, <1>4, <1>6, GatheredCounts
  <1>8. ASSUME NEW q \in Process \ {Root}
        PROVE  /\ NothingKept(q) /\ q \in reported
               /\ q \notin Taken(Root, k) => up[q] = <<>>
    <2>1. q \in Children(Root) \/ st[q] = "used"
      BY <1>1, <1>3, AllAnswered
    <2>2. Stands(q, st) /\ st[q] \in {"up", "used"}
      BY <1>1, <1>3, <2>1 DEF Sweeping
    <2> QED
      BY <1>3, <2>1, <2>2 DEF Stands, NothingAt
  <1>9. ~Unknown
    <2> SUFFICES ASSUME NEW q \in Process, UnknownAt(q) PROVE FALSE
      BY DEF Unknown
    <2>1. q # Root
      <3>1. UpCount(Root) # Int64Max
        BY <1>3, MaxIsPositive DEF UpCount, NothingAt
      <3> QED
        BY <1>6, <1>7, <3>1 DEF UnknownAt
    <2>2. KeptCount(q) # Int64Max /\ q \in reported
      BY <1>8, <2>1, MaxIsPositive DEF KeptCount
    <2>3. UpCount(q) # Int64Max
      BY <1>7, <1>8, <2>1, MaxIsPositive DEF UpCount
    <2> QED
      BY <2>2, <2>3 DEF UnknownAt
  <1>10. root_down_sweep > 0
    <2>1. root_down_sweep = local_sweep_number[Root] + 1
      BY <1>1, <1>3 DEF Sweeping, RootStands
    <2>2. local_sweep_number[Root] \in Nat
      BY <1>2 DEF TypeInv, Sweep
    <2> QED
      BY <2>1, <2>2
  <1>11. CountsCover
    BY <1>2, <1>9, <1>10 DEF CarriedInv
  <1>12. SumCarried = 0
    <2> DEFINE h == [q \in Process |-> 0]
    <2>1. h \in [Process -> Int] /\ \A q \in Process : h[q] = 0
      OBVIOUS
    <2>2. \A c \in Taken(Root, k) : c \in Process
      BY <1>2, ChildrenAreProcesses DEF Taken
    <2>3. ASSUME NEW q \in Process \ ({Root} \cup Taken(Root, k)) PROVE Carried(q) = 0
      BY <1>8 DEF Carried, UpCount, KeptCount
    <2> HIDE DEF h
    <2>4. SumFunction(h) = 0
      BY <2>1, PairsFinite, SumOfZeros
    <2>5. /\ h[Root] = Live(Root) + x
          /\ \A c \in Taken(Root, k) : h[c] = 0
          /\ \A q \in Process \ ({Root} \cup Taken(Root, k)) : h[q] = Carried(q)
      BY <1>2, <1>6, <2>1, <2>2, <2>3
    <2> QED
      BY <1>7, <2>1, <2>4, <2>5
  <1>13. wire \in Wires /\ root_down_sweep \in Int
    BY BoundsAreNumbers DEF TypeInv, Wires, Sweep
  <1>14. SumOld \in Nat
    BY <1>13, WireSumsType DEF SumOld
  <1>15. /\ SumOld = 0 /\ root_down_sweep \notin Numbers(wire)
         /\ \A q \in reported : ~active[q]
    BY <1>11, <1>12, <1>14 DEF CountsCover
  <1>16. \A s \in Numbers(wire) : s <= root_down_sweep
    BY <1>2 DEF NumbersInv
  <1>17. \A a, b \in Process : wire[a][b] = <<>>
    BY <1>13, <1>15, <1>16, NothingInFlight DEF SumOld
  <1>18. InFlight = {}
    BY <1>17 DEF InFlight
  <1>19. \A p \in Process : ~active[p]
    BY <1>2, <1>8, <1>15
  <1> QED
    BY <1>18, <1>19 DEF Quiet

LEMMA OnlyHiddenDeceives ==
  ASSUME TypeInv, SweepInv, NumbersInv, CarriedInv, [Next]_vars, ~premature, premature'
  PROVE  hidden
  <1>1. CASE UNCHANGED vars
    BY <1>1 DEF vars
  <1>2. ASSUME NEW p \in Process, NEW q \in Process,
               Send(p, q) \/ Broadcast(p) \/ Receive(p, q) \/ BecomeQuiescent(p)
        PROVE  FALSE
    BY <1>2, AppSteps
  <1>3. ASSUME NEW p \in Process, NEW k \in Arrivals(p), Check(p, k) PROVE hidden
    <2>1. p = Root /\ CheckRoot(k)
      BY <1>3 DEF Check, CheckInVain, vars, CheckTerminated, CheckLeaf, CheckDown,
                  CheckIncomplete, CheckInner, CheckStart
    <2>2. /\ premature' = (premature \/ ~Quiet)
          /\ safe_add(LocalCount(Root),
                      ReceiveAll(Root, k)[First(ReceiveAll(Root, k))].count) = 0
      BY <2>1 DEF CheckRoot
    <2> QED
      BY <1>3, <2>1, <2>2, ZeroIsReal DEF TypeInv
  <1>4. ASSUME NEW p \in Process, Reset(p) PROVE FALSE
    BY <1>4 DEF Reset
  <1>5. CASE Barrier
    BY <1>5 DEF Barrier
  <1> QED
    BY <1>1, <1>2, <1>3, <1>4, <1>5 DEF Next

(* The inductive invariant of the detection.                               *)
THEOREM GlobalInvariant == Spec => []GlobalInv
  <1>1. Init => GlobalInv
    <2> SUFFICES ASSUME Init PROVE GlobalInv
      OBVIOUS
    <2>1. /\ TypeInv /\ SweepInv /\ TerminationInv /\ ResetInv /\ FlightInv
      BY SweepInitially, FlightInitially
    <2>2. NumbersInv
      <3>1. Numbers(wire) = {}
        BY DEF Init, Numbers
      <3>2. ASSUME NEW p \in Process PROVE NumbersAt(p)
        BY DEF Init, NumbersAt
      <3> QED
        BY <3>1, <3>2 DEF NumbersInv
    <2>3. CarriedInv
      BY DEF Init, CarriedInv
    <2> QED
      BY <2>1, <2>2, <2>3 DEF GlobalInv
  <1>2. (TypeInv /\ SweepInv => CarriedOK)'
    BY CarriedTyped, PTL
  <1>3. (SweepInv => FreshSweep)'
    BY SweepIsFresh, PTL
  <1>4. GlobalInv /\ [Next]_vars => GlobalInv'
    <2> SUFFICES ASSUME GlobalInv, [Next]_vars PROVE GlobalInv'
      OBVIOUS
    <2>1. /\ TypeInv /\ SweepInv /\ TerminationInv /\ ResetInv
          /\ FlightInv /\ NumbersInv /\ CarriedInv
      BY DEF GlobalInv
    <2>2. TypeInv'
      BY <2>1, TypeStep
    <2>3. SweepInv' /\ TerminationInv' /\ ResetInv'
      BY <2>1, SweepStep, TerminationStep, ResetStep
    <2>4. FlightInv' /\ NumbersInv'
      BY <2>1, <2>2, FlightStep, NumbersStep
    <2>5. CarriedOK /\ CarriedOK' /\ FreshSweep'
      BY <1>2, <1>3, <2>1, <2>2, <2>3, CarriedTyped
    <2>6. CarriedInv'
      BY <2>1, <2>2, <2>3, <2>5, CarriedStep
    <2> QED
      BY <2>2, <2>3, <2>4, <2>6 DEF GlobalInv
  <1> QED
    BY <1>1, <1>4, PTL DEF Spec

(* The decision of the root can only be wrong if a message has gone round  *)
(* that the test of last_regular_message_sweep_number_ cannot catch: for   *)
(* any number of processes, messages and sweeps, and however the messages  *)
(* overtake the sweep.                                                     *)
THEOREM OnlyTheUntestedDeceives == Spec => OnlyHiddenMessagesDeceive
  <1>1. GlobalInv /\ [Next]_vars => [premature' /\ ~premature => hidden]_vars
    BY OnlyHiddenDeceives DEF GlobalInv
  <1> QED
    BY <1>1, GlobalInvariant, PTL DEF Spec, OnlyHiddenMessagesDeceive

-----------------------------------------------------------------------------
(* How many messages there can be *)

(* The copies that are still to be made of a broadcast when p receives it. *)
Fanout(p) == Cardinality(Subtree(p)) - 1

Broadcasts(s) == {i \in DOMAIN s : s[i].broadcast}
Copies(w) ==
  [pq \in Process \X Process |->
     Fanout(pq[2]) * Cardinality(Broadcasts(w[pq[1]][pq[2]]))]

SumSends == SumFunction(local_sends)
SumProcessed == SumFunction(local_processed)
SumCopies == SumFunction(Copies(wire))

(* Every message of the application costs N at most, in messages sent and  *)
(* in messages processed: those that are, those that will be, and those    *)
(* that are on their way.                                                  *)
BudgetInv ==
  /\ SumSends + SumCopies + N * budget <= MaxSent * N
  /\ SumProcessed + SumFlight + SumCopies + N * budget <= MaxSent * N

LEMMA SubtreeIsFinite ==
  ASSUME NEW p \in Process
  PROVE  /\ IsFiniteSet(Subtree(p)) /\ Cardinality(Subtree(p)) \in Nat
         /\ Cardinality(Subtree(p)) > 0
  <1>1. Subtree(p) \subseteq Process
    BY DEF Subtree
  <1>2. IsFiniteSet(Subtree(p))
    BY <1>1, PairsFinite, FS_Subset
  <1>3. Subtree(p) # {}
    BY SubtreeStep
  <1> QED
    BY <1>2, <1>3, FS_CardinalityType, FS_EmptySet

LEMMA FanoutOfRoot == Fanout(Root) = N - 1
  <1>1. N - 1 \in Int /\ N \in Nat /\ Process = 0 .. N - 1 /\ 0 \in Int
    BY NAssumption DEF Process
  <1>2. Cardinality(0 .. N - 1) = IF 0 > N - 1 THEN 0 ELSE (N - 1) - 0 + 1
    BY <1>1, FS_Interval
  <1>3. Cardinality(Process) = N
    BY <1>1, <1>2, NAssumption
  <1> QED
    BY <1>1, <1>3, SubtreeOfRoot DEF Fanout

(* Taking p off its subtree leaves those of its children.                  *)
LEMMA FanoutStep ==
  ASSUME NEW p \in Process
  PROVE  /\ Fanout(p) \in Nat
         /\ \A c \in Children(p) : Children(p) = {c} => Fanout(p) = 1 + Fanout(c)
         /\ \A c, d \in Children(p) :
              c # d /\ Children(p) = {c, d} => Fanout(p) = 2 + Fanout(c) + Fanout(d)
  <1>1. Children(p) \subseteq Process
    BY ChildrenAreProcesses
  <1>2. \A x \in Process :
          x \in Subtree(p) <=> x = p \/ \E c \in Children(p) : x \in Subtree(c)
    BY SubtreeStep
  <1>3. \A q : Subtree(q) \subseteq Process
    BY DEF Subtree
  <1>4. Fanout(p) \in Nat
    BY SubtreeIsFinite DEF Fanout
  <1>5. \A q \in Process : /\ IsFiniteSet(Subtree(q)) /\ Cardinality(Subtree(q)) \in Nat
                           /\ Cardinality(Subtree(q)) > 0
    BY SubtreeIsFinite
  <1>6. ASSUME NEW c \in Children(p), Children(p) = {c}
        PROVE  Fanout(p) = 1 + Fanout(c)
    <2>1. Subtree(p) = Subtree(c) \cup {p}
      <3>1. \A x : x \in Subtree(p) <=> x \in Subtree(c) \cup {p}
        BY <1>2, <1>3, <1>6
      <3> QED
        BY <3>1
    <2>2. p \notin Subtree(c)
      <3>1. c \in Process \ {p, Root} /\ c # p
        BY ChildrenAreProcesses
      <3>2. Parent(c) = p
        BY <3>1, ChildrenMatchParent
      <3>3. p < c
        BY <3>1, <3>2, ParentIsSmaller
      <3>4. \A x \in Subtree(c) : x >= c
        BY <3>1, SubtreeStep
      <3>5. c \in Int /\ p \in Int
        BY <3>1, NAssumption DEF Process
      <3> QED
        BY <3>3, <3>4, <3>5
    <2>3. Cardinality(Subtree(p)) = Cardinality(Subtree(c)) + 1
      BY <1>1, <1>5, <2>1, <2>2, FS_AddElement
    <2> QED
      BY <1>1, <1>5, <2>3 DEF Fanout
  <1>7. ASSUME NEW c \in Children(p), NEW d \in Children(p), c # d, Children(p) = {c, d}
        PROVE  Fanout(p) = 2 + Fanout(c) + Fanout(d)
    <2> DEFINE B == Subtree(c) \cup Subtree(d)
    <2>1. Subtree(p) = B \cup {p}
      <3>1. \A x \in Process : x \in Subtree(p) <=> x = p \/ x \in Subtree(c) \/ x \in Subtree(d)
        BY <1>2, <1>7
      <3>2. Subtree(p) \subseteq Process /\ Subtree(c) \subseteq Process /\ Subtree(d) \subseteq Process
        BY <1>3
      <3> QED
        BY <3>1, <3>2
    <2>2. Subtree(c) \cap Subtree(d) = {} /\ p \notin B
      BY <1>7, SubtreesApart
    <2>3. /\ IsFiniteSet(B)
          /\ Cardinality(B) = Cardinality(Subtree(c)) + Cardinality(Subtree(d))
               - Cardinality(Subtree(c) \cap Subtree(d))
      BY <1>1, <1>5, FS_Union
    <2> HIDE DEF B
    <2>4. Cardinality(B) = Cardinality(Subtree(c)) + Cardinality(Subtree(d))
      <3>1. Cardinality(Subtree(c) \cap Subtree(d)) = 0
        BY <2>2, FS_EmptySet
      <3>2. Cardinality(Subtree(c)) \in Nat /\ Cardinality(Subtree(d)) \in Nat
        BY <1>1, <1>5
      <3> QED
        BY <2>3, <3>1, <3>2
    <2>5. Cardinality(Subtree(p)) = Cardinality(B) + 1
      <3>1. IsFiniteSet(B) /\ p \notin B
        BY <2>2, <2>3
      <3>2. Cardinality(B \cup {p}) = Cardinality(B) + 1
        BY <3>1, FS_AddElement
      <3> QED
        BY <2>1, <3>2
    <2> QED
      BY <1>1, <1>5, <2>4, <2>5 DEF Fanout
  <1> QED
    BY <1>4, <1>6, <1>7

LEMMA BroadcastsChange ==
  ASSUME NEW s \in Seq(Regular)
  PROVE  /\ Cardinality(Broadcasts(s)) \in Nat
         /\ \A m \in Regular :
              Cardinality(Broadcasts(Append(s, m)))
                = Cardinality(Broadcasts(s)) + (IF m.broadcast THEN 1 ELSE 0)
         /\ s # <<>> => Cardinality(Broadcasts(Tail(s)))
                          = Cardinality(Broadcasts(s)) - (IF Head(s).broadcast THEN 1 ELSE 0)
  <1>1. PICK Q : Q = {n \in Regular : n.broadcast}
    OBVIOUS
  <1>2. ASSUME NEW t \in Seq(Regular) PROVE Broadcasts(t) = Marked(t, Q)
    <2>1. \A i \in DOMAIN t : t[i] \in Regular
      OBVIOUS
    <2> QED
      BY <1>1, <2>1 DEF Broadcasts, Marked
  <1>3. ASSUME NEW m \in Regular
        PROVE  Cardinality(Broadcasts(Append(s, m)))
                 = Cardinality(Broadcasts(s)) + (IF m.broadcast THEN 1 ELSE 0)
    <2>1. Append(s, m) \in Seq(Regular) /\ (m \in Q <=> m.broadcast)
      BY <1>1
    <2>2. Cardinality(Marked(Append(s, m), Q))
            = Cardinality(Marked(s, Q)) + (IF m \in Q THEN 1 ELSE 0)
      BY MarkedAppend
    <2>3. Broadcasts(s) = Marked(s, Q) /\ Broadcasts(Append(s, m)) = Marked(Append(s, m), Q)
      BY <1>2, <2>1
    <2> QED
      BY <2>1, <2>2, <2>3
  <1>4. ASSUME s # <<>>
        PROVE  Cardinality(Broadcasts(Tail(s)))
                 = Cardinality(Broadcasts(s)) - (IF Head(s).broadcast THEN 1 ELSE 0)
    <2>1. Tail(s) \in Seq(Regular) /\ Head(s) \in Regular
      BY <1>4
    <2>2. Head(s) \in Q <=> Head(s).broadcast
      BY <1>1, <2>1
    <2>3. Cardinality(Marked(Tail(s), Q))
            = Cardinality(Marked(s, Q)) - (IF Head(s) \in Q THEN 1 ELSE 0)
      BY <1>4, MarkedTail
    <2>4. Broadcasts(s) = Marked(s, Q) /\ Broadcasts(Tail(s)) = Marked(Tail(s), Q)
      BY <1>2, <2>1
    <2> QED
      BY <2>2, <2>3, <2>4
  <1> QED
    BY <1>2, <1>3, <1>4, MarkedFinite

LEMMA CopiesType ==
  ASSUME NEW w \in Wires
  PROVE  /\ Copies(w) \in [Process \X Process -> Nat]
         /\ SumFunction(Copies(w)) \in Nat
  <1>1. \A a, b \in Process : w[a][b] \in Seq(Regular)
    BY DEF Wires
  <1>2. \A a, b \in Process : /\ Cardinality(Broadcasts(w[a][b])) \in Nat
                              /\ Fanout(b) \in Nat
    BY <1>1, BroadcastsChange, FanoutStep
  <1>3. \A i, j \in Nat : i * j \in Nat
    OBVIOUS
  <1>4. \A a, b \in Process : Fanout(b) * Cardinality(Broadcasts(w[a][b])) \in Nat
    BY <1>2, <1>3
  <1>5. Copies(w) \in [Process \X Process -> Nat]
    BY <1>4 DEF Copies
  <1> QED
    BY <1>5, PairsFinite, SumOfNaturals

(* One queue changes, by n broadcasts.                                     *)
LEMMA CopiesAt ==
  ASSUME NEW w \in Wires, NEW v \in Wires, NEW a \in Process, NEW b \in Process, NEW n \in Int,
         Cardinality(Broadcasts(v[a][b])) = Cardinality(Broadcasts(w[a][b])) + n,
         \A c, d \in Process : c # a \/ d # b => v[c][d] = w[c][d]
  PROVE  SumFunction(Copies(v)) = SumFunction(Copies(w)) + Fanout(b) * n
  <1> DEFINE D == Process \X Process
  <1>1. /\ Copies(w) \in [D -> Nat] /\ Copies(v) \in [D -> Nat]
        /\ SumFunction(Copies(w)) \in Nat /\ IsFiniteSet(D)
    BY CopiesType, PairsFinite
  <1>2. /\ Copies(w) \in [D -> Int] /\ Copies(v) \in [D -> Int] /\ <<a, b>> \in D
    <2>1. \A f : f \in [D -> Nat] => f \in [D -> Int]
      OBVIOUS
    <2> QED
      BY <1>1, <2>1
  <1>3. \A x \in D \ {<<a, b>>} : Copies(v)[x] = Copies(w)[x]
    BY DEF Copies
  <1>4. Copies(v)[<<a, b>>] - Copies(w)[<<a, b>>] = Fanout(b) * n
    <2>1. /\ Copies(v)[<<a, b>>] = Fanout(b) * Cardinality(Broadcasts(v[a][b]))
          /\ Copies(w)[<<a, b>>] = Fanout(b) * Cardinality(Broadcasts(w[a][b]))
      BY DEF Copies
    <2>2. w[a][b] \in Seq(Regular)
      BY DEF Wires
    <2>3. Cardinality(Broadcasts(w[a][b])) \in Nat /\ Fanout(b) \in Nat
      BY <2>2, BroadcastsChange, FanoutStep
    <2>4. \A i, j \in Nat : i * (j + n) - i * j = i * n
      OBVIOUS
    <2> QED
      BY <2>1, <2>3, <2>4
  <1>5. Copies(v)[<<a, b>>] \in Int /\ Copies(w)[<<a, b>>] \in Int
    BY <1>2
  <1> HIDE DEF D
  <1>6. SumFunction(Copies(v)) = SumFunction(Copies(w)) + Copies(v)[<<a, b>>] - Copies(w)[<<a, b>>]
    BY <1>1, <1>2, <1>3, SumChanges
  <1> QED
    BY <1>1, <1>4, <1>5, <1>6

(* A copy of m for c, and for the children of p.                           *)
LEMMA CopiesHanded ==
  ASSUME NEW w \in Wires, NEW p \in Process, NEW c \in Process, NEW m \in Regular
  PROVE  SumFunction(Copies(Hand(p, {c}, m, w)))
           = SumFunction(Copies(w)) + (IF m.broadcast THEN Fanout(c) ELSE 0)
  <1> DEFINE v == Hand(p, {c}, m, w)
  <1>1. /\ v \in Wires /\ v[p][c] = Append(w[p][c], m)
        /\ \A q \in Process : q # c => v[p][q] = w[p][q]
        /\ \A r \in Process \ {p} : v[r] = w[r]
    <2>1. PICK to : to = {c} /\ v = Hand(p, to, m, w)
      OBVIOUS
    <2> HIDE DEF v
    <2>2. /\ v \in Wires
          /\ \A q \in Process : v[p][q] = IF q \in to THEN Append(w[p][q], m) ELSE w[p][q]
          /\ \A r \in Process \ {p} : v[r] = w[r]
      BY <2>1, Handed
    <2>3. c \in to /\ \A q \in Process : q # c => q \notin to
      BY <2>1
    <2> QED
      BY <2>2, <2>3
  <1> HIDE DEF v
  <1>2. w[p][c] \in Seq(Regular)
    BY DEF Wires
  <1>3. PICK n \in Int : n = IF m.broadcast THEN 1 ELSE 0
    OBVIOUS
  <1>4. Cardinality(Broadcasts(v[p][c])) = Cardinality(Broadcasts(w[p][c])) + n
    BY <1>1, <1>2, <1>3, BroadcastsChange
  <1>5. \A a, b \in Process : a # p \/ b # c => v[a][b] = w[a][b]
    BY <1>1
  <1>6. SumFunction(Copies(v)) = SumFunction(Copies(w)) + Fanout(c) * n
    BY <1>1, <1>4, <1>5, CopiesAt
  <1>7. Fanout(c) \in Nat /\ (\A i \in Nat : i * 1 = i /\ i * 0 = 0)
    BY FanoutStep
  <1> QED
    BY <1>3, <1>6, <1>7 DEF v

LEMMA CopiesTaken ==
  ASSUME NEW w \in Wires, NEW q \in Process, NEW p \in Process, w[q][p] # <<>>
  PROVE  SumFunction(Copies([w EXCEPT ![q][p] = Tail(@)]))
           = SumFunction(Copies(w)) - (IF Head(w[q][p]).broadcast THEN Fanout(p) ELSE 0)
  <1> DEFINE v == [w EXCEPT ![q][p] = Tail(@)]
  <1>1. /\ v \in Wires /\ v[q][p] = Tail(w[q][p])
        /\ \A a, b \in Process : a # q \/ b # p => v[a][b] = w[a][b]
    <2>1. v \in Wires
      BY Taken1
    <2> QED
      BY <2>1 DEF Wires
  <1> HIDE DEF v
  <1>2. w[q][p] \in Seq(Regular)
    BY DEF Wires
  <1>3. PICK n \in Int : n = IF Head(w[q][p]).broadcast THEN -1 ELSE 0
    OBVIOUS
  <1>4. Cardinality(Broadcasts(v[q][p])) = Cardinality(Broadcasts(w[q][p])) + n
    BY <1>1, <1>2, <1>3, BroadcastsChange
  <1>5. SumFunction(Copies(v)) = SumFunction(Copies(w)) + Fanout(p) * n
    BY <1>1, <1>4, CopiesAt
  <1>6. Fanout(p) \in Nat /\ (\A i \in Nat : i * (-1) = -i /\ i * 0 = 0)
    BY FanoutStep
  <1>7. SumFunction(Copies(w)) \in Nat
    BY CopiesType
  <1> QED
    BY <1>3, <1>5, <1>6, <1>7 DEF v

(* A broadcast that p passes on: its copies are made, the others remain.   *)
LEMMA CopiesPassedOn ==
  ASSUME NEW w \in Wires, NEW p \in Process, NEW m \in Regular, m.broadcast
  PROVE  SumFunction(Copies(Hand(p, Children(p), m, w)))
           = SumFunction(Copies(w)) + Fanout(p) - Cardinality(Children(p))
  <1>1. Children(p) \subseteq Process /\ Fanout(p) \in Nat /\ SumFunction(Copies(w)) \in Nat
    BY ChildrenAreProcesses, FanoutStep, CopiesType
  <1>2. CASE Children(p) = {}
    <2>1. Fanout(p) = 0
      <3>1. \A x \in Process : x \in Subtree(p) <=> x = p
        BY <1>2, SubtreeStep
      <3>2. Subtree(p) = {p}
        BY <3>1 DEF Subtree
      <3> QED
        BY <3>2, FS_Singleton DEF Fanout
    <2>2. Hand(p, {}, m, w) = w
      <3>1. \A q \in Process : Hand(p, {}, m, w)[p][q] = w[p][q]
        BY DEF Hand, Wires
      <3>2. /\ Hand(p, {}, m, w) \in Wires
            /\ \A r \in Process \ {p} : Hand(p, {}, m, w)[r] = w[r]
        BY Handed
      <3>3. Hand(p, {}, m, w)[p] = w[p]
        BY <3>1, <3>2 DEF Wires
      <3> QED
        BY <3>2, <3>3 DEF Wires
    <2> QED
      BY <1>1, <1>2, <2>1, <2>2, FS_EmptySet
  <1>3. ASSUME NEW c \in Children(p), Children(p) = {c}
        PROVE  SumFunction(Copies(Hand(p, Children(p), m, w)))
                 = SumFunction(Copies(w)) + Fanout(p) - Cardinality(Children(p))
    <2>1. SumFunction(Copies(Hand(p, {c}, m, w))) = SumFunction(Copies(w)) + Fanout(c)
      BY <1>1, CopiesHanded
    <2>2. Fanout(p) = 1 + Fanout(c) /\ Fanout(c) \in Nat
      BY <1>1, <1>3, FanoutStep
    <2>3. Cardinality(Children(p)) = 1
      BY <1>3, FS_Singleton
    <2> QED
      BY <1>1, <1>3, <2>1, <2>2, <2>3
  <1>4. ASSUME NEW c \in Children(p), NEW d \in Children(p), c # d, Children(p) = {c, d}
        PROVE  SumFunction(Copies(Hand(p, Children(p), m, w)))
                 = SumFunction(Copies(w)) + Fanout(p) - Cardinality(Children(p))
    <2>1. PICK v : v = Hand(p, {c}, m, w)
      OBVIOUS
    <2>2. v \in Wires /\ SumFunction(Copies(v)) = SumFunction(Copies(w)) + Fanout(c)
      BY <1>1, <2>1, CopiesHanded, Handed
    <2>3. SumFunction(Copies(Hand(p, {d}, m, v))) = SumFunction(Copies(v)) + Fanout(d)
      BY <1>1, <2>2, CopiesHanded
    <2>4. Hand(p, {c, d}, m, w) = Hand(p, {d}, m, v)
      <3>1. PICK h, g : h = Hand(p, {c, d}, m, w) /\ g = Hand(p, {d}, m, v)
        OBVIOUS
      <3>2. /\ h \in Wires /\ g \in Wires
            /\ \A r \in Process \ {p} : h[r] = g[r]
        BY <2>1, <2>2, <3>1, Handed
      <3>3. ASSUME NEW q \in Process PROVE h[p][q] = g[p][q]
        <4>1. h[p][q] = IF q = c \/ q = d THEN Append(w[p][q], m) ELSE w[p][q]
          BY <3>1, Handed
        <4>2. g[p][q] = IF q = d THEN Append(v[p][q], m) ELSE v[p][q]
          BY <2>2, <3>1, Handed
        <4>3. v[p][q] = IF q = c THEN Append(w[p][q], m) ELSE w[p][q]
          BY <2>1, Handed
        <4> QED
          BY <1>4, <4>1, <4>2, <4>3
      <3>4. h[p] \in [Process -> Seq(Regular)] /\ g[p] \in [Process -> Seq(Regular)]
        BY <3>2 DEF Wires
      <3>5. h[p] = g[p]
        BY <3>3, <3>4
      <3>6. h = g
        BY <3>2, <3>5 DEF Wires
      <3> QED
        BY <3>1, <3>6
    <2>5. Fanout(p) = 2 + Fanout(c) + Fanout(d) /\ Fanout(c) \in Nat /\ Fanout(d) \in Nat
      BY <1>1, <1>4, FanoutStep
    <2>6. Cardinality(Children(p)) = 2
      BY <1>4, TwoChildren
    <2> QED
      BY <1>1, <1>4, <2>2, <2>3, <2>4, <2>5, <2>6
  <1> QED
    BY <1>2, <1>3, <1>4, TwoChildren

LEMMA BudgetType ==
  ASSUME TypeInv
  PROVE  /\ wire \in Wires /\ budget \in Nat /\ N \in Nat /\ N > 1 /\ MaxSent * N \in Nat
         /\ SumSends \in Nat /\ SumProcessed \in Nat /\ SumFlight \in Nat /\ SumCopies \in Nat
         /\ SumFlight' = SumFunction(Lengths(wire')) /\ SumCopies' = SumFunction(Copies(wire'))
  <1>1. wire \in Wires /\ 0 \in Int
    BY DEF TypeInv, Wires
  <1>2. MaxSent \in Nat /\ N \in Nat /\ N > 1
    BY BoundsAssumption, NAssumption, SeveralProcesses
  <1>3. \A i, j \in Nat : i * j \in Nat
    OBVIOUS
  <1>4. local_sends \in [Process -> Nat] /\ local_processed \in [Process -> Nat] /\ budget \in Nat
    BY BoundsAssumption DEF TypeInv
  <1>5. SumSends \in Nat /\ SumProcessed \in Nat
    BY <1>4, PairsFinite, SumOfNaturals DEF SumSends, SumProcessed
  <1>6. SumFlight \in Nat /\ SumCopies \in Nat
    BY <1>1, WireSumsType, CopiesType DEF SumFlight, SumCopies
  <1> QED
    BY <1>1, <1>2, <1>3, <1>4, <1>5, <1>6 DEF SumFlight, SumCopies

(* One summand grows by n.                                                 *)
LEMMA CountGrows ==
  ASSUME NEW f \in [Process -> Nat], NEW p \in Process, NEW n \in Nat
  PROVE  SumFunction([f EXCEPT ![p] = @ + n]) = SumFunction(f) + n
  <1> DEFINE h == [f EXCEPT ![p] = @ + n]
  <1>1. /\ f \in [Process -> Int] /\ h \in [Process -> Int] /\ h[p] = f[p] + n
        /\ f[p] \in Int /\ \A x \in Process \ {p} : h[x] = f[x]
    OBVIOUS
  <1> HIDE DEF h
  <1>2. SumFunction(f) \in Int /\ SumFunction(h) = SumFunction(f) + h[p] - f[p]
    BY <1>1, SumOfOneMore
  <1>3. SumFunction(h) = SumFunction(f) + n
    BY <1>1, <1>2
  <1> QED
    BY <1>3 DEF h

(* A message is sent that is going to cost x more, and it is paid for.     *)
LEMMA BudgetOfSent ==
  ASSUME TypeInv, BudgetInv, NEW p \in Process, NEW to \in SUBSET Process, NEW m \in Regular,
         wire' = Hand(p, to, m, wire),
         local_sends' = [local_sends EXCEPT ![p] = @ + Cardinality(to)],
         local_processed' = local_processed, budget' = budget - 1,
         NEW x \in Int, SumFunction(Copies(wire')) = SumCopies + x,
         Cardinality(to) + x <= N
  PROVE  BudgetInv'
  <1>1. Cardinality(to) \in Nat
    BY PairsFinite, FS_Subset, FS_CardinalityType
  <1>2. /\ wire \in Wires /\ budget \in Nat /\ N \in Nat /\ N > 1 /\ MaxSent * N \in Nat
        /\ SumSends \in Nat /\ SumProcessed \in Nat /\ SumFlight \in Nat /\ SumCopies \in Nat
        /\ SumFlight' = SumFunction(Lengths(wire')) /\ SumCopies' = SumFunction(Copies(wire'))
    BY BudgetType
  <1>3. 0 \in Int
    OBVIOUS
  <1>4. SumFunction(Lengths(Hand(p, to, m, wire))) = SumFunction(Lengths(wire)) + Cardinality(to)
    BY <1>2, <1>3, HandSums
  <1>5. SumFlight' = SumFlight + Cardinality(to)
    BY <1>2, <1>4 DEF SumFlight
  <1>6. SumSends' = SumSends + Cardinality(to)
    BY <1>1, CountGrows DEF SumSends, TypeInv
  <1>7. SumProcessed' = SumProcessed /\ SumCopies' = SumCopies + x
    BY <1>2 DEF SumProcessed
  <1>8. N * budget' = N * budget - N /\ N * budget \in Nat
    <2>1. \A i, j \in Nat : i * (j - 1) = i * j - i /\ i * j \in Nat
      OBVIOUS
    <2> QED
      BY <1>2, <2>1
  <1> QED
    BY <1>1, <1>2, <1>5, <1>6, <1>7, <1>8 DEF BudgetInv

LEMMA BudgetSend ==
  ASSUME TypeInv, BudgetInv, NEW p \in Process, NEW q \in Process, Send(p, q)
  PROVE  BudgetInv'
  <1>1. PICK m : m = [sweep |-> local_sweep_number[p], broadcast |-> FALSE]
    OBVIOUS
  <1>2. m \in Regular /\ ~m.broadcast
    BY <1>1 DEF TypeInv, Regular
  <1>3. Cardinality({q}) = 1
    BY FS_Singleton
  <1>4. /\ wire' = Hand(p, {q}, m, wire) /\ budget' = budget - 1
        /\ local_sends' = [local_sends EXCEPT ![p] = @ + Cardinality({q})]
        /\ local_processed' = local_processed
    BY <1>1, <1>3 DEF Send
  <1>5. wire \in Wires /\ N > 1 /\ SumCopies \in Nat /\ N \in Nat
    BY BudgetType
  <1>6. SumFunction(Copies(Hand(p, {q}, m, wire)))
          = SumFunction(Copies(wire)) + (IF m.broadcast THEN Fanout(q) ELSE 0)
    BY <1>2, <1>5, CopiesHanded
  <1>7. SumFunction(Copies(wire')) = SumCopies + 0
    BY <1>2, <1>4, <1>6 DEF SumCopies
  <1>8. Cardinality({q}) + 0 <= N /\ 0 \in Int
    BY <1>3, <1>5
  <1> QED
    BY <1>2, <1>4, <1>7, <1>8, BudgetOfSent

LEMMA BudgetBroadcast ==
  ASSUME TypeInv, BudgetInv, NEW p \in Process, Broadcast(p)
  PROVE  BudgetInv'
  <1>1. PICK m : m = [sweep |-> local_sweep_number[p], broadcast |-> TRUE]
    OBVIOUS
  <1>2. m \in Regular /\ m.broadcast
    BY <1>1 DEF TypeInv, Regular
  <1>3. PICK to : to = IF p = Root THEN Children(Root) ELSE {Root}
    OBVIOUS
  <1>4. /\ wire' = Hand(p, to, m, wire) /\ budget' = budget - 1
        /\ local_sends' = [local_sends EXCEPT ![p] = @ + Cardinality(to)]
        /\ local_processed' = local_processed
    BY <1>1, <1>3 DEF Broadcast
  <1>5. wire \in Wires /\ N > 1 /\ SumCopies \in Nat /\ N \in Nat
    BY BudgetType
  <1>6. to \in SUBSET Process
    BY <1>3, RootIsProcess, ChildrenAreProcesses
  <1>7. Fanout(Root) = N - 1
    BY FanoutOfRoot
  <1>8. CASE p = Root
    <2>1. to = Children(p) /\ Cardinality(to) \in Nat
      BY <1>3, <1>8, ChildrenCount
    <2>2. SumFunction(Copies(Hand(p, Children(p), m, wire)))
            = SumFunction(Copies(wire)) + Fanout(p) - Cardinality(Children(p))
      BY <1>2, <1>5, CopiesPassedOn
    <2>3. PICK x \in Int : x = N - 1 - Cardinality(to)
      BY <1>5, <2>1
    <2>4. SumFunction(Copies(wire')) = SumCopies + x
      BY <1>4, <1>5, <1>7, <1>8, <2>1, <2>2, <2>3 DEF SumCopies
    <2>5. Cardinality(to) + x <= N
      BY <1>5, <2>1, <2>3
    <2> QED
      BY <1>2, <1>4, <1>6, <2>4, <2>5, BudgetOfSent
  <1>9. CASE p # Root
    <2>1. to = {Root} /\ Cardinality(to) = 1
      BY <1>3, <1>9, FS_Singleton
    <2>2. SumFunction(Copies(Hand(p, {Root}, m, wire)))
            = SumFunction(Copies(wire)) + (IF m.broadcast THEN Fanout(Root) ELSE 0)
      BY <1>2, <1>5, RootIsProcess, CopiesHanded
    <2>3. PICK x \in Int : x = N - 1
      BY <1>5
    <2>4. SumFunction(Copies(wire')) = SumCopies + x
      BY <1>2, <1>4, <1>7, <2>1, <2>2, <2>3 DEF SumCopies
    <2>5. Cardinality(to) + x <= N
      BY <1>5, <2>1, <2>3
    <2> QED
      BY <1>2, <1>4, <1>6, <2>4, <2>5, BudgetOfSent
  <1> QED
    BY <1>8, <1>9

(* A message that is received costs nothing that has not been counted on.  *)
LEMMA BudgetReceive ==
  ASSUME TypeInv, BudgetInv, NEW p \in Process, NEW q \in Process, Receive(p, q)
  PROVE  BudgetInv'
  <1>1. PICK m, to, rest :
          /\ m = Head(wire[q][p]) /\ to = (IF m.broadcast THEN Children(p) ELSE {})
          /\ rest = [wire EXCEPT ![q][p] = Tail(@)]
    OBVIOUS
  <1>2. /\ wire \in Wires /\ budget \in Nat /\ N \in Nat /\ N > 1 /\ MaxSent * N \in Nat
        /\ SumSends \in Nat /\ SumProcessed \in Nat /\ SumFlight \in Nat /\ SumCopies \in Nat
        /\ SumFlight' = SumFunction(Lengths(wire')) /\ SumCopies' = SumFunction(Copies(wire'))
        /\ 0 \in Int
    BY BudgetType
  <1>3. /\ wire[q][p] # <<>> /\ wire' = Hand(p, to, m, rest)
        /\ local_sends' = [local_sends EXCEPT ![p] = @ + Cardinality(to)]
        /\ local_processed' = [local_processed EXCEPT ![p] = @ + 1]
        /\ budget' = budget
    BY <1>1 DEF Receive
  <1>4. rest \in Wires /\ m \in Regular
    BY <1>1, <1>2, <1>3, Taken1
  <1>5. to \in SUBSET Process
    BY <1>1, ChildrenAreProcesses
  <1>6. Cardinality(to) \in Nat
    BY <1>5, PairsFinite, FS_Subset, FS_CardinalityType
  <1>7. SumFunction(Lengths(rest)) = SumFlight - 1
    BY <1>1, <1>2, <1>3, TakeSums DEF SumFlight
  <1>8. SumFlight' = SumFlight - 1 + Cardinality(to)
    <2>1. SumFunction(Lengths(Hand(p, to, m, rest)))
            = SumFunction(Lengths(rest)) + Cardinality(to)
      BY <1>2, <1>4, <1>5, HandSums
    <2> QED
      BY <1>2, <1>3, <1>7, <2>1
  <1>9. SumFunction(Copies(rest)) = SumCopies - (IF m.broadcast THEN Fanout(p) ELSE 0)
    BY <1>1, <1>2, <1>3, CopiesTaken DEF SumCopies
  <1>10. Fanout(p) \in Nat
    BY FanoutStep
  <1>11. SumCopies' = SumCopies - Cardinality(to)
    <2>1. CASE m.broadcast
      <3>1. SumFunction(Copies(Hand(p, Children(p), m, rest)))
              = SumFunction(Copies(rest)) + Fanout(p) - Cardinality(Children(p))
        BY <1>4, <2>1, CopiesPassedOn
      <3>2. to = Children(p)
        BY <1>1, <2>1
      <3> QED
        BY <1>2, <1>3, <1>6, <1>9, <1>10, <2>1, <3>1, <3>2
    <2>2. CASE ~m.broadcast
      <3>1. to = {} /\ Cardinality(to) = 0
        BY <1>1, <2>2, FS_EmptySet
      <3>2. wire' = rest
        <4>1. /\ wire' \in Wires /\ \A r \in Process \ {p} : wire'[r] = rest[r]
              /\ \A r \in Process : wire'[p][r] = rest[p][r]
          BY <1>3, <1>4, <3>1, Handed
        <4>2. wire'[p] = rest[p]
          BY <1>4, <4>1 DEF Wires
        <4> QED
          BY <1>4, <4>1, <4>2 DEF Wires
      <3> QED
        BY <1>2, <1>9, <2>2, <3>1, <3>2
    <2> QED
      BY <2>1, <2>2
  <1>12. SumSends' = SumSends + Cardinality(to) /\ SumProcessed' = SumProcessed + 1
    BY <1>3, <1>6, CountGrows DEF SumSends, SumProcessed, TypeInv
  <1>13. N * budget' = N * budget /\ N * budget \in Nat
    <2>1. \A i, j \in Nat : i * j \in Nat
      OBVIOUS
    <2> QED
      BY <1>2, <1>3, <2>1
  <1> QED
    BY <1>2, <1>6, <1>8, <1>11, <1>12, <1>13 DEF BudgetInv

LEMMA BudgetUnmoved ==
  ASSUME BudgetInv, UNCHANGED <<local_sends, local_processed, wire, budget>>
  PROVE  BudgetInv'
  BY DEF BudgetInv, SumSends, SumProcessed, SumFlight, SumCopies

(* A process that resets itself forgets what it has counted.               *)
LEMMA BudgetReset ==
  ASSUME TypeInv, BudgetInv, NEW p \in Process, Reset(p)
  PROVE  BudgetInv'
  <1>1. ASSUME NEW f \in [Process -> Nat]
        PROVE  /\ SumFunction([f EXCEPT ![p] = 0]) \in Int
               /\ SumFunction([f EXCEPT ![p] = 0]) <= SumFunction(f)
    <2> DEFINE h == [f EXCEPT ![p] = 0]
    <2>1. /\ f \in [Process -> Int] /\ h \in [Process -> Int] /\ h[p] = 0
          /\ f[p] \in Nat /\ \A x \in Process \ {p} : h[x] = f[x]
      OBVIOUS
    <2> HIDE DEF h
    <2>2. SumFunction(f) \in Int /\ SumFunction(h) = SumFunction(f) + h[p] - f[p]
      BY <2>1, SumOfOneMore
    <2>3. SumFunction(h) \in Int /\ SumFunction(h) <= SumFunction(f)
      BY <2>1, <2>2
    <2> QED
      BY <2>3 DEF h
  <1>2. /\ SumSends' \in Int /\ SumSends' <= SumSends
        /\ SumProcessed' \in Int /\ SumProcessed' <= SumProcessed
    BY <1>1 DEF Reset, TypeInv, SumSends, SumProcessed
  <1>3. SumFlight' = SumFlight /\ SumCopies' = SumCopies /\ budget' = budget
    BY DEF Reset, SumFlight, SumCopies
  <1>4. /\ budget \in Nat /\ N \in Nat /\ MaxSent * N \in Nat
        /\ SumSends \in Nat /\ SumProcessed \in Nat /\ SumFlight \in Nat /\ SumCopies \in Nat
    BY BudgetType
  <1>5. N * budget' = N * budget /\ N * budget \in Nat
    <2>1. \A i, j \in Nat : i * j \in Nat
      OBVIOUS
    <2> QED
      BY <1>3, <1>4, <2>1
  <1> QED
    BY <1>2, <1>3, <1>4, <1>5 DEF BudgetInv

LEMMA BudgetStep ==
  ASSUME TypeInv, BudgetInv, [Next]_vars
  PROVE  BudgetInv'
  <1>1. ASSUME NEW p \in Process, NEW q \in Process, Send(p, q) PROVE BudgetInv'
    BY <1>1, BudgetSend
  <1>2. ASSUME NEW p \in Process, Broadcast(p) PROVE BudgetInv'
    BY <1>2, BudgetBroadcast
  <1>3. ASSUME NEW p \in Process, NEW q \in Process, Receive(p, q) PROVE BudgetInv'
    BY <1>3, BudgetReceive
  <1>4. ASSUME NEW p \in Process, BecomeQuiescent(p) PROVE BudgetInv'
    BY <1>4, BudgetUnmoved DEF BecomeQuiescent
  <1>5. ASSUME NEW p \in Process, NEW k \in Arrivals(p), Check(p, k) PROVE BudgetInv'
    <2>1. UNCHANGED appVars
      BY <1>5 DEF Check, CheckInVain, CheckTerminated, CheckLeaf, CheckDown, CheckIncomplete,
                  CheckInner, CheckStart, CheckRoot, vars
    <2> QED
      BY <2>1, BudgetUnmoved DEF appVars
  <1>6. ASSUME NEW p \in Process, Reset(p) PROVE BudgetInv'
    BY <1>6, BudgetReset
  <1>7. CASE Barrier
    BY <1>7, BudgetUnmoved DEF Barrier
  <1>8. CASE UNCHANGED vars
    BY <1>8, BudgetUnmoved DEF vars, appVars
  <1> QED
    BY <1>1, <1>2, <1>3, <1>4, <1>5, <1>6, <1>7, <1>8 DEF Next

LEMMA BudgetInitially ==
  ASSUME Init
  PROVE  BudgetInv
  <1>1. \A p, q \in Process : wire[p][q] = <<>>
    BY DEF Init
  <1>2. TypeInv
    BY SweepInitially
  <1>3. /\ wire \in Wires /\ N \in Nat /\ MaxSent * N \in Nat /\ MaxSent \in Nat
    BY <1>2, BudgetType, BoundsAssumption
  <1>4. SumFlight = 0
    BY <1>1, <1>3, EmptyWires DEF SumFlight
  <1>5. SumCopies = 0
    <2>1. Broadcasts(<<>>) = {}
      BY DEF Broadcasts
    <2>2. \A i \in Nat : i * 0 = 0
      OBVIOUS
    <2>3. \A a, b \in Process : Fanout(b) * Cardinality(Broadcasts(wire[a][b])) = 0
      BY <1>1, <2>1, <2>2, FS_EmptySet, FanoutStep
    <2>4. \A x \in Process \X Process : Copies(wire)[x] = 0
      BY <2>3 DEF Copies
    <2>5. Copies(wire) \in [Process \X Process -> Int]
      BY <2>3 DEF Copies
    <2> QED
      BY <2>4, <2>5, PairsFinite, SumOfZeros DEF SumCopies
  <1>6. SumSends = 0 /\ SumProcessed = 0
    <2>1. PICK f : f = [p \in Process |-> 0]
      OBVIOUS
    <2>2. f \in [Process -> Int] /\ \A x \in Process : f[x] = 0
      BY <2>1
    <2>3. SumFunction(f) = 0
      BY <2>2, PairsFinite, SumOfZeros
    <2> QED
      BY <2>1, <2>3 DEF Init, SumSends, SumProcessed
  <1>7. N * budget = MaxSent * N
    <2>1. \A i, j \in Nat : i * j = j * i
      OBVIOUS
    <2> QED
      BY <1>3, <2>1 DEF Init
  <1> QED
    BY <1>3, <1>4, <1>5, <1>6, <1>7 DEF BudgetInv

-----------------------------------------------------------------------------
(* How large the counts can be *)

(* g measures a count from above or from below, own what a process has     *)
(* counted; what is not known measures nothing.                            *)
Measures(g, own) ==
  /\ g \in [Int -> Nat] /\ own \in [Process -> Nat]
  /\ g[0] = 0 /\ g[Int64Max] = 0
  /\ \A a, b \in Int : g[safe_add(a, b)] <= g[a] + g[b]
  /\ \A p \in Process : g[Live(p)] <= own[p]

(* What the sweep makes of it: once a process has reported, its count is   *)
(* in the messages and sums on the way up.                                 *)
Share(g, own, p) ==
  (IF p \in reported THEN 0 ELSE own[p]) + g[UpCount(p)] + g[KeptCount(p)]
Shares(g, own) == [p \in Process |-> Share(g, own, p)]

Positive == [x \in Int |-> IF x > 0 /\ x # Int64Max THEN x ELSE 0]
Negative == [x \in Int |-> IF x < 0 THEN -x ELSE 0]

(* No count that goes up is more than what has been sent, nor less than    *)
(* what has been processed, for what is on the way up adds up to no more.  *)
SharesInv ==
  /\ SumFunction(Shares(Positive, local_sends)) <= SumSends
  /\ SumFunction(Shares(Negative, local_processed)) <= SumProcessed

LEMMA SumMonotone ==
  ASSUME NEW f \in [Process -> Int], NEW h \in [Process -> Int],
         \A x \in Process : f[x] <= h[x]
  PROVE  SumFunction(f) <= SumFunction(h)
  <1>1. IsFiniteSet(Process)
    BY PairsFinite
  <1>2. PICK F : Running(F, f, Process) /\ SumFunction(f) = F[Process]
    BY <1>1, SumRuns, Zenon
  <1>3. PICK H : Running(H, h, Process) /\ SumFunction(h) = H[Process]
    BY <1>1, SumRuns, Zenon
  <1>4. /\ F[{}] = 0 /\ H[{}] = 0
        /\ \A s \in SUBSET Process : F[s] \in Int /\ H[s] \in Int
        /\ \A s \in SUBSET Process : \A x \in s :
             F[s] = f[x] + F[s \ {x}] /\ H[s] = h[x] + H[s \ {x}]
    BY <1>2, <1>3 DEF Running
  <1> DEFINE S == {s \in SUBSET Process : F[s] <= H[s]}
  <1>5. {} \in S
    BY <1>4
  <1>6. ASSUME NEW s \in SUBSET Process, NEW x \in s, s \ {x} \in S PROVE s \in S
    <2>1. PICK t : t = s \ {x}
      OBVIOUS
    <2>2. t \in SUBSET Process /\ F[t] <= H[t]
      BY <1>6, <2>1
    <2>3. /\ F[s] = f[x] + F[t] /\ H[s] = h[x] + H[t] /\ F[t] \in Int /\ H[t] \in Int
          /\ f[x] \in Int /\ h[x] \in Int /\ f[x] <= h[x]
      BY <1>4, <2>1, <2>2
    <2> QED
      BY <2>2, <2>3
  <1> HIDE DEF S
  <1>7. SUBSET Process \subseteq S
    BY <1>1, <1>5, <1>6, SubsetInduction
  <1>8. Process \in S
    BY <1>7
  <1> QED
    BY <1>2, <1>3, <1>8 DEF S

(* Both measure, whatever the counts are.                                  *)
LEMMA BothMeasure ==
  ASSUME TypeInv
  PROVE  Measures(Positive, local_sends) /\ Measures(Negative, local_processed)
  <1>1. Int64Max > 0 /\ Int64Max \in Int
    BY MaxIsPositive
  <1>2. Positive \in [Int -> Nat] /\ Negative \in [Int -> Nat]
    BY DEF Positive, Negative
  <1>3. /\ local_sends \in [Process -> Nat] /\ local_processed \in [Process -> Nat]
        /\ \A p \in Process : local_sends[p] \in Nat /\ local_processed[p] \in Nat
    BY DEF TypeInv
  <1>4. /\ Positive[0] = 0 /\ Positive[Int64Max] = 0
        /\ Negative[0] = 0 /\ Negative[Int64Max] = 0
    BY <1>1 DEF Positive, Negative
  <1>5. ASSUME NEW a \in Int, NEW b \in Int
        PROVE  /\ Positive[safe_add(a, b)] <= Positive[a] + Positive[b]
               /\ Negative[safe_add(a, b)] <= Negative[a] + Negative[b]
    <2>1. Positive[a] \in Nat /\ Positive[b] \in Nat /\ Negative[a] \in Nat /\ Negative[b] \in Nat
      BY <1>2
    <2>2. CASE a = Int64Max \/ b = Int64Max
      <3>1. safe_add(a, b) = Int64Max
        BY <2>2 DEF safe_add
      <3> QED
        BY <1>4, <2>1, <3>1
    <2>3. CASE ~(a = Int64Max \/ b = Int64Max)
      <3>1. safe_add(a, b) = a + b /\ a + b \in Int
        BY <2>3 DEF safe_add
      <3>2. /\ Positive[a] = (IF a > 0 THEN a ELSE 0) /\ Positive[b] = (IF b > 0 THEN b ELSE 0)
            /\ Positive[a + b] = (IF a + b > 0 /\ a + b # Int64Max THEN a + b ELSE 0)
        BY <2>3, <3>1 DEF Positive
      <3>3. /\ Negative[a] = (IF a < 0 THEN -a ELSE 0) /\ Negative[b] = (IF b < 0 THEN -b ELSE 0)
            /\ Negative[a + b] = (IF a + b < 0 THEN -(a + b) ELSE 0)
        BY <3>1 DEF Negative
      <3> QED
        BY <3>1, <3>2, <3>3
    <2> QED
      BY <2>2, <2>3
  <1>6. ASSUME NEW p \in Process
        PROVE  Positive[Live(p)] <= local_sends[p] /\ Negative[Live(p)] <= local_processed[p]
    <2>1. Live(p) = local_sends[p] - local_processed[p] /\ Live(p) \in Int
      BY <1>3 DEF Live
    <2>2. /\ Positive[Live(p)] = (IF Live(p) > 0 /\ Live(p) # Int64Max THEN Live(p) ELSE 0)
          /\ Negative[Live(p)] = (IF Live(p) < 0 THEN -Live(p) ELSE 0)
      BY <2>1 DEF Positive, Negative
    <2> QED
      BY <1>3, <2>1, <2>2
  <1> QED
    BY <1>2, <1>3, <1>4, <1>5, <1>6 DEF Measures

LEMMA SharesType ==
  ASSUME TypeInv, SweepInv, NEW g, NEW own, Measures(g, own)
  PROVE  /\ Shares(g, own) \in [Process -> Nat] /\ Shares(g, own) \in [Process -> Int]
         /\ SumFunction(Shares(g, own)) \in Nat
         /\ \A p \in Process : /\ Shares(g, own)[p] = Share(g, own, p)
                               /\ g[UpCount(p)] \in Nat /\ g[KeptCount(p)] \in Nat
                               /\ own[p] \in Nat
  <1>1. ASSUME NEW p \in Process
        PROVE  /\ g[UpCount(p)] \in Nat /\ g[KeptCount(p)] \in Nat /\ own[p] \in Nat
               /\ Share(g, own, p) \in Nat
    <2>1. UpCount(p) \in Int /\ KeptCount(p) \in Int
      BY CarriedTyped DEF CarriedOK
    <2>2. g[UpCount(p)] \in Nat /\ g[KeptCount(p)] \in Nat /\ own[p] \in Nat
      BY <2>1 DEF Measures
    <2> QED
      BY <2>2 DEF Share
  <1>2. Shares(g, own) \in [Process -> Nat] /\ \A p \in Process : Shares(g, own)[p] = Share(g, own, p)
    BY <1>1 DEF Shares
  <1>3. Shares(g, own) \in [Process -> Int]
    BY <1>2
  <1> QED
    BY <1>1, <1>2, <1>3, PairsFinite, SumOfNaturals

(* h is f with the value of c taken over by p.                             *)
Moved(f, h, p, c) ==
  /\ h \in [Process -> Int] /\ h[p] = f[p] + f[c] /\ h[c] = 0
  /\ \A x \in Process \ {p, c} : h[x] = f[x]

LEMMA MovedBy ==
  ASSUME NEW f \in [Process -> Int], NEW p \in Process, NEW c \in Process, c # p
  PROVE  \E h : Moved(f, h, p, c) /\ SumFunction(h) = SumFunction(f)
  <1>1. f[p] \in Int /\ f[c] \in Int
    OBVIOUS
  <1>2. PICK v \in Int : v = f[p] + f[c]
    BY <1>1
  <1> DEFINE h == [[f EXCEPT ![c] = 0] EXCEPT ![p] = v]
  <1>3. h \in [Process -> Int]
    OBVIOUS
  <1>4. h[p] = v /\ h[c] = 0 /\ \A x \in Process \ {p, c} : h[x] = f[x]
    OBVIOUS
  <1> HIDE DEF h
  <1>5. Moved(f, h, p, c)
    BY <1>2, <1>3, <1>4 DEF Moved
  <1>6. SumFunction(h) = SumFunction(f)
    BY <1>2, <1>3, <1>4, SumMoves
  <1> QED
    BY <1>5, <1>6

(* A process that gathers counts takes over the shares of its children.    *)
LEMMA GatheredShares ==
  ASSUME TypeInv, SweepInv, NEW g, NEW own, Measures(g, own),
         NEW st \in [Process -> Status], Sweeping(st),
         NEW p \in Process, NEW k \in Arrivals(p), Arrived(p, k), Taken(p, k) # {},
         NEW x \in Int, Gathers(p, k, x),
         NEW h \in [Process -> Int],
         h[p] <= own[p] + g[x],
         \A c \in Taken(p, k) : h[c] = 0,
         \A q \in Process \ ({p} \cup Taken(p, k)) : h[q] <= Share(g, own, q)
  PROVE  SumFunction(h) <= SumFunction(Shares(g, own))
  <1>1. PICK f : f = Shares(g, own)
    OBVIOUS
  <1>2. /\ f \in [Process -> Int]
        /\ \A q \in Process : /\ f[q] = Share(g, own, q) /\ f[q] \in Int /\ own[q] \in Nat
                              /\ UpCount(q) \in Int /\ KeptCount(q) \in Int
                              /\ g[UpCount(q)] \in Nat /\ g[KeptCount(q)] \in Nat
    BY <1>1, SharesType, CarriedTyped DEF CarriedOK
  <1>3. f[p] = own[p] + g[KeptCount(p)]
    <2>1. p \notin reported /\ up[p] = <<>>
      BY TakesFromBelow DEF NothingAt
    <2>2. UpCount(p) = 0 /\ g[0] = 0
      BY <2>1 DEF UpCount, Measures
    <2> QED
      BY <1>2, <2>1, <2>2 DEF Share
  <1>4. ASSUME NEW c \in Taken(p, k)
        PROVE  /\ c \in Process /\ c # p /\ UpCount(c) = up[c][1].count
               /\ f[c] = g[UpCount(c)]
    <2>1. c \in Process \ {p, Root}
      BY ChildrenAreProcesses DEF Taken
    <2>2. st[c] = "up" /\ Stands(c, st)
      BY <2>1, Arrives DEF Sweeping
    <2>3. up[c] # <<>>
      BY <2>1, <2>2, OneMessageUp
    <2>4. UpCount(c) = up[c][1].count
      BY <2>3 DEF UpCount
    <2>5. c \in reported /\ NothingKept(c)
      BY <2>2 DEF Stands
    <2>6. KeptCount(c) = 0 /\ g[0] = 0
      BY <2>5 DEF KeptCount, Measures
    <2>7. f[c] = g[UpCount(c)]
      BY <1>2, <2>1, <2>5, <2>6 DEF Share
    <2> QED
      BY <2>1, <2>4, <2>7
  <1>5. \A a, b \in Int : safe_add(a, b) \in Int /\ g[safe_add(a, b)] <= g[a] + g[b] /\ g[a] \in Nat
    BY SafeAddType DEF Measures
  <1>6. CASE \E c \in Children(p) :
               /\ Taken(p, k) = {c}
               /\ x = safe_add(KeptCount(p), up[c][1].count)
    <2>1. PICK c \in Children(p) : Taken(p, k) = {c} /\ x = safe_add(KeptCount(p), up[c][1].count)
      BY <1>6
    <2>2. /\ c \in Process /\ c # p /\ f[c] = g[UpCount(c)]
          /\ x = safe_add(KeptCount(p), UpCount(c)) /\ h[c] = 0
      BY <1>4, <2>1
    <2>3. g[x] <= g[KeptCount(p)] + g[UpCount(c)] /\ g[x] \in Nat
      BY <1>2, <1>5, <2>2
    <2>4. PICK e : Moved(f, e, p, c) /\ SumFunction(e) = SumFunction(f)
      BY <1>2, <2>2, MovedBy
    <2>5. /\ e \in [Process -> Int] /\ e[p] = f[p] + f[c] /\ e[c] = 0
          /\ \A q \in Process \ {p, c} : e[q] = f[q]
      BY <2>4 DEF Moved
    <2>6. ASSUME NEW q \in Process PROVE h[q] <= e[q]
      <3>1. CASE q = p
        BY <1>2, <1>3, <2>2, <2>3, <2>5, <3>1
      <3>2. CASE q = c
        BY <2>2, <2>5, <3>2
      <3>3. CASE q # p /\ q # c
        BY <1>2, <2>1, <2>5, <3>3
      <3> QED
        BY <3>1, <3>2, <3>3
    <2>7. SumFunction(h) <= SumFunction(e)
      BY <2>5, <2>6, SumMonotone
    <2> QED
      BY <1>1, <2>4, <2>7
  <1>7. CASE \E c, d \in Children(p) :
               /\ c # d /\ Taken(p, k) = {c, d} /\ Children(p) = {c, d}
               /\ NothingKept(p)
               /\ x = safe_add(safe_add(KeptCount(p), up[c][1].count), up[d][1].count)
    <2>1. PICK c, d \in Children(p) :
               /\ c # d /\ Taken(p, k) = {c, d}
               /\ x = safe_add(safe_add(KeptCount(p), up[c][1].count), up[d][1].count)
      BY <1>7
    <2>2. /\ c \in Process /\ c # p /\ f[c] = g[UpCount(c)] /\ h[c] = 0
          /\ d \in Process /\ d # p /\ f[d] = g[UpCount(d)] /\ h[d] = 0
          /\ x = safe_add(safe_add(KeptCount(p), UpCount(c)), UpCount(d))
      BY <1>4, <2>1
    <2>3. g[x] <= g[KeptCount(p)] + g[UpCount(c)] + g[UpCount(d)] /\ g[x] \in Nat
      <3>1. PICK y \in Int : y = safe_add(KeptCount(p), UpCount(c))
        BY <1>2, <1>5, <2>2
      <3>2. g[y] <= g[KeptCount(p)] + g[UpCount(c)] /\ g[y] \in Nat
        BY <1>2, <1>5, <2>2, <3>1
      <3>3. g[x] <= g[y] + g[UpCount(d)] /\ g[x] \in Nat
        BY <1>2, <1>5, <2>2, <3>1
      <3> QED
        BY <1>2, <2>2, <3>2, <3>3
    <2>4. PICK e : Moved(f, e, p, c) /\ SumFunction(e) = SumFunction(f)
      BY <1>2, <2>2, MovedBy
    <2>5. /\ e \in [Process -> Int] /\ e[p] = f[p] + f[c] /\ e[c] = 0
          /\ \A q \in Process \ {p, c} : e[q] = f[q]
      BY <2>4 DEF Moved
    <2>6. PICK i : Moved(e, i, p, d) /\ SumFunction(i) = SumFunction(e)
      BY <2>2, <2>5, MovedBy
    <2>7. /\ i \in [Process -> Int] /\ i[p] = e[p] + e[d] /\ i[d] = 0
           /\ \A q \in Process \ {p, d} : i[q] = e[q]
      BY <2>6 DEF Moved
    <2>8. i[p] = f[p] + f[c] + f[d] /\ f[p] \in Int /\ f[c] \in Int /\ f[d] \in Int
      <3>1. e[d] = f[d]
        BY <2>1, <2>2, <2>5
      <3> QED
        BY <1>2, <2>2, <2>5, <2>7, <3>1
    <2>9. ASSUME NEW q \in Process PROVE h[q] <= i[q]
      <3>1. CASE q = p
        BY <1>2, <1>3, <2>2, <2>3, <2>8, <3>1
      <3>2. CASE q = d
        BY <2>2, <2>7, <3>2
      <3>3. CASE q = c
        BY <2>1, <2>2, <2>5, <2>7, <3>3
      <3>4. CASE q # p /\ q # c /\ q # d
        BY <1>2, <2>1, <2>5, <2>7, <3>4
      <3> QED
        BY <3>1, <3>2, <3>3, <3>4
    <2>10. SumFunction(h) <= SumFunction(i)
      BY <2>9, <2>7, SumMonotone
    <2> QED
      BY <1>1, <2>4, <2>6, <2>10
  <1> QED
    BY <1>6, <1>7 DEF Gathers

(* The shares after a step, for what a process has counted by then.        *)
LEMMA SharesAfter ==
  ASSUME CarriedOK', NEW g \in [Int -> Nat], NEW own \in [Process -> Nat]
  PROVE  \E h : /\ h \in [Process -> Int] /\ h = Shares(g, own)'
                /\ \A q \in Process :
                     /\ h[q] = (IF q \in reported' THEN 0 ELSE own[q])
                                 + g[UpCount(q)'] + g[KeptCount(q)']
                     /\ own[q] \in Nat
                     /\ g[UpCount(q)'] \in Nat /\ g[KeptCount(q)'] \in Nat
  <1> DEFINE h == Shares(g, own)'
  <1>1. h = [q \in Process |-> (IF q \in reported' THEN 0 ELSE own[q])
                                 + g[UpCount(q)'] + g[KeptCount(q)']]
    BY DEF Shares, Share
  <1>2. ASSUME NEW q \in Process
        PROVE  g[UpCount(q)'] \in Nat /\ g[KeptCount(q)'] \in Nat /\ own[q] \in Nat
    <2>1. UpCount(q)' \in Int /\ KeptCount(q)' \in Int
      BY DEF CarriedOK
    <2> QED
      BY <2>1
  <1>3. \A q \in Process : (IF q \in reported' THEN 0 ELSE own[q])
                                 + g[UpCount(q)'] + g[KeptCount(q)'] \in Int
    BY <1>2
  <1>4. h \in [Process -> Int]
    BY <1>1, <1>3
  <1>5. \A q \in Process : h[q] = (IF q \in reported' THEN 0 ELSE own[q])
                                 + g[UpCount(q)'] + g[KeptCount(q)']
    BY <1>1
  <1> HIDE DEF h
  <1>6. h = Shares(g, own)'
    BY DEF h
  <1> QED
    BY <1>2, <1>4, <1>5, <1>6

(* When nothing is on the way up, there is no more than what is counted.   *)
LEMMA SharesAtRest ==
  ASSUME CarriedOK', NEW g \in [Int -> Nat], g[0] = 0, NEW own \in [Process -> Nat],
         \A q \in Process : UpCount(q)' = 0 /\ KeptCount(q)' = 0
  PROVE  SumFunction(Shares(g, own)') <= SumFunction(own)
  <1>1. PICK h : /\ h \in [Process -> Int] /\ h = Shares(g, own)'
                 /\ \A q \in Process :
                     /\ h[q] = (IF q \in reported' THEN 0 ELSE own[q])
                                 + g[UpCount(q)'] + g[KeptCount(q)']
                     /\ own[q] \in Nat
    BY SharesAfter
  <1>2. \A q \in Process : h[q] <= own[q]
    BY <1>1
  <1>3. own \in [Process -> Int]
    OBVIOUS
  <1>4. SumFunction(h) <= SumFunction(own)
    BY <1>1, <1>2, <1>3, SumMonotone
  <1> QED
    BY <1>1, <1>4

(* A message that is counted adds no more to the shares than it adds.      *)
LEMMA SharesOfMessages ==
  ASSUME TypeInv, SweepInv, CarriedOK', NEW g, NEW own, Measures(g, own),
         NEW next \in [Process -> Nat], NEW p \in Process, own[p] <= next[p],
         \A q \in Process \ {p} : next[q] = own[q],
         UNCHANGED <<reported, up, accum_data, root_down_sweep>>,
         SumFunction(Shares(g, own)) <= SumFunction(own)
  PROVE  SumFunction(Shares(g, next)') <= SumFunction(next)
  <1>0. g \in [Int -> Nat] /\ own \in [Process -> Nat]
    BY DEF Measures
  <1>1. PICK h : /\ h \in [Process -> Int] /\ h = Shares(g, next)'
                 /\ \A q \in Process :
                     /\ h[q] = (IF q \in reported' THEN 0 ELSE next[q])
                                 + g[UpCount(q)'] + g[KeptCount(q)']
                     /\ next[q] \in Nat
    BY <1>0, SharesAfter
  <1>2. PICK f : f = Shares(g, own)
    OBVIOUS
  <1>3. /\ f \in [Process -> Int]
        /\ \A q \in Process : /\ f[q] = Share(g, own, q) /\ f[q] \in Int /\ own[q] \in Nat
                              /\ g[UpCount(q)] \in Nat /\ g[KeptCount(q)] \in Nat
    BY <1>2, SharesType
  <1>4. \A q \in Process : UpCount(q)' = UpCount(q) /\ KeptCount(q)' = KeptCount(q)
    BY DEF UpCount, KeptCount, NothingKept
  <1>5. \A q \in Process : /\ h[q] = (IF q \in reported THEN 0 ELSE next[q])
                                       + g[UpCount(q)] + g[KeptCount(q)]
                           /\ f[q] = (IF q \in reported THEN 0 ELSE own[q])
                                       + g[UpCount(q)] + g[KeptCount(q)]
    BY <1>1, <1>3, <1>4 DEF Share
  <1>6. \A q \in Process \ {p} : h[q] = f[q]
    BY <1>5
  <1>7. h[p] - f[p] <= next[p] - own[p] /\ h[p] \in Int /\ f[p] \in Int
        /\ next[p] \in Int /\ own[p] \in Int
    BY <1>1, <1>3, <1>5
  <1>8. SumFunction(f) \in Int /\ SumFunction(h) = SumFunction(f) + h[p] - f[p]
    BY <1>1, <1>3, <1>6, SumOfOneMore
  <1>9. own \in [Process -> Int] /\ next \in [Process -> Int]
    BY <1>0
  <1>10. SumFunction(own) \in Int /\ SumFunction(next) = SumFunction(own) + next[p] - own[p]
    BY <1>9, SumOfOneMore
  <1>11. SumFunction(h) <= SumFunction(next)
    BY <1>2, <1>7, <1>8, <1>10
  <1> QED
    BY <1>1, <1>11

(* A leaf that reports takes what it has counted with it.                  *)
LEMMA SharesLeaf ==
  ASSUME TypeInv, SweepInv, CarriedOK', NEW g, NEW own, Measures(g, own),
         NEW p \in Process, CheckLeaf(p)
  PROVE  SumFunction(Shares(g, own)') <= SumFunction(Shares(g, own))
  <1>0. g \in [Int -> Nat] /\ own \in [Process -> Nat] /\ g[0] = 0 /\ g[Live(p)] <= own[p]
    BY DEF Measures
  <1>1. PICK h : /\ h \in [Process -> Int] /\ h = Shares(g, own)'
                 /\ \A q \in Process :
                     /\ h[q] = (IF q \in reported' THEN 0 ELSE own[q])
                                 + g[UpCount(q)'] + g[KeptCount(q)']
                     /\ g[UpCount(q)'] \in Nat /\ g[KeptCount(q)'] \in Nat
    BY <1>0, SharesAfter
  <1>2. PICK f : f = Shares(g, own)
    OBVIOUS
  <1>3. /\ f \in [Process -> Int]
        /\ \A q \in Process : /\ f[q] = Share(g, own, q) /\ own[q] \in Nat
                              /\ g[UpCount(q)] \in Nat /\ g[KeptCount(q)] \in Nat
    BY <1>2, SharesType
  <1>4. /\ p \notin reported /\ UpCount(p) = 0 /\ UpCount(p)' = Live(p) /\ p \in reported'
        /\ \A q \in Process : KeptCount(q)' = KeptCount(q)
        /\ \A q \in Process \ {p} : UpCount(q)' = UpCount(q) /\ (q \in reported' <=> q \in reported)
    BY LeafMoves
  <1>5. ASSUME NEW q \in Process PROVE h[q] <= f[q]
    <2>1. CASE q = p
      <3>1. h[p] = g[Live(p)] + g[KeptCount(p)] /\ f[p] = own[p] + g[KeptCount(p)]
        BY <1>0, <1>1, <1>3, <1>4 DEF Share
      <3> QED
        BY <1>0, <1>1, <1>3, <1>4, <2>1, <3>1
    <2>2. CASE q # p
      <3>1. h[q] = f[q]
        BY <1>1, <1>3, <1>4, <2>2 DEF Share
      <3>2. h[q] \in Int
        BY <1>1
      <3> QED
        BY <3>1, <3>2
    <2> QED
      BY <2>1, <2>2
  <1>6. SumFunction(h) <= SumFunction(f)
    BY <1>1, <1>3, <1>5, SumMonotone
  <1> QED
    BY <1>1, <1>2, <1>6

(* So does a process that passes on what it has gathered.                  *)
LEMMA SharesGather ==
  ASSUME TypeInv, SweepInv, CarriedOK', NEW g, NEW own, Measures(g, own),
         NEW p \in Process, NEW k \in Arrivals(p),
         \/ CheckIncomplete(p, k) \/ CheckInner(p, k)
         \/ p = Root /\ CheckRoot(k) /\ UNCHANGED <<reported, root_down_sweep>>
  PROVE  SumFunction(Shares(g, own)') <= SumFunction(Shares(g, own))
  <1>0. /\ g \in [Int -> Nat] /\ own \in [Process -> Nat] /\ g[0] = 0 /\ g[Int64Max] = 0
        /\ g[Live(p)] <= own[p] /\ \A a, b \in Int : g[safe_add(a, b)] <= g[a] + g[b]
    BY DEF Measures
  <1>1. PICK h : /\ h \in [Process -> Int] /\ h = Shares(g, own)'
                 /\ \A q \in Process :
                     /\ h[q] = (IF q \in reported' THEN 0 ELSE own[q])
                                 + g[UpCount(q)'] + g[KeptCount(q)']
                     /\ own[q] \in Nat
                     /\ g[UpCount(q)'] \in Nat /\ g[KeptCount(q)'] \in Nat
    BY <1>0, SharesAfter
  <1>2. PICK st \in [Process -> Status], x \in Int : GatherMove(p, k, st, x)
    BY GatherMoves
  <1>3. /\ Sweeping(st) /\ Arrived(p, k) /\ Taken(p, k) # {} /\ Gathers(p, k, x)
        /\ p \notin reported
        /\ \A q \in Process \ {p} : q \in reported' <=> q \in reported
        /\ \A c \in Taken(p, k) :
             c \in Process \ {p} /\ c \in reported /\ UpCount(c)' = 0 /\ KeptCount(c)' = 0
        /\ \A q \in Process \ ({p} \cup Taken(p, k)) :
             UpCount(q)' = UpCount(q) /\ KeptCount(q)' = KeptCount(q)
        /\ \/ UpCount(p)' = 0 /\ KeptCount(p)' \in {0, x}
           \/ /\ p \in reported' /\ KeptCount(p)' = 0
              /\ UpCount(p)' = safe_add(LocalCount(p), x)
    BY <1>2 DEF GatherMove
  <1>4. g[x] \in Nat
    BY <1>0
  <1>5. h[p] <= own[p] + g[x]
    <2> DEFINE y == IF p \in reported' THEN 0 ELSE own[p]
    <2>1. h[p] = y + g[UpCount(p)'] + g[KeptCount(p)'] /\ own[p] \in Nat
      BY <1>1
    <2>2. y \in Nat /\ y <= own[p] /\ (p \in reported' => y = 0)
      BY <2>1
    <2> HIDE DEF y
    <2>3. CASE UpCount(p)' = 0 /\ KeptCount(p)' \in {0, x}
      <3>1. g[UpCount(p)'] = 0 /\ g[KeptCount(p)'] \in {0, g[x]}
        BY <1>0, <2>3
      <3> QED
        BY <1>4, <2>1, <2>2, <3>1
    <2>4. CASE p \in reported' /\ KeptCount(p)' = 0 /\ UpCount(p)' = safe_add(LocalCount(p), x)
      <3>1. LocalCount(p) \in {Int64Max, Live(p)} /\ LocalCount(p) \in Int
        BY LocalCountType DEF LocalCount, Live
      <3>2. g[LocalCount(p)] <= own[p] /\ g[LocalCount(p)] \in Nat
        <4>1. g[LocalCount(p)] = 0 \/ g[LocalCount(p)] = g[Live(p)]
          BY <1>0, <3>1
        <4>2. g[Live(p)] <= own[p] /\ own[p] \in Nat
          BY <1>0, <2>1
        <4>3. g[LocalCount(p)] \in Nat
          BY <1>0, <3>1
        <4> QED
          BY <4>1, <4>2, <4>3
      <3>3. g[safe_add(LocalCount(p), x)] <= g[LocalCount(p)] + g[x]
        BY <1>0, <3>1
      <3>4. g[UpCount(p)'] = g[safe_add(LocalCount(p), x)]
        BY <2>4
      <3>5. h[p] = 0 + g[UpCount(p)'] + 0 /\ g[UpCount(p)'] \in Nat
        BY <1>0, <1>1, <2>4, <2>1, <2>2
      <3> QED
        BY <1>4, <2>1, <3>2, <3>3, <3>4, <3>5
    <2> QED
      BY <1>3, <2>3, <2>4
  <1>6. ASSUME NEW c \in Taken(p, k) PROVE h[c] = 0
    BY <1>0, <1>1, <1>3
  <1>7. ASSUME NEW q \in Process \ ({p} \cup Taken(p, k)) PROVE h[q] <= Share(g, own, q)
    <2>1. h[q] = Share(g, own, q) /\ h[q] \in Int
      BY <1>1, <1>3 DEF Share
    <2> QED
      BY <2>1
  <1>8. SumFunction(h) <= SumFunction(Shares(g, own))
    BY <1>1, <1>3, <1>5, <1>6, <1>7, GatheredShares
  <1> QED
    BY <1>1, <1>8

(* What is on the way up for a measure: never more than has been counted.  *)
LEMMA SharesStep ==
  ASSUME TypeInv, TypeInv', SweepInv, SweepInv', CarriedOK', FreshSweep', TerminationInv,
         [Next]_vars, NEW g, NEW own, Measures(g, own), NEW next \in [Process -> Nat],
         UNCHANGED <<local_sends, local_processed>> => next = own,
         \A p, q \in Process : Send(p, q) \/ Broadcast(p) \/ Receive(p, q) =>
           own[p] <= next[p] /\ \A r \in Process \ {p} : next[r] = own[r],
         SumFunction(Shares(g, own)) <= SumFunction(own)
  PROVE  SumFunction(Shares(g, next)') <= SumFunction(next)
  <1>1. /\ g \in [Int -> Nat] /\ g[0] = 0
        /\ own \in [Process -> Nat] /\ own \in [Process -> Int]
    BY DEF Measures
  <1>2. ASSUME next = own, UNCHANGED <<reported, up, accum_data, root_down_sweep>>
        PROVE  SumFunction(Shares(g, next)') <= SumFunction(next)
    <2>1. own[Root] <= next[Root] /\ \A q \in Process \ {Root} : next[q] = own[q]
      <3>1. next[Root] \in Nat /\ next[Root] = own[Root]
        BY <1>2, RootIsProcess
      <3> QED
        BY <1>2, <3>1
    <2> QED
      BY <1>2, <2>1, RootIsProcess, SharesOfMessages
  <1>3. ASSUME NEW p \in Process, NEW q \in Process, Send(p, q) \/ Broadcast(p) \/ Receive(p, q)
        PROVE  SumFunction(Shares(g, next)') <= SumFunction(next)
    <2>1. UNCHANGED <<reported, up, accum_data, root_down_sweep>>
      BY <1>3, AppSteps DEF treeVars
    <2>2. own[p] <= next[p] /\ \A r \in Process \ {p} : next[r] = own[r]
      BY <1>3
    <2> QED
      BY <2>1, <2>2, SharesOfMessages
  <1>4. CASE UNCHANGED vars
    BY <1>2, <1>4 DEF vars, appVars, treeVars
  <1>5. ASSUME NEW p \in Process, BecomeQuiescent(p)
        PROVE  SumFunction(Shares(g, next)') <= SumFunction(next)
    BY <1>2, <1>5 DEF BecomeQuiescent, treeVars
  <1>6. ASSUME phase'[Root] = "running", reported' = {}
        PROVE  SumFunction(Shares(g, next)') <= SumFunction(next)
    <2>1. \A q \in Process : UpCount(q)' = 0 /\ KeptCount(q)' = 0
      BY <1>6 DEF FreshSweep, UpCount, KeptCount
    <2> QED
      BY <1>1, <2>1, SharesAtRest
  <1>7. ASSUME NEW p \in Process, NEW k \in Arrivals(p), Check(p, k)
        PROVE  SumFunction(Shares(g, next)') <= SumFunction(next)
    <2>1. CASE CheckInVain(p)
      BY <1>4, <2>1 DEF CheckInVain
    <2>2. CASE CheckTerminated(p)
      BY <1>2, <2>2 DEF CheckTerminated, appVars
    <2>3. CASE CheckDown(p)
      BY <1>2, <2>3 DEF CheckDown, appVars
    <2>4. ASSUME next = own, SumFunction(Shares(g, own)') <= SumFunction(Shares(g, own))
          PROVE  SumFunction(Shares(g, next)') <= SumFunction(next)
      <3>1. Shares(g, own)' \in [Process -> Int]
        BY <1>1, SharesAfter
      <3>2. /\ SumFunction(Shares(g, own)') \in Int /\ SumFunction(Shares(g, own)) \in Int
            /\ SumFunction(own) \in Int
        BY <1>1, <3>1, SharesType, PairsFinite, SumIsAnInteger
      <3> QED
        BY <2>4, <3>2
    <2>5. CASE CheckLeaf(p)
      <3>1. next = own
        BY <2>5 DEF CheckLeaf, appVars
      <3> QED
        BY <2>4, <2>5, <3>1, SharesLeaf
    <2>6. ASSUME CheckIncomplete(p, k) \/ CheckInner(p, k)
                   \/ (p = Root /\ CheckRoot(k) /\ UNCHANGED <<reported, root_down_sweep>>)
          PROVE  SumFunction(Shares(g, next)') <= SumFunction(next)
      <3>1. next = own
        BY <2>6 DEF CheckIncomplete, CheckInner, CheckRoot, appVars
      <3> QED
        BY <1>7, <2>4, <2>6, <3>1, SharesGather
    <2>7. CASE CheckStart
      BY <1>6, <2>7 DEF CheckStart, StartSweep, Checks
    <2>8. CASE p = Root /\ CheckRoot(k)
      <3>1. \/ UNCHANGED <<reported, root_down_sweep>>
            \/ reported' = {} /\ phase' = phase /\ phase[Root] = "running"
        BY <2>8 DEF CheckRoot, StartSweep, Checks
      <3> QED
        BY <1>6, <2>6, <2>8, <3>1
    <2> QED
      BY <1>7, <2>1, <2>2, <2>3, <2>5, <2>6, <2>7, <2>8 DEF Check
  <1>8. ASSUME NEW p \in Process, Reset(p)
        PROVE  SumFunction(Shares(g, next)') <= SumFunction(next)
    <2>1. phase[p] # "running" /\ UNCHANGED <<up, accum_data>>
      BY <1>8 DEF Reset
    <2>2. PICK st \in [Process -> Status] : Sweeping(st)
      BY DEF SweepInv
    <2>3. st[Root] = "used"
      <3>1. phase[Root] # "running"
        BY <2>1, TerminatesFromTheRoot
      <3> QED
        BY <2>2, <3>1 DEF Sweeping, RootStands
    <2>4. ASSUME NEW q \in Process PROVE UpCount(q)' = 0 /\ KeptCount(q)' = 0
      <3>1. Stands(q, st) /\ st[q] = "used"
        BY <2>2, <2>3, AllUsed DEF Sweeping
      <3>2. up[q] = <<>> /\ NothingKept(q)
        BY <3>1 DEF Stands, NothingAt
      <3> QED
        BY <2>1, <3>2 DEF UpCount, KeptCount, NothingKept
    <2> QED
      BY <1>1, <2>4, SharesAtRest
  <1>9. CASE Barrier
    <2>1. phase'[Root] = "running" /\ reported' = {}
      BY <1>9, RootIsProcess DEF Barrier
    <2> QED
      BY <1>6, <2>1
  <1> QED
    BY <1>3, <1>4, <1>5, <1>7, <1>8, <1>9 DEF Next

(* A message is counted once, by one process.                              *)
LEMMA CountsOfMessages ==
  ASSUME TypeInv, NEW p \in Process, NEW q \in Process,
         Send(p, q) \/ Broadcast(p) \/ Receive(p, q)
  PROVE  /\ local_sends[p] <= local_sends'[p] /\ local_processed[p] <= local_processed'[p]
         /\ \A r \in Process \ {p} : /\ local_sends'[r] = local_sends[r]
                                     /\ local_processed'[r] = local_processed[r]
  <1>1. /\ local_sends \in [Process -> Nat] /\ local_processed \in [Process -> Nat]
        /\ local_sends[p] \in Nat /\ local_processed[p] \in Nat
    BY DEF TypeInv
  <1>2. \E n, m \in Nat : /\ local_sends' = [local_sends EXCEPT ![p] = @ + n]
                          /\ local_processed' = [local_processed EXCEPT ![p] = @ + m]
    <2>1. local_processed' = local_processed
            => local_processed' = [local_processed EXCEPT ![p] = @ + 0]
      BY <1>1
    <2>2. CASE Send(p, q)
      BY <2>1, <2>2 DEF Send
    <2>3. ASSUME NEW to \in SUBSET Process PROVE Cardinality(to) \in Nat
      BY PairsFinite, FS_Subset, FS_CardinalityType
    <2>4. CASE Broadcast(p)
      <3> DEFINE to == IF p = Root THEN Children(Root) ELSE {Root}
      <3>1. to \in SUBSET Process
        BY RootIsProcess, ChildrenAreProcesses
      <3>2. /\ local_sends' = [local_sends EXCEPT ![p] = @ + Cardinality(to)]
            /\ local_processed' = local_processed
        BY <2>4 DEF Broadcast
      <3> HIDE DEF to
      <3> QED
        BY <2>1, <2>3, <3>1, <3>2
    <2>5. CASE Receive(p, q)
      <3> DEFINE to == IF Head(wire[q][p]).broadcast THEN Children(p) ELSE {}
      <3>1. to \in SUBSET Process
        BY ChildrenAreProcesses
      <3>2. /\ local_sends' = [local_sends EXCEPT ![p] = @ + Cardinality(to)]
            /\ local_processed' = [local_processed EXCEPT ![p] = @ + 1]
        BY <2>5 DEF Receive
      <3> HIDE DEF to
      <3> QED
        BY <2>3, <3>1, <3>2
    <2> QED
      BY <2>2, <2>4, <2>5
  <1> QED
    BY <1>1, <1>2

LEMMA SharesInvStep ==
  ASSUME TypeInv, TypeInv', SweepInv, SweepInv', CarriedOK', FreshSweep', TerminationInv,
         SharesInv, [Next]_vars
  PROVE  SharesInv'
  <1>1. Measures(Positive, local_sends) /\ Measures(Negative, local_processed)
    BY BothMeasure
  <1>2. local_sends' \in [Process -> Nat] /\ local_processed' \in [Process -> Nat]
    BY DEF TypeInv
  <1>3. PICK s : s = local_sends'
    OBVIOUS
  <1>4. PICK r : r = local_processed'
    OBVIOUS
  <1>5. SumFunction(Shares(Positive, s)') <= SumFunction(s)
    <2>1. \A p, q \in Process : Send(p, q) \/ Broadcast(p) \/ Receive(p, q) =>
            local_sends[p] <= s[p] /\ \A x \in Process \ {p} : s[x] = local_sends[x]
      BY <1>3, CountsOfMessages
    <2>2. SumFunction(Shares(Positive, local_sends)) <= SumFunction(local_sends)
      BY DEF SharesInv, SumSends
    <2> QED
      BY <1>1, <1>2, <1>3, <2>1, <2>2, SharesStep
  <1>6. SumFunction(Shares(Negative, r)') <= SumFunction(r)
    <2>1. \A p, q \in Process : Send(p, q) \/ Broadcast(p) \/ Receive(p, q) =>
            local_processed[p] <= r[p] /\ \A x \in Process \ {p} : r[x] = local_processed[x]
      BY <1>4, CountsOfMessages
    <2>2. SumFunction(Shares(Negative, local_processed)) <= SumFunction(local_processed)
      BY DEF SharesInv, SumProcessed
    <2> QED
      BY <1>1, <1>2, <1>4, <2>1, <2>2, SharesStep
  <1>7. /\ Shares(Positive, s)' = Shares(Positive, local_sends)'
        /\ Shares(Negative, r)' = Shares(Negative, local_processed)'
    BY <1>3, <1>4 DEF Shares, Share
  <1>8. /\ SumFunction(Shares(Positive, local_sends)') <= SumFunction(local_sends')
        /\ SumFunction(Shares(Negative, local_processed)') <= SumFunction(local_processed')
    BY <1>3, <1>4, <1>5, <1>6, <1>7
  <1> QED
    BY <1>8 DEF SharesInv, SumSends, SumProcessed

LEMMA SharesInitially ==
  ASSUME Init
  PROVE  SharesInv
  <1>1. TypeInv /\ SweepInv
    BY SweepInitially
  <1>2. /\ Measures(Positive, local_sends) /\ Measures(Negative, local_processed)
        /\ local_sends \in [Process -> Int] /\ local_processed \in [Process -> Int]
    BY <1>1, BothMeasure DEF TypeInv
  <1>3. \A q \in Process : up[q] = <<>> /\ accum_data[q] = <<>> /\ q \notin reported
    BY DEF Init
  <1>4. \A q \in Process : UpCount(q) = 0 /\ KeptCount(q) = 0 /\ q \notin reported
    <2>1. DOMAIN <<>> = {}
      OBVIOUS
    <2> QED
      BY <1>3, <2>1 DEF UpCount, KeptCount, NothingKept
  <1>5. ASSUME NEW g, NEW own, Measures(g, own), own \in [Process -> Int]
        PROVE  SumFunction(Shares(g, own)) <= SumFunction(own)
    <2>1. PICK f : f = Shares(g, own)
      OBVIOUS
    <2>2. f \in [Process -> Int] /\ \A q \in Process : f[q] = Share(g, own, q) /\ own[q] \in Nat
      BY <1>1, <1>5, <2>1, SharesType
    <2>3. g[0] = 0
      BY <1>5 DEF Measures
    <2>4. \A q \in Process : f[q] <= own[q]
      BY <1>4, <2>2, <2>3 DEF Share
    <2>5. SumFunction(f) <= SumFunction(own)
      BY <1>5, <2>2, <2>4, SumMonotone
    <2> QED
      BY <2>1, <2>5
  <1> QED
    BY <1>2, <1>5 DEF SharesInv, SumSends, SumProcessed

(* What is kept of the children is a count and how many it is from.        *)
RecordsInv ==
  \A p \in Process : \A s \in DOMAIN accum_data[p] :
    accum_data[p][s] \in [count : Int, received : Int]

LEMMA RecordsStep ==
  ASSUME TypeInv, SweepInv, RecordsInv, [Next]_vars
  PROVE  RecordsInv'
  <1>1. ASSUME UNCHANGED accum_data PROVE RecordsInv'
    BY <1>1 DEF RecordsInv
  <1>2. CASE UNCHANGED vars
    BY <1>1, <1>2 DEF vars, treeVars
  <1>3. ASSUME NEW p \in Process, NEW q \in Process,
               Send(p, q) \/ Broadcast(p) \/ Receive(p, q) \/ BecomeQuiescent(p)
        PROVE  RecordsInv'
    BY <1>1, <1>3, AppSteps DEF treeVars
  <1>4. PICK st \in [Process -> Status] : Sweeping(st)
    BY DEF SweepInv
  <1>5. ASSUME NEW p \in Process, NEW k \in Arrivals(p), Check(p, k) PROVE RecordsInv'
    <2>1. CASE CheckIncomplete(p, k)
      <3>1. Arrived(p, k) /\ Taken(p, k) # {} /\ ~Complete(p, ReceiveAll(p, k))
        BY <2>1 DEF CheckIncomplete, Taken
      <3>2. PICK x \in Int : ReceiveAll(p, k) = Entry(root_down_sweep, x, 1)
        BY <1>4, <3>1, Gathered
      <3>3. /\ accum_data'[p] = Entry(root_down_sweep, x, 1)
            /\ \A q \in Process \ {p} : accum_data'[q] = accum_data[q]
        BY <2>1, <3>2 DEF CheckIncomplete, TypeInv
      <3>4. \A s \in DOMAIN accum_data'[p] : accum_data'[p][s] \in [count : Int, received : Int]
        BY <3>3 DEF Entry
      <3> QED
        BY <3>3, <3>4 DEF RecordsInv
    <2>2. CASE CheckInner(p, k) \/ (p = Root /\ CheckRoot(k))
      <3>1. /\ Arrived(p, k) /\ Complete(p, ReceiveAll(p, k))
            /\ accum_data' = [accum_data EXCEPT ![p] =
                              Restrict(ReceiveAll(p, k),
                                       DOMAIN ReceiveAll(p, k) \ {First(ReceiveAll(p, k))})]
        BY <2>2 DEF CheckInner, CheckRoot
      <3>2. NothingKept(p)' /\ \A q \in Process \ {p} : accum_data'[q] = accum_data[q]
        BY <1>4, <3>1, CompleteClears
      <3> QED
        BY <3>2 DEF RecordsInv, NothingKept
    <2> QED
      BY <1>1, <1>5, <2>1, <2>2 DEF Check, CheckInVain, vars, treeVars, CheckTerminated,
                                    CheckLeaf, CheckDown, CheckStart
  <1>6. ASSUME NEW p \in Process, Reset(p) PROVE RecordsInv'
    BY <1>1, <1>6 DEF Reset
  <1>7. CASE Barrier
    BY <1>1, <1>7 DEF Barrier
  <1> QED
    BY <1>2, <1>3, <1>5, <1>6, <1>7 DEF Next

CountsInv == BudgetInv /\ SharesInv /\ RecordsInv

LEMMA CountsInvariant == Spec => []CountsInv
  <1>1. Init => CountsInv
    <2>1. ASSUME Init PROVE RecordsInv
      <3>1. DOMAIN <<>> = {}
        OBVIOUS
      <3> QED
        BY <2>1, <3>1 DEF Init, RecordsInv
    <2> QED
      BY <2>1, BudgetInitially, SharesInitially DEF CountsInv
  <1>2. TreeInv /\ TreeInv' /\ CountsInv /\ [Next]_vars => CountsInv'
    <2> SUFFICES ASSUME TypeInv, SweepInv, TerminationInv, TypeInv', SweepInv',
                        BudgetInv, SharesInv, RecordsInv, [Next]_vars
                 PROVE  CountsInv'
      BY DEF TreeInv, CountsInv
    <2>1. (TypeInv /\ SweepInv)' => CarriedOK'
      BY CarriedTyped, PTL
    <2>2. SweepInv' => FreshSweep'
      BY SweepIsFresh, PTL
    <2>3. SharesInv'
      BY <2>1, <2>2, SharesInvStep
    <2> QED
      BY <2>3, BudgetStep, RecordsStep DEF CountsInv
  <1> QED
    BY <1>1, <1>2, TreeInvariant, PTL DEF Spec

(* A count that goes up, or is kept, is unknown or within the bound.       *)
LEMMA CountsAreBounded ==
  ASSUME TypeInv, SweepInv, BudgetInv, SharesInv, NEW p \in Process
  PROVE  UpCount(p) \in Count /\ KeptCount(p) \in Count
  <1>1. Measures(Positive, local_sends) /\ Measures(Negative, local_processed)
    BY BothMeasure
  <1>2. PICK M \in Nat : M = MaxSent * N /\ M < Int64Max
    BY BudgetType, BoundsAssumption
  <1>3. SumSends <= M /\ SumProcessed <= M /\ SumSends \in Nat /\ SumProcessed \in Nat
    <2>1. /\ SumSends \in Nat /\ SumProcessed \in Nat /\ SumFlight \in Nat /\ SumCopies \in Nat
          /\ budget \in Nat /\ N \in Nat
      BY BudgetType
    <2>2. N * budget \in Nat
      <3>1. \A i, j \in Nat : i * j \in Nat
        OBVIOUS
      <3> QED
        BY <2>1, <3>1
    <2> QED
      BY <1>2, <2>1, <2>2 DEF BudgetInv
  <1>4. ASSUME NEW g, NEW own, Measures(g, own), NEW t \in Nat, t <= M,
               SumFunction(Shares(g, own)) <= t
        PROVE  /\ g[UpCount(p)] <= M /\ g[KeptCount(p)] <= M
    <2>1. PICK f : f = Shares(g, own)
      OBVIOUS
    <2>2. /\ f \in [Process -> Nat] /\ f[p] = Share(g, own, p) /\ own[p] \in Nat
          /\ g[UpCount(p)] \in Nat /\ g[KeptCount(p)] \in Nat
      BY <1>4, <2>1, SharesType
    <2>3. SumFunction(f) \in Nat /\ f[p] <= SumFunction(f)
      BY <2>2, PairsFinite, SumOfNaturals
    <2>4. f[p] <= M /\ f[p] \in Nat
      BY <1>4, <2>1, <2>2, <2>3
    <2>5. f[p] = (IF p \in reported THEN 0 ELSE own[p]) + g[UpCount(p)] + g[KeptCount(p)]
      BY <2>2 DEF Share
    <2> QED
      BY <2>2, <2>4, <2>5
  <1>5. /\ Positive[UpCount(p)] <= M /\ Positive[KeptCount(p)] <= M
        /\ Negative[UpCount(p)] <= M /\ Negative[KeptCount(p)] <= M
    BY <1>1, <1>3, <1>4 DEF SharesInv
  <1>6. UpCount(p) \in Int /\ KeptCount(p) \in Int
    BY CarriedTyped DEF CarriedOK
  <1>7. ASSUME NEW x \in Int, Positive[x] <= M, Negative[x] <= M PROVE x \in Count
    <2>1. /\ Positive[x] = (IF x > 0 /\ x # Int64Max THEN x ELSE 0)
          /\ Negative[x] = (IF x < 0 THEN -x ELSE 0)
      BY DEF Positive, Negative
    <2> QED
      BY <1>2, <1>7, <2>1, MaxIsPositive DEF Count
  <1> QED
    BY <1>5, <1>6, <1>7

(* Type correctness, the range of the counts included: however many sweeps *)
(* there are and however often messages are passed on, no sum of counts    *)
(* comes near the number that stands for a count that is not known.        *)
THEOREM GlobalTypeCorrect == Spec => []TypeOK
  <1>1. TreeInv /\ CountsInv => TypeOK
    <2> SUFFICES ASSUME TypeInv, SweepInv, BudgetInv, SharesInv, RecordsInv PROVE TypeOK
      BY DEF TreeInv, CountsInv
    <2>1. PICK st \in [Process -> Status] : Sweeping(st)
      BY DEF SweepInv
    <2>2. ASSUME NEW p \in Process
          PROVE  /\ DOMAIN accum_data[p] \subseteq Sweep
                 /\ \A s \in DOMAIN accum_data[p] :
                      accum_data[p][s] \in [count : Count, received : 1 .. 2]
      <3>1. Stands(p, st) /\ st[p] \in Status
        BY <2>1 DEF Sweeping
      <3>2. \/ NothingKept(p)
            \/ /\ DOMAIN accum_data[p] = {root_down_sweep}
               /\ accum_data[p][root_down_sweep].received = 1
        BY <3>1 DEF Stands, Status, Waits
      <3>3. CASE NothingKept(p)
        BY <3>3 DEF NothingKept
      <3>4. CASE /\ ~NothingKept(p) /\ DOMAIN accum_data[p] = {root_down_sweep}
                 /\ accum_data[p][root_down_sweep].received = 1
        <4>1. PICK e : e = accum_data[p][root_down_sweep]
          OBVIOUS
        <4>2. e \in [count : Int, received : Int]
          BY <3>4, <4>1 DEF RecordsInv
        <4>3. e.count \in Count
          BY <3>4, <4>1, CountsAreBounded DEF KeptCount
        <4>4. e \in [count : Count, received : 1 .. 2]
          BY <3>4, <4>1, <4>2, <4>3
        <4>5. root_down_sweep \in Sweep
          BY DEF TypeInv
        <4> QED
          BY <3>4, <4>1, <4>4, <4>5
      <3> QED
        BY <3>2, <3>3, <3>4
    <2>3. up \in [Process -> Seq(UpMessage)]
      <3>1. ASSUME NEW p \in Process PROVE up[p] \in Seq(UpMessage)
        <4>1. CASE up[p] = <<>>
          BY <4>1
        <4>2. CASE up[p] # <<>>
          <5>1. up[p] = <<up[p][1]>> /\ Len(up[p]) = 1 /\ up[p] \in Seq(UpInt)
            BY <2>1, <4>2, OneMessageUp DEF TypeInv
          <5>2. PICK m : m = up[p][1]
            OBVIOUS
          <5>3. m \in UpInt
            BY <5>1, <5>2
          <5>4. m.count \in Count
            BY <4>2, <5>2, CountsAreBounded DEF UpCount
          <5>5. m \in UpMessage
            BY <5>3, <5>4 DEF UpInt, UpMessage
          <5>6. up[p] = <<m>>
            BY <5>1, <5>2
          <5> QED
            BY <5>5, <5>6
        <4> QED
          BY <4>1, <4>2
      <3>2. up = [p \in Process |-> up[p]]
        BY DEF TypeInv
      <3> QED
        BY <3>1, <3>2
    <2> QED
      BY <2>2, <2>3 DEF TypeInv, TypeOK
  <1> QED
    BY <1>1, TreeInvariant, CountsInvariant, PTL

================================================================================
