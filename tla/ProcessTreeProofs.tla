--------------------------- MODULE ProcessTreeProofs ---------------------------
(***************************************************************************)
(* What every other component takes for granted about the tree, for every  *)
(* number of processes.                                                    *)
(***************************************************************************)
EXTENDS ProcessTree, WellFoundedInduction, TLAPS

(* Each process but the root has a parent, which is a process with a       *)
(* smaller id: following parents ends at the root.                         *)
THEOREM ParentIsSmaller ==
  ASSUME NEW p \in Process, p # Root
  PROVE  /\ Parent(p) \in Process
         /\ Parent(p) < p
  BY NAssumption DEF Process, Parent, Root

(* The two directions of ParentAndChildren agree: q is listed as a child   *)
(* of p exactly when p is listed as the parent of q.                       *)
THEOREM ChildrenMatchParent ==
  ASSUME NEW p \in Process, NEW q \in Process
  PROVE  q \in Children(p) <=> (q # Root /\ Parent(q) = p)
  BY NAssumption DEF Process, Parent, Root, Children, LeftChild, RightChild, None

(* A child is a process, never the one it is a child of.                   *)
THEOREM ChildrenAreProcesses ==
  ASSUME NEW p \in Process
  PROVE  Children(p) \subseteq Process \ {p, Root}
  BY NAssumption DEF Process, Root, Children, LeftChild, RightChild, None

(* Every non-empty set of processes has a smallest one: the principle that *)
(* takes a fact from parents to children, from the root down.              *)
LEMMA SmallestProcess ==
  ASSUME NEW T \in SUBSET Process, T # {}
  PROVE  \E p \in T : \A q \in T : p <= q
<1> DEFINE less == OpToRel(<, Nat)
<1>1. T \subseteq Nat
  BY NAssumption DEF Process
<1>2. PICK p \in T : \A q \in T : <<q, p>> \notin less
  BY <1>1, NatLessThanWellFounded, WFMin
<1>3. \A q \in T : ~(q < p)
  BY <1>1, <1>2 DEF OpToRel
<1> QED
  BY <1>1, <1>3

(* What each process has in common with its parent, all processes have in  *)
(* common: a comparison along the edges of the tree compares everybody.    *)
THEOREM AgreementAlongTheTree ==
  ASSUME NEW f, \A p \in Process \ {Root} : f[p] = f[Parent(p)]
  PROVE  \A p \in Process : f[p] = f[Root]
<1> DEFINE T == {p \in Process : f[p] # f[Root]}
<1>1. SUFFICES ASSUME T # {} PROVE FALSE
  OBVIOUS
<1>2. PICK p \in T : \A q \in T : p <= q
  BY <1>1, SmallestProcess
<1>3. p # Root
  OBVIOUS
<1>4. Parent(p) \in Process /\ Parent(p) < p
  BY <1>3, ParentIsSmaller
<1>5. Parent(p) \notin T
  BY <1>2, <1>4, NAssumption DEF Process
<1>6. f[p] = f[Root]
  BY <1>3, <1>4, <1>5
<1> QED
  BY <1>6

-----------------------------------------------------------------------------
(* Induction over the numbers, and over the processes both ways, about     *)
(* membership in a set.                                                    *)
LEMMA SetInduction ==
  ASSUME NEW S, 0 \in S, \A n \in Nat : n \in S => n + 1 \in S
  PROVE  Nat \subseteq S
<1> DEFINE T == {n \in Nat : n \notin S}
           less == OpToRel(<, Nat)
<1>1. SUFFICES ASSUME T # {} PROVE FALSE
  OBVIOUS
<1>2. PICK n \in T : \A m \in T : <<m, n>> \notin less
  BY <1>1, NatLessThanWellFounded, WFMin
<1>3. n # 0 /\ n - 1 \in Nat /\ n - 1 < n
  <2>1. n # 0 /\ n \in Nat
    BY <1>2
  <2> QED
    BY <2>1
<1>4. n - 1 \notin T
  BY <1>2, <1>3 DEF OpToRel
<1>5. n - 1 \in S
  BY <1>3, <1>4
<1>6. (n - 1) + 1 \in S
  BY <1>3, <1>5
<1> QED
  BY <1>3, <1>6

LEMMA LargestProcess ==
  ASSUME NEW T \in SUBSET Process, T # {}
  PROVE  \E p \in T : \A q \in T : q <= p
<1> DEFINE U == {N - 1 - p : p \in T}
<1>1. U \in SUBSET Process /\ U # {}
  <2>1. \A p \in T : N - 1 - p \in 0 .. N - 1
    BY NAssumption DEF Process
  <2>2. U \subseteq 0 .. N - 1
    BY <2>1
  <2> QED
    BY <2>2 DEF Process
<1>2. PICK u \in U : \A v \in U : u <= v
  BY <1>1, SmallestProcess
<1>3. PICK p \in T : u = N - 1 - p
  BY <1>2
<1>4. \A q \in T : N - 1 - p <= N - 1 - q
  BY <1>2, <1>3
<1> QED
  BY <1>4, NAssumption DEF Process

-----------------------------------------------------------------------------
(* The two walks of a reduction.  What they are defined to be by recursion *)
(* exists, so that the equations may be used.                              *)

UpFrom(f, q, S) ==
  IF q = Root THEN None
  ELSE IF Parent(q) \in S THEN Parent(q) ELSE f[Parent(q)]

LEMMA WalkUpExists ==
  ASSUME NEW S \in SUBSET Process
  PROVE  \E f : f = [q \in Process |-> UpFrom(f, q, S)]
<1> DEFINE To == Process \cup {None}
           Good(n) == \E f \in [Process -> To] :
                        \A q \in Process : q <= n => f[q] = UpFrom(f, q, S)
           A == {n \in Nat : Good(n)}
<1>1. 0 \in A
  <2> DEFINE f == [q \in Process |-> None]
  <2>1. f \in [Process -> To]
    OBVIOUS
  <2>2. \A q \in Process : q <= 0 => f[q] = UpFrom(f, q, S)
    BY NAssumption DEF UpFrom, Process, Root
  <2> QED
    BY <2>1, <2>2
<1>2. ASSUME NEW n \in Nat, n \in A PROVE n + 1 \in A
  <2>1. PICK f \in [Process -> To] : \A q \in Process : q <= n => f[q] = UpFrom(f, q, S)
    BY <1>2
  <2> DEFINE g == [f EXCEPT ![n + 1] = UpFrom(f, n + 1, S)]
  <2>2. \A q \in Process : UpFrom(f, q, S) \in To
    BY <2>1, ParentIsSmaller DEF UpFrom
  <2>3. g \in [Process -> To]
    BY <2>1, <2>2
  <2>4. ASSUME NEW q \in Process, q <= n + 1 PROVE g[q] = UpFrom(g, q, S)
    <3>1. q # Root => Parent(q) \in Process /\ Parent(q) # n + 1
      BY <2>4, ParentIsSmaller, NAssumption DEF Process
    <3>2. UpFrom(g, q, S) = UpFrom(f, q, S)
      BY <3>1, <2>1 DEF UpFrom
    <3>3. q <= n \/ q = n + 1
      BY <2>4, NAssumption DEF Process
    <3>4. g[q] = UpFrom(f, q, S)
      BY <3>3, <2>1, NAssumption DEF Process
    <3> QED
      BY <3>2, <3>4
  <2>5. Good(n + 1)
    BY <2>3, <2>4
  <2> QED
    BY <2>5
<1>3. N \in A
  <2> HIDE DEF A
  <2>1. Nat \subseteq A
    BY <1>1, <1>2, SetInduction
  <2> QED
    BY <2>1, NAssumption
<1>4. PICK f \in [Process -> To] : \A q \in Process : q <= N => f[q] = UpFrom(f, q, S)
  BY <1>3
<1>5. \A q \in Process : f[q] = UpFrom(f, q, S)
  BY <1>4, NAssumption DEF Process
<1>6. f = [q \in Process |-> UpFrom(f, q, S)]
  BY <1>4, <1>5
<1> QED
  BY <1>6

LEMMA FirstParentStep ==
  ASSUME NEW S \in SUBSET Process, NEW p \in Process
  PROVE  FirstParent(p, S) =
           IF p = Root THEN None
           ELSE IF Parent(p) \in S THEN Parent(p) ELSE FirstParent(Parent(p), S)
<1> DEFINE up == CHOOSE f : f = [q \in Process |->
                    IF q = Root THEN None
                    ELSE IF Parent(q) \in S THEN Parent(q) ELSE f[Parent(q)]]
<1>1. \E f : f = [q \in Process |->
                    IF q = Root THEN None
                    ELSE IF Parent(q) \in S THEN Parent(q) ELSE f[Parent(q)]]
  BY WalkUpExists DEF UpFrom
<1>2. up = [q \in Process |->
                    IF q = Root THEN None
                    ELSE IF Parent(q) \in S THEN Parent(q) ELSE up[Parent(q)]]
  BY <1>1
<1>3. \A q : FirstParent(q, S) = up[q]
  BY DEF FirstParent
<1> HIDE DEF up
<1>4. up[p] = IF p = Root THEN None
              ELSE IF Parent(p) \in S THEN Parent(p) ELSE up[Parent(p)]
  BY <1>2
<1> QED
  BY <1>3, <1>4

DownFrom(f, q, S) == UNION {IF c \in S THEN {c} ELSE f[c] : c \in Children(q)}

LEMMA WalkDownExists ==
  ASSUME NEW S \in SUBSET Process
  PROVE  \E f : f = [q \in Process |-> DownFrom(f, q, S)]
<1> DEFINE To == SUBSET Process
           Good(n) == \E f \in [Process -> To] :
                        \A q \in Process : q >= N - n => f[q] = DownFrom(f, q, S)
           A == {n \in Nat : Good(n)}
<1>0. \A f \in [Process -> To] : \A q \in Process : DownFrom(f, q, S) \in To
  <2> SUFFICES ASSUME NEW f \in [Process -> To], NEW q \in Process, NEW c \in Children(q)
               PROVE  (IF c \in S THEN {c} ELSE f[c]) \in To
    BY DEF DownFrom
  <2> QED
    BY ChildrenAreProcesses
<1>1. 0 \in A
  <2> DEFINE f == [q \in Process |-> {}]
  <2>1. f \in [Process -> To]
    OBVIOUS
  <2>2. \A q \in Process : ~(q >= N - 0)
    BY NAssumption DEF Process
  <2>3. Good(0)
    BY <2>1, <2>2
  <2> QED
    BY <2>3
<1>2. ASSUME NEW n \in Nat, n \in A PROVE n + 1 \in A
  <2>1. PICK f \in [Process -> To] : \A q \in Process : q >= N - n => f[q] = DownFrom(f, q, S)
    BY <1>2
  <2> DEFINE r == N - (n + 1)
             g == [f EXCEPT ![r] = DownFrom(f, r, S)]
  <2>3. g \in [Process -> To]
    BY <2>1, <1>0
  <2>4. ASSUME NEW q \in Process, q >= r PROVE g[q] = DownFrom(g, q, S)
    <3>1. \A c \in Children(q) : c \in Process /\ c # r
      <4> TAKE c \in Children(q)
      <4>1. c \in Process /\ c # Root /\ Parent(c) = q
        BY ChildrenAreProcesses, ChildrenMatchParent
      <4>2. q < c
        BY <4>1, ParentIsSmaller
      <4> QED
        BY <4>1, <4>2, <2>4, NAssumption DEF Process
    <3>2. \A c \in Children(q) : g[c] = f[c]
      BY <3>1, <2>1
    <3>3. DownFrom(g, q, S) = DownFrom(f, q, S)
      BY <3>2 DEF DownFrom
    <3>4. q >= N - n \/ q = r
      BY <2>4, NAssumption DEF Process
    <3>5. g[q] = DownFrom(f, q, S)
      BY <3>4, <2>1, NAssumption DEF Process
    <3> QED
      BY <3>3, <3>5
  <2>5. Good(n + 1)
    BY <2>3, <2>4
  <2> QED
    BY <2>5
<1>3. N \in A
  <2> HIDE DEF A
  <2>1. Nat \subseteq A
    BY <1>1, <1>2, SetInduction
  <2> QED
    BY <2>1, NAssumption
<1>4. PICK f \in [Process -> To] : \A q \in Process : q >= N - N => f[q] = DownFrom(f, q, S)
  BY <1>3
<1>5. \A q \in Process : f[q] = DownFrom(f, q, S)
  BY <1>4, NAssumption DEF Process
<1>6. f = [q \in Process |-> DownFrom(f, q, S)]
  BY <1>4, <1>5
<1> QED
  BY <1>6

LEMMA FirstDescendantsStep ==
  ASSUME NEW S \in SUBSET Process, NEW p \in Process
  PROVE  FirstDescendants(p, S) =
           UNION {IF c \in S THEN {c} ELSE FirstDescendants(c, S) : c \in Children(p)}
<1> DEFINE down == CHOOSE f : f = [q \in Process |->
                     UNION {IF c \in S THEN {c} ELSE f[c] : c \in Children(q)}]
<1>1. \E f : f = [q \in Process |->
                     UNION {IF c \in S THEN {c} ELSE f[c] : c \in Children(q)}]
  BY WalkDownExists DEF DownFrom
<1>2. down = [q \in Process |->
                     UNION {IF c \in S THEN {c} ELSE down[c] : c \in Children(q)}]
  BY <1>1
<1>3. \A q : FirstDescendants(q, S) = down[q]
  BY DEF FirstDescendants
<1> HIDE DEF down
<1>4. down[p] = UNION {IF c \in S THEN {c} ELSE down[c] : c \in Children(p)}
  BY <1>2
<1> QED
  BY <1>3, <1>4

(* The nearest of S above p is one of S, above p.                          *)
LEMMA FirstParentIsAbove ==
  ASSUME NEW S \in SUBSET Process, NEW p \in Process
  PROVE  /\ FirstParent(p, S) \in S \cup {None}
         /\ FirstParent(p, S) \in Int /\ FirstParent(p, S) < p
         /\ Root \in S /\ p # Root => FirstParent(p, S) # None
<1> DEFINE Ok(q) == /\ FirstParent(q, S) \in S \cup {None}
                    /\ FirstParent(q, S) \in Int /\ FirstParent(q, S) < q
                    /\ Root \in S /\ q # Root => FirstParent(q, S) # None
           T == {q \in Process : ~Ok(q)}
<1>1. SUFFICES ASSUME T # {} PROVE FALSE
  OBVIOUS
<1>2. PICK q \in T : \A x \in T : q <= x
  BY <1>1, SmallestProcess
<1>3. q # Root
  <2>1. FirstParent(Root, S) = None
    BY FirstParentStep, NAssumption DEF Process, Root
  <2>2. Ok(Root)
    BY <2>1 DEF None, Root
  <2> QED
    BY <1>2, <2>2
<1>4. Parent(q) \in Process /\ Parent(q) < q
  BY <1>3, ParentIsSmaller
<1>5. Ok(Parent(q))
  BY <1>2, <1>4, NAssumption DEF Process
<1>6. FirstParent(q, S) = IF Parent(q) \in S THEN Parent(q) ELSE FirstParent(Parent(q), S)
  BY <1>3, FirstParentStep
<1>7. Parent(q) = Root => Root \in S \/ FirstParent(Parent(q), S) = None
  BY <1>4, FirstParentStep
<1>8. FirstParent(q, S) \in S \cup {None}
  BY <1>5, <1>6
<1>9. FirstParent(q, S) \in Int /\ FirstParent(q, S) < q
  BY <1>4, <1>5, <1>6, NAssumption DEF Process
<1>10. Root \in S => FirstParent(q, S) # None
  <2>1. Parent(q) # None
    BY <1>4, NAssumption DEF Process, None
  <2> QED
    BY <1>5, <1>6, <2>1
<1> QED
  BY <1>2, <1>8, <1>9, <1>10

(* Whose nearest process above, in S and q itself, is q: its children, and *)
(* what is below those of them that are not in S.                          *)
LEMMA NearestBelow ==
  ASSUME NEW S \in SUBSET Process
  PROVE  \A x \in Process : \A q \in Process :
           FirstParent(x, S \cup {q}) = q <=>
             \/ x \in Children(q)
             \/ \E c \in Children(q) \ S : FirstParent(x, S \cup {c}) = c
<1> DEFINE Below(x, q) == FirstParent(x, S \cup {q}) = q
           Ok(x) == \A q \in Process :
                      Below(x, q) <=> \/ x \in Children(q)
                                      \/ \E c \in Children(q) \ S : Below(x, c)
           T == {x \in Process : ~Ok(x)}
<1>1. SUFFICES ASSUME T # {} PROVE FALSE
  OBVIOUS
<1>2. PICK x \in T : \A y \in T : x <= y
  BY <1>1, SmallestProcess
<1>3. \A q \in Process : S \cup {q} \in SUBSET Process
  OBVIOUS
<1>4. x # Root
  <2>1. \A q \in Process : ~Below(Root, q)
    <3> TAKE q \in Process
    <3>1. FirstParent(Root, S \cup {q}) = None
      BY <1>3, FirstParentStep, NAssumption DEF Process, Root
    <3> QED
      BY <3>1, NAssumption DEF Process, None
  <2>2. \A q \in Process : Root \notin Children(q) /\ Children(q) \subseteq Process
    BY ChildrenAreProcesses
  <2>3. Ok(Root)
    BY <2>1, <2>2
  <2>4. ~Ok(x)
    BY <1>2
  <2> HIDE DEF Ok
  <2> QED
    BY <2>3, <2>4
<1> DEFINE y == Parent(x)
<1>5. y \in Process /\ y < x
  BY <1>4, ParentIsSmaller
<1>6. Ok(y)
  <2>1. y \notin T
    <3>2. x \in Process
      BY <1>2
    <3> HIDE DEF T, y
    <3>1. ~(x <= y)
      BY <1>5, <3>2, NAssumption DEF Process
    <3> QED
      BY <1>2, <3>1
  <2> QED
    BY <1>5, <2>1
<1>7. \A q \in Process : Below(x, q) <=> y = q \/ (y \notin S /\ y # q /\ Below(y, q))
  <2> TAKE q \in Process
  <2>1. FirstParent(x, S \cup {q}) = IF y \in S \cup {q} THEN y ELSE FirstParent(y, S \cup {q})
    BY <1>3, <1>4, FirstParentStep
  <2> QED
    BY <2>1
<1>8. \A q \in Process : x \in Children(q) <=> y = q
  BY <1>4, ChildrenMatchParent
<1>9. \A q \in Process : Below(y, q) => y # q
  <2> TAKE q \in Process
  <2>1. FirstParent(y, S \cup {q}) < y /\ FirstParent(y, S \cup {q}) \in Int
    BY <1>3, <1>5, FirstParentIsAbove
  <2> QED
    BY <2>1
<1>10. \A q \in Process : Children(q) \subseteq Process
  BY ChildrenAreProcesses
<1> HIDE DEF Below, y
<1>11. \A q \in Process :
         Below(x, q) <=> x \in Children(q) \/ \E c \in Children(q) \ S : Below(x, c)
  <2> TAKE q \in Process
  <2>1. CASE y = q
    BY <2>1, <1>7, <1>8
  <2>2. CASE y # q
    <3>1. Below(x, q) <=> y \notin S /\ Below(y, q)
      BY <2>2, <1>7
    <3>2. Below(y, q) <=> y \in Children(q) \/ \E c \in Children(q) \ S : Below(y, c)
      BY <1>6
    <3>3. \A c \in Children(q) \ S : Below(x, c) <=> y = c \/ (y \notin S /\ Below(y, c))
      BY <1>7, <1>9, <1>10
    <3>4. x \notin Children(q)
      BY <2>2, <1>8
    <3> QED
      BY <3>1, <3>2, <3>3, <3>4
  <2> QED
    BY <2>1, <2>2
<1> QED
  BY <1>2, <1>11

(* The two walks match: going down from q ends at those of S from which    *)
(* going up, to S or to q, ends at q.                                      *)
LEMMA DescendantsMatchParents ==
  ASSUME NEW S \in SUBSET Process
  PROVE  \A q \in Process :
           FirstDescendants(q, S) = {x \in S : FirstParent(x, S \cup {q}) = q}
<1> DEFINE Under(q) == {x \in S : FirstParent(x, S \cup {q}) = q}
           T == {q \in Process : FirstDescendants(q, S) # Under(q)}
<1>1. SUFFICES ASSUME T # {} PROVE FALSE
  OBVIOUS
<1>2. PICK q \in T : \A y \in T : y <= q
  BY <1>1, LargestProcess
<1>3. \A c \in Children(q) : c \in Process /\ FirstDescendants(c, S) = Under(c)
  <2> TAKE c \in Children(q)
  <2>1. c \in Process /\ c # Root /\ Parent(c) = q
    BY ChildrenAreProcesses, ChildrenMatchParent
  <2>2. q < c
    BY <2>1, ParentIsSmaller
  <2> QED
    BY <1>2, <2>1, <2>2, NAssumption DEF Process
<1>4. FirstDescendants(q, S) =
        UNION {IF c \in S THEN {c} ELSE FirstDescendants(c, S) : c \in Children(q)}
  BY FirstDescendantsStep
<1> HIDE DEF Under
<1>5. FirstDescendants(q, S) = UNION {IF c \in S THEN {c} ELSE Under(c) : c \in Children(q)}
  BY <1>3, <1>4
<1>6. \A x : x \in FirstDescendants(q, S)
               <=> \/ x \in S /\ x \in Children(q)
                   \/ \E c \in Children(q) \ S : x \in Under(c)
  BY <1>5
<1>7. \A x \in S : x \in Under(q)
               <=> \/ x \in Children(q)
                   \/ \E c \in Children(q) \ S : x \in Under(c)
  <2> TAKE x \in S
  <2>1. /\ x \in Process /\ q \in Process
        /\ \A p : x \in Under(p) <=> FirstParent(x, S \cup {p}) = p
    BY <1>2 DEF Under
  <2>2. FirstParent(x, S \cup {q}) = q <=>
             \/ x \in Children(q)
             \/ \E c \in Children(q) \ S : FirstParent(x, S \cup {c}) = c
    <3>1. \A a \in Process : \A b \in Process :
            FirstParent(a, S \cup {b}) = b <=>
              \/ a \in Children(b)
              \/ \E c \in Children(b) \ S : FirstParent(a, S \cup {c}) = c
      BY NearestBelow, Zenon
    <3> QED
      BY <2>1, <3>1, Zenon
  <2> QED
    BY <2>1, <2>2
<1>8. \A c : \A x \in Under(c) : x \in S
  BY DEF Under
<1> QED
  BY <1>2, <1>6, <1>7, <1>8

LEMMA RootAboveAll ==
  ASSUME NEW S \in SUBSET Process
  PROVE  \A p \in Process \ {Root} :
           FirstParent(p, S \cup {Root}) =
             IF FirstParent(p, S) = None THEN Root ELSE FirstParent(p, S)
<1> DEFINE R == S \cup {Root}
           Ok(p) == FirstParent(p, R) =
                      IF FirstParent(p, S) = None THEN Root ELSE FirstParent(p, S)
           T == {p \in Process \ {Root} : ~Ok(p)}
<1>1. SUFFICES ASSUME T # {} PROVE FALSE
  OBVIOUS
<1>2. PICK p \in T : \A y \in T : p <= y
  BY <1>1, SmallestProcess
<1> DEFINE y == Parent(p)
<1>3. y \in Process /\ y < p
  BY <1>2, ParentIsSmaller
<1>4. y # Root => Ok(y)
  <2>1. y \notin T
    <3> HIDE DEF T, y
    <3>1. ~(p <= y)
      BY <1>2, <1>3, NAssumption DEF Process, T
    <3> QED
      BY <1>2, <3>1
  <2> QED
    BY <1>3, <2>1
<1>5. R \in SUBSET Process /\ None \notin Process
  BY NAssumption DEF Process, Root, None
<1>6. FirstParent(p, R) = IF y \in R THEN y ELSE FirstParent(y, R)
  BY <1>2, <1>5, FirstParentStep
<1>7. FirstParent(p, S) = IF y \in S THEN y ELSE FirstParent(y, S)
  BY <1>2, FirstParentStep
<1>8. FirstParent(Root, S) = None
  BY FirstParentStep, NAssumption DEF Process, Root
<1>9. Ok(p)
  <2>1. CASE y \in S
    BY <2>1, <1>3, <1>5, <1>6, <1>7
  <2>2. CASE y \notin S /\ y = Root
    BY <2>2, <1>6, <1>7, <1>8
  <2>3. CASE y \notin S /\ y # Root
    BY <2>3, <1>4, <1>6, <1>7
  <2> QED
    BY <2>1, <2>2, <2>3
<1> QED
  BY <1>2, <1>9

(* What a reduction relies on: the processes a process of S, or the root,  *)
(* counts as its first descendants are those that send it their messages,  *)
(* because they find it as their first parent or, for the root, find none. *)
THEOREM CountedAreThoseWhoSend ==
  ASSUME NEW S \in SUBSET Process, NEW q \in S \cup {Root}
  PROVE  FirstDescendants(q, S) =
           {x \in S \ {Root} :
              (IF FirstParent(x, S) = None THEN Root ELSE FirstParent(x, S)) = q}
<1>1. Root \in Process /\ q \in Process /\ None \notin Process
  BY NAssumption DEF Process, Root, None
<1>2. FirstDescendants(q, S) = {x \in S : FirstParent(x, S \cup {q}) = q}
  BY <1>1, DescendantsMatchParents
<1>3. FirstParent(Root, S \cup {q}) = None
  BY <1>1, FirstParentStep
<1>4. ASSUME NEW x \in S \ {Root}
      PROVE  FirstParent(x, S \cup {q}) = q <=>
               (IF FirstParent(x, S) = None THEN Root ELSE FirstParent(x, S)) = q
  <2>1. CASE q = Root
    BY <2>1, RootAboveAll
  <2>2. CASE q # Root
    <3>1. S \cup {q} = S
      BY <2>2
    <3> QED
      BY <3>1, <2>2, <1>1
  <2> QED
    BY <2>1, <2>2
<1> QED
  BY <1>1, <1>2, <1>3, <1>4

-----------------------------------------------------------------------------
(* Below a process                                                         *)

(* The processes from q down: q and all those below it.                    *)
Subtree(q) == {x \in Process : x = q \/ FirstParent(x, {q}) = q}

LEMMA SubtreeOfRoot == Subtree(Root) = Process
<1>1. \A p \in Process \ {Root} : FirstParent(p, {}) = None
  BY FirstParentIsAbove
<1>2. \A p \in Process \ {Root} : FirstParent(p, {} \cup {Root}) = Root
  BY <1>1, RootAboveAll
<1>3. {} \cup {Root} = {Root}
  OBVIOUS
<1> QED
  BY <1>2, <1>3 DEF Subtree

LEMMA SubtreeStep ==
  ASSUME NEW q \in Process
  PROVE  /\ q \in Subtree(q)
         /\ \A x \in Process :
              x \in Subtree(q) <=> x = q \/ \E c \in Children(q) : x \in Subtree(c)
         /\ \A x \in Subtree(q) : x >= q
<1>1. PICK S : S = {}
  OBVIOUS
<1>2. \A x \in Process :
        FirstParent(x, {q}) = q <=>
          \/ x \in Children(q)
          \/ \E c \in Children(q) : FirstParent(x, {c}) = c
  <2>1. S \in SUBSET Process /\ \A c : S \cup {c} = {c}
    BY <1>1
  <2>2. \A x \in Process : \A r \in Process :
          FirstParent(x, S \cup {r}) = r <=>
            \/ x \in Children(r)
            \/ \E c \in Children(r) \ S : FirstParent(x, S \cup {c}) = c
    BY <2>1, NearestBelow
  <2> TAKE x \in Process
  <2>3. FirstParent(x, S \cup {q}) = q <=>
          \/ x \in Children(q)
          \/ \E c \in Children(q) \ S : FirstParent(x, S \cup {c}) = c
    BY <2>2
  <2>4. S \cup {q} = {q} /\ Children(q) \ S = Children(q)
    BY <1>1
  <2>5. \A c : FirstParent(x, S \cup {c}) = FirstParent(x, {c})
    BY <2>1
  <2> QED
    BY <2>3, <2>4, <2>5
<1>3. Children(q) \subseteq Process
  BY ChildrenAreProcesses
<1>4. \A x \in Process : x \in Subtree(q) <=> x = q \/ \E c \in Children(q) : x \in Subtree(c)
  BY <1>2, <1>3 DEF Subtree
<1>5. \A x \in Process : FirstParent(x, {q}) < x
  BY FirstParentIsAbove
<1>6. \A x \in Subtree(q) : x >= q
  <2> TAKE x \in Subtree(q)
  <2>1. x \in Process /\ (x = q \/ FirstParent(x, {q}) = q)
    BY DEF Subtree
  <2>2. x \in Int /\ q \in Int
    BY <2>1, NAssumption DEF Process
  <2> QED
    BY <1>5, <2>1, <2>2
<1>7. q \in Subtree(q)
  BY DEF Subtree
<1> QED
  BY <1>4, <1>6, <1>7

(* The ways down from two children do not meet.                            *)
LEMMA SubtreesApart ==
  ASSUME NEW q \in Process, NEW c \in Children(q), NEW d \in Children(q), c # d
  PROVE  Subtree(c) \cap Subtree(d) = {} /\ q \notin Subtree(c)
<1> DEFINE T == Subtree(c) \cap Subtree(d)
<1>1. /\ c \in Process /\ d \in Process /\ c # Root /\ d # Root /\ c # q /\ d # q
      /\ Parent(c) = q /\ Parent(d) = q
  <2>1. c \in Process \ {q, Root} /\ d \in Process \ {q, Root}
    BY ChildrenAreProcesses
  <2> QED
    BY <2>1, ChildrenMatchParent
<1>2. q < c /\ q < d
  BY <1>1, ParentIsSmaller
<1>3. ASSUME NEW a \in Process, a # Root, NEW x \in Subtree(a), x # a
      PROVE  x # Root /\ Parent(x) \in Process /\ Parent(x) < x /\ Parent(x) \in Subtree(a)
  <2>1. x \in Process /\ FirstParent(x, {a}) = a
    BY <1>3 DEF Subtree
  <2>2. None # a
    BY NAssumption DEF None, Process
  <2>3. FirstParent(x, {a}) =
          IF x = Root THEN None
          ELSE IF Parent(x) \in {a} THEN Parent(x) ELSE FirstParent(Parent(x), {a})
    BY <2>1, FirstParentStep
  <2>4. x # Root
    BY <2>1, <2>2, <2>3
  <2>5. Parent(x) \in Process /\ Parent(x) < x
    BY <2>1, <2>4, ParentIsSmaller
  <2> QED
    BY <2>1, <2>3, <2>4, <2>5 DEF Subtree
<1>4. T = {}
  <2>1. SUFFICES ASSUME T # {} PROVE FALSE
    OBVIOUS
  <2>2. T \in SUBSET Process
    BY DEF Subtree
  <2>3. PICK x \in T : \A y \in T : x <= y
    <3> HIDE DEF T
    <3> QED
      BY <2>1, <2>2, SmallestProcess
  <2>4. CASE x # c /\ x # d
    <3>1. Parent(x) \in T /\ Parent(x) < x /\ Parent(x) \in Process
      BY <1>1, <1>3, <2>4
    <3> QED
      BY <2>2, <2>3, <3>1 DEF Process
  <2>5. CASE x = c
    <3>1. q \in Subtree(d)
      BY <1>1, <1>3, <2>5
    <3> QED
      BY <1>1, <1>2, <3>1, SubtreeStep DEF Process
  <2>6. CASE x = d
    <3>1. q \in Subtree(c)
      BY <1>1, <1>3, <2>6
    <3> QED
      BY <1>1, <1>2, <3>1, SubtreeStep DEF Process
  <2> QED
    BY <2>4, <2>5, <2>6
<1>5. q \notin Subtree(c)
  BY <1>1, <1>2, SubtreeStep DEF Process
<1> QED
  BY <1>4, <1>5
=============================================================================
