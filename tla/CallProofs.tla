------------------------------- MODULE CallProofs -------------------------------
(***************************************************************************)
(* What becomes of the calls of a program: every call that is made is      *)
(* carried by messages through queues, channels, receives and tasks, each  *)
(* of its elements by exactly one, until an action has run on it there; so *)
(* that every action runs once on each element it is addressed to and on   *)
(* no other, whatever the components, the processes and the calls.         *)
(***************************************************************************)
EXTENDS ProgramProofs

-----------------------------------------------------------------------------
(* Who brings what                                                         *)

(* A key is what a call owes: a run on a process, of an element or of the  *)
(* process itself, for the first time or not.  A message also visits the   *)
(* processes it gets to, the key of which has no element.                  *)
Key(q, i, b) == <<q, {i}, b>>
Turns(q, i, again) == {Key(q, i, FALSE), Key(q, i, again)}
Deliveries(q, I, again) == UNION {Turns(q, i, again) : i \in I}
Visits(Q) == {<<q, {}, FALSE>> : q \in Q}
IsDelivery(k) == k[2] # {}

(* A carrier is a message in a queue or on its way, a task, or what has    *)
(* run; its load are the keys it will bring about, or has.  The calls are  *)
(* carried exactly if what they owe is somewhere, each key in one place.   *)
Exact(C, due, calls) ==
  /\ \A c \in C : /\ c.load # {}
                  /\ \E call \in calls : /\ c.call = call.name
                                         /\ \A k \in c.load : IsDelivery(k) => k \in due[call]
  /\ \A c, d \in C : c.call = d.call /\ c.load \cap d.load # {} => c = d
  /\ \A call \in calls : \A k \in due[call] :
       IsDelivery(k) /\ \E c \in C : c.call = call.name /\ k \in c.load

(* What the carriers G become is K.                                        *)
Becomes(G, K) ==
  /\ \A k \in K : k.load # {} /\ \E g \in G : k.call = g.call /\ k.load \subseteq g.load
  /\ \A k, l \in K : k.call = l.call /\ k.load \cap l.load # {} => k = l
  /\ \A g \in G : \A x \in g.load : IsDelivery(x) => \E k \in K : k.call = g.call /\ x \in k.load

LEMMA WhatBecomesIsNew ==
  ASSUME NEW C, NEW due, NEW calls, Exact(C, due, calls), NEW G, G \subseteq C, NEW K, Becomes(G, K)
  PROVE  K \cap (C \ G) = {}
<1> SUFFICES ASSUME NEW k \in K, k \in C \ G PROVE FALSE
  OBVIOUS
<1>1. PICK g \in G : k.call = g.call /\ k.load \subseteq g.load
  BY DEF Becomes
<1>2. k.load \cap g.load # {}
  BY <1>1 DEF Becomes
<1>3. k = g
  BY <1>1, <1>2 DEF Exact
<1> QED
  BY <1>1, <1>3

LEMMA ExactMoves ==
  ASSUME NEW C, NEW due, NEW calls, Exact(C, due, calls), NEW G, G \subseteq C, NEW K, Becomes(G, K)
  PROVE  Exact((C \ G) \cup K, due, calls)
<1> DEFINE D == (C \ G) \cup K
<1>1. ASSUME NEW k \in K
      PROVE  /\ k.load # {}
             /\ \E call \in calls : /\ k.call = call.name
                                    /\ \A x \in k.load : IsDelivery(x) => x \in due[call]
  <2>1. PICK g \in G : k.load # {} /\ k.call = g.call /\ k.load \subseteq g.load
    BY DEF Becomes
  <2>2. PICK call \in calls : g.call = call.name /\ \A x \in g.load : IsDelivery(x) => x \in due[call]
    BY DEF Exact
  <2> QED
    BY <2>1, <2>2
<1>2. \A c \in D : /\ c.load # {}
                   /\ \E call \in calls : /\ c.call = call.name
                                          /\ \A x \in c.load : IsDelivery(x) => x \in due[call]
  BY <1>1 DEF Exact
<1>3. ASSUME NEW c \in C \ G, NEW k \in K, c.call = k.call
      PROVE  c.load \cap k.load = {}
  <2>1. PICK g \in G : k.call = g.call /\ k.load \subseteq g.load
    BY DEF Becomes
  <2>2. c # g /\ c.call = g.call
    BY <1>3, <2>1
  <2>3. c.load \cap g.load = {}
    BY <2>2 DEF Exact
  <2> QED
    BY <2>1, <2>3
<1>4. ASSUME NEW c \in D, NEW d \in D, c.call = d.call, c.load \cap d.load # {}
      PROVE  c = d
  <2>1. CASE c \in C \ G /\ d \in C \ G
    BY <1>4, <2>1 DEF Exact
  <2>2. CASE c \in K /\ d \in K
    BY <1>4, <2>2 DEF Becomes
  <2>3. CASE c \in C \ G /\ d \in K
    BY <1>3, <1>4, <2>3
  <2>4. CASE d \in C \ G /\ c \in K
    BY <1>3, <1>4, <2>4
  <2> QED
    BY <2>1, <2>2, <2>3, <2>4
<1>5. ASSUME NEW call \in calls, NEW x \in due[call]
      PROVE  IsDelivery(x) /\ \E c \in D : c.call = call.name /\ x \in c.load
  <2>0. IsDelivery(x)
    BY DEF Exact
  <2>1. PICK c \in C : c.call = call.name /\ x \in c.load
    BY DEF Exact
  <2>2. CASE c \in G
    BY <2>0, <2>1, <2>2 DEF Becomes
  <2>3. CASE c \notin G
    BY <2>0, <2>1, <2>3
  <2> QED
    BY <2>2, <2>3
<1> HIDE DEF D
<1>6. Exact(D, due, calls)
  BY <1>2, <1>4, <1>5 DEF Exact
<1> QED
  BY <1>6 DEF D

(* The carriers of a call that is made share out what it owes.             *)
Shares(K, call, owed) ==
  /\ \A k \in K : k.load # {} /\ k.call = call.name /\ \A x \in k.load : IsDelivery(x) => x \in owed
  /\ \A k, l \in K : k.load \cap l.load # {} => k = l
  /\ \A x \in owed : IsDelivery(x) /\ \E k \in K : x \in k.load

LEMMA ExactMakes ==
  ASSUME NEW C, NEW due, NEW calls, Exact(C, due, calls), NEW call,
         \A other \in calls : other.name # call.name,
         NEW K, Shares(K, call, due[call])
  PROVE  Exact(C \cup K, due, calls \cup {call})
<1> DEFINE D == C \cup K
           M == calls \cup {call}
<1>1. \A c \in D : /\ c.load # {}
                   /\ \E one \in M : /\ c.call = one.name
                                     /\ \A x \in c.load : IsDelivery(x) => x \in due[one]
  BY DEF Exact, Shares
<1>2. \A c \in C : c.call # call.name
  BY DEF Exact
<1>3. \A c, d \in D : c.call = d.call /\ c.load \cap d.load # {} => c = d
  BY <1>2 DEF Exact, Shares
<1>4. \A one \in M : \A k \in due[one] :
        IsDelivery(k) /\ \E c \in D : c.call = one.name /\ k \in c.load
  BY DEF Exact, Shares
<1> HIDE DEF D, M
<1>5. Exact(D, due, M)
  BY <1>1, <1>3, <1>4 DEF Exact
<1> QED
  BY <1>5 DEF D, M

-----------------------------------------------------------------------------
(* Bags and sequences in which nothing is twice                            *)

AllOnce(B) == \A x \in DOMAIN B : B[x] = 1
NoTwice(s) == \A i, j \in DOMAIN s : s[i] = s[j] => i = j

LEMMA MoreOnce ==
  ASSUME NEW A, AllOnce(A), NEW B, AllOnce(B), DOMAIN A \cap DOMAIN B = {}
  PROVE  AllOnce(A (+) B) /\ BagToSet(A (+) B) = BagToSet(A) \cup BagToSet(B)
<1> DEFINE C == A (+) B
<1>1. DOMAIN C = DOMAIN A \cup DOMAIN B
  BY DEF (+)
<1>2. ASSUME NEW x \in DOMAIN A PROVE C[x] = 1
  <2>1. x \notin DOMAIN B /\ A[x] = 1
    BY DEF AllOnce
  <2>2. C[x] = A[x] + 0
    BY <2>1 DEF (+)
  <2> QED
    BY <2>1, <2>2
<1>3. ASSUME NEW x \in DOMAIN B PROVE C[x] = 1
  <2>1. x \notin DOMAIN A /\ B[x] = 1
    BY DEF AllOnce
  <2>2. C[x] = 0 + B[x]
    BY <2>1 DEF (+)
  <2> QED
    BY <2>1, <2>2
<1> QED
  BY <1>1, <1>2, <1>3 DEF AllOnce, BagToSet

LEMMA FewerOnce ==
  ASSUME NEW A, AllOnce(A), NEW S
  PROVE  /\ AllOnce(A (-) SetToBag(S)) /\ BagToSet(A (-) SetToBag(S)) = BagToSet(A) \ S
<1> DEFINE D == [e \in DOMAIN A |-> IF e \in DOMAIN SetToBag(S) THEN A[e] - SetToBag(S)[e] ELSE A[e]]
           C == A (-) SetToBag(S)
<1>1. C = [e \in {d \in DOMAIN D : D[d] > 0} |-> D[e]]
  BY DEF (-)
<1>2. \A x \in DOMAIN A : D[x] = IF x \in S THEN 0 ELSE 1
  <2> TAKE x \in DOMAIN A
  <2>1. A[x] = 1
    BY DEF AllOnce
  <2>2. DOMAIN SetToBag(S) = S /\ (x \in S => SetToBag(S)[x] = 1)
    BY DEF SetToBag
  <2> QED
    BY <2>1, <2>2
<1>3. DOMAIN D = DOMAIN A
  OBVIOUS
<1> HIDE DEF D
<1>4. DOMAIN C = DOMAIN A \ S
  BY <1>1, <1>2, <1>3
<1>5. \A x \in DOMAIN A \ S : C[x] = 1
  BY <1>1, <1>2, <1>3, <1>4
<1> QED
  BY <1>4, <1>5 DEF AllOnce, BagToSet

LEMMA SetIsOnce == \A S : AllOnce(SetToBag(S)) /\ BagToSet(SetToBag(S)) = S
  BY DEF AllOnce, SetToBag, BagToSet

LEMMA EmptyIsOnce == AllOnce(EmptyBag) /\ BagToSet(EmptyBag) = {}
  BY SetIsOnce DEF EmptyBag

LEMMA AppendOnce ==
  ASSUME NEW s, IsSequence(s), NEW e
  PROVE  /\ ToSet(Append(s, e)) = ToSet(s) \cup {e}
         /\ NoTwice(s) /\ e \notin ToSet(s) => NoTwice(Append(s, e))
<1> DEFINE t == Append(s, e)
<1>1. DOMAIN s = 1 .. Len(s) /\ Len(s) \in Nat
  BY DEF IsSequence
<1>2. s \in Seq(ToSet(s) \cup {e})
  BY SeqMonotonic DEF IsSequence
<1>3. /\ DOMAIN t = 1 .. Len(s) + 1 /\ t[Len(s) + 1] = e
      /\ \A i \in DOMAIN s : t[i] = s[i]
  BY <1>1, <1>2
<1> HIDE DEF t
<1>4. DOMAIN t = DOMAIN s \cup {Len(s) + 1} /\ Len(s) + 1 \notin DOMAIN s
  BY <1>1, <1>3
<1>5. ToSet(t) = ToSet(s) \cup {e}
  BY <1>3, <1>4 DEF ToSet
<1>6. NoTwice(s) /\ e \notin ToSet(s) => NoTwice(t)
  BY <1>3, <1>4 DEF NoTwice, ToSet
<1> QED
  BY <1>5, <1>6 DEF t

LEMMA TailOnce ==
  ASSUME NEW s, IsSequence(s), NoTwice(s), s # <<>>
  PROVE  NoTwice(Tail(s)) /\ ToSet(Tail(s)) = ToSet(s) \ {Head(s)} /\ Head(s) \in ToSet(s)
<1> DEFINE t == Tail(s)
<1>1. DOMAIN s = 1 .. Len(s) /\ Len(s) \in Nat \ {0} /\ s \in Seq(ToSet(s))
  BY DEF IsSequence
<1>2. /\ Head(s) = s[1] /\ DOMAIN t = 1 .. Len(s) - 1
      /\ \A i \in 1 .. Len(s) - 1 : t[i] = s[i + 1]
  BY <1>1
<1> HIDE DEF t
<1>3. NoTwice(t)
  <2> SUFFICES ASSUME NEW i \in DOMAIN t, NEW j \in DOMAIN t, t[i] = t[j] PROVE i = j
    BY DEF NoTwice
  <2>1. i + 1 \in DOMAIN s /\ j + 1 \in DOMAIN s /\ s[i + 1] = s[j + 1]
    BY <1>1, <1>2
  <2>2. i + 1 = j + 1
    BY <2>1 DEF NoTwice
  <2> QED
    BY <1>1, <1>2, <2>2
<1>4. ASSUME NEW x PROVE x \in ToSet(t) <=> x \in ToSet(s) /\ x # s[1]
  <2>1. ASSUME x \in ToSet(t) PROVE x \in ToSet(s) /\ x # s[1]
    <3>1. PICK i \in DOMAIN t : x = t[i]
      BY <2>1 DEF ToSet
    <3>2. i + 1 \in DOMAIN s /\ i + 1 # 1 /\ x = s[i + 1] /\ 1 \in DOMAIN s
      BY <1>1, <1>2, <3>1
    <3> QED
      BY <3>2 DEF ToSet, NoTwice
  <2>2. ASSUME x \in ToSet(s), x # s[1] PROVE x \in ToSet(t)
    <3>1. PICK i \in DOMAIN s : x = s[i]
      BY <2>2 DEF ToSet
    <3>2. i - 1 \in DOMAIN t /\ t[i - 1] = s[(i - 1) + 1] /\ (i - 1) + 1 = i
      BY <1>1, <1>2, <2>2, <3>1
    <3> QED
      BY <3>1, <3>2 DEF ToSet
  <2> QED
    BY <2>1, <2>2
<1>5. ToSet(t) = ToSet(s) \ {Head(s)}
  BY <1>2, <1>4
<1>6. Head(s) \in ToSet(s)
  BY <1>1, <1>2 DEF ToSet
<1> QED
  BY <1>3, <1>5, <1>6 DEF t

LEMMA ConcatOnce ==
  ASSUME NEW s, IsSequence(s), NEW t, IsSequence(t)
  PROVE  /\ ToSet(s \o t) = ToSet(s) \cup ToSet(t)
         /\ NoTwice(s) /\ NoTwice(t) /\ ToSet(s) \cap ToSet(t) = {} => NoTwice(s \o t)
<1> DEFINE u == s \o t
           S == ToSet(s) \cup ToSet(t)
<1>1. /\ DOMAIN s = 1 .. Len(s) /\ Len(s) \in Nat
      /\ DOMAIN t = 1 .. Len(t) /\ Len(t) \in Nat
  BY DEF IsSequence
<1>2. s \in Seq(S) /\ t \in Seq(S)
  BY SeqMonotonic DEF IsSequence
<1>3. /\ DOMAIN u = 1 .. Len(s) + Len(t)
      /\ \A i \in 1 .. Len(s) + Len(t) : u[i] = IF i <= Len(s) THEN s[i] ELSE t[i - Len(s)]
  <2> HIDE DEF S
  <2> QED
    BY <1>2, ConcatProperties
<1> HIDE DEF u
<1>4. \A i \in DOMAIN u : (i \in DOMAIN s /\ u[i] = s[i])
                          \/ (i - Len(s) \in DOMAIN t /\ u[i] = t[i - Len(s)])
  BY <1>1, <1>3
<1>5. \A i \in DOMAIN s : i \in DOMAIN u /\ u[i] = s[i]
  BY <1>1, <1>3
<1>6. \A i \in DOMAIN t : i + Len(s) \in DOMAIN u /\ u[i + Len(s)] = t[i]
  BY <1>1, <1>3
<1>7. ToSet(u) = ToSet(s) \cup ToSet(t)
  <2>1. ToSet(u) \subseteq ToSet(s) \cup ToSet(t)
    BY <1>4 DEF ToSet
  <2>2. ToSet(s) \subseteq ToSet(u)
    BY <1>5 DEF ToSet
  <2>3. ToSet(t) \subseteq ToSet(u)
    BY <1>6 DEF ToSet
  <2> QED
    BY <2>1, <2>2, <2>3
<1>8. ASSUME NoTwice(s), NoTwice(t), ToSet(s) \cap ToSet(t) = {} PROVE NoTwice(u)
  <2> SUFFICES ASSUME NEW i \in DOMAIN u, NEW j \in DOMAIN u, u[i] = u[j] PROVE i = j
    BY DEF NoTwice
  <2>1. i \in Int /\ j \in Int /\ Len(s) \in Int
    BY <1>1, <1>3
  <2>2. CASE i \in DOMAIN s /\ u[i] = s[i] /\ j \in DOMAIN s /\ u[j] = s[j]
    BY <1>8, <2>2 DEF NoTwice
  <2>3. CASE i - Len(s) \in DOMAIN t /\ u[i] = t[i - Len(s)] /\ j - Len(s) \in DOMAIN t /\ u[j] = t[j - Len(s)]
    <3>1. i - Len(s) = j - Len(s)
      BY <1>8, <2>3 DEF NoTwice
    <3> QED
      BY <2>1, <3>1
  <2>4. CASE i \in DOMAIN s /\ u[i] = s[i] /\ j - Len(s) \in DOMAIN t /\ u[j] = t[j - Len(s)]
    BY <1>8, <2>4 DEF ToSet
  <2>5. CASE j \in DOMAIN s /\ u[j] = s[j] /\ i - Len(s) \in DOMAIN t /\ u[i] = t[i - Len(s)]
    BY <1>8, <2>5 DEF ToSet
  <2> QED
    BY <1>4, <2>2, <2>3, <2>4, <2>5
<1> QED
  BY <1>7, <1>8 DEF u

(* All that is in the sequence and in the set is selected, and only once.  *)
LEMMA SelectedOnce ==
  ASSUME NEW s, IsSequence(s), NEW T
  PROVE  /\ ToSet(Selected(s, T)) = ToSet(s) \cap T
         /\ NoTwice(s) => NoTwice(Selected(s, T))
<1> DEFINE Step(f, i) == IF i = 0 THEN <<>>
                         ELSE IF s[i] \in T THEN Append(f[i - 1], s[i]) ELSE f[i - 1]
           upto == CHOOSE f : f = [i \in 0 .. Len(s) |-> Step(f, i)]
           First(n) == {s[i] : i \in 1 .. n}
<1>1. upto = [i \in 0 .. Len(s) |-> Step(upto, i)]
  <2>1. \E f : f = [i \in 0 .. Len(s) |-> Step(f, i)]
    BY SelectedExists, Zenon
  <2> HIDE DEF Step
  <2> QED
    BY <2>1, Zenon
<1>2. Selected(s, T) = upto[Len(s)]
  BY DEF Selected
<1>3. Len(s) \in Nat /\ DOMAIN s = 1 .. Len(s)
  BY DEF IsSequence
<1> HIDE DEF upto
<1> DEFINE Ok(n) == /\ IsSequence(upto[n]) /\ ToSet(upto[n]) = First(n) \cap T
                    /\ NoTwice(s) => NoTwice(upto[n])
           A == {n \in Nat : n <= Len(s) => Ok(n)}
<1>4. 0 \in A
  <2>1. upto[0] = <<>> /\ First(0) = {}
    BY <1>1, <1>3
  <2>2. NoTwice(<<>>)
    BY DEF NoTwice
  <2> QED
    BY <2>1, <2>2, EmptyIsSequence
<1>5. ASSUME NEW n \in Nat, n \in A
      PROVE  n + 1 \in A
  <2>1. SUFFICES ASSUME n + 1 <= Len(s) PROVE Ok(n + 1)
    OBVIOUS
  <2>2. Ok(n)
    BY <1>3, <1>5, <2>1
  <2>3. n + 1 \in 1 .. Len(s) /\ n + 1 # 0 /\ (n + 1) - 1 = n
    BY <1>3, <2>1
  <2>4. upto[n + 1] = IF s[n + 1] \in T THEN Append(upto[n], s[n + 1]) ELSE upto[n]
    <3>1. upto[n + 1] = Step(upto, n + 1)
      <4> HIDE DEF Step
      <4>1. n + 1 \in 0 .. Len(s)
        BY <2>3
      <4> QED
        BY <1>1, <4>1
    <3> QED
      BY <2>3, <3>1
  <2>5. First(n + 1) = First(n) \cup {s[n + 1]}
    <3>1. \A i : i \in 1 .. n + 1 <=> i \in 1 .. n \/ i = n + 1
      OBVIOUS
    <3> QED
      BY <3>1
  <2>6. NoTwice(s) => s[n + 1] \notin First(n)
    <3>1. \A i \in 1 .. n : i \in DOMAIN s /\ i # n + 1 /\ n + 1 \in DOMAIN s
      BY <1>3, <2>1
    <3> QED
      BY <3>1 DEF NoTwice
  <2> HIDE DEF First
  <2>7. CASE s[n + 1] \in T
    <3>1. upto[n + 1] = Append(upto[n], s[n + 1])
      BY <2>4, <2>7
    <3>2. /\ IsSequence(upto[n + 1])
          /\ ToSet(upto[n + 1]) = ToSet(upto[n]) \cup {s[n + 1]}
          /\ NoTwice(upto[n]) /\ s[n + 1] \notin ToSet(upto[n]) => NoTwice(upto[n + 1])
      BY <2>2, <3>1, AppendIsSequence, AppendOnce
    <3> QED
      BY <2>2, <2>5, <2>6, <2>7, <3>2
  <2>8. CASE s[n + 1] \notin T
    BY <2>2, <2>4, <2>5, <2>8
  <2> QED
    BY <2>7, <2>8
<1>6. Nat \subseteq A
  <2> HIDE DEF A
  <2> QED
    BY <1>4, <1>5, SetInduction
<1>7. Ok(Len(s))
  <2> HIDE DEF Ok
  <2>1. Len(s) \in A
    BY <1>3, <1>6
  <2> QED
    BY <1>3, <2>1
<1>8. First(Len(s)) = ToSet(s)
  BY <1>3 DEF ToSet
<1> QED
  BY <1>2, <1>7, <1>8

-----------------------------------------------------------------------------
(* The carriers                                                            *)

(* R is what the places in a registry stand for, names and locations.      *)
LocalsOf(entry, q) ==
  IF entry.name \in Collections THEN {e \in DOMAIN entry.objects : entry.objects[e] = q}
  ELSE {NoIndex}
Wanted(R, m, q) ==
  IF m.type = "Invoke" THEN {m.index}
  ELSE IF m.type = "BroadcastTo" THEN m.ids
  ELSE LocalsOf(R[m.object], q)

(* A message that is to get to h, a broadcast also to those below.         *)
LoadAt(R, m, q) == Visits({q}) \cup Deliveries(q, Wanted(R, m, q), m.again)
MailLoad(R, m, h) ==
  UNION {LoadAt(R, m, q) : q \in IF m.type = "Broadcast" THEN Subtree(h) ELSE {h}}
Goal(m) == IF m.type = "Broadcast" THEN Root ELSE m.dest

InQueue(R, p, m) ==
  [spot |-> <<"queue", p, p>>, what |-> m, call |-> m.call, load |-> MailLoad(R, m, Goal(m))]
OnTheWay(R, p, q, m) ==
  [spot |-> <<"way", p, q>>, what |-> m, call |-> m.call, load |-> MailLoad(R, m, q)]
InHand(R, m) ==
  [spot |-> <<"hand", Self, Self>>, what |-> m, call |-> m.call, load |-> MailLoad(R, m, Self)]
AsTask(p, m) ==
  [spot |-> <<"task", p, p>>, what |-> m, call |-> m.call,
   load |-> Turns(p, m.index, m.again)]
HasRun(x) ==
  [spot |-> <<"ran", x.process, x.process>>, what |-> x, call |-> x.call,
   load |-> {Key(x.process, x.index, x.again)}]

Waiting(R, out) == UNION {{InQueue(R, p, m) : m \in BagToSet(out[p])} : p \in Process}
Travelling(R, ch) ==
  UNION {UNION {{OnTheWay(R, p, q, m) : m \in ToSet(ch[p][q])} : q \in Process} : p \in Process}
TakenIn(R, arr) == {InHand(R, m) : m \in arr}
ToDo(queues) == UNION {{AsTask(p, m) : m \in BagToSet(queues[p])} : p \in Process}
HaveRun(runs) == {HasRun(x) : x \in BagToSet(runs)}

CarriersOf(R, out, ch, arr, queues, runs) ==
  Waiting(R, out) \cup Travelling(R, ch) \cup TakenIn(R, arr) \cup ToDo(queues) \cup HaveRun(runs)

(* How they change: G goes and K comes.                                    *)
Changes(old, new, G, K) == new = (old \ G) \cup K

QueuedOn(R, p, S) == {InQueue(R, p, m) : m \in S}
TasksOn(p, S) == {AsTask(p, m) : m \in S}

Queues(out) == out = [q \in Process |-> out[q]]

LEMMA WaitingChanges ==
  ASSUME NEW R, NEW out, Queues(out), NEW p \in Process, NEW X, NEW A, NEW B,
         BagToSet(X) = (BagToSet(out[p]) \ A) \cup B
  PROVE  Changes(Waiting(R, out), Waiting(R, [out EXCEPT ![p] = X]),
                 QueuedOn(R, p, A), QueuedOn(R, p, B))
<1> DEFINE after == [out EXCEPT ![p] = X]
<1>1. \A q \in Process : after[q] = IF q = p THEN X ELSE out[q]
  BY DEF Queues
<1> HIDE DEF after
<1>2. \A q, r, m, n : InQueue(R, q, m) = InQueue(R, r, n) => q = r /\ m = n
  BY DEF InQueue
<1>3. \A c : c \in Waiting(R, after) <=>
        \E q \in Process : \E m \in BagToSet(after[q]) : c = InQueue(R, q, m)
  BY DEF Waiting
<1>4. \A c : c \in Waiting(R, out) <=>
        \E q \in Process : \E m \in BagToSet(out[q]) : c = InQueue(R, q, m)
  BY DEF Waiting
<1> HIDE DEF Waiting
<1>5. ASSUME NEW c, c \in Waiting(R, after)
      PROVE  c \in (Waiting(R, out) \ {InQueue(R, p, m) : m \in A}) \cup {InQueue(R, p, m) : m \in B}
  <2>0. PICK q \in Process : \E m \in BagToSet(after[q]) : c = InQueue(R, q, m)
    BY <1>3, <1>5, Zenon
  <2>1. PICK m \in BagToSet(after[q]) : c = InQueue(R, q, m)
    BY <2>0
  <2>2. CASE q = p
    BY <1>1, <1>2, <1>4, <2>1, <2>2
  <2>3. CASE q # p
    BY <1>1, <1>2, <1>4, <2>1, <2>3
  <2> QED
    BY <2>2, <2>3
<1>6. ASSUME NEW c, c \in Waiting(R, out), c \notin {InQueue(R, p, m) : m \in A}
      PROVE  c \in Waiting(R, after)
  <2>0. PICK q \in Process : \E m \in BagToSet(out[q]) : c = InQueue(R, q, m)
    BY <1>4, <1>6, Zenon
  <2>1. PICK m \in BagToSet(out[q]) : c = InQueue(R, q, m)
    BY <2>0
  <2>2. m \in BagToSet(after[q])
    BY <1>1, <1>6, <2>1
  <2> QED
    BY <1>3, <2>1, <2>2, Zenon
<1>7. ASSUME NEW m \in B
      PROVE  InQueue(R, p, m) \in Waiting(R, after)
  BY <1>1, <1>3, Zenon
<1> QED
  BY <1>5, <1>6, <1>7 DEF after, Changes, QueuedOn, TasksOn

LEMMA ToDoChanges ==
  ASSUME NEW queues, Queues(queues), NEW p \in Process, NEW X, NEW A, NEW B,
         BagToSet(X) = (BagToSet(queues[p]) \ A) \cup B
  PROVE  Changes(ToDo(queues), ToDo([queues EXCEPT ![p] = X]),
                 TasksOn(p, A), TasksOn(p, B))
<1> DEFINE after == [queues EXCEPT ![p] = X]
<1>1. \A q \in Process : after[q] = IF q = p THEN X ELSE queues[q]
  BY DEF Queues
<1> HIDE DEF after
<1>2. \A q, r, m, n : AsTask(q, m) = AsTask(r, n) => q = r /\ m = n
  BY DEF AsTask
<1>3. \A c : c \in ToDo(after) <=>
        \E q \in Process : \E m \in BagToSet(after[q]) : c = AsTask(q, m)
  BY DEF ToDo
<1>4. \A c : c \in ToDo(queues) <=>
        \E q \in Process : \E m \in BagToSet(queues[q]) : c = AsTask(q, m)
  BY DEF ToDo
<1> HIDE DEF ToDo
<1>5. ASSUME NEW c, c \in ToDo(after)
      PROVE  c \in (ToDo(queues) \ {AsTask(p, m) : m \in A}) \cup {AsTask(p, m) : m \in B}
  <2>0. PICK q \in Process : \E m \in BagToSet(after[q]) : c = AsTask(q, m)
    BY <1>3, <1>5, Zenon
  <2>1. PICK m \in BagToSet(after[q]) : c = AsTask(q, m)
    BY <2>0
  <2>2. CASE q = p
    BY <1>1, <1>2, <1>4, <2>1, <2>2
  <2>3. CASE q # p
    BY <1>1, <1>2, <1>4, <2>1, <2>3
  <2> QED
    BY <2>2, <2>3
<1>6. ASSUME NEW c, c \in ToDo(queues), c \notin {AsTask(p, m) : m \in A}
      PROVE  c \in ToDo(after)
  <2>0. PICK q \in Process : \E m \in BagToSet(queues[q]) : c = AsTask(q, m)
    BY <1>4, <1>6, Zenon
  <2>1. PICK m \in BagToSet(queues[q]) : c = AsTask(q, m)
    BY <2>0
  <2>2. m \in BagToSet(after[q])
    BY <1>1, <1>6, <2>1
  <2> QED
    BY <1>3, <2>1, <2>2, Zenon
<1>7. ASSUME NEW m \in B
      PROVE  AsTask(p, m) \in ToDo(after)
  BY <1>1, <1>3, Zenon
<1> QED
  BY <1>5, <1>6, <1>7 DEF after, Changes, QueuedOn, TasksOn

Ways(ch) ==
  /\ ch = [p \in Process |-> [q \in Process |-> ch[p][q]]]
  /\ \A p, q \in Process : IsSequence(ch[p][q])
(* In the row of p come B after A has gone.                                *)
RowChanges(ch, p, row, A, B) ==
  /\ row = [q \in Process |-> row[q]]
  /\ \A q \in Process : ToSet(row[q]) = (ToSet(ch[p][q]) \ A[q]) \cup B[q]

Fan(R, p, A) == UNION {{OnTheWay(R, p, q, m) : m \in A[q]} : q \in Process}

LEMMA TravellingChanges ==
  ASSUME NEW R, NEW ch, Ways(ch),
         NEW p \in Process, NEW row, NEW A, NEW B, RowChanges(ch, p, row, A, B)
  PROVE  Changes(Travelling(R, ch), Travelling(R, [ch EXCEPT ![p] = row]), Fan(R, p, A), Fan(R, p, B))
<1> DEFINE after == [ch EXCEPT ![p] = row]
           G == Fan(R, p, A)
           K == Fan(R, p, B)
<1>1. \A o, q \in Process : after[o][q] = IF o = p THEN row[q] ELSE ch[o][q]
  BY DEF Ways
<1> HIDE DEF after
<1>2. \A q \in Process : ToSet(row[q]) = (ToSet(ch[p][q]) \ A[q]) \cup B[q]
  BY DEF RowChanges
<1>3. \A c : c \in Travelling(R, after) <=>
        \E o, q \in Process : \E m \in ToSet(after[o][q]) : c = OnTheWay(R, o, q, m)
  BY DEF Travelling
<1>4. \A c : c \in Travelling(R, ch) <=>
        \E o, q \in Process : \E m \in ToSet(ch[o][q]) : c = OnTheWay(R, o, q, m)
  BY DEF Travelling
<1>5. \A c : c \in G <=> \E q \in Process : \E m \in A[q] : c = OnTheWay(R, p, q, m)
  BY DEF Fan
<1>6. \A c : c \in K <=> \E q \in Process : \E m \in B[q] : c = OnTheWay(R, p, q, m)
  BY DEF Fan
<1> HIDE DEF Travelling, G, K
<1>7. ASSUME NEW c, c \in Travelling(R, after)
      PROVE  c \in (Travelling(R, ch) \ G) \cup K
  <2>1. PICK o \in Process, q \in Process : \E m \in ToSet(after[o][q]) : c = OnTheWay(R, o, q, m)
    BY <1>3, <1>7, Zenon
  <2>2. PICK m \in ToSet(after[o][q]) : c = OnTheWay(R, o, q, m)
    BY <2>1
  <2>3. CASE o = p
    <3>1. m \in (ToSet(ch[p][q]) \ A[q]) \cup B[q]
      BY <1>1, <1>2, <2>2, <2>3
    <3>2. CASE m \in B[q]
      BY <1>6, <2>2, <2>3, <3>2
    <3>3. CASE m \in ToSet(ch[p][q]) /\ m \notin A[q]
      <4>1. c \in Travelling(R, ch)
        BY <1>4, <2>2, <2>3, <3>3
      <4>2. ASSUME c \in G PROVE FALSE
        <5>1. PICK r \in Process : \E n \in A[r] : c = OnTheWay(R, p, r, n)
          BY <1>5, <4>2
        <5>2. PICK n \in A[r] : c = OnTheWay(R, p, r, n)
          BY <5>1
        <5>3. /\ c.spot = <<"way", o, q>> /\ c.spot = <<"way", p, r>>
              /\ c.what = m /\ c.what = n
          BY <2>2, <5>2 DEF OnTheWay
        <5> QED
          BY <3>3, <5>2, <5>3
      <4> QED
        BY <4>1, <4>2
    <3> QED
      BY <3>1, <3>2, <3>3
  <2>4. CASE o # p
    <3>1. c \in Travelling(R, ch)
      BY <1>1, <1>4, <2>2, <2>4
    <3>2. ASSUME c \in G PROVE FALSE
      <4>1. PICK r \in Process : \E n \in A[r] : c = OnTheWay(R, p, r, n)
        BY <1>5, <3>2
      <4>2. PICK n \in A[r] : c = OnTheWay(R, p, r, n)
        BY <4>1
      <4>3. c.spot = <<"way", o, q>> /\ c.spot = <<"way", p, r>>
        BY <2>2, <4>2 DEF OnTheWay
      <4> QED
        BY <2>4, <4>3
    <3> QED
      BY <3>1, <3>2
  <2> QED
    BY <2>3, <2>4
<1>8. ASSUME NEW c, c \in Travelling(R, ch), c \notin G
      PROVE  c \in Travelling(R, after)
  <2>1. PICK o \in Process, q \in Process : \E m \in ToSet(ch[o][q]) : c = OnTheWay(R, o, q, m)
    BY <1>4, <1>8, Zenon
  <2>2. PICK m \in ToSet(ch[o][q]) : c = OnTheWay(R, o, q, m)
    BY <2>1
  <2>3. o = p => m \notin A[q]
    BY <1>5, <1>8, <2>2
  <2>4. m \in ToSet(after[o][q])
    BY <1>1, <1>2, <2>2, <2>3
  <2> QED
    BY <1>3, <2>2, <2>4
<1>9. ASSUME NEW c, c \in K
      PROVE  c \in Travelling(R, after)
  <2>1. PICK q \in Process : \E m \in B[q] : c = OnTheWay(R, p, q, m)
    BY <1>6, <1>9
  <2>2. PICK m \in B[q] : c = OnTheWay(R, p, q, m)
    BY <2>1
  <2>3. m \in ToSet(after[p][q])
    BY <1>1, <1>2, <2>2
  <2> QED
    BY <1>3, <2>2, <2>3
<1> QED
  BY <1>7, <1>8, <1>9 DEF G, K, after, Changes

(* The head of a way is taken.                                             *)
LEMMA TravellingLess ==
  ASSUME NEW R, NEW ch, Ways(ch),
         NEW p \in Process, NEW q \in Process, NoTwice(ch[p][q]),
         ch[p][q] # <<>>
  PROVE  Changes(Travelling(R, ch), Travelling(R, [ch EXCEPT ![p][q] = Tail(@)]),
                 {OnTheWay(R, p, q, Head(ch[p][q]))}, {})
<1> DEFINE h == Head(ch[p][q])
           row == [ch[p] EXCEPT ![q] = Tail(@)]
           A == [r \in Process |-> IF r = q THEN {h} ELSE {}]
           B == [r \in Process |-> {}]
           G == Fan(R, p, A)
           K == Fan(R, p, B)
<1>1. [ch EXCEPT ![p][q] = Tail(@)] = [ch EXCEPT ![p] = row]
  BY DEF Ways
<1>2. ToSet(Tail(ch[p][q])) = ToSet(ch[p][q]) \ {h}
  BY TailOnce DEF Ways
<1>3. row = [r \in Process |-> row[r]] /\ \A r \in Process : row[r] = IF r = q THEN Tail(ch[p][q]) ELSE ch[p][r]
  BY DEF Ways
<1>4. K = {} /\ G = {OnTheWay(R, p, q, h)}
  <2>1. \A r \in Process : A[r] = IF r = q THEN {h} ELSE {}
    OBVIOUS
  <2>2. K = {}
    BY DEF Fan
  <2> HIDE DEF A, K
  <2>3. \A c : c \in G <=> \E r \in Process : \E m \in A[r] : c = OnTheWay(R, p, r, m)
    BY DEF Fan
  <2> HIDE DEF G, h
  <2>4. \A c : c \in G <=> c = OnTheWay(R, p, q, h)
    BY <2>1, <2>3
  <2> QED
    BY <2>2, <2>4
<1>5. \A r \in Process : A[r] = (IF r = q THEN {h} ELSE {}) /\ B[r] = {}
  OBVIOUS
<1> HIDE DEF row, A, B, h
<1>6. \A r \in Process : ToSet(row[r]) = (ToSet(ch[p][r]) \ A[r]) \cup B[r]
  BY <1>2, <1>3, <1>5
<1>10. RowChanges(ch, p, row, A, B)
  BY <1>3, <1>6 DEF RowChanges
<1>7. Changes(Travelling(R, ch), Travelling(R, [ch EXCEPT ![p] = row]), Fan(R, p, A), Fan(R, p, B))
  BY <1>10, TravellingChanges, Zenon
<1> QED
  BY <1>1, <1>4, <1>7 DEF h, Changes

LEMMA TravellingMore ==
  ASSUME NEW R, NEW ch, Ways(ch),
         NEW p \in Process, NEW q \in Process, NEW m
  PROVE  Changes(Travelling(R, ch), Travelling(R, [ch EXCEPT ![p][q] = Append(@, m)]),
                 {}, {OnTheWay(R, p, q, m)})
<1> DEFINE row == [ch[p] EXCEPT ![q] = Append(@, m)]
           A == [r \in Process |-> {}]
           B == [r \in Process |-> IF r = q THEN {m} ELSE {}]
           G == Fan(R, p, A)
           K == Fan(R, p, B)
<1>1. [ch EXCEPT ![p][q] = Append(@, m)] = [ch EXCEPT ![p] = row]
  BY DEF Ways
<1>2. ToSet(Append(ch[p][q], m)) = ToSet(ch[p][q]) \cup {m}
  BY AppendOnce DEF Ways
<1>3. row = [r \in Process |-> row[r]] /\ \A r \in Process : row[r] = IF r = q THEN Append(ch[p][q], m) ELSE ch[p][r]
  BY DEF Ways
<1>4. G = {} /\ K = {OnTheWay(R, p, q, m)}
  <2>1. \A r \in Process : B[r] = IF r = q THEN {m} ELSE {}
    OBVIOUS
  <2>2. G = {}
    BY DEF Fan
  <2> HIDE DEF B, G
  <2>3. \A c : c \in K <=> \E r \in Process : \E n \in B[r] : c = OnTheWay(R, p, r, n)
    BY DEF Fan
  <2> HIDE DEF K
  <2>4. \A c : c \in K <=> c = OnTheWay(R, p, q, m)
    BY <2>1, <2>3
  <2> QED
    BY <2>2, <2>4
<1>5. \A r \in Process : A[r] = {} /\ B[r] = (IF r = q THEN {m} ELSE {})
  OBVIOUS
<1> HIDE DEF row, A, B
<1>6. \A r \in Process : ToSet(row[r]) = (ToSet(ch[p][r]) \ A[r]) \cup B[r]
  BY <1>2, <1>3, <1>5
<1>10. RowChanges(ch, p, row, A, B)
  BY <1>3, <1>6 DEF RowChanges
<1>7. Changes(Travelling(R, ch), Travelling(R, [ch EXCEPT ![p] = row]), Fan(R, p, A), Fan(R, p, B))
  BY <1>10, TravellingChanges, Zenon
<1> QED
  BY <1>1, <1>4, <1>7 DEF Changes

(* Copies of the broadcasts ms go to the children.                         *)
ToChildrenOf(R, p, S) ==
  UNION {{OnTheWay(R, p, c, Redirected(CopyOf(m), c)) : m \in S} : c \in Children(p)}

LEMMA TravellingDown ==
  ASSUME NEW R, NEW ch, Ways(ch),
         NEW p \in Process, NEW ms, IsSequence(ms)
  PROVE  Changes(Travelling(R, ch), Travelling(R, ToChildren(ch, p, ms)),
                 {}, ToChildrenOf(R, p, ToSet(ms)))
<1> DEFINE copies(q) == [i \in DOMAIN ms |-> Redirected(CopyOf(ms[i]), q)]
           row == [q \in Process |-> IF q \notin Children(p) THEN ch[p][q] ELSE ch[p][q] \o copies(q)]
           A == [r \in Process |-> {}]
           B == [r \in Process |-> IF r \in Children(p) THEN ToSet(copies(r)) ELSE {}]
           G == Fan(R, p, A)
           K == Fan(R, p, B)
<1>1. ToChildren(ch, p, ms) = [ch EXCEPT ![p] = row]
  BY DEF ToChildren
<1>2. ASSUME NEW q \in Process
      PROVE  ToSet(ch[p][q] \o copies(q)) = ToSet(ch[p][q]) \cup ToSet(copies(q))
  <2> DEFINE t == copies(q)
  <2>1. DOMAIN t = DOMAIN ms /\ t = [i \in DOMAIN ms |-> t[i]]
    OBVIOUS
  <2> HIDE DEF t
  <2>2. IsSequence(t)
    BY <2>1, LikeASequence
  <2>3. ToSet(ch[p][q] \o t) = ToSet(ch[p][q]) \cup ToSet(t)
    BY <2>2, ConcatOnce DEF Ways
  <2> QED
    BY <2>3 DEF t
<1>3. /\ row = [r \in Process |-> row[r]]
      /\ \A r \in Process : row[r] = IF r \notin Children(p) THEN ch[p][r] ELSE ch[p][r] \o copies(r)
  OBVIOUS
<1>4. \A q : ToSet(copies(q)) = {Redirected(CopyOf(m), q) : m \in ToSet(ms)}
  BY DEF ToSet
<1>5. \A r \in Process : A[r] = {} /\ B[r] = (IF r \in Children(p) THEN ToSet(copies(r)) ELSE {})
  OBVIOUS
<1>6. G = {}
  BY DEF Fan
<1>7. K = ToChildrenOf(R, p, ToSet(ms))
  <2>1. \A c : c \in K <=> \E r \in Process : \E n \in B[r] : c = OnTheWay(R, p, r, n)
    <3> HIDE DEF B
    <3> QED
      BY DEF Fan
  <2> HIDE DEF K, copies, B
  <2>2. \A c : c \in ToChildrenOf(R, p, ToSet(ms)) <=>
          \E r \in Children(p) : \E m \in ToSet(ms) : c = OnTheWay(R, p, r, Redirected(CopyOf(m), r))
    BY DEF ToChildrenOf
  <2>3. \A r, n : n \in ToSet(copies(r)) <=> \E m \in ToSet(ms) : n = Redirected(CopyOf(m), r)
    BY <1>4
  <2>4. ASSUME NEW c, c \in K PROVE c \in ToChildrenOf(R, p, ToSet(ms))
    <3>1. PICK r \in Process : \E n \in B[r] : c = OnTheWay(R, p, r, n)
      BY <2>1, <2>4
    <3>2. PICK n \in B[r] : c = OnTheWay(R, p, r, n)
      BY <3>1
    <3>3. r \in Children(p) /\ n \in ToSet(copies(r))
      BY <1>5, <3>2
    <3> QED
      <4>1. PICK m \in ToSet(ms) : n = Redirected(CopyOf(m), r)
        BY <2>3, <3>3
      <4> QED
        BY <2>2, <3>2, <3>3, <4>1
  <2>5. ASSUME NEW c, c \in ToChildrenOf(R, p, ToSet(ms)) PROVE c \in K
    <3>1. PICK r \in Children(p) : \E m \in ToSet(ms) : c = OnTheWay(R, p, r, Redirected(CopyOf(m), r))
      BY <2>2, <2>5
    <3>2. PICK m \in ToSet(ms) : c = OnTheWay(R, p, r, Redirected(CopyOf(m), r))
      BY <3>1
    <3>3. r \in Process
      BY ChildrenAreProcesses
    <3>4. Redirected(CopyOf(m), r) \in B[r]
      BY <1>5, <2>3, <3>3
    <3> QED
      BY <2>1, <3>2, <3>3, <3>4
  <2> QED
    BY <2>4, <2>5
<1> HIDE DEF row, A, B, copies
<1>8. \A r \in Process : ToSet(row[r]) = (ToSet(ch[p][r]) \ A[r]) \cup B[r]
  <2> TAKE r \in Process
  <2>1. CASE r \in Children(p)
    <3>1. row[r] = ch[p][r] \o copies(r) /\ A[r] = {} /\ B[r] = ToSet(copies(r))
      BY <1>3, <1>5, <2>1
    <3>2. ToSet(row[r]) = ToSet(ch[p][r]) \cup ToSet(copies(r))
      BY <1>2, <3>1
    <3> QED
      BY <3>1, <3>2
  <2>2. CASE r \notin Children(p)
    BY <1>3, <1>5, <2>2
  <2> QED
    BY <2>1, <2>2
<1>10. RowChanges(ch, p, row, A, B)
  BY <1>3, <1>8 DEF RowChanges
<1>9. Changes(Travelling(R, ch), Travelling(R, [ch EXCEPT ![p] = row]), Fan(R, p, A), Fan(R, p, B))
  BY <1>10, TravellingChanges, Zenon
<1> QED
  BY <1>1, <1>6, <1>7, <1>9 DEF Changes

-----------------------------------------------------------------------------
(* The parts do not overlap                                                *)

Tagged(S, tag) == \A c \in S : c.spot[1] = tag

LEMMA PartsAreTagged ==
  /\ \A R, out : Tagged(Waiting(R, out), "queue")
  /\ \A R, ch : Tagged(Travelling(R, ch), "way")
  /\ \A R, arr : Tagged(TakenIn(R, arr), "hand")
  /\ \A queues : Tagged(ToDo(queues), "task")
  /\ \A runs : Tagged(HaveRun(runs), "ran")
<1>1. \A R, out : Tagged(Waiting(R, out), "queue")
  BY DEF Tagged, Waiting, InQueue
<1>2. \A R, ch : Tagged(Travelling(R, ch), "way")
  BY DEF Tagged, Travelling, OnTheWay
<1>3. \A R, arr : Tagged(TakenIn(R, arr), "hand")
  BY DEF Tagged, TakenIn, InHand
<1>4. ASSUME NEW queues PROVE Tagged(ToDo(queues), "task")
  <2> SUFFICES ASSUME NEW c \in ToDo(queues) PROVE c.spot[1] = "task"
    BY DEF Tagged
  <2>1. PICK p \in Process : \E m \in BagToSet(queues[p]) : c = AsTask(p, m)
    BY DEF ToDo
  <2> QED
    BY <2>1 DEF AsTask
<1>5. \A runs : Tagged(HaveRun(runs), "ran")
  BY DEF Tagged, HaveRun, HasRun
<1> QED
  BY <1>1, <1>2, <1>3, <1>4, <1>5

(* What changes in the parts changes in the whole.                         *)
LEMMA PartsChange ==
  ASSUME NEW R, NEW out, NEW ch, NEW arr, NEW queues, NEW runs,
         NEW out2, NEW ch2, NEW arr2, NEW queues2, NEW runs2,
         NEW GW, NEW GT, NEW GH, NEW GD, NEW KW, NEW KT, NEW KH, NEW KD, NEW KX,
         Tagged(GW, "queue"), Tagged(GT, "way"), Tagged(GH, "hand"), Tagged(GD, "task"),
         Changes(Waiting(R, out), Waiting(R, out2), GW, KW),
         Changes(Travelling(R, ch), Travelling(R, ch2), GT, KT),
         Changes(TakenIn(R, arr), TakenIn(R, arr2), GH, KH),
         Changes(ToDo(queues), ToDo(queues2), GD, KD),
         Changes(HaveRun(runs), HaveRun(runs2), {}, KX)
  PROVE  Changes(CarriersOf(R, out, ch, arr, queues, runs), CarriersOf(R, out2, ch2, arr2, queues2, runs2),
                 GW \cup GT \cup GH \cup GD, KW \cup KT \cup KH \cup KD \cup KX)
<1> DEFINE W == Waiting(R, out)
           T == Travelling(R, ch)
           H == TakenIn(R, arr)
           D == ToDo(queues)
           X == HaveRun(runs)
<1>0. Tagged(W, "queue") /\ Tagged(T, "way") /\ Tagged(H, "hand") /\ Tagged(D, "task") /\ Tagged(X, "ran")
  BY PartsAreTagged
<1>1. \A c \in W : c \notin GT /\ c \notin GH /\ c \notin GD
  BY <1>0 DEF Tagged
<1>2. \A c \in T : c \notin GW /\ c \notin GH /\ c \notin GD
  BY <1>0 DEF Tagged
<1>3. \A c \in H : c \notin GW /\ c \notin GT /\ c \notin GD
  BY <1>0 DEF Tagged
<1>4. \A c \in D : c \notin GW /\ c \notin GT /\ c \notin GH
  BY <1>0 DEF Tagged
<1>5. \A c \in X : c \notin GW /\ c \notin GT /\ c \notin GH /\ c \notin GD
  BY <1>0 DEF Tagged
<1>6. ((W \ GW) \cup KW) \cup ((T \ GT) \cup KT) \cup ((H \ GH) \cup KH) \cup ((D \ GD) \cup KD)
           \cup (X \cup KX) =
         ((W \cup T \cup H \cup D \cup X) \ (GW \cup GT \cup GH \cup GD)) \cup (KW \cup KT \cup KH \cup KD \cup KX)
  BY <1>1, <1>2, <1>3, <1>4, <1>5
<1>7. /\ Waiting(R, out2) = (W \ GW) \cup KW /\ Travelling(R, ch2) = (T \ GT) \cup KT
      /\ TakenIn(R, arr2) = (H \ GH) \cup KH /\ ToDo(queues2) = (D \ GD) \cup KD
      /\ HaveRun(runs2) = X \cup KX
  BY DEF Changes
<1>8. CarriersOf(R, out, ch, arr, queues, runs) = W \cup T \cup H \cup D \cup X
  BY DEF CarriersOf
<1>9. CarriersOf(R, out2, ch2, arr2, queues2, runs2) =
        ((W \ GW) \cup KW) \cup ((T \ GT) \cup KT) \cup ((H \ GH) \cup KH) \cup ((D \ GD) \cup KD)
           \cup (X \cup KX)
  BY <1>7 DEF CarriersOf
<1> HIDE DEF W, T, H, D, X
<1> QED
  BY <1>6, <1>8, <1>9 DEF Changes

LEMMA NothingChanges == \A S : Changes(S, S, {}, {})
  BY DEF Changes

-----------------------------------------------------------------------------
(* What a message keeps of where it is to go                               *)

Goes(n, m) == /\ n.type = m.type /\ n.call = m.call /\ n.object = m.object /\ n.index = m.index
              /\ n.ids = m.ids /\ n.again = m.again

LEMMA MovingKeeps ==
  ASSUME NEW m, IsMessage(m)
  PROVE  /\ Goes(CopyOf(m), m) /\ CopyOf(m).dest = m.dest
         /\ Goes(Sent(m), m) /\ Sent(m).dest = m.dest
         /\ Goes(Got(m), m) /\ Got(m).dest = m.dest
         /\ \A q : Goes(Redirected(m, q), m) /\ Redirected(m, q).dest = q
<1>1. IsMessage(CopyOf(m)) /\ Goes(CopyOf(m), m) /\ CopyOf(m).dest = m.dest
  BY DEF CopyOf, IsMessage, Fields, Goes
<1>2. Goes(Sent(m), m) /\ Sent(m).dest = m.dest
  <2> DEFINE c == CopyOf(m)
  <2>1. Sent(m) = [c EXCEPT !.block = m.block]
    BY DEF Sent
  <2>2. IsMessage(c) /\ Goes(c, m) /\ c.dest = m.dest
    BY <1>1
  <2> HIDE DEF c
  <2> QED
    BY <2>1, <2>2 DEF IsMessage, Fields, Goes
<1>3. Goes(Got(m), m) /\ Got(m).dest = m.dest
  BY DEF Got, IsMessage, Fields, Goes
<1>4. \A q : Goes(Redirected(m, q), m) /\ Redirected(m, q).dest = q
  BY DEF Redirected, IsMessage, Fields, Goes
<1> QED
  BY <1>1, <1>2, <1>3, <1>4

(* A task of m for one element or for the process.                         *)
IsTaskOf(t, m, i) ==
  /\ t.type = "Invoke" /\ t.call = m.call /\ t.object = m.object /\ t.index = i /\ t.again = m.again

LEMMA UnpackedAreTasks ==
  ASSUME NEW m, IsMessage(m), NEW p, NEW e
  PROVE  /\ IsTaskOf(ToInvoke(CopyOf(m), p, e), m, e)
         /\ IsTaskOf(Unbundled(m, p, e), m, e)
<1> DEFINE c == CopyOf(m)
           t == ToInvoke(c, p, e)
<1>1. IsMessage(c) /\ Goes(c, m)
  BY MovingKeeps, CopyOfFields
<1> HIDE DEF c
<1>2. IsMessage(t) /\ IsTaskOf(t, c, e)
  BY <1>1 DEF ToInvoke, IsMessage, Fields, IsTaskOf
<1>3. IsTaskOf(t, m, e)
  BY <1>1, <1>2 DEF IsTaskOf, Goes
<1>4. Unbundled(m, p, e) =
        [t EXCEPT !.ids = {}, !.block = CreateMessageFrom(SizeOfData(m.block), m.block.alignment)]
  BY DEF Unbundled, c
<1> HIDE DEF t
<1>5. IsTaskOf(Unbundled(m, p, e), m, e)
  BY <1>2, <1>3, <1>4 DEF IsMessage, Fields, IsTaskOf
<1> QED
  BY <1>3, <1>5 DEF t, c

LEMMA AfterRunKeeps ==
  ASSUME NEW m, IsMessage(m)
  PROVE  LET n == AfterRun(m) IN
         /\ n.type = m.type /\ n.call = m.call /\ n.object = m.object /\ n.index = m.index
         /\ n.again = FALSE
BY DEF AfterRun, IsMessage, Fields

LEMMA NewMessageGoes ==
  ASSUME NEW call, NEW type, NEW object, NEW dest, NEW index, NEW ids, NEW form, NEW block
  PROVE  LET m == Message(type, call, object, dest, index, ids, form, block) IN
         /\ m.type = type /\ m.call = call.name /\ m.object = object /\ m.dest = dest
         /\ m.index = index /\ m.ids = ids /\ m.again = call.requeue /\ m.source = call.from
BY DEF Message

-----------------------------------------------------------------------------
(* Loads                                                                   *)

IsTurn(k, q, i) == k[1] = q /\ k[2] = {i}

LEMMA KeyIsATurn ==
  ASSUME NEW q, NEW i, NEW b
  PROVE  Key(q, i, b)[1] = q /\ IsTurn(Key(q, i, b), q, i) /\ IsDelivery(Key(q, i, b))
BY DEF Key, IsTurn, IsDelivery

LEMMA OneTurn ==
  ASSUME NEW k, NEW q, NEW i, IsTurn(k, q, i), NEW r, NEW j, IsTurn(k, r, j)
  PROVE  q = r /\ i = j
BY DEF IsTurn

LEMMA DeliveryIs ==
  ASSUME NEW q, NEW I, NEW again, NEW k
  PROVE  k \in Deliveries(q, I, again) <=> \E i \in I : k \in Turns(q, i, again)
BY DEF Deliveries

LEMMA TurnsAre ==
  ASSUME NEW q, NEW i, NEW again
  PROVE  /\ Key(q, i, FALSE) \in Turns(q, i, again)
         /\ \A k \in Turns(q, i, again) : k[1] = q /\ IsTurn(k, q, i) /\ IsDelivery(k)
<1>1. \A k : k \in Turns(q, i, again) <=> k = Key(q, i, FALSE) \/ k = Key(q, i, again)
  BY DEF Turns
<1>2. \A k \in Turns(q, i, again) : k[1] = q /\ IsTurn(k, q, i) /\ IsDelivery(k)
  <2> TAKE k \in Turns(q, i, again)
  <2>1. PICK b : k = Key(q, i, b)
    BY <1>1
  <2> QED
    BY <2>1, KeyIsATurn
<1> QED
  BY <1>1, <1>2

LEMMA LoadAtIs ==
  ASSUME NEW R, NEW m, NEW q
  PROVE  /\ <<q, {}, FALSE>> \in LoadAt(R, m, q)
         /\ \A k \in LoadAt(R, m, q) : k[1] = q
         /\ \A k : k \in LoadAt(R, m, q) /\ IsDelivery(k) <=>
                   \E i \in Wanted(R, m, q) : k \in Turns(q, i, m.again)
<1> DEFINE v == <<q, {}, FALSE>>
<1>1. \A k : k \in LoadAt(R, m, q) <=> k = v \/ k \in Deliveries(q, Wanted(R, m, q), m.again)
  BY DEF LoadAt, Visits
<1>2. \A k : k \in Deliveries(q, Wanted(R, m, q), m.again) <=>
               \E i \in Wanted(R, m, q) : k \in Turns(q, i, m.again)
  BY DeliveryIs
<1>3. v[1] = q /\ v[2] = {}
  OBVIOUS
<1> HIDE DEF v
<1>4. \A i : \A k \in Turns(q, i, m.again) : k[1] = q /\ IsDelivery(k)
  BY TurnsAre
<1>5. ~IsDelivery(v)
  BY <1>3 DEF IsDelivery
<1>6. \A k \in LoadAt(R, m, q) : k[1] = q
  BY <1>1, <1>2, <1>3, <1>4
<1>7. \A k : k \in LoadAt(R, m, q) /\ IsDelivery(k) <=>
            \E i \in Wanted(R, m, q) : k \in Turns(q, i, m.again)
  BY <1>1, <1>2, <1>4, <1>5
<1>8. v \in LoadAt(R, m, q)
  BY <1>1
<1> QED
  BY <1>6, <1>7, <1>8 DEF v

(* A message that goes as another does brings the same.                    *)
LEMMA SameLoad ==
  ASSUME NEW R, NEW n, NEW m, Goes(n, m), NEW h
  PROVE  MailLoad(R, n, h) = MailLoad(R, m, h)
<1>1. \A q : LoadAt(R, n, q) = LoadAt(R, m, q)
  BY DEF Goes, LoadAt, Wanted
<1> QED
  BY <1>1 DEF Goes, MailLoad

LEMMA MailLoadIs ==
  ASSUME NEW R, NEW m, NEW h \in Process
  PROVE  /\ m.type # "Broadcast" => MailLoad(R, m, h) = LoadAt(R, m, h)
         /\ m.type = "Broadcast" =>
              \A k : k \in MailLoad(R, m, h) <=>
                       k \in LoadAt(R, m, h) \/ \E c \in Children(h) : k \in MailLoad(R, m, c)
         /\ \A k \in MailLoad(R, m, h) : k[1] \in Process
         /\ m.type = "Broadcast" => \A k \in MailLoad(R, m, h) : k[1] \in Subtree(h)
<1>1. ASSUME m.type # "Broadcast" PROVE MailLoad(R, m, h) = LoadAt(R, m, h)
  BY <1>1 DEF MailLoad
<1>2. ASSUME m.type = "Broadcast", NEW x PROVE MailLoad(R, m, x) = UNION {LoadAt(R, m, q) : q \in Subtree(x)}
  BY <1>2 DEF MailLoad
<1>3. \A x, k : k \in UNION {LoadAt(R, m, q) : q \in Subtree(x)} <=> \E q \in Subtree(x) : k \in LoadAt(R, m, q)
  OBVIOUS
<1>4. Subtree(h) \subseteq Process
  BY DEF Subtree
<1>5. \A q : \A k \in LoadAt(R, m, q) : k[1] = q
  BY LoadAtIs
<1>6. ASSUME m.type = "Broadcast", NEW k
      PROVE  k \in MailLoad(R, m, h) <=>
               k \in LoadAt(R, m, h) \/ \E c \in Children(h) : k \in MailLoad(R, m, c)
  <2>1. \A x : k \in MailLoad(R, m, x) <=> \E q \in Subtree(x) : k \in LoadAt(R, m, q)
    BY <1>2, <1>3, <1>6
  <2>2. h \in Subtree(h) /\ \A x \in Process : x \in Subtree(h) <=> x = h \/ \E c \in Children(h) : x \in Subtree(c)
    BY SubtreeStep
  <2>3. ASSUME k \in MailLoad(R, m, h)
        PROVE  k \in LoadAt(R, m, h) \/ \E c \in Children(h) : k \in MailLoad(R, m, c)
    <3>1. PICK q \in Subtree(h) : k \in LoadAt(R, m, q)
      BY <2>1, <2>3
    <3>2. q = h \/ \E c \in Children(h) : q \in Subtree(c)
      BY <1>4, <2>2
    <3> QED
      BY <2>1, <3>1, <3>2
  <2>4. ASSUME k \in LoadAt(R, m, h) PROVE k \in MailLoad(R, m, h)
    BY <2>1, <2>2, <2>4
  <2>5. ASSUME NEW c \in Children(h), k \in MailLoad(R, m, c) PROVE k \in MailLoad(R, m, h)
    <3>1. PICK q \in Subtree(c) : k \in LoadAt(R, m, q)
      BY <2>1, <2>5
    <3>2. q \in Process
      BY DEF Subtree
    <3> QED
      BY <2>1, <2>2, <3>1, <3>2
  <2> QED
    BY <2>3, <2>4, <2>5
<1>7. ASSUME m.type = "Broadcast", NEW k \in MailLoad(R, m, h) PROVE k[1] \in Subtree(h)
  <2>1. PICK q \in Subtree(h) : k \in LoadAt(R, m, q)
    BY <1>2, <1>3, <1>7
  <2> QED
    BY <1>5, <2>1
<1>8. \A k \in MailLoad(R, m, h) : k[1] \in Process
  BY <1>1, <1>4, <1>5, <1>7
<1> QED
  BY <1>1, <1>6, <1>7, <1>8

-----------------------------------------------------------------------------
(* What becomes of a message where it has come to                          *)

(* S are the tasks of m on q, one for each index that is wanted.           *)
Serves(S, R, m, q) ==
  /\ \A t \in S : t.index \in Wanted(R, m, q) /\ IsTaskOf(t, m, t.index)
  /\ \A i \in Wanted(R, m, q) : \E t \in S : t.index = i
  /\ \A t, u \in S : t.index = u.index => t = u

Offspring(R, q, m, S) ==
  TasksOn(q, S) \cup (IF m.type = "Broadcast" THEN ToChildrenOf(R, q, {m}) ELSE {})

LEMMA BelowIsNotHere ==
  ASSUME NEW q \in Process, NEW c \in Children(q)
  PROVE  c \in Process /\ q \notin Subtree(c)
<1>1. c \in Process \ {q, Root}
  BY ChildrenAreProcesses
<1>2. Parent(c) = q
  BY <1>1, ChildrenMatchParent
<1>3. q < c
  BY <1>1, <1>2, ParentIsSmaller
<1> QED
  BY <1>1, <1>3, SubtreeStep DEF Process

LEMMA DownTheWay ==
  ASSUME NEW R, NEW q \in Process, NEW m, IsMessage(m), m.type = "Broadcast", NEW k
  PROVE  k \in ToChildrenOf(R, q, {m}) <=>
           \E c \in Children(q) : k = OnTheWay(R, q, c, Redirected(CopyOf(m), c))
BY DEF ToChildrenOf

LEMMA CopiesBring ==
  ASSUME NEW R, NEW q, NEW m, IsMessage(m), NEW c
  PROVE  LET k == OnTheWay(R, q, c, Redirected(CopyOf(m), c)) IN
         k.call = m.call /\ k.load = MailLoad(R, m, c)
<1> DEFINE a == CopyOf(m)
           n == Redirected(a, c)
<1>1. IsMessage(a) /\ Goes(a, m)
  BY MovingKeeps, CopyOfFields
<1> HIDE DEF a
<1>2. Goes(n, a)
  BY <1>1, MovingKeeps
<1>3. Goes(n, m)
  BY <1>1, <1>2 DEF Goes
<1> HIDE DEF n
<1>4. MailLoad(R, n, c) = MailLoad(R, m, c)
  BY <1>3, SameLoad
<1>5. n.call = m.call
  BY <1>3 DEF Goes
<1>6. LET k == OnTheWay(R, q, c, n) IN k.call = m.call /\ k.load = MailLoad(R, m, c)
  BY <1>4, <1>5 DEF OnTheWay
<1> QED
  BY <1>6 DEF n, a

LEMMA TasksBring ==
  ASSUME NEW R, NEW q, NEW m, NEW S, Serves(S, R, m, q), NEW t \in S
  PROVE  /\ AsTask(q, t).call = m.call /\ AsTask(q, t).load = Turns(q, t.index, m.again)
         /\ t.index \in Wanted(R, m, q)
         /\ AsTask(q, t).load # {} /\ AsTask(q, t).load \subseteq LoadAt(R, m, q)
         /\ \A x \in Turns(q, t.index, m.again) : x[1] = q /\ IsTurn(x, q, t.index)
<1>1. t.index \in Wanted(R, m, q) /\ t.call = m.call /\ t.again = m.again
  BY DEF Serves, IsTaskOf
<1>2. AsTask(q, t).call = m.call /\ AsTask(q, t).load = Turns(q, t.index, m.again)
  BY <1>1 DEF AsTask
<1>3. Turns(q, t.index, m.again) # {}
  BY TurnsAre
<1>4. ASSUME NEW k \in Turns(q, t.index, m.again) PROVE k \in LoadAt(R, m, q)
  BY <1>1, LoadAtIs
<1>5. \A i, again : \A x \in Turns(q, i, again) : x[1] = q /\ IsTurn(x, q, i)
  BY TurnsAre
<1> QED
  BY <1>1, <1>2, <1>3, <1>4, <1>5

LEMMA OffspringOfMail ==
  ASSUME NEW R, NEW q \in Process, NEW m, IsMessage(m),
         NEW S, Serves(S, R, m, q),
         NEW g, g.call = m.call, g.load = MailLoad(R, m, q)
  PROVE  Becomes({g}, Offspring(R, q, m, S))
<1> DEFINE Way(c) == OnTheWay(R, q, c, Redirected(CopyOf(m), c))
           K == Offspring(R, q, m, S)
           Below == m.type = "Broadcast"
<1>1. \A k \in K : (\E t \in S : k = AsTask(q, t)) \/ (Below /\ \E c \in Children(q) : k = Way(c))
  BY DownTheWay DEF Offspring, TasksOn
<1>2. \A t \in S : AsTask(q, t) \in K
  BY DEF Offspring, TasksOn
<1>3. Below => \A c \in Children(q) : Way(c) \in K
  BY DownTheWay DEF Offspring
<1>4. \A c : Way(c).call = m.call /\ Way(c).load = MailLoad(R, m, c)
  BY CopiesBring
<1> HIDE DEF Way
<1>5. /\ ~Below => MailLoad(R, m, q) = LoadAt(R, m, q)
      /\ Below => \A k : k \in MailLoad(R, m, q) <=>
                       k \in LoadAt(R, m, q) \/ \E c \in Children(q) : k \in MailLoad(R, m, c)
  BY MailLoadIs
<1>6. ASSUME NEW t \in S
      PROVE  /\ AsTask(q, t).call = m.call /\ AsTask(q, t).load # {}
             /\ AsTask(q, t).load \subseteq MailLoad(R, m, q)
             /\ \A x \in AsTask(q, t).load : x[1] = q /\ IsTurn(x, q, t.index)
  <2>1. /\ AsTask(q, t).call = m.call /\ AsTask(q, t).load = Turns(q, t.index, m.again)
        /\ AsTask(q, t).load # {} /\ AsTask(q, t).load \subseteq LoadAt(R, m, q)
    BY TasksBring
  <2>2. \A x \in Turns(q, t.index, m.again) : x[1] = q /\ IsTurn(x, q, t.index)
    BY TasksBring
  <2> QED
    BY <1>5, <2>1, <2>2
<1>7. ASSUME Below, NEW c \in Children(q)
      PROVE  /\ Way(c).call = m.call /\ Way(c).load # {}
             /\ Way(c).load \subseteq MailLoad(R, m, q)
             /\ \A x \in Way(c).load : x[1] \in Subtree(c)
             /\ q \notin Subtree(c)
  <2>1. c \in Process /\ q \notin Subtree(c)
    BY BelowIsNotHere
  <2>2. \A k : k \in MailLoad(R, m, c) <=>
                       k \in LoadAt(R, m, c) \/ \E d \in Children(c) : k \in MailLoad(R, m, d)
    BY <1>7, <2>1, MailLoadIs
  <2>3. <<c, {}, FALSE>> \in LoadAt(R, m, c)
    BY LoadAtIs
  <2>4. \A x \in MailLoad(R, m, c) : x[1] \in Subtree(c)
    BY <1>7, <2>1, MailLoadIs
  <2>5. MailLoad(R, m, c) # {}
    BY <2>2, <2>3
  <2> QED
    BY <1>4, <1>5, <1>7, <2>1, <2>4, <2>5
<1> HIDE DEF K
<1>8. ASSUME NEW k \in K
      PROVE  k.load # {} /\ k.call = g.call /\ k.load \subseteq g.load
  BY <1>1, <1>6, <1>7
<1>9. ASSUME NEW k \in K, NEW l \in K, k.load \cap l.load # {}
      PROVE  k = l
  <2>1. PICK x : x \in k.load /\ x \in l.load
    BY <1>9
  <2>2. CASE (\E t \in S : k = AsTask(q, t)) /\ (\E t \in S : l = AsTask(q, t))
    <3>1. PICK t \in S : k = AsTask(q, t)
      BY <2>2
    <3>2. PICK u \in S : l = AsTask(q, u)
      BY <2>2
    <3>3. t.index = u.index
      BY <1>6, <2>1, <3>1, <3>2, OneTurn
    <3>4. t = u
      BY <3>3 DEF Serves
    <3> QED
      BY <3>1, <3>2, <3>4
  <2>3. CASE (\E t \in S : k = AsTask(q, t)) /\ (Below /\ \E c \in Children(q) : l = Way(c))
    BY <1>6, <1>7, <2>1, <2>3
  <2>4. CASE (\E t \in S : l = AsTask(q, t)) /\ (Below /\ \E c \in Children(q) : k = Way(c))
    BY <1>6, <1>7, <2>1, <2>4
  <2>5. CASE (Below /\ \E c \in Children(q) : k = Way(c)) /\ (Below /\ \E c \in Children(q) : l = Way(c))
    <3>1. PICK c \in Children(q) : k = Way(c)
      BY <2>5
    <3>2. PICK d \in Children(q) : l = Way(d)
      BY <2>5
    <3>3. x[1] \in Subtree(c) /\ x[1] \in Subtree(d)
      BY <1>7, <2>1, <2>5, <3>1, <3>2
    <3>4. c = d
      BY <3>3, SubtreesApart
    <3> QED
      BY <3>1, <3>2, <3>4
  <2> QED
    BY <1>1, <2>2, <2>3, <2>4, <2>5
<1>10. ASSUME NEW x \in g.load, IsDelivery(x)
       PROVE  \E k \in K : k.call = g.call /\ x \in k.load
  <2>1. CASE x \in LoadAt(R, m, q)
    <3>1. PICK i \in Wanted(R, m, q) : x \in Turns(q, i, m.again)
      BY <1>10, <2>1, LoadAtIs
    <3>2. PICK t \in S : t.index = i
      BY DEF Serves
    <3>3. x \in AsTask(q, t).load
      BY <3>1, <3>2, TasksBring
    <3> QED
      BY <1>2, <1>6, <3>3
  <2>2. CASE Below /\ \E c \in Children(q) : x \in MailLoad(R, m, c)
    BY <1>3, <1>4, <2>2
  <2> QED
    BY <1>5, <1>10, <2>1, <2>2
<1>11. Becomes({g}, K)
  BY <1>8, <1>9, <1>10 DEF Becomes
<1> QED
  BY <1>11 DEF K

(* What becomes of several, of different calls                             *)
Those(g, M) == {g[m] : m \in M}
AllOf(K, M) == UNION {K[m] : m \in M}

LEMMA BecomesTogether ==
  ASSUME NEW M, NEW g, NEW K, \A m \in M : Becomes({g[m]}, K[m]),
         \A m, n \in M : g[m].call = g[n].call => m = n
  PROVE  Becomes(Those(g, M), AllOf(K, M))
<1> DEFINE G == Those(g, M)
           L == AllOf(K, M)
<1>1. \A k \in L : \E m \in M : k \in K[m]
  BY DEF AllOf
<1>2. \A m \in M : K[m] \subseteq L /\ g[m] \in G
  BY DEF Those, AllOf
<1>3. \A x \in G : \E m \in M : x = g[m]
  BY DEF Those
<1> HIDE DEF G, L
<1>4. ASSUME NEW m \in M
      PROVE  /\ \A k \in K[m] : k.load # {} /\ k.call = g[m].call /\ k.load \subseteq g[m].load
             /\ \A k, l \in K[m] : k.call = l.call /\ k.load \cap l.load # {} => k = l
             /\ \A x \in g[m].load : IsDelivery(x) => \E k \in K[m] : k.call = g[m].call /\ x \in k.load
  <2>1. Becomes({g[m]}, K[m])
    OBVIOUS
  <2> QED
    BY <2>1 DEF Becomes
<1>5. \A k \in L : k.load # {} /\ \E x \in G : k.call = x.call /\ k.load \subseteq x.load
  <2> TAKE k \in L
  <2>1. PICK m \in M : k \in K[m]
    BY <1>1
  <2> QED
    BY <1>2, <1>4, <2>1
<1>6. ASSUME NEW k \in L, NEW l \in L, k.call = l.call, k.load \cap l.load # {}
      PROVE  k = l
  <2>1. PICK m \in M : k \in K[m]
    BY <1>1
  <2>2. PICK n \in M : l \in K[n]
    BY <1>1
  <2>3. m = n
    BY <1>4, <1>6, <2>1, <2>2
  <2> QED
    BY <1>4, <1>6, <2>1, <2>2, <2>3
<1>7. ASSUME NEW y \in G, NEW x \in y.load, IsDelivery(x)
      PROVE  \E k \in L : k.call = y.call /\ x \in k.load
  <2>1. PICK m \in M : y = g[m]
    BY <1>3
  <2> QED
    BY <1>2, <1>4, <1>7, <2>1
<1>8. Becomes(G, L)
  BY <1>5, <1>6, <1>7 DEF Becomes
<1> QED
  BY <1>8 DEF G, L

-----------------------------------------------------------------------------
(* Nothing is anywhere twice                                               *)

OnceQueues(out) == \A p \in Process : AllOnce(out[p])
OnceWays(ch) == \A p, q \in Process : NoTwice(ch[p][q])

LEMMA MoreQueuedOnce ==
  ASSUME NEW R, NEW out, OnceQueues(out), Queues(out), NEW p \in Process, NEW B, AllOnce(B),
         \A m \in BagToSet(B) : InQueue(R, p, m) \notin Waiting(R, out)
  PROVE  /\ OnceQueues([out EXCEPT ![p] = @ (+) B])
         /\ Changes(Waiting(R, out), Waiting(R, [out EXCEPT ![p] = @ (+) B]),
                    {}, QueuedOn(R, p, BagToSet(B)))
<1> DEFINE X == out[p] (+) B
<1>1. ASSUME NEW m \in BagToSet(out[p]) PROVE m \notin BagToSet(B)
  <2>1. InQueue(R, p, m) \in Waiting(R, out)
    BY DEF Waiting
  <2> QED
    BY <2>1
<1>2. AllOnce(X) /\ BagToSet(X) = BagToSet(out[p]) \cup BagToSet(B)
  <2>1. DOMAIN out[p] \cap DOMAIN B = {}
    BY <1>1 DEF BagToSet
  <2>2. AllOnce(out[p])
    BY DEF OnceQueues
  <2> QED
    BY <2>1, <2>2, MoreOnce
<1>3. BagToSet(X) = (BagToSet(out[p]) \ {}) \cup BagToSet(B)
  BY <1>2
<1>4. [out EXCEPT ![p] = @ (+) B] = [out EXCEPT ![p] = X]
  BY DEF Queues
<1> HIDE DEF X
<1>5. Changes(Waiting(R, out), Waiting(R, [out EXCEPT ![p] = X]),
              QueuedOn(R, p, {}), QueuedOn(R, p, BagToSet(B)))
  BY <1>3, WaitingChanges
<1>6. QueuedOn(R, p, {}) = {}
  BY DEF QueuedOn
<1>7. OnceQueues([out EXCEPT ![p] = X])
  BY <1>2 DEF OnceQueues, Queues
<1> QED
  BY <1>4, <1>5, <1>6, <1>7

LEMMA LessQueuedOnce ==
  ASSUME NEW R, NEW out, OnceQueues(out), Queues(out), NEW p \in Process, NEW m
  PROVE  /\ OnceQueues([out EXCEPT ![p] = @ (-) SetToBag({m})])
         /\ Changes(Waiting(R, out), Waiting(R, [out EXCEPT ![p] = @ (-) SetToBag({m})]),
                    {InQueue(R, p, m)}, {})
<1> DEFINE X == out[p] (-) SetToBag({m})
<1>1. AllOnce(X) /\ BagToSet(X) = BagToSet(out[p]) \ {m}
  <2>1. AllOnce(out[p])
    BY DEF OnceQueues
  <2> QED
    BY <2>1, FewerOnce
<1> PICK A : A = {m}
  OBVIOUS
<1> PICK E : E = {}
  OBVIOUS
<1>2. BagToSet(X) = (BagToSet(out[p]) \ A) \cup E
  BY <1>1
<1>3. [out EXCEPT ![p] = @ (-) SetToBag({m})] = [out EXCEPT ![p] = X]
  BY DEF Queues
<1> HIDE DEF X
<1>4. Changes(Waiting(R, out), Waiting(R, [out EXCEPT ![p] = X]),
              QueuedOn(R, p, A), QueuedOn(R, p, E))
  BY <1>2, WaitingChanges, Zenon
<1>5. QueuedOn(R, p, A) = {InQueue(R, p, m)} /\ QueuedOn(R, p, E) = {}
  BY DEF QueuedOn
<1>6. OnceQueues([out EXCEPT ![p] = X])
  BY <1>1 DEF OnceQueues, Queues
<1> QED
  BY <1>3, <1>4, <1>5, <1>6

LEMMA MoreToDoOnce ==
  ASSUME NEW queues, OnceQueues(queues), Queues(queues), NEW p \in Process, NEW B, AllOnce(B),
         \A m \in BagToSet(B) : AsTask(p, m) \notin ToDo(queues)
  PROVE  /\ OnceQueues([queues EXCEPT ![p] = @ (+) B])
         /\ Changes(ToDo(queues), ToDo([queues EXCEPT ![p] = @ (+) B]), {}, TasksOn(p, BagToSet(B)))
<1> DEFINE X == queues[p] (+) B
<1>1. ASSUME NEW m \in BagToSet(queues[p]) PROVE m \notin BagToSet(B)
  <2>1. AsTask(p, m) \in ToDo(queues)
    BY DEF ToDo
  <2> QED
    BY <2>1
<1>2. AllOnce(X) /\ BagToSet(X) = BagToSet(queues[p]) \cup BagToSet(B)
  <2>1. DOMAIN queues[p] \cap DOMAIN B = {}
    BY <1>1 DEF BagToSet
  <2>2. AllOnce(queues[p])
    BY DEF OnceQueues
  <2> QED
    BY <2>1, <2>2, MoreOnce
<1>3. BagToSet(X) = (BagToSet(queues[p]) \ {}) \cup BagToSet(B)
  BY <1>2
<1>4. [queues EXCEPT ![p] = @ (+) B] = [queues EXCEPT ![p] = X]
  BY DEF Queues
<1> HIDE DEF X
<1>5. Changes(ToDo(queues), ToDo([queues EXCEPT ![p] = X]),
              TasksOn(p, {}), TasksOn(p, BagToSet(B)))
  BY <1>3, ToDoChanges
<1>6. TasksOn(p, {}) = {}
  BY DEF TasksOn
<1>7. OnceQueues([queues EXCEPT ![p] = X])
  BY <1>2 DEF OnceQueues, Queues
<1> QED
  BY <1>4, <1>5, <1>6, <1>7

LEMMA MoreOnTheWayOnce ==
  ASSUME NEW R, NEW ch, Ways(ch), OnceWays(ch), NEW p \in Process, NEW q \in Process, NEW m,
         OnTheWay(R, p, q, m) \notin Travelling(R, ch)
  PROVE  OnceWays([ch EXCEPT ![p][q] = Append(@, m)])
<1> DEFINE after == [ch EXCEPT ![p][q] = Append(@, m)]
<1>1. m \notin ToSet(ch[p][q])
  BY DEF Travelling
<1>2. NoTwice(Append(ch[p][q], m))
  BY <1>1, AppendOnce DEF Ways, OnceWays
<1>3. \A o, r \in Process : after[o][r] = IF o = p /\ r = q THEN Append(ch[p][q], m) ELSE ch[o][r]
  BY DEF Ways
<1> HIDE DEF after
<1>4. OnceWays(after)
  BY <1>2, <1>3 DEF OnceWays
<1> QED
  BY <1>4 DEF after

LEMMA LessOnTheWayOnce ==
  ASSUME NEW ch, Ways(ch), OnceWays(ch), NEW p \in Process, NEW q \in Process, ch[p][q] # <<>>
  PROVE  OnceWays([ch EXCEPT ![p][q] = Tail(@)]) /\ Ways([ch EXCEPT ![p][q] = Tail(@)])
<1> DEFINE after == [ch EXCEPT ![p][q] = Tail(@)]
<1>1. NoTwice(Tail(ch[p][q])) /\ IsSequence(Tail(ch[p][q]))
  BY TailOnce, TailIsSequence DEF Ways, OnceWays
<1>2. \A o, r \in Process : after[o][r] = IF o = p /\ r = q THEN Tail(ch[p][q]) ELSE ch[o][r]
  BY DEF Ways
<1>3. after = [o \in Process |-> [r \in Process |-> after[o][r]]]
  BY DEF Ways
<1> HIDE DEF after
<1>4. OnceWays(after)
  BY <1>1, <1>2 DEF OnceWays
<1>5. \A o, r \in Process : IsSequence(after[o][r])
  BY <1>1, <1>2 DEF Ways
<1>6. Ways(after)
  BY <1>3, <1>5 DEF Ways
<1> QED
  BY <1>4, <1>6 DEF after

LEMMA DownTheWayOnce ==
  ASSUME NEW R, NEW ch, Ways(ch), OnceWays(ch), NEW p \in Process,
         NEW ms, IsSequence(ms), NoTwice(ms), \A m \in ToSet(ms) : IsMessage(m),
         \A m, n \in ToSet(ms) : m.call = n.call => m = n,
         ToChildrenOf(R, p, ToSet(ms)) \cap Travelling(R, ch) = {}
  PROVE  OnceWays(ToChildren(ch, p, ms))
<1> DEFINE copies(q) == [i \in DOMAIN ms |-> Redirected(CopyOf(ms[i]), q)]
           after == ToChildren(ch, p, ms)
<1>1. \A o, q \in Process :
        after[o][q] = IF o = p /\ q \in Children(p) THEN ch[o][q] \o copies(q) ELSE ch[o][q]
  BY DEF ToChildren, Ways
<1>2. ASSUME NEW q \in Children(p) PROVE NoTwice(ch[p][q] \o copies(q))
  <2> DEFINE t == copies(q)
  <2>1. q \in Process
    BY ChildrenAreProcesses
  <2>2. DOMAIN t = DOMAIN ms /\ t = [i \in DOMAIN ms |-> t[i]]
    OBVIOUS
  <2>3. \A i \in DOMAIN ms : t[i] = Redirected(CopyOf(ms[i]), q)
    OBVIOUS
  <2> HIDE DEF t
  <2>4. IsSequence(t)
    BY <2>2, LikeASequence
  <2>5. \A i \in DOMAIN ms : t[i].call = ms[i].call
    <3> TAKE i \in DOMAIN ms
    <3>1. IsMessage(ms[i])
      BY DEF ToSet
    <3>2. CopyOf(ms[i]).call = ms[i].call /\ IsMessage(CopyOf(ms[i]))
      BY <3>1, MovingKeeps, CopyOfFields DEF Goes
    <3>3. Redirected(CopyOf(ms[i]), q).call = CopyOf(ms[i]).call
      BY <3>2, MovingKeeps DEF Goes
    <3> QED
      BY <2>3, <3>2, <3>3
  <2>6. NoTwice(t)
    <3> SUFFICES ASSUME NEW i \in DOMAIN t, NEW j \in DOMAIN t, t[i] = t[j] PROVE i = j
      BY DEF NoTwice
    <3>1. ms[i].call = ms[j].call /\ ms[i] \in ToSet(ms) /\ ms[j] \in ToSet(ms)
      BY <2>2, <2>5 DEF ToSet
    <3>2. ms[i] = ms[j]
      BY <3>1
    <3> QED
      BY <2>2, <3>2 DEF NoTwice
  <2>7. ASSUME NEW n \in ToSet(ch[p][q]), n \in ToSet(t) PROVE FALSE
    <3>1. PICK i \in DOMAIN t : n = t[i]
      BY <2>7 DEF ToSet
    <3>2. n = Redirected(CopyOf(ms[i]), q) /\ ms[i] \in ToSet(ms)
      BY <2>2, <2>3, <3>1 DEF ToSet
    <3>3. OnTheWay(R, p, q, n) \in ToChildrenOf(R, p, ToSet(ms))
      BY <3>2 DEF ToChildrenOf
    <3>4. OnTheWay(R, p, q, n) \in Travelling(R, ch)
      BY <2>1 DEF Travelling
    <3> QED
      BY <3>3, <3>4
  <2>8. IsSequence(ch[p][q]) /\ NoTwice(ch[p][q])
    BY <2>1 DEF Ways, OnceWays
  <2>9. ToSet(ch[p][q]) \cap ToSet(t) = {}
    BY <2>7
  <2>10. NoTwice(ch[p][q] \o t)
    BY <2>4, <2>6, <2>8, <2>9, ConcatOnce
  <2> QED
    BY <2>10 DEF t
<1> HIDE DEF after, copies
<1>3. OnceWays(after)
  BY <1>1, <1>2 DEF OnceWays
<1> QED
  BY <1>3 DEF after

-----------------------------------------------------------------------------
(* The tasks made of messages of different calls                           *)

ServedBy(p, m) == IF m.type = "Invoke" THEN {m} ELSE LocalTasks(p, m)

LEMMA TasksFromOnce ==
  ASSUME NEW p, NEW ms, IsSequence(ms), NoTwice(ms),
         \A m, n \in ToSet(ms) : m.call = n.call => m = n,
         \A m \in ToSet(ms) : \A t \in ServedBy(p, m) : t.call = m.call
  PROVE  /\ AllOnce(TasksFrom(p, ms))
         /\ BagToSet(TasksFrom(p, ms)) = UNION {ServedBy(p, m) : m \in ToSet(ms)}
<1> DEFINE S == UNION {ServedBy(p, ms[i]) : i \in DOMAIN ms}
           B == [t \in S |-> Cardinality({i \in DOMAIN ms : t \in ServedBy(p, ms[i])})]
           U == UNION {ServedBy(p, m) : m \in ToSet(ms)}
<1>1. TasksFrom(p, ms) = IF \A i \in DOMAIN ms : ms[i].type = "Invoke" THEN InBulk(ms) ELSE B
  BY DEF TasksFrom, ServedBy
<1>2. S = U
  BY DEF ToSet
<1>3. CASE \A i \in DOMAIN ms : ms[i].type = "Invoke"
  <2> DEFINE C == InBulk(ms)
  <2>1. C = [t \in ToSet(ms) |-> Cardinality({i \in DOMAIN ms : ms[i] = t})]
    BY DEF InBulk
  <2>2. ASSUME NEW t \in ToSet(ms) PROVE C[t] = 1
    <3>1. PICK i \in DOMAIN ms : t = ms[i]
      BY DEF ToSet
    <3>2. {j \in DOMAIN ms : ms[j] = t} = {i}
      BY <3>1 DEF NoTwice
    <3>3. Cardinality({j \in DOMAIN ms : ms[j] = t}) = 1
      BY <3>2, FS_Singleton
    <3> QED
      BY <2>1, <3>3
  <2>3. U = ToSet(ms)
    <3>1. \A m \in ToSet(ms) : ServedBy(p, m) = {m}
      BY <1>3 DEF ServedBy, ToSet
    <3> QED
      BY <3>1
  <2>4. DOMAIN C = ToSet(ms)
    BY <2>1
  <2> HIDE DEF C, U
  <2>5. AllOnce(C) /\ BagToSet(C) = U
    BY <2>2, <2>3, <2>4 DEF AllOnce, BagToSet
  <2> QED
    BY <1>1, <1>3, <2>5 DEF C, U
<1>4. CASE ~\A i \in DOMAIN ms : ms[i].type = "Invoke"
  <2>1. ASSUME NEW t \in S PROVE B[t] = 1
    <3>1. PICK i \in DOMAIN ms : t \in ServedBy(p, ms[i])
      OBVIOUS
    <3>2. ASSUME NEW j \in DOMAIN ms, t \in ServedBy(p, ms[j]) PROVE j = i
      <4>1. ms[i] \in ToSet(ms) /\ ms[j] \in ToSet(ms)
        BY DEF ToSet
      <4>2. t.call = ms[i].call /\ t.call = ms[j].call
        BY <3>1, <3>2, <4>1
      <4>3. ms[i] = ms[j]
        BY <4>1, <4>2
      <4> QED
        BY <4>3 DEF NoTwice
    <3>3. {j \in DOMAIN ms : t \in ServedBy(p, ms[j])} = {i}
      BY <3>1, <3>2
    <3>4. Cardinality({j \in DOMAIN ms : t \in ServedBy(p, ms[j])}) = 1
      BY <3>3, FS_Singleton
    <3> QED
      BY <3>4
  <2>2. DOMAIN B = S
    OBVIOUS
  <2> HIDE DEF B, S, U
  <2>3. AllOnce(B) /\ BagToSet(B) = U
    BY <1>2, <2>1, <2>2 DEF AllOnce, BagToSet
  <2> QED
    BY <1>1, <1>4, <2>3 DEF U
<1> QED
  BY <1>3, <1>4

-----------------------------------------------------------------------------
(* Steps of messages                                                       *)

Shape(out, ch, queues) == Queues(out) /\ Ways(ch) /\ Queues(queues)
Once(out, ch, queues, runs) ==
  OnceQueues(out) /\ OnceWays(ch) /\ OnceQueues(queues) /\ AllOnce(runs)

(* The calls are carried exactly, and nothing is anywhere twice.           *)
Carried(R, out, ch, arr, queues, runs, due, calls) ==
  /\ Exact(CarriersOf(R, out, ch, arr, queues, runs), due, calls)
  /\ Once(out, ch, queues, runs)

LEMMA ExactAfter ==
  ASSUME NEW C, NEW due, NEW calls, Exact(C, due, calls), NEW D, NEW G, NEW K,
         Changes(C, D, G, K), G \subseteq C, Becomes(G, K)
  PROVE  Exact(D, due, calls)
<1>1. Exact((C \ G) \cup K, due, calls)
  BY ExactMoves
<1> QED
  BY <1>1 DEF Changes

LEMMA BecomesOne ==
  ASSUME NEW g, NEW k, g.load # {}, k.load = g.load, k.call = g.call
  PROVE  Becomes({g}, {k})
BY DEF Becomes

LEMMA PartsAreCarriers ==
  ASSUME NEW R, NEW out, NEW ch, NEW arr, NEW queues, NEW runs
  PROVE  /\ Waiting(R, out) \subseteq CarriersOf(R, out, ch, arr, queues, runs)
         /\ Travelling(R, ch) \subseteq CarriersOf(R, out, ch, arr, queues, runs)
         /\ TakenIn(R, arr) \subseteq CarriersOf(R, out, ch, arr, queues, runs)
         /\ ToDo(queues) \subseteq CarriersOf(R, out, ch, arr, queues, runs)
         /\ HaveRun(runs) \subseteq CarriersOf(R, out, ch, arr, queues, runs)
         /\ Tagged(Waiting(R, out), "queue") /\ Tagged(Travelling(R, ch), "way")
         /\ Tagged(TakenIn(R, arr), "hand") /\ Tagged(ToDo(queues), "task")
         /\ Tagged(HaveRun(runs), "ran")
BY PartsAreTagged DEF CarriersOf

(* A message leaves its queue.                                             *)
LEMMA SentIsCarried ==
  ASSUME NEW R, NEW out, NEW ch, NEW arr, NEW queues, NEW runs, NEW due, NEW calls,
         Carried(R, out, ch, arr, queues, runs, due, calls), Shape(out, ch, queues),
         NEW p \in Process, NEW m \in BagToSet(out[p]), Goal(m) \in Process,
         NEW n, Goes(n, m)
  PROVE  Carried(R, [out EXCEPT ![p] = @ (-) SetToBag({m})],
                 [ch EXCEPT ![p][Goal(m)] = Append(@, n)], arr, queues, runs, due, calls)
<1> DEFINE q == Goal(m)
           g == InQueue(R, p, m)
           k == OnTheWay(R, p, q, n)
           C == CarriersOf(R, out, ch, arr, queues, runs)
           out2 == [out EXCEPT ![p] = @ (-) SetToBag({m})]
           ch2 == [ch EXCEPT ![p][q] = Append(@, n)]
           C2 == CarriersOf(R, out2, ch2, arr, queues, runs)
<1>1. /\ Waiting(R, out) \subseteq C /\ Travelling(R, ch) \subseteq C
      /\ Tagged(Travelling(R, ch), "way")
  BY PartsAreCarriers
<1>2. g \in Waiting(R, out)
  BY DEF Waiting
<1>3. Exact(C, due, calls)
  BY DEF Carried
<1>4. g.load # {} /\ g \in C
  BY <1>1, <1>2, <1>3 DEF Exact
<1>5. k.load = g.load /\ k.call = g.call
  <2>1. MailLoad(R, n, q) = MailLoad(R, m, q) /\ n.call = m.call
    BY SameLoad DEF Goes
  <2> QED
    BY <2>1 DEF OnTheWay, InQueue
<1>6. Tagged({g}, "queue") /\ Tagged({}, "way") /\ Tagged({}, "hand") /\ Tagged({}, "task")
  BY DEF InQueue, Tagged
<1> HIDE DEF g, k
<1>7. Becomes({g}, {k})
  BY <1>4, <1>5, BecomesOne
<1>8. {k} \cap (C \ {g}) = {}
  BY <1>3, <1>4, <1>7, WhatBecomesIsNew
<1>9. k \notin Travelling(R, ch)
  <2>1. g \notin Travelling(R, ch)
    BY <1>1, <1>6 DEF Tagged
  <2> QED
    BY <1>1, <1>8, <2>1
<1>10. Queues(out) /\ Ways(ch) /\ Queues(queues) /\ OnceQueues(out) /\ OnceWays(ch)
  BY DEF Shape, Carried, Once
<1>11. OnceQueues(out2) /\ Changes(Waiting(R, out), Waiting(R, out2), {g}, {})
  BY <1>10, LessQueuedOnce DEF g
<1>12. OnceWays(ch2) /\ Changes(Travelling(R, ch), Travelling(R, ch2), {}, {k})
  <2>1. OnceWays(ch2)
    BY <1>9, <1>10, MoreOnTheWayOnce DEF k
  <2>2. Changes(Travelling(R, ch), Travelling(R, ch2), {}, {k})
    BY <1>10, TravellingMore DEF k
  <2> QED
    BY <2>1, <2>2
<1>13. /\ Changes(TakenIn(R, arr), TakenIn(R, arr), {}, {})
       /\ Changes(ToDo(queues), ToDo(queues), {}, {})
       /\ Changes(HaveRun(runs), HaveRun(runs), {}, {})
  BY NothingChanges
<1> HIDE DEF out2, ch2, q
<1>14. Changes(C, C2, {g} \cup {} \cup {} \cup {}, {} \cup {k} \cup {} \cup {} \cup {})
  BY <1>6, <1>11, <1>12, <1>13, PartsChange, Zenon
<1>15. Changes(C, C2, {g}, {k})
  BY <1>14 DEF Changes
<1>16. Exact(C2, due, calls)
  BY <1>3, <1>4, <1>7, <1>15, ExactAfter
<1>17. Once(out2, ch2, queues, runs)
  BY <1>11, <1>12 DEF Carried, Once
<1> QED
  BY <1>16, <1>17 DEF Carried, C2, out2, ch2, q

LEMMA TakenInMore ==
  ASSUME NEW R, NEW arr, NEW n
  PROVE  Changes(TakenIn(R, arr), TakenIn(R, arr \cup {n}), {}, {InHand(R, n)})
BY DEF Changes, TakenIn

LEMMA TakenInLess ==
  ASSUME NEW R, NEW arr, NEW M
  PROVE  Changes(TakenIn(R, arr), TakenIn(R, arr \ M), TakenIn(R, M), {})
<1>1. \A m, n : InHand(R, m) = InHand(R, n) => m = n
  BY DEF InHand
<1> QED
  BY <1>1 DEF Changes, TakenIn

LEMMA RunMore ==
  ASSUME NEW runs, AllOnce(runs), NEW x, HasRun(x) \notin HaveRun(runs)
  PROVE  /\ AllOnce(runs (+) SetToBag({x}))
         /\ Changes(HaveRun(runs), HaveRun(runs (+) SetToBag({x})), {}, {HasRun(x)})
         /\ BagToSet(runs (+) SetToBag({x})) = BagToSet(runs) \cup {x}
<1> DEFINE B == SetToBag({x})
<1>1. AllOnce(B) /\ BagToSet(B) = {x}
  BY SetIsOnce
<1>2. x \notin BagToSet(runs)
  BY DEF HaveRun
<1>3. DOMAIN runs \cap DOMAIN B = {}
  BY <1>1, <1>2 DEF BagToSet
<1> HIDE DEF B
<1>4. AllOnce(runs (+) B) /\ BagToSet(runs (+) B) = BagToSet(runs) \cup {x}
  BY <1>1, <1>3, MoreOnce
<1>5. Changes(HaveRun(runs), HaveRun(runs (+) B), {}, {HasRun(x)})
  BY <1>4 DEF Changes, HaveRun
<1> QED
  BY <1>4, <1>5 DEF B

(* A message is taken off the network, to be handed on later.              *)
LEMMA ReceivedIsCarried ==
  ASSUME NEW R, NEW out, NEW ch, NEW arr, NEW queues, NEW runs, NEW due, NEW calls,
         Carried(R, out, ch, arr, queues, runs, due, calls), Shape(out, ch, queues),
         NEW p \in Process, Self \in Process, ch[p][Self] # <<>>,
         NEW n, Goes(n, Head(ch[p][Self]))
  PROVE  Carried(R, out, [ch EXCEPT ![p][Self] = Tail(@)], arr \cup {n}, queues, runs, due, calls)
<1> DEFINE h == Head(ch[p][Self])
           g == OnTheWay(R, p, Self, h)
           k == InHand(R, n)
           C == CarriersOf(R, out, ch, arr, queues, runs)
           ch2 == [ch EXCEPT ![p][Self] = Tail(@)]
           arr2 == arr \cup {n}
           C2 == CarriersOf(R, out, ch2, arr2, queues, runs)
<1>1. Travelling(R, ch) \subseteq C
  BY PartsAreCarriers
<1>2. Queues(out) /\ Ways(ch) /\ Queues(queues) /\ OnceQueues(out) /\ OnceWays(ch)
  BY DEF Shape, Carried, Once
<1>3. g \in Travelling(R, ch)
  <2>1. h \in ToSet(ch[p][Self])
    BY <1>2, TailOnce DEF Ways, OnceWays
  <2> HIDE DEF h
  <2> QED
    BY <2>1 DEF Travelling
<1>4. Exact(C, due, calls)
  BY DEF Carried
<1>5. g.load # {} /\ g \in C
  BY <1>1, <1>3, <1>4 DEF Exact
<1>6. k.load = g.load /\ k.call = g.call
  <2>1. MailLoad(R, n, Self) = MailLoad(R, h, Self) /\ n.call = h.call
    BY SameLoad DEF Goes
  <2> QED
    BY <2>1 DEF OnTheWay, InHand
<1>7. Tagged({g}, "way") /\ Tagged({}, "queue") /\ Tagged({}, "hand") /\ Tagged({}, "task")
  BY DEF OnTheWay, Tagged
<1>8. Changes(Travelling(R, ch), Travelling(R, ch2), {g}, {})
  BY <1>2, TravellingLess DEF OnceWays
<1>9. OnceWays(ch2)
  BY <1>2, LessOnTheWayOnce
<1>10. Changes(TakenIn(R, arr), TakenIn(R, arr2), {}, {k})
  BY TakenInMore
<1> HIDE DEF g, k, h, ch2, arr2
<1>11. Becomes({g}, {k})
  BY <1>5, <1>6, BecomesOne
<1>12. /\ Changes(Waiting(R, out), Waiting(R, out), {}, {})
       /\ Changes(ToDo(queues), ToDo(queues), {}, {})
       /\ Changes(HaveRun(runs), HaveRun(runs), {}, {})
  BY NothingChanges
<1>13. Changes(C, C2, {} \cup {g} \cup {} \cup {}, {} \cup {} \cup {k} \cup {} \cup {})
  BY <1>7, <1>8, <1>10, <1>12, PartsChange, Zenon
<1>14. Changes(C, C2, {g}, {k})
  BY <1>13 DEF Changes
<1>15. Exact(C2, due, calls)
  BY <1>4, <1>5, <1>11, <1>14, ExactAfter
<1>16. Once(out, ch2, queues, runs)
  BY <1>9 DEF Carried, Once
<1> QED
  BY <1>15, <1>16 DEF Carried, C2, ch2, arr2

-----------------------------------------------------------------------------
(* Messages are handed on                                                  *)

(* The messages ms of different calls have come to p, where S[m] are the   *)
(* tasks of m, all of them T, and down are the broadcasts among them.      *)
HandsOn(R, p, ms, S, T, down) ==
  /\ IsSequence(ms) /\ IsSequence(down) /\ NoTwice(down)
  /\ ToSet(down) = {m \in ToSet(ms) : m.type = "Broadcast"}
  /\ \A m \in ToSet(ms) : IsMessage(m) /\ Serves(S[m], R, m, p)
  /\ \A m, n \in ToSet(ms) : m.call = n.call => m = n
  /\ AllOnce(T) /\ BagToSet(T) = UNION {S[m] : m \in ToSet(ms)}

(* The carriers G are those of the messages ms for p.                      *)
Bring(G, g, R, p, ms) ==
  /\ G = {g[m] : m \in ToSet(ms)}
  /\ \A m \in ToSet(ms) : g[m].call = m.call /\ g[m].load = MailLoad(R, m, p)

HandedOn(R, p, ms, T, down) == TasksOn(p, BagToSet(T)) \cup ToChildrenOf(R, p, ToSet(down))

LEMMA BecomesOffspring ==
  ASSUME NEW R, NEW p \in Process, NEW ms, NEW S, NEW T, NEW down, HandsOn(R, p, ms, S, T, down),
         NEW G, NEW g, Bring(G, g, R, p, ms)
  PROVE  Becomes(G, HandedOn(R, p, ms, T, down))
<1> DEFINE M == ToSet(ms)
           K == [m \in M |-> Offspring(R, p, m, S[m])]
<1>1. \A m \in M : K[m] = Offspring(R, p, m, S[m])
  OBVIOUS
<1> HIDE DEF M
<1>2. ASSUME NEW m \in M PROVE Becomes({g[m]}, K[m])
  <2>1. IsMessage(m) /\ Serves(S[m], R, m, p) /\ g[m].call = m.call /\ g[m].load = MailLoad(R, m, p)
    BY DEF HandsOn, Bring, M
  <2>2. Becomes({g[m]}, Offspring(R, p, m, S[m]))
    BY <2>1, OffspringOfMail
  <2> QED
    BY <1>1, <2>2
<1>3. \A m, n \in M : g[m].call = g[n].call => m = n
  BY DEF HandsOn, Bring, M
<1>4. AllOf(K, M) = HandedOn(R, p, ms, T, down)
  <2>1. \A c : c \in AllOf(K, M) <=> \E m \in M : c \in Offspring(R, p, m, S[m])
    BY <1>1 DEF AllOf
  <2> DEFINE Low(m) == ToChildrenOf(R, p, {m})
  <2>2. \A m, c : c \in Offspring(R, p, m, S[m]) <=>
                     (\E t \in S[m] : c = AsTask(p, t)) \/ (m.type = "Broadcast" /\ c \in Low(m))
    BY DEF Offspring, TasksOn
  <2>3. \A c : c \in TasksOn(p, BagToSet(T)) <=> \E m \in M : \E t \in S[m] : c = AsTask(p, t)
    <3>1. \A t : t \in BagToSet(T) <=> \E m \in M : t \in S[m]
      BY DEF HandsOn, M
    <3> QED
      BY <3>1 DEF TasksOn
  <2>4. \A U, c : c \in ToChildrenOf(R, p, U) <=>
          \E m \in U : \E d \in Children(p) : c = OnTheWay(R, p, d, Redirected(CopyOf(m), d))
    BY DEF ToChildrenOf
  <2>5. \A c : c \in ToChildrenOf(R, p, ToSet(down)) <=>
                 \E m \in M : m.type = "Broadcast" /\ c \in Low(m)
    <3>1. \A m : m \in ToSet(down) <=> m \in M /\ m.type = "Broadcast"
      BY DEF HandsOn, M
    <3>2. \A m, c : c \in Low(m) <=>
            \E d \in Children(p) : c = OnTheWay(R, p, d, Redirected(CopyOf(m), d))
      BY DEF ToChildrenOf
    <3> HIDE DEF M, Low
    <3>3. \A c : c \in ToChildrenOf(R, p, ToSet(down)) <=> \E m \in ToSet(down) : c \in Low(m)
      BY <2>4, <3>2
    <3> QED
      BY <3>1, <3>3
  <2> HIDE DEF K, Low
  <2> QED
    BY <2>1, <2>2, <2>3, <2>5 DEF HandedOn
<1> HIDE DEF K
<1>5. Becomes(Those(g, M), AllOf(K, M))
  BY <1>2, <1>3, BecomesTogether
<1>6. Those(g, M) = G
  BY DEF Bring, M, Those
<1> QED
  BY <1>4, <1>5, <1>6

LEMMA HandedOnIsCarried ==
  ASSUME NEW R, NEW out, NEW ch, NEW arr, NEW queues, NEW runs, NEW due, NEW calls,
         Carried(R, out, ch, arr, queues, runs, due, calls),
         NEW p \in Process, NEW ms, NEW S, NEW T, NEW down, HandsOn(R, p, ms, S, T, down),
         NEW GW, NEW GT, NEW GH, Tagged(GW, "queue"), Tagged(GT, "way"), Tagged(GH, "hand"),
         NEW g, Bring(GW \cup GT \cup GH, g, R, p, ms),
         GW \cup GT \cup GH \subseteq CarriersOf(R, out, ch, arr, queues, runs),
         NEW out2, NEW ch1, NEW arr2, Shape(out, ch1, queues), OnceQueues(out2), OnceWays(ch1),
         Changes(Waiting(R, out), Waiting(R, out2), GW, {}),
         Changes(Travelling(R, ch), Travelling(R, ch1), GT, {}),
         Changes(TakenIn(R, arr), TakenIn(R, arr2), GH, {})
  PROVE  Carried(R, out2, ToChildren(ch1, p, down), arr2, [queues EXCEPT ![p] = @ (+) T],
                 runs, due, calls)
<1> DEFINE C == CarriersOf(R, out, ch, arr, queues, runs)
           G == GW \cup GT \cup GH
           KT == ToChildrenOf(R, p, ToSet(down))
           KD == TasksOn(p, BagToSet(T))
           K == HandedOn(R, p, ms, T, down)
           ch2 == ToChildren(ch1, p, down)
           queues2 == [queues EXCEPT ![p] = @ (+) T]
           C2 == CarriersOf(R, out2, ch2, arr2, queues2, runs)
<1>1. Becomes(G, K)
  <2> HIDE DEF G
  <2>1. Bring(G, g, R, p, ms)
    BY DEF G
  <2> QED
    BY <2>1, BecomesOffspring
<1>2. Exact(C, due, calls) /\ Once(out, ch, queues, runs)
  BY DEF Carried
<1>3. K = KT \cup KD
  BY DEF HandedOn
<1>4. /\ Travelling(R, ch) \subseteq C /\ ToDo(queues) \subseteq C
      /\ Tagged(Travelling(R, ch), "way") /\ Tagged(ToDo(queues), "task")
  BY PartsAreCarriers
<1> HIDE DEF K, C
<1>5. K \cap (C \ G) = {}
  <2> HIDE DEF G
  <2>1. G \subseteq C
    BY DEF C, G
  <2> QED
    BY <1>1, <1>2, <2>1, WhatBecomesIsNew
<1>6. KD \cap ToDo(queues) = {}
  <2>1. \A c \in ToDo(queues) : c \notin G
    BY <1>4 DEF Tagged
  <2> HIDE DEF G, KD, KT
  <2> QED
    BY <1>3, <1>4, <1>5, <2>1
<1>7. KT \cap Travelling(R, ch1) = {}
  <2>1. Travelling(R, ch1) \subseteq Travelling(R, ch) /\ \A c \in Travelling(R, ch1) : c \notin GT
    BY DEF Changes
  <2>2. \A c \in Travelling(R, ch) : c \notin GW /\ c \notin GH
    BY <1>4 DEF Tagged
  <2>3. \A c \in Travelling(R, ch1) : c \in C \ G
    BY <1>4, <2>1, <2>2
  <2> HIDE DEF G, KD, KT
  <2> QED
    BY <1>3, <1>5, <2>3
<1>8. Queues(out) /\ Ways(ch1) /\ Queues(queues) /\ OnceQueues(queues) /\ AllOnce(T)
  BY <1>2 DEF Shape, Once, HandsOn
<1>9. OnceQueues(queues2) /\ Changes(ToDo(queues), ToDo(queues2), {}, KD)
  <2>1. \A m \in BagToSet(T) : AsTask(p, m) \notin ToDo(queues)
    BY <1>6 DEF TasksOn
  <2> QED
    BY <1>8, <2>1, MoreToDoOnce
<1>10. IsSequence(down) /\ NoTwice(down) /\ ToSet(down) \subseteq ToSet(ms)
  BY DEF HandsOn
<1>11. OnceWays(ch2)
  <2>1. \A m \in ToSet(down) : IsMessage(m)
    BY <1>10 DEF HandsOn
  <2>2. \A m, n \in ToSet(down) : m.call = n.call => m = n
    BY <1>10 DEF HandsOn
  <2> QED
    BY <1>7, <1>8, <1>10, <2>1, <2>2, DownTheWayOnce
<1>12. Changes(Travelling(R, ch1), Travelling(R, ch2), {}, KT)
  BY <1>8, <1>10, TravellingDown
<1> HIDE DEF KT, KD, ch2, queues2
<1>13. Changes(Travelling(R, ch), Travelling(R, ch2), GT, KT)
  BY <1>12 DEF Changes
<1>14. Changes(HaveRun(runs), HaveRun(runs), {}, {})
  BY NothingChanges
<1>15. Tagged({}, "task")
  BY DEF Tagged
<1>16. Changes(C, C2, GW \cup GT \cup GH \cup {}, {} \cup KT \cup {} \cup KD \cup {})
  BY <1>9, <1>13, <1>14, <1>15, PartsChange, Zenon DEF C
<1>17. Changes(C, C2, G, K)
  BY <1>3, <1>16 DEF Changes
<1>18. Exact(C2, due, calls)
  <2> HIDE DEF G, C2
  <2>1. G \subseteq C
    BY DEF C, G
  <2> QED
    BY <1>1, <1>2, <1>17, <2>1, ExactAfter
<1>19. Once(out2, ch2, queues2, runs)
  BY <1>2, <1>9, <1>11 DEF Once
<1> QED
  BY <1>18, <1>19 DEF Carried, C2, ch2, queues2

-----------------------------------------------------------------------------
(* A task runs                                                             *)

LEMMA TurnsSplit ==
  ASSUME NEW p, NEW i, NEW again \in BOOLEAN
  PROVE  /\ Turns(p, i, FALSE) = {Key(p, i, FALSE)}
         /\ ~again => Turns(p, i, again) = {Key(p, i, again)}
         /\ again => Turns(p, i, again) = {Key(p, i, again)} \cup Turns(p, i, FALSE)
         /\ again => Key(p, i, again) \notin Turns(p, i, FALSE)
<1>1. CASE again = TRUE
  <2>1. Key(p, i, TRUE) # Key(p, i, FALSE)
    BY DEF Key
  <2> QED
    BY <1>1, <2>1 DEF Turns
<1>2. CASE again = FALSE
  BY <1>2 DEF Turns
<1> QED
  BY <1>1, <1>2

(* The tasks when p has run m, which may be requeued as n, and the runs    *)
(* when x is one more.                                                     *)
AfterTask(queues, p, m, n) ==
  [queues EXCEPT ![p] = (@ (-) SetToBag({m})) (+) (IF m.again THEN SetToBag({n}) ELSE EmptyBag)]
OneMore(runs, x) == runs (+) SetToBag({x})

LEMMA RanIsCarried ==
  ASSUME NEW R, NEW out, NEW ch, NEW arr, NEW queues, NEW runs, NEW due, NEW calls,
         Carried(R, out, ch, arr, queues, runs, due, calls), Shape(out, ch, queues),
         NEW p \in Process, NEW m \in BagToSet(queues[p]), m.again \in BOOLEAN,
         NEW n, n.call = m.call, n.index = m.index, n.again = FALSE,
         NEW x, x.call = m.call, x.process = p, x.index = m.index, x.again = m.again
  PROVE  Carried(R, out, ch, arr,
           AfterTask(queues, p, m, n), OneMore(runs, x), due, calls)
<1> DEFINE g == AsTask(p, m)
           more == IF m.again THEN {n} ELSE {}
           KD == TasksOn(p, more)
           KX == {HasRun(x)}
           B == IF m.again THEN SetToBag({n}) ELSE EmptyBag
           X == (queues[p] (-) SetToBag({m})) (+) B
           C == CarriersOf(R, out, ch, arr, queues, runs)
           queues2 == AfterTask(queues, p, m, n)
           runs2 == OneMore(runs, x)
           C2 == CarriersOf(R, out, ch, arr, queues2, runs2)
<1>1. /\ ToDo(queues) \subseteq C /\ HaveRun(runs) \subseteq C
      /\ Tagged(ToDo(queues), "task") /\ Tagged(HaveRun(runs), "ran")
  BY PartsAreCarriers
<1>2. g \in ToDo(queues)
  BY DEF ToDo
<1>3. Exact(C, due, calls) /\ Once(out, ch, queues, runs) /\ g \in C
  BY <1>1, <1>2 DEF Carried
<1>4. /\ g.call = m.call /\ g.load = Turns(p, m.index, m.again)
      /\ HasRun(x).call = m.call /\ HasRun(x).load = {Key(p, m.index, m.again)}
      /\ AsTask(p, n).call = m.call /\ AsTask(p, n).load = Turns(p, m.index, FALSE)
  BY DEF AsTask, HasRun
<1>5. Tagged({g}, "task") /\ Tagged({}, "queue") /\ Tagged({}, "hand") /\ Tagged({}, "way")
  BY DEF AsTask, Tagged
<1>6. KD = IF m.again THEN {AsTask(p, n)} ELSE {}
  BY DEF TasksOn
<1> HIDE DEF g, KD
<1>7. Becomes({g}, KD \cup KX)
  <2>1. CASE m.again
    <3>1. /\ Turns(p, m.index, FALSE) = {Key(p, m.index, FALSE)}
          /\ Turns(p, m.index, m.again) = {Key(p, m.index, m.again)} \cup Turns(p, m.index, FALSE)
          /\ Key(p, m.index, m.again) \notin Turns(p, m.index, FALSE)
      BY <2>1, TurnsSplit
    <3>2. PICK k : k = Key(p, m.index, m.again)
      OBVIOUS
    <3>3. PICK rest : rest = Turns(p, m.index, FALSE) /\ rest # {}
      BY <3>1
    <3>4. PICK a : a = AsTask(p, n)
      OBVIOUS
    <3>5. PICK r : r = HasRun(x)
      OBVIOUS
    <3>6. KD \cup KX = {a, r}
      BY <1>6, <2>1, <3>4, <3>5
    <3>7. /\ g.load = {k} \cup rest /\ k \notin rest /\ a.load = rest /\ r.load = {k}
          /\ a.call = g.call /\ r.call = g.call
      BY <1>4, <3>1, <3>2, <3>3, <3>4, <3>5
    <3> HIDE DEF KX
    <3>8. Becomes({g}, {a, r})
      BY <3>3, <3>7 DEF Becomes
    <3> QED
      BY <3>6, <3>8
  <2>2. CASE ~m.again
    <3>1. Turns(p, m.index, m.again) = {Key(p, m.index, m.again)}
      BY <2>2, TurnsSplit
    <3>2. PICK k : k = Key(p, m.index, m.again)
      OBVIOUS
    <3>3. PICK r : r = HasRun(x)
      OBVIOUS
    <3>4. KD \cup KX = {r}
      BY <1>6, <2>2, <3>3
    <3>5. g.load = {k} /\ r.load = g.load /\ r.call = g.call
      BY <1>4, <3>1, <3>2, <3>3
    <3>6. Becomes({g}, {r})
      BY <3>5, BecomesOne
    <3> QED
      BY <3>4, <3>6
  <2> QED
    BY <2>1, <2>2
<1>8. (KD \cup KX) \cap (C \ {g}) = {}
  <2> HIDE DEF C, KX
  <2>1. PICK K : K = KD \cup KX
    OBVIOUS
  <2>2. PICK G : G = {g}
    OBVIOUS
  <2>3. K \cap (C \ G) = {}
    BY <1>3, <1>7, <2>1, <2>2, WhatBecomesIsNew
  <2> QED
    BY <2>1, <2>2, <2>3
<1>9. HasRun(x) \notin HaveRun(runs)
  <2>1. g \notin HaveRun(runs)
    BY <1>1, <1>5 DEF Tagged
  <2> QED
    BY <1>1, <1>8, <2>1
<1>10. /\ AllOnce(runs2) /\ Changes(HaveRun(runs), HaveRun(runs2), {}, KX)
       /\ BagToSet(runs2) = BagToSet(runs) \cup {x}
  BY <1>3, <1>9, RunMore DEF Once, OneMore
<1>11. AllOnce(B) /\ BagToSet(B) = more
  BY SetIsOnce, EmptyIsOnce
<1>12. AllOnce(queues[p]) /\ Queues(queues) /\ OnceQueues(queues)
  BY <1>3 DEF Once, OnceQueues, Shape
<1>13. PICK D : D = queues[p] (-) SetToBag({m}) /\ AllOnce(D) /\ BagToSet(D) = BagToSet(queues[p]) \ {m}
  BY <1>12, FewerOnce
<1>14. DOMAIN D \cap DOMAIN B = {}
  <2>1. ASSUME NEW t \in BagToSet(D), t \in more PROVE FALSE
    <3>1. t = n /\ m.again
      BY <2>1
    <3>2. AsTask(p, t) \in KD
      BY <1>6, <3>1
    <3>3. t \in BagToSet(queues[p]) /\ t # m
      BY <1>13
    <3>4. AsTask(p, t) \in ToDo(queues)
      BY <3>3 DEF ToDo
    <3>5. AsTask(p, t) # g
      BY <3>3 DEF AsTask, g
    <3> QED
      BY <1>1, <1>8, <3>2, <3>4, <3>5
  <2> HIDE DEF B, more
  <2> QED
    BY <1>11, <2>1 DEF BagToSet
<1> HIDE DEF B, more, KX
<1>15. AllOnce(X) /\ BagToSet(X) = BagToSet(D) \cup more
  BY <1>11, <1>13, <1>14, MoreOnce
<1>16. PICK G : G = {m}
  OBVIOUS
<1>17. BagToSet(X) = (BagToSet(queues[p]) \ G) \cup more
  BY <1>13, <1>15, <1>16
<1>18. queues2 = [queues EXCEPT ![p] = X]
  BY <1>12 DEF Queues, AfterTask, B
<1> HIDE DEF X, queues2
<1>19. Changes(ToDo(queues), ToDo([queues EXCEPT ![p] = X]), TasksOn(p, G), TasksOn(p, more))
  BY <1>12, <1>17, ToDoChanges
<1>20. TasksOn(p, G) = {g}
  BY <1>16 DEF TasksOn, g
<1>21. Changes(ToDo(queues), ToDo(queues2), {g}, KD)
  BY <1>18, <1>19, <1>20 DEF KD
<1>22. OnceQueues(queues2)
  BY <1>12, <1>15, <1>18 DEF OnceQueues, Queues
<1> HIDE DEF runs2
<1>23. /\ Changes(Waiting(R, out), Waiting(R, out), {}, {})
       /\ Changes(Travelling(R, ch), Travelling(R, ch), {}, {})
       /\ Changes(TakenIn(R, arr), TakenIn(R, arr), {}, {})
  BY NothingChanges
<1>24. Changes(C, C2, {} \cup {} \cup {} \cup {g}, {} \cup {} \cup {} \cup KD \cup KX)
  BY <1>5, <1>10, <1>21, <1>23, PartsChange, Zenon
<1>25. Changes(C, C2, {g}, KD \cup KX)
  BY <1>24 DEF Changes
<1>26. Exact(C2, due, calls)
  <2> HIDE DEF C, C2
  <2>1. PICK K : K = KD \cup KX
    OBVIOUS
  <2> QED
    BY <1>3, <1>7, <1>25, <2>1, ExactAfter
<1>27. Once(out, ch, queues2, runs2)
  BY <1>3, <1>10, <1>22 DEF Once
<1>28. Carried(R, out, ch, arr, queues2, runs2, due, calls)
  BY <1>26, <1>27 DEF Carried, C2
<1> QED
  BY <1>10, <1>28 DEF queues2, runs2, B

-----------------------------------------------------------------------------
(* The places in the registries                                            *)

(* A process has a number for whatever has been inserted, and no component *)
(* has two.                                                                *)
Numbered ==
  \A p \in Process : /\ NoTwice(object_index[p])
                     /\ Len(distributed_objects[p]) <= Len(object_index[p])

LEMMA AskedIsNumbered ==
  ASSUME RegistryTypeOK, NEW p \in Process, NEW c \in Component, NoTwice(object_index[p])
  PROVE  /\ NoTwice(Asked(p, c)) /\ Len(Asked(p, c)) \in Nat
         /\ Len(object_index[p]) \in Nat /\ Len(object_index[p]) <= Len(Asked(p, c))
         /\ Place(p, c) \in Nat /\ Place(p, c) <= Len(Asked(p, c))
         /\ \A i \in DOMAIN object_index[p] : Asked(p, c)[i] = object_index[p][i]
<1> DEFINE s == object_index[p]
<1>1. s \in Seq(Component) /\ Len(s) \in Nat /\ DOMAIN s = 1 .. Len(s)
  BY DEF RegistryTypeOK
<1> HIDE DEF s
<1>2. CASE Contains(s, c)
  <2>1. Asked(p, c) = s /\ Place(p, c) = CHOOSE i \in DOMAIN s : s[i] = c
    BY <1>2 DEF Asked, Place, s
  <2>2. \E i \in DOMAIN s : s[i] = c
    BY <1>1, <1>2 DEF Contains
  <2>3. Place(p, c) \in DOMAIN s
    BY <2>1, <2>2
  <2> QED
    BY <1>1, <2>1, <2>3 DEF s
<1>3. CASE ~Contains(s, c)
  <2>1. Asked(p, c) = Append(s, c) /\ Place(p, c) = Len(s) + 1
    BY <1>3 DEF Asked, Place, s
  <2>2. IsSequence(s) /\ c \notin ToSet(s)
    BY <1>1, <1>3, SequenceOf DEF ToSet, Contains
  <2>3. NoTwice(Append(s, c))
    BY <2>2, AppendOnce DEF s
  <2>4. Len(Append(s, c)) = Len(s) + 1 /\ \A i \in DOMAIN s : Append(s, c)[i] = s[i]
    BY <1>1
  <2> QED
    BY <1>1, <2>1, <2>3, <2>4 DEF s
<1> QED
  BY <1>2, <1>3

LEMMA AskKeepsNumbers ==
  ASSUME RegistryTypeOK, Numbered, NEW p \in Process, NEW c \in Component, Ask(p, c)
  PROVE  /\ \A q \in Process : NoTwice(object_index'[q])
         /\ \A q \in Process : Len(object_index[q]) <= Len(object_index'[q])
         /\ Place(p, c) <= Len(object_index'[p])
         /\ \A q \in Process : \A i \in DOMAIN object_index[q] : object_index'[q][i] = object_index[q][i]
<1>1. object_index' = [object_index EXCEPT ![p] = Asked(p, c)] /\ object_index \in [Process -> Seq(Component)]
  BY DEF Ask, RegistryTypeOK
<1>2. \A q \in Process : object_index'[q] = IF q = p THEN Asked(p, c) ELSE object_index[q]
  BY <1>1
<1>3. \A q \in Process : NoTwice(object_index[q]) /\ Len(object_index[q]) \in Nat
  BY <1>1 DEF Numbered
<1>4. /\ NoTwice(Asked(p, c)) /\ Len(object_index[p]) <= Len(Asked(p, c))
      /\ Place(p, c) <= Len(Asked(p, c))
      /\ \A i \in DOMAIN object_index[p] : Asked(p, c)[i] = object_index[p][i]
  BY <1>3, AskedIsNumbered
<1> QED
  BY <1>2, <1>3, <1>4

LEMMA PerformKeepsNumbers ==
  ASSUME RegistryTypeOK, Numbered, NEW p \in Process, NEW call \in Insertion, Perform(p, call)
  PROVE  Numbered'
<1> DEFINE c == call.component
           objs == distributed_objects[p]
<1>1. c \in Component
  BY DEF Insertion
<1>2. Ask(p, c)
  BY DEF Perform, InsertComponent, InsertElement, RemoveElement, LookUp
<1>3. /\ \A q \in Process : NoTwice(object_index'[q])
      /\ \A q \in Process : Len(object_index[q]) <= Len(object_index'[q])
      /\ Place(p, c) <= Len(object_index'[p])
  BY <1>1, <1>2, AskKeepsNumbers
<1>4. /\ distributed_objects \in [Process -> Seq(Holder)]
      /\ \A q \in Process : Len(distributed_objects[q]) \in Nat
      /\ \A q \in Process : Len(distributed_objects[q]) <= Len(object_index[q])
  BY DEF RegistryTypeOK, Numbered
<1>5. \A q \in Process : Len(object_index[q]) \in Nat
  BY DEF RegistryTypeOK
<1>6. \A q \in Process : Len(object_index'[q]) \in Nat
  <2>1. Asked(p, c) \in Seq(Component)
    BY <1>1, PlaceIsANumber
  <2>2. object_index' \in [Process -> Seq(Component)]
    BY <1>2, <2>1 DEF Ask, RegistryTypeOK
  <2> QED
    BY <2>2
<1>7. Place(p, c) \in Nat
  BY <1>1, PlaceIsANumber
<1>8. objs \in Seq(Holder) /\ Len(objs) \in Nat
  BY <1>4
<1> HIDE DEF objs, c
<1>9. \/ distributed_objects' = distributed_objects
      \/ \E new : /\ distributed_objects' = [distributed_objects EXCEPT ![p] = new]
                  /\ Len(new) = Len(objs) \/ (Len(new) = Len(objs) + 1 /\ Len(objs) < Place(p, c))
  <2>1. CASE InsertComponent(p, c)
    <3>1. CASE Inserted(p, c)
      BY <2>1, <3>1 DEF InsertComponent
    <3>2. CASE ~Inserted(p, c)
      <4>1. distributed_objects' = [distributed_objects EXCEPT ![p] = Append(objs, Regular(c))]
        BY <2>1, <3>2 DEF InsertComponent, objs
      <4>2. Len(Append(objs, Regular(c))) = Len(objs) + 1
        BY <1>8
      <4>3. Len(objs) < Place(p, c)
        BY <1>7, <1>8, <3>2 DEF Inserted, objs
      <4> QED
        BY <4>1, <4>2, <4>3
    <3> QED
      BY <3>1, <3>2
  <2>2. CASE InsertElement(p, c, call.index, call.process)
    <3> DEFINE here == Opened(p, c)
    <3>1. /\ Len(here) = Len(objs) \/ (Len(here) = Len(objs) + 1 /\ Len(objs) < Place(p, c))
          /\ \E S : here \in Seq(S)
      <4>0. here = IF Place(p, c) = Len(objs) + 1 THEN Append(objs, Empty(c)) ELSE objs
        BY DEF Opened, objs
      <4> HIDE DEF here
      <4>1. CASE Place(p, c) = Len(objs) + 1
        <5>1. here = Append(objs, Empty(c))
          BY <4>0, <4>1
        <5>2. PICK S : S = Holder \cup {Empty(c)}
          OBVIOUS
        <5>3. objs \in Seq(S) /\ Empty(c) \in S
          BY <1>8, <5>2, SeqMonotonic
        <5>4. Len(here) = Len(objs) + 1 /\ here \in Seq(S)
          BY <5>1, <5>3
        <5> QED
          BY <1>8, <4>1, <5>4
      <4>2. CASE Place(p, c) # Len(objs) + 1
        <5>1. here = objs
          BY <4>0, <4>2
        <5> QED
          BY <1>8, <5>1
      <4> QED
        BY <4>1, <4>2
    <3>2. PICK H : distributed_objects' = [distributed_objects EXCEPT ![p] = H]
                   /\ (H = here \/ \E one : H = [here EXCEPT ![Place(p, c)] = one])
      BY <2>2 DEF InsertElement
    <3> HIDE DEF here
    <3>4. Len(H) = Len(here)
      BY <3>1, <3>2
    <3> QED
      BY <3>1, <3>2, <3>4
  <2>3. CASE RemoveElement(p, c, call.index)
    <3>1. PICK H : distributed_objects' = distributed_objects
                \/ (distributed_objects' = [distributed_objects EXCEPT ![p] = H]
                    /\ \E one : H = [objs EXCEPT ![Place(p, c)] = one])
      BY <2>3, <1>4 DEF RemoveElement, objs
    <3>2. (\E one : H = [objs EXCEPT ![Place(p, c)] = one]) => Len(H) = Len(objs)
      BY <1>8
    <3> QED
      BY <3>1, <3>2
  <2>4. CASE LookUp(p, c)
    BY <2>4 DEF LookUp
  <2> QED
    BY <2>1, <2>2, <2>3, <2>4 DEF Perform, c
<1>10. \A q \in Process : Len(distributed_objects'[q]) <= Len(object_index'[q])
  <2>1. CASE distributed_objects' = distributed_objects
    BY <1>3, <1>4, <1>5, <1>6, <2>1
  <2>2. ASSUME NEW new, distributed_objects' = [distributed_objects EXCEPT ![p] = new],
               Len(new) = Len(objs) \/ (Len(new) = Len(objs) + 1 /\ Len(objs) < Place(p, c))
        PROVE  \A q \in Process : Len(distributed_objects'[q]) <= Len(object_index'[q])
    <3> TAKE q \in Process
    <3>1. distributed_objects'[q] = IF q = p THEN new ELSE distributed_objects[q]
      BY <1>4, <2>2
    <3>2. Len(objs) <= Len(object_index[p])
      BY <1>4 DEF objs
    <3>3. CASE q = p
      BY <1>3, <1>5, <1>6, <1>7, <1>8, <2>2, <3>1, <3>2, <3>3
    <3>4. CASE q # p
      BY <1>3, <1>4, <1>5, <1>6, <3>1, <3>4
    <3> QED
      BY <3>3, <3>4
  <2> QED
    BY <1>9, <2>1, <2>2
<1> QED
  BY <1>3, <1>10 DEF Numbered

-----------------------------------------------------------------------------
(* A registry in which the places are right                                *)

(* What the places in the registries stand for, as the root has it.        *)
View == Named(distributed_objects[Root])
RightPlaces ==
  \A p \in Process :
    /\ Named(distributed_objects[p]) = View
    /\ \A i \in DOMAIN distributed_objects[p] :
         object_index[p][i] = distributed_objects[p][i].name

Settled(R) ==
  \A p \in Process :
    /\ DOMAIN distributed_objects[p] = DOMAIN R
    /\ Matching(p, distributed_objects[p])
    /\ NoTwice(object_index[p])
    /\ object_index[p] \in Seq(Component) /\ DOMAIN R = 1 .. Len(distributed_objects[p])
    /\ \A i \in DOMAIN R : /\ distributed_objects[p][i].name = R[i].name
                           /\ distributed_objects[p][i].objects = R[i].objects
                           /\ i \in DOMAIN object_index[p] /\ object_index[p][i] = R[i].name

LEMMA RightIsSettled ==
  ASSUME IInv, Numbered, RightPlaces
  PROVE  Settled(View)
<1> SUFFICES ASSUME NEW p \in Process
             PROVE  /\ DOMAIN distributed_objects[p] = DOMAIN View
                    /\ Matching(p, distributed_objects[p])
                    /\ NoTwice(object_index[p])
                    /\ object_index[p] \in Seq(Component) /\ DOMAIN View = 1 .. Len(distributed_objects[p])
                    /\ \A i \in DOMAIN View :
                         /\ distributed_objects[p][i].name = View[i].name
                         /\ distributed_objects[p][i].objects = View[i].objects
                         /\ i \in DOMAIN object_index[p] /\ object_index[p][i] = View[i].name
  BY DEF Settled
<1> DEFINE objs == distributed_objects[p]
<1>1. objs \in Seq(Holder) /\ Matching(p, objs) /\ object_index[p] \in Seq(Component)
  BY DEF IInv, InsertTypeOK, RegistryTypeOK
<1>2. Named(objs) = View /\ \A i \in DOMAIN objs : object_index[p][i] = objs[i].name
  BY DEF RightPlaces
<1>3. NoTwice(object_index[p]) /\ Len(objs) <= Len(object_index[p])
  BY DEF Numbered
<1> HIDE DEF objs, View
<1>4. /\ DOMAIN View = DOMAIN objs
      /\ \A i \in DOMAIN objs : View[i].name = objs[i].name /\ View[i].objects = objs[i].objects
  BY <1>2 DEF Named
<1>5. DOMAIN objs = 1 .. Len(objs) /\ Len(objs) \in Nat
  BY <1>1
<1>6. \A i \in DOMAIN objs : i \in DOMAIN object_index[p]
  BY <1>1, <1>3, <1>5
<1> QED
  BY <1>1, <1>2, <1>3, <1>4, <1>5, <1>6 DEF objs

(* Where a component is, and whether it is known                           *)
LEMMA SettledPlaces ==
  ASSUME NEW R, Settled(R), NEW p \in Process, NEW c
  PROVE  /\ Knows(p, c) <=> \E i \in DOMAIN R : R[i].name = c
         /\ \A i \in DOMAIN R : R[i].name = c =>
              Place(p, c) = i /\ HolderOf(p, c).objects = R[i].objects /\ HolderOf(p, c).name = c
<1> DEFINE s == object_index[p]
           objs == distributed_objects[p]
<1>1. /\ DOMAIN objs = DOMAIN R /\ DOMAIN R = 1 .. Len(objs) /\ objs \in Seq(Holder)
      /\ NoTwice(s) /\ s \in Seq(Component)
      /\ \A i \in DOMAIN R : /\ objs[i].name = R[i].name /\ objs[i].objects = R[i].objects
                             /\ i \in DOMAIN s /\ s[i] = R[i].name
  BY DEF Settled, Matching
<1>2. /\ Place(p, c) = IF Contains(s, c) THEN CHOOSE i \in DOMAIN s : s[i] = c ELSE Len(s) + 1
      /\ Inserted(p, c) <=> Place(p, c) <= Len(objs)
      /\ HolderOf(p, c) = objs[Place(p, c)]
  BY DEF Place, Inserted, HolderOf
<1>3. Knows(p, c) <=> Inserted(p, c) /\ (c \in Collections <=> HolderOf(p, c).name \in Collections)
  BY DEF Knows
<1> HIDE DEF s, objs
<1>4. Len(objs) \in Nat /\ Len(s) \in Nat /\ DOMAIN s = 1 .. Len(s)
  BY <1>1
<1>5. Contains(s, c) <=> \E i \in DOMAIN s : s[i] = c
  BY <1>4 DEF Contains
<1>6. ASSUME NEW i \in DOMAIN R, R[i].name = c
      PROVE  Place(p, c) = i /\ HolderOf(p, c).objects = R[i].objects /\ HolderOf(p, c).name = c
             /\ Knows(p, c)
  <2>1. i \in DOMAIN s /\ s[i] = c
    BY <1>1, <1>6
  <2>2. Place(p, c) \in DOMAIN s /\ s[Place(p, c)] = c
    BY <1>2, <1>5, <2>1
  <2>3. Place(p, c) = i
    BY <1>1, <2>1, <2>2 DEF NoTwice
  <2>4. HolderOf(p, c) = objs[i] /\ objs[i].name = c /\ objs[i].objects = R[i].objects
    BY <1>1, <1>2, <1>6, <2>3
  <2>5. i \in 1 .. Len(objs)
    BY <1>1
  <2>6. Inserted(p, c)
    <3>1. Place(p, c) <= Len(objs)
      BY <1>4, <2>3, <2>5
    <3> QED
      BY <3>1 DEF Inserted, objs
  <2> QED
    BY <1>3, <2>3, <2>4, <2>6
<1>7. ASSUME Knows(p, c)
      PROVE  \E i \in DOMAIN R : R[i].name = c
  <2>1. Place(p, c) <= Len(objs)
    BY <1>2, <1>3, <1>7
  <2>2. CASE Contains(s, c)
    <3>1. Place(p, c) \in DOMAIN s /\ s[Place(p, c)] = c
      BY <1>2, <1>5, <2>2
    <3>2. Place(p, c) \in DOMAIN R
      BY <1>1, <1>4, <2>1, <3>1
    <3> QED
      BY <1>1, <3>1, <3>2
  <2>3. CASE ~Contains(s, c)
    <3>1. Len(s) + 1 <= Len(objs)
      BY <1>2, <2>1, <2>3
    <3>2. Len(s) + 1 \in DOMAIN R
      BY <1>1, <1>4, <3>1
    <3>3. Len(s) + 1 \in DOMAIN s
      BY <1>1, <3>2
    <3> QED
      BY <1>4, <3>3
  <2> QED
    BY <2>2, <2>3
<1> QED
  BY <1>6, <1>7

-----------------------------------------------------------------------------
(* Messages of calls whose component is in its place                       *)

Placed(R, m, calls) ==
  /\ m.object \in DOMAIN R
  /\ m.type \in {"Invoke", "BroadcastTo", "Broadcast"} /\ m.again \in BOOLEAN
  /\ m.type = "BroadcastTo" => R[m.object].name \in Collections
  /\ \E call \in calls : m.call = call.name /\ R[m.object].name = call.component

(* The count of the local elements is right, so all of them are taken.     *)
LEMMA AllLocals ==
  ASSUME NEW p \in Process, NEW holder \in Holder, Matches(p, holder), holder.name \in Collections
  PROVE  (CHOOSE S \in LocalElements(p, holder) : TRUE) = At(holder, p)
<1> DEFINE local == {e \in DOMAIN holder.objects : holder.objects[e] = p}
           n == holder.number_of_local_objects
<1>1. local = At(holder, p) /\ IsFiniteSet(local)
  BY AtIsFinite DEF At
<1>2. Cardinality(local) \in Nat
  BY <1>1, FS_CardinalityType
<1>3. n = Cardinality(local)
  BY <1>1 DEF Matches
<1>4. LocalElements(p, holder) = {S \in SUBSET local : Cardinality(S) =
        IF n < 0 THEN 0 ELSE IF n < Cardinality(local) THEN n ELSE Cardinality(local)}
  BY DEF LocalElements
<1> HIDE DEF local, n
<1>5. ~(n < 0) /\ ~(n < Cardinality(local))
  BY <1>2, <1>3
<1>6. LocalElements(p, holder) = {S \in SUBSET local : Cardinality(S) = Cardinality(local)}
  BY <1>4, <1>5
<1>7. \A S \in LocalElements(p, holder) : S = local
  BY <1>1, <1>6, FS_Subset
<1>8. local \in LocalElements(p, holder)
  BY <1>6
<1> QED
  BY <1>1, <1>7, <1>8

LEMMA LocalTasksServe ==
  ASSUME NEW R, Settled(R), NEW p \in Process, NEW m, IsMessage(m), NEW calls, Placed(R, m, calls),
         m.type # "Invoke"
  PROVE  Serves(LocalTasks(p, m), R, m, p)
<1> DEFINE holder == distributed_objects[p][m.object]
<1>1. /\ holder.name = R[m.object].name /\ holder.objects = R[m.object].objects
      /\ holder \in Holder /\ Matches(p, holder)
  <2>1. m.object \in DOMAIN R
    BY DEF Placed
  <2>2. m.object \in DOMAIN distributed_objects[p] /\ Matching(p, distributed_objects[p])
    BY <2>1 DEF Settled
  <2> QED
    BY <2>1, <2>2 DEF Settled, Matching
<1>2. LocalTasks(p, m) =
        IF holder.name \notin Collections THEN {ToInvoke(CopyOf(m), p, NoIndex)}
        ELSE IF m.type = "BroadcastTo" THEN {Unbundled(m, p, e) : e \in m.ids}
        ELSE {ToInvoke(CopyOf(m), p, e) : e \in CHOOSE S \in LocalElements(p, holder) : TRUE}
  BY DEF LocalTasks
<1> HIDE DEF holder
<1>3. \A e : IsTaskOf(ToInvoke(CopyOf(m), p, e), m, e) /\ IsTaskOf(Unbundled(m, p, e), m, e)
  BY UnpackedAreTasks
<1>4. CASE holder.name \notin Collections
  <2>1. m.type = "Broadcast"
    BY <1>1, <1>4 DEF Placed
  <2>2. Wanted(R, m, p) = {NoIndex}
    BY <1>1, <1>4, <2>1 DEF Wanted, LocalsOf
  <2>3. PICK t : t = ToInvoke(CopyOf(m), p, NoIndex)
    OBVIOUS
  <2>4. LocalTasks(p, m) = {t}
    BY <1>2, <1>4, <2>3
  <2>5. IsTaskOf(t, m, NoIndex) /\ t.index = NoIndex
    BY <1>3, <2>3 DEF IsTaskOf
  <2> QED
    BY <2>2, <2>4, <2>5 DEF Serves
<1>5. CASE holder.name \in Collections /\ m.type = "BroadcastTo"
  <2>1. Wanted(R, m, p) = m.ids
    BY <1>5 DEF Wanted
  <2>2. /\ \A t \in LocalTasks(p, m) : \E e \in m.ids : t = Unbundled(m, p, e)
        /\ \A e \in m.ids : Unbundled(m, p, e) \in LocalTasks(p, m)
    BY <1>2, <1>5
  <2>3. \A e : IsTaskOf(Unbundled(m, p, e), m, e) /\ Unbundled(m, p, e).index = e
    BY <1>3 DEF IsTaskOf
  <2> QED
    BY <2>1, <2>2, <2>3 DEF Serves
<1>6. CASE holder.name \in Collections /\ m.type # "BroadcastTo"
  <2>1. m.type = "Broadcast"
    BY <1>6 DEF Placed
  <2>2. Wanted(R, m, p) = At(holder, p)
    BY <1>1, <1>6, <2>1 DEF Wanted, LocalsOf, At
  <2>3. LocalTasks(p, m) = {ToInvoke(CopyOf(m), p, e) : e \in At(holder, p)}
    BY <1>1, <1>2, <1>6, AllLocals
  <2>4. /\ \A t \in LocalTasks(p, m) : \E e \in At(holder, p) : t = ToInvoke(CopyOf(m), p, e)
        /\ \A e \in At(holder, p) : ToInvoke(CopyOf(m), p, e) \in LocalTasks(p, m)
    BY <2>3
  <2>5. \A e : IsTaskOf(ToInvoke(CopyOf(m), p, e), m, e) /\ ToInvoke(CopyOf(m), p, e).index = e
    BY <1>3 DEF IsTaskOf
  <2> QED
    BY <2>2, <2>4, <2>5 DEF Serves
<1> QED
  BY <1>4, <1>5, <1>6

(* What a message is here are its tasks, and they are placed as it is.     *)
LEMMA MessageIsServed ==
  ASSUME NEW R, Settled(R), NEW p \in Process, NEW m, IsMessage(m), NEW calls, Placed(R, m, calls)
  PROVE  /\ Serves(ServedBy(p, m), R, m, p)
         /\ \A t \in ServedBy(p, m) : Placed(R, t, calls) /\ t.call = m.call
<1>1. Serves(ServedBy(p, m), R, m, p)
  <2>1. CASE m.type = "Invoke"
    <3>1. ServedBy(p, m) = {m} /\ Wanted(R, m, p) = {m.index} /\ IsTaskOf(m, m, m.index)
      BY <2>1 DEF ServedBy, Wanted, IsTaskOf
    <3> QED
      BY <3>1 DEF Serves
  <2>2. CASE m.type # "Invoke"
    BY <2>2, LocalTasksServe DEF ServedBy
  <2> QED
    BY <2>1, <2>2
<1>2. \A t \in ServedBy(p, m) : IsTaskOf(t, m, t.index)
  BY <1>1 DEF Serves
<1>3. ASSUME NEW t \in ServedBy(p, m)
      PROVE  Placed(R, t, calls) /\ t.call = m.call
  <2>1. t.type = "Invoke" /\ t.call = m.call /\ t.object = m.object /\ t.again = m.again
    BY <1>2 DEF IsTaskOf
  <2> QED
    BY <2>1 DEF Placed
<1> QED
  BY <1>1, <1>3

LEMMA PlacedAsItGoes ==
  ASSUME NEW R, NEW calls, NEW m, Placed(R, m, calls), NEW n, Goes(n, m)
  PROVE  Placed(R, n, calls)
<1>1. n.type = m.type /\ n.call = m.call /\ n.object = m.object /\ n.again = m.again
  BY DEF Goes
<1> QED
  BY <1>1 DEF Placed

-----------------------------------------------------------------------------
(* What a call owes                                                        *)

LEMMA ProcessesAre == Process \subseteq Nat /\ Root \in Process /\ None \notin Process
BY NAssumption DEF Process, Root, None

(* Whom a call is to, by the registry that all share.                      *)
Owes(R, call, q, j) ==
  \E i \in DOMAIN R :
    /\ R[i].name = call.component
    /\ IF call.component \in Collections
       THEN /\ j \in DOMAIN R[i].objects /\ R[i].objects[j] = q
            /\ ToAll(call) \/ j \in call.to
       ELSE j = NoIndex /\ q \in Process /\ (ToAll(call) \/ q \in call.to)

Targets(R, call) ==
  {t \in [process : Process, index : ElementIndex \cup {NoIndex}] : Owes(R, call, t.process, t.index)}
DueOf(R) ==
  [call \in Call |-> UNION {Turns(t.process, t.index, call.requeue) : t \in Targets(R, call)}]

LEMMA OwedIsSomewhere ==
  ASSUME NEW R, Settled(R), NEW call, NEW q, NEW j, Owes(R, call, q, j)
  PROVE  q \in Process /\ j \in ElementIndex \cup {NoIndex}
<1>1. PICK i \in DOMAIN R :
        IF call.component \in Collections
        THEN j \in DOMAIN R[i].objects /\ R[i].objects[j] = q
        ELSE j = NoIndex /\ q \in Process
  BY DEF Owes
<1>2. Root \in Process
  BY ProcessesAre
<1>3. distributed_objects[Root][i] \in Holder /\ distributed_objects[Root][i].objects = R[i].objects
  BY <1>2 DEF Settled, Matching
<1>4. R[i].objects \in Locations
  BY <1>3 DEF Holder
<1>5. PICK S \in SUBSET ElementIndex : R[i].objects \in [S -> Process]
  BY <1>4 DEF Locations
<1> QED
  BY <1>1, <1>5

LEMMA DueIs ==
  ASSUME NEW R, Settled(R), NEW call \in Call, NEW k
  PROVE  k \in DueOf(R)[call] <=> \E q, j : Owes(R, call, q, j) /\ k \in Turns(q, j, call.requeue)
<1>1. k \in DueOf(R)[call] <=> \E t \in Targets(R, call) : k \in Turns(t.process, t.index, call.requeue)
  BY SMT DEF DueOf
<1>2. ASSUME NEW q, NEW j, Owes(R, call, q, j), k \in Turns(q, j, call.requeue)
      PROVE  \E t \in Targets(R, call) : k \in Turns(t.process, t.index, call.requeue)
  <2>1. q \in Process /\ j \in ElementIndex \cup {NoIndex}
    BY <1>2, OwedIsSomewhere
  <2>2. PICK t \in [process : Process, index : ElementIndex \cup {NoIndex}] : t.process = q /\ t.index = j
    <3>1. [process |-> q, index |-> j] \in [process : Process, index : ElementIndex \cup {NoIndex}]
      BY <2>1
    <3> QED
      BY <3>1
  <2>3. t \in Targets(R, call)
    BY <1>2, <2>2 DEF Targets
  <2> QED
    BY <1>2, <2>2, <2>3
<1>3. ASSUME NEW t \in Targets(R, call), k \in Turns(t.process, t.index, call.requeue)
      PROVE  \E q, j : Owes(R, call, q, j) /\ k \in Turns(q, j, call.requeue)
  <2>1. Owes(R, call, t.process, t.index)
    BY DEF Targets
  <2> QED
    BY <1>3, <2>1
<1> QED
  BY <1>1, <1>2, <1>3

(* No component has two places.                                            *)
LEMMA OnePlace ==
  ASSUME NEW R, Settled(R), NEW i \in DOMAIN R, NEW j \in DOMAIN R, R[i].name = R[j].name
  PROVE  i = j
<1>1. Root \in Process
  BY ProcessesAre
<1>2. /\ NoTwice(object_index[Root])
      /\ i \in DOMAIN object_index[Root] /\ object_index[Root][i] = R[i].name
      /\ j \in DOMAIN object_index[Root] /\ object_index[Root][j] = R[j].name
  BY <1>1 DEF Settled
<1> QED
  BY <1>2 DEF NoTwice

LEMMA OwesByPlace ==
  ASSUME NEW R, Settled(R), NEW call, NEW i \in DOMAIN R, R[i].name = call.component, NEW q, NEW j
  PROVE  Owes(R, call, q, j) <=>
           IF call.component \in Collections
           THEN /\ j \in DOMAIN R[i].objects /\ R[i].objects[j] = q
                /\ ToAll(call) \/ j \in call.to
           ELSE j = NoIndex /\ q \in Process /\ (ToAll(call) \/ q \in call.to)
<1>1. \A h \in DOMAIN R : R[h].name = call.component => h = i
  BY OnePlace
<1> QED
  BY <1>1, Zenon DEF Owes

LEMMA OwesNothing ==
  ASSUME NEW R, Settled(R), NEW call \in Call, \A q, j : ~Owes(R, call, q, j)
  PROVE  DueOf(R)[call] = {}
BY DueIs

(* A call is made: the carriers KW and KD share what it owes.              *)
LEMMA MadeIsCarried ==
  ASSUME NEW R, NEW out, NEW ch, NEW arr, NEW queues, NEW runs, NEW due, NEW calls,
         Carried(R, out, ch, arr, queues, runs, due, calls),
         NEW call, \A other \in calls : other.name # call.name,
         NEW KW, NEW KD, Shares(KW \cup KD, call, due[call]),
         NEW out2, OnceQueues(out2), Changes(Waiting(R, out), Waiting(R, out2), {}, KW),
         NEW queues2, OnceQueues(queues2), Changes(ToDo(queues), ToDo(queues2), {}, KD)
  PROVE  Carried(R, out2, ch, arr, queues2, runs, due, calls \cup {call})
<1> DEFINE C == CarriersOf(R, out, ch, arr, queues, runs)
           D == CarriersOf(R, out2, ch, arr, queues2, runs)
<1>1. Exact(C, due, calls) /\ Once(out, ch, queues, runs)
  BY DEF Carried
<1>2. Changes(C, D, {}, KW \cup KD)
  <2>1. Waiting(R, out2) = Waiting(R, out) \cup KW /\ ToDo(queues2) = ToDo(queues) \cup KD
    BY DEF Changes
  <2> QED
    BY <2>1 DEF CarriersOf, Changes
<1> HIDE DEF C, D
<1>3. Exact(C \cup (KW \cup KD), due, calls \cup {call})
  BY <1>1, ExactMakes
<1>4. D = C \cup (KW \cup KD)
  BY <1>2 DEF Changes
<1>5. Exact(D, due, calls \cup {call})
  BY <1>3, <1>4
<1>6. Once(out2, ch, queues2, runs)
  BY <1>1 DEF Once
<1> QED
  BY <1>5, <1>6 DEF Carried, D

(* What is of a new call is nowhere yet.                                   *)
LEMMA NewIsNowhere ==
  ASSUME NEW R, NEW out, NEW ch, NEW arr, NEW queues, NEW runs, NEW due, NEW calls,
         Carried(R, out, ch, arr, queues, runs, due, calls),
         NEW call, \A other \in calls : other.name # call.name,
         NEW k, k.call = call.name
  PROVE  k \notin Waiting(R, out) /\ k \notin ToDo(queues)
<1> DEFINE C == CarriersOf(R, out, ch, arr, queues, runs)
<1>1. Exact(C, due, calls)
  BY DEF Carried
<1>2. Waiting(R, out) \subseteq C /\ ToDo(queues) \subseteq C
  BY PartsAreCarriers
<1> HIDE DEF C
<1>3. \A c \in C : \E other \in calls : c.call = other.name
  BY <1>1 DEF Exact
<1> QED
  BY <1>2, <1>3

-----------------------------------------------------------------------------
(* What is kept about the messages and tasks of the calls                  *)

Directed(m, p) ==
  IF m.type = "Broadcast" THEN m.dest = p /\ m.source = p ELSE m.dest \in Process

PlacedOut(R, out, calls) ==
  \A p \in Process : \A m \in BagToSet(out[p]) : Placed(R, m, calls) /\ Directed(m, p)
PlacedTasks(R, queues, calls) ==
  \A p \in Process : \A m \in BagToSet(queues[p]) : Placed(R, m, calls)
PlacedWays(R, ch, calls) ==
  \A p, q \in Process : \A m \in ToSet(ch[p][q]) : Placed(R, m, calls)
PlacedHere(R, arr, calls) == \A m \in arr : Placed(R, m, calls)
PlacedRuns(runs, calls) ==
  \A x \in BagToSet(runs) : \E call \in calls : x.call = call.name /\ x.component = call.component

Kept(R, out, ch, arr, queues, runs, calls) ==
  /\ Carried(R, out, ch, arr, queues, runs, DueOf(R), calls)
  /\ PlacedOut(R, out, calls) /\ PlacedTasks(R, queues, calls)
  /\ PlacedWays(R, ch, calls) /\ PlacedHere(R, arr, calls) /\ PlacedRuns(runs, calls)

(* More is put into the queue of p.                                        *)
Adds(old, new, p, B) ==
  \/ new = [old EXCEPT ![p] = @ (+) B]
  \/ new = old /\ BagToSet(B) = {}

LEMMA AddedIs ==
  ASSUME NEW old, Queues(old), NEW new, NEW p \in Process, NEW B, Adds(old, new, p, B)
  PROVE  \A q \in Process : \A m \in BagToSet(new[q]) :
           m \in BagToSet(old[q]) \/ (q = p /\ m \in BagToSet(B))
<1>1. CASE new = old
  BY <1>1
<1>2. CASE new = [old EXCEPT ![p] = @ (+) B]
  <2>1. \A q \in Process : new[q] = IF q = p THEN old[p] (+) B ELSE old[q]
    BY <1>2 DEF Queues
  <2>2. BagToSet(old[p] (+) B) = BagToSet(old[p]) \cup BagToSet(B)
    BY DEF BagToSet, (+)
  <2> QED
    BY <2>1, <2>2
<1> QED
  BY <1>1, <1>2 DEF Adds

LEMMA AddedQueued ==
  ASSUME NEW R, NEW out, OnceQueues(out), Queues(out), NEW p \in Process, NEW B, AllOnce(B),
         \A m \in BagToSet(B) : InQueue(R, p, m) \notin Waiting(R, out),
         NEW out2, Adds(out, out2, p, B)
  PROVE  OnceQueues(out2) /\ Changes(Waiting(R, out), Waiting(R, out2), {}, QueuedOn(R, p, BagToSet(B)))
<1>1. CASE out2 = out /\ BagToSet(B) = {}
  <2>1. QueuedOn(R, p, BagToSet(B)) = {}
    BY <1>1 DEF QueuedOn
  <2> QED
    BY <1>1, <2>1, NothingChanges
<1>2. CASE out2 = [out EXCEPT ![p] = @ (+) B]
  BY <1>2, MoreQueuedOnce
<1> QED
  BY <1>1, <1>2 DEF Adds

LEMMA AddedToDo ==
  ASSUME NEW queues, OnceQueues(queues), Queues(queues), NEW p \in Process, NEW B, AllOnce(B),
         \A m \in BagToSet(B) : AsTask(p, m) \notin ToDo(queues),
         NEW queues2, Adds(queues, queues2, p, B)
  PROVE  OnceQueues(queues2) /\ Changes(ToDo(queues), ToDo(queues2), {}, TasksOn(p, BagToSet(B)))
<1>1. CASE queues2 = queues /\ BagToSet(B) = {}
  <2>1. TasksOn(p, BagToSet(B)) = {}
    BY <1>1 DEF TasksOn
  <2> QED
    BY <1>1, <2>1, NothingChanges
<1>2. CASE queues2 = [queues EXCEPT ![p] = @ (+) B]
  BY <1>2, MoreToDoOnce
<1> QED
  BY <1>1, <1>2 DEF Adds

(* A new call puts A into the outgoing queue and B among the tasks.        *)
LEMMA SendingIsKept ==
  ASSUME NEW R, NEW out, NEW ch, NEW arr, NEW queues, NEW runs, NEW calls,
         Kept(R, out, ch, arr, queues, runs, calls), Queues(out), Queues(queues),
         NEW call, \A other \in calls : other.name # call.name,
         NEW p \in Process, NEW A, AllOnce(A), NEW B, AllOnce(B),
         \A m \in BagToSet(A) : Placed(R, m, {call}) /\ Directed(m, p),
         \A m \in BagToSet(B) : Placed(R, m, {call}),
         Shares(QueuedOn(R, p, BagToSet(A)) \cup TasksOn(p, BagToSet(B)), call, DueOf(R)[call]),
         NEW out2, Adds(out, out2, p, A), NEW queues2, Adds(queues, queues2, p, B)
  PROVE  Kept(R, out2, ch, arr, queues2, runs, calls \cup {call})
<1>1. Carried(R, out, ch, arr, queues, runs, DueOf(R), calls)
  BY DEF Kept
<1>2. OnceQueues(out) /\ OnceQueues(queues)
  BY <1>1 DEF Carried, Once
<1>3. \A m : Placed(R, m, {call}) => InQueue(R, p, m).call = call.name /\ AsTask(p, m).call = call.name
  BY DEF Placed, InQueue, AsTask
<1>4. \A k : k.call = call.name => k \notin Waiting(R, out) /\ k \notin ToDo(queues)
  BY <1>1, NewIsNowhere
<1>5. /\ OnceQueues(out2)
      /\ Changes(Waiting(R, out), Waiting(R, out2), {}, QueuedOn(R, p, BagToSet(A)))
  <2>1. \A m \in BagToSet(A) : InQueue(R, p, m) \notin Waiting(R, out)
    BY <1>3, <1>4
  <2> QED
    BY <1>2, <2>1, AddedQueued
<1>6. /\ OnceQueues(queues2)
      /\ Changes(ToDo(queues), ToDo(queues2), {}, TasksOn(p, BagToSet(B)))
  <2>1. \A m \in BagToSet(B) : AsTask(p, m) \notin ToDo(queues)
    BY <1>3, <1>4
  <2> QED
    BY <1>2, <2>1, AddedToDo
<1>7. Carried(R, out2, ch, arr, queues2, runs, DueOf(R), calls \cup {call})
  BY <1>1, <1>5, <1>6, MadeIsCarried
<1> DEFINE more == calls \cup {call}
<1>8. /\ \A m : Placed(R, m, calls) => Placed(R, m, more)
      /\ \A m : Placed(R, m, {call}) => Placed(R, m, more)
  BY DEF Placed
<1>9. PlacedOut(R, out2, more)
  <2>1. \A q \in Process : \A m \in BagToSet(out2[q]) :
          m \in BagToSet(out[q]) \/ (q = p /\ m \in BagToSet(A))
    BY AddedIs
  <2>2. \A q \in Process : \A m \in BagToSet(out[q]) : Placed(R, m, calls) /\ Directed(m, q)
    BY DEF Kept, PlacedOut
  <2> HIDE DEF more
  <2> QED
    BY <1>8, <2>1, <2>2 DEF PlacedOut
<1>10. PlacedTasks(R, queues2, more)
  <2>1. \A q \in Process : \A m \in BagToSet(queues2[q]) :
          m \in BagToSet(queues[q]) \/ (q = p /\ m \in BagToSet(B))
    BY AddedIs
  <2>2. \A q \in Process : \A m \in BagToSet(queues[q]) : Placed(R, m, calls)
    BY DEF Kept, PlacedTasks
  <2> HIDE DEF more
  <2> QED
    BY <1>8, <2>1, <2>2 DEF PlacedTasks
<1>11. PlacedWays(R, ch, more) /\ PlacedHere(R, arr, more)
  <2> HIDE DEF more
  <2> QED
    BY <1>8 DEF Kept, PlacedWays, PlacedHere
<1>12. PlacedRuns(runs, more)
  BY DEF Kept, PlacedRuns
<1> QED
  BY <1>7, <1>9, <1>10, <1>11, <1>12 DEF Kept

-----------------------------------------------------------------------------
(* The messages and tasks of a call share what it owes                     *)

Sends(R, p, call, A, B) ==
  /\ AllOnce(A) /\ AllOnce(B)
  /\ \A m \in BagToSet(A) : Placed(R, m, {call}) /\ Directed(m, p)
  /\ \A m \in BagToSet(B) : Placed(R, m, {call})
  /\ Shares(QueuedOn(R, p, BagToSet(A)) \cup TasksOn(p, BagToSet(B)), call, DueOf(R)[call])

(* m is a message of the call, whose component is in place i.              *)
Bears(m, call, i) == m.call = call.name /\ m.object = i /\ m.again = call.requeue

LEMMA LoadsAreNotEmpty ==
  /\ \A q, i, again : Turns(q, i, again) # {}
  /\ \A R, m, q : LoadAt(R, m, q) # {}
BY DEF Turns, LoadAt, Visits

LEMMA NothingIsSent ==
  ASSUME NEW R, NEW p, NEW call, DueOf(R)[call] = {}
  PROVE  Sends(R, p, call, EmptyBag, EmptyBag)
<1>1. AllOnce(EmptyBag) /\ BagToSet(EmptyBag) = {}
  BY EmptyIsOnce
<1>2. QueuedOn(R, p, {}) = {} /\ TasksOn(p, {}) = {}
  BY DEF QueuedOn, TasksOn
<1> QED
  BY <1>1, <1>2 DEF Sends, Shares

LEMMA OneShares ==
  ASSUME NEW k, NEW call, NEW owed, k.load # {}, k.call = call.name,
         \A x : x \in k.load /\ IsDelivery(x) <=> x \in owed
  PROVE  \A K : K = {k} => Shares(K, call, owed)
BY DEF Shares

LEMMA BornIsPlaced ==
  ASSUME NEW R, NEW call \in Call, NEW i \in DOMAIN R, R[i].name = call.component,
         NEW m, Bears(m, call, i), m.type \in {"Invoke", "BroadcastTo", "Broadcast"},
         m.type = "BroadcastTo" => call.component \in Collections
  PROVE  Placed(R, m, {call})
<1>1. call.requeue \in BOOLEAN
  BY CallAssumption
<1> QED
  BY <1>1 DEF Placed, Bears

LEMMA OneMessageSent ==
  ASSUME NEW R, NEW p \in Process, NEW call, NEW m, Placed(R, m, {call}), Directed(m, p),
         InQueue(R, p, m).load # {},
         \A x : x \in InQueue(R, p, m).load /\ IsDelivery(x) <=> x \in DueOf(R)[call]
  PROVE  Sends(R, p, call, SetToBag({m}), EmptyBag)
<1>1. /\ AllOnce(EmptyBag) /\ BagToSet(EmptyBag) = {}
      /\ AllOnce(SetToBag({m})) /\ BagToSet(SetToBag({m})) = {m}
  BY EmptyIsOnce, SetIsOnce
<1>2. m.call = call.name
  BY DEF Placed
<1>3. PICK k : k = InQueue(R, p, m)
  OBVIOUS
<1>4. k.call = call.name
  BY <1>2, <1>3 DEF InQueue
<1>5. QueuedOn(R, p, {m}) \cup TasksOn(p, {}) = {k}
  BY <1>3 DEF QueuedOn, TasksOn
<1>6. \A K : K = {k} => Shares(K, call, DueOf(R)[call])
  BY <1>3, <1>4, OneShares
<1> QED
  BY <1>1, <1>5, <1>6 DEF Sends

LEMMA OneTaskSent ==
  ASSUME NEW R, NEW p \in Process, NEW call, NEW m, Placed(R, m, {call}),
         \A x : x \in Turns(p, m.index, m.again) <=> x \in DueOf(R)[call]
  PROVE  Sends(R, p, call, EmptyBag, SetToBag({m}))
<1>1. /\ AllOnce(EmptyBag) /\ BagToSet(EmptyBag) = {}
      /\ AllOnce(SetToBag({m})) /\ BagToSet(SetToBag({m})) = {m}
  BY EmptyIsOnce, SetIsOnce
<1>2. m.call = call.name
  BY DEF Placed
<1>3. PICK k : k = AsTask(p, m)
  OBVIOUS
<1>4. k.call = call.name /\ k.load = Turns(p, m.index, m.again)
  BY <1>2, <1>3 DEF AsTask
<1>5. QueuedOn(R, p, {}) \cup TasksOn(p, {m}) = {k}
  BY <1>3 DEF QueuedOn, TasksOn
<1>6. k.load # {} /\ \A x \in k.load : IsDelivery(x)
  <2>1. \A x \in Turns(p, m.index, m.again) : IsDelivery(x)
    BY TurnsAre
  <2>2. Turns(p, m.index, m.again) # {}
    BY LoadsAreNotEmpty
  <2> QED
    BY <1>4, <2>1, <2>2
<1>7. \A K : K = {k} => Shares(K, call, DueOf(R)[call])
  BY <1>4, <1>6, OneShares
<1> QED
  BY <1>1, <1>5, <1>7 DEF Sends

LEMMA InvokeSends ==
  ASSUME NEW R, Settled(R), NEW call \in Call, NEW p \in Process,
         NEW i \in DOMAIN R, R[i].name = call.component,
         NEW m, Bears(m, call, i), m.type = "Invoke", m.dest \in Process,
         \A q, j : Owes(R, call, q, j) <=> q = m.dest /\ j = m.index
  PROVE  /\ Sends(R, p, call, SetToBag({m}), EmptyBag)
         /\ m.dest = p => Sends(R, p, call, EmptyBag, SetToBag({m}))
<1> DEFINE q == m.dest
           j == m.index
<1>1. Placed(R, m, {call}) /\ Directed(m, p)
  BY BornIsPlaced DEF Directed
<1>2. \A x : x \in DueOf(R)[call] <=> x \in Turns(q, j, call.requeue)
  BY DueIs
<1>3. m.again = call.requeue
  BY DEF Bears
<1>4. InQueue(R, p, m).load = LoadAt(R, m, q)
  <2>1. InQueue(R, p, m).load = MailLoad(R, m, q)
    BY DEF InQueue, Goal
  <2> QED
    BY <2>1, MailLoadIs
<1>5. Wanted(R, m, q) = {j}
  BY DEF Wanted
<1>6. InQueue(R, p, m).load # {}
  BY <1>4, LoadsAreNotEmpty
<1>7. \A x : x \in LoadAt(R, m, q) /\ IsDelivery(x) <=> x \in Turns(q, j, m.again)
  BY <1>5, LoadAtIs
<1>8. \A x : x \in InQueue(R, p, m).load /\ IsDelivery(x) <=> x \in DueOf(R)[call]
  BY <1>2, <1>3, <1>4, <1>7
<1>9. Sends(R, p, call, SetToBag({m}), EmptyBag)
  BY <1>1, <1>6, <1>8, OneMessageSent
<1>10. ASSUME m.dest = p
       PROVE  Sends(R, p, call, EmptyBag, SetToBag({m}))
  <2>1. \A x : x \in Turns(p, j, m.again) <=> x \in DueOf(R)[call]
    BY <1>2, <1>3, <1>10
  <2> QED
    BY <1>1, <2>1, OneTaskSent
<1> QED
  BY <1>9, <1>10

LEMMA BroadcastSends ==
  ASSUME NEW R, Settled(R), NEW call \in Call, ToAll(call), NEW p \in Process,
         NEW i \in DOMAIN R, R[i].name = call.component,
         NEW m, Bears(m, call, i), m.type = "Broadcast", m.dest = p, m.source = p
  PROVE  Sends(R, p, call, SetToBag({m}), EmptyBag)
<1>1. Placed(R, m, {call}) /\ Directed(m, p)
  BY BornIsPlaced DEF Directed
<1>2. m.again = call.requeue /\ m.object = i
  BY DEF Bears
<1>3. \A x : x \in InQueue(R, p, m).load <=> \E q \in Process : x \in LoadAt(R, m, q)
  <2>1. InQueue(R, p, m).load = MailLoad(R, m, Root)
    BY DEF InQueue, Goal
  <2>2. MailLoad(R, m, Root) = UNION {LoadAt(R, m, q) : q \in Process}
    BY SubtreeOfRoot DEF MailLoad
  <2>3. \A x : x \in UNION {LoadAt(R, m, q) : q \in Process} <=> \E q \in Process : x \in LoadAt(R, m, q)
    BY SMT
  <2> QED
    BY <2>1, <2>2, <2>3
<1>4. \A q, j : Owes(R, call, q, j) <=> q \in Process /\ j \in Wanted(R, m, q)
  <2>1. ASSUME NEW q, NEW j
        PROVE  Owes(R, call, q, j) <=> q \in Process /\ j \in Wanted(R, m, q)
    <3>1. Owes(R, call, q, j) => q \in Process
      BY OwedIsSomewhere
    <3>2. Owes(R, call, q, j) <=>
            IF call.component \in Collections
            THEN j \in DOMAIN R[i].objects /\ R[i].objects[j] = q
            ELSE j = NoIndex /\ q \in Process
      BY OwesByPlace
    <3>3. Wanted(R, m, q) = IF call.component \in Collections
                            THEN {e \in DOMAIN R[i].objects : R[i].objects[e] = q} ELSE {NoIndex}
      BY <1>2 DEF Wanted, LocalsOf
    <3> QED
      BY <3>1, <3>2, <3>3
  <2> QED
    BY <2>1
<1>5. InQueue(R, p, m).load # {}
  <2>1. PICK x : x = <<p, {}, FALSE>>
    OBVIOUS
  <2>2. x \in LoadAt(R, m, p)
    BY <2>1, LoadAtIs
  <2> QED
    BY <1>3, <2>2
<1>6. ASSUME NEW x
      PROVE  x \in InQueue(R, p, m).load /\ IsDelivery(x) <=> x \in DueOf(R)[call]
  <2>1. \A q : x \in LoadAt(R, m, q) /\ IsDelivery(x) <=>
                 \E j \in Wanted(R, m, q) : x \in Turns(q, j, m.again)
    BY LoadAtIs
  <2>2. x \in DueOf(R)[call] <=> \E q, j : Owes(R, call, q, j) /\ x \in Turns(q, j, m.again)
    BY <1>2, DueIs
  <2> QED
    BY <1>3, <1>4, <2>1, <2>2
<1> QED
  BY <1>1, <1>5, <1>6, OneMessageSent

(* The messages F to others and the tasks H here of broadcast_to, for the  *)
(* elements chosen of each process.                                        *)
Splits(F, H, chosen, p) ==
  /\ \A m \in F : /\ m.type = "BroadcastTo" /\ m.dest \in Process /\ m.dest # p
                  /\ m.ids = chosen[m.dest]
  /\ \A m, n \in F : m.dest = n.dest => m = n
  /\ \A q \in Process : q # p /\ chosen[q] # {} => \E m \in F : m.dest = q
  /\ \A t \in H : t.type = "Invoke" /\ t.dest = p /\ t.index \in chosen[p]
  /\ \A t, u \in H : t.index = u.index => t = u
  /\ \A e \in chosen[p] : \E t \in H : t.index = e

(* k brings to where m goes what m has ids of.                             *)
Bundles(k, m) ==
  /\ k.call = m.call /\ k.load # {} /\ \A x \in k.load : x[1] = m.dest
  /\ \A x : x \in k.load /\ IsDelivery(x) <=> \E e \in m.ids : x \in Turns(m.dest, e, m.again)

LEMMA BundleBrings ==
  ASSUME NEW R, NEW m, m.type = "BroadcastTo", m.dest \in Process, NEW p
  PROVE  Bundles(InQueue(R, p, m), m)
<1>1. InQueue(R, p, m).call = m.call /\ InQueue(R, p, m).load = MailLoad(R, m, m.dest)
  BY DEF InQueue, Goal
<1>2. MailLoad(R, m, m.dest) = LoadAt(R, m, m.dest)
  BY MailLoadIs
<1>3. Wanted(R, m, m.dest) = m.ids
  BY DEF Wanted
<1>4. /\ LoadAt(R, m, m.dest) # {}
      /\ \A x \in LoadAt(R, m, m.dest) : x[1] = m.dest
      /\ \A x : x \in LoadAt(R, m, m.dest) /\ IsDelivery(x) <=>
                \E e \in Wanted(R, m, m.dest) : x \in Turns(m.dest, e, m.again)
  BY LoadAtIs, LoadsAreNotEmpty
<1> QED
  BY <1>1, <1>2, <1>3, <1>4 DEF Bundles

LEMMA SplitShares ==
  ASSUME NEW R, NEW p \in Process, NEW F, NEW H, NEW chosen, Splits(F, H, chosen, p),
         NEW call, NEW owed,
         \A m \in F \cup H : m.call = call.name /\ m.again = call.requeue,
         \A x : x \in owed <=>
           \E q \in Process : \E e \in chosen[q] : x \in Turns(q, e, call.requeue)
  PROVE  Shares(QueuedOn(R, p, F) \cup TasksOn(p, H), call, owed)
<1> DEFINE K == QueuedOn(R, p, F) \cup TasksOn(p, H)
<1>1. \A k : k \in K <=> (\E m \in F : k = InQueue(R, p, m)) \/ (\E t \in H : k = AsTask(p, t))
  BY DEF QueuedOn, TasksOn
<1> HIDE DEF K
<1>2. ASSUME NEW m \in F
      PROVE  /\ InQueue(R, p, m).call = call.name /\ InQueue(R, p, m).load # {}
             /\ \A x \in InQueue(R, p, m).load : x[1] = m.dest
             /\ \A x : x \in InQueue(R, p, m).load /\ IsDelivery(x) <=>
                       \E e \in chosen[m.dest] : x \in Turns(m.dest, e, call.requeue)
             /\ m.dest \in Process /\ m.dest # p
  <2>1. m.type = "BroadcastTo" /\ m.dest \in Process /\ m.dest # p /\ m.ids = chosen[m.dest]
    BY DEF Splits
  <2>2. m.call = call.name /\ m.again = call.requeue
    OBVIOUS
  <2>3. Bundles(InQueue(R, p, m), m)
    BY <2>1, BundleBrings
  <2> QED
    BY <2>1, <2>2, <2>3 DEF Bundles
<1>3. ASSUME NEW t \in H
      PROVE  /\ AsTask(p, t).call = call.name
             /\ AsTask(p, t).load = Turns(p, t.index, call.requeue)
             /\ t.index \in chosen[p]
             /\ AsTask(p, t).load # {}
             /\ \A x \in AsTask(p, t).load : x[1] = p /\ IsTurn(x, p, t.index) /\ IsDelivery(x)
  <2>1. t.index \in chosen[p] /\ t.call = call.name /\ t.again = call.requeue
    BY DEF Splits
  <2>2. AsTask(p, t).call = t.call /\ AsTask(p, t).load = Turns(p, t.index, t.again)
    BY DEF AsTask
  <2>3. Turns(p, t.index, call.requeue) # {}
    BY LoadsAreNotEmpty
  <2>4. \A x \in Turns(p, t.index, call.requeue) : x[1] = p /\ IsTurn(x, p, t.index) /\ IsDelivery(x)
    BY TurnsAre
  <2> QED
    BY <2>1, <2>2, <2>3, <2>4
<1>4. ASSUME NEW k \in K
      PROVE  k.load # {} /\ k.call = call.name /\ \A x \in k.load : IsDelivery(x) => x \in owed
  <2>1. CASE \E m \in F : k = InQueue(R, p, m)
    BY <1>2, <2>1
  <2>2. CASE \E t \in H : k = AsTask(p, t)
    BY <1>3, <2>2
  <2> QED
    BY <1>1, <2>1, <2>2
<1>5. ASSUME NEW k \in K, NEW l \in K, NEW x, x \in k.load, x \in l.load
      PROVE  k = l
  <2>1. CASE (\E m \in F : k = InQueue(R, p, m)) /\ (\E n \in F : l = InQueue(R, p, n))
    BY <1>2, <1>5, <2>1 DEF Splits
  <2>2. CASE (\E t \in H : k = AsTask(p, t)) /\ (\E u \in H : l = AsTask(p, u))
    <3>1. PICK t \in H : k = AsTask(p, t)
      BY <2>2
    <3>2. PICK u \in H : l = AsTask(p, u)
      BY <2>2
    <3>3. IsTurn(x, p, t.index) /\ IsTurn(x, p, u.index)
      BY <1>3, <1>5, <3>1, <3>2
    <3>4. t.index = u.index
      BY <3>3, OneTurn
    <3>5. t = u
      BY <3>4 DEF Splits
    <3> QED
      BY <3>1, <3>2, <3>5
  <2>3. CASE (\E m \in F : k = InQueue(R, p, m)) /\ (\E u \in H : l = AsTask(p, u))
    BY <1>2, <1>3, <1>5, <2>3
  <2>4. CASE (\E t \in H : k = AsTask(p, t)) /\ (\E n \in F : l = InQueue(R, p, n))
    BY <1>2, <1>3, <1>5, <2>4
  <2> QED
    BY <1>1, <2>1, <2>2, <2>3, <2>4
<1>6. ASSUME NEW x \in owed
      PROVE  IsDelivery(x) /\ \E k \in K : x \in k.load
  <2>1. PICK q \in Process : \E e \in chosen[q] : x \in Turns(q, e, call.requeue)
    OBVIOUS
  <2>2. PICK e \in chosen[q] : x \in Turns(q, e, call.requeue)
    BY <2>1
  <2>3. IsDelivery(x)
    BY <2>2, TurnsAre
  <2>4. CASE q = p
    <3>1. PICK t \in H : t.index = e
      BY <2>2, <2>4 DEF Splits
    <3>2. x \in AsTask(p, t).load
      BY <1>3, <2>2, <2>4, <3>1
    <3> QED
      BY <1>1, <2>3, <3>2
  <2>5. CASE q # p
    <3>1. PICK m \in F : m.dest = q
      BY <2>2, <2>5 DEF Splits
    <3>2. x \in InQueue(R, p, m).load
      BY <1>2, <2>2, <3>1
    <3> QED
      BY <1>1, <2>3, <3>2
  <2> QED
    BY <2>4, <2>5
<1> QED
  BY <1>4, <1>5, <1>6 DEF Shares, K

LEMMA BroadcastToSends ==
  ASSUME NEW R, Settled(R), NEW call \in Call, call.kind = "broadcast_to", NEW p \in Process,
         NEW i \in DOMAIN R, R[i].name = call.component,
         NEW F, NEW H, NEW chosen, Splits(F, H, chosen, p),
         \A m \in F \cup H : Bears(m, call, i),
         \A q \in Process : chosen[q] = {e \in DOMAIN R[i].objects \cap call.to : R[i].objects[e] = q}
  PROVE  Sends(R, p, call, SetToBag(F), SetToBag(H))
<1>1. call.component \in Collections /\ ~ToAll(call)
  BY CallAssumption DEF ToAll
<1>2. ASSUME NEW m \in F
      PROVE  Placed(R, m, {call}) /\ Directed(m, p)
  <2>1. Bears(m, call, i) /\ m.type = "BroadcastTo" /\ m.dest \in Process
    BY DEF Splits
  <2> QED
    BY <1>1, <2>1, BornIsPlaced DEF Directed
<1>3. ASSUME NEW m \in H
      PROVE  Placed(R, m, {call})
  <2>1. Bears(m, call, i) /\ m.type = "Invoke"
    BY DEF Splits
  <2> QED
    BY <2>1, BornIsPlaced
<1>4. \A q, j : Owes(R, call, q, j) <=> q \in Process /\ j \in chosen[q]
  <2>1. ASSUME NEW q, NEW j
        PROVE  Owes(R, call, q, j) <=> q \in Process /\ j \in chosen[q]
    <3>1. Owes(R, call, q, j) => q \in Process
      BY OwedIsSomewhere
    <3>2. Owes(R, call, q, j) <=> j \in DOMAIN R[i].objects /\ R[i].objects[j] = q /\ j \in call.to
      BY <1>1, OwesByPlace
    <3> QED
      BY <3>1, <3>2
  <2> QED
    BY <2>1
<1>5. \A x : x \in DueOf(R)[call] <=>
        \E q \in Process : \E e \in chosen[q] : x \in Turns(q, e, call.requeue)
  BY <1>4, DueIs
<1>6. \A m \in F \cup H : m.call = call.name /\ m.again = call.requeue
  BY DEF Bears
<1>7. Shares(QueuedOn(R, p, F) \cup TasksOn(p, H), call, DueOf(R)[call])
  BY <1>5, <1>6, SplitShares
<1>8. /\ AllOnce(SetToBag(F)) /\ BagToSet(SetToBag(F)) = F
      /\ AllOnce(SetToBag(H)) /\ BagToSet(SetToBag(H)) = H
  BY SetIsOnce
<1> QED
  BY <1>2, <1>3, <1>7, <1>8 DEF Sends

-----------------------------------------------------------------------------
(* The calls that send                                                     *)

(* A callback sends for its call with the arguments it has.                *)
Alike(sent, call) ==
  /\ sent.name = call.name /\ sent.kind = call.kind /\ sent.from = call.from
  /\ sent.component = call.component /\ sent.to = call.to /\ sent.requeue = call.requeue

(* What p sends for the call, or has to do itself.                         *)
Posts(R, p, call) ==
  \E A, B : Sends(R, p, call, A, B) /\ Adds(outgoing, outgoing', p, A) /\ Adds(tasks, tasks', p, B)

LEMMA NothingPosted ==
  ASSUME NEW R, Settled(R), NEW call \in Call, NEW p, UNCHANGED <<outgoing, tasks>>,
         \A q, j : ~Owes(R, call, q, j)
  PROVE  Posts(R, p, call)
<1>1. Sends(R, p, call, EmptyBag, EmptyBag)
  BY OwesNothing, NothingIsSent
<1>2. BagToSet(EmptyBag) = {}
  BY EmptyIsOnce
<1> QED
  BY <1>1, <1>2 DEF Posts, Adds

LEMMA OnePosted ==
  ASSUME NEW R, NEW call, NEW p, NEW m,
         \/ /\ Sends(R, p, call, SetToBag({m}), EmptyBag)
            /\ outgoing' = [outgoing EXCEPT ![p] = @ (+) SetToBag({m})] /\ UNCHANGED tasks
         \/ /\ Sends(R, p, call, EmptyBag, SetToBag({m}))
            /\ tasks' = [tasks EXCEPT ![p] = @ (+) SetToBag({m})] /\ UNCHANGED outgoing
  PROVE  Posts(R, p, call)
<1>1. BagToSet(EmptyBag) = {}
  BY EmptyIsOnce
<1>2. PICK B : B = SetToBag({m})
  OBVIOUS
<1>3. PICK Z : Z = EmptyBag
  OBVIOUS
<1>4. CASE /\ Sends(R, p, call, B, Z)
           /\ outgoing' = [outgoing EXCEPT ![p] = @ (+) B] /\ UNCHANGED tasks
  BY <1>1, <1>3, <1>4 DEF Posts, Adds
<1>5. CASE /\ Sends(R, p, call, Z, B)
           /\ tasks' = [tasks EXCEPT ![p] = @ (+) B] /\ UNCHANGED outgoing
  BY <1>1, <1>3, <1>5 DEF Posts, Adds
<1> QED
  BY <1>2, <1>3, <1>4, <1>5

LEMMA SendDataIs ==
  ASSUME NEW p, NEW dest, NEW m, SendData(p, dest, m)
  PROVE  /\ dest = p => tasks' = [tasks EXCEPT ![p] = @ (+) SetToBag({m})] /\ UNCHANGED outgoing
         /\ dest # p => outgoing' = [outgoing EXCEPT ![p] = @ (+) SetToBag({m})] /\ UNCHANGED tasks
BY DEF SendData

(* One target or none                                                      *)
LEMMA TargetIs ==
  ASSUME NEW R, Settled(R), NEW call \in Call, call.kind \in {"invoke", "result"},
         NEW sent, Alike(sent, call)
  PROVE  /\ There(call.from, sent) =>
              \E i \in DOMAIN R :
                /\ R[i].name = call.component /\ Place(call.from, call.component) = i
                /\ Target(call.from, sent).process \in Process
                /\ \A q, j : Owes(R, call, q, j) <=>
                     /\ q = Target(call.from, sent).process
                     /\ j = Target(call.from, sent).index
         /\ ~There(call.from, sent) => \A q, j : ~Owes(R, call, q, j)
<1> DEFINE p == call.from
           c == call.component
           objects == HolderOf(p, c).objects
           target == Target(p, sent)
<1>1. p \in Process /\ ~ToAll(call)
  BY CallFields DEF ToAll
<1>2. PICK t \in call.to : call.to = {t} /\ (c \in Collections \/ t \in Process)
  BY CallAssumption
<1>3. There(p, sent) <=> Knows(p, c) /\ (c \in Collections => t \in DOMAIN objects)
  BY <1>2 DEF There, Alike
<1>4. /\ c \in Collections => target.process = objects[t] /\ target.index = t
      /\ c \notin Collections => target.process = t /\ target.index = NoIndex
  <2>1. PICK to : to = CHOOSE t2 \in call.to : TRUE
    OBVIOUS
  <2>2. target = IF c \in Collections
                 THEN [process |-> objects[to], index |-> to]
                 ELSE [process |-> to, index |-> NoIndex]
    BY <2>1, Zenon DEF Target, Alike
  <2>3. to = t
    BY <1>2, <2>1
  <2> HIDE DEF target, objects, c
  <2> QED
    BY <2>2, <2>3
<1>5. /\ Knows(p, c) <=> \E i \in DOMAIN R : R[i].name = c
      /\ \A i \in DOMAIN R : R[i].name = c => Place(p, c) = i /\ objects = R[i].objects
  BY <1>1, SettledPlaces
<1> HIDE DEF p, c, objects, target
<1>6. \A i \in DOMAIN R : R[i].name = c =>
        \A q, j : Owes(R, call, q, j) <=>
           IF c \in Collections
           THEN j \in DOMAIN objects /\ objects[j] = q /\ j = t
           ELSE j = NoIndex /\ q \in Process /\ q = t
  <2>1. ASSUME NEW i \in DOMAIN R, R[i].name = c, NEW q, NEW j
        PROVE  Owes(R, call, q, j) <=>
                 IF c \in Collections
                 THEN j \in DOMAIN objects /\ objects[j] = q /\ j = t
                 ELSE j = NoIndex /\ q \in Process /\ q = t
    <3>1. Owes(R, call, q, j) <=>
            IF c \in Collections
            THEN /\ j \in DOMAIN R[i].objects /\ R[i].objects[j] = q
                 /\ ToAll(call) \/ j \in call.to
            ELSE j = NoIndex /\ q \in Process /\ (ToAll(call) \/ q \in call.to)
      BY <2>1, OwesByPlace DEF c
    <3>2. objects = R[i].objects
      BY <1>5, <2>1
    <3>3. \A x : x \in call.to <=> x = t
      BY <1>2
    <3> QED
      BY <1>1, <3>1, <3>2, <3>3
  <2> QED
    BY <2>1
<1>7. ASSUME There(p, sent)
      PROVE  \E i \in DOMAIN R :
                /\ R[i].name = c /\ Place(p, c) = i /\ target.process \in Process
                /\ \A q, j : Owes(R, call, q, j) <=> q = target.process /\ j = target.index
  <2>1. PICK i \in DOMAIN R : R[i].name = c
    BY <1>3, <1>5, <1>7
  <2>2. Place(p, c) = i
    BY <1>5, <2>1
  <2>3. \A q, j : Owes(R, call, q, j) <=> q = target.process /\ j = target.index
    BY <1>2, <1>3, <1>4, <1>6, <1>7, <2>1
  <2>4. target.process \in Process
    <3>1. Owes(R, call, target.process, target.index)
      BY <2>3
    <3> QED
      BY <3>1, OwedIsSomewhere
  <2> QED
    BY <2>1, <2>2, <2>3, <2>4
<1>8. ASSUME NEW q, NEW j, Owes(R, call, q, j)
      PROVE  There(p, sent)
  <2>1. PICK i \in DOMAIN R : R[i].name = c
    BY <1>8 DEF Owes, c
  <2> QED
    BY <1>3, <1>5, <1>6, <1>8, <2>1
<1> QED
  BY <1>7, <1>8 DEF p, c, target

LEMMA SendInvokePosts ==
  ASSUME NEW R, Settled(R), NEW call \in Call, call.kind \in {"invoke", "result"},
         NEW sent, Alike(sent, call), NEW form, NEW block, SendInvoke(sent, form, block)
  PROVE  Posts(R, call.from, call)
<1> DEFINE p == call.from
           c == call.component
           target == Target(p, sent)
<1>1. p \in Process
  BY CallFields
<1>2. IF There(p, sent)
      THEN SendData(p, target.process,
             Message("Invoke", sent, Place(p, c), target.process, target.index, {}, form, block))
      ELSE UNCHANGED <<tasks, outgoing>>
  BY Zenon DEF SendInvoke, Alike
<1>3. CASE There(p, sent)
  <2>1. PICK i \in DOMAIN R :
          /\ R[i].name = c /\ Place(p, c) = i /\ target.process \in Process
          /\ \A q, j : Owes(R, call, q, j) <=> q = target.process /\ j = target.index
    BY <1>3, TargetIs
  <2>2. PICK m : m = Message("Invoke", sent, i, target.process, target.index, {}, form, block)
    OBVIOUS
  <2>3. SendData(p, target.process, m)
    BY <1>2, <1>3, <2>1, <2>2
  <2>4. /\ m.type = "Invoke" /\ m.call = sent.name /\ m.object = i /\ m.dest = target.process
        /\ m.index = target.index /\ m.again = sent.requeue
    BY <2>2, NewMessageGoes
  <2>5. Bears(m, call, i)
    BY <2>4 DEF Bears, Alike
  <2> HIDE DEF p, c, target
  <2>6. /\ Sends(R, p, call, SetToBag({m}), EmptyBag)
        /\ m.dest = p => Sends(R, p, call, EmptyBag, SetToBag({m}))
    BY <1>1, <2>1, <2>4, <2>5, InvokeSends DEF c
  <2>7. /\ m.dest = p => tasks' = [tasks EXCEPT ![p] = @ (+) SetToBag({m})] /\ UNCHANGED outgoing
        /\ m.dest # p => outgoing' = [outgoing EXCEPT ![p] = @ (+) SetToBag({m})] /\ UNCHANGED tasks
    BY <2>3, <2>4, SendDataIs
  <2>8. Posts(R, p, call)
    BY <2>6, <2>7, OnePosted
  <2> QED
    BY <2>8 DEF p
<1>4. CASE ~There(p, sent)
  <2>1. UNCHANGED <<outgoing, tasks>>
    BY <1>2, <1>4
  <2>2. \A q, j : ~Owes(R, call, q, j)
    BY <1>4, TargetIs
  <2> QED
    BY <2>1, <2>2, NothingPosted
<1> QED
  BY <1>3, <1>4

LEMMA SendBroadcastPosts ==
  ASSUME NEW R, Settled(R), NEW call \in Call, ToAll(call), Knows(call.from, call.component),
         NEW sent, Alike(sent, call), NEW block, SendBroadcast(sent, block)
  PROVE  Posts(R, call.from, call)
<1> DEFINE p == call.from
           c == call.component
           form == Form(sent.arguments)
<1>1. p \in Process /\ p # None
  BY CallFields, ProcessesAre
<1>2. PICK i \in DOMAIN R : R[i].name = c /\ Place(p, c) = i
  BY <1>1, SettledPlaces
<1>3. PICK m : m = Message("Broadcast", sent, i, p, NoIndex, {}, form, block)
  OBVIOUS
<1>4. SendData(p, None, m)
  <2>1. SendData(sent.from, None, Message("Broadcast", sent, Place(sent.from, sent.component),
                   sent.from, NoIndex, {}, Form(sent.arguments), block))
    BY DEF SendBroadcast
  <2>2. sent.from = p /\ sent.component = c
    BY DEF Alike
  <2> QED
    BY <1>2, <1>3, <2>1, <2>2
<1>5. /\ m.type = "Broadcast" /\ m.call = sent.name /\ m.object = i /\ m.dest = p
      /\ m.again = sent.requeue /\ m.source = sent.from
  BY <1>3, NewMessageGoes
<1>6. Bears(m, call, i) /\ m.source = p
  BY <1>5 DEF Bears, Alike
<1> HIDE DEF p, c, form
<1>7. Sends(R, p, call, SetToBag({m}), EmptyBag)
  BY <1>1, <1>2, <1>5, <1>6, BroadcastSends DEF c
<1>8. outgoing' = [outgoing EXCEPT ![p] = @ (+) SetToBag({m})] /\ UNCHANGED tasks
  BY <1>1, <1>4 DEF SendData
<1>9. Posts(R, p, call)
  BY <1>7, <1>8, OnePosted
<1> QED
  BY <1>9 DEF p

LEMMA ChosenAreOwed ==
  ASSUME NEW R, Settled(R), NEW call \in Call, NEW sent, Alike(sent, call),
         NEW i \in DOMAIN R, R[i].name = call.component, NEW q
  PROVE  Chosen(call.from, sent, q) = {e \in DOMAIN R[i].objects \cap call.to : R[i].objects[e] = q}
<1>1. HolderOf(call.from, call.component).objects = R[i].objects
  BY CallFields, SettledPlaces
<1> QED
  BY <1>1 DEF Chosen, Alike

LEMMA BroadcastToPosts ==
  ASSUME NEW R, Settled(R), NEW call \in Call, NEW sent, Alike(sent, call), BroadcastTo(sent)
  PROVE  Posts(R, call.from, call)
<1> DEFINE p == sent.from
           c == sent.component
           form == Form(sent.arguments)
           size == Size(sent.arguments, form)
           object == Place(p, c)
           For(q) ==
             Message("BroadcastTo", sent, object, q, NoIndex, Chosen(p, sent, q), form,
               CreateBroadcastTo(Cardinality(Chosen(p, sent, q)), size, Alignment[sent.arguments]))
           Here(e) ==
             Message("Invoke", sent, object, p, e, {}, form,
               BlockFor(sent.arguments, form))
           others == {q \in Process \ {p} : Chosen(p, sent, q) # {}}
           F == {For(q) : q \in others}
           H == {Here(e) : e \in Chosen(p, sent, p)}
<1>1. p \in Process
  BY CallFields DEF Alike
<1>2. call.from = p /\ call.component = c /\ sent.kind = call.kind
  BY DEF Alike
<1>3. call.kind = "broadcast_to"
  BY <1>2 DEF BroadcastTo
<1>4. IF Knows(p, c)
      THEN /\ outgoing' = [outgoing EXCEPT ![p] = @ (+) SetToBag(F)]
           /\ tasks' = [tasks EXCEPT ![p] = @ (+) SetToBag(H)]
      ELSE UNCHANGED <<tasks, outgoing>>
  BY Zenon DEF BroadcastTo
<1>5. CASE Knows(p, c)
  <2>1. PICK i \in DOMAIN R : R[i].name = c /\ object = i
    BY <1>1, <1>5, SettledPlaces
  <2>2. PICK chosen : chosen = [q \in Process |-> Chosen(p, sent, q)]
    OBVIOUS
  <2>3. \A q \in Process : chosen[q] = {e \in DOMAIN R[i].objects \cap call.to : R[i].objects[e] = q}
    <3>1. ASSUME NEW q \in Process
          PROVE  chosen[q] = {e \in DOMAIN R[i].objects \cap call.to : R[i].objects[e] = q}
      <4>1. chosen[q] = Chosen(p, sent, q)
        BY <2>2
      <4>2. Chosen(p, sent, q) = {e \in DOMAIN R[i].objects \cap call.to : R[i].objects[e] = q}
        BY <1>2, <2>1, ChosenAreOwed
      <4> QED
        BY <4>1, <4>2
    <3> QED
      BY <3>1
  <2>4. \A q : /\ For(q).type = "BroadcastTo" /\ For(q).dest = q
               /\ For(q).ids = Chosen(p, sent, q) /\ Bears(For(q), call, i)
    <3>1. ASSUME NEW q
          PROVE  /\ For(q).type = "BroadcastTo" /\ For(q).dest = q
                 /\ For(q).ids = Chosen(p, sent, q) /\ Bears(For(q), call, i)
      <4>1. /\ For(q).type = "BroadcastTo" /\ For(q).dest = q
            /\ For(q).ids = Chosen(p, sent, q) /\ For(q).call = sent.name
            /\ For(q).object = object /\ For(q).again = sent.requeue
        BY NewMessageGoes
      <4> QED
        BY <2>1, <4>1 DEF Bears, Alike
    <3> QED
      BY <3>1
  <2>5. \A e : /\ Here(e).type = "Invoke" /\ Here(e).dest = p
               /\ Here(e).index = e /\ Bears(Here(e), call, i)
    <3>1. ASSUME NEW e
          PROVE  /\ Here(e).type = "Invoke" /\ Here(e).dest = p
                 /\ Here(e).index = e /\ Bears(Here(e), call, i)
      <4>1. /\ Here(e).type = "Invoke" /\ Here(e).dest = p
            /\ Here(e).index = e /\ Here(e).call = sent.name
            /\ Here(e).object = object /\ Here(e).again = sent.requeue
        BY NewMessageGoes
      <4> QED
        BY <2>1, <4>1 DEF Bears, Alike
    <3> QED
      BY <3>1
  <2>6. /\ \A m \in F : \E q \in Process : q # p /\ Chosen(p, sent, q) # {} /\ m = For(q)
        /\ \A q \in Process : q # p /\ Chosen(p, sent, q) # {} => For(q) \in F
    OBVIOUS
  <2>7. /\ \A t \in H : \E e \in Chosen(p, sent, p) : t = Here(e)
        /\ \A e \in Chosen(p, sent, p) : Here(e) \in H
    OBVIOUS
  <2>8. \A q \in Process : chosen[q] = Chosen(p, sent, q)
    BY <2>2
  <2> HIDE DEF For, Here, F, H, others, object, p, c
  <2>9. Splits(F, H, chosen, p)
    <3>1. \A m \in F : /\ m.type = "BroadcastTo" /\ m.dest \in Process /\ m.dest # p
                       /\ m.ids = chosen[m.dest]
      BY <2>4, <2>6, <2>8
    <3>2. \A m, n \in F : m.dest = n.dest => m = n
      BY <2>4, <2>6
    <3>3. \A q \in Process : q # p /\ chosen[q] # {} => \E m \in F : m.dest = q
      BY <2>4, <2>6, <2>8
    <3>4. \A t \in H : t.type = "Invoke" /\ t.dest = p /\ t.index \in chosen[p]
      BY <1>1, <2>5, <2>7, <2>8
    <3>5. \A t, u \in H : t.index = u.index => t = u
      BY <2>5, <2>7
    <3>6. \A e \in chosen[p] : \E t \in H : t.index = e
      BY <1>1, <2>5, <2>7, <2>8
    <3> QED
      BY <3>1, <3>2, <3>3, <3>4, <3>5, <3>6 DEF Splits
  <2>10. \A m \in F \cup H : Bears(m, call, i)
    BY <2>4, <2>5, <2>6, <2>7
  <2>11. Sends(R, p, call, SetToBag(F), SetToBag(H))
    BY <1>1, <1>2, <1>3, <2>1, <2>3, <2>9, <2>10, BroadcastToSends
  <2>12. /\ outgoing' = [outgoing EXCEPT ![p] = @ (+) SetToBag(F)]
         /\ tasks' = [tasks EXCEPT ![p] = @ (+) SetToBag(H)]
    BY <1>4, <1>5
  <2>13. Posts(R, p, call)
    BY <2>11, <2>12 DEF Posts, Adds
  <2> QED
    BY <1>2, <2>13
<1>6. CASE ~Knows(p, c)
  <2>1. UNCHANGED <<outgoing, tasks>>
    BY <1>4, <1>6
  <2>2. \A i \in DOMAIN R : R[i].name # c
    BY <1>1, <1>6, SettledPlaces
  <2>3. \A q, j : ~Owes(R, call, q, j)
    BY <1>2, <2>2 DEF Owes
  <2> QED
    BY <2>1, <2>3, NothingPosted
<1> QED
  BY <1>5, <1>6

(* Whatever the call, and whoever makes it.                                *)
LEMMA CarryPosts ==
  ASSUME NEW R, Settled(R), NEW call \in Call, NEW sent, Alike(sent, call), Carry(sent)
  PROVE  Posts(R, call.from, call) /\ UNCHANGED <<channel, ran>>
<1>1. UNCHANGED <<channel, ran>>
  BY DEF Carry
<1>2. CASE Invoke(sent)
  <2>1. call.kind \in {"invoke", "result"}
    BY <1>2 DEF Invoke, Alike
  <2>2. PICK form, block : SendInvoke(sent, form, block)
    BY <1>2, Zenon DEF Invoke
  <2> QED
    BY <1>1, <2>1, <2>2, SendInvokePosts
<1>3. CASE Broadcast(sent)
  <2>1. ToAll(call) /\ Knows(call.from, call.component)
    BY <1>3 DEF Broadcast, Alike, ToAll
  <2>2. PICK block : SendBroadcast(sent, block)
    BY <1>3 DEF Broadcast
  <2> QED
    BY <1>1, <2>1, <2>2, SendBroadcastPosts
<1>4. CASE BroadcastTo(sent)
  BY <1>1, <1>4, BroadcastToPosts
<1>5. CASE Finish(sent)
  <2>1. Knows(call.from, call.component)
    BY <1>5 DEF Finish, Alike
  <2>2. \/ call.kind = "result" /\ \E form, block : SendInvoke(sent, form, block)
        \/ call.kind = "result for all" /\ \E block : SendBroadcast(sent, block)
    BY <1>5, Zenon DEF Finish, Alike
  <2>3. CASE call.kind = "result" /\ \E form, block : SendInvoke(sent, form, block)
    <3>1. PICK form, block : SendInvoke(sent, form, block)
      BY <2>3
    <3>2. call.kind \in {"invoke", "result"}
      BY <2>3
    <3> QED
      BY <1>1, <3>1, <3>2, SendInvokePosts
  <2>4. CASE call.kind = "result for all" /\ \E block : SendBroadcast(sent, block)
    <3>1. PICK block : SendBroadcast(sent, block)
      BY <2>4
    <3>2. ToAll(call)
      BY <2>4 DEF ToAll
    <3> QED
      BY <1>1, <2>1, <3>1, <3>2, SendBroadcastPosts
  <2> QED
    BY <2>2, <2>3, <2>4
<1> QED
  BY <1>2, <1>3, <1>4, <1>5 DEF Carry

LEMMA CarryIsKept ==
  ASSUME NEW R, Settled(R), Kept(R, outgoing, channel, arrived, tasks, ran, made),
         Queues(outgoing), Queues(tasks), made \subseteq Call,
         NEW call \in Call \ made, NEW sent, Alike(sent, call), Carry(sent),
         made' = made \cup {call}, UNCHANGED arrived
  PROVE  Kept(R, outgoing', channel', arrived', tasks', ran', made')
<1>1. \A other \in made : other.name # call.name
  BY CallAssumption
<1>2. Posts(R, call.from, call) /\ UNCHANGED <<channel, ran>>
  BY CarryPosts
<1>3. call.from \in Process
  BY CallFields
<1>4. PICK A, B : /\ Sends(R, call.from, call, A, B)
                  /\ Adds(outgoing, outgoing', call.from, A) /\ Adds(tasks, tasks', call.from, B)
  BY <1>2 DEF Posts
<1>5. /\ AllOnce(A) /\ AllOnce(B)
      /\ \A m \in BagToSet(A) : Placed(R, m, {call}) /\ Directed(m, call.from)
      /\ \A m \in BagToSet(B) : Placed(R, m, {call})
      /\ Shares(QueuedOn(R, call.from, BagToSet(A)) \cup TasksOn(call.from, BagToSet(B)),
                call, DueOf(R)[call])
  BY <1>4 DEF Sends
<1>6. \A out2, queues2 :
        Adds(outgoing, out2, call.from, A) /\ Adds(tasks, queues2, call.from, B) =>
          Kept(R, out2, channel, arrived, queues2, ran, made \cup {call})
  BY <1>1, <1>3, <1>5, SendingIsKept
<1>7. Kept(R, outgoing', channel, arrived, tasks', ran, made \cup {call})
  BY <1>4, <1>6
<1> QED
  BY <1>2, <1>7

-----------------------------------------------------------------------------
(* What is placed stays so                                                 *)

LEMMA PlacedMoreTasks ==
  ASSUME NEW R, NEW calls, NEW queues, Queues(queues), PlacedTasks(R, queues, calls),
         NEW p \in Process, NEW B, \A m \in BagToSet(B) : Placed(R, m, calls)
  PROVE  PlacedTasks(R, [queues EXCEPT ![p] = @ (+) B], calls)
<1> DEFINE new == [queues EXCEPT ![p] = @ (+) B]
<1>1. \A q \in Process : \A m \in BagToSet(new[q]) :
        m \in BagToSet(queues[q]) \/ (q = p /\ m \in BagToSet(B))
  <2>1. Adds(queues, new, p, B)
    BY DEF Adds
  <2> HIDE DEF new
  <2> QED
    BY <2>1, AddedIs
<1> HIDE DEF new
<1>2. PlacedTasks(R, new, calls)
  BY <1>1 DEF PlacedTasks
<1> QED
  BY <1>2 DEF new

LEMMA PlacedFewer ==
  ASSUME NEW R, NEW calls, NEW out, Queues(out), OnceQueues(out), PlacedOut(R, out, calls),
         NEW p \in Process, NEW S
  PROVE  PlacedOut(R, [out EXCEPT ![p] = @ (-) SetToBag(S)], calls)
<1>1. BagToSet(out[p] (-) SetToBag(S)) \subseteq BagToSet(out[p])
  BY FewerOnce DEF OnceQueues
<1>2. \A q \in Process : [out EXCEPT ![p] = @ (-) SetToBag(S)][q] =
                           IF q = p THEN out[p] (-) SetToBag(S) ELSE out[q]
  BY DEF Queues
<1> QED
  BY <1>1, <1>2 DEF PlacedOut

LEMMA PlacedAppend ==
  ASSUME NEW R, NEW calls, NEW ch, Ways(ch), PlacedWays(R, ch, calls),
         NEW p \in Process, NEW q \in Process, NEW n, Placed(R, n, calls)
  PROVE  PlacedWays(R, [ch EXCEPT ![p][q] = Append(@, n)], calls)
<1> DEFINE new == [ch EXCEPT ![p][q] = Append(@, n)]
<1>1. \A a, b \in Process : new[a][b] = IF a = p /\ b = q THEN Append(ch[a][b], n) ELSE ch[a][b]
  BY DEF Ways
<1>2. ToSet(Append(ch[p][q], n)) \subseteq ToSet(ch[p][q]) \cup {n}
  BY AppendIsSequence DEF Ways
<1> HIDE DEF new
<1>3. PlacedWays(R, new, calls)
  BY <1>1, <1>2 DEF PlacedWays
<1> QED
  BY <1>3 DEF new

LEMMA PlacedTail ==
  ASSUME NEW R, NEW calls, NEW ch, Ways(ch), PlacedWays(R, ch, calls),
         NEW p \in Process, NEW q \in Process, ch[p][q] # <<>>
  PROVE  /\ PlacedWays(R, [ch EXCEPT ![p][q] = Tail(@)], calls)
         /\ Placed(R, Head(ch[p][q]), calls)
<1> DEFINE new == [ch EXCEPT ![p][q] = Tail(@)]
<1>1. \A a, b \in Process : new[a][b] = IF a = p /\ b = q THEN Tail(ch[a][b]) ELSE ch[a][b]
  BY DEF Ways
<1>2. ToSet(Tail(ch[p][q])) \subseteq ToSet(ch[p][q]) /\ Head(ch[p][q]) \in ToSet(ch[p][q])
  BY TailIsSequence DEF Ways
<1> HIDE DEF new
<1>3. PlacedWays(R, new, calls)
  BY <1>1, <1>2 DEF PlacedWays
<1> QED
  BY <1>2, <1>3 DEF new, PlacedWays

LEMMA PlacedDown ==
  ASSUME NEW R, NEW calls, NEW ch, Ways(ch), PlacedWays(R, ch, calls), NEW p \in Process,
         NEW ms, IsSequence(ms), \A m \in ToSet(ms) : IsMessage(m) /\ Placed(R, m, calls)
  PROVE  PlacedWays(R, ToChildren(ch, p, ms), calls)
<1> DEFINE new == ToChildren(ch, p, ms)
           copies(q) == [i \in DOMAIN ms |-> Redirected(CopyOf(ms[i]), q)]
<1>1. \A a, b \in Process : new[a][b] = IF a = p /\ b \in Children(p) THEN ch[a][b] \o copies(b) ELSE ch[a][b]
  BY DEF Ways, ToChildren
<1>2. ASSUME NEW b
      PROVE  IsSequence(copies(b)) /\ \A n \in ToSet(copies(b)) : Placed(R, n, calls)
  <2>1. IsSequence(copies(b))
    <3>1. DOMAIN copies(b) = DOMAIN ms /\ copies(b) = [i \in DOMAIN ms |-> copies(b)[i]]
      OBVIOUS
    <3> HIDE DEF copies
    <3> QED
      BY <3>1, LikeASequence
  <2>2. ASSUME NEW n \in ToSet(copies(b))
        PROVE  Placed(R, n, calls)
    <3>1. PICK i \in DOMAIN ms : n = Redirected(CopyOf(ms[i]), b)
      BY DEF ToSet
    <3>2. IsMessage(ms[i]) /\ Placed(R, ms[i], calls)
      BY DEF ToSet
    <3>3. Goes(CopyOf(ms[i]), ms[i]) /\ IsMessage(CopyOf(ms[i]))
      BY <3>2, MovingKeeps, CopyOfFields
    <3>4. Goes(Redirected(CopyOf(ms[i]), b), CopyOf(ms[i]))
      BY <3>3, MovingKeeps
    <3>5. Placed(R, CopyOf(ms[i]), calls)
      BY <3>2, <3>3, PlacedAsItGoes
    <3> QED
      BY <3>1, <3>4, <3>5, PlacedAsItGoes
  <2> QED
    BY <2>1, <2>2
<1>3. ASSUME NEW a \in Process, NEW b \in Process, NEW n \in ToSet(new[a][b])
      PROVE  Placed(R, n, calls)
  <2>1. CASE a = p /\ b \in Children(p)
    <3>1. IsSequence(copies(b)) /\ \A k \in ToSet(copies(b)) : Placed(R, k, calls)
      BY <1>2
    <3>2. new[a][b] = ch[a][b] \o copies(b)
      BY <1>1, <2>1
    <3>3. IsSequence(ch[a][b]) /\ \A k \in ToSet(ch[a][b]) : Placed(R, k, calls)
      BY DEF Ways, PlacedWays
    <3> HIDE DEF new, copies
    <3>4. ToSet(ch[a][b] \o copies(b)) \subseteq ToSet(ch[a][b]) \cup ToSet(copies(b))
      BY <3>1, <3>3, ConcatIsSequence
    <3> QED
      BY <3>1, <3>2, <3>3, <3>4
  <2>2. CASE ~(a = p /\ b \in Children(p))
    <3>1. new[a][b] = ch[a][b]
      BY <1>1, <2>2
    <3> HIDE DEF new
    <3> QED
      BY <3>1 DEF PlacedWays
  <2> QED
    BY <2>1, <2>2
<1> HIDE DEF new
<1>4. PlacedWays(R, new, calls)
  BY <1>3 DEF PlacedWays
<1> QED
  BY <1>4 DEF new

LEMMA HandedOnIsKept ==
  ASSUME NEW R, NEW out, NEW ch, NEW arr, NEW queues, NEW runs, NEW calls,
         Kept(R, out, ch, arr, queues, runs, calls),
         NEW p \in Process, NEW ms, NEW S, NEW T, NEW down, HandsOn(R, p, ms, S, T, down),
         NEW GW, NEW GT, NEW GH, Tagged(GW, "queue"), Tagged(GT, "way"), Tagged(GH, "hand"),
         NEW g, Bring(GW \cup GT \cup GH, g, R, p, ms),
         GW \cup GT \cup GH \subseteq CarriersOf(R, out, ch, arr, queues, runs),
         NEW out2, NEW ch1, NEW arr2, Shape(out, ch1, queues), OnceQueues(out2), OnceWays(ch1),
         Changes(Waiting(R, out), Waiting(R, out2), GW, {}),
         Changes(Travelling(R, ch), Travelling(R, ch1), GT, {}),
         Changes(TakenIn(R, arr), TakenIn(R, arr2), GH, {}),
         \A m \in ToSet(ms) : Placed(R, m, calls),
         \A t \in BagToSet(T) : Placed(R, t, calls),
         PlacedOut(R, out2, calls), PlacedWays(R, ch1, calls), PlacedHere(R, arr2, calls)
  PROVE  Kept(R, out2, ToChildren(ch1, p, down), arr2, [queues EXCEPT ![p] = @ (+) T], runs, calls)
<1>1. Carried(R, out, ch, arr, queues, runs, DueOf(R), calls)
  BY DEF Kept
<1>2. Carried(R, out2, ToChildren(ch1, p, down), arr2, [queues EXCEPT ![p] = @ (+) T],
              runs, DueOf(R), calls)
  BY <1>1, HandedOnIsCarried
<1>3. PlacedTasks(R, [queues EXCEPT ![p] = @ (+) T], calls)
  BY PlacedMoreTasks DEF Kept, Shape
<1>4. PlacedWays(R, ToChildren(ch1, p, down), calls)
  <2>1. IsSequence(down) /\ \A m \in ToSet(down) : IsMessage(m) /\ Placed(R, m, calls)
    BY DEF HandsOn
  <2> QED
    BY <2>1, PlacedDown DEF Shape
<1> QED
  BY <1>2, <1>3, <1>4 DEF Kept

-----------------------------------------------------------------------------
(* A message is sent                                                       *)

LEMMA OneSequence ==
  ASSUME NEW m
  PROVE  IsSequence(<<m>>) /\ NoTwice(<<m>>) /\ ToSet(<<m>>) = {m}
<1>1. ToSet(<<m>>) = {m}
  BY DEF ToSet
<1>2. <<m>> \in Seq({m})
  OBVIOUS
<1>3. NoTwice(<<m>>)
  BY DEF NoTwice
<1> QED
  BY <1>1, <1>2, <1>3 DEF IsSequence

(* It goes to another process.                                             *)
LEMMA SentIsKept ==
  ASSUME NEW R, NEW out, NEW ch, NEW arr, NEW queues, NEW runs, NEW calls,
         Kept(R, out, ch, arr, queues, runs, calls), Shape(out, ch, queues),
         NEW p \in Process, NEW m \in BagToSet(out[p]), Goal(m) \in Process,
         NEW n, Goes(n, m)
  PROVE  Kept(R, [out EXCEPT ![p] = @ (-) SetToBag({m})],
              [ch EXCEPT ![p][Goal(m)] = Append(@, n)], arr, queues, runs, calls)
<1>1. Carried(R, out, ch, arr, queues, runs, DueOf(R), calls)
  BY DEF Kept
<1>2. Carried(R, [out EXCEPT ![p] = @ (-) SetToBag({m})],
              [ch EXCEPT ![p][Goal(m)] = Append(@, n)], arr, queues, runs, DueOf(R), calls)
  BY <1>1, SentIsCarried
<1>3. OnceQueues(out)
  BY <1>1 DEF Carried, Once
<1>4. PlacedOut(R, [out EXCEPT ![p] = @ (-) SetToBag({m})], calls)
  BY <1>3, PlacedFewer DEF Kept, Shape
<1>5. Placed(R, m, calls)
  BY DEF Kept, PlacedOut
<1>6. Placed(R, n, calls)
  BY <1>5, PlacedAsItGoes
<1>7. PlacedWays(R, [ch EXCEPT ![p][Goal(m)] = Append(@, n)], calls)
  BY <1>6, PlacedAppend DEF Kept, Shape
<1> QED
  BY <1>2, <1>4, <1>7 DEF Kept

(* A broadcast starts at the root.                                         *)
LEMMA StartedIsKept ==
  ASSUME NEW R, Settled(R), NEW out, NEW ch, NEW arr, NEW queues, NEW runs, NEW calls,
         Kept(R, out, ch, arr, queues, runs, calls), Shape(out, ch, queues),
         Root \in Process,
         NEW m \in BagToSet(out[Root]), IsMessage(m), m.type = "Broadcast"
  PROVE  Kept(R, [out EXCEPT ![Root] = @ (-) SetToBag({m})], ToChildren(ch, Root, <<m>>), arr,
              [queues EXCEPT ![Root] = @ (+) SetToBag(LocalTasks(Root, m))], runs, calls)
<1>1. Carried(R, out, ch, arr, queues, runs, DueOf(R), calls)
  BY DEF Kept
<1>2. Placed(R, m, calls)
  BY DEF Kept, PlacedOut
<1>3. ServedBy(Root, m) = LocalTasks(Root, m)
  BY DEF ServedBy
<1>4. /\ Serves(LocalTasks(Root, m), R, m, Root)
      /\ \A t \in LocalTasks(Root, m) : Placed(R, t, calls)
  BY <1>2, <1>3, MessageIsServed
<1> DEFINE ms == <<m>>
           S == [n \in {m} |-> LocalTasks(Root, m)]
           T == SetToBag(LocalTasks(Root, m))
           g == [n \in {m} |-> InQueue(R, Root, m)]
           GW == {InQueue(R, Root, m)}
           out2 == [out EXCEPT ![Root] = @ (-) SetToBag({m})]
<1>5. IsSequence(ms) /\ NoTwice(ms) /\ ToSet(ms) = {m}
  BY OneSequence
<1>6. AllOnce(T) /\ BagToSet(T) = LocalTasks(Root, m)
  BY SetIsOnce
<1>7. S[m] = LocalTasks(Root, m) /\ g[m] = InQueue(R, Root, m)
  OBVIOUS
<1>8. OnceQueues(out) /\ OnceWays(ch)
  BY <1>1 DEF Carried, Once
<1>9. OnceQueues(out2) /\ Changes(Waiting(R, out), Waiting(R, out2), GW, {})
  BY <1>8, LessQueuedOnce DEF Shape
<1>10. PlacedOut(R, out2, calls)
  BY <1>8, PlacedFewer DEF Kept, Shape
<1> HIDE DEF ms, S, T, g, out2
<1>11. UNION {S[n] : n \in ToSet(ms)} = LocalTasks(Root, m)
  BY <1>5, <1>7
<1>12. HandsOn(R, Root, ms, S, T, ms)
  <2>1. ToSet(ms) = {n \in ToSet(ms) : n.type = "Broadcast"}
    BY <1>5
  <2> QED
    BY <1>4, <1>5, <1>6, <1>7, <1>11, <2>1 DEF HandsOn
<1>13. GW \in SUBSET Waiting(R, out) /\ Tagged(GW, "queue")
  <2>1. InQueue(R, Root, m) \in Waiting(R, out)
    BY SMT DEF Waiting
  <2> QED
    BY <2>1, PartsAreCarriers DEF Tagged
<1>14. Waiting(R, out) \subseteq CarriersOf(R, out, ch, arr, queues, runs)
  BY PartsAreCarriers
<1>15. Bring(GW, g, R, Root, ms)
  <2>1. g[m].call = m.call /\ g[m].load = MailLoad(R, m, Root)
    BY <1>7 DEF InQueue, Goal
  <2>2. GW = {g[n] : n \in ToSet(ms)}
    BY <1>5, <1>7
  <2> QED
    BY <1>5, <2>1, <2>2 DEF Bring
<1> HIDE DEF GW
<1>16. PICK none : none = {}
  OBVIOUS
<1>17. /\ GW \cup none \cup none = GW /\ Tagged(none, "way") /\ Tagged(none, "hand")
       /\ Changes(Waiting(R, out), Waiting(R, out2), GW, none)
       /\ Changes(Travelling(R, ch), Travelling(R, ch), none, none)
       /\ Changes(TakenIn(R, arr), TakenIn(R, arr), none, none)
  BY <1>9, <1>16, NothingChanges DEF Tagged
<1>18. /\ \A n \in ToSet(ms) : Placed(R, n, calls)
       /\ \A t \in BagToSet(T) : Placed(R, t, calls)
       /\ PlacedWays(R, ch, calls) /\ PlacedHere(R, arr, calls)
  BY <1>2, <1>4, <1>5, <1>6 DEF Kept
<1>19. Bring(GW \cup none \cup none, g, R, Root, ms)
  BY <1>15, <1>17
<1>20. GW \cup none \cup none \subseteq CarriersOf(R, out, ch, arr, queues, runs)
  BY <1>13, <1>14, <1>17
<1>21. Kept(R, out2, ToChildren(ch, Root, ms), arr, [queues EXCEPT ![Root] = @ (+) T], runs, calls)
  BY <1>8, <1>9, <1>10, <1>12, <1>13, <1>16, <1>17, <1>18, <1>19, <1>20, HandedOnIsKept
<1> QED
  BY <1>21 DEF ms, T, out2

LEMMA InitiateSendIsKept ==
  ASSUME NEW R, Settled(R), Kept(R, outgoing, channel, arrived, tasks, ran, made),
         Shape(outgoing, channel, tasks),
         NEW p \in Process, NEW m \in BagToSet(outgoing[p]), IsMessage(m), InitiateSend(p, m)
  PROVE  Kept(R, outgoing', channel', arrived, tasks', ran', made')
<1>1. /\ outgoing' = [outgoing EXCEPT ![p] = @ (-) SetToBag({m})]
      /\ UNCHANGED <<made, ran>>
  BY DEF InitiateSend
<1>2. Directed(m, p)
  BY DEF Kept, PlacedOut
<1>3. Root \in Process
  BY ProcessesAre
<1>4. CASE m.type # "Broadcast"
  <2>1. channel' = [channel EXCEPT ![p][m.dest] = Append(@, Sent(m))] /\ tasks' = tasks
    BY <1>4 DEF InitiateSend, Departed
  <2>2. Goal(m) = m.dest /\ m.dest \in Process
    BY <1>2, <1>4 DEF Goal, Directed
  <2>3. Goes(Sent(m), m)
    BY MovingKeeps
  <2>4. Kept(R, [outgoing EXCEPT ![p] = @ (-) SetToBag({m})],
              [channel EXCEPT ![p][Goal(m)] = Append(@, Sent(m))], arrived, tasks, ran, made)
    BY <2>2, <2>3, SentIsKept
  <2> QED
    BY <1>1, <2>1, <2>2, <2>4
<1>5. CASE m.type = "Broadcast" /\ p # Root
  <2>1. m.dest = p /\ m.source = p
    BY <1>2, <1>5 DEF Directed
  <2>2. PICK d : d = Redirected(m, Root)
    OBVIOUS
  <2>3. IsMessage(d) /\ d.dest = Root /\ Goes(d, m)
    BY <2>2, RedirectedFields, MovingKeeps
  <2>4. Goes(Sent(d), d)
    BY <2>3, MovingKeeps
  <2>5. Goes(Sent(d), m) /\ Goal(m) = Root
    BY <1>5, <2>3, <2>4 DEF Goes, Goal
  <2>6. channel' = [channel EXCEPT ![p][Root] = Append(@, Sent(d))] /\ tasks' = tasks
    BY <1>5, <2>1, <2>2, <2>3 DEF InitiateSend, Departed
  <2>7. Kept(R, [outgoing EXCEPT ![p] = @ (-) SetToBag({m})],
              [channel EXCEPT ![p][Goal(m)] = Append(@, Sent(d))], arrived, tasks, ran, made)
    BY <1>3, <2>5, SentIsKept
  <2> QED
    BY <1>1, <2>5, <2>6, <2>7
<1>6. CASE m.type = "Broadcast" /\ p = Root
  <2>1. /\ channel' = ToChildren(channel, Root, <<m>>)
        /\ tasks' = [tasks EXCEPT ![Root] = @ (+) SetToBag(LocalTasks(Root, m))]
    BY <1>6 DEF InitiateSend
  <2>2. Kept(R, [outgoing EXCEPT ![Root] = @ (-) SetToBag({m})], ToChildren(channel, Root, <<m>>), arrived,
              [tasks EXCEPT ![Root] = @ (+) SetToBag(LocalTasks(Root, m))], ran, made)
    BY <1>6, StartedIsKept
  <2> QED
    BY <1>1, <1>6, <2>1, <2>2
<1> QED
  BY <1>4, <1>5, <1>6

-----------------------------------------------------------------------------
(* Messages that have come in are handed on                                *)

LEMMA InHandOn ==
  ASSUME NEW R, Settled(R), NEW p \in Process, NEW ms, IsSequence(ms), NoTwice(ms), NEW calls,
         \A m \in ToSet(ms) : IsMessage(m) /\ Placed(R, m, calls),
         \A m, n \in ToSet(ms) : m.call = n.call => m = n
  PROVE  /\ HandsOn(R, p, ms, [m \in ToSet(ms) |-> ServedBy(p, m)], TasksFrom(p, ms),
                    Selected(ms, Broadcasts(ms)))
         /\ \A t \in BagToSet(TasksFrom(p, ms)) : Placed(R, t, calls)
<1> DEFINE S == [m \in ToSet(ms) |-> ServedBy(p, m)]
           T == TasksFrom(p, ms)
           down == Selected(ms, Broadcasts(ms))
<1>1. \A m \in ToSet(ms) : /\ Serves(ServedBy(p, m), R, m, p)
                           /\ \A t \in ServedBy(p, m) : Placed(R, t, calls) /\ t.call = m.call
  BY MessageIsServed
<1>2. AllOnce(T) /\ BagToSet(T) = UNION {ServedBy(p, m) : m \in ToSet(ms)}
  <2>1. \A m \in ToSet(ms) : \A t \in ServedBy(p, m) : t.call = m.call
    BY <1>1
  <2> QED
    BY <2>1, TasksFromOnce
<1>3. \A m \in ToSet(ms) : S[m] = ServedBy(p, m)
  OBVIOUS
<1>4. UNION {S[m] : m \in ToSet(ms)} = UNION {ServedBy(p, m) : m \in ToSet(ms)}
  OBVIOUS
<1>5. /\ IsSequence(down) /\ NoTwice(down)
      /\ ToSet(down) = ToSet(ms) \cap Broadcasts(ms)
  BY SelectedOnce, SelectedIsSequence
<1>6. ToSet(down) = {m \in ToSet(ms) : m.type = "Broadcast"}
  BY <1>5 DEF Broadcasts
<1> HIDE DEF S, T, down
<1>7. HandsOn(R, p, ms, S, T, down)
  BY <1>1, <1>2, <1>3, <1>4, <1>5, <1>6 DEF HandsOn
<1>8. \A t \in BagToSet(T) : \E m \in ToSet(ms) : t \in ServedBy(p, m)
  BY <1>2
<1>9. \A t \in BagToSet(T) : Placed(R, t, calls)
  BY <1>1, <1>8
<1> QED
  BY <1>7, <1>9 DEF S, T, down

LEMMA HandOnIsKept ==
  ASSUME NEW R, Settled(R), Kept(R, outgoing, channel, arrived, tasks, ran, made),
         NEW p \in Process, NEW ch1, Shape(outgoing, ch1, tasks), OnceWays(ch1),
         PlacedWays(R, ch1, made),
         NEW ms, IsSequence(ms), NoTwice(ms), HandOn(ch1, p, ms),
         \A m \in ToSet(ms) : IsMessage(m) /\ Placed(R, m, made),
         \A m, n \in ToSet(ms) : m.call = n.call => m = n,
         NEW GT, NEW GH, Tagged(GT, "way"), Tagged(GH, "hand"),
         NEW g, Bring(GT \cup GH, g, R, p, ms),
         GT \cup GH \subseteq CarriersOf(R, outgoing, channel, arrived, tasks, ran),
         NEW arr2, PlacedHere(R, arr2, made),
         Changes(Travelling(R, channel), Travelling(R, ch1), GT, {}),
         Changes(TakenIn(R, arrived), TakenIn(R, arr2), GH, {})
  PROVE  Kept(R, outgoing', channel', arr2, tasks', ran', made')
<1> DEFINE S == [m \in ToSet(ms) |-> ServedBy(p, m)]
           T == TasksFrom(p, ms)
           down == Selected(ms, Broadcasts(ms))
<1>1. HandsOn(R, p, ms, S, T, down) /\ \A t \in BagToSet(T) : Placed(R, t, made)
  BY InHandOn
<1>2. /\ tasks' = [tasks EXCEPT ![p] = @ (+) T] /\ channel' = ToChildren(ch1, p, down)
      /\ UNCHANGED <<made, outgoing, ran>>
  BY DEF HandOn, ForwardedFrom
<1> HIDE DEF S, T, down
<1>3. PICK none : none = {}
  OBVIOUS
<1>4. /\ none \cup GT \cup GH = GT \cup GH /\ Tagged(none, "queue")
      /\ Changes(Waiting(R, outgoing), Waiting(R, outgoing), none, none)
      /\ Changes(Travelling(R, channel), Travelling(R, ch1), GT, none)
      /\ Changes(TakenIn(R, arrived), TakenIn(R, arr2), GH, none)
  BY <1>3, NothingChanges DEF Tagged
<1>5. OnceQueues(outgoing) /\ PlacedOut(R, outgoing, made)
  BY DEF Kept, Carried, Once
<1>6. Bring(none \cup GT \cup GH, g, R, p, ms)
  BY <1>4
<1>7. none \cup GT \cup GH \subseteq CarriersOf(R, outgoing, channel, arrived, tasks, ran)
  BY <1>4
<1>8. \A m \in ToSet(ms) : Placed(R, m, made)
  OBVIOUS
<1>9. Kept(R, outgoing, ToChildren(ch1, p, down), arr2, [tasks EXCEPT ![p] = @ (+) T], ran, made)
  BY <1>1, <1>3, <1>4, <1>5, <1>6, <1>7, <1>8, HandedOnIsKept
<1> QED
  BY <1>2, <1>9

(* One process takes in one message.                                       *)
LEMMA TakingInIsKept ==
  ASSUME NEW R, Settled(R), Kept(R, outgoing, channel, arrived, tasks, ran, made),
         Shape(outgoing, channel, tasks), PlacedHere(R, arrived, made),
         NEW p \in Process, NEW q \in Process, channel[q][p] # <<>>,
         IsMessage(Head(channel[q][p])),
         HandOn([channel EXCEPT ![q][p] = Tail(@)], p, <<Got(Head(channel[q][p]))>>)
  PROVE  Kept(R, outgoing', channel', arrived, tasks', ran', made')
<1> DEFINE h == Head(channel[q][p])
           m == Got(h)
           ms == <<m>>
           ch1 == [channel EXCEPT ![q][p] = Tail(@)]
           GT == {OnTheWay(R, q, p, h)}
           g == [n \in {m} |-> OnTheWay(R, q, p, h)]
<1>1. OnceWays(channel) /\ PlacedWays(R, channel, made) /\ Ways(channel)
  BY DEF Kept, Carried, Once, Shape
<1>2. OnceWays(ch1) /\ Ways(ch1)
  BY <1>1, LessOnTheWayOnce
<1>3. PlacedWays(R, ch1, made) /\ Placed(R, h, made)
  BY <1>1, PlacedTail
<1>4. Changes(Travelling(R, channel), Travelling(R, ch1), GT, {})
  BY <1>1, TravellingLess DEF OnceWays
<1>5. IsMessage(m) /\ Goes(m, h)
  BY MovingKeeps, GotFields
<1>6. Placed(R, m, made)
  BY <1>3, <1>5, PlacedAsItGoes
<1>7. IsSequence(ms) /\ NoTwice(ms) /\ ToSet(ms) = {m}
  <2> HIDE DEF m
  <2> QED
    BY OneSequence
<1>8. g[m] = OnTheWay(R, q, p, h) /\ GT = {g[m]}
  OBVIOUS
<1>9. HandOn(ch1, p, ms)
  OBVIOUS
<1>10. OnTheWay(R, q, p, h) \in Travelling(R, channel)
  <2>1. h \in ToSet(channel[q][p])
    BY <1>1, TailIsSequence DEF Ways
  <2> HIDE DEF h
  <2> QED
    BY <2>1, SMT DEF Travelling
<1>11. g[m].call = m.call /\ g[m].load = MailLoad(R, m, p)
  <2>1. MailLoad(R, m, p) = MailLoad(R, h, p)
    BY <1>5, SameLoad
  <2>2. m.call = h.call
    BY <1>5 DEF Goes
  <2> HIDE DEF g, m, h
  <2> QED
    BY <1>8, <2>1, <2>2 DEF OnTheWay
<1> HIDE DEF h, m, ms, ch1, g, GT
<1>12. Bring(GT, g, R, p, ms)
  <2>1. GT = {g[n] : n \in ToSet(ms)}
    BY <1>7, <1>8
  <2> QED
    BY <1>7, <1>11, <2>1 DEF Bring
<1>13. GT \subseteq Travelling(R, channel) /\ GT = {OnTheWay(R, q, p, h)}
  BY <1>8, <1>10
<1>14. Travelling(R, channel) \subseteq CarriersOf(R, outgoing, channel, arrived, tasks, ran)
  BY PartsAreCarriers
<1>15. Tagged(GT, "way")
  BY <1>13, PartsAreCarriers DEF Tagged
<1>16. PICK none : none = {}
  OBVIOUS
<1>17. /\ GT \cup none = GT /\ Tagged(none, "hand")
       /\ Changes(TakenIn(R, arrived), TakenIn(R, arrived), none, {})
  BY <1>16, NothingChanges DEF Tagged
<1>18. Shape(outgoing, ch1, tasks)
  BY <1>2 DEF Shape
<1>19. Bring(GT \cup none, g, R, p, ms)
  BY <1>12, <1>17
<1>20. GT \cup none \subseteq CarriersOf(R, outgoing, channel, arrived, tasks, ran)
  BY <1>13, <1>14, <1>17
<1>21. /\ \A n \in ToSet(ms) : IsMessage(n) /\ Placed(R, n, made)
       /\ \A n, l \in ToSet(ms) : n.call = l.call => n = l
  BY <1>5, <1>6, <1>7
<1> QED
  BY <1>2, <1>3, <1>4, <1>7, <1>9, <1>15, <1>17, <1>18, <1>19, <1>20, <1>21, HandOnIsKept

(* initiate_receives takes a message off the network.                      *)
LEMMA ReceivedIsKept ==
  ASSUME NEW R, Kept(R, outgoing, channel, arrived, tasks, ran, made),
         Shape(outgoing, channel, tasks),
         NEW p \in Process, Self \in Process, channel[p][Self] # <<>>,
         IsMessage(Head(channel[p][Self]))
  PROVE  Kept(R, outgoing, [channel EXCEPT ![p][Self] = Tail(@)],
              arrived \cup {Got(Head(channel[p][Self]))}, tasks, ran, made)
<1> DEFINE h == Head(channel[p][Self])
           m == Got(h)
           ch1 == [channel EXCEPT ![p][Self] = Tail(@)]
<1>1. Goes(m, h)
  BY MovingKeeps
<1>2. Ways(channel) /\ PlacedWays(R, channel, made) /\ PlacedHere(R, arrived, made)
  BY DEF Shape, Kept
<1>3. PlacedWays(R, ch1, made) /\ Placed(R, h, made)
  BY <1>2, PlacedTail
<1>4. Placed(R, m, made)
  BY <1>1, <1>3, PlacedAsItGoes
<1>5. Carried(R, outgoing, channel, arrived, tasks, ran, DueOf(R), made)
  BY DEF Kept
<1> HIDE DEF m
<1>6. Carried(R, outgoing, ch1, arrived \cup {m}, tasks, ran, DueOf(R), made)
  BY <1>1, <1>5, ReceivedIsCarried
<1>7. PlacedHere(R, arrived \cup {m}, made)
  BY <1>2, <1>4 DEF PlacedHere
<1>8. Kept(R, outgoing, ch1, arrived \cup {m}, tasks, ran, made)
  BY <1>3, <1>6, <1>7 DEF Kept
<1> QED
  BY <1>8 DEF m

(* A task runs, and may be requeued.                                       *)
LEMMA RunIsKept ==
  ASSUME NEW R, Settled(R), Kept(R, outgoing, channel, arrived, tasks, ran, made),
         Shape(outgoing, channel, tasks),
         NEW p \in Process, NEW m \in BagToSet(tasks[p]), IsMessage(m), Run(p, m)
  PROVE  Kept(R, outgoing', channel', arrived, tasks', ran', made')
<1> DEFINE x == [call |-> m.call, process |-> p, index |-> m.index,
                 component |-> distributed_objects[p][m.object].name,
                 seen |-> Seen(m), form |-> m.form, again |-> m.again]
           n == AfterRun(m)
           B == IF m.again THEN SetToBag({n}) ELSE EmptyBag
           new == AfterTask(tasks, p, m, n)
<1>1. /\ ran' = OneMore(ran, x) /\ tasks' = new
      /\ UNCHANGED <<made, outgoing, channel>>
  BY DEF Run, AfterTask, OneMore
<1>2. Placed(R, m, made)
  BY DEF Kept, PlacedTasks
<1>3. PICK call \in made : m.call = call.name /\ R[m.object].name = call.component
  BY <1>2 DEF Placed
<1>4. x.call = m.call /\ x.process = p /\ x.index = m.index /\ x.again = m.again
  OBVIOUS
<1>5. x.component = call.component
  <2>1. distributed_objects[p][m.object].name = R[m.object].name
    BY <1>2 DEF Placed, Settled
  <2> QED
    BY <1>3, <2>1
<1>6. n.call = m.call /\ n.index = m.index /\ n.again = FALSE /\ n.type = m.type /\ n.object = m.object
  BY AfterRunKeeps
<1>7. Placed(R, n, made)
  BY <1>2, <1>6 DEF Placed
<1>8. Carried(R, outgoing, channel, arrived, tasks, ran, DueOf(R), made) /\ m.again \in BOOLEAN
  BY <1>2 DEF Kept, Placed
<1> HIDE DEF x, n
<1>9. /\ Carried(R, outgoing, channel, arrived, new, OneMore(ran, x), DueOf(R), made)
      /\ \A y \in BagToSet(OneMore(ran, x)) : y \in BagToSet(ran) \/ y = x
  <2>1. n.call = m.call /\ n.index = m.index /\ n.again = FALSE
    BY <1>6
  <2>2. PICK due : due = DueOf(R)
    OBVIOUS
  <2>3. PICK y : y = x
    OBVIOUS
  <2>4. PICK k : k = n
    OBVIOUS
  <2>5. Carried(R, outgoing, channel, arrived, tasks, ran, due, made)
    BY <1>8, <2>2
  <2>6. y.call = m.call /\ y.process = p /\ y.index = m.index /\ y.again = m.again
    BY <1>4, <2>3
  <2>7. k.call = m.call /\ k.index = m.index /\ k.again = FALSE
    BY <2>1, <2>4
  <2>8. Carried(R, outgoing, channel, arrived, AfterTask(tasks, p, m, k), OneMore(ran, y), due, made)
    BY <1>8, <2>5, <2>6, <2>7, RanIsCarried
  <2>9. \A z \in BagToSet(OneMore(ran, y)) : z \in BagToSet(ran) \/ z = y
    <3>1. BagToSet(SetToBag({y})) = {y}
      BY SetIsOnce
    <3> QED
      BY <3>1 DEF BagToSet, (+), OneMore
  <2> QED
    BY <2>2, <2>3, <2>4, <2>8, <2>9
<1>10. PlacedTasks(R, new, made)
  <2>1. BagToSet(B) \subseteq {n}
    BY EmptyIsOnce, SetIsOnce
  <2> HIDE DEF B
  <2>2. BagToSet((tasks[p] (-) SetToBag({m})) (+) B) \subseteq BagToSet(tasks[p]) \cup BagToSet(B)
    <3>1. AllOnce(tasks[p])
      BY <1>8 DEF Carried, Once, OnceQueues
    <3>2. BagToSet(tasks[p] (-) SetToBag({m})) \subseteq BagToSet(tasks[p])
      BY <3>1, FewerOnce
    <3> QED
      BY <3>2 DEF BagToSet, (+)
  <2>3. \A q \in Process : new[q] = IF q = p THEN (tasks[p] (-) SetToBag({m})) (+) B ELSE tasks[q]
    BY DEF Shape, Queues, AfterTask, B
  <2> HIDE DEF new
  <2>4. \A q \in Process : \A t \in BagToSet(tasks[q]) : Placed(R, t, made)
    BY DEF Kept, PlacedTasks
  <2> QED
    BY <1>7, <2>1, <2>2, <2>3, <2>4 DEF PlacedTasks
<1>11. PlacedRuns(OneMore(ran, x), made)
  <2>1. x.call = call.name
    BY <1>3, <1>4
  <2> QED
    BY <1>5, <1>9, <2>1 DEF Kept, PlacedRuns
<1> HIDE DEF new
<1>12. Kept(R, outgoing, channel, arrived, new, OneMore(ran, x), made)
  BY <1>9, <1>10, <1>11 DEF Kept
<1> QED
  BY <1>1, <1>12

-----------------------------------------------------------------------------
(* One message is taken in at a time                                       *)

(* At most one of the messages is so large that it arrives some time after *)
(* it has begun to be received, and then one is taken in at a time.        *)
OneAtATime ==
  \/ Rendezvous = {}
  \/ MaxToReceive = 1 /\ \E n \in Rendezvous : Rendezvous = {n}

(* No name is twice among the entries.  One that is not complete is the    *)
(* first, and when the receives begin there is no other.                   *)
Taking ==
  /\ \A i, j \in DOMAIN incoming : incoming[i].request = incoming[j].request => i = j
  /\ \A m \in arrived : \E i \in DOMAIN incoming : incoming[i].request = m.call
  /\ \A i \in DOMAIN incoming :
       /\ incoming[i].request \notin Rendezvous => incoming[i].request \in complete
       /\ incoming[i].request \notin complete => i = 1
       /\ receiving = "receive" /\ turn = 0 => incoming[i].request \in Rendezvous

(* Those of an index that is not complete.                                 *)
LEMMA AtMostOneIsPending ==
  ASSUME Taking, NEW i \in DOMAIN incoming, incoming[i].request \notin complete
  PROVE  i = 1 /\ incoming[i].request \in Rendezvous
BY DEF Taking

LEMMA PendingOrNot ==
  ASSUME ReceivingInv, Taking
  PROVE  /\ In!Kept \in Seq(WholeEntry) /\ Len(In!Kept) \in Nat
         /\ ToSet(In!Kept) = {e \in ToSet(incoming) : e.request \notin complete}
         /\ NoTwice(In!Kept)
         /\ Len(In!Kept) \in {0, 1}
         /\ Len(In!Kept) = 1 => /\ Len(incoming) >= 1 /\ In!Kept[1] = incoming[1]
                                /\ incoming[1].request \notin complete
         /\ \A i \in DOMAIN incoming :
              incoming[i].request \in complete <=> i > Len(In!Kept)
<1> DEFINE kept == In!Kept
<1>1. IsSequence(incoming) /\ incoming \in Seq(WholeEntry) /\ NoTwice(incoming)
  <2>1. incoming \in Seq(WholeEntry)
    BY DEF ReceivingInv
  <2>2. NoTwice(incoming)
    BY DEF Taking, NoTwice
  <2> QED
    BY <2>1, <2>2, SequenceOf
<1>2. kept = Selected(incoming, In!Pending)
  BY DEF In!Kept, In!Selected, Selected
<1>3. In!Pending = {e \in ToSet(incoming) : e.request \notin complete}
  BY DEF In!Pending, In!Done, ToSet, In!ToSet
<1>4. /\ ToSet(kept) = {e \in ToSet(incoming) : e.request \notin complete}
      /\ NoTwice(kept)
  BY <1>1, <1>2, <1>3, SelectedOnce
<1>5. kept \in Seq(WholeEntry) /\ Len(kept) \in Nat
  BY KeptAreEntries
<1>6. Len(incoming) \in Nat /\ DOMAIN incoming = 1 .. Len(incoming)
  BY <1>1
<1> HIDE DEF kept
<1>7. \A j \in DOMAIN kept : 1 \in DOMAIN incoming /\ kept[j] = incoming[1] /\ incoming[1].request \notin complete
  <2> TAKE j \in DOMAIN kept
  <2>1. kept[j] \in ToSet(kept)
    BY DEF ToSet
  <2>2. PICK i \in DOMAIN incoming : kept[j] = incoming[i]
    BY <1>4, <2>1 DEF ToSet
  <2>3. incoming[i].request \notin complete
    BY <1>4, <2>1, <2>2
  <2>4. i = 1
    BY <2>3 DEF Taking
  <2> QED
    BY <2>2, <2>3, <2>4
<1>8. Len(kept) \in {0, 1}
  <2>1. DOMAIN kept = 1 .. Len(kept)
    BY <1>5
  <2>2. Len(kept) >= 2 => 1 \in DOMAIN kept /\ 2 \in DOMAIN kept
    BY <1>5, <2>1
  <2>3. ~(1 \in DOMAIN kept /\ 2 \in DOMAIN kept)
    BY <1>4, <1>7 DEF NoTwice
  <2>4. ~(Len(kept) >= 2)
    BY <2>2, <2>3
  <2> QED
    BY <1>5, <2>4
<1>9. Len(kept) = 1 => /\ Len(incoming) >= 1 /\ kept[1] = incoming[1]
                       /\ incoming[1].request \notin complete
  <2>1. Len(kept) = 1 => 1 \in DOMAIN kept
    BY <1>5
  <2> QED
    BY <1>6, <1>7, <2>1
<1>10. ASSUME NEW i \in DOMAIN incoming
       PROVE  incoming[i].request \in complete <=> i > Len(kept)
  <2>1. CASE incoming[i].request \notin complete
    <3>1. i = 1
      BY <2>1 DEF Taking
    <3>2. incoming[i] \in ToSet(kept)
      BY <1>4, <2>1 DEF ToSet
    <3>3. PICK j \in DOMAIN kept : kept[j] = incoming[i]
      BY <3>2 DEF ToSet
    <3>4. Len(kept) = 1
      BY <1>5, <1>8, <3>3
    <3> QED
      BY <2>1, <3>1, <3>4
  <2>2. CASE incoming[i].request \in complete
    <3>1. CASE Len(kept) = 0
      BY <1>6, <2>2, <3>1
    <3>2. CASE Len(kept) = 1
      <4>1. i # 1
        BY <1>9, <2>2, <3>2
      <4> QED
        BY <1>6, <2>2, <3>2, <4>1
    <3> QED
      BY <1>8, <3>1, <3>2
  <2> QED
    BY <2>1, <2>2
<1> QED
  BY <1>4, <1>5, <1>8, <1>9, <1>10 DEF kept

(* A message for q visits q, so there is no other one for q of its call.   *)
Visit(q) == <<q, {}, FALSE>>

LEMMA VisitIsLoaded ==
  ASSUME NEW R, NEW m, NEW q \in Process
  PROVE  Visit(q) \in MailLoad(R, m, q)
<1>1. q \in Subtree(q)
  BY DEF Subtree
<1>2. Visit(q) \in LoadAt(R, m, q)
  BY DEF LoadAt, Visits, Visit
<1> QED
  BY <1>1, <1>2, SMT DEF MailLoad

LEMMA OneInHand ==
  ASSUME NEW R, Kept(R, outgoing, channel, arrived, tasks, ran, made), NEW a \in arrived
  PROVE  /\ \A b \in arrived : a.call = b.call => a = b
         /\ \A p \in Process : \A h \in ToSet(channel[p][Self]) : h.call # a.call
<1> DEFINE C == CarriersOf(R, outgoing, channel, arrived, tasks, ran)
<1>1. Exact(C, DueOf(R), made)
  BY DEF Kept, Carried
<1>2. \A c, d \in C : c.call = d.call /\ c.load \cap d.load # {} => c = d
  BY <1>1 DEF Exact
<1>3. TakenIn(R, arrived) \subseteq C /\ Travelling(R, channel) \subseteq C
  BY PartsAreCarriers
<1>4. \A b \in arrived : InHand(R, b) \in C
  BY <1>3 DEF TakenIn
<1>5. \A b : InHand(R, b).load = MailLoad(R, b, Self) /\ InHand(R, b).call = b.call
             /\ InHand(R, b).what = b /\ InHand(R, b).spot = <<"hand", Self, Self>>
  BY DEF InHand
<1>6. \A m : Visit(Self) \in MailLoad(R, m, Self)
  BY VisitIsLoaded, SelfIsAProcess
<1> HIDE DEF C
<1>7. ASSUME NEW b \in arrived, a.call = b.call
      PROVE  a = b
  <2>1. Visit(Self) \in InHand(R, a).load /\ Visit(Self) \in InHand(R, b).load
    BY <1>5, <1>6
  <2>2. InHand(R, a) = InHand(R, b)
    BY <1>2, <1>4, <1>5, <1>7, <2>1
  <2> QED
    BY <1>5, <2>2
<1>8. ASSUME NEW p \in Process, NEW h \in ToSet(channel[p][Self]), h.call = a.call
      PROVE  FALSE
  <2>1. OnTheWay(R, p, Self, h) \in C
    <3>1. OnTheWay(R, p, Self, h) \in Travelling(R, channel)
      BY SelfIsAProcess, SMT DEF Travelling
    <3> QED
      BY <1>3, <3>1
  <2>2. /\ OnTheWay(R, p, Self, h).call = h.call /\ OnTheWay(R, p, Self, h).spot[1] = "way"
        /\ OnTheWay(R, p, Self, h).load = MailLoad(R, h, Self)
    BY DEF OnTheWay
  <2>3. Visit(Self) \in InHand(R, a).load /\ Visit(Self) \in OnTheWay(R, p, Self, h).load
    BY <1>5, <1>6, <2>2
  <2>4. InHand(R, a) = OnTheWay(R, p, Self, h)
    BY <1>2, <1>4, <1>5, <1>8, <2>1, <2>2, <2>3
  <2>5. InHand(R, a).spot[1] = "hand"
    BY <1>5
  <2> QED
    BY <2>2, <2>4, <2>5
<1> QED
  BY <1>7, <1>8

-----------------------------------------------------------------------------
(* The messages that are complete are handed on                            *)

HandedNames == [i \in DOMAIN In!Removed |-> In!Removed[i].buffer]

(* Of the entries behind those that are kept no buffer is gone, and they   *)
(* are all that is complete.                                               *)
LEMMA CompleteOnesAreRemoved ==
  ASSUME ReceivingInv, Taking
  PROVE  /\ IsSequence(HandedNames) /\ NoTwice(HandedNames)
         /\ \A n : n \in ToSet(HandedNames) <=>
                     n \in complete /\ \E i \in DOMAIN incoming : incoming[i].request = n
         /\ \A i \in DOMAIN In!Removed : In!Removed[i].buffer # NoMessage
<1> DEFINE k == Len(In!Kept)
           Rest(e) == IF In!Done(e) THEN e ELSE [e EXCEPT !.buffer = NoMessage]
<1>1. k \in Nat /\ Len(incoming) \in Nat /\ DOMAIN incoming = 1 .. Len(incoming)
  BY KeptAreEntries DEF ReceivingInv
<1>2. In!Removed = [i \in 1 .. Len(incoming) - k |-> Rest(incoming[k + i])]
  BY DEF In!Removed
<1>3. NoMessage \notin Names
  BY ReceivingAssumption DEF In!ParametersFit
<1>4. \A i \in DOMAIN incoming : incoming[i].request \in complete <=> i > k
  BY PendingOrNot
<1>5. \A i \in DOMAIN incoming : \E n \in Names : incoming[i] = [request |-> n, buffer |-> n]
  BY DEF ReceivingInv, WholeEntry
<1>6. DOMAIN HandedNames = 1 .. Len(incoming) - k /\ DOMAIN In!Removed = 1 .. Len(incoming) - k
  BY <1>2 DEF HandedNames
<1> HIDE DEF k
<1>7. ASSUME NEW i \in 1 .. Len(incoming) - k
      PROVE  /\ k + i \in DOMAIN incoming
             /\ HandedNames[i] = incoming[k + i].request /\ HandedNames[i] \in complete
             /\ In!Removed[i].buffer # NoMessage
  <2>1. k + i \in DOMAIN incoming /\ k + i > k
    BY <1>1
  <2>2. PICK n \in Names : incoming[k + i] = [request |-> n, buffer |-> n]
    BY <1>5, <2>1
  <2>3. n \in complete
    BY <1>4, <2>1, <2>2
  <2>4. In!Removed[i] = [request |-> n, buffer |-> n]
    BY <1>2, <2>2, <2>3 DEF In!Done
  <2> QED
    BY <1>3, <1>6, <2>1, <2>2, <2>3, <2>4 DEF HandedNames
<1>8. IsSequence(HandedNames)
  <2>1. HandedNames = [i \in 1 .. Len(incoming) - k |-> HandedNames[i]]
    BY <1>6 DEF HandedNames
  <2>2. Len(incoming) - k \in Int
    BY <1>1
  <2> QED
    BY <2>1, <2>2, UpToIsSequence
<1>9. NoTwice(HandedNames)
  <2>1. ASSUME NEW i \in 1 .. Len(incoming) - k, NEW j \in 1 .. Len(incoming) - k,
               HandedNames[i] = HandedNames[j]
        PROVE  i = j
    <3>1. k + i = k + j
      BY <1>7, <2>1 DEF Taking
    <3> QED
      BY <1>1, <3>1
  <2> QED
    BY <1>6, <2>1 DEF NoTwice
<1>10. ASSUME NEW i \in DOMAIN incoming, incoming[i].request \in complete
       PROVE  incoming[i].request \in ToSet(HandedNames)
  <2>1. i > k
    BY <1>4, <1>10
  <2>2. i - k \in 1 .. Len(incoming) - k /\ k + (i - k) = i
    BY <1>1, <2>1
  <2>3. HandedNames[i - k] = incoming[i].request
    BY <1>7, <2>2
  <2> QED
    BY <1>6, <2>2, <2>3 DEF ToSet
<1>11. ASSUME NEW n \in ToSet(HandedNames)
       PROVE  n \in complete /\ \E i \in DOMAIN incoming : incoming[i].request = n
  <2>1. PICK i \in 1 .. Len(incoming) - k : n = HandedNames[i]
    BY <1>6 DEF ToSet
  <2> QED
    BY <1>7, <2>1
<1> QED
  BY <1>6, <1>7, <1>8, <1>9, <1>10, <1>11

(* Their messages, each of them once.                                      *)
MessageNamed(n) == CHOOSE m \in arrived : m.call = n
HandedThere == Selected(HandedNames, Names)
HandedMessages == [i \in DOMAIN HandedThere |-> MessageNamed(HandedThere[i])]

LEMMA CompleteOnesAreHanded ==
  ASSUME NEW R, Kept(R, outgoing, channel, arrived, tasks, ran, made), ReceivingInv, Taking
  PROVE  /\ IsSequence(HandedMessages) /\ NoTwice(HandedMessages)
         /\ ToSet(HandedMessages) = {m \in arrived : m.call \in complete}
<1>1. complete \subseteq Names
  BY DEF ReceivingInv
<1>2. /\ IsSequence(HandedThere) /\ NoTwice(HandedThere)
      /\ \A n : n \in ToSet(HandedThere) <=>
                  n \in complete /\ \E i \in DOMAIN incoming : incoming[i].request = n
  <2>1. /\ ToSet(HandedThere) = ToSet(HandedNames) \cap Names
        /\ IsSequence(HandedThere) /\ NoTwice(HandedThere)
    BY CompleteOnesAreRemoved, SelectedOnce, SelectedIsSequence DEF HandedThere
  <2> QED
    BY <1>1, <2>1, CompleteOnesAreRemoved
<1>3. DOMAIN HandedMessages = DOMAIN HandedThere
  BY DEF HandedMessages
<1>4. ASSUME NEW i \in DOMAIN HandedThere
      PROVE  /\ HandedMessages[i] \in arrived /\ HandedMessages[i].call = HandedThere[i]
             /\ HandedThere[i] \in complete
  <2>1. HandedThere[i] \in ToSet(HandedThere)
    BY DEF ToSet
  <2>2. PICK j \in DOMAIN incoming : incoming[j].request = HandedThere[i]
    BY <1>2, <2>1
  <2>3. \E m \in arrived : m.call = HandedThere[i]
    BY <2>2 DEF ReceivingInv
  <2>4. HandedMessages[i] = MessageNamed(HandedThere[i])
    BY DEF HandedMessages
  <2> QED
    BY <1>2, <2>1, <2>3, <2>4 DEF MessageNamed
<1>5. IsSequence(HandedMessages)
  <2>1. HandedMessages = [i \in DOMAIN HandedThere |-> HandedMessages[i]]
    BY DEF HandedMessages
  <2> QED
    BY <1>2, <1>3, <2>1, LikeASequence
<1>6. NoTwice(HandedMessages)
  BY <1>2, <1>3, <1>4 DEF NoTwice
<1>7. ASSUME NEW m \in arrived, m.call \in complete
      PROVE  m \in ToSet(HandedMessages)
  <2>1. \E i \in DOMAIN incoming : incoming[i].request = m.call
    BY DEF Taking
  <2>2. m.call \in ToSet(HandedThere)
    BY <1>2, <1>7, <2>1
  <2>3. PICK j \in DOMAIN HandedThere : HandedThere[j] = m.call
    BY <2>2 DEF ToSet
  <2>4. HandedMessages[j] = m
    BY <1>4, <2>3, OneInHand
  <2> QED
    BY <1>3, <2>3, <2>4 DEF ToSet
<1>8. \A m \in ToSet(HandedMessages) : m \in arrived /\ m.call \in complete
  BY <1>3, <1>4 DEF ToSet
<1> QED
  BY <1>5, <1>6, <1>7, <1>8

LEMMA CleaningSteps ==
  ASSUME Cleaning
  PROVE  /\ HandOn(channel, Self, HandedMessages) /\ In!Clean
         /\ arrived' = {m \in arrived : \E i \in DOMAIN incoming' : incoming'[i].request = m.call}
BY Zenon DEF Cleaning, HandedMessages, HandedThere, HandedNames, MessageNamed

LEMMA CleaningIsKept ==
  ASSUME NEW R, Settled(R), Kept(R, outgoing, channel, arrived, tasks, ran, made),
         Shape(outgoing, channel, tasks), ReceivingInv, Taking, Cleaning
  PROVE  Kept(R, outgoing', channel', arrived', tasks', ran', made')
<1> DEFINE ms == HandedMessages
           here == {m \in arrived : m.call \in complete}
<1>1. HandOn(channel, Self, ms)
  BY CleaningSteps
<1>2. IsSequence(ms) /\ NoTwice(ms) /\ ToSet(ms) = here
  BY CompleteOnesAreHanded
<1>3. OnceWays(channel) /\ PlacedWays(R, channel, made) /\ PlacedHere(R, arrived, made)
  BY DEF Kept, Carried, Once
<1>4. \A m \in here : IsMessage(m) /\ Placed(R, m, made)
  BY <1>3 DEF ReceivingInv, Mail, PlacedHere
<1>5. \A m, n \in here : m.call = n.call => m = n
  BY OneInHand
<1>6. arrived' = arrived \ here
  <2>1. incoming' = In!Kept
    BY CleaningSteps DEF In!Clean
  <2>2. \A m \in arrived : (\E i \in DOMAIN incoming' : incoming'[i].request = m.call) <=> m.call \notin complete
    <3> TAKE m \in arrived
    <3>1. ASSUME NEW i \in DOMAIN In!Kept, In!Kept[i].request = m.call
          PROVE  m.call \notin complete
      <4>1. In!Kept[i] \in ToSet(In!Kept)
        BY DEF ToSet
      <4> QED
        BY <3>1, <4>1, PendingOrNot
    <3>2. ASSUME m.call \notin complete
          PROVE  \E i \in DOMAIN In!Kept : In!Kept[i].request = m.call
      <4>1. PICK i \in DOMAIN incoming : incoming[i].request = m.call
        BY DEF Taking
      <4>2. incoming[i] \in ToSet(In!Kept)
        <5>1. incoming[i] \in ToSet(incoming)
          BY DEF ToSet
        <5> QED
          BY <3>2, <4>1, <5>1, PendingOrNot
      <4>3. PICK j \in DOMAIN In!Kept : In!Kept[j] = incoming[i]
        BY <4>2 DEF ToSet
      <4> QED
        BY <4>1, <4>3
    <3> QED
      BY <2>1, <3>1, <3>2
  <2> QED
    BY <2>2, CleaningSteps
<1> DEFINE g == [m \in here |-> InHand(R, m)]
<1>7. PICK GH : GH = TakenIn(R, here)
  OBVIOUS
<1>8. PICK GT : GT = {}
  OBVIOUS
<1>9. GT \cup GH = GH /\ Tagged(GT, "way") /\ Tagged(GH, "hand")
  BY <1>7, <1>8, PartsAreTagged DEF Tagged
<1>10. Changes(TakenIn(R, arrived), TakenIn(R, arrived'), GH, {})
  <2>1. PICK M : M = here
    OBVIOUS
  <2>2. Changes(TakenIn(R, arrived), TakenIn(R, arrived \ M), TakenIn(R, M), {})
    BY TakenInLess
  <2> HIDE DEF here
  <2> QED
    BY <1>6, <1>7, <2>1, <2>2
<1>11. Changes(Travelling(R, channel), Travelling(R, channel), GT, {})
  BY <1>8, NothingChanges
<1>12. GH \subseteq CarriersOf(R, outgoing, channel, arrived, tasks, ran)
  <2>1. GH \subseteq TakenIn(R, arrived)
    BY <1>7 DEF TakenIn
  <2> QED
    BY <2>1, PartsAreCarriers
<1>13. Bring(GH, g, R, Self, ms)
  <2>1. \A m \in here : g[m] = InHand(R, m) /\ g[m].call = m.call /\ g[m].load = MailLoad(R, m, Self)
    BY DEF InHand
  <2>2. GH = {g[m] : m \in here}
    BY <1>7, <2>1 DEF TakenIn
  <2> HIDE DEF g, here
  <2> QED
    BY <1>2, <2>1, <2>2 DEF Bring
<1>14. PlacedHere(R, arrived', made)
  BY <1>3, <1>6 DEF PlacedHere
<1>15. Bring(GT \cup GH, g, R, Self, ms) /\ GT \cup GH \subseteq CarriersOf(R, outgoing, channel, arrived, tasks, ran)
  BY <1>9, <1>12, <1>13
<1>16. \A m \in ToSet(ms) : IsMessage(m) /\ Placed(R, m, made)
  BY <1>2, <1>4
<1>17. \A m, n \in ToSet(ms) : m.call = n.call => m = n
  BY <1>2, <1>5
<1>18. IsSequence(ms) /\ NoTwice(ms)
  BY <1>2
<1> HIDE DEF ms, here, g
<1> QED
  BY <1>1, <1>3, <1>9, <1>10, <1>11, <1>14, <1>15, <1>16, <1>17, <1>18, SelfIsAProcess,
     HandOnIsKept

LEMMA CleaningTakes ==
  ASSUME ReceivingInv, Taking, Cleaning
  PROVE  Taking' /\ receiving' = "receive" /\ turn' = turn
<1>1. /\ incoming' = In!Kept /\ turn' = turn /\ complete' = complete
      /\ arrived' = {m \in arrived : \E i \in DOMAIN incoming' : incoming'[i].request = m.call}
  BY CleaningSteps DEF In!Clean
<1>2. receiving' = "receive"
  <2>1. ~(\E i \in DOMAIN In!Removed : In!Removed[i].buffer = NoMessage)
    BY CompleteOnesAreRemoved
  <2> QED
    BY <2>1, CleaningSteps DEF In!Clean
<1>3. DOMAIN In!Kept = 1 .. Len(In!Kept) /\ Len(In!Kept) \in {0, 1}
  BY PendingOrNot
<1>4. \A i \in DOMAIN In!Kept : /\ i = 1 /\ In!Kept[i].request \notin complete
                                /\ In!Kept[i].request \in Rendezvous
  <2> TAKE i \in DOMAIN In!Kept
  <2>1. i = 1 /\ Len(In!Kept) = 1
    BY <1>3
  <2>2. 1 \in DOMAIN incoming /\ In!Kept[1] = incoming[1] /\ incoming[1].request \notin complete
    BY <2>1, PendingOrNot DEF ReceivingInv
  <2> QED
    BY <2>1, <2>2, AtMostOneIsPending
<1>5. (\A i, j \in DOMAIN incoming : incoming[i].request = incoming[j].request => i = j)'
  BY <1>1, <1>4
<1>6. (\A m \in arrived : \E i \in DOMAIN incoming : incoming[i].request = m.call)'
  BY <1>1
<1> QED
  BY <1>1, <1>2, <1>4, <1>5, <1>6 DEF Taking

(* The message at the head of the channel has an entry then.               *)
Asks(p, n) ==
  /\ p = In!Asked /\ p \in Process /\ channel[p][Self] # <<>>
  /\ n = Head(channel[p][Self]).call /\ n \in Names
  /\ Head(channel[p][Self]) \in ToSet(channel[p][Self])
  /\ IsMessage(Head(channel[p][Self]))

LEMMA StartingSteps ==
  ASSUME DeliveryInv, ReceivingInv, Starting
  PROVE  \E p, n :
    /\ Asks(p, n)
    /\ channel' = [channel EXCEPT ![p][Self] = Tail(@)]
    /\ arrived' = arrived \cup {Got(Head(channel[p][Self]))}
    /\ Got(Head(channel[p][Self])).call = n
    /\ incoming' = Append(incoming, [request |-> n, buffer |-> n])
    /\ complete' = (IF n \in Rendezvous THEN complete ELSE complete \cup {n})
    /\ turn < MaxToReceive /\ turn' = turn + 1 /\ receiving = "receive" /\ receiving' = receiving
    /\ UNCHANGED <<made, outgoing, tasks, ran, callbacks>>
<1> DEFINE p == In!Asked
           h == Head(channel[p][Self])
           m == Got(h)
           n == h.call
<1>1. p \in Process /\ Self \in Process /\ channel[p][Self] # <<>>
  BY AskedIsAProcess, SelfIsAProcess DEF Starting
<1>2. Mail(h, made) /\ Reaches(h, Self) /\ made \in SUBSET Call
  BY <1>1, LessOnTheWay DEF DeliveryInv
<1>3. m.call = n /\ IsMessage(h)
  BY <1>2, GotFields DEF Mail
<1>4. n \in Names
  BY <1>2, ReachingIsNamed
<1>5. IsSequence(channel[p][Self])
  BY <1>1 DEF DeliveryInv, GoodChannel
<1>6. h \in ToSet(channel[p][Self])
  BY <1>1, <1>5, TailIsSequence
<1>7. Head([i \in DOMAIN channel[p][Self] |-> channel[p][Self][i].call]) = n
  <2> DEFINE s == channel[p][Self]
             t == [i \in DOMAIN s |-> s[i].call]
  <2>1. IsSequence(s) /\ s # <<>>
    BY <1>1, <1>5
  <2>2. Len(s) \in Nat \ {0} /\ DOMAIN s = 1 .. Len(s) /\ Head(s) = s[1]
    BY <2>1 DEF IsSequence
  <2>3. IsSequence(t)
    <3>1. DOMAIN t = DOMAIN s /\ t = [i \in DOMAIN s |-> t[i]]
      OBVIOUS
    <3> HIDE DEF t
    <3> QED
      BY <2>1, <3>1, LikeASequence
  <2>4. t[1] = n /\ t # <<>> /\ DOMAIN t = 1 .. Len(s)
    BY <2>2
  <2> HIDE DEF t, s
  <2>5. Head(t) = t[1]
    BY <2>2, <2>3, <2>4 DEF IsSequence
  <2> QED
    BY <2>4, <2>5 DEF t, s
<1>8. /\ incoming' = Append(incoming, [request |-> n, buffer |-> n])
      /\ complete' = (IF n \in Rendezvous THEN complete ELSE complete \cup {n})
      /\ turn < MaxToReceive /\ turn' = turn + 1 /\ receiving = "receive" /\ receiving' = receiving
  BY <1>1, <1>7 DEF Starting, In!Receive
<1>9. /\ channel' = [channel EXCEPT ![p][Self] = Tail(@)] /\ arrived' = arrived \cup {m}
      /\ UNCHANGED <<made, outgoing, tasks, ran, callbacks>>
  BY DEF Starting
<1>10. Asks(p, n)
  BY <1>1, <1>3, <1>4, <1>6 DEF Asks
<1> HIDE DEF n
<1>11. m.call = n
  BY <1>3
<1> QED
  BY <1>8, <1>9, <1>10, <1>11 DEF m, h

LEMMA StartingTakes ==
  ASSUME OneAtATime, NEW R, Kept(R, outgoing, channel, arrived, tasks, ran, made),
         DeliveryInv, ReceivingInv, Taking, turn \in Nat, Starting
  PROVE  Taking' /\ receiving' = receiving /\ turn' \in Nat
<1>1. PICK p, n :
    /\ Asks(p, n)
    /\ arrived' = arrived \cup {Got(Head(channel[p][Self]))}
    /\ Got(Head(channel[p][Self])).call = n
    /\ incoming' = Append(incoming, [request |-> n, buffer |-> n])
    /\ complete' = (IF n \in Rendezvous THEN complete ELSE complete \cup {n})
    /\ turn < MaxToReceive /\ turn' = turn + 1 /\ receiving = "receive" /\ receiving' = receiving
  BY StartingSteps
<1>2. turn' \in Nat /\ turn' # 0
  BY <1>1
<1>3. \A i \in DOMAIN incoming : incoming[i].request # n
  <2> TAKE i \in DOMAIN incoming
  <2>1. PICK a \in arrived : a.call = incoming[i].request
    BY DEF ReceivingInv
  <2>2. \A h \in ToSet(channel[p][Self]) : h.call # a.call
    BY <1>1, OneInHand DEF Asks
  <2> QED
    BY <1>1, <2>1, <2>2 DEF Asks
<1> DEFINE k == Len(incoming)
           new == [request |-> n, buffer |-> n]
<1>4. n \in Names /\ incoming \in Seq(WholeEntry) /\ new \in WholeEntry
  BY <1>1 DEF Asks, ReceivingInv, WholeEntry
<1>5. /\ k \in Nat /\ DOMAIN incoming = 1 .. k /\ DOMAIN incoming' = 1 .. k + 1
      /\ incoming'[k + 1] = new /\ \A i \in 1 .. k : incoming'[i] = incoming[i]
  BY <1>1, <1>4
<1>6. new.request = n
  OBVIOUS
<1> HIDE DEF k, new
<1>7. n \in Rendezvous => k = 0
  <2> SUFFICES ASSUME n \in Rendezvous PROVE k = 0
    OBVIOUS
  <2>1. MaxToReceive = 1 /\ \A x \in Rendezvous : x = n
    BY DEF OneAtATime
  <2>2. turn = 0
    BY <1>1, <2>1
  <2>3. \A i \in DOMAIN incoming : incoming[i].request \in Rendezvous
    BY <1>1, <2>2 DEF Taking
  <2>4. ~(1 \in DOMAIN incoming)
    BY <1>3, <2>1, <2>3
  <2> QED
    BY <1>5, <2>4
<1>8. \A i \in 1 .. k : incoming'[i].request = incoming[i].request /\ incoming[i].request # n
  BY <1>3, <1>5
<1>9. incoming'[k + 1].request = n
  BY <1>5, <1>6
<1>10. (\A i, j \in DOMAIN incoming : incoming[i].request = incoming[j].request => i = j)'
  <2> SUFFICES ASSUME NEW i \in 1 .. k + 1, NEW j \in 1 .. k + 1,
                      incoming'[i].request = incoming'[j].request
               PROVE  i = j
    BY <1>5
  <2>1. (i \in 1 .. k \/ i = k + 1) /\ (j \in 1 .. k \/ j = k + 1)
    BY <1>5
  <2>2. CASE i \in 1 .. k /\ j \in 1 .. k
    BY <1>5, <1>8, <2>2 DEF Taking
  <2> QED
    BY <1>8, <1>9, <2>1, <2>2
<1>11. (\A m \in arrived : \E i \in DOMAIN incoming : incoming[i].request = m.call)'
  <2> SUFFICES ASSUME NEW m \in arrived'
               PROVE  \E i \in DOMAIN incoming' : incoming'[i].request = m.call
    OBVIOUS
  <2>1. CASE m \in arrived
    <3>1. PICK i \in DOMAIN incoming : incoming[i].request = m.call
      BY <2>1 DEF Taking
    <3>2. i \in DOMAIN incoming'
      BY <1>5
    <3> QED
      BY <1>5, <1>8, <3>1, <3>2
  <2>2. CASE m \notin arrived
    <3>1. m.call = n
      BY <1>1, <2>2
    <3>2. k + 1 \in DOMAIN incoming'
      BY <1>5
    <3> QED
      BY <1>9, <3>1, <3>2
  <2> QED
    BY <2>1, <2>2
<1>12. \A i \in 1 .. k + 1 : /\ incoming'[i].request \notin Rendezvous => incoming'[i].request \in complete'
                             /\ incoming'[i].request \notin complete' => i = 1
  <2> TAKE i \in 1 .. k + 1
  <2>1. CASE i \in 1 .. k
    <3>1. incoming'[i].request = incoming[i].request /\ i \in DOMAIN incoming
      BY <1>5, <1>8, <2>1
    <3> QED
      BY <1>1, <3>1 DEF Taking
  <2>2. CASE i = k + 1
    <3>1. n \notin Rendezvous => n \in complete'
      BY <1>1
    <3>2. n \notin complete' => i = 1
      BY <1>7, <2>2, <3>1
    <3> QED
      BY <1>9, <2>2, <3>1, <3>2
  <2> QED
    BY <1>5, <2>1, <2>2
<1> QED
  BY <1>1, <1>2, <1>5, <1>10, <1>11, <1>12 DEF Taking

(* The other steps of the receiving half of Self.                          *)
LEMMA OthersTake ==
  ASSUME ReceivingInv, Taking, turn \in Nat, receiving # "crashed", UNCHANGED arrived,
         In!Skip \/ In!ReceivesDone \/ \E n \in Rendezvous : In!Complete(n)
  PROVE  Taking' /\ receiving' # "crashed" /\ turn' \in Nat
<1>1. CASE In!Skip
  <2>1. UNCHANGED <<incoming, complete, receiving>> /\ turn' = turn + 1
    BY <1>1 DEF In!Skip
  <2> QED
    BY <2>1 DEF Taking
<1>2. CASE In!ReceivesDone
  <2>1. UNCHANGED <<incoming, complete>> /\ turn' = 0 /\ receiving' = "clean"
    BY <1>2 DEF In!ReceivesDone
  <2> QED
    BY <2>1 DEF Taking
<1>3. ASSUME NEW n \in Rendezvous, In!Complete(n)
      PROVE  Taking' /\ receiving' # "crashed" /\ turn' \in Nat
  <2>1. UNCHANGED <<incoming, receiving, turn>> /\ complete' = complete \cup {n}
    BY <1>3 DEF In!Complete
  <2> QED
    BY <2>1 DEF Taking
<1> QED
  BY <1>1, <1>2, <1>3

-----------------------------------------------------------------------------
(* What is invariant                                                       *)

AllRun == \A p \in Process : pc[p] = "run"

(* Nothing has been called, and nothing taken in.                          *)
Nothing ==
  /\ made = {} /\ arrived = {} /\ incoming = <<>> /\ ran = EmptyBag /\ receiving = "receive"
  /\ outgoing = [p \in Process |-> EmptyBag] /\ tasks = [p \in Process |-> EmptyBag]
  /\ channel = [p \in Process |-> [q \in Process |-> <<>>]]

(* All leave the insertions behind together, and nobody calls before.      *)
Phases == AllRun \/ ((\A p \in Process : pc[p] # "run") /\ Nothing)

(* A call that was to be made by a callback has been made by invoking it.  *)
Invoked ==
  \A call \in made \cap ThroughCallback : call \in Callbacks /\ callbacks[call].invoked

KeptNow == Kept(View, outgoing, channel, arrived, tasks, ran, made)
Held == KeptNow /\ Taking /\ receiving # "crashed"

ExactInv == Phases /\ Numbered /\ Invoked /\ turn \in Nat /\ (RightPlaces => Held)

LEMMA NothingIsHeld == Nothing => Held
<1> SUFFICES ASSUME Nothing PROVE Held
  OBVIOUS
<1>1. BagToSet(EmptyBag) = {} /\ AllOnce(EmptyBag)
  BY EmptyIsOnce
<1>2. /\ \A p \in Process : outgoing[p] = EmptyBag /\ tasks[p] = EmptyBag
      /\ \A p, q \in Process : channel[p][q] = <<>>
  BY DEF Nothing
<1>3. \A p, q \in Process : ToSet(channel[p][q]) = {} /\ NoTwice(channel[p][q])
  BY <1>2, EmptyIsSequence DEF NoTwice
<1>4. Once(outgoing, channel, tasks, ran)
  BY <1>1, <1>2, <1>3 DEF Once, OnceQueues, OnceWays, Nothing
<1>5. \A p \in Process : BagToSet(outgoing[p]) = {} /\ BagToSet(tasks[p]) = {}
  BY <1>1, <1>2
<1>6. ran = EmptyBag /\ arrived = {} /\ made = {}
  BY DEF Nothing
<1>7. CarriersOf(View, outgoing, channel, arrived, tasks, ran) = {}
  <2>1. Waiting(View, outgoing) = {}
    BY <1>5 DEF Waiting
  <2>2. Travelling(View, channel) = {}
    BY <1>3, SMT DEF Travelling
  <2>3. TakenIn(View, arrived) = {}
    BY <1>6 DEF TakenIn
  <2>4. ToDo(tasks) = {}
    BY <1>5 DEF ToDo
  <2>5. HaveRun(ran) = {}
    BY <1>1, <1>6 DEF HaveRun
  <2> QED
    BY <2>1, <2>2, <2>3, <2>4, <2>5 DEF CarriersOf
<1>8. Exact(CarriersOf(View, outgoing, channel, arrived, tasks, ran), DueOf(View), made)
  BY <1>6, <1>7 DEF Exact
<1>9. KeptNow
  BY <1>1, <1>3, <1>4, <1>5, <1>6, <1>8
     DEF KeptNow, Kept, Carried, PlacedOut, PlacedTasks, PlacedWays, PlacedHere, PlacedRuns
<1>10. Taking
  BY DEF Nothing, Taking
<1> QED
  BY <1>9, <1>10 DEF Held, Nothing

LEMMA InitExactInv == Init => ExactInv
<1> SUFFICES ASSUME Init PROVE ExactInv
  OBVIOUS
<1>1. Nothing /\ \A p \in Process : pc[p] # "run"
  BY DEF Init, InsertInit, DeliveryInit, Nothing
<1>2. Numbered
  BY DEF Init, InsertInit, RegistryInit, Numbered, NoTwice
<1>3. Invoked /\ turn \in Nat
  BY DEF Init, DeliveryInit, Invoked
<1> QED
  BY <1>1, <1>2, <1>3, NothingIsHeld DEF ExactInv, Phases

LEMMA GoodIsShaped ==
  ASSUME DeliveryInv
  PROVE  /\ Shape(outgoing, channel, tasks)
         /\ \A p \in Process : \A m \in BagToSet(outgoing[p]) : IsMessage(m)
         /\ \A p \in Process : \A m \in BagToSet(tasks[p]) : IsMessage(m)
         /\ \A p, q \in Process : \A m \in ToSet(channel[p][q]) : IsMessage(m)
BY DEF DeliveryInv, GoodOutgoing, GoodTasks, GoodChannel, Shape, Queues, Ways, Mail, Task

(* Once all run, nothing is inserted, and places are given and not taken   *)
(* away.                                                                   *)
LEMMA PlacesStay ==
  ASSUME RegistryTypeOK, Numbered, UNCHANGED distributed_objects,
         UNCHANGED object_index \/ \E p \in Process, c \in Component : Ask(p, c)
  PROVE  View' = View /\ Numbered' /\ (RightPlaces' => RightPlaces)
<1>1. View' = View
  BY DEF View
<1>2. /\ \A q \in Process : NoTwice(object_index'[q])
      /\ \A q \in Process : Len(object_index[q]) <= Len(object_index'[q])
      /\ \A q \in Process : \A i \in DOMAIN object_index[q] : object_index'[q][i] = object_index[q][i]
  <2>1. CASE UNCHANGED object_index
    BY <2>1 DEF Numbered, RegistryTypeOK
  <2>2. ASSUME NEW p \in Process, NEW c \in Component, Ask(p, c)
        PROVE  /\ \A q \in Process : NoTwice(object_index'[q])
               /\ \A q \in Process : Len(object_index[q]) <= Len(object_index'[q])
               /\ \A q \in Process : \A i \in DOMAIN object_index[q] :
                    object_index'[q][i] = object_index[q][i]
    BY <2>2, AskKeepsNumbers
  <2> QED
    BY <2>1, <2>2
<1>3. \A q \in Process : /\ Len(object_index[q]) \in Nat /\ Len(distributed_objects[q]) \in Nat
                         /\ DOMAIN object_index[q] = 1 .. Len(object_index[q])
                         /\ DOMAIN distributed_objects[q] = 1 .. Len(distributed_objects[q])
                         /\ Len(distributed_objects[q]) <= Len(object_index[q])
  BY DEF RegistryTypeOK, Numbered
<1>4. \A q \in Process : Len(object_index'[q]) \in Nat
  <2>1. CASE UNCHANGED object_index
    BY <1>3, <2>1
  <2>2. ASSUME NEW p \in Process, NEW c \in Component, Ask(p, c)
        PROVE  \A q \in Process : Len(object_index'[q]) \in Nat
    <3>1. Asked(p, c) \in Seq(Component)
      BY PlaceIsANumber
    <3>2. object_index' \in [Process -> Seq(Component)]
      BY <2>2, <3>1 DEF Ask, RegistryTypeOK
    <3> QED
      BY <3>2
  <2> QED
    BY <2>1, <2>2
<1>5. Numbered'
  BY <1>2, <1>3, <1>4 DEF Numbered, NoTwice
<1>6. \A q \in Process : \A i \in DOMAIN distributed_objects[q] : i \in DOMAIN object_index[q]
  BY <1>3
<1>7. RightPlaces' => RightPlaces
  BY <1>1, <1>2, <1>6 DEF RightPlaces
<1> QED
  BY <1>1, <1>5, <1>7

(* Inserting ends for all at once, and before that there is nothing.       *)
LEMMA InsertingIsExact ==
  ASSUME ProgramInv, ExactInv, Inserting
  PROVE  ExactInv'
<1>1. UNCHANGED callVars /\ UNCHANGED receivingVars /\ InsertNext
  BY DEF Inserting
<1>2. /\ UNCHANGED <<made, outgoing, channel, tasks, ran, callbacks>>
      /\ UNCHANGED <<arrived, incoming, receiving, turn>>
  BY <1>1 DEF callVars, deliveryVars, receivingVars
<1>3. ~AllRun
  <2> SUFFICES ASSUME AllRun PROVE FALSE
    OBVIOUS
  <2>1. PICK p \in Process : TRUE
    BY ProcessesAre
  <2>2. ~Meet
    <3>1. pc[p] = "run"
      BY DEF AllRun
    <3>2. Meet => pc[p] = "barrier1" \/ pc[p] = "barrier2"
      BY DEF Meet, Barrier!FirstBarrier, Barrier!SecondBarrier, Barrier!Process, Process
    <3> QED
      BY <3>1, <3>2
  <2>3. \A q \in Process : ~Prepare(q) /\ ~Check(q)
    BY DEF Prepare, Check, Barrier!Step, Barrier!Enter, Barrier!SendUp, Barrier!CompareWith,
       Barrier!SendDone, AllRun
  <2> QED
    BY <1>1, <2>2, <2>3 DEF InsertNext
<1>4. Nothing /\ \A p \in Process : pc[p] # "run"
  BY <1>3 DEF ExactInv, Phases
<1>5. Nothing'
  BY <1>2, <1>4 DEF Nothing
<1>6. RegistryTypeOK /\ Numbered /\ todo \in [Process -> Seq(Insertion)] /\ pc \in [Process -> Barrier!Places]
  BY DEF ProgramInv, IInv, InsertTypeOK, ExactInv
<1>7. Numbered' /\ (AllRun \/ (\A p \in Process : pc[p] # "run"))'
  <2>1. CASE Meet
    <3>1. UNCHANGED <<object_index, distributed_objects>>
      BY <2>1 DEF Meet
    <3>2. Numbered'
      BY <1>6, <3>1 DEF Numbered, NoTwice
    <3> QED
      BY <2>1, <3>2 DEF Meet, Barrier!FirstBarrier, Barrier!SecondBarrier, AllRun,
         Barrier!Process, Process
  <2>2. ASSUME NEW q \in Process, Prepare(q)
        PROVE  Numbered' /\ (AllRun \/ (\A p \in Process : pc[p] # "run"))'
    <3>1. Head(todo[q]) \in Insertion
      BY <1>6, <2>2 DEF Prepare
    <3>2. Numbered'
      BY <1>6, <2>2, <3>1, PerformKeepsNumbers DEF Prepare
    <3> QED
      BY <1>4, <2>2, <3>2 DEF Prepare
  <2>3. ASSUME NEW q \in Process, Check(q)
        PROVE  Numbered' /\ (AllRun \/ (\A p \in Process : pc[p] # "run"))'
    <3>1. UNCHANGED <<object_index, distributed_objects>>
      BY <2>3 DEF Check
    <3>2. Numbered'
      BY <1>6, <3>1 DEF Numbered, NoTwice
    <3>3. \E place \in Barrier!Places \ {"run"} : pc' = [pc EXCEPT ![q] = place]
      BY <2>3 DEF Check, Barrier!Step, Barrier!Enter, Barrier!SendUp, Barrier!CompareWith,
         Barrier!SendDone, Barrier!Goto, Barrier!Places
    <3>4. \A p \in Process : pc'[p] # "run"
      BY <1>4, <1>6, <3>3
    <3> QED
      BY <3>2, <3>4
  <2> QED
    BY <1>1, <2>1, <2>2, <2>3 DEF InsertNext
<1>8. Held'
  <2>1. (Nothing => Held)'
    BY NothingIsHeld, PTL
  <2> QED
    BY <1>5, <2>1
<1>9. Invoked' /\ turn' \in Nat
  BY <1>2 DEF ExactInv, Invoked, Callbacks
<1> QED
  BY <1>5, <1>7, <1>8, <1>9 DEF ExactInv, Phases

-----------------------------------------------------------------------------
(* Each step of a process that runs                                        *)

KeptNext == Kept(View, outgoing', channel', arrived', tasks', ran', made')
TakingNext == Taking' /\ receiving' # "crashed"

LEMMA TakingStays ==
  ASSUME Held, UNCHANGED receivingVars
  PROVE  TakingNext
BY DEF Held, Taking, TakingNext, receivingVars

LEMMA RightIsHeld ==
  ASSUME ProgramInv, ExactInv, RightPlaces
  PROVE  /\ Held /\ KeptNow /\ Settled(View) /\ Shape(outgoing, channel, tasks)
         /\ Queues(outgoing) /\ Queues(tasks) /\ made \subseteq Call
         /\ DeliveryInv /\ ReceivingInv
         /\ \A p \in Process : \A m \in BagToSet(outgoing[p]) : IsMessage(m)
         /\ \A p \in Process : \A m \in BagToSet(tasks[p]) : IsMessage(m)
         /\ \A p, q \in Process : \A m \in ToSet(channel[p][q]) : IsMessage(m)
<1>1. IInv /\ DeliveryInv /\ ReceivingInv
  BY DEF ProgramInv
<1>2. Settled(View)
  BY <1>1, RightIsSettled DEF ExactInv
<1>3. Held /\ KeptNow
  BY DEF ExactInv, Held
<1> QED
  BY <1>1, <1>2, <1>3, GoodIsShaped DEF Shape, DeliveryInv

LEMMA CarryingIsExact ==
  ASSUME ProgramInv, ExactInv, RightPlaces,
         NEW call \in Call \ made, NEW sent, Alike(sent, call), Carry(sent),
         made' = made \cup {call}, UNCHANGED receivingVars
  PROVE  KeptNext /\ TakingNext
<1>1. UNCHANGED arrived
  BY DEF receivingVars
<1>2. KeptNext
  BY <1>1, RightIsHeld, CarryIsKept DEF KeptNow, KeptNext
<1> QED
  BY <1>2, RightIsHeld, TakingStays

LEMMA SendingIsExact ==
  ASSUME ProgramInv, ExactInv, RightPlaces, NEW p \in Process, Sending(p)
  PROVE  KeptNext /\ TakingNext
<1>1. PICK m \in BagToSet(outgoing[p]) : InitiateSend(p, m)
  BY DEF Sending
<1>2. UNCHANGED receivingVars /\ UNCHANGED arrived
  BY DEF Sending, receivingVars
<1>3. IsMessage(m)
  BY <1>1, RightIsHeld
<1>4. Kept(View, outgoing', channel', arrived, tasks', ran', made')
  BY <1>1, <1>3, RightIsHeld, InitiateSendIsKept DEF KeptNow
<1> QED
  BY <1>2, <1>4, RightIsHeld, TakingStays DEF KeptNext

LEMMA WorkingIsExact ==
  ASSUME ProgramInv, ExactInv, RightPlaces, NEW p \in Process, Working(p)
  PROVE  KeptNext /\ TakingNext
<1>1. PICK m \in BagToSet(tasks[p]) : Run(p, m)
  BY DEF Working
<1>2. UNCHANGED receivingVars /\ UNCHANGED arrived
  BY DEF Working, receivingVars
<1>3. IsMessage(m)
  BY <1>1, RightIsHeld
<1>4. Kept(View, outgoing', channel', arrived, tasks', ran', made')
  BY <1>1, <1>3, RightIsHeld, RunIsKept DEF KeptNow
<1> QED
  BY <1>2, <1>4, RightIsHeld, TakingStays DEF KeptNext

LEMMA TakingInIsExact ==
  ASSUME ProgramInv, ExactInv, RightPlaces, NEW p \in Process, TakingIn(p)
  PROVE  KeptNext /\ TakingNext
<1>1. PICK q \in Process :
        /\ channel[q][p] # <<>>
        /\ HandOn([channel EXCEPT ![q][p] = Tail(@)], p, <<Got(Head(channel[q][p]))>>)
  BY DEF TakingIn
<1>2. UNCHANGED receivingVars /\ UNCHANGED arrived
  BY DEF TakingIn, receivingVars
<1>3. Ways(channel) /\ Shape(outgoing, channel, tasks)
  BY RightIsHeld DEF Shape
<1>4. Head(channel[q][p]) \in ToSet(channel[q][p])
  BY <1>1, <1>3, TailIsSequence DEF Ways
<1>5. IsMessage(Head(channel[q][p]))
  BY <1>4, RightIsHeld
<1>6. PlacedHere(View, arrived, made)
  BY RightIsHeld DEF KeptNow, Kept
<1>7. KeptNow /\ Settled(View)
  BY RightIsHeld
<1>8. Kept(View, outgoing', channel', arrived, tasks', ran', made')
  BY <1>1, <1>3, <1>5, <1>6, <1>7, TakingInIsKept DEF KeptNow
<1> QED
  BY <1>2, <1>8, RightIsHeld, TakingStays DEF KeptNext

LEMMA StartingIsExact ==
  ASSUME OneAtATime, ProgramInv, ExactInv, RightPlaces, Starting
  PROVE  KeptNext /\ TakingNext
<1>1. /\ Held /\ KeptNow /\ DeliveryInv /\ ReceivingInv /\ Shape(outgoing, channel, tasks)
      /\ Taking /\ receiving # "crashed" /\ turn \in Nat
  BY RightIsHeld DEF Held, ExactInv
<1>2. PICK p, n :
    /\ Asks(p, n)
    /\ channel' = [channel EXCEPT ![p][Self] = Tail(@)]
    /\ arrived' = arrived \cup {Got(Head(channel[p][Self]))}
    /\ UNCHANGED <<made, outgoing, tasks, ran>>
  BY <1>1, StartingSteps
<1>3. /\ p \in Process /\ Self \in Process /\ channel[p][Self] # <<>>
      /\ IsMessage(Head(channel[p][Self]))
  BY <1>2, SelfIsAProcess DEF Asks
<1>4. Kept(View, outgoing, [channel EXCEPT ![p][Self] = Tail(@)],
           arrived \cup {Got(Head(channel[p][Self]))}, tasks, ran, made)
  BY <1>1, <1>3, ReceivedIsKept DEF KeptNow
<1>5. KeptNext
  BY <1>2, <1>4 DEF KeptNext
<1>6. TakingNext
  BY <1>1, StartingTakes DEF TakingNext, KeptNow
<1> QED
  BY <1>5, <1>6

LEMMA CleaningIsExact ==
  ASSUME ProgramInv, ExactInv, RightPlaces, Cleaning
  PROVE  KeptNext /\ TakingNext
<1>1. /\ KeptNow /\ ReceivingInv /\ Shape(outgoing, channel, tasks) /\ Taking /\ Settled(View)
  BY RightIsHeld DEF Held
<1>2. KeptNext
  BY <1>1, CleaningIsKept DEF KeptNow, KeptNext
<1> QED
  BY <1>1, <1>2, CleaningTakes DEF TakingNext

(* What Self looks for and does not find, and what arrives.                *)
LEMMA PassingIsExact ==
  ASSUME ProgramInv, ExactInv, RightPlaces, UNCHANGED callVars, UNCHANGED arrived,
         In!Skip \/ In!ReceivesDone \/ \E n \in Rendezvous : In!Complete(n)
  PROVE  KeptNext /\ TakingNext
<1>1. /\ KeptNow /\ ReceivingInv /\ Taking /\ receiving # "crashed" /\ turn \in Nat
  BY RightIsHeld DEF Held, ExactInv
<1>2. TakingNext
  BY <1>1, OthersTake DEF TakingNext
<1>3. KeptNext
  BY <1>1 DEF KeptNow, KeptNext, callVars, deliveryVars
<1> QED
  BY <1>2, <1>3

-----------------------------------------------------------------------------
(* Callbacks                                                               *)

LEMMA KeepIsInvoked ==
  ASSUME Invoked, NEW call, NEW callback, Keep(call, callback),
         call \in Callbacks => callback.invoked = callbacks[call].invoked
  PROVE  Invoked'
<1>1. made' = made /\ Put(call, callback)
  BY DEF Keep, deliveryVars
<1>2. /\ DOMAIN callbacks' = Callbacks \cup {call}
      /\ \A c \in Callbacks \cup {call} : callbacks'[c] = IF c = call THEN callback ELSE callbacks[c]
  BY <1>1 DEF Put
<1> QED
  BY <1>1, <1>2 DEF Invoked, Callbacks

LEMMA FireIsExact ==
  ASSUME ProgramInv, ExactInv, NEW call, NEW left, Fire(call, left), UNCHANGED receivingVars
  PROVE  /\ Invoked' /\ UNCHANGED distributed_objects
         /\ \E p \in Process, c \in Component : Ask(p, c)
         /\ RightPlaces => KeptNext /\ TakingNext
<1>1. call \in Callbacks /\ ~callbacks[call].invoked /\ call \in ThroughCallback /\ call \in Call
  BY CallbackAssumption DEF Fire, ProgramInv, CallbackInv
<1>2. call \notin made
  BY <1>1 DEF ExactInv, Invoked
<1>3. /\ Put(call, [arguments |-> left, invoked |-> TRUE]) /\ made' = made \cup {call}
      /\ Carry([call EXCEPT !.arguments = callbacks[call].arguments])
  BY DEF Fire
<1>4. Invoked'
  <2>1. /\ DOMAIN callbacks' = Callbacks \cup {call} /\ callbacks'[call].invoked = TRUE
        /\ \A c \in Callbacks : c # call => callbacks'[c] = callbacks[c]
    BY <1>3 DEF Put
  <2> QED
    BY <1>3, <2>1 DEF ExactInv, Invoked, Callbacks
<1> DEFINE sent == [call EXCEPT !.arguments = callbacks[call].arguments]
<1>5. Alike(sent, call)
  <2>1. call = [name |-> call.name, kind |-> call.kind, from |-> call.from,
                component |-> call.component, to |-> call.to,
                arguments |-> call.arguments, requeue |-> call.requeue]
    BY <1>1, CallFields
  <2>2. /\ sent.name = call.name /\ sent.kind = call.kind /\ sent.from = call.from
        /\ sent.component = call.component /\ sent.to = call.to /\ sent.requeue = call.requeue
    BY <2>1
  <2> HIDE DEF sent
  <2> QED
    BY <2>2 DEF Alike
<1>6. Carry(sent)
  BY <1>3
<1> HIDE DEF sent
<1>7. Ask(call.from, call.component) /\ UNCHANGED distributed_objects
  BY <1>5, <1>6 DEF Carry, Alike
<1>8. call.from \in Process /\ call.component \in Component
  BY <1>1, CallFields
<1>9. RightPlaces => KeptNext /\ TakingNext
  BY <1>1, <1>2, <1>3, <1>5, <1>6, CarryingIsExact
<1> QED
  BY <1>4, <1>7, <1>8, <1>9

LEMMA CallingBackIsExact ==
  ASSUME ProgramInv, ExactInv, NEW p \in Process, CallingBack(p)
  PROVE  /\ Invoked' /\ UNCHANGED distributed_objects
         /\ UNCHANGED object_index \/ \E q \in Process, c \in Component : Ask(q, c)
         /\ RightPlaces => KeptNext /\ TakingNext
<1>1. PICK call \in ThroughCallback :
        \/ MakeCallback(call) \/ MakeBroadcastTo(call)
        \/ UpdateArguments(call)
        \/ \E clone \in ThroughCallback : GetClone(call, clone)
        \/ InvokeCallback(call) \/ InvokeBroadcastTo(call)
  BY DEF CallingBack
<1>2. UNCHANGED receivingVars
  BY DEF CallingBack
<1>3. Invoked /\ \A c \in Callbacks : callbacks[c] \in CallbackState
  BY DEF ExactInv, ProgramInv, CallbackInv
<1>4. ASSUME NEW c, NEW callback, Keep(c, callback),
             c \in Callbacks => callback.invoked = callbacks[c].invoked
      PROVE  /\ Invoked' /\ UNCHANGED <<distributed_objects, object_index>>
             /\ RightPlaces => KeptNext /\ TakingNext
  <2>1. UNCHANGED <<distributed_objects, object_index>> /\ UNCHANGED <<made, outgoing, channel, tasks, ran>>
    BY <1>4 DEF Keep, deliveryVars, registryVars
  <2>2. Invoked'
    BY <1>3, <1>4, KeepIsInvoked
  <2>3. RightPlaces => KeptNow /\ Held
    BY RightIsHeld
  <2>4. RightPlaces => TakingNext
    BY <1>2, <2>3, TakingStays
  <2>5. UNCHANGED arrived
    BY <1>2 DEF receivingVars
  <2> QED
    BY <2>1, <2>2, <2>3, <2>4, <2>5 DEF KeptNow, KeptNext
<1>5. CASE MakeCallback(call) \/ MakeBroadcastTo(call)
  <2>1. Keep(call, [arguments |-> call.arguments, invoked |-> FALSE]) /\ call \notin Callbacks
    BY <1>5 DEF MakeCallback, MakeBroadcastTo
  <2> QED
    BY <1>4, <2>1
<1>6. CASE UpdateArguments(call)
  <2> DEFINE new == [callbacks[call] EXCEPT !.arguments = call.arguments]
  <2>1. Keep(call, new) /\ call \in Callbacks
    BY <1>6 DEF UpdateArguments
  <2>2. new.invoked = callbacks[call].invoked
    BY <1>3, <2>1 DEF CallbackState
  <2> HIDE DEF new
  <2> QED
    BY <1>4, <2>1, <2>2
<1>7. ASSUME NEW clone \in ThroughCallback, GetClone(call, clone)
      PROVE  /\ Invoked' /\ UNCHANGED <<distributed_objects, object_index>>
             /\ RightPlaces => KeptNext /\ TakingNext
  <2>1. Keep(clone, callbacks[call]) /\ clone \notin Callbacks
    BY <1>7 DEF GetClone
  <2> QED
    BY <1>4, <2>1
<1>8. CASE InvokeCallback(call) \/ InvokeBroadcastTo(call)
  <2>1. \E left : Fire(call, left)
    BY <1>8 DEF InvokeCallback, InvokeBroadcastTo
  <2> QED
    BY <1>2, <2>1, FireIsExact
<1> QED
  BY <1>1, <1>5, <1>6, <1>7, <1>8

LEMMA CallingIsExact ==
  ASSUME ProgramInv, ExactInv, NEW p \in Process, Calling(p)
  PROVE  /\ Invoked' /\ UNCHANGED distributed_objects
         /\ \E q \in Process, c \in Component : Ask(q, c)
         /\ RightPlaces => KeptNext /\ TakingNext
<1>1. PICK call \in Call \ ThroughCallback : Make(call)
  BY DEF Calling
<1>2. call \notin made /\ made' = made \cup {call} /\ Carry(call)
  BY <1>1 DEF Make
<1>3. UNCHANGED receivingVars /\ UNCHANGED callbacks
  BY DEF Calling
<1>4. Alike(call, call)
  BY DEF Alike
<1>5. call.from \in Process /\ call.component \in Component
  BY CallFields
<1>6. Ask(call.from, call.component) /\ UNCHANGED distributed_objects
  BY <1>2 DEF Carry
<1>7. RightPlaces => KeptNext /\ TakingNext
  BY <1>1, <1>2, <1>3, <1>4, CarryingIsExact
<1>8. Invoked'
  BY <1>1, <1>2, <1>3 DEF ExactInv, Invoked, Callbacks
<1> QED
  BY <1>5, <1>6, <1>7, <1>8

-----------------------------------------------------------------------------
(* All steps                                                               *)

LEMMA RunningIsExact ==
  ASSUME ProgramInv, ExactInv, AllRun, UNCHANGED <<distributed_objects, pc>>,
         UNCHANGED object_index \/ \E p \in Process, c \in Component : Ask(p, c),
         Invoked', turn' \in Nat, RightPlaces => KeptNext /\ TakingNext
  PROVE  ExactInv'
<1>1. View' = View /\ Numbered' /\ (RightPlaces' => RightPlaces)
  BY PlacesStay DEF ProgramInv, IInv, InsertTypeOK, ExactInv
<1>2. RightPlaces' => Held'
  BY <1>1 DEF Held, KeptNow, KeptNext, TakingNext
<1>3. Phases'
  BY DEF Phases, AllRun
<1> QED
  BY <1>1, <1>2, <1>3 DEF ExactInv

LEMMA OneRunsAllRun ==
  ASSUME ExactInv, NEW p \in Process, Running(p)
  PROVE  AllRun
BY DEF ExactInv, Phases, Running, AllRun

LEMMA NextExactInv ==
  ASSUME OneAtATime
  PROVE  ProgramInv /\ ExactInv /\ [Next]_programVars => ExactInv'
<1> SUFFICES ASSUME ProgramInv, ExactInv, [Next]_programVars PROVE ExactInv'
  OBVIOUS
<1>1. CASE Inserting
  BY <1>1, InsertingIsExact
<1>2. turn \in Nat /\ Invoked
  BY DEF ExactInv
<1>3. ASSUME AllRun, UNCHANGED <<insertVars, callbacks, made>>, turn' \in Nat,
             RightPlaces => KeptNext /\ TakingNext
      PROVE  ExactInv'
  <2>1. Invoked'
    BY <1>2, <1>3 DEF Invoked, Callbacks
  <2>2. UNCHANGED <<distributed_objects, pc, object_index>>
    BY <1>3 DEF insertVars
  <2> QED
    BY <1>3, <2>1, <2>2, RunningIsExact
<1>4. ASSUME NEW p \in Process, Calling(p)
      PROVE  ExactInv'
  <2>1. UNCHANGED <<pc, turn>> /\ AllRun
    BY <1>4, OneRunsAllRun DEF Calling, receivingVars
  <2> QED
    BY <1>2, <1>4, <2>1, CallingIsExact, RunningIsExact
<1>5. ASSUME NEW p \in Process, CallingBack(p)
      PROVE  ExactInv'
  <2>1. UNCHANGED <<pc, turn>> /\ AllRun
    BY <1>5, OneRunsAllRun DEF CallingBack, receivingVars
  <2> QED
    BY <1>2, <1>5, <2>1, CallingBackIsExact, RunningIsExact
<1>6. ASSUME NEW p \in Process, Sending(p) \/ Working(p) \/ TakingIn(p)
      PROVE  ExactInv'
  <2>1. UNCHANGED <<insertVars, callbacks, receivingVars, made>> /\ Running(p)
    BY <1>6 DEF Sending, Working, TakingIn, InitiateSend, Run, HandOn
  <2>2. AllRun
    BY <2>1, OneRunsAllRun
  <2>3. RightPlaces => KeptNext /\ TakingNext
    BY <1>6, SendingIsExact, WorkingIsExact, TakingInIsExact
  <2>4. turn' \in Nat
    BY <1>2, <2>1 DEF receivingVars
  <2> QED
    BY <1>3, <2>1, <2>2, <2>3, <2>4
<1>7. CASE Driving
  <2>1. AllRun /\ UNCHANGED insertVars
    BY <1>7, SelfIsAProcess, OneRunsAllRun DEF Driving
  <2>2. CASE Starting
    <3>1. UNCHANGED <<callbacks, made>> /\ turn' = turn + 1
      BY <2>2 DEF Starting, In!Receive
    <3> QED
      BY <1>2, <1>3, <2>1, <2>2, <3>1, StartingIsExact
  <2>3. CASE PassingBy
    <3>1. UNCHANGED callVars /\ UNCHANGED arrived /\ (In!Skip \/ In!ReceivesDone)
      BY <2>3 DEF PassingBy
    <3>2. turn' \in Nat
      BY <1>2, <3>1 DEF In!Skip, In!ReceivesDone
    <3>3. UNCHANGED <<callbacks, made>>
      BY <3>1 DEF callVars, deliveryVars
    <3> QED
      BY <1>3, <2>1, <3>1, <3>2, <3>3, PassingIsExact
  <2>4. CASE Cleaning /\ UNCHANGED callbacks
    <3>1. UNCHANGED made /\ turn' = turn
      BY <2>4, CleaningSteps DEF In!Clean, HandOn
    <3> QED
      BY <1>2, <1>3, <2>1, <2>4, <3>1, CleaningIsExact
  <2> QED
    BY <1>7, <2>2, <2>3, <2>4 DEF Driving
<1>8. CASE Arriving /\ UNCHANGED insertVars
  <2>1. UNCHANGED callVars /\ UNCHANGED arrived /\ \E n \in Rendezvous : In!Complete(n)
    BY <1>8 DEF Arriving
  <2>2. turn' \in Nat
    BY <1>2, <2>1 DEF In!Complete
  <2>3. UNCHANGED <<callbacks, made>>
    BY <2>1 DEF callVars, deliveryVars
  <2>4. AllRun
    <3>1. incoming # <<>>
      BY <2>1 DEF In!Complete
    <3> QED
      BY <3>1 DEF ExactInv, Phases, Nothing
  <2> QED
    BY <1>3, <1>8, <2>1, <2>2, <2>3, <2>4, PassingIsExact
<1>9. CASE UNCHANGED programVars
  <2>1. UNCHANGED insertVars /\ UNCHANGED callVars /\ UNCHANGED receivingVars
    BY <1>9 DEF programVars
  <2>2. /\ UNCHANGED <<made, outgoing, channel, tasks, ran, callbacks, arrived, incoming, receiving, turn>>
        /\ UNCHANGED <<distributed_objects, object_index, pc>>
    BY <2>1 DEF insertVars, callVars, deliveryVars, receivingVars
  <2>3. (RightPlaces => Held) => (RightPlaces => Held)'
    <3>1. View' = View /\ (RightPlaces' => RightPlaces)
      BY <2>2 DEF View, RightPlaces
    <3>2. Held => Held'
      BY <2>1, <2>2, <3>1, TakingStays DEF Held, KeptNow, TakingNext
    <3> QED
      BY <3>1, <3>2
  <2>4. Phases' /\ Numbered' /\ Invoked' /\ turn' \in Nat
    BY <2>2 DEF ExactInv, Phases, AllRun, Nothing, Numbered, NoTwice, Invoked, Callbacks
  <2> QED
    BY <2>3, <2>4 DEF ExactInv
<1> QED
  BY <1>1, <1>4, <1>5, <1>6, <1>7, <1>8, <1>9 DEF Next

-----------------------------------------------------------------------------
(* What it comes to                                                        *)

ToThem(objects, S) == {[process |-> objects[e], index |-> e] : e \in S \cap DOMAIN objects}
ToThose(S) == {[process |-> q, index |-> NoIndex] : q \in S}

LEMMA AddressedIs ==
  ASSUME NEW call
  PROVE  Addressed(call) =
           IF ~Knows(call.from, call.component) THEN {}
           ELSE IF call.component \in Collections
                THEN ToThem(HolderOf(call.from, call.component).objects,
                            IF ToAll(call) THEN DOMAIN HolderOf(call.from, call.component).objects
                            ELSE call.to)
                ELSE ToThose(IF ToAll(call) THEN Process ELSE call.to)
BY Zenon DEF Addressed, ToThem, ToThose

LEMMA AddressedIsOwed ==
  ASSUME NEW R, Settled(R), NEW call \in Call
  PROVE  /\ \A q, j : [process |-> q, index |-> j] \in Addressed(call) <=> Owes(R, call, q, j)
         /\ \A t \in Addressed(call) : t = [process |-> t.process, index |-> t.index]
<1> DEFINE p == call.from
           c == call.component
<1>1. p \in Process
  BY CallFields
<1>2. /\ Knows(p, c) <=> \E i \in DOMAIN R : R[i].name = c
      /\ \A i \in DOMAIN R : R[i].name = c =>
           Place(p, c) = i /\ HolderOf(p, c).objects = R[i].objects
  BY <1>1, SettledPlaces
<1>3. CASE ~Knows(p, c)
  <2>1. Addressed(call) = {}
    BY <1>3, AddressedIs
  <2>2. \A q, j : ~Owes(R, call, q, j)
    BY <1>2, <1>3 DEF Owes
  <2> QED
    BY <2>1, <2>2
<1>4. CASE Knows(p, c)
  <2>1. PICK i \in DOMAIN R : R[i].name = c
    BY <1>2, <1>4
  <2>2. PICK objects : objects = R[i].objects /\ HolderOf(p, c).objects = objects
    BY <1>2, <2>1
  <2>3. \A q, j : Owes(R, call, q, j) <=>
          IF c \in Collections
          THEN j \in DOMAIN objects /\ objects[j] = q /\ (ToAll(call) \/ j \in call.to)
          ELSE j = NoIndex /\ q \in Process /\ (ToAll(call) \/ q \in call.to)
    BY <2>1, <2>2, OwesByPlace
  <2>4. CASE c \in Collections
    <3>1. PICK S : S = IF ToAll(call) THEN DOMAIN objects ELSE call.to
      OBVIOUS
    <3>2. Addressed(call) = ToThem(objects, S)
      BY <1>4, <2>2, <2>4, <3>1, AddressedIs
    <3>3. \A q, j : [process |-> q, index |-> j] \in Addressed(call) <=>
                      j \in S /\ j \in DOMAIN objects /\ objects[j] = q
      BY <3>2 DEF ToThem
    <3>4. \A t \in Addressed(call) : t = [process |-> t.process, index |-> t.index]
      BY <3>2 DEF ToThem
    <3> QED
      BY <2>3, <2>4, <3>1, <3>3, <3>4
  <2>5. CASE c \notin Collections
    <3>1. PICK S : S = IF ToAll(call) THEN Process ELSE call.to
      OBVIOUS
    <3>2. Addressed(call) = ToThose(S)
      BY <1>4, <2>5, <3>1, AddressedIs
    <3>3. \A q, j : [process |-> q, index |-> j] \in Addressed(call) <=> q \in S /\ j = NoIndex
      BY <3>2 DEF ToThose
    <3>4. \A t \in Addressed(call) : t = [process |-> t.process, index |-> t.index]
      BY <3>2 DEF ToThose
    <3>5. ~ToAll(call) => call.to \subseteq Process
      <4>1. call.kind \in Kinds
        BY CallAssumption
      <4>2. ~ToAll(call) => call.kind \in {"invoke", "result", "broadcast_to"}
        BY <4>1 DEF Kinds, Results, ToAll
      <4>3. call.kind # "broadcast_to"
        BY <2>5, CallAssumption
      <4>4. call.kind \in {"invoke", "result"} => \E t \in call.to : call.to = {t} /\ t \in Process
        BY <2>5, CallAssumption
      <4> QED
        BY <4>2, <4>3, <4>4
    <3>6. \A q : q \in S <=> q \in Process /\ (ToAll(call) \/ q \in call.to)
      BY <3>1, <3>5
    <3> QED
      BY <2>3, <2>5, <3>3, <3>4, <3>6
  <2> QED
    BY <2>4, <2>5
<1> QED
  BY <1>3, <1>4

(* A carrier is a message, or has run.                                     *)
LEMMA CarriersAre ==
  ASSUME NEW R, NEW c \in CarriersOf(R, outgoing, channel, arrived, tasks, ran)
  PROVE  (\E m \in Messages : m.call = c.call) \/ \E x \in BagToSet(ran) : c = HasRun(x)
<1>1. \A p \in Process : InMessages(p) \subseteq Messages
  BY DEF Messages
<1>2. CASE c \in Waiting(R, outgoing)
  <2>1. PICK p \in Process : \E m \in BagToSet(outgoing[p]) : c = InQueue(R, p, m)
    BY <1>2, SMT DEF Waiting
  <2>2. PICK m \in BagToSet(outgoing[p]) : c = InQueue(R, p, m)
    BY <2>1
  <2>3. m \in Messages
    BY <1>1 DEF InMessages
  <2> QED
    BY <2>2, <2>3 DEF InQueue
<1>3. CASE c \in Travelling(R, channel)
  <2>1. \E p, q \in Process : \E m \in ToSet(channel[p][q]) : c = OnTheWay(R, p, q, m)
    BY <1>3, SMT DEF Travelling
  <2>2. PICK p, q \in Process : \E m \in ToSet(channel[p][q]) : c = OnTheWay(R, p, q, m)
    BY <2>1
  <2>3. PICK m \in ToSet(channel[p][q]) : c = OnTheWay(R, p, q, m)
    BY <2>2
  <2>4. m \in Messages
    <3>1. m \in InMessages(p)
      BY SMT DEF InMessages
    <3> QED
      BY <1>1, <3>1
  <2> QED
    BY <2>3, <2>4 DEF OnTheWay
<1>4. CASE c \in TakenIn(R, arrived)
  <2>1. PICK m \in arrived : c = InHand(R, m)
    BY <1>4 DEF TakenIn
  <2> QED
    BY <2>1 DEF InHand, Messages
<1>5. CASE c \in ToDo(tasks)
  <2>1. PICK p \in Process : \E m \in BagToSet(tasks[p]) : c = AsTask(p, m)
    BY <1>5, SMT DEF ToDo
  <2>2. PICK m \in BagToSet(tasks[p]) : c = AsTask(p, m)
    BY <2>1
  <2>3. m \in Messages
    BY <1>1 DEF InMessages
  <2> QED
    BY <2>2, <2>3 DEF AsTask
<1>6. CASE c \in HaveRun(ran)
  BY <1>6 DEF HaveRun
<1> QED
  BY <1>2, <1>3, <1>4, <1>5, <1>6 DEF CarriersOf

LEMMA OnlyTheAddressedRun ==
  ASSUME NEW R, Settled(R), Kept(R, outgoing, channel, arrived, tasks, ran, made), made \subseteq Call,
         NEW call \in made, NEW x \in RunsOf(call)
  PROVE  /\ ran[x] = 1 /\ x.component = call.component
         /\ [process |-> x.process, index |-> x.index] \in Addressed(call)
         /\ \A y \in RunsOf(call) :
              x.process = y.process /\ x.index = y.index /\ x.again = y.again => x = y
<1> DEFINE C == CarriersOf(R, outgoing, channel, arrived, tasks, ran)
<1>1. Exact(C, DueOf(R), made) /\ AllOnce(ran) /\ PlacedRuns(ran, made)
  BY DEF Kept, Carried, Once
<1>2. \A y \in RunsOf(call) : y \in BagToSet(ran) /\ y.call = call.name
  BY DEF RunsOf
<1>3. \A other \in made : other.name = call.name => other = call
  BY CallAssumption
<1>4. ran[x] = 1
  BY <1>1, <1>2 DEF AllOnce, BagToSet
<1>5. x.component = call.component
  BY <1>1, <1>2, <1>3 DEF PlacedRuns
<1>6. \A y \in RunsOf(call) : HasRun(y) \in C
  <2>1. HaveRun(ran) \subseteq C
    BY PartsAreCarriers
  <2> QED
    BY <1>2, <2>1 DEF HaveRun
<1>7. \A y : /\ HasRun(y).call = y.call /\ HasRun(y).what = y
             /\ HasRun(y).load = {Key(y.process, y.index, y.again)}
  BY DEF HasRun
<1> HIDE DEF C
<1>8. [process |-> x.process, index |-> x.index] \in Addressed(call)
  <2> DEFINE k == Key(x.process, x.index, x.again)
  <2>1. PICK other \in made : /\ HasRun(x).call = other.name
                              /\ \A l \in HasRun(x).load : IsDelivery(l) => l \in DueOf(R)[other]
    BY <1>1, <1>6 DEF Exact
  <2>2. other = call
    BY <1>2, <1>3, <1>7, <2>1
  <2>3. IsDelivery(k) /\ k \in HasRun(x).load
    BY <1>7 DEF IsDelivery, Key
  <2>4. k \in DueOf(R)[call]
    BY <2>1, <2>2, <2>3
  <2>5. PICK q, j : Owes(R, call, q, j) /\ k \in Turns(q, j, call.requeue)
    BY <2>4, DueIs
  <2>6. x.process = q /\ x.index = j
    <3>1. k = Key(q, j, FALSE) \/ k = Key(q, j, call.requeue)
      BY <2>5 DEF Turns
    <3> QED
      BY <3>1 DEF Key
  <2> QED
    BY <2>5, <2>6, AddressedIsOwed
<1>9. ASSUME NEW y \in RunsOf(call), x.process = y.process, x.index = y.index, x.again = y.again
      PROVE  x = y
  <2>1. \A c, d \in C : c.call = d.call /\ c.load \cap d.load # {} => c = d
    BY <1>1 DEF Exact
  <2>2. PICK k : k = Key(x.process, x.index, x.again)
    OBVIOUS
  <2>3. k \in HasRun(x).load /\ k \in HasRun(y).load
    BY <1>7, <1>9, <2>2
  <2>4. HasRun(x).call = HasRun(y).call
    BY <1>2, <1>7
  <2>5. HasRun(x) = HasRun(y)
    BY <1>6, <2>1, <2>3, <2>4
  <2> QED
    BY <1>7, <2>5
<1> QED
  BY <1>4, <1>5, <1>8, <1>9

LEMMA AnsweredInTheEnd ==
  ASSUME NEW R, Settled(R), Kept(R, outgoing, channel, arrived, tasks, ran, made), made \subseteq Call,
         NEW call \in made, ~\E m \in Messages : m.call = call.name
  PROVE  Answered(call)
<1> DEFINE C == CarriersOf(R, outgoing, channel, arrived, tasks, ran)
<1>1. Exact(C, DueOf(R), made)
  BY DEF Kept, Carried
<1> SUFFICES ASSUME NEW t \in Addressed(call)
             PROVE  \E x \in RunsOf(call) : x.process = t.process /\ x.index = t.index /\ ~x.again
  BY DEF Answered
<1> DEFINE k == Key(t.process, t.index, FALSE)
<1>2. Owes(R, call, t.process, t.index)
  BY AddressedIsOwed
<1>3. k \in DueOf(R)[call]
  BY <1>2, DueIs DEF Turns
<1>4. PICK c \in C : c.call = call.name /\ k \in c.load
  BY <1>1, <1>3 DEF Exact
<1>5. PICK x \in BagToSet(ran) : c = HasRun(x)
  BY <1>4, CarriersAre
<1>6. x.call = call.name /\ k = Key(x.process, x.index, x.again)
  BY <1>4, <1>5 DEF HasRun
<1>7. x.process = t.process /\ x.index = t.index /\ x.again = FALSE
  BY <1>6 DEF Key
<1> QED
  BY <1>6, <1>7 DEF RunsOf

LEMMA ExactInvSuffices ==
  ProgramInv /\ ExactInv => (RightPlaces => ExactlyTheAddressed)
<1> SUFFICES ASSUME ProgramInv, ExactInv, RightPlaces PROVE ExactlyTheAddressed
  OBVIOUS
<1>1. Settled(View) /\ KeptNow /\ made \subseteq Call
  BY RightIsHeld
<1>2. ASSUME NEW call \in made, NEW x \in RunsOf(call)
      PROVE  /\ ran[x] = 1 /\ x.component = call.component
             /\ [process |-> x.process, index |-> x.index] \in Addressed(call)
             /\ \A y \in RunsOf(call) :
                  x.process = y.process /\ x.index = y.index /\ x.again = y.again => x = y
  BY <1>1, OnlyTheAddressedRun DEF KeptNow
<1>3. \A call \in made : (\E m \in Messages : m.call = call.name) \/ Answered(call)
  BY <1>1, AnsweredInTheEnd DEF KeptNow
<1> QED
  BY <1>2, <1>3 DEF ExactlyTheAddressed

(* While the places in the registries are right, and one message is taken  *)
(* in at a time of those that do not arrive at once: a call reaches those  *)
(* it is to, each of them once and nobody else, on the component it is of, *)
(* whatever way its messages take through the processes, the tree and the  *)
(* queues, and as long as it has not reached them a message of it is left. *)
THEOREM CallsReachTheAddressed ==
  ASSUME OneAtATime
  PROVE  Spec => [](RightPlaces => ExactlyTheAddressed)
<1>1. ProgramInv /\ ExactInv /\ [Next]_programVars => ExactInv'
  BY NextExactInv
<1> QED
  BY <1>1, InitExactInv, ExactInvSuffices, ProgramInvHolds, PTL DEF Spec

-----------------------------------------------------------------------------
(* Components that are inserted in turn                                    *)

Inserts(call) == call.call \in {"component", "element"}
InsertedBefore(s, j, c) == \E k \in 1 .. j - 1 : Inserts(s[k]) /\ s[k].component = c

(* No component is inserted after another has been asked for that is not   *)
(* there yet: what the number of a component counts is then its insertion. *)
InTurn(s, asked, there) ==
  \A j \in DOMAIN s : Inserts(s[j]) =>
    \A c : c \in asked \/ (\E i \in 1 .. j - 1 : s[i].component = c) =>
      c = s[j].component \/ c \in there \/ InsertedBefore(s, j, c)
InsertedInTurn == \A s \in Program : InTurn(s, {}, {})

LEMMA TailInTurn ==
  ASSUME NEW s \in Seq(Insertion), s # <<>>, NEW asked, NEW there, InTurn(s, asked, there),
         NEW now, \A c \in now : c \in asked \/ c = Head(s).component,
         NEW then, there \subseteq then, Inserts(Head(s)) => Head(s).component \in then
  PROVE  InTurn(Tail(s), now, then)
<1>1. /\ Len(s) \in Nat /\ DOMAIN s = 1 .. Len(s) /\ Head(s) = s[1]
      /\ Tail(s) \in Seq(Insertion) /\ Len(Tail(s)) = Len(s) - 1
      /\ DOMAIN Tail(s) = 1 .. Len(Tail(s))
      /\ \A i \in 1 .. Len(s) - 1 : Tail(s)[i] = s[i + 1]
  OBVIOUS
<1> DEFINE t == Tail(s)
<1> HIDE DEF t
<1> SUFFICES ASSUME NEW j \in DOMAIN t, Inserts(t[j]), NEW c,
                    c \in now \/ \E i \in 1 .. j - 1 : t[i].component = c
             PROVE  c = t[j].component \/ c \in then \/ InsertedBefore(t, j, c)
  BY DEF InTurn, t
<1>2. j \in Nat /\ j + 1 \in DOMAIN s /\ t[j] = s[j + 1] /\ 1 \in 1 .. j
  BY <1>1 DEF t
<1>3. c \in asked \/ \E i \in 1 .. (j + 1) - 1 : s[i].component = c
  <2>1. CASE c \in now
    BY <1>1, <1>2, <2>1
  <2>2. ASSUME NEW i \in 1 .. j - 1, t[i].component = c
        PROVE  \E k \in 1 .. (j + 1) - 1 : s[k].component = c
    <3>1. i + 1 \in 1 .. (j + 1) - 1 /\ t[i] = s[i + 1]
      BY <1>1, <1>2 DEF t
    <3> QED
      BY <2>2, <3>1
  <2> QED
    BY <2>1, <2>2
<1>4. c = s[j + 1].component \/ c \in there \/ InsertedBefore(s, j + 1, c)
  BY <1>2, <1>3 DEF InTurn
<1>5. ASSUME InsertedBefore(s, j + 1, c)
      PROVE  c \in then \/ InsertedBefore(t, j, c)
  <2>1. PICK k \in 1 .. (j + 1) - 1 : Inserts(s[k]) /\ s[k].component = c
    BY <1>5 DEF InsertedBefore
  <2>2. CASE k = 1
    BY <1>1, <2>1, <2>2
  <2>3. CASE k # 1
    <3>1. k - 1 \in 1 .. j - 1 /\ t[k - 1] = s[k]
      BY <1>1, <1>2, <2>1, <2>3 DEF t
    <3> QED
      BY <2>1, <3>1 DEF InsertedBefore
  <2> QED
    BY <2>2, <2>3
<1> QED
  BY <1>2, <1>4, <1>5

(* The components that have an entry                                       *)
Present(objs) == {objs[i].name : i \in DOMAIN objs}
InPlace(s, objs) == \A i \in DOMAIN objs : i \in DOMAIN s /\ s[i] = objs[i].name

(* What is asked for next gets the place behind the others.                *)
LEMMA PlaceOfNext ==
  ASSUME NEW p \in Process, NEW c,
         object_index[p] \in Seq(Component), NoTwice(object_index[p]),
         NEW n \in Nat, NEW objs, DOMAIN objs = 1 .. n, n <= Len(object_index[p]),
         InPlace(object_index[p], objs),
         \A d \in ToSet(object_index[p]) : d = c \/ d \in Present(objs)
  PROVE  IF c \in Present(objs) THEN Place(p, c) \in 1 .. n ELSE Place(p, c) = n + 1
<1> DEFINE s == object_index[p]
<1>1. /\ Len(s) \in Nat /\ DOMAIN s = 1 .. Len(s)
      /\ \A d : d \in ToSet(s) <=> \E i \in DOMAIN s : s[i] = d
      /\ Contains(s, c) <=> \E i \in DOMAIN s : s[i] = c
  BY DEF ToSet, Contains
<1>2. Place(p, c) = IF Contains(s, c) THEN CHOOSE i \in DOMAIN s : s[i] = c ELSE Len(s) + 1
  BY DEF Place
<1>3. \A d : d \in Present(objs) <=> \E i \in 1 .. n : objs[i].name = d
  BY DEF Present
<1>4. \A i \in 1 .. n : i \in DOMAIN s /\ s[i] = objs[i].name
  BY DEF InPlace
<1> HIDE DEF s
<1>5. \A i, j \in DOMAIN s : s[i] = s[j] => i = j
  BY DEF NoTwice, s
<1>6. \A i \in DOMAIN s : s[i] = c \/ \E j \in 1 .. n : objs[j].name = s[i]
  BY <1>1, <1>3 DEF s
<1>7. CASE c \in Present(objs)
  <2>1. PICK i \in 1 .. n : objs[i].name = c
    BY <1>3, <1>7
  <2>2. i \in DOMAIN s /\ s[i] = c
    BY <1>4, <2>1
  <2>3. Place(p, c) \in DOMAIN s /\ s[Place(p, c)] = c
    BY <1>1, <1>2, <2>2
  <2>4. Place(p, c) = i
    BY <1>5, <2>2, <2>3
  <2> QED
    BY <1>7, <2>4
<1>8. CASE c \notin Present(objs)
  <2>1. \A i \in 1 .. n : s[i] # c
    BY <1>3, <1>4, <1>8
  <2>2. n < Len(s) => s[n + 1] = c
    <3> SUFFICES ASSUME n < Len(s), s[n + 1] # c PROVE FALSE
      OBVIOUS
    <3>1. n + 1 \in DOMAIN s
      BY <1>1
    <3>2. PICK j \in 1 .. n : objs[j].name = s[n + 1]
      BY <1>6, <3>1
    <3>3. j \in DOMAIN s /\ s[j] = s[n + 1]
      BY <1>4, <3>2
    <3>4. j = n + 1
      BY <1>5, <3>1, <3>3
    <3> QED
      BY <3>4
  <2>3. CASE Contains(s, c)
    <3>1. Place(p, c) \in DOMAIN s /\ s[Place(p, c)] = c
      BY <1>1, <1>2, <2>3
    <3>2. n < Len(s)
      BY <1>1, <2>1, <3>1 DEF s
    <3>3. n + 1 \in DOMAIN s
      BY <1>1, <3>2
    <3> QED
      BY <1>5, <1>8, <2>2, <3>1, <3>2, <3>3
  <2>4. CASE ~Contains(s, c)
    <3>1. ~(n < Len(s))
      BY <1>1, <2>2, <2>4
    <3>2. n = Len(s)
      BY <1>1, <3>1 DEF s
    <3> QED
      BY <1>2, <1>8, <2>4, <3>2
  <2> QED
    BY <2>3, <2>4
<1> QED
  BY <1>7, <1>8

LEMMA NamesStay ==
  ASSUME NEW h \in Holder, NEW e \in ElementIndex, NEW q \in Process, NEW p \in Process
  PROVE  WithElement(h, e, q, p).name = h.name /\ WithoutElement(h, e, p).name = h.name
BY DEF WithElement, WithoutElement, Holder

SameNames(new, objs) == DOMAIN new = DOMAIN objs /\ \A i \in DOMAIN objs : new[i].name = objs[i].name
OneLonger(new, objs, c) ==
  /\ DOMAIN new = 1 .. Len(objs) + 1
  /\ \A i \in DOMAIN objs : new[i].name = objs[i].name
  /\ new[Len(objs) + 1].name = c

LEMMA ReplacedKeepsNames ==
  ASSUME NEW objs, NEW i, NEW h, i \in DOMAIN objs => h.name = objs[i].name
  PROVE  SameNames([objs EXCEPT ![i] = h], objs)
BY DEF SameNames

(* The entries of a process after a call                                   *)
LEMMA PerformAdds ==
  ASSUME RegistryTypeOK, NEW p \in Process, NEW call \in Insertion, Perform(p, call),
         NEW objs, objs = distributed_objects[p], NEW place, place = Place(p, call.component),
         Inserts(call) => place \in 1 .. Len(objs) + 1
  PROVE  \/ /\ SameNames(distributed_objects'[p], objs)
            /\ Inserts(call) => place \in 1 .. Len(objs)
         \/ /\ OneLonger(distributed_objects'[p], objs, call.component)
            /\ Inserts(call) /\ place = Len(objs) + 1
<1> DEFINE c == call.component
<1>0. c \in Component
  BY DEF Insertion
<1>1. /\ distributed_objects \in [Process -> Seq(Holder)] /\ objs \in Seq(Holder)
      /\ Len(objs) \in Nat /\ DOMAIN objs = 1 .. Len(objs)
  BY DEF RegistryTypeOK
<1>2. /\ call.call = "element" => call.index \in ElementIndex
      /\ call.call = "remove" => call.index \in ElementIndex
  <2>1. call.call = "element" => call.index \in ElementIndex
    BY DEF Insertion
  <2>2. call.call = "remove" => call.index \in ElementIndex
    BY DEF Insertion
  <2> QED
    BY <2>1, <2>2
<1>3. SameNames(objs, objs)
  BY DEF SameNames
<1>4. CASE call.call = "component" /\ InsertComponent(p, c)
  <2>1. CASE Inserted(p, c)
    <3>1. distributed_objects' = distributed_objects
      BY <1>4, <2>1 DEF InsertComponent
    <3>2. place <= Len(objs)
      BY <2>1 DEF Inserted
    <3>3. Inserts(call)
      BY <1>4 DEF Inserts
    <3>4. place \in 1 .. Len(objs)
      BY <1>1, <3>2, <3>3
    <3> QED
      BY <1>3, <3>1, <3>4
  <2>2. CASE ~Inserted(p, c)
    <3>1. distributed_objects' = [distributed_objects EXCEPT ![p] = Append(objs, Regular(c))]
      BY <1>4, <2>2 DEF InsertComponent
    <3>2. distributed_objects'[p] = Append(objs, Regular(c))
      BY <1>1, <3>1
    <3>3. Regular(c).name = c /\ Regular(c) \in Holder
      BY <1>0, <1>4, RegularMatches DEF Regular, InsertComponent
    <3>4. OneLonger(Append(objs, Regular(c)), objs, c)
      <4>1. PICK h \in Holder : h = Regular(c) /\ h.name = c
        BY <3>3
      <4>2. /\ DOMAIN Append(objs, h) = 1 .. Len(objs) + 1
            /\ \A i \in DOMAIN objs : Append(objs, h)[i] = objs[i]
            /\ Append(objs, h)[Len(objs) + 1] = h
        BY <1>1
      <4> QED
        BY <4>1, <4>2 DEF OneLonger
    <3>5. Inserts(call) /\ ~(place <= Len(objs))
      BY <1>4, <2>2 DEF Inserted, Inserts
    <3>6. place = Len(objs) + 1
      BY <1>1, <3>5
    <3> QED
      BY <3>2, <3>4, <3>5, <3>6
  <2> QED
    BY <2>1, <2>2
<1>5. CASE call.call = "element" /\ InsertElement(p, c, call.index, call.process)
  <2>1. Inserts(call) /\ place \in 1 .. Len(objs) + 1 /\ c \in Collections
    BY <1>5 DEF Inserts, InsertElement
  <2>2. PICK here : here = Opened(p, c)
    OBVIOUS
  <2>3. PICK at : at = here[place]
    OBVIOUS
  <2>4. distributed_objects' = [distributed_objects EXCEPT ![p] =
            IF at.name \notin Collections \/ call.index \in DOMAIN at.objects \/ call.process \notin Process
            THEN here
            ELSE [here EXCEPT ![place] = WithElement(at, call.index, call.process, p)]]
    BY <1>5, <2>2, <2>3 DEF InsertElement
  <2>5. distributed_objects'[p] = here \/
          (call.process \in Process /\
           distributed_objects'[p] = [here EXCEPT ![place] = WithElement(at, call.index, call.process, p)])
    BY <1>1, <2>4
  <2>6. here = IF place = Len(objs) + 1 THEN Append(objs, Empty(c)) ELSE objs
    BY <2>2 DEF Opened
  <2>7. /\ here \in Seq(Holder) /\ place \in DOMAIN here
        /\ IF place = Len(objs) + 1 THEN OneLonger(here, objs, c) ELSE here = objs
    <3>1. PICK h \in Holder : h = Empty(c) /\ h.name = c
      BY <1>0, EmptyMatches DEF Empty
    <3>2. /\ Append(objs, h) \in Seq(Holder)
          /\ DOMAIN Append(objs, h) = 1 .. Len(objs) + 1
          /\ \A i \in DOMAIN objs : Append(objs, h)[i] = objs[i]
          /\ Append(objs, h)[Len(objs) + 1] = h
      BY <1>1
    <3>3. OneLonger(Append(objs, h), objs, c)
      BY <3>1, <3>2 DEF OneLonger
    <3>4. here = IF place = Len(objs) + 1 THEN Append(objs, h) ELSE objs
      BY <2>6, <3>1
    <3> QED
      BY <1>1, <2>1, <3>2, <3>3, <3>4
  <2>8. at \in Holder
    BY <2>3, <2>7
  <2>9. SameNames(distributed_objects'[p], here)
    <3>1. CASE distributed_objects'[p] = here
      BY <3>1 DEF SameNames
    <3>2. CASE call.process \in Process /\
               distributed_objects'[p] = [here EXCEPT ![place] = WithElement(at, call.index, call.process, p)]
      <4>1. PICK h : h = WithElement(at, call.index, call.process, p)
        OBVIOUS
      <4>2. h.name = at.name
        BY <1>2, <1>5, <2>8, <3>2, <4>1, NamesStay
      <4>3. SameNames([here EXCEPT ![place] = h], here)
        BY <2>3, <4>2, ReplacedKeepsNames
      <4> QED
        BY <3>2, <4>1, <4>3
    <3> QED
      BY <2>5, <3>1, <3>2
  <2>10. CASE place = Len(objs) + 1
    <3>1. OneLonger(here, objs, c)
      BY <2>7, <2>10
    <3>2. OneLonger(distributed_objects'[p], objs, c)
      <4>1. \A i \in DOMAIN objs : i \in DOMAIN here
        BY <1>1, <3>1 DEF OneLonger
      <4>2. Len(objs) + 1 \in DOMAIN here
        BY <1>1, <3>1 DEF OneLonger
      <4> QED
        BY <2>9, <3>1, <4>1, <4>2 DEF OneLonger, SameNames
    <3> QED
      BY <2>1, <2>10, <3>2
  <2>11. CASE place # Len(objs) + 1
    <3>1. here = objs /\ place \in 1 .. Len(objs)
      BY <1>1, <2>1, <2>7, <2>11
    <3> QED
      BY <2>9, <3>1
  <2> QED
    BY <2>10, <2>11
<1>6. CASE call.call = "remove" /\ RemoveElement(p, c, call.index)
  <2>1. ~Inserts(call)
    BY <1>6 DEF Inserts
  <2>2. PICK found : found <=> /\ Inserted(p, c) /\ objs[place].name \in Collections
                               /\ call.index \in DOMAIN objs[place].objects
    OBVIOUS
  <2>3. distributed_objects' =
          IF ~found THEN distributed_objects
          ELSE [distributed_objects EXCEPT ![p] =
                  [objs EXCEPT ![place] = WithoutElement(objs[place], call.index, p)]]
    BY <1>1, <1>6, <2>2 DEF RemoveElement
  <2>4. CASE ~found
    BY <1>3, <2>1, <2>3, <2>4
  <2>5. CASE found
    <3>1. PICK h : h = WithoutElement(objs[place], call.index, p)
      OBVIOUS
    <3>2. place \in DOMAIN objs => h.name = objs[place].name
      BY <1>1, <1>2, <1>6, <3>1, NamesStay
    <3>3. SameNames([objs EXCEPT ![place] = h], objs)
      BY <3>2, ReplacedKeepsNames
    <3>4. distributed_objects'[p] = [objs EXCEPT ![place] = h]
      BY <1>1, <2>3, <2>5, <3>1
    <3> QED
      BY <2>1, <3>3, <3>4
  <2> QED
    BY <2>4, <2>5
<1>7. CASE call.call = "look up" /\ LookUp(p, c)
  <2>1. ~Inserts(call) /\ distributed_objects' = distributed_objects
    BY <1>7 DEF Inserts, LookUp
  <2> QED
    BY <1>3, <2>1
<1> QED
  BY <1>4, <1>5, <1>6, <1>7 DEF Perform

(* An insertion in its turn gets the place of the number, and the numbers  *)
(* of what is there stay what they are.                                    *)
LEMMA PerformInOrder ==
  ASSUME RegistryTypeOK, Numbered, NEW p \in Process, NEW call \in Insertion, Perform(p, call),
         NEW objs, objs = distributed_objects[p], InPlace(object_index[p], objs),
         Inserts(call) => \A d \in ToSet(object_index[p]) : d = call.component \/ d \in Present(objs)
  PROVE  /\ InPlace(object_index'[p], distributed_objects'[p])
         /\ Present(objs) \subseteq Present(distributed_objects'[p])
         /\ Inserts(call) => call.component \in Present(distributed_objects'[p])
         /\ \A d \in ToSet(object_index'[p]) : d \in ToSet(object_index[p]) \/ d = call.component
<1>0. call.component \in Component
  BY DEF Insertion
<1>1. PICK c \in Component : c = call.component
  BY <1>0
<1>2. PICK place : place = Place(p, c)
  OBVIOUS
<1>3. /\ objs \in Seq(Holder) /\ Len(objs) \in Nat /\ DOMAIN objs = 1 .. Len(objs)
      /\ object_index[p] \in Seq(Component) /\ NoTwice(object_index[p])
      /\ Len(objs) <= Len(object_index[p])
  BY DEF RegistryTypeOK, Numbered
<1>4. Inserts(call) => IF c \in Present(objs) THEN place \in 1 .. Len(objs) ELSE place = Len(objs) + 1
  BY <1>1, <1>2, <1>3, PlaceOfNext
<1>5. PICK new : new = distributed_objects'[p]
  OBVIOUS
<1>6. \/ SameNames(new, objs) /\ (Inserts(call) => place \in 1 .. Len(objs))
      \/ OneLonger(new, objs, c) /\ Inserts(call) /\ place = Len(objs) + 1
  <2>1. Inserts(call) => place \in 1 .. Len(objs) + 1
    BY <1>3, <1>4
  <2> QED
    BY <1>1, <1>2, <1>5, <2>1, PerformAdds
<1>7. PICK s : s = object_index'[p]
  OBVIOUS
<1>8. Ask(p, c)
  BY <1>1 DEF Perform, InsertComponent, InsertElement, RemoveElement, LookUp
<1>9. s = Asked(p, c)
  BY <1>7, <1>8 DEF Ask, RegistryTypeOK
<1>10. /\ \A i \in DOMAIN object_index[p] : i \in DOMAIN s /\ s[i] = object_index[p][i]
       /\ place \in DOMAIN s /\ s[place] = c
       /\ \A d \in ToSet(s) : d \in ToSet(object_index[p]) \/ d = c
  <2>1. CASE Contains(object_index[p], c)
    <3>1. s = object_index[p] /\ place = CHOOSE i \in DOMAIN s : s[i] = c
      BY <1>2, <1>9, <2>1 DEF Asked, Place
    <3>2. \E i \in DOMAIN s : s[i] = c
      BY <1>3, <2>1, <3>1 DEF Contains
    <3> QED
      BY <3>1, <3>2
  <2>2. CASE ~Contains(object_index[p], c)
    <3>1. s = Append(object_index[p], c) /\ place = Len(object_index[p]) + 1
      BY <1>2, <1>9, <2>2 DEF Asked, Place
    <3>2. /\ Len(object_index[p]) \in Nat
          /\ DOMAIN object_index[p] = 1 .. Len(object_index[p])
          /\ DOMAIN s = 1 .. Len(object_index[p]) + 1
          /\ \A i \in DOMAIN object_index[p] : s[i] = object_index[p][i]
          /\ s[Len(object_index[p]) + 1] = c
      BY <1>3, <3>1
    <3>3. \A i \in DOMAIN s : i \in DOMAIN object_index[p] \/ i = Len(object_index[p]) + 1
      BY <3>2
    <3>4. \A d \in ToSet(s) : d \in ToSet(object_index[p]) \/ d = c
      BY <3>2, <3>3 DEF ToSet
    <3> QED
      BY <3>1, <3>2, <3>4
  <2> QED
    BY <2>1, <2>2
<1>11. \A i \in DOMAIN objs : i \in DOMAIN s /\ s[i] = objs[i].name
  BY <1>10 DEF InPlace
<1>12. CASE SameNames(new, objs) /\ (Inserts(call) => place \in 1 .. Len(objs))
  <2>1. InPlace(s, new) /\ Present(objs) \subseteq Present(new)
    BY <1>11, <1>12 DEF SameNames, InPlace, Present
  <2>2. Inserts(call) => c \in Present(new)
    <3> SUFFICES ASSUME Inserts(call) PROVE c \in Present(new)
      OBVIOUS
    <3>1. place \in DOMAIN objs
      BY <1>3, <1>12
    <3>2. objs[place].name = c
      BY <1>10, <1>11, <3>1
    <3> QED
      BY <1>12, <3>1, <3>2 DEF SameNames, Present
  <2> QED
    BY <1>1, <1>5, <1>7, <1>10, <2>1, <2>2
<1>13. CASE OneLonger(new, objs, c) /\ Inserts(call) /\ place = Len(objs) + 1
  <2>1. /\ \A i \in DOMAIN new : i \in DOMAIN objs \/ i = place
        /\ \A i \in DOMAIN objs : i \in DOMAIN new /\ new[i].name = objs[i].name
        /\ place \in DOMAIN new /\ new[place].name = c
    BY <1>3, <1>13 DEF OneLonger
  <2>2. InPlace(s, new)
    BY <1>10, <1>11, <2>1 DEF InPlace
  <2>3. Present(objs) \subseteq Present(new) /\ c \in Present(new)
    BY <2>1 DEF Present
  <2> QED
    BY <1>1, <1>5, <1>7, <1>10, <2>2, <2>3
<1> QED
  BY <1>6, <1>12, <1>13

LEMMA OthersAreLeftAlone ==
  ASSUME RegistryTypeOK, NEW p \in Process, NEW call, Perform(p, call), NEW q \in Process, q # p
  PROVE  /\ object_index'[q] = object_index[q] /\ distributed_objects'[q] = distributed_objects[q]
         /\ in_insert_mode'[q] = in_insert_mode[q]
<1>1. Ask(p, call.component)
  BY DEF Perform, InsertComponent, InsertElement, RemoveElement, LookUp
<1>2. object_index'[q] = object_index[q]
  BY <1>1 DEF Ask, RegistryTypeOK
<1>3. distributed_objects' = distributed_objects
      \/ \E new : distributed_objects' = [distributed_objects EXCEPT ![p] = new]
  BY DEF Perform, InsertComponent, InsertElement, RemoveElement, LookUp
<1>4. in_insert_mode' = in_insert_mode \/ in_insert_mode' = [in_insert_mode EXCEPT ![p] = TRUE]
  BY DEF Perform, InsertComponent, InsertElement, RemoveElement, LookUp
<1> QED
  BY <1>2, <1>3, <1>4 DEF RegistryTypeOK

(* In the state of the whole program                                       *)
OrderedAt(p) ==
  /\ InPlace(object_index[p], distributed_objects[p])
  /\ pc[p] # "insert" => todo[p] = <<>>
  /\ pc[p] = "run" => ~in_insert_mode[p]
  /\ InTurn(todo[p], ToSet(object_index[p]), Present(distributed_objects[p]))
Ordered == \A p \in Process : OrderedAt(p)

LEMMA InitOrdered == InsertedInTurn /\ InsertInit => Ordered
<1> SUFFICES ASSUME InsertedInTurn, InsertInit, NEW p \in Process PROVE OrderedAt(p)
  BY DEF Ordered
<1>1. object_index[p] = <<>> /\ distributed_objects[p] = <<>> /\ pc[p] = "insert" /\ todo[p] \in Program
  BY DEF InsertInit, RegistryInit
<1>2. ToSet(object_index[p]) = {} /\ Present(distributed_objects[p]) = {}
  BY <1>1 DEF ToSet, Present
<1>3. InTurn(todo[p], {}, {})
  BY <1>1 DEF InsertedInTurn
<1>4. InPlace(object_index[p], distributed_objects[p])
  BY <1>1 DEF InPlace
<1>5. InTurn(todo[p], ToSet(object_index[p]), Present(distributed_objects[p]))
  BY <1>2, <1>3
<1> QED
  BY <1>1, <1>4, <1>5 DEF OrderedAt

LEMMA PrepareKeepsOrder ==
  ASSUME IInv, Numbered, Ordered, NEW p \in Process, Prepare(p)
  PROVE  Ordered'
<1>1. /\ RegistryTypeOK /\ todo \in [Process -> Seq(Insertion)]
      /\ object_index \in [Process -> Seq(Component)]
  BY DEF IInv, InsertTypeOK, RegistryTypeOK
<1>2. PICK s \in Seq(Insertion) : s = todo[p]
  BY <1>1
<1>3. /\ s # <<>> /\ Perform(p, Head(s)) /\ todo' = [todo EXCEPT ![p] = Tail(s)] /\ UNCHANGED pc
      /\ pc[p] = "insert"
  BY <1>2 DEF Prepare
<1>4. PICK call \in Insertion : call = Head(s)
  BY <1>3
<1>5. PICK objs : objs = distributed_objects[p]
  OBVIOUS
<1>6. InPlace(object_index[p], objs) /\ InTurn(s, ToSet(object_index[p]), Present(objs))
  BY <1>2, <1>5 DEF Ordered, OrderedAt
<1>7. Inserts(call) => \A d \in ToSet(object_index[p]) : d = call.component \/ d \in Present(objs)
  <2>1. s[1] = call /\ 1 \in DOMAIN s /\ 1 .. 1 - 1 = {}
    BY <1>3, <1>4
  <2> QED
    BY <1>6, <2>1 DEF InTurn, InsertedBefore
<1>8. /\ InPlace(object_index'[p], distributed_objects'[p])
      /\ Present(objs) \subseteq Present(distributed_objects'[p])
      /\ Inserts(call) => call.component \in Present(distributed_objects'[p])
      /\ \A d \in ToSet(object_index'[p]) : d \in ToSet(object_index[p]) \/ d = call.component
  BY <1>1, <1>3, <1>4, <1>5, <1>6, <1>7, PerformInOrder
<1>9. InTurn(todo'[p], ToSet(object_index'[p]), Present(distributed_objects'[p]))
  <2>1. PICK now : now = ToSet(object_index'[p])
    OBVIOUS
  <2>2. PICK then : then = Present(distributed_objects'[p])
    OBVIOUS
  <2>3. InTurn(Tail(s), now, then)
    BY <1>3, <1>4, <1>6, <1>8, <2>1, <2>2, TailInTurn
  <2>4. todo'[p] = Tail(s)
    BY <1>1, <1>3
  <2> QED
    BY <2>1, <2>2, <2>3, <2>4
<1>10. ASSUME NEW q \in Process PROVE OrderedAt(q)'
  <2>1. CASE q = p
    BY <1>3, <1>8, <1>9, <2>1 DEF OrderedAt
  <2>2. CASE q # p
    <3>1. /\ object_index'[q] = object_index[q] /\ distributed_objects'[q] = distributed_objects[q]
          /\ in_insert_mode'[q] = in_insert_mode[q]
      BY <1>1, <1>3, <2>2, OthersAreLeftAlone
    <3>2. todo'[q] = todo[q] /\ pc'[q] = pc[q]
      BY <1>1, <1>3, <2>2
    <3> QED
      BY <3>1, <3>2 DEF Ordered, OrderedAt
  <2> QED
    BY <2>1, <2>2
<1> QED
  BY <1>10 DEF Ordered

(* Only a process that has made all its calls goes on to the barrier.      *)
LEMMA InsertingKeepsOrder ==
  IInv /\ Numbered /\ Ordered /\ [InsertNext]_insertVars => Ordered'
<1> SUFFICES ASSUME IInv, Numbered, Ordered, [InsertNext]_insertVars PROVE Ordered'
  OBVIOUS
<1>1. ASSUME UNCHANGED <<object_index, distributed_objects, todo>>,
             \A q \in Process : pc'[q] # "insert" => todo[q] = <<>>,
             \A q \in Process : pc'[q] = "run" => ~in_insert_mode'[q]
      PROVE  Ordered'
  BY <1>1 DEF Ordered, OrderedAt
<1>2. \A q \in Process : /\ pc[q] # "insert" => todo[q] = <<>>
                         /\ pc[q] = "run" => ~in_insert_mode[q]
  BY DEF Ordered, OrderedAt
<1>3. pc \in [Process -> Barrier!Places]
  BY DEF IInv, InsertTypeOK
<1>4. ASSUME NEW p \in Process, Prepare(p) PROVE Ordered'
  BY <1>4, PrepareKeepsOrder
<1>5. ASSUME NEW p \in Process, Check(p) PROVE Ordered'
  <2>1. UNCHANGED <<object_index, distributed_objects, todo>> /\ todo[p] = <<>>
    BY <1>2, <1>5 DEF Check
  <2>2. UNCHANGED in_insert_mode /\ \E place : place # "run" /\ pc' = [pc EXCEPT ![p] = place]
    <3>1. \A child, here, next : Barrier!CompareWith(p, child, here, next) /\ next # "run" =>
            UNCHANGED in_insert_mode /\ \E place : place # "run" /\ pc' = [pc EXCEPT ![p] = place]
      BY DEF Barrier!CompareWith, Barrier!Goto
    <3>2. Barrier!Step(p)
      BY <1>5 DEF Check
    <3> QED
      BY <3>1, <3>2 DEF Barrier!Step, Barrier!Enter, Barrier!SendUp, Barrier!SendDone,
         Barrier!Goto
  <2>3. \A q \in Process : IF q = p THEN pc'[q] # "run" ELSE pc'[q] = pc[q]
    BY <1>3, <2>2
  <2> QED
    BY <1>1, <1>2, <2>1, <2>2, <2>3
<1>6. CASE Meet
  <2>1. \A q \in Process : pc[q] # "insert"
    BY <1>6, SameTree DEF Meet, Barrier!FirstBarrier, Barrier!SecondBarrier
  <2>2. \A q \in Process : pc'[q] = "run" => ~in_insert_mode'[q]
    BY <1>6, SameTree DEF Meet, Barrier!FirstBarrier, Barrier!SecondBarrier
  <2> QED
    BY <1>1, <1>2, <1>6, <2>1, <2>2 DEF Meet
<1>7. CASE UNCHANGED insertVars
  BY <1>1, <1>2, <1>7 DEF insertVars
<1> QED
  BY <1>4, <1>5, <1>6, <1>7 DEF InsertNext

(* While actions are called, components may be asked for, but not inserted. *)
LEMMA RunningKeepsOrder ==
  ASSUME RegistryTypeOK, Numbered, Ordered, AllRun,
         UNCHANGED <<distributed_objects, in_insert_mode, todo, pc>>,
         UNCHANGED object_index \/ \E p \in Process, c \in Component : Ask(p, c)
  PROVE  Ordered'
<1> SUFFICES ASSUME NEW q \in Process PROVE OrderedAt(q)'
  BY DEF Ordered
<1>1. /\ InPlace(object_index[q], distributed_objects[q])
      /\ pc[q] # "insert" /\ todo[q] = <<>> /\ ~in_insert_mode[q]
  BY DEF Ordered, OrderedAt, AllRun
<1>2. InTurn(todo'[q], ToSet(object_index'[q]), Present(distributed_objects'[q]))
  BY <1>1 DEF InTurn
<1>3. \A i \in DOMAIN object_index[q] :
        i \in DOMAIN object_index'[q] /\ object_index'[q][i] = object_index[q][i]
  <2>1. CASE UNCHANGED object_index
    BY <2>1
  <2>2. ASSUME NEW p \in Process, NEW c \in Component, Ask(p, c)
        PROVE  \A i \in DOMAIN object_index[q] :
                 i \in DOMAIN object_index'[q] /\ object_index'[q][i] = object_index[q][i]
    <3>1. /\ Len(object_index[q]) <= Len(object_index'[q])
          /\ \A i \in DOMAIN object_index[q] : object_index'[q][i] = object_index[q][i]
      BY <2>2, AskKeepsNumbers
    <3>2. object_index[q] \in Seq(Component) /\ object_index'[q] \in Seq(Component)
      <4>1. Asked(p, c) \in Seq(Component)
        BY PlaceIsANumber
      <4>2. object_index' \in [Process -> Seq(Component)]
        BY <2>2, <4>1 DEF Ask, RegistryTypeOK
      <4> QED
        BY <4>2 DEF RegistryTypeOK
    <3>3. /\ DOMAIN object_index[q] = 1 .. Len(object_index[q]) /\ Len(object_index[q]) \in Nat
          /\ DOMAIN object_index'[q] = 1 .. Len(object_index'[q]) /\ Len(object_index'[q]) \in Nat
      BY <3>2
    <3> QED
      BY <3>1, <3>3
  <2> QED
    BY <2>1, <2>2
<1>4. InPlace(object_index'[q], distributed_objects'[q])
  BY <1>1, <1>3 DEF InPlace
<1> QED
  BY <1>1, <1>2, <1>4 DEF OrderedAt

LEMMA CallbacksChangeNoMode ==
  ASSUME NEW p \in Process, CallingBack(p)
  PROVE  UNCHANGED in_insert_mode
<1>1. \A call, left : Fire(call, left) => UNCHANGED in_insert_mode
  BY DEF Fire, Carry
<1>2. \A call, callback : Keep(call, callback) => UNCHANGED in_insert_mode
  BY DEF Keep, registryVars
<1> QED
  BY <1>1, <1>2
     DEF CallingBack, MakeCallback, MakeBroadcastTo, UpdateArguments, GetClone, InvokeCallback,
         InvokeBroadcastTo

LEMMA NextOrdered == ProgramInv /\ ExactInv /\ Ordered /\ [Next]_programVars => Ordered'
<1> SUFFICES ASSUME ProgramInv, ExactInv, Ordered, [Next]_programVars PROVE Ordered'
  OBVIOUS
<1>1. IInv /\ RegistryTypeOK /\ Numbered
  BY DEF ProgramInv, ExactInv, IInv, InsertTypeOK
<1>2. ASSUME UNCHANGED insertVars PROVE Ordered'
  BY <1>1, <1>2, InsertingKeepsOrder
<1>3. CASE Inserting
  BY <1>1, <1>3, InsertingKeepsOrder DEF Inserting
<1>4. ASSUME NEW p \in Process, Calling(p) PROVE Ordered'
  <2>1. AllRun /\ UNCHANGED <<in_insert_mode, todo, pc>>
    BY <1>4, OneRunsAllRun DEF Calling, Make, Carry
  <2> QED
    BY <1>1, <1>4, <2>1, CallingIsExact, RunningKeepsOrder
<1>5. ASSUME NEW p \in Process, CallingBack(p) PROVE Ordered'
  <2>1. AllRun /\ UNCHANGED <<in_insert_mode, todo, pc>>
    BY <1>5, OneRunsAllRun, CallbacksChangeNoMode DEF CallingBack
  <2> QED
    BY <1>1, <1>5, <2>1, CallingBackIsExact, RunningKeepsOrder
<1>6. ASSUME NEW p \in Process, Sending(p) \/ Working(p) \/ TakingIn(p) PROVE Ordered'
  BY <1>2, <1>6 DEF Sending, Working, TakingIn
<1>7. CASE Driving \/ (Arriving /\ UNCHANGED insertVars)
  BY <1>2, <1>7 DEF Driving
<1>8. CASE UNCHANGED programVars
  BY <1>2, <1>8 DEF programVars
<1> QED
  BY <1>3, <1>4, <1>5, <1>6, <1>7, <1>8 DEF Next

(* Then it depends on the promise of insert_barrier alone.                 *)
LEMMA OrderedSuffices ==
  ASSUME ProgramInv, ExactInv, Ordered, SameNumbering
  PROVE  ExactlyTheAddressed
<1>1. CASE AllRun
  <2>1. Root \in Process
    BY ProcessesAre
  <2>2. ~in_insert_mode[Root]
    BY <1>1, <2>1 DEF AllRun, Ordered, OrderedAt
  <2>3. \A p \in Process : Named(distributed_objects[p]) = View
    BY <2>1, <2>2 DEF SameNumbering, View
  <2>4. RightPlaces
    BY <2>3 DEF RightPlaces, Ordered, OrderedAt, InPlace
  <2> QED
    BY <2>4, ExactInvSuffices
<1>2. CASE Nothing
  <2>1. made = {}
    BY <1>2 DEF Nothing
  <2> QED
    BY <2>1 DEF ExactlyTheAddressed
<1> QED
  BY <1>1, <1>2 DEF ExactInv, Phases

(* If no process inserts a component after it has asked for another that   *)
(* is not there yet, and insert_barrier keeps its promise that all have    *)
(* inserted the same in the same order, every call reaches those it is to, *)
(* each of them once and nobody else, whatever way its messages take; the  *)
(* receiving process being asked to take in one message at a time of those *)
(* that do not arrive at once, as remove_if loses messages otherwise.      *)
THEOREM PromisedOrderIsEnough ==
  ASSUME OneAtATime, InsertedInTurn
  PROVE  Spec => [](SameNumbering => ExactlyTheAddressed)
<1>1. Init => Ordered
  BY InitOrdered DEF Init
<1>2. ProgramInv /\ ExactInv /\ [Next]_programVars => ExactInv'
  BY NextExactInv
<1>3. ProgramInv /\ ExactInv /\ Ordered => (SameNumbering => ExactlyTheAddressed)
  BY OrderedSuffices
<1> QED
  BY <1>1, <1>2, <1>3, InitExactInv, NextOrdered, ProgramInvHolds, PTL DEF Spec
=============================================================================
