---------------------------- MODULE Atomic128Proofs ----------------------------
(***************************************************************************)
(* Atomic128 implements its interface, for any number of threads and any   *)
(* calls on any build, and with the exception that Lossy makes.            *)
(***************************************************************************)
EXTENDS Atomic128, TLAPS

(* Where a thread is agrees with how its call is compiled.                 *)
WaysAgree ==
  \A t \in Thread :
    /\ pc[t] = "preload" => Way(req[t]) = "preload"
    /\ pc[t] \in {"low", "high"} => Way(req[t]) \in {"guess", "exclusive", "unchecked"}
    /\ link[t] => pc[t] \in {"high", "act"} /\ Way(req[t]) = "exclusive"

IInv == TypeOK /\ WaysAgree /\ SeenIsCurrent

(* What the different ways are for.                                        *)
LEMMA WayFacts ==
  ASSUME NEW r \in Request
  PROVE  /\ r # None
         /\ r.op \in Op
         /\ Way(r) \in {"once", "preload", "guess", "exclusive", "unchecked"}
         /\ Way(r) = "preload" => r.op = "cas"
         /\ Way(r) \in {"guess", "unchecked"} => r.op \in {"store", "exchange"}
         /\ r.expected \in Value /\ r.desired \in Value
<1>1. /\ r.build \in Build /\ r.op \in Op /\ r.order \in Order
      /\ r.expected \in Value /\ r.desired \in Value
  BY RequestAssumption
<1>2. r # None
  <2>1. None.op = "none"
    BY DEF None, Register!None
  <2> QED BY <1>1, <2>1 DEF Op
<1>3. CASE r.build \in X86
  <2>1. Way(r) = X86Way(r)
    BY <1>3 DEF Way
  <2> QED BY <1>1, <1>2, <2>1 DEF X86Way, Fast, Op
<1>4. CASE r.build \notin X86
  <2>1. Way(r) = ArmWay(r)
    BY <1>4 DEF Way
  <2>2. r.build \in {"armv8_0", "lse", "lse2", "apple", "lse128"}
    BY <1>1, <1>4 DEF Build, X86
  <2>3. r.build \in {"lse", "lse2", "lse128"} /\ r.op \notin OneInstruction[r.build]
          => r.op \in {"store", "exchange"}
    BY <1>1 DEF OneInstruction, Op
  <2> QED BY <1>1, <1>2, <2>1, <2>2, <2>3 DEF ArmWay
<1> QED BY <1>3, <1>4

(* An answer is a result, and is never mistaken for the lack of one.       *)
LEMMA AnswerIsResult ==
  ASSUME NEW r, NEW v \in Value
  PROVE  Answer(r, v) \in Result /\ Answer(r, v) # Pending
<1>1. Answer(r, v) \in Result
  BY DEF Answer, Result, Register!Answer, Register!Result, Value, Register!Value
<1>2. Answer(r, v).ok \in {"true", "false"}
  BY DEF Answer, Register!Answer
<1>3. Pending.ok = "pending"
  BY DEF Pending, Register!Pending
<1> QED BY <1>1, <1>2, <1>3

LEMMA AfterFacts ==
  ASSUME NEW r \in Request, NEW v \in Value
  PROVE  /\ After(r, v) \in Value
         /\ r.op \in {"store", "exchange"} => After(r, v) = r.desired
         /\ r.op = "cas" /\ v # r.expected => After(r, v) = v
<1>1. r.op \in Op /\ r.desired \in Value
  BY WayFacts
<1> QED BY <1>1 DEF Op, After, Register!After

(* The halves make the whole.                                              *)
LEMMA HalvesAgree ==
  ASSUME NEW v \in Value, NEW w \in Value, v.low = w.low, v.high = w.high
  PROVE  v = w
BY DEF Value

LEMMA InitIInv == Init => IInv
<1> SUFFICES ASSUME Init PROVE IInv
  OBVIOUS
<1>1. build \in Build
  BY RequestAssumption DEF Init
<1> QED BY <1>1 DEF Init, IInv, TypeOK, WaysAgree, SeenIsCurrent

-----------------------------------------------------------------------------
(* Every step keeps the invariant.  Write is what disturbs other threads.  *)

LEMMA WriteKeeps ==
  ASSUME IInv, NEW v \in Value, Write(v), NEW t \in Thread,
         UNCHANGED seen[t], UNCHANGED pc[t], UNCHANGED req[t]
  PROVE  /\ mem' \in Value /\ ~link'[t] /\ disturbed'[t] \in BOOLEAN
         /\ ~disturbed'[t] => /\ pc'[t] = "high" /\ Way(req'[t]) # "exclusive"
                                   => seen'[t].low = mem'.low
                              /\ pc'[t] = "act" /\ Way(req'[t]) \in {"guess", "unchecked"}
                                   => seen'[t] = mem'
<1>1. mem' = v /\ link'[t] = FALSE /\ disturbed'[t] = (disturbed[t] \/ v # mem)
  BY DEF Write
<1>2. ~disturbed'[t] => ~disturbed[t] /\ mem' = mem
  BY <1>1
<1> QED BY <1>1, <1>2 DEF IInv, SeenIsCurrent, TypeOK

(* A step of t leaves the others where they are, with what they have seen. *)
Local(t) ==
  /\ pc' = [pc EXCEPT ![t] = pc'[t]]
  /\ req' = [req EXCEPT ![t] = req'[t]]
  /\ res' = [res EXCEPT ![t] = res'[t]]
  /\ seen' = [seen EXCEPT ![t] = seen'[t]]
  /\ UNCHANGED build

(* What the invariant says of one thread.                                  *)
Fine(t) ==
  /\ req[t] \in Request \cup {None}
  /\ res[t] \in Result \cup {Pending}
  /\ pc[t] \in {"idle", "preload", "low", "high", "act", "done"}
  /\ seen[t] \in Value
  /\ req[t] = None <=> pc[t] = "idle"
  /\ res[t] # Pending <=> pc[t] = "done"
  /\ pc[t] = "preload" => Way(req[t]) = "preload"
  /\ pc[t] \in {"low", "high"} => Way(req[t]) \in {"guess", "exclusive", "unchecked"}
  /\ link[t] => pc[t] \in {"high", "act"} /\ Way(req[t]) = "exclusive"
  /\ link[t] \/ ~disturbed[t] =>
       /\ pc[t] = "high" /\ (link[t] \/ Way(req[t]) # "exclusive")
            => seen[t].low = mem.low
       /\ pc[t] = "act" /\ Way(req[t]) \in {"guess", "unchecked"} => seen[t] = mem
       /\ pc[t] = "act" /\ Way(req[t]) = "exclusive" /\ link[t] => seen[t] = mem

(* A step of t that leaves the word as it is.                              *)
LEMMA QuietStep ==
  ASSUME IInv, NEW t \in Thread, Local(t), UNCHANGED mem,
         link' = [link EXCEPT ![t] = link'[t]], link'[t] \in BOOLEAN,
         disturbed' = [disturbed EXCEPT ![t] = disturbed'[t]], disturbed'[t] \in BOOLEAN,
         Fine(t)'
  PROVE  IInv'
<1>1. ASSUME NEW s \in Thread PROVE Fine(s)'
  <2>1. CASE s = t
    BY <2>1
  <2>2. CASE s # t
    BY <2>2 DEF Local, Fine, IInv, TypeOK, WaysAgree, SeenIsCurrent
  <2> QED BY <2>1, <2>2
<1>2. TypeOK'
  BY <1>1 DEF Local, Fine, IInv, TypeOK
<1>3. WaysAgree'
  BY <1>1 DEF Fine, WaysAgree
<1>4. SeenIsCurrent'
  BY <1>1 DEF Fine, SeenIsCurrent
<1> QED BY <1>2, <1>3, <1>4 DEF IInv

(* A step of t that ends its call with a write.                            *)
LEMMA WritingStep ==
  ASSUME IInv, NEW t \in Thread, NEW v \in Value, Write(v), Local(t),
         pc'[t] = "done", UNCHANGED req, pc[t] # "idle",
         res'[t] \in Result, res'[t] # Pending, seen'[t] \in Value
  PROVE  IInv'
<1>1. /\ link' \in [Thread -> BOOLEAN] /\ disturbed' \in [Thread -> BOOLEAN]
      /\ mem' \in Value
  BY DEF Write, IInv, TypeOK
<1>2. ASSUME NEW s \in Thread PROVE Fine(s)'
  <2>1. CASE s = t
    BY <2>1 DEF Write, Fine, IInv, TypeOK
  <2>2. CASE s # t
    <3>1. UNCHANGED seen[s] /\ UNCHANGED pc[s] /\ UNCHANGED req[s] /\ UNCHANGED res[s]
      BY <2>2 DEF Local, IInv, TypeOK
    <3>2. /\ ~link'[s]
          /\ ~disturbed'[s] => /\ pc'[s] = "high" /\ Way(req'[s]) # "exclusive"
                                    => seen'[s].low = mem'.low
                               /\ pc'[s] = "act" /\ Way(req'[s]) \in {"guess", "unchecked"}
                                    => seen'[s] = mem'
      BY <3>1, WriteKeeps
    <3> QED BY <3>1, <3>2 DEF Fine, IInv, TypeOK, WaysAgree
  <2> QED BY <2>1, <2>2
<1>3. TypeOK'
  BY <1>1, <1>2 DEF Local, Fine, IInv, TypeOK
<1>4. WaysAgree'
  BY <1>2 DEF Fine, WaysAgree
<1>5. SeenIsCurrent'
  BY <1>2 DEF Fine, SeenIsCurrent
<1> QED BY <1>3, <1>4, <1>5 DEF IInv

LEMMA StepIInv == IInv /\ [Next]_vars => IInv'
<1> SUFFICES ASSUME IInv, [Next]_vars PROVE IInv'
  OBVIOUS
<1>1. ASSUME NEW t \in Thread, NEW r \in Request, Begin(t, r) PROVE IInv'
  <2>1. Local(t) /\ Fine(t)'
    BY <1>1, WayFacts DEF Begin, Goto, Local, Fine, IInv, TypeOK, WaysAgree
  <2> QED BY <1>1, <2>1, QuietStep DEF Begin, IInv, TypeOK
<1>2. ASSUME NEW t \in Thread, Once(t) PROVE IInv'
  <2>1. req[t] \in Request /\ mem \in Value
    BY <1>2 DEF Once, IInv, TypeOK
  <2>2. Answer(req[t], mem) \in Result /\ Answer(req[t], mem) # Pending
    BY <2>1, AnswerIsResult
  <2>3. Local(t) /\ pc'[t] = "done" /\ res'[t] = Answer(req[t], mem)
    BY <1>2 DEF Once, End, Goto, Local, IInv, TypeOK
  <2>4. CASE req[t].op = "load"
    <3>1. ~link[t]
      BY <1>2 DEF Once, IInv, WaysAgree
    <3>2. Fine(t)'
      BY <1>2, <2>1, <2>2, <2>3, <2>4, <3>1, WayFacts DEF Once, Fine, IInv, TypeOK
    <3> QED BY <1>2, <2>3, <2>4, <3>2, QuietStep DEF Once, IInv, TypeOK
  <2>5. CASE req[t].op # "load"
    <3>1. Write(After(req[t], mem)) /\ After(req[t], mem) \in Value
      BY <1>2, <2>1, <2>5, AfterFacts DEF Once
    <3> QED BY <1>2, <2>2, <2>3, <3>1, WritingStep DEF Once, IInv, TypeOK
  <2> QED BY <2>4, <2>5
<1>3. ASSUME NEW t \in Thread, Preload(t) PROVE IInv'
  <2>1. req[t] \in Request /\ mem \in Value /\ Way(req[t]) = "preload" /\ ~link[t]
    BY <1>3 DEF Preload, IInv, TypeOK, WaysAgree
  <2>2. Answer(req[t], mem) \in Result /\ Answer(req[t], mem) # Pending
    BY <2>1, AnswerIsResult
  <2>3. Local(t) /\ Fine(t)'
    BY <1>3, <2>1, <2>2, WayFacts DEF Preload, End, Goto, Local, Fine, IInv, TypeOK
  <2> QED BY <1>3, <2>3, QuietStep DEF Preload, IInv, TypeOK
<1>4. ASSUME NEW t \in Thread, ReadLow(t) PROVE IInv'
  <2>1. seen'[t] \in Value /\ seen'[t].low = mem.low
    BY <1>4 DEF ReadLow, IInv, TypeOK, Value
  <2>2. Local(t) /\ Fine(t)'
    BY <1>4, <2>1, WayFacts DEF ReadLow, Goto, Local, Fine, IInv, TypeOK, WaysAgree
  <2> QED BY <1>4, <2>2, QuietStep DEF ReadLow, IInv, TypeOK
<1>5. ASSUME NEW t \in Thread, ReadHigh(t) PROVE IInv'
  <2>1. /\ seen'[t] \in Value
        /\ seen'[t].high = mem.high /\ seen'[t].low = seen[t].low
    BY <1>5 DEF ReadHigh, IInv, TypeOK, Value
  <2>2. seen[t].low = mem.low => seen'[t] = mem
    BY <2>1, HalvesAgree DEF IInv, TypeOK
  <2>3. Local(t) /\ Fine(t)'
    BY <1>5, <2>1, <2>2, WayFacts
    DEF ReadHigh, Goto, Local, Fine, IInv, TypeOK, WaysAgree, SeenIsCurrent
  <2> QED BY <1>5, <2>3, QuietStep DEF ReadHigh, IInv, TypeOK
<1>6. ASSUME NEW t \in Thread, Guess(t) PROVE IInv'
  <2>1. /\ req[t] \in Request /\ mem \in Value /\ ~link[t]
        /\ req[t].desired \in Value /\ seen[t] \in Value
    BY <1>6, WayFacts DEF Guess, IInv, TypeOK, WaysAgree
  <2>2. Answer(req[t], mem) \in Result /\ Answer(req[t], mem) # Pending
    BY <2>1, AnswerIsResult
  <2>3. CASE seen[t] = mem
    <3>1. Local(t) /\ pc'[t] = "done" /\ res'[t] = Answer(req[t], mem)
      BY <1>6, <2>3 DEF Guess, End, Goto, Local, IInv, TypeOK
    <3> QED BY <1>6, <2>1, <2>2, <2>3, <3>1, WritingStep DEF Guess, IInv, TypeOK
  <2>4. CASE seen[t] # mem
    <3>1. Local(t) /\ Fine(t)'
      BY <1>6, <2>1, <2>4 DEF Guess, Local, Fine, IInv, TypeOK, WaysAgree
    <3> QED BY <1>6, <2>4, <3>1, QuietStep DEF Guess, IInv, TypeOK
  <2> QED BY <2>3, <2>4
<1>7. ASSUME NEW t \in Thread, Unchecked(t) PROVE IInv'
  <2>1. req[t] \in Request /\ mem \in Value /\ req[t].desired \in Value
    BY <1>7, WayFacts DEF Unchecked, IInv, TypeOK
  <2>2. Answer(req[t], mem) \in Result /\ Answer(req[t], mem) # Pending
    BY <2>1, AnswerIsResult
  <2>3. Local(t) /\ pc'[t] = "done" /\ res'[t] = Answer(req[t], mem)
    BY <1>7 DEF Unchecked, End, Goto, Local, IInv, TypeOK
  <2> QED BY <1>7, <2>1, <2>2, <2>3, WritingStep DEF Unchecked, IInv, TypeOK
<1>8. ASSUME NEW t \in Thread, StoreExclusive(t) PROVE IInv'
  <2>1. req[t] \in Request /\ seen[t] \in Value
    BY <1>8 DEF StoreExclusive, IInv, TypeOK
  <2>2. Answer(req[t], seen[t]) \in Result /\ Answer(req[t], seen[t]) # Pending
    BY <2>1, AnswerIsResult
  <2>3. After(req[t], seen[t]) \in Value
    BY <2>1, AfterFacts
  <2>4. Local(t) /\ pc'[t] = "done" /\ res'[t] = Answer(req[t], seen[t])
    BY <1>8 DEF StoreExclusive, End, Goto, Local, IInv, TypeOK
  <2> QED BY <1>8, <2>1, <2>2, <2>3, <2>4, WritingStep DEF StoreExclusive, IInv, TypeOK
<1>9. ASSUME NEW t \in Thread, ExclusiveFails(t) PROVE IInv'
  <2>1. Local(t) /\ Fine(t)'
    BY <1>9 DEF ExclusiveFails, Goto, Local, Fine, IInv, TypeOK, WaysAgree
  <2> QED BY <1>9, <2>1, QuietStep DEF ExclusiveFails, IInv, TypeOK
<1>10. ASSUME NEW t \in Thread, Return(t) PROVE IInv'
  <2>1. Local(t) /\ Fine(t)'
    BY <1>10 DEF Return, Goto, Local, Fine, IInv, TypeOK, WaysAgree
  <2> QED BY <1>10, <2>1, QuietStep DEF Return, IInv, TypeOK
<1>11. CASE UNCHANGED vars
  BY <1>11 DEF vars, IInv, TypeOK, WaysAgree, SeenIsCurrent
<1> QED
  BY <1>1, <1>2, <1>3, <1>4, <1>5, <1>6, <1>7, <1>8, <1>9, <1>10, <1>11 DEF Next, Step

-----------------------------------------------------------------------------
(* Every step is one of the register, or none.                             *)

LEMMA InitImplements == Init => Register!Init
BY DEF Init, Register!Init, Value, Register!Value, None, Pending

(* A call that reads the word and ends in one step takes effect in it.     *)
LEMMA TakesEffect ==
  ASSUME IInv, NEW t \in Thread, pc[t] = "act" \/ pc[t] = "preload",
         mem' = After(req[t], mem), UNCHANGED req,
         disturbed' = [s \in Thread |-> disturbed[s] \/ mem' # mem],
         res' = [res EXCEPT ![t] = Answer(req[t], mem)]
  PROVE  Register!TakeEffect(t)
<1>1. req[t] # None /\ res[t] = Pending
  BY DEF IInv, TypeOK
<1> QED BY <1>1 DEF Register!TakeEffect, Register!InCall, None, Pending, After, Answer

(* One step of the assembly is one step of the register, or a stutter.     *)
LEMMA StepImplements == IInv /\ [Next]_vars => [Register!Next]_(Register!vars)
<1> SUFFICES ASSUME IInv, [Next]_vars PROVE [Register!Next]_(Register!vars)
  OBVIOUS
<1> USE DEF Register!vars
<1>1. ASSUME NEW t \in Thread, NEW r \in Request, Begin(t, r) PROVE Register!Next
  <2>1. Register!Begin(t, r)
    BY <1>1 DEF Begin, Register!Begin, None
  <2> QED BY <2>1 DEF Register!Next
<1>2. ASSUME NEW t \in Thread, Once(t) PROVE Register!Next
  <2>1. req[t] \in Request /\ mem \in Value
    BY <1>2 DEF Once, IInv, TypeOK
  <2>2. req[t].op = "load" => After(req[t], mem) = mem
    BY DEF After, Register!After
  <2>3. disturbed = [s \in Thread |-> disturbed[s] \/ FALSE]
    BY DEF IInv, TypeOK
  <2>4. mem' = After(req[t], mem) /\ disturbed' = [s \in Thread |-> disturbed[s] \/ mem' # mem]
    BY <1>2, <2>2, <2>3 DEF Once, Write
  <2>5. Register!TakeEffect(t)
    BY <1>2, <2>4, TakesEffect DEF Once, End
  <2> QED BY <2>5 DEF Register!Next
<1>3. ASSUME NEW t \in Thread, Preload(t)
      PROVE  Register!Next \/ UNCHANGED Register!vars
  <2>1. req[t] \in Request /\ mem \in Value /\ req[t].op = "cas"
    BY <1>3, WayFacts DEF Preload, IInv, TypeOK, WaysAgree
  <2>2. CASE mem # req[t].expected
    <3>1. After(req[t], mem) = mem
      BY <2>1, <2>2, AfterFacts
    <3>2. disturbed' = [s \in Thread |-> disturbed[s] \/ mem' # mem]
      BY <1>3 DEF Preload, IInv, TypeOK
    <3>3. Register!TakeEffect(t)
      BY <1>3, <2>2, <3>1, <3>2, TakesEffect DEF Preload, End
    <3> QED BY <3>3 DEF Register!Next
  <2>3. CASE mem = req[t].expected
    BY <1>3, <2>3 DEF Preload
  <2> QED BY <2>2, <2>3
<1>4. ASSUME NEW t \in Thread, ReadLow(t) \/ ReadHigh(t) \/ ExclusiveFails(t)
      PROVE  UNCHANGED Register!vars
  BY <1>4 DEF ReadLow, ReadHigh, ExclusiveFails
<1>5. ASSUME NEW t \in Thread, Guess(t)
      PROVE  Register!Next \/ UNCHANGED Register!vars
  <2>1. After(req[t], mem) = req[t].desired
    BY <1>5, WayFacts, AfterFacts DEF Guess, IInv, TypeOK
  <2>2. CASE seen[t] = mem
    <3>1. Register!TakeEffect(t)
      BY <1>5, <2>1, <2>2, TakesEffect DEF Guess, End, Write
    <3> QED BY <3>1 DEF Register!Next
  <2>3. CASE seen[t] # mem
    BY <1>5, <2>3 DEF Guess
  <2> QED BY <2>2, <2>3
<1>6. ASSUME NEW t \in Thread, Unchecked(t) PROVE Register!Next
  <2>1. /\ After(req[t], mem) = req[t].desired
        /\ req[t] \in Request /\ req[t] # None /\ res[t] = Pending
    BY <1>6, WayFacts, AfterFacts DEF Unchecked, IInv, TypeOK
  <2>2. CASE seen[t] = mem
    <3>1. Register!TakeEffect(t)
      BY <1>6, <2>1, <2>2, TakesEffect DEF Unchecked, End, Write
    <3> QED BY <3>1 DEF Register!Next
  <2>3. CASE seen[t] # mem
    <3>1. disturbed[t]
      BY <1>6, <2>3 DEF Unchecked, IInv, SeenIsCurrent
    <3>2. mem' = mem /\ UNCHANGED disturbed
      BY <1>6, <2>3 DEF Unchecked, Write, IInv, TypeOK
    <3>3. Register!Lose(t)
      BY <1>6, <2>1, <3>1, <3>2
      DEF Unchecked, End, Register!Lose, Register!InCall, None, Pending, Answer
    <3> QED BY <3>3 DEF Register!Next
  <2> QED BY <2>2, <2>3
<1>7. ASSUME NEW t \in Thread, StoreExclusive(t) PROVE Register!Next
  <2>1. seen[t] = mem
    BY <1>7 DEF StoreExclusive, IInv, SeenIsCurrent
  <2>2. Register!TakeEffect(t)
    BY <1>7, <2>1, TakesEffect DEF StoreExclusive, End, Write
  <2> QED BY <2>2 DEF Register!Next
<1>8. ASSUME NEW t \in Thread, Return(t) PROVE Register!Next
  <2>1. req[t] # None /\ res[t] # Pending
    BY <1>8 DEF Return, IInv, TypeOK
  <2>2. Register!Return(t)
    BY <1>8, <2>1 DEF Return, Register!Return, None, Pending
  <2> QED BY <2>2 DEF Register!Next
<1>9. CASE UNCHANGED vars
  BY <1>9 DEF vars
<1> QED
  BY <1>1, <1>2, <1>3, <1>4, <1>5, <1>6, <1>7, <1>8, <1>9 DEF Next, Step

-----------------------------------------------------------------------------
(* Every variable keeps its type; a thread has a result exactly when its   *)
(* call is done.                                                           *)
THEOREM TypeCorrect == Spec => []TypeOK
<1>1. IInv => TypeOK
  BY DEF IInv
<1> QED BY <1>1, InitIInv, StepIInv, PTL DEF Spec

(* No torn or stale pair of halves that the assembly has read becomes a    *)
(* result or a new value.                                                  *)
THEOREM SeenInvariant == Spec => []SeenIsCurrent
<1>1. IInv => SeenIsCurrent
  BY DEF IInv
<1> QED BY <1>1, InitIInv, StepIInv, PTL DEF Spec

(* Atomic128 implements its interface: ImplementsRegister for every number *)
(* of threads, every build and all calls, whatever they interleave.        *)
THEOREM AtomicImplementsRegister == Spec => ImplementsRegister
BY InitIInv, StepIInv, InitImplements, StepImplements, PTL
DEF Spec, ImplementsRegister, Register!Spec
=============================================================================
