------------------------------- MODULE Atomic128 -------------------------------
(***************************************************************************)
(* findus::Atomic128: loads, stores, exchanges and compare-exchanges of a  *)
(* 128-bit word, in inline assembly for each architecture.  No call is one *)
(* instruction on all of them.  What differs is how a call gets hold of    *)
(* the old value and how it notices that this value is out of date.        *)
(*                                                                         *)
(* Each instruction that touches the word is a step.  A read of both       *)
(* halves by instructions that are not atomic for 128 bits is two steps.   *)
(* Memory is sequentially consistent: of a memory order the model keeps    *)
(* which instructions it selects.                                          *)
(***************************************************************************)
CONSTANTS
  Thread,
  Word,       \* what 64 bits hold
  Request     \* the calls that threads make

Build == {"x86_64", "x86_64_avx", "armv8_0", "lse", "lse2", "lse128", "apple"}
Op == {"load", "store", "exchange", "cas"}
Order == {"relaxed", "acquire", "release", "acq_rel", "seq_cst"}

Value == [low : Word, high : Word]

(* `order` is the order of failure for a compare-exchange.                 *)
ASSUME RequestAssumption ==
  Request \subseteq [build : Build, op : Op, order : Order,
                     expected : Value, desired : Value]

VARIABLES
  mem,          \* data_
  build,        \* the target of the build and the features it has
  req, res,     \* the call each thread is in, and what it will return
  pc, seen,     \* its place in the assembly, the halves it has read
  link,         \* does it hold the exclusive monitor?
  disturbed     \* history: has the value changed since the call began?

vars == <<mem, build, req, res, pc, seen, link, disturbed>>

-----------------------------------------------------------------------------
(* Which instructions a call is compiled to                                *)

X86 == {"x86_64", "x86_64_avx"}

(* vmovdqa, which AVX makes atomic.                                        *)
Fast(r) ==
  /\ r.build = "x86_64_avx"
  /\ \/ r.op \in {"load", "store"} /\ r.order = "relaxed"
     \/ r.op = "load" /\ r.order = "acquire"
     \/ r.op = "store" /\ r.order = "release"

(* On x86-64 the other stores and the exchanges are a cmpxchg16b with what *)
(* has just been read, and a compare-exchange may look before it swaps.    *)
X86Way(r) ==
  CASE r.op = "load" \/ Fast(r) -> "once"
    [] r.op \in {"store", "exchange"} /\ ~Fast(r) -> "unchecked"
    [] r.op = "cas" /\ r.order \in {"relaxed", "acquire"} -> "preload"
    [] r.op = "cas" /\ r.order \notin {"relaxed", "acquire"} -> "once"

(* The calls that have an instruction of their own on AArch64.             *)
OneInstruction ==
  [armv8_0 |-> {},
   lse |-> {"load", "cas"},
   lse2 |-> {"load", "store", "cas"},
   apple |-> {"load", "store", "cas"},
   lse128 |-> Op]

(* The others are a loop of load- and store-exclusive, or of casp; Apple's *)
(* processors are faster with the former.                                  *)
ArmWay(r) ==
  CASE r.op \in OneInstruction[r.build] -> "once"
    [] r.op \notin OneInstruction[r.build] /\ r.build \in {"armv8_0", "apple"}
         -> "exclusive"
    [] r.op \notin OneInstruction[r.build] /\ r.build \notin {"armv8_0", "apple"}
         -> "guess"

Way(r) == IF r.build \in X86 THEN X86Way(r) ELSE ArmWay(r)

(* The interface, with what is said of its calls on x86-64.                *)
Register ==
  INSTANCE AtomicRegister
    WITH value <- mem, Lossy <- {r \in Request : Way(r) = "unchecked"}

None == Register!None
Pending == Register!Pending
After(r, v) == Register!After(r, v)
Answer(r, v) == Register!Answer(r, v)
Result == Register!Result

(* A call has a result from the moment at which it takes effect.           *)
TypeOK ==
  /\ mem \in Value
  /\ build \in Build
  /\ req \in [Thread -> Request \cup {None}]
  /\ res \in [Thread -> Result \cup {Pending}]
  /\ pc \in [Thread -> {"idle", "preload", "low", "high", "act", "done"}]
  /\ seen \in [Thread -> Value]
  /\ link \in [Thread -> BOOLEAN]
  /\ disturbed \in [Thread -> BOOLEAN]
  /\ \A t \in Thread : /\ req[t] = None <=> pc[t] = "idle"
                       /\ res[t] # Pending <=> pc[t] = "done"

Init ==
  /\ mem \in Value
  /\ build \in {r.build : r \in Request}
  /\ req = [t \in Thread |-> None]
  /\ res = [t \in Thread |-> Pending]
  /\ pc = [t \in Thread |-> "idle"]
  /\ seen = [t \in Thread |-> mem]
  /\ link = [t \in Thread |-> FALSE]
  /\ disturbed = [t \in Thread |-> FALSE]

Goto(t, place) == pc' = [pc EXCEPT ![t] = place]

(* Mutant of Write: the monitors of others outlive a write.                *)
WriteUnnoticed(v) ==
  /\ mem' = v
  /\ disturbed' = [t \in Thread |-> disturbed[t] \/ v # mem]
  /\ UNCHANGED link

(* A write, be it of the same value, takes the monitor from everybody.     *)
Write(v) ==
  /\ mem' = v
  /\ link' = [t \in Thread |-> FALSE]
  /\ disturbed' = [t \in Thread |-> disturbed[t] \/ v # mem]

(* The call ends, having found v.                                          *)
End(t, v) ==
  /\ res' = [res EXCEPT ![t] = Answer(req[t], v)]
  /\ Goto(t, "done")

-----------------------------------------------------------------------------
(* The calls                                                               *)

Begin(t, r) ==
  /\ req[t] = None
  /\ r.build = build
  /\ req' = [req EXCEPT ![t] = r]
  /\ disturbed' = [disturbed EXCEPT ![t] = FALSE]
  /\ Goto(t, CASE Way(r) = "once" -> "act"
               [] Way(r) = "preload" -> "preload"
               [] Way(r) \in {"guess", "exclusive", "unchecked"} -> "low")
  /\ UNCHANGED <<mem, build, res, seen, link>>

(* One instruction: vmovdqa, ldp, stp, swpp, casp, or a cmpxchg16b that    *)
(* compares with `expected`, or with 0 to store 0 where 0 is.              *)
Once(t) ==
  /\ pc[t] = "act"
  /\ Way(req[t]) \in {"once", "preload"}
  /\ IF req[t].op = "load" THEN UNCHANGED <<mem, link, disturbed>>
                           ELSE Write(After(req[t], mem))
  /\ End(t, mem)
  /\ UNCHANGED <<build, req, seen>>

(* Mutant of Preload: it puts what it found in `expected` and goes on.     *)
PreloadGoesOn(t) ==
  /\ pc[t] = "preload"
  /\ Goto(t, "act")
  /\ \/ mem # req[t].expected /\ res' = [res EXCEPT ![t] = Answer(req[t], mem)]
     \/ mem = req[t].expected /\ UNCHANGED res
  /\ UNCHANGED <<mem, build, req, seen, link, disturbed>>

(* The load before a compare-exchange.                                     *)
Preload(t) ==
  /\ pc[t] = "preload"
  /\ \/ mem # req[t].expected /\ End(t, mem)
     \/ mem = req[t].expected /\ Goto(t, "act") /\ UNCHANGED res
  /\ UNCHANGED <<mem, build, req, seen, link, disturbed>>

(* The two halves, by ldp, ldxp or two loads, low first: nothing else says *)
(* which half is which.  ldxp takes the monitor; it has read 128 bits at   *)
(* one time only if the store-exclusive succeeds.                          *)
ReadLow(t) ==
  /\ pc[t] = "low"
  /\ seen' = [seen EXCEPT ![t].low = mem.low]
  /\ link' = [link EXCEPT ![t] = Way(req[t]) = "exclusive"]
  /\ Goto(t, "high")
  /\ UNCHANGED <<mem, build, req, res, disturbed>>

ReadHigh(t) ==
  /\ pc[t] = "high"
  /\ seen' = [seen EXCEPT ![t].high = mem.high]
  /\ Goto(t, "act")
  /\ UNCHANGED <<mem, build, req, res, link, disturbed>>

(* Mutants of Guess: who guessed wrong gives up; or guesses the same again.*)
GuessOnce(t) ==
  /\ pc[t] = "act"
  /\ Way(req[t]) = "guess"
  /\ Write(IF seen[t] = mem THEN req[t].desired ELSE mem)
  /\ End(t, mem)
  /\ UNCHANGED <<build, req, seen>>

GuessAgain(t) ==
  /\ pc[t] = "act"
  /\ Way(req[t]) = "guess"
  /\ \/ seen[t] = mem /\ Write(req[t].desired) /\ End(t, mem)
     \/ seen[t] # mem /\ UNCHANGED <<mem, res, pc, link, disturbed>>
  /\ UNCHANGED <<build, req, seen>>

(* casp with what was seen, which it replaces by what is there, until the  *)
(* two agree.                                                              *)
Guess(t) ==
  /\ pc[t] = "act"
  /\ Way(req[t]) = "guess"
  /\ \/ /\ seen[t] = mem
        /\ Write(req[t].desired)
        /\ End(t, mem)
        /\ UNCHANGED seen
     \/ /\ seen[t] # mem
        /\ seen' = [seen EXCEPT ![t] = mem]
        /\ UNCHANGED <<mem, res, pc, link, disturbed>>
  /\ UNCHANGED <<build, req>>

(* cmpxchg16b with what was seen, whatever comes of it.                    *)
Unchecked(t) ==
  /\ pc[t] = "act"
  /\ Way(req[t]) = "unchecked"
  /\ Write(IF seen[t] = mem THEN req[t].desired ELSE mem)
  /\ End(t, mem)
  /\ UNCHANGED <<build, req, seen>>

(* Mutant of StoreExclusive: what is not changed is not written back.      *)
StoreExclusiveIfChanged(t) ==
  /\ pc[t] = "act"
  /\ Way(req[t]) = "exclusive"
  /\ \/ After(req[t], seen[t]) # seen[t] /\ link[t] /\ Write(After(req[t], seen[t]))
     \/ After(req[t], seen[t]) = seen[t] /\ UNCHANGED <<mem, link, disturbed>>
  /\ End(t, seen[t])
  /\ UNCHANGED <<build, req, seen>>

(* The store-exclusive of the new value, or of the old one where a load or *)
(* a failed comparison leaves it: without it the two halves may be torn.   *)
StoreExclusive(t) ==
  /\ pc[t] = "act"
  /\ Way(req[t]) = "exclusive"
  /\ link[t]
  /\ Write(After(req[t], seen[t]))
  /\ End(t, seen[t])
  /\ UNCHANGED <<build, req, seen>>

(* It may fail without a reason too; then the loop starts again.           *)
ExclusiveFails(t) ==
  /\ pc[t] = "act"
  /\ Way(req[t]) = "exclusive"
  /\ link' = [link EXCEPT ![t] = FALSE]
  /\ Goto(t, "low")
  /\ UNCHANGED <<mem, build, req, res, seen, disturbed>>

Return(t) ==
  /\ pc[t] = "done"
  /\ req' = [req EXCEPT ![t] = None]
  /\ res' = [res EXCEPT ![t] = Pending]
  /\ Goto(t, "idle")
  /\ UNCHANGED <<mem, build, seen, link, disturbed>>

-----------------------------------------------------------------------------
Step(t) ==
  \/ Once(t) \/ Preload(t) \/ ReadLow(t) \/ ReadHigh(t) \/ Guess(t)
  \/ Unchecked(t) \/ StoreExclusive(t) \/ ExclusiveFails(t) \/ Return(t)

Next == \E t \in Thread : Step(t) \/ \E r \in Request : Begin(t, r)

Spec == Init /\ [][Next]_vars

(* Threads run, and of the store-exclusives that go on being tried for     *)
(* ever some succeeds, which is what the architecture guarantees.          *)
Fairness ==
  /\ \A t \in Thread : WF_vars(Step(t))
  /\ SF_vars(\E t \in Thread : StoreExclusive(t))

FairSpec == Spec /\ Fairness

-----------------------------------------------------------------------------
(* Properties *)

(* A thread that still holds the monitor, and one whose call nobody has    *)
(* disturbed, has seen what is there: no torn or stale pair of halves      *)
(* becomes a result or a new value.                                        *)
SeenIsCurrent ==
  \A t \in Thread :
    link[t] \/ ~disturbed[t] =>
      /\ pc[t] = "high" /\ (link[t] \/ Way(req[t]) # "exclusive")
           => seen[t].low = mem.low
      /\ pc[t] = "act" /\ Way(req[t]) \in {"guess", "unchecked"} => seen[t] = mem
      /\ pc[t] = "act" /\ Way(req[t]) = "exclusive" /\ link[t] => seen[t] = mem

(* "Atomically loads", "Atomically replaces", "Atomically compares": every *)
(* call takes effect at one moment, except that on x86-64 a store or an    *)
(* exchange by cmpxchg16b may have no effect if another call changes the   *)
(* value meanwhile, with a result that does not tell.                      *)
ImplementsRegister == Register!Spec

(* "All operations are lock-free": of the threads that are in a call one   *)
(* gets to its end, however the loops hinder each other.                   *)
LockFree == (\E t \in Thread : pc[t] # "idle") ~> (\E t \in Thread : pc[t] = "done")
=============================================================================
