----------------------------- MODULE AtomicRegister -----------------------------
(***************************************************************************)
(* What the interface of Atomic128 promises: a 128-bit word on which each  *)
(* load, store, exchange and compare-exchange takes effect at one moment   *)
(* between its call and its return.                                        *)
(*                                                                         *)
(* Requests in Lossy are promised less: such a call may have no effect, if *)
(* the value has changed since it began.  With Lossy = {} this is          *)
(* linearizability.                                                        *)
(***************************************************************************)
CONSTANTS
  Thread,
  Word,       \* what 64 bits hold
  Request,    \* the calls that threads make
  Lossy

Value == [low : Word, high : Word]

None == [op |-> "none"]        \* a thread that is in no call
Pending == [ok |-> "pending"]  \* a call that has not taken effect
Void == [low |-> "void"]       \* what store returns
Result == [value : Value \cup {Void}, ok : {"true", "false"}]

VARIABLES
  value,
  req,          \* the call a thread is in
  res,          \* what it will return
  disturbed     \* has the value changed since the call began?

vars == <<value, req, res, disturbed>>

(* The value that a call leaves behind when it finds v.                    *)
After(r, v) ==
  CASE r.op = "load" -> v
    [] r.op \in {"store", "exchange"} -> r.desired
    [] r.op = "cas" -> IF v = r.expected THEN r.desired ELSE v

(* What it returns, with the value left in `expected`.                     *)
Answer(r, v) ==
  [value |-> IF r.op = "store" THEN Void ELSE v,
   ok |-> IF r.op = "cas" /\ v # r.expected THEN "false" ELSE "true"]

InCall(t) == req[t] # None /\ res[t] = Pending

-----------------------------------------------------------------------------
Init ==
  /\ value \in Value
  /\ req = [t \in Thread |-> None]
  /\ res = [t \in Thread |-> Pending]
  /\ disturbed = [t \in Thread |-> FALSE]

Begin(t, r) ==
  /\ req[t] = None
  /\ req' = [req EXCEPT ![t] = r]
  /\ disturbed' = [disturbed EXCEPT ![t] = FALSE]
  /\ UNCHANGED <<value, res>>

TakeEffect(t) ==
  /\ InCall(t)
  /\ value' = After(req[t], value)
  /\ res' = [res EXCEPT ![t] = Answer(req[t], value)]
  /\ disturbed' = [s \in Thread |-> disturbed[s] \/ value' # value]
  /\ UNCHANGED req

Lose(t) ==
  /\ InCall(t)
  /\ req[t] \in Lossy
  /\ disturbed[t]
  /\ res' = [res EXCEPT ![t] = Answer(req[t], value)]
  /\ UNCHANGED <<value, req, disturbed>>

Return(t) ==
  /\ req[t] # None
  /\ res[t] # Pending
  /\ req' = [req EXCEPT ![t] = None]
  /\ res' = [res EXCEPT ![t] = Pending]
  /\ UNCHANGED <<value, disturbed>>

Next ==
  \E t \in Thread :
    \/ \E r \in Request : Begin(t, r)
    \/ TakeEffect(t)
    \/ Lose(t)
    \/ Return(t)

Spec == Init /\ [][Next]_vars
=============================================================================
