---------------------------- MODULE ReductionHandler ----------------------------
(***************************************************************************)
(* How the threads of a process combine what their elements contribute to  *)
(* a reduction.  Each thread keeps the partial results of the elements it  *)
(* has executed in a table of its own (DataHandler), an open-addressing    *)
(* table like that of ReductionCounter.  Handler::insert_or_combine first  *)
(* adds to that table, then counts with increment; the thread for which    *)
(* increment returns true takes the partial results out of the tables of   *)
(* all the threads.  Nothing is locked: a table is written by its thread   *)
(* and emptied by another.                                                 *)
(*                                                                         *)
(* What is combined is the set of the contributions in it, each a number.  *)
(***************************************************************************)
EXTENDS ReductionCounter, Sequences, FiniteSetsExt

(* The workers in the order of per_thread_data_handlers_, which Gather      *)
(* walks from 1 on: entry 0 belongs to the thread of the driver, which      *)
(* executes no action and so contributes nothing.                           *)
CONSTANT Order

ASSUME OrderAssumption ==
  /\ Order \in Seq(Thread) /\ Len(Order) = Cardinality(Thread)
  /\ \A t \in Thread : \E n \in DOMAIN Order : Order[n] = t

VARIABLES
  hpc,         \* the place of each thread in Handler::insert_or_combine
  mine,        \* the contribution a thread is making: its key, its number
  at,          \* the probe of a thread into its table
  data,        \* per_thread_data_handlers_
  todo,        \* contributions not begun yet
  gathered,    \* what the thread that was told true has taken out
  pending,     \* the threads whose tables it has not looked into
  result       \* what was handed on for each reduction

handlerVars == <<hpc, mine, at, data, todo, gathered, pending, result>>
allVars == <<vars, handlerVars>>

Contribution == Nat \ {0}
NoEntry == [id |-> Free, parts |-> {}]

HandlerTypeOK ==
  /\ TypeOK
  /\ hpc \in [Thread -> {"out", "store", "insert", "combine", "count", "pop",
                         "gather", "capacity"}]
  /\ \A t \in Thread :
       /\ mine[t].id \in Key \cup {Free} /\ mine[t].part \in Nat
       /\ at[t] \in 0 .. Size
       /\ \A i \in Slot : /\ data[t][i].id \in Key \cup {Free}
                          /\ data[t][i].parts \subseteq Contribution
                          /\ data[t][i].parts = {} <=> data[t][i].id = Free
       /\ gathered[t] \subseteq Contribution
       /\ pending[t] \subseteq Thread
  /\ todo \in [Key -> Nat]
  /\ \A k \in Key : result[k] \subseteq Contribution

HandlerInit ==
  /\ Init
  /\ hpc = [t \in Thread |-> "out"]
  /\ mine = [t \in Thread |-> [id |-> Free, part |-> 0]]
  /\ at = [t \in Thread |-> 0]
  /\ data = [t \in Thread |-> [i \in Slot |-> NoEntry]]
  /\ todo = Expected
  /\ gathered = [t \in Thread |-> {}]
  /\ pending = [t \in Thread |-> {}]
  /\ result = [k \in Key |-> {}]

Move(t, place) == hpc' = [hpc EXCEPT ![t] = place]
ProbedBy(t) == (mine[t].id + at[t]) % Size    \* the slot a thread looks at
Looked(t) == data[t][ProbedBy(t)].id

-----------------------------------------------------------------------------
(* DataHandler::insert_or_combine *)

Contribute(t, k) ==
  /\ hpc[t] = "out"
  /\ todo[k] > 0
  /\ todo' = [todo EXCEPT ![k] = @ - 1]
  /\ mine' = [mine EXCEPT ![t] = [id |-> k, part |-> todo[k]]]
  /\ at' = [at EXCEPT ![t] = 0]
  /\ Move(t, "store")
  /\ UNCHANGED <<vars, data, gathered, pending, result>>

(* The relaxed load of the id in a slot.                                   *)
Look(t) ==
  /\ hpc[t] = "store"
  /\ \/ at[t] = Size /\ Move(t, "capacity") /\ UNCHANGED at
     \/ at[t] < Size /\ Looked(t) = mine[t].id /\ Move(t, "combine") /\ UNCHANGED at
     \/ at[t] < Size /\ Looked(t) = Free /\ Move(t, "insert") /\ UNCHANGED at
     \/ /\ at[t] < Size /\ Looked(t) \notin {mine[t].id, Free}
        /\ at' = [at EXCEPT ![t] = @ + 1]
        /\ UNCHANGED hpc
  /\ UNCHANGED <<vars, mine, data, todo, gathered, pending, result>>

(* Mutant of Put: the new data replace the old.                            *)
PutInstead(t) ==
  /\ hpc[t] \in {"insert", "combine"}
  /\ data' = [data EXCEPT ![t][ProbedBy(t)] =
                [id |-> mine[t].id, parts |-> {mine[t].part}]]
  /\ Move(t, "count")
  /\ UNCHANGED <<vars, mine, at, todo, gathered, pending, result>>

(* fetch_add on the id and the message, or BinaryOp on the data there.     *)
(* Between the two the slot shows an id without a message; nobody takes it *)
(* out then, as this contribution has not been counted.                    *)
Put(t) ==
  /\ hpc[t] \in {"insert", "combine"}
  /\ data' = [data EXCEPT ![t][ProbedBy(t)] =
                [id |-> @.id + (IF hpc[t] = "insert" THEN mine[t].id ELSE 0),
                 parts |-> @.parts \cup {mine[t].part}]]
  /\ Move(t, "count")
  /\ UNCHANGED <<vars, mine, at, todo, gathered, pending, result>>

-----------------------------------------------------------------------------
(* Counter::increment, and what follows it                                 *)

Call(t) ==
  /\ hpc[t] = "count"
  /\ Begin(t, mine[t].id)
  /\ UNCHANGED handlerVars

(* increment returns false, or true.                                       *)
Return(t) ==
  /\ Increment(t)
  /\ \/ pc[t] = "free" /\ Move(t, "pop")
     \/ pc[t] # "free" /\ pc'[t] = "idle" /\ Move(t, "out")
     \/ pc'[t] # "idle" /\ UNCHANGED hpc
  /\ UNCHANGED <<mine, at, data, todo, gathered, pending, result>>

(* index_of: the first slot in the order of probing that holds the id; it  *)
(* does not stop at a free slot.                                           *)
Holding(t, k) == {j \in 0 .. Size - 1 : data[t][(k + j) % Size].id = k}
(* pop throws when there is none; Min would have no value here.            *)
IndexOf(t, k) == (k + Min(Holding(t, k))) % Size

(* Mutant of TakeOut: the slot is not given back.                          *)
TakeOutAndLeave(t, s, k) ==
  LET i == IndexOf(s, k) IN
  /\ gathered' = [gathered EXCEPT ![t] = @ \cup data[s][i].parts]
  /\ UNCHANGED data

(* pop from the table of s, which its thread may be working on.            *)
TakeOut(t, s, k) ==
  LET i == IndexOf(s, k) IN
  /\ gathered' = [gathered EXCEPT ![t] = @ \cup data[s][i].parts]
  /\ data' = [data EXCEPT ![s][i] = NoEntry]

PopOwn(t) ==
  /\ hpc[t] = "pop"
  /\ TakeOut(t, t, mine[t].id)
  /\ pending' = [pending EXCEPT ![t] = Thread \ {t}]
  /\ Move(t, "gather")
  /\ UNCHANGED <<vars, mine, at, todo, result>>

(* The table of the next thread.                                           *)
NextTable(t) == Order[Min({n \in DOMAIN Order : Order[n] \in pending[t]})]

(* Mutant of Gather: the tables of the other threads are not looked into.  *)
GatherNothing(t) ==
  /\ hpc[t] = "gather"
  /\ pending[t] # {}
  /\ pending' = [pending EXCEPT ![t] = @ \ {NextTable(t)}]
  /\ UNCHANGED <<vars, hpc, mine, at, data, todo, gathered, result>>

Gather(t) ==
  /\ hpc[t] = "gather"
  /\ pending[t] # {}
  /\ LET s == NextTable(t) IN
       /\ pending' = [pending EXCEPT ![t] = @ \ {s}]
       /\ \/ Holding(s, mine[t].id) # {} /\ TakeOut(t, s, mine[t].id)
          \/ Holding(s, mine[t].id) = {} /\ UNCHANGED <<data, gathered>>
  /\ UNCHANGED <<vars, hpc, mine, at, todo, result>>

(* The combined message is handed on: it is queued for the loop to send.   *)
HandOn(t) ==
  /\ hpc[t] = "gather"
  /\ pending[t] = {}
  /\ result' = [result EXCEPT ![mine[t].id] = gathered[t]]
  /\ gathered' = [gathered EXCEPT ![t] = {}]
  /\ Move(t, "out")
  /\ UNCHANGED <<vars, mine, at, data, todo, pending>>

(* After its callback the program starts the next reduction under this id. *)
StartAgain(k) ==
  /\ result[k] # {}
  /\ Reuse(k)
  /\ todo' = [todo EXCEPT ![k] = Expected[k]]
  /\ result' = [result EXCEPT ![k] = {}]
  /\ UNCHANGED <<hpc, mine, at, data, gathered, pending>>

-----------------------------------------------------------------------------
InsertOrCombine(t) ==
  Look(t) \/ Put(t) \/ Call(t) \/ Return(t) \/ PopOwn(t) \/ Gather(t) \/ HandOn(t)

HandlerNext ==
  \/ \E t \in Thread, k \in Key : Contribute(t, k)
  \/ \E t \in Thread : InsertOrCombine(t)
  \/ \E k \in Key : StartAgain(k)

HandlerSpec == HandlerInit /\ [][HandlerNext]_allVars

(* A thread inside insert_or_combine is scheduled; nobody need contribute. *)
HandlerFairSpec == HandlerSpec /\ \A t \in Thread : WF_allVars(InsertOrCombine(t))

-----------------------------------------------------------------------------
(* Properties *)

(* The process hands on the contributions of all its elements, whichever   *)
(* threads they ran on and whatever other reductions came and went in the  *)
(* tables meanwhile.                                                       *)
HandedOnIsWhole == \A k \in Key : result[k] \in {{}, 1 .. Expected[k]}

(* "After completion, reduction data is removed from all thread-local      *)
(* DataHandlers": what is left behind would be combined into the next      *)
(* reduction with this id.                                                 *)
TablesAreEmptied ==
  \A k \in Key : result[k] # {} => \A t \in Thread : Holding(t, k) = {}

(* Every contribution comes back, and the last one with the result: the    *)
(* reduction is handed on.                                                 *)
ReductionIsHandedOn ==
  \A k \in Key : (todo[k] = 0 /\ result[k] = {}) ~> (result[k] # {})
=============================================================================
