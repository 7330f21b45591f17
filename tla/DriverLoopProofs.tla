---------------------------- MODULE DriverLoopProofs ----------------------------
(***************************************************************************)
(* For any number of workers, tasks and messages: of the thread pool the   *)
(* type invariant, the balance of the counters, the exactness of the idle  *)
(* count, and that a positive answer of is_quiescent is never premature;   *)
(* of run_to_quiescence that it uses the pool as ThreadPool specifies it,  *)
(* so that all this holds of the process, and that it asks qd::Global only *)
(* when the process is quiet.                                              *)
(***************************************************************************)
EXTENDS DriverLoop, FiniteSetTheorems, TLAPS

LEMMA InitIInv == Init => IInv
<1> SUFFICES ASSUME Init PROVE IInv
  OBVIOUS
<1> USE DEF Init
<1>1. TypeOK
  <2>1. stop_threads \in BOOLEAN /\ quiescent \in BOOLEAN
    BY Zenon
  <2>2. miss_count \in [Worker -> -1 .. MissesForIdle - 1]
    BY MissesAssumption
  <2> QED
    BY <2>1, <2>2 DEF TypeOK
<1>2. Outstanding = {} /\ Idle = {}
  BY DEF Outstanding, Idle
<1>3. IsFiniteSet(Outstanding) /\ Cardinality(Outstanding) = 0
  BY <1>2, FS_EmptySet
<1>4. CountersBalance /\ IdleCountIsExact
  BY <1>2, FS_EmptySet DEF CountersBalance, IdleCountIsExact
<1>5. HandsAgree /\ NothingShared /\ BatchIsCounted
  BY DEF HandsAgree, NothingShared, BatchIsCounted
<1>6. PhasesKnow /\ StoppedIsQuiet /\ QuiescenceIsReal
  BY <1>2 DEF PhasesKnow, StoppedIsQuiet, QuiescenceIsReal
<1> QED
  BY <1>1, <1>3, <1>4, <1>5, <1>6 DEF IInv

(* What follows when a step leaves the set of outstanding tasks alone: the *)
(* counters, the phases and the answers keep what they said.               *)
LEMMA BalanceKept ==
  ASSUME IInv, Outstanding' = Outstanding, UNCHANGED <<sent, processed>>
  PROVE  IsFiniteSet(Outstanding)' /\ CountersBalance'
  BY DEF IInv, CountersBalance

LEMMA IdleKept ==
  ASSUME IInv, UNCHANGED <<idle, miss_count>>
  PROVE  IdleCountIsExact'
<1>1. Idle' = Idle
  BY DEF Idle
<1> QED
  BY <1>1 DEF IInv, IdleCountIsExact

LEMMA AnswersKept ==
  ASSUME IInv, Outstanding' = Outstanding,
         UNCHANGED <<sent, skrVars, driver, quiescent>>
  PROVE  PhasesKnow' /\ StoppedIsQuiet' /\ QuiescenceIsReal'
  BY DEF IInv, PhasesKnow, StoppedIsQuiet, QuiescenceIsReal, skrVars

-----------------------------------------------------------------------------
(* The steps of a worker. *)

LEMMA PollStep ==
  ASSUME IInv, NEW w \in Worker, Poll(w)
  PROVE  IInv'
<1> USE DEF Poll
<1>1. Outstanding' = Outstanding
  BY DEF Outstanding
<1>2. TypeOK' /\ HandsAgree' /\ NothingShared' /\ BatchIsCounted'
  BY DEF IInv, TypeOK, HandsAgree, NothingShared, BatchIsCounted,
         skrVars, driverVars
<1> QED
  BY <1>1, <1>2, BalanceKept, IdleKept, AnswersKept DEF IInv, driverVars

LEMMA DequeueStep ==
  ASSUME IInv, NEW w \in Worker, NEW m \in Task, Dequeue(w, m)
  PROVE  IInv'
<1> USE DEF Dequeue
<1>1. Outstanding' = Outstanding
  BY DEF Outstanding, IInv, TypeOK
<1>2. TypeOK'
  BY DEF IInv, TypeOK, skrVars, driverVars
<1>3. HandsAgree'
  BY TaskAssumption DEF IInv, TypeOK, HandsAgree, driverVars
<1>4. NothingShared'
  BY DEF IInv, TypeOK, HandsAgree, NothingShared, driverVars
<1>5. BatchIsCounted'
  BY DEF IInv, TypeOK, BatchIsCounted, driverVars
<1> QED
  BY <1>1, <1>2, <1>3, <1>4, <1>5, BalanceKept, IdleKept, AnswersKept
  DEF IInv, driverVars

LEMMA MissStep ==
  ASSUME IInv, NEW w \in Worker, Miss(w)
  PROVE  IInv'
<1> USE DEF Miss
<1>1. Outstanding' = Outstanding
  BY DEF Outstanding
<1>2. TypeOK'
  BY MissesAssumption DEF IInv, TypeOK, skrVars, driverVars
<1>3. HandsAgree' /\ NothingShared' /\ BatchIsCounted'
  BY DEF IInv, TypeOK, HandsAgree, NothingShared, BatchIsCounted, driverVars
<1>4. IdleCountIsExact'
  <2>1. CASE UNCHANGED <<miss_count, idle>>
    BY <2>1, IdleKept
  <2>2. CASE /\ miss_count[w] \in 0 .. MissesForIdle - 2
             /\ miss_count' = [miss_count EXCEPT ![w] = @ + 1]
             /\ UNCHANGED idle
    <3>1. Idle' = Idle
      BY <2>2, MissesAssumption DEF Idle, IInv, TypeOK
    <3> QED
      BY <2>2, <3>1 DEF IInv, IdleCountIsExact
  <2>3. CASE /\ miss_count[w] = MissesForIdle - 1
             /\ miss_count' = [miss_count EXCEPT ![w] = -1]
             /\ idle' = idle + 1
    <3>1. Idle' = Idle \cup {w} /\ w \notin Idle
      BY <2>3, MissesAssumption DEF Idle, IInv, TypeOK
    <3>2. IsFiniteSet(Idle)
      BY WorkerAssumption, FS_Subset DEF Idle
    <3> QED
      BY <2>3, <3>1, <3>2, FS_AddElement DEF IInv, IdleCountIsExact
  <2> QED
    BY <2>1, <2>2, <2>3
<1> QED
  BY <1>1, <1>2, <1>3, <1>4, BalanceKept, AnswersKept DEF IInv, driverVars

LEMMA WakeStep ==
  ASSUME IInv, NEW w \in Worker, Wake(w)
  PROVE  IInv'
<1> USE DEF Wake
<1>1. Outstanding' = Outstanding
  BY DEF Outstanding
<1>2. TypeOK'
  BY MissesAssumption DEF IInv, TypeOK, skrVars, driverVars
<1>3. HandsAgree' /\ NothingShared' /\ BatchIsCounted'
  BY DEF IInv, TypeOK, HandsAgree, NothingShared, BatchIsCounted, driverVars
<1>4. IdleCountIsExact'
  <2>1. Idle' = Idle \ {w} /\ w \in Idle
    BY DEF Idle, IInv, TypeOK, HandsAgree
  <2>2. IsFiniteSet(Idle)
    BY WorkerAssumption, FS_Subset DEF Idle
  <2> QED
    BY <2>1, <2>2, FS_RemoveElement DEF IInv, IdleCountIsExact
<1> QED
  BY <1>1, <1>2, <1>3, <1>4, BalanceKept, AnswersKept DEF IInv, driverVars

(* A worker that executes something keeps the process from being quiet.    *)
LEMMA BusyIsOutstanding ==
  ASSUME IInv, NEW w \in Worker, pc[w] = "execute"
  PROVE  /\ holding[w] \in Outstanding
         /\ holding[w] \in Task
         /\ task[holding[w]] = "held"
         /\ ~quiescent
         /\ driver \notin {"joining", "stopped"}
<1>1. holding[w] # NoTask /\ task[holding[w]] = "held"
  BY DEF IInv, HandsAgree
<1>2. holding[w] \in Task
  BY <1>1 DEF IInv, TypeOK
<1>3. holding[w] \in Outstanding
  BY <1>1, <1>2 DEF Outstanding
<1> QED
  BY <1>1, <1>2, <1>3 DEF IInv, QuiescenceIsReal, StoppedIsQuiet

(* One more fresh task is counted: the balance, and what the phases know.  *)
LEMMA OneMoreOutstanding ==
  ASSUME IInv, NEW m \in Task, task[m] = "fresh",
         task' = [task EXCEPT ![m] = "counted"],
         sent' = sent + 1, UNCHANGED processed
  PROVE  IsFiniteSet(Outstanding)' /\ CountersBalance'
<1>1. Outstanding' = Outstanding \cup {m} /\ m \notin Outstanding
  BY DEF Outstanding, IInv, TypeOK
<1>2. /\ IsFiniteSet(Outstanding')
      /\ Cardinality(Outstanding') = Cardinality(Outstanding) + 1
  BY <1>1, FS_AddElement DEF IInv
<1> QED
  BY <1>2 DEF IInv, TypeOK, CountersBalance

LEMMA CountSpawnedStep ==
  ASSUME IInv, NEW w \in Worker, NEW m \in Task, CountSpawned(w, m)
  PROVE  IInv'
<1> USE DEF CountSpawned
<1>1. /\ Outstanding # {}
      /\ ~quiescent
      /\ driver \notin {"joining", "stopped"}
  BY BusyIsOutstanding
<1>2. TypeOK'
  BY DEF IInv, TypeOK, skrVars, driverVars
<1>3. HandsAgree'
  BY TaskAssumption DEF IInv, TypeOK, HandsAgree, BatchIsCounted, driverVars
<1>4. NothingShared'
  BY DEF IInv, TypeOK, HandsAgree, NothingShared, driverVars
<1>5. BatchIsCounted'
  BY DEF IInv, TypeOK, BatchIsCounted, driverVars
<1>6. IsFiniteSet(Outstanding)' /\ CountersBalance'
  BY OneMoreOutstanding
<1>7. PhasesKnow' /\ StoppedIsQuiet' /\ QuiescenceIsReal'
  BY <1>1 DEF IInv, TypeOK, PhasesKnow, StoppedIsQuiet, QuiescenceIsReal,
              skrVars, driverVars
<1> QED
  BY <1>2, <1>3, <1>4, <1>5, <1>6, <1>7, IdleKept DEF IInv

LEMMA EnqueueSpawnedStep ==
  ASSUME IInv, NEW w \in Worker, EnqueueSpawned(w)
  PROVE  IInv'
<1> USE DEF EnqueueSpawned
<1>1. making[w] \in Task /\ task[making[w]] = "counted"
  BY DEF IInv, TypeOK, HandsAgree
<1>2. Outstanding' = Outstanding
  BY <1>1 DEF Outstanding, IInv, TypeOK
<1>3. TypeOK'
  BY DEF IInv, TypeOK, skrVars, driverVars
<1>4. HandsAgree'
  BY <1>1 DEF IInv, TypeOK, HandsAgree, NothingShared, driverVars
<1>5. NothingShared'
  BY DEF IInv, TypeOK, NothingShared, driverVars
<1>6. BatchIsCounted'
  BY <1>1 DEF IInv, TypeOK, HandsAgree, BatchIsCounted, driverVars
<1> QED
  BY <1>2, <1>3, <1>4, <1>5, <1>6, BalanceKept, IdleKept, AnswersKept
  DEF IInv, driverVars

LEMMA InvokedStep ==
  ASSUME IInv, NEW w \in Worker, Invoked(w)
  PROVE  IInv'
<1> USE DEF Invoked
<1>1. /\ holding[w] \in Outstanding
      /\ holding[w] \in Task
      /\ task[holding[w]] = "held"
      /\ ~quiescent
      /\ driver \notin {"joining", "stopped"}
  BY BusyIsOutstanding
<1>2. Outstanding' = Outstanding \ {holding[w]}
  BY <1>1 DEF Outstanding, IInv, TypeOK
<1>3. TypeOK'
  BY <1>1 DEF IInv, TypeOK, skrVars, driverVars
<1>4. HandsAgree'
  BY <1>1 DEF IInv, TypeOK, HandsAgree, NothingShared, driverVars
<1>5. NothingShared'
  BY DEF IInv, TypeOK, NothingShared, driverVars
<1>6. BatchIsCounted'
  BY <1>1 DEF IInv, TypeOK, BatchIsCounted, driverVars
<1>7. IsFiniteSet(Outstanding)' /\ CountersBalance'
  <2>1. /\ IsFiniteSet(Outstanding')
        /\ Cardinality(Outstanding') = Cardinality(Outstanding) - 1
    BY <1>1, <1>2, FS_RemoveElement DEF IInv
  <2> QED
    BY <2>1 DEF IInv, TypeOK, CountersBalance
<1>8. PhasesKnow' /\ StoppedIsQuiet' /\ QuiescenceIsReal'
  BY <1>1, <1>2 DEF IInv, TypeOK, PhasesKnow, StoppedIsQuiet,
                    QuiescenceIsReal, skrVars, driverVars
<1> QED
  BY <1>3, <1>4, <1>5, <1>6, <1>7, <1>8, IdleKept DEF IInv

LEMMA RequeueStep ==
  ASSUME IInv, NEW w \in Worker, Requeue(w)
  PROVE  IInv'
<1>1. holding[w] \in Task /\ task[holding[w]] = "held"
  BY BusyIsOutstanding DEF Requeue
<1>2. PICK s \in {"queued", "lost"} : task' = [task EXCEPT ![holding[w]] = s]
  BY DEF Requeue
<1> USE DEF Requeue
<1>3. Outstanding' = Outstanding
  BY <1>1, <1>2 DEF Outstanding, IInv, TypeOK
<1>4. TypeOK'
  BY <1>1, <1>2 DEF IInv, TypeOK, skrVars, driverVars
<1>5. HandsAgree'
  BY <1>1, <1>2 DEF IInv, TypeOK, HandsAgree, NothingShared, driverVars
<1>6. NothingShared'
  BY DEF IInv, TypeOK, NothingShared, driverVars
<1>7. BatchIsCounted'
  BY <1>1, <1>2 DEF IInv, TypeOK, BatchIsCounted, driverVars
<1> QED
  BY <1>3, <1>4, <1>5, <1>6, <1>7, BalanceKept, IdleKept, AnswersKept
  DEF IInv, driverVars

-----------------------------------------------------------------------------
(* The steps of the driver thread. *)

LEMMA CountAddedStep ==
  ASSUME IInv, NEW m \in Task, CountAdded(m)
  PROVE  IInv'
<1> USE DEF CountAdded
<1>1. TypeOK'
  <2>1. quiescent' \in BOOLEAN
    BY Zenon
  <2> QED
    BY <2>1 DEF IInv, TypeOK, skrVars, workerVars
<1>2. HandsAgree'
  BY DEF IInv, TypeOK, HandsAgree, workerVars
<1>3. NothingShared' /\ BatchIsCounted'
  BY DEF IInv, TypeOK, NothingShared, BatchIsCounted, workerVars
<1>4. IsFiniteSet(Outstanding)' /\ CountersBalance'
  BY OneMoreOutstanding
<1>5. PhasesKnow' /\ StoppedIsQuiet' /\ QuiescenceIsReal'
  BY DEF IInv, TypeOK, PhasesKnow, StoppedIsQuiet, QuiescenceIsReal, skrVars
<1> QED
  BY <1>1, <1>2, <1>3, <1>4, <1>5, IdleKept DEF IInv, workerVars

LEMMA EnqueueAddedStep ==
  ASSUME IInv, EnqueueAdded
  PROVE  IInv'
<1> USE DEF EnqueueAdded
<1>1. Outstanding' = Outstanding
  BY DEF Outstanding, IInv, TypeOK, BatchIsCounted
<1>2. TypeOK'
  BY DEF IInv, TypeOK, skrVars, workerVars
<1>3. HandsAgree'
  BY DEF IInv, TypeOK, HandsAgree, BatchIsCounted, workerVars
<1>4. NothingShared' /\ BatchIsCounted'
  BY DEF IInv, NothingShared, BatchIsCounted, workerVars
<1>5. PhasesKnow' /\ StoppedIsQuiet' /\ QuiescenceIsReal'
  BY <1>1 DEF IInv, PhasesKnow, StoppedIsQuiet, QuiescenceIsReal, skrVars
<1> QED
  BY <1>1, <1>2, <1>3, <1>4, <1>5, BalanceKept, IdleKept DEF IInv, workerVars

LEMMA LoadIdleStep ==
  ASSUME IInv, LoadIdle
  PROVE  IInv'
<1> USE DEF LoadIdle
<1>1. Outstanding' = Outstanding
  BY DEF Outstanding
<1>2. TypeOK'
  <2>1. quiescent' \in BOOLEAN
    BY Zenon DEF IInv, TypeOK
  <2> QED
    BY <2>1 DEF IInv, TypeOK, workerVars
<1>3. HandsAgree' /\ NothingShared' /\ BatchIsCounted'
  BY DEF IInv, HandsAgree, NothingShared, BatchIsCounted, workerVars
<1>4. PhasesKnow' /\ StoppedIsQuiet' /\ QuiescenceIsReal'
  BY <1>1 DEF IInv, PhasesKnow, StoppedIsQuiet, QuiescenceIsReal
<1> QED
  BY <1>1, <1>2, <1>3, <1>4, BalanceKept, IdleKept DEF IInv, workerVars

(* Here the second phase learns something: sent still has the value at     *)
(* which the counters were equal.                                          *)
LEMMA LoadSentStep ==
  ASSUME IInv, LoadSent
  PROVE  IInv'
<1> USE DEF LoadSent
<1>1. Outstanding' = Outstanding
  BY DEF Outstanding
<1>2. TypeOK'
  BY DEF IInv, TypeOK, workerVars
<1>3. HandsAgree' /\ NothingShared' /\ BatchIsCounted'
  BY DEF IInv, HandsAgree, NothingShared, BatchIsCounted, workerVars
<1>4. PhasesKnow' /\ StoppedIsQuiet' /\ QuiescenceIsReal'
  BY <1>1 DEF IInv, TypeOK, PhasesKnow, StoppedIsQuiet, QuiescenceIsReal
<1> QED
  BY <1>1, <1>2, <1>3, <1>4, BalanceKept, IdleKept DEF IInv, workerVars

LEMMA LoadProcessedStep ==
  ASSUME IInv, LoadProcessed
  PROVE  IInv'
<1> USE DEF LoadProcessed
<1>1. Outstanding' = Outstanding
  BY DEF Outstanding
<1>2. TypeOK'
  <2>1. quiescent' \in BOOLEAN
    BY Zenon
  <2> QED
    BY <2>1 DEF IInv, TypeOK, workerVars
<1>3. HandsAgree' /\ NothingShared' /\ BatchIsCounted'
  BY DEF IInv, HandsAgree, NothingShared, BatchIsCounted, workerVars
<1>4. QuiescenceIsReal' /\ StoppedIsQuiet'
  BY <1>1 DEF IInv, PhasesKnow, QuiescenceIsReal, StoppedIsQuiet
<1>5. PhasesKnow'
  <2>1. CASE phase = 1 /\ loaded = processed
    <3>1. loaded <= sent /\ (loaded = sent => Cardinality(Outstanding) = 0)
      BY <2>1 DEF IInv, TypeOK, PhasesKnow, CountersBalance
    <3>2. loaded = sent => Outstanding = {}
      BY <3>1, FS_EmptySet DEF IInv
    <3> QED
      BY <1>1, <2>1, <3>1, <3>2 DEF PhasesKnow
  <2>2. CASE phase = 1 /\ loaded # processed
    BY <2>2 DEF PhasesKnow
  <2>3. CASE phase = 2
    BY <1>1, <2>3 DEF IInv, PhasesKnow
  <2> QED
    BY <2>1, <2>2, <2>3
<1> QED
  BY <1>1, <1>2, <1>3, <1>4, <1>5, BalanceKept, IdleKept DEF IInv, workerVars

LEMMA StopStep ==
  ASSUME IInv, Stop
  PROVE  IInv'
<1> USE DEF Stop
<1>1. Outstanding' = Outstanding
  BY DEF Outstanding
<1>2. TypeOK'
  <2>1. stop_threads' \in BOOLEAN
    BY Zenon
  <2> QED
    BY <2>1 DEF IInv, TypeOK, workerVars, skrVars
<1>3. HandsAgree' /\ NothingShared' /\ BatchIsCounted'
  BY DEF IInv, HandsAgree, NothingShared, BatchIsCounted, workerVars
<1>4. PhasesKnow' /\ StoppedIsQuiet' /\ QuiescenceIsReal'
  BY <1>1 DEF IInv, PhasesKnow, StoppedIsQuiet, QuiescenceIsReal, skrVars
<1> QED
  BY <1>1, <1>2, <1>3, <1>4, BalanceKept, IdleKept DEF IInv, workerVars

LEMMA JoinStep ==
  ASSUME IInv, Join
  PROVE  IInv'
<1> USE DEF Join
<1>1. Outstanding' = Outstanding
  BY DEF Outstanding
<1>2. TypeOK' /\ HandsAgree' /\ NothingShared' /\ BatchIsCounted'
  BY DEF IInv, TypeOK, HandsAgree, NothingShared, BatchIsCounted, workerVars,
         skrVars
<1>3. PhasesKnow' /\ StoppedIsQuiet' /\ QuiescenceIsReal'
  BY <1>1 DEF IInv, PhasesKnow, StoppedIsQuiet, QuiescenceIsReal, skrVars
<1> QED
  BY <1>1, <1>2, <1>3, BalanceKept, IdleKept DEF IInv, workerVars

(* A relaunch may zero the counters because nothing is on its way.         *)
LEMMA LaunchStep ==
  ASSUME IInv, Launch
  PROVE  IInv'
<1> USE DEF Launch
<1>1. Outstanding' = {} /\ Outstanding = {}
  BY DEF Outstanding, IInv, StoppedIsQuiet
<1>2. \A w \in Worker : holding[w] = NoTask /\ making[w] = NoTask
  BY <1>1 DEF Outstanding, IInv, TypeOK, HandsAgree
<1>3. TypeOK'
  <2>1. stop_threads' \in BOOLEAN /\ quiescent' \in BOOLEAN
    BY Zenon
  <2> QED
    BY <2>1, MissesAssumption DEF IInv, TypeOK
<1>4. HandsAgree' /\ NothingShared' /\ BatchIsCounted'
  BY <1>2 DEF IInv, TypeOK, HandsAgree, NothingShared, BatchIsCounted
<1>5. IsFiniteSet(Outstanding)' /\ CountersBalance'
  BY <1>1, FS_EmptySet DEF CountersBalance
<1>6. IdleCountIsExact'
  <2>1. Idle' = {}
    BY DEF Idle
  <2> QED
    BY <2>1, FS_EmptySet DEF IdleCountIsExact
<1>7. PhasesKnow' /\ StoppedIsQuiet' /\ QuiescenceIsReal'
  BY <1>1 DEF PhasesKnow, StoppedIsQuiet, QuiescenceIsReal
<1> QED
  BY <1>3, <1>4, <1>5, <1>6, <1>7 DEF IInv

-----------------------------------------------------------------------------
LEMMA StutterStep ==
  ASSUME IInv, UNCHANGED vars
  PROVE  IInv'
<1> USE DEF vars
<1>1. Outstanding' = Outstanding
  BY DEF Outstanding
<1>2. TypeOK' /\ HandsAgree' /\ NothingShared' /\ BatchIsCounted'
  BY DEF IInv, TypeOK, HandsAgree, NothingShared, BatchIsCounted, workerVars,
         skrVars, driverVars
<1> QED
  BY <1>1, <1>2, BalanceKept, IdleKept, AnswersKept
  DEF IInv, workerVars, driverVars

LEMMA NextIInv == IInv /\ [Next]_vars => IInv'
<1> SUFFICES ASSUME IInv, [Next]_vars PROVE IInv'
  OBVIOUS
<1>1. ASSUME NEW w \in Worker, WorkerStep(w) PROVE IInv'
  BY <1>1, PollStep, DequeueStep, MissStep, WakeStep, CountSpawnedStep,
     EnqueueSpawnedStep, InvokedStep, RequeueStep DEF WorkerStep
<1>2. ASSUME NEW m \in Task, CountAdded(m) PROVE IInv'
  BY <1>2, CountAddedStep
<1>3. CASE EnqueueAdded
  BY <1>3, EnqueueAddedStep
<1>4. CASE Check
  BY <1>4, LoadIdleStep, LoadSentStep, LoadProcessedStep DEF Check
<1>5. CASE Stop \/ Join \/ Launch
  BY <1>5, StopStep, JoinStep, LaunchStep
<1>6. CASE UNCHANGED vars
  BY <1>6, StutterStep
<1> QED
  BY <1>1, <1>2, <1>3, <1>4, <1>5, <1>6 DEF Next

LEMMA InductiveInvariant == Spec => []IInv
<1>1. Init => IInv
  BY InitIInv
<1>2. IInv /\ [Next]_vars => IInv'
  BY NextIInv
<1> QED
  BY <1>1, <1>2, PTL DEF Spec

(* Every variable keeps its type, whatever the threads do.                 *)
THEOREM TypeCorrect == Spec => []TypeOK
<1>1. IInv => TypeOK
  BY DEF IInv
<1> QED
  BY <1>1, InductiveInvariant, PTL

(* is_quiescent never returns true while a task is queued, executing or    *)
(* on its way into the queue.                                              *)
THEOREM QuiescenceIsNeverPremature == Spec => []QuiescenceIsReal
<1>1. IInv => QuiescenceIsReal
  BY DEF IInv
<1> QED
  BY <1>1, InductiveInvariant, PTL

(* The counters neither lose nor invent a task, whatever the order in      *)
(* which it is counted, queued, executed and requeued.                     *)
THEOREM CountersAreExact == Spec => []CountersBalance
<1>1. IInv => CountersBalance
  BY DEF IInv
<1> QED
  BY <1>1, InductiveInvariant, PTL

(* The idle count does not drift, though a worker leaves it only after it  *)
(* has taken a task, and stops and relaunches come in between.             *)
THEOREM IdleCountNeverDrifts == Spec => []IdleCountIsExact
<1>1. IInv => IdleCountIsExact
  BY DEF IInv
<1> QED
  BY <1>1, InductiveInvariant, PTL

-----------------------------------------------------------------------------
(* The loop *)

(* What the loop does to the pool, the pool allows.                        *)
LEMMA LoopStepIsPoolStep == LoopNext => [Next]_vars
<1>1. Work => Next
  BY DEF Work, Next, WorkerStep, Free
<1>2. Program => Next
  BY DEF Program, Next, Free
<1>3. IsLocallyQuiescent => Next
  BY DEF IsLocallyQuiescent, Next, Check
<1>4. AddDue => Next
  BY DEF AddDue, Next
<1> QED
  BY <1>1, <1>2, <1>3, <1>4
  DEF LoopNext, SendData, Run, Loop, InitiateReceives, Retrieve, Dispatch,
      EndSends, CleanIncoming, CleanOutgoing, LookAtQueues, CheckGlobal

(* run_to_quiescence uses the thread pool as ThreadPool specifies it.      *)
THEOREM LoopImplementsPool == LoopSpec => Spec
<1>1. LoopInit => Init
  BY DEF LoopInit
<1>2. [LoopNext]_allVars => [Next]_vars
  BY LoopStepIsPoolStep DEF allVars
<1> QED
  BY <1>1, <1>2, PTL DEF LoopSpec, Spec

-----------------------------------------------------------------------------
(* Where the driver thread is tells what it has cleared away; and when the *)
(* count is still that of the first phase, no task has run that could have *)
(* queued anything since the queue was found empty.                        *)
NothingTransferred == At("sending") \cup At("receiving") \cup At("bulk") = {}

LoopInv ==
  /\ mail \in [Mail -> {"unmade", "queued", "bulk", "sending", "sent",
                        "coming", "receiving", "handled"}]
  /\ place # "sends" => At("bulk") = {}
  /\ place \in {"queues", "local", "global"} => due = {}
  /\ place \in {"local", "global"} => NothingTransferred
  /\ place = "local" /\ phase = 2 /\ previous_count = sent => At("queued") = {}
  /\ CheckedOnlyWhenQuiet

(* A worker that executes a task has one that is outstanding.              *)
LEMMA ExecutingIsOutstanding ==
  ASSUME IInv, NEW w \in Worker, pc[w] = "execute"
  PROVE  Outstanding # {}
<1>1. holding[w] # NoTask /\ task[holding[w]] = "held" /\ holding[w] \in Task
  BY DEF IInv, HandsAgree, TypeOK
<1> QED
  BY <1>1 DEF Outstanding

LEMMA InitLoopInv == LoopInit => LoopInv
  BY DEF LoopInit, Init, LoopInv, At, CheckedOnlyWhenQuiet

(* While the second phase holds its count, or qd::Global is being asked,   *)
(* no worker is at work.                                                   *)
LEMMA WorkStep ==
  ASSUME IInv, LoopInv, Work
  PROVE  LoopInv'
<1>1. UNCHANGED loopVars
  BY DEF Work
<1>2. ASSUME place = "global"
      PROVE  Outstanding' = {}
  <2>1. Outstanding = {}
    BY <1>2 DEF LoopInv, CheckedOnlyWhenQuiet, NothingHere
  <2>2. \A w \in Worker : holding[w] = NoTask /\ making[w] = NoTask
    BY <2>1 DEF IInv, HandsAgree, TypeOK, Outstanding
  <2>3. \A w \in Worker : pc[w] \notin {"wake", "execute", "enqueue"}
    BY <2>2 DEF IInv, HandsAgree
  <2>4. UNCHANGED task
    <3>1. \A m \in Task : task[m] \in {"fresh", "done"}
      BY <2>1 DEF Outstanding
    <3> QED
      BY <2>3, <3>1 DEF Work, Poll, Miss, Wake, EnqueueSpawned, Invoked,
         Requeue, Dequeue, CountSpawned, Free
  <2> QED
    BY <2>1, <2>4 DEF Outstanding
<1>3. UNCHANGED <<phase, previous_count>> /\ sent' \in {sent, sent + 1}
  BY DEF Work, Poll, Miss, Wake, EnqueueSpawned, Invoked, Requeue, Dequeue,
         CountSpawned, skrVars
<1>4. phase' = 2 /\ previous_count' = sent' => previous_count = sent
  BY <1>3 DEF IInv, TypeOK, PhasesKnow
<1> QED
  BY <1>1, <1>2, <1>3, <1>4
  DEF LoopInv, CheckedOnlyWhenQuiet, NothingHere, NothingTransferred, At, loopVars

(* Only a task that is being executed, or the program outside, sends.      *)
LEMMA SendDataStep ==
  ASSUME IInv, LoopInv, NEW m \in Mail, SendData(m)
  PROVE  LoopInv'
<1>1. UNCHANGED <<vars, place, i, due, local_qd_counter>>
  BY DEF SendData
<1>2. mail' = [mail EXCEPT ![m] = "queued"]
  BY DEF SendData
<1>3. place = "outside" \/ Outstanding # {}
  BY ExecutingIsOutstanding DEF SendData
<1>4. place = "outside"
        \/ (place # "global" /\ ~(phase = 2 /\ previous_count = sent))
  BY <1>3 DEF LoopInv, CheckedOnlyWhenQuiet, NothingHere, IInv, PhasesKnow
<1>5. At("sending")' \subseteq At("sending") /\ At("receiving")' \subseteq At("receiving")
      /\ At("bulk")' \subseteq At("bulk")
  BY <1>2 DEF LoopInv, At
<1>6. mail' \in [Mail -> {"unmade", "queued", "bulk", "sending", "sent",
                         "coming", "receiving", "handled"}]
  BY <1>2 DEF LoopInv
<1> QED
  BY <1>1, <1>4, <1>5, <1>6
  DEF LoopInv, CheckedOnlyWhenQuiet, NothingTransferred, vars, skrVars

(* Outside the loop nothing is claimed but that mail is mail.              *)
LEMMA ProgramStep ==
  ASSUME LoopInv, Program
  PROVE  LoopInv'
  BY DEF Program, loopVars, LoopInv, CheckedOnlyWhenQuiet, At

LEMMA RunStep ==
  ASSUME LoopInv, Run
  PROVE  LoopInv'
  BY DEF Run, GoTo, LoopInv, CheckedOnlyWhenQuiet, At

(* Tasks are added where some are due: not where the queues are looked at. *)
LEMMA AddDueStep ==
  ASSUME IInv, LoopInv, AddDue
  PROVE  LoopInv'
<1>1. UNCHANGED <<mail, place>> /\ due' \subseteq due
  BY DEF AddDue
<1>2. UNCHANGED <<phase, previous_count>> /\ sent' \in {sent, sent + 1}
  BY DEF AddDue, CountAdded, EnqueueAdded, skrVars
<1>3. phase' = 2 /\ previous_count' = sent' => previous_count = sent
  BY <1>2 DEF IInv, TypeOK, PhasesKnow
<1>4. ASSUME place = "global"
      PROVE  Outstanding' = {}
  <2>1. Outstanding = {} /\ due = {}
    BY <1>4 DEF LoopInv, CheckedOnlyWhenQuiet, NothingHere
  <2>2. batch = {}
    BY <2>1 DEF IInv, BatchIsCounted, TypeOK, Outstanding
  <2>3. EnqueueAdded
    BY <2>1 DEF AddDue
  <2>4. UNCHANGED task
    BY <2>2, <2>3 DEF EnqueueAdded, IInv, TypeOK
  <2> QED
    BY <2>1, <2>4 DEF Outstanding
<1>5. CheckedOnlyWhenQuiet'
  BY <1>1, <1>4 DEF LoopInv, CheckedOnlyWhenQuiet, NothingHere, At
<1>6. UNCHANGED <<At("queued"), At("bulk"), At("sending"), At("receiving")>>
  BY <1>1 DEF At
<1>7. /\ place' # "sends" => At("bulk")' = {}
      /\ place' \in {"queues", "local", "global"} => due' = {}
  BY <1>1, <1>6 DEF LoopInv
<1>8. place' \in {"local", "global"} => NothingTransferred'
  BY <1>1, <1>6 DEF LoopInv, NothingTransferred
<1>9. place' = "local" /\ phase' = 2 /\ previous_count' = sent' => At("queued")' = {}
  BY <1>1, <1>2, <1>3, <1>6 DEF LoopInv
<1> QED
  BY <1>1, <1>5, <1>7, <1>8, <1>9 DEF LoopInv

(* The stations up to the look at the queues, which leave the pool alone.  *)
LEMMA TransferStep ==
  ASSUME LoopInv,
         InitiateReceives \/ Retrieve \/ (\E m \in Mail : Dispatch(m))
           \/ EndSends \/ CleanIncoming \/ CleanOutgoing
  PROVE  LoopInv'
<1> USE DEF LoopInv, CheckedOnlyWhenQuiet, At, GoTo
<1>1. CASE InitiateReceives
  <2>1. PICK M \in SUBSET At("coming") :
          mail' = [m \in Mail |-> IF m \in M THEN "receiving" ELSE mail[m]]
    BY <1>1 DEF InitiateReceives
  <2>2. place' = "sends" /\ mail' \in [Mail -> {"unmade", "queued", "bulk",
          "sending", "sent", "coming", "receiving", "handled"}]
    BY <1>1, <2>1 DEF InitiateReceives
  <2> QED
    BY <2>2
<1>2. CASE Retrieve
  BY <1>2 DEF Retrieve
<1>3. ASSUME NEW m \in Mail, Dispatch(m)
      PROVE  LoopInv'
  BY <1>3 DEF Dispatch, Handle
<1>4. CASE EndSends
  BY <1>4 DEF EndSends
<1>5. CASE CleanIncoming
  BY <1>5 DEF CleanIncoming, Handle
<1>6. CASE CleanOutgoing
  BY <1>6 DEF CleanOutgoing, Ready
<1> QED
  BY <1>1, <1>2, <1>3, <1>4, <1>5, <1>6

(* The claim about the queue is made here.                                 *)
LEMMA LookStep ==
  ASSUME LoopInv, LookAtQueues
  PROVE  LoopInv'
  BY DEF LookAtQueues, LoopInv, CheckedOnlyWhenQuiet, At, GoTo, NothingTransferred,
         vars, skrVars

(* And used here: a positive answer means that the count is still that of  *)
(* the first phase, that nothing is outstanding and nothing queued.        *)
LEMMA LocalStep ==
  ASSUME IInv, LoopInv, IsLocallyQuiescent
  PROVE  LoopInv'
<1>1. UNCHANGED <<mail, due, task, sent>> /\ place = "local"
  BY DEF IsLocallyQuiescent, LoadIdle, LoadSent, LoadProcessed
<1>2. place' \in {"receives", "local", "global"}
  BY <1>1 DEF IsLocallyQuiescent, Answered, GoTo
<1>3. ASSUME place' = "local"
      PROVE  phase' = phase /\ previous_count' = previous_count
  <2>1. \/ LoadIdle /\ idle = Cardinality(Worker)
        \/ LoadSent
    BY <1>1, <1>3 DEF IsLocallyQuiescent, Answered, GoTo
  <2> QED
    BY <2>1 DEF LoadIdle, LoadSent
<1>4. ASSUME place' = "global"
      PROVE  Outstanding = {} /\ At("queued") = {}
  <2>1. LoadProcessed /\ quiescent'
    BY <1>1, <1>4 DEF IsLocallyQuiescent, Answered, GoTo
  <2>2. /\ phase = 2 /\ loaded = processed /\ loaded = previous_count
        /\ driver = "loadProcessed"
    BY <2>1 DEF LoadProcessed
  <2>3. Outstanding = {}
    BY <2>2 DEF IInv, PhasesKnow
  <2>4. sent - processed = 0
    BY <2>3, FS_EmptySet DEF IInv, CountersBalance
  <2>5. previous_count = sent
    BY <2>2, <2>4 DEF IInv, TypeOK
  <2> QED
    BY <1>1, <2>2, <2>3, <2>5 DEF LoopInv
<1> QED
  BY <1>1, <1>2, <1>3, <1>4
  DEF LoopInv, CheckedOnlyWhenQuiet, NothingHere, NothingTransferred, At, Outstanding

LEMMA CheckStep ==
  ASSUME LoopInv, CheckGlobal
  PROVE  LoopInv'
  BY DEF CheckGlobal, LoopInv, CheckedOnlyWhenQuiet, At, GoTo

LEMMA NextLoopInv == IInv /\ LoopInv /\ [LoopNext]_allVars => LoopInv'
<1> SUFFICES ASSUME IInv, LoopInv, [LoopNext]_allVars
             PROVE  LoopInv'
  OBVIOUS
<1>1. CASE UNCHANGED allVars
  BY <1>1 DEF allVars, loopVars, vars, skrVars, LoopInv, CheckedOnlyWhenQuiet,
              NothingHere, NothingTransferred, Outstanding, At
<1>2. CASE LoopNext
  BY <1>2, WorkStep, SendDataStep, ProgramStep, RunStep, AddDueStep, TransferStep,
     LookStep, LocalStep, CheckStep
  DEF LoopNext, Loop
<1> QED
  BY <1>1, <1>2

(* The process asks qd::Global only when it has no task, no message queued *)
(* and none in transfer.                                                   *)
THEOREM GlobalIsAskedOnlyWhenQuiet == LoopSpec => []CheckedOnlyWhenQuiet
<1>1. LoopSpec => []IInv
  BY LoopImplementsPool, InductiveInvariant, PTL
<1>2. LoopInv => CheckedOnlyWhenQuiet
  BY DEF LoopInv
<1> QED
  BY <1>1, <1>2, InitLoopInv, NextLoopInv, PTL DEF LoopSpec

(* The loop variables keep their types; those of the pool do so anyway.    *)
LEMMA NextLoopType == LoopTypeOK /\ TypeOK' /\ [LoopNext]_allVars => LoopTypeOK'
<1> SUFFICES ASSUME LoopTypeOK, TypeOK', [LoopNext]_allVars
             PROVE  LoopTypeOK'
  OBVIOUS
<1> USE DEF LoopTypeOK, GoTo
<1>1. CASE UNCHANGED allVars
  BY <1>1 DEF allVars, loopVars
<1>2. CASE Work \/ Program
  BY <1>2 DEF Work, Program, loopVars
<1>3. ASSUME NEW m \in Mail, SendData(m)
      PROVE  LoopTypeOK'
  BY <1>3 DEF SendData
<1>4. CASE Run \/ EndSends \/ LookAtQueues \/ CheckGlobal
  BY <1>4, LoopAssumption DEF Run, EndSends, LookAtQueues, CheckGlobal
<1>5. CASE AddDue
  BY <1>5 DEF AddDue
<1>6. ASSUME NEW M \in SUBSET Mail, Handle(M)
      PROVE  /\ mail' \in [Mail -> {"unmade", "queued", "bulk", "sending", "sent",
                                     "coming", "receiving", "handled"}]
             /\ due' \subseteq Task
  BY <1>6, MailAssumption DEF Handle
<1>7. CASE InitiateReceives
  BY <1>7 DEF InitiateReceives, At
<1>8. CASE Retrieve
  <2>1. PICK M \in SUBSET At("queued") :
          /\ Cardinality(M) \in 1 .. BulkSize
          /\ mail' = [m \in Mail |-> IF m \in M THEN "bulk" ELSE mail[m]]
          /\ i' = i + Cardinality(M) + 1
    BY <1>8 DEF Retrieve
  <2>2. i' \in 0 .. MaxToSend + BulkSize
    BY <1>8, <2>1, LoopAssumption DEF Retrieve
  <2> QED
    BY <1>8, <2>1, <2>2 DEF Retrieve
<1>9. ASSUME NEW m \in Mail, Dispatch(m)
      PROVE  LoopTypeOK'
  BY <1>9, <1>6 DEF Dispatch
<1>10. CASE CleanIncoming
  <2>1. PICK M \in SUBSET At("receiving") : Handle(M)
    BY <1>10 DEF CleanIncoming
  <2>2. M \in SUBSET Mail
    BY DEF At
  <2> QED
    BY <1>10, <2>1, <2>2, <1>6 DEF CleanIncoming
<1>11. CASE CleanOutgoing
  BY <1>11 DEF CleanOutgoing, At
<1>12. CASE IsLocallyQuiescent
  BY <1>12, LoopAssumption DEF IsLocallyQuiescent, Answered
<1> QED
  BY <1>1, <1>2, <1>3, <1>4, <1>5, <1>7, <1>8, <1>9, <1>10, <1>11, <1>12
  DEF LoopNext, Loop

(* Every variable of the loop keeps its type; that the counters of the     *)
(* loop stay in their ranges is part of it, though initiate_sends counts   *)
(* beyond its bound.                                                       *)
THEOREM LoopTypeCorrect == LoopSpec => []LoopTypeOK
<1>1. LoopSpec => []TypeOK
  BY LoopImplementsPool, TypeCorrect, PTL
<1>2. LoopInit /\ TypeOK => LoopTypeOK
  BY LoopAssumption DEF LoopInit, LoopTypeOK
<1> QED
  BY <1>1, <1>2, NextLoopType, PTL DEF LoopSpec
=============================================================================
