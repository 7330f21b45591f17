------------------------------- MODULE ThreadPool -------------------------------
(***************************************************************************)
(* One process: the worker threads of ThreadPool, the task queue they      *)
(* share, and the SKR counters of qd::Local that the driver thread reads   *)
(* to decide that the process is quiescent.                                *)
(*                                                                         *)
(* A task is one Message_t on its way through the queue.  task[m] says     *)
(* where it is: not made yet ("fresh"), counted in number_of_messages_sent_*)
(* but not in the queue yet ("counted"), in task_queue_ ("queued"), held   *)
(* by the worker that dequeued it ("held"), processed ("done"), or dropped *)
(* by a try_enqueue whose result nobody reads ("lost").  The queue itself  *)
(* is a set: moodycamel's queue keeps no order between producers.          *)
(*                                                                         *)
(* Each load, store and read-modify-write of an atomic is a step of its    *)
(* own, and the steps of different threads interleave.                     *)
(***************************************************************************)
EXTENDS Integers, FiniteSets

CONSTANTS
  Worker,          \* the threads of the pool
  Task,            \* the messages that may ever be turned into tasks
  NoTask,          \* "this thread holds no task"
  MissesForIdle,   \* miss_count_for_idle
  Preallocated     \* tasks for which the queue has preallocated blocks

ASSUME WorkerAssumption == IsFiniteSet(Worker)
ASSUME TaskAssumption == NoTask \notin Task
ASSUME MissesAssumption == MissesForIdle \in Nat \ {0}
ASSUME PreallocatedAssumption == Preallocated \in Nat

VARIABLES
  task,            \* where each task is
  pc,              \* the place of each worker in thread_loop
  holding,         \* the task a worker is executing
  making,          \* the task a worker has counted and not enqueued yet
  miss_count,      \* failed dequeues of each worker; -1 is idle mode
  idle, sent, processed,     \* the three atomics of qd::Local
  phase, previous_count,     \* the SKR state of qd::Local
  stop_threads,
  driver,          \* the place of the driver thread
  batch,           \* tasks the driver has counted and not enqueued yet
  loaded,          \* the value of sent that is_quiescent has loaded
  quiescent        \* is_quiescent returned true and nothing was added since

workerVars == <<pc, holding, making, miss_count>>
skrVars == <<phase, previous_count, loaded>>
driverVars == <<stop_threads, driver, batch, quiescent>>
vars == <<task, workerVars, idle, sent, processed, skrVars, driverVars>>

TypeOK ==
  /\ task \in [Task -> {"fresh", "counted", "queued", "held", "done", "lost"}]
  /\ pc \in [Worker -> {"poll", "dequeue", "wake", "execute", "enqueue",
                        "exited"}]
  /\ holding \in [Worker -> Task \cup {NoTask}]
  /\ making \in [Worker -> Task \cup {NoTask}]
  /\ miss_count \in [Worker -> -1 .. MissesForIdle - 1]
  /\ idle \in Int /\ sent \in Int /\ processed \in Int
  /\ phase \in {1, 2} /\ previous_count \in Int /\ loaded \in Int
  /\ stop_threads \in BOOLEAN /\ quiescent \in BOOLEAN
  /\ batch \in SUBSET Task
  /\ driver \in {"stopped", "loop", "adding", "loadSent", "loadProcessed",
                 "joining"}

InState(s) == {m \in Task : task[m] = s}
Queued == InState("queued")
Idle == {w \in Worker : miss_count[w] = -1}

(* Every task that was counted as sent and has not been processed.         *)
Outstanding == {m \in Task : task[m] \notin {"fresh", "done"}}

Init ==
  /\ task = [m \in Task |-> "fresh"]
  /\ pc = [w \in Worker |-> "exited"]
  /\ holding = [w \in Worker |-> NoTask]
  /\ making = [w \in Worker |-> NoTask]
  /\ miss_count = [w \in Worker |-> 0]
  /\ idle = 0 /\ sent = 0 /\ processed = 0
  /\ phase = 1 /\ previous_count = 0 /\ loaded = 0
  /\ stop_threads = FALSE
  /\ driver = "stopped"
  /\ batch = {}
  /\ quiescent = FALSE

-----------------------------------------------------------------------------
(* thread_loop *)

(* Mutant of Poll: the stop flag is never looked at.                       *)
PollForever(w) ==
  /\ pc[w] = "poll"
  /\ pc' = [pc EXCEPT ![w] = "dequeue"]
  /\ UNCHANGED <<task, holding, making, miss_count, idle, sent, processed,
                 skrVars, driverVars>>

(* The relaxed load of the stop flag at the head of the loop.              *)
Poll(w) ==
  /\ pc[w] = "poll"
  /\ pc' = [pc EXCEPT ![w] = IF stop_threads THEN "exited" ELSE "dequeue"]
  /\ UNCHANGED <<task, holding, making, miss_count, idle, sent, processed,
                 skrVars, driverVars>>

(* try_dequeue returned a task.  A worker in idle mode has yet to take     *)
(* itself off the idle count.                                              *)
Dequeue(w, m) ==
  /\ pc[w] = "dequeue"
  /\ task[m] = "queued"
  /\ task' = [task EXCEPT ![m] = "held"]
  /\ holding' = [holding EXCEPT ![w] = m]
  /\ pc' = [pc EXCEPT ![w] = IF miss_count[w] = -1 THEN "wake" ELSE "execute"]
  /\ UNCHANGED <<making, miss_count, idle, sent, processed, skrVars,
                 driverVars>>

(* Mutant of Miss: the limit is compared before the count is incremented.  *)
MissOnceTooOften(w) ==
  /\ pc[w] = "dequeue"
  /\ pc' = [pc EXCEPT ![w] = "poll"]
  /\ \/ miss_count[w] = -1 /\ UNCHANGED <<miss_count, idle>>
     \/ /\ miss_count[w] \in 0 .. MissesForIdle - 1
        /\ miss_count' = [miss_count EXCEPT ![w] = @ + 1]
        /\ UNCHANGED idle
     \/ /\ miss_count[w] = MissesForIdle
        /\ miss_count' = [miss_count EXCEPT ![w] = -1]
        /\ idle' = idle + 1
  /\ UNCHANGED <<task, holding, making, sent, processed, skrVars,
                 driverVars>>

(* try_dequeue returned nothing.  It looks at the producers one after      *)
(* another, so it may miss a task enqueued meanwhile: the queue need not   *)
(* be empty.  At the limit the worker goes into idle mode.                 *)
Miss(w) ==
  /\ pc[w] = "dequeue"
  /\ pc' = [pc EXCEPT ![w] = "poll"]
  /\ \/ /\ miss_count[w] = -1
        /\ UNCHANGED <<miss_count, idle>>
     \/ /\ miss_count[w] \in 0 .. MissesForIdle - 2
        /\ miss_count' = [miss_count EXCEPT ![w] = @ + 1]
        /\ UNCHANGED idle
     \/ /\ miss_count[w] = MissesForIdle - 1
        /\ miss_count' = [miss_count EXCEPT ![w] = -1]
        /\ idle' = idle + 1
  /\ UNCHANGED <<task, holding, making, sent, processed, skrVars,
                 driverVars>>

(* decrement_idle_thread_count, after the dequeue and not with it.         *)
Wake(w) ==
  /\ pc[w] = "wake"
  /\ idle' = idle - 1
  /\ miss_count' = [miss_count EXCEPT ![w] = 0]
  /\ pc' = [pc EXCEPT ![w] = "execute"]
  /\ UNCHANGED <<task, holding, making, sent, processed, skrVars,
                 driverVars>>

(* The task being executed calls add_task: the counter first ...           *)
CountSpawned(w, m) ==
  /\ pc[w] = "execute"
  /\ task[m] = "fresh"
  /\ sent' = sent + 1
  /\ task' = [task EXCEPT ![m] = "counted"]
  /\ making' = [making EXCEPT ![w] = m]
  /\ pc' = [pc EXCEPT ![w] = "enqueue"]
  /\ UNCHANGED <<holding, miss_count, idle, processed, skrVars, driverVars>>

(* ... then the queue.                                                     *)
EnqueueSpawned(w) ==
  /\ pc[w] = "enqueue"
  /\ task' = [task EXCEPT ![making[w]] = "queued"]
  /\ making' = [making EXCEPT ![w] = NoTask]
  /\ pc' = [pc EXCEPT ![w] = "execute"]
  /\ UNCHANGED <<holding, miss_count, idle, sent, processed, skrVars,
                 driverVars>>

(* execute returned Invoked.                                               *)
Invoked(w) ==
  /\ pc[w] = "execute"
  /\ processed' = processed + 1
  /\ task' = [task EXCEPT ![holding[w]] = "done"]
  /\ holding' = [holding EXCEPT ![w] = NoTask]
  /\ pc' = [pc EXCEPT ![w] = "poll"]
  /\ UNCHANGED <<making, miss_count, idle, sent, skrVars, driverVars>>

(* Mutant of Requeue: a requeued message is counted as sent once more.     *)
RequeueCounted(w) ==
  /\ pc[w] = "execute"
  /\ task' = [task EXCEPT ![holding[w]] = "queued"]
  /\ sent' = sent + 1
  /\ holding' = [holding EXCEPT ![w] = NoTask]
  /\ pc' = [pc EXCEPT ![w] = "poll"]
  /\ UNCHANGED <<making, miss_count, idle, processed, skrVars, driverVars>>

(* execute returned Requeue.  try_enqueue never allocates: once the        *)
(* preallocated blocks are in use it may fail, and the message is gone.    *)
Requeue(w) ==
  /\ pc[w] = "execute"
  /\ \/ task' = [task EXCEPT ![holding[w]] = "queued"]
     \/ /\ Cardinality(Queued) >= Preallocated
        /\ task' = [task EXCEPT ![holding[w]] = "lost"]
  /\ holding' = [holding EXCEPT ![w] = NoTask]
  /\ pc' = [pc EXCEPT ![w] = "poll"]
  /\ UNCHANGED <<making, miss_count, idle, sent, processed, skrVars,
                 driverVars>>

-----------------------------------------------------------------------------
(* The driver thread: add_tasks, is_quiescent, stop, launch_threads        *)

(* add_tasks counts every message of the batch before it enqueues any.     *)
CountAdded(m) ==
  /\ driver \in {"loop", "adding"}
  /\ task[m] = "fresh"
  /\ sent' = sent + 1
  /\ task' = [task EXCEPT ![m] = "counted"]
  /\ batch' = batch \cup {m}
  /\ driver' = "adding"
  /\ quiescent' = FALSE
  /\ UNCHANGED <<workerVars, idle, processed, skrVars, stop_threads>>

EnqueueAdded ==
  /\ driver = "adding"
  /\ task' = [m \in Task |-> IF m \in batch THEN "queued" ELSE task[m]]
  /\ batch' = {}
  /\ driver' = "loop"
  /\ UNCHANGED <<workerVars, idle, sent, processed, skrVars, stop_threads,
                 quiescent>>

(* is_quiescent, first load: all the threads must be idle.  A failure in   *)
(* phase 2 starts again from phase 1.                                      *)
LoadIdle ==
  /\ driver = "loop"
  /\ \/ /\ idle = Cardinality(Worker)
        /\ driver' = "loadSent"
        /\ UNCHANGED <<phase, quiescent>>
     \/ /\ idle # Cardinality(Worker)
        /\ phase' = 1
        /\ quiescent' = FALSE
        /\ UNCHANGED driver
  /\ UNCHANGED <<task, workerVars, idle, sent, processed, previous_count,
                 loaded, stop_threads, batch>>

(* Second load.                                                            *)
LoadSent ==
  /\ driver = "loadSent"
  /\ loaded' = sent
  /\ driver' = "loadProcessed"
  /\ UNCHANGED <<task, workerVars, idle, sent, processed, phase,
                 previous_count, stop_threads, batch, quiescent>>

(* Mutants of LoadProcessed: one phase is enough; a phase 2 that finds new *)
(* work never goes back to phase 1.                                        *)
LoadProcessedOnce ==
  /\ driver = "loadProcessed"
  /\ driver' = "loop"
  /\ quiescent' = (loaded = processed)
  /\ UNCHANGED <<task, workerVars, idle, sent, processed, skrVars,
                 stop_threads, batch>>

LoadProcessedStuck ==
  /\ driver = "loadProcessed"
  /\ driver' = "loop"
  /\ quiescent' = (phase = 2 /\ loaded = processed /\ loaded = previous_count)
  /\ \/ /\ phase = 1 /\ loaded = processed
        /\ previous_count' = loaded
        /\ phase' = 2
     \/ /\ phase = 2 \/ loaded # processed
        /\ UNCHANGED <<phase, previous_count>>
  /\ UNCHANGED <<task, workerVars, idle, sent, processed, loaded,
                 stop_threads, batch>>

(* Third load, the comparison and the result.                              *)
LoadProcessed ==
  /\ driver = "loadProcessed"
  /\ driver' = "loop"
  /\ quiescent' = (phase = 2 /\ loaded = processed /\ loaded = previous_count)
  /\ \/ /\ phase = 1 /\ loaded = processed
        /\ previous_count' = loaded
        /\ phase' = 2
     \/ /\ phase = 1 /\ loaded # processed
        /\ UNCHANGED <<phase, previous_count>>
     \/ /\ phase = 2
        /\ phase' = IF quiescent' THEN 2 ELSE 1
        /\ UNCHANGED previous_count
  /\ UNCHANGED <<task, workerVars, idle, sent, processed, loaded,
                 stop_threads, batch>>

(* stop(): set the flag, then join.  The documented precondition of        *)
(* force_threads_to_stop is that quiescence has been detected.             *)
Stop ==
  /\ driver = "loop"
  /\ quiescent
  /\ stop_threads' = TRUE
  /\ driver' = "joining"
  /\ UNCHANGED <<task, workerVars, idle, sent, processed, skrVars, batch,
                 quiescent>>

Join ==
  /\ driver = "joining"
  /\ \A w \in Worker : pc[w] = "exited"
  /\ driver' = "stopped"
  /\ UNCHANGED <<task, workerVars, idle, sent, processed, skrVars,
                 stop_threads, batch, quiescent>>

(* Mutant of Launch: the counters are not reset.                           *)
LaunchWithoutReset ==
  /\ driver = "stopped"
  /\ stop_threads' = FALSE
  /\ pc' = [w \in Worker |-> "poll"]
  /\ miss_count' = [w \in Worker |-> 0]
  /\ driver' = "loop"
  /\ quiescent' = FALSE
  /\ UNCHANGED <<task, holding, making, idle, sent, processed, skrVars, batch>>

(* launch_threads: Local::reset, clear the flag, start the threads, each   *)
(* with a miss_count of its own.                                           *)
Launch ==
  /\ driver = "stopped"
  /\ phase' = 1 /\ previous_count' = 0
  /\ idle' = 0 /\ sent' = 0 /\ processed' = 0
  /\ stop_threads' = FALSE
  /\ pc' = [w \in Worker |-> "poll"]
  /\ miss_count' = [w \in Worker |-> 0]
  /\ driver' = "loop"
  /\ quiescent' = FALSE
  /\ UNCHANGED <<task, holding, making, loaded, batch>>

-----------------------------------------------------------------------------
WorkerStep(w) ==
  \/ Poll(w)
  \/ \E m \in Task : Dequeue(w, m)
  \/ Miss(w)
  \/ Wake(w)
  \/ \E m \in Task : CountSpawned(w, m)
  \/ EnqueueSpawned(w)
  \/ Invoked(w)
  \/ Requeue(w)

Check == LoadIdle \/ LoadSent \/ LoadProcessed

Next ==
  \/ \E w \in Worker : WorkerStep(w)
  \/ \E m \in Task : CountAdded(m)
  \/ EnqueueAdded
  \/ Check
  \/ Stop
  \/ Join
  \/ Launch

Spec == Init /\ [][Next]_vars

(* The operating system runs every thread.  A worker that keeps looking    *)
(* finds a queued task sooner or later, and a task does not ask to be      *)
(* requeued for ever.                                                      *)
Fairness ==
  /\ \A w \in Worker :
       /\ WF_vars(WorkerStep(w))
       /\ SF_vars(\E m \in Task : Dequeue(w, m))
       /\ SF_vars(Invoked(w))
  /\ WF_vars(EnqueueAdded)
  /\ WF_vars(Check)
  /\ WF_vars(Join)

FairSpec == Spec /\ Fairness

-----------------------------------------------------------------------------
(* Properties *)

(* ThreadPool.hpp: is_quiescent is true only when "all threads are idle    *)
(* and quiescence can be guaranteed".  Whatever the workers were doing     *)
(* between the separate loads of the three counters, once the driver has   *)
(* got true there is no task anywhere: none queued, none in a worker's     *)
(* hands, none between its counter and the queue.                          *)
QuiescenceIsReal == quiescent => Outstanding = {}

(* The difference of the two counters is the number of tasks on their way, *)
(* so that a task lost or counted twice shows as a process that is never   *)
(* quiescent or is so too early.                                           *)
CountersBalance == sent - processed = Cardinality(Outstanding)

(* number_of_idle_threads_ is the number of workers in idle mode, across   *)
(* every wake-up and every stop and relaunch of the pool; a drift would    *)
(* make it never equal the number of threads again.                        *)
IdleCountIsExact == idle = Cardinality(Idle)

(* The inductive invariant behind the three properties above.              *)

(* A worker holds a task exactly while it executes one, no two workers     *)
(* hold the same, and each task that is counted and not enqueued belongs   *)
(* to one worker or to the driver's batch.                                 *)
HandsAgree ==
  \A w \in Worker :
    /\ (pc[w] \in {"wake", "execute", "enqueue"}) <=> (holding[w] # NoTask)
    /\ holding[w] # NoTask => task[holding[w]] = "held"
    /\ (pc[w] = "enqueue") <=> (making[w] # NoTask)
    /\ making[w] # NoTask => task[making[w]] = "counted" /\ making[w] \notin batch
    /\ pc[w] = "wake" => miss_count[w] = -1

NothingShared ==
  \A v, w \in Worker :
    v # w => /\ holding[v] # NoTask => holding[v] # holding[w]
             /\ making[v] # NoTask => making[v] # making[w]

BatchIsCounted == \A m \in batch : task[m] = "counted"

(* What the two phases know.  Equal counters loaded one after the other do *)
(* not say that they were ever equal at one time; but sent only grows, so  *)
(* if it still has the value at which they were equal, nothing was on its  *)
(* way then or since.                                                      *)
PhasesKnow ==
  /\ driver = "loadProcessed" => loaded <= sent
  /\ phase = 2 => /\ previous_count <= sent
                  /\ previous_count = sent => Outstanding = {}
                  /\ driver = "loadProcessed" /\ loaded = previous_count
                       => Outstanding = {}

StoppedIsQuiet == driver \in {"joining", "stopped"} => Outstanding = {}

IInv ==
  /\ TypeOK
  /\ HandsAgree
  /\ NothingShared
  /\ BatchIsCounted
  /\ IsFiniteSet(Outstanding)
  /\ CountersBalance
  /\ IdleCountIsExact
  /\ PhasesKnow
  /\ StoppedIsQuiet
  /\ QuiescenceIsReal

(* thread_loop: "On failure we need to requeue the message."  A task that  *)
(* was accepted is queued or in somebody's hands until it is processed.    *)
NoTaskIsLost == InState("lost") = {}

(* The driver keeps asking, so it learns of the quiescence of the finitely *)
(* many tasks, unless one has been lost; and a pool that is told to stop   *)
(* does.                                                                   *)
QuiescenceIsDetected == (driver = "loop") ~> (quiescent \/ ~NoTaskIsLost)
StopCompletes == (driver = "joining") ~> (driver = "stopped")
=============================================================================
