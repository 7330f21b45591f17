------------------------------- MODULE DriverLoop -------------------------------
(***************************************************************************)
(* One process between the network and its thread pool: the loop of        *)
(* run_to_quiescence, with the workers of ThreadPool running beside it.    *)
(* The driver thread starts receives and sends, cleans both, looks at its  *)
(* queues, asks qd::Local, and only then qd::Global.  Each of these looks  *)
(* at another place, at another time, while tasks go on making messages.   *)
(*                                                                         *)
(* mail[m] says where a message to or from another process is: not made    *)
(* yet ("unmade"), in outgoing_messages_ ("queued"), taken out of it in    *)
(* bulk ("bulk"), in outgoing_mpi_messages_ ("sending"), gone ("sent"), on *)
(* its way here ("coming"), in incoming_mpi_messages_ ("receiving"), or    *)
(* turned into what it becomes ("handled").                                *)
(***************************************************************************)
EXTENDS ThreadPool

CONSTANTS
  Mail,
  Inbound,        \* the mail that comes from other processes
  Own,            \* the mail the program makes, in tasks or in main
  Direct,         \* the own mail that is sent as it is
  Becomes,        \* the tasks, sends and queued mail any other becomes
  MaxToSend,      \* max_to_send
  BulkSize,       \* the size of bulk_outgoing_messages
  LocalCounts     \* local_qd_counts_for_global_qd_

ASSUME MailAssumption ==
  /\ Inbound \subseteq Mail /\ Own \subseteq Mail \ Inbound /\ Direct \subseteq Mail
  /\ Becomes \in [Mail -> [tasks : SUBSET Task, sends : SUBSET Mail,
                           queued : SUBSET Mail]]
ASSUME LoopAssumption ==
  {MaxToSend, BulkSize, LocalCounts} \subseteq Nat \ {0}

VARIABLES
  mail,
  place,              \* where the driver thread is in run_to_quiescence
  i,                  \* the loop variable of initiate_sends
  due,                \* tasks that handled mail becomes, not added yet
  local_qd_counter

loopVars == <<mail, place, i, due, local_qd_counter>>
allVars == <<vars, loopVars>>

(* The tasks a program adds of its own accord.                             *)
Free == Task \ UNION {Becomes[m].tasks : m \in Mail}

(* The mail that may be in outgoing_messages_.                             *)
Queueable == Own \cup UNION {Becomes[m].queued : m \in Mail}

LoopTypeOK ==
  /\ TypeOK
  /\ mail \in [Mail -> {"unmade", "queued", "bulk", "sending", "sent",
                        "coming", "receiving", "handled"}]
  /\ place \in {"outside", "receives", "sends", "cleanIn", "cleanOut",
                "queues", "local", "global"}
  /\ i \in 0 .. MaxToSend + BulkSize
  /\ due \subseteq Task
  /\ local_qd_counter \in 0 .. LocalCounts - 1

LoopInit ==
  /\ Init
  /\ mail = [m \in Mail |-> IF m \in Inbound THEN "coming" ELSE "unmade"]
  /\ place = "outside"
  /\ i = 0
  /\ due = {}
  /\ local_qd_counter = 0

At(s) == {m \in Mail : mail[m] = s}
GoTo(next) == place' = next
Ready == driver = "loop" /\ due = {}    \* the driver thread is not in the pool

-----------------------------------------------------------------------------
(* Outside run_to_quiescence, and the workers                              *)

(* Actions of the pool that leave the loop where it is.                    *)
Work ==
  /\ \E w \in Worker :
       \/ Poll(w) \/ Miss(w) \/ Wake(w) \/ EnqueueSpawned(w)
       \/ Invoked(w) \/ Requeue(w)
       \/ \E m \in Task : Dequeue(w, m)
       \/ \E m \in Free : CountSpawned(w, m)
  /\ UNCHANGED loopVars

(* The program outside the loop: adds tasks, stops and launches threads.   *)
Program ==
  /\ place = "outside"
  /\ Launch \/ Stop \/ Join \/ \E m \in Free : CountAdded(m)
  /\ UNCHANGED loopVars

(* send_data for another process, by a task or by main.                    *)
SendData(m) ==
  /\ m \in Own /\ mail[m] = "unmade"
  /\ \/ \E w \in Worker : pc[w] = "execute"
     \/ place = "outside" /\ driver = "loop"
  /\ mail' = [mail EXCEPT ![m] = "queued"]
  /\ UNCHANGED <<vars, place, i, due, local_qd_counter>>

(* run_to_quiescence is called: the threads must be active.                *)
Run ==
  /\ place = "outside"
  /\ Ready
  /\ GoTo("receives")
  /\ local_qd_counter' = 0
  /\ UNCHANGED <<vars, mail, i, due>>

-----------------------------------------------------------------------------
(* The stations of the loop                                                *)

(* What becomes of one message, received or taken out of the queue.        *)
Handle(M) ==
  /\ mail' = [m \in Mail |->
       IF m \in M THEN "handled"
       ELSE IF \E n \in M : m \in Becomes[n].sends THEN "sending"
       ELSE IF \E n \in M : m \in Becomes[n].queued THEN "queued"
       ELSE mail[m]]
  /\ due' = UNION {Becomes[m].tasks : m \in M}

(* add_tasks and add_task for what a message became, in one batch or more. *)
AddDue ==
  /\ \/ \E m \in Task : m \in due /\ CountAdded(m) /\ due' = due \ {m}
     \/ EnqueueAdded /\ UNCHANGED due
  /\ UNCHANGED <<mail, place, i, local_qd_counter>>

InitiateReceives ==
  /\ place = "receives"
  /\ \E M \in SUBSET At("coming") :
       mail' = [m \in Mail |-> IF m \in M THEN "receiving" ELSE mail[m]]
  /\ GoTo("sends")
  /\ UNCHANGED <<vars, i, due, local_qd_counter>>

(* Mutant of Retrieve: the last turn of the loop is left out.              *)
RetrieveOneTurnLess ==
  /\ place = "sends" /\ Ready
  /\ At("bulk") = {}
  /\ i < MaxToSend - 1
  /\ \E M \in SUBSET At("queued") :
       /\ Cardinality(M) \in 1 .. BulkSize
       /\ Cardinality(M) <= MaxToSend
       /\ mail' = [m \in Mail |-> IF m \in M THEN "bulk" ELSE mail[m]]
       /\ i' = i + Cardinality(M) + 1
  /\ UNCHANGED <<vars, place, due, local_qd_counter>>

(* try_dequeue_bulk may overlook what is being enqueued.                   *)
Retrieve ==
  /\ place = "sends" /\ Ready
  /\ At("bulk") = {}
  /\ i < MaxToSend
  /\ \E M \in SUBSET At("queued") :
       /\ Cardinality(M) \in 1 .. BulkSize
       /\ Cardinality(M) <= MaxToSend
       /\ mail' = [m \in Mail |-> IF m \in M THEN "bulk" ELSE mail[m]]
       /\ i' = i + Cardinality(M) + 1
  /\ UNCHANGED <<vars, place, due, local_qd_counter>>

(* One of the messages retrieved is sent, or broadcast, or combined.       *)
Dispatch(m) ==
  /\ place = "sends" /\ Ready
  /\ mail[m] = "bulk"
  /\ \/ m \in Direct /\ mail' = [mail EXCEPT ![m] = "sending"] /\ UNCHANGED due
     \/ m \notin Direct /\ Handle({m})
  /\ UNCHANGED <<vars, place, i, local_qd_counter>>

(* The queue seems empty, or enough has been sent.                         *)
EndSends ==
  /\ place = "sends" /\ Ready
  /\ At("bulk") = {}
  /\ i' = 0
  /\ GoTo("cleanIn")
  /\ UNCHANGED <<vars, mail, due, local_qd_counter>>

(* clean_incoming_mpi_messages: those that are complete.                   *)
CleanIncoming ==
  /\ place = "cleanIn"
  /\ \E M \in SUBSET At("receiving") : Handle(M)
  /\ GoTo("cleanOut")
  /\ UNCHANGED <<vars, i, local_qd_counter>>

(* clean_outgoing_mpi_messages, once the tasks have been added.            *)
CleanOutgoing ==
  /\ place = "cleanOut" /\ Ready
  /\ \E M \in SUBSET At("sending") :
       mail' = [m \in Mail |-> IF m \in M THEN "sent" ELSE mail[m]]
  /\ GoTo("queues")
  /\ UNCHANGED <<vars, i, due, local_qd_counter>>

(* Mutant of LookAtQueues: the queue of outgoing messages is not looked at.*)
LookAtTransfersOnly ==
  /\ place = "queues"
  /\ GoTo(IF At("receiving") \cup At("sending") = {} THEN "local" ELSE "receives")
  /\ UNCHANGED <<vars, mail, i, due, local_qd_counter>>

(* "We cannot be quiescent while we have queued messages."                 *)
LookAtQueues ==
  /\ place = "queues"
  /\ GoTo(IF At("receiving") \cup At("sending") \cup At("queued") = {}
          THEN "local" ELSE "receives")
  /\ UNCHANGED <<vars, mail, i, due, local_qd_counter>>

(* Mutants of Answered: the counter is not reset; it is never incremented. *)
AnsweredOnceAndForAll(yes) ==
  /\ local_qd_counter' = IF yes THEN local_qd_counter + 1 ELSE local_qd_counter
  /\ GoTo(IF local_qd_counter' >= LocalCounts THEN "global" ELSE "receives")

AnsweredUncounted(yes) ==
  /\ UNCHANGED local_qd_counter
  /\ GoTo(IF yes /\ local_qd_counter + 1 >= LocalCounts THEN "global"
          ELSE "receives")

(* What is_locally_quiescent has returned.                                 *)
Answered(yes) ==
  \/ /\ ~yes
     /\ GoTo("receives") /\ UNCHANGED local_qd_counter
  \/ /\ yes /\ local_qd_counter + 1 < LocalCounts
     /\ GoTo("receives") /\ local_qd_counter' = local_qd_counter + 1
  \/ /\ yes /\ local_qd_counter + 1 >= LocalCounts
     /\ GoTo("global") /\ local_qd_counter' = 0

IsLocallyQuiescent ==
  /\ place = "local"
  /\ \/ LoadIdle /\ idle = Cardinality(Worker) /\ UNCHANGED <<place, local_qd_counter>>
     \/ LoadIdle /\ idle # Cardinality(Worker) /\ Answered(FALSE)
     \/ LoadSent /\ UNCHANGED <<place, local_qd_counter>>
     \/ LoadProcessed /\ Answered(quiescent')
  /\ UNCHANGED <<mail, i, due>>

(* global_qd_.check(): true only when nothing is on its way to anybody.    *)
CheckGlobal ==
  /\ place = "global"
  /\ \/ GoTo("receives")
     \/ At("coming") = {} /\ GoTo("outside")
  /\ UNCHANGED <<vars, mail, i, due, local_qd_counter>>

-----------------------------------------------------------------------------
Loop ==
  \/ AddDue
  \/ InitiateReceives
  \/ Retrieve
  \/ \E m \in Mail : Dispatch(m)
  \/ EndSends
  \/ CleanIncoming
  \/ CleanOutgoing
  \/ LookAtQueues
  \/ IsLocallyQuiescent
  \/ CheckGlobal

LoopNext ==
  \/ Work
  \/ Program
  \/ \E m \in Mail : SendData(m)
  \/ Run
  \/ Loop

LoopSpec == LoopInit /\ [][LoopNext]_allVars

(* The threads run, and a message that stays in the queue is found there.  *)
LoopFairness ==
  /\ WF_allVars(Loop)
  /\ \A w \in Worker : WF_allVars(WorkerStep(w) /\ Work)
  /\ \A m \in Queueable : SF_allVars(Retrieve /\ mail[m] = "queued" /\ mail'[m] = "bulk")

LoopFairSpec == LoopSpec /\ LoopFairness

-----------------------------------------------------------------------------
(* Properties *)

NothingHere ==
  Outstanding = {} /\ due = {}
    /\ At("queued") \cup At("bulk") \cup At("sending") \cup At("receiving") = {}

(* The driver asks qd::Global only when this process is quiet: no task,    *)
(* no message queued or in transfer.  The queue was looked at before the   *)
(* counters, and a task may have filled it and ended in between; that      *)
(* is_quiescent says yes only to the second of two equal counts is what    *)
(* makes up for it.  qd::Global takes this for granted.                    *)
CheckedOnlyWhenQuiet == place = "global" => NothingHere

(* A message that the program makes does not stay in the queue or in the   *)
(* hands of the driver, however the bulks fall, and whatever the workers   *)
(* do.                                                                     *)
MailLeaves ==
  \A m \in Queueable : (mail[m] = "queued" /\ place # "outside")
                         ~> (mail[m] \in {"sending", "sent", "handled"})

(* A process that is quiet gets to ask qd::Global, else the others would   *)
(* wait for its answer for ever.                                           *)
QuietProcessAsks ==
  (NothingHere /\ place # "outside") ~> (place = "global" \/ ~NothingHere)
=============================================================================
