# A verification project for Findus

Findus runs C++ objects on many processes. Each process has a **driver thread**, which does all
the MPI, and a pool of **worker threads**, which execute *tasks* (a message unpacked into a call of
an action of an object). Processes are nodes of a binary **virtual tree**; broadcasts, reductions
and the detection of quiescence run along it. `run_to_quiescence` returns when nothing is left to
do on any process.

This directory holds TLA+ modules translated from that code, TLC configurations that model-check
them on small instances, and proofs, checked by TLAPS, of the results that matter for every size.
Paths below are relative to the repository; `DTD` stands for `DistributedTaskDriver`, `QD` for
`QuiescenceDetection`.

## 1. Inventory

| Part | State | Operations | What is hard | What makes it correct |
|---|---|---|---|---|
| Process tree (`ParentAndChildren`) | none | `parent_and_children`, `find_first_parent`, `count_first_descendants`, `children_in_subtree` | what one process sends up, another has computed that it must wait for | parent and children are inverse; every process is below the root |
| Thread pool (`ThreadPool.hpp`) | task queue, stop flag, one miss count per worker | `thread_loop`, `add_task(s)`, `stop`, `launch_threads` | lock-free; a worker dequeues before it stops counting as idle; `stop` joins and `launch` resets | no task is lost; the counters say what is outstanding |
| Local quiescence (`qd::Local`) | three atomics, phase, previous count | `is_quiescent`, the increments, `reset` | three loads one after another while workers move between them | never true too early; true in the end |
| Global quiescence (`qd::Global`) | counts, sweep numbers, accumulated counts of the children | `check`, `safe_reset` | messages overtake sweeps; a broadcast is forwarded in between | terminates only when nothing is left, on all processes, and leaves no stale message for the next phase |
| Reduction counter (`Detail/ReductionCounter.hpp`) | open-addressing table of (key, counter) atomics | `increment` | claims, additions and subtractions of several threads mix; slots are freed in a probe chain | exactly one thread is told, when all has been contributed |
| Reduction data of a thread (`reduction::Handler`, `DataHandler`) | open-addressing table per thread | `insert_or_combine`, `pop` | `pop` by another thread | all partial results are found |
| Reduction across processes (`Reduction.cpp`) | open-addressing table per process | `set_interprocess_message_info`, `combine_inter_process` | a process hears from below before it knows how many to wait for | the callback is called once, with everything |
| Receiving (`initiate_receives`, `clean_incoming_mpi_messages`) | vector of requests, round-robin position | the same | messages complete out of order | each message is handed on once; no sender starves |
| Sending (`initiate_sends`, `clean_outgoing_mpi_messages`) and the loop of `run_to_quiescence` | concurrent queue, vector of requests | the same | the order in which the queues and the counters are looked at | the driver never asks for global quiescence with a message queued |
| Insert barrier (`insert_barrier`, `check_component_accounting_consistency`) | insert mode, wire | the same | each process sees only its children | nobody leaves insert mode unless all agree |
| Component registry (`insert_*`, `remove_*`, `collection_ids_*` of the driver, `distributed_object_index`) | a vector of components; per collection the process of each element, the elements of each process, the count of those here | insert, remove, look up | three copies of one fact; one step of several failing; numbers are given by first use | the copies agree; a component has the same number on all processes |
| Invoking (`invoke`, `broadcast`, `broadcast_to`, `findus_invoke_action_impl`) | outgoing queue, task queue | the same | a message is an object here and packed there, forwarded, split into tasks, requeued | everybody who is addressed is reached once, with the arguments of the call |
| Callbacks (`Callback.hpp`) | arguments, whether it has been invoked | make, `update_arguments`, `get_clone`, `invoke` | arguments are moved out; clones of what has been invoked | each makes its call at most once, with its arguments |
| Message buffers (`Message.cpp`, `MessageHeader.hpp`) | one block of memory | create, copy, receive, replace the data of | offsets that sender and receiver compute apart; allocation and deallocation with one alignment | nothing overlaps or is cut off; data are aligned |
| Serialization (`Serialize/`) | a buffer and a position | sizing, packing, unpacking | pointers, classes derived from a base class, containers that are not empty | what is packed comes back |
| 128-bit atomics (`Atomic128.hpp`) | one 128-bit word | `load`, `store`, `exchange`, `compare_exchange_*` | few of them are one instruction; the two halves may be torn | each takes effect at one moment; one of those that run ends |
| Options, hardware information, `Spinlock` | none | parsing, queries | nothing in common with the rest | |

How they interact. A worker takes a message out of the pool's queue and executes it. The action may
add tasks to the pool, put messages for other processes in the driver's concurrent queue, or
contribute to a reduction (`Handler`, then `Counter`; the thread that is told `true` collects the
data of all threads and gives one message to the driver). The driver thread goes round
`run_to_quiescence`: start receives, start sends, clean both, and when nothing is in transfer ask
`qd::Local` and, after several positive answers, `qd::Global::check`. Global quiescence counts the
regular messages that the driver sends and processes and knows nothing of tasks: that
`check` is called only in a locally quiescent process is what ties the two levels together, and
`DriverLoop` is about that. Before all this a process is in insert mode: it fills its registry, and
`insert_barrier` compares the registries along the tree and lets all processes out. `Atomic128` is not used by the rest of the library yet.

## 2. Modules

| Module | Models | Its state in the code |
|---|---|---|
| `ProcessTree` | `ParentAndChildren.{hpp,cpp}` | operators; `FirstParent` and `FirstDescendants` are the two walks a reduction makes |
| `ProcessTreeProofs` | theorems on it | |
| `ThreadPool` | `ThreadPool.hpp`, `qd::Local` | `pc`, `miss_count`, `holding`: the locals of `thread_loop`; `idle`, `sent`, `processed`, `phase`, `previous_count`: the members of `qd::Local`; `driver`, `loaded`: where the driver thread is in `add_tasks`, `is_quiescent`, `stop` |
| `GlobalQuiescence` | `qd::Global`, and the messages it counts | variables carry the members' names; `wire`, `down`, `up`, `term`: the MPI channels; `reported`, `hidden`, `premature`: history |
| `GlobalQuiescenceProofs` | theorems on it | |
| `DriverLoop` (extends `ThreadPool`) | `initiate_sends`, the cleaning of both directions, the loop of `run_to_quiescence` | `mail`: in which queue or vector a message is; `place`: where the driver is in the loop; `i`: the loop variable of `initiate_sends`; `local_qd_counter` |
| `DriverLoopProofs` | theorems on the pool and on the loop around it | |
| `ReductionCounter` | `reduction::detail::Counter` | `key`, `counter`: the atomics of a slot; `pc`, `op`, `index`: the locals of `increment` |
| `ReductionHandler` (extends `ReductionCounter`) | `Handler::insert_or_combine`, `DataHandler::insert_or_combine`, `pop` | `data`: the tables of `per_thread_data_handlers_`; `hpc`, `mine`, `at`, `pending`: the locals; `result`: the message handed on |
| `ReductionHandlerProofs` | theorems on the counter and on the tables | |
| `InterProcessReduction` | `set_interprocess_message_info`, `combine_inter_process` | `entries`: `inter_process_entries_` |
| `InterProcessReductionProofs` | theorems on it | |
| `IncomingMessages` | `initiate_receives`, `clean_incoming_mpi_messages` | `incoming`: the vector `incoming_mpi_messages_`; `node`: `node_id_for_receive_` |
| `ComponentRegistry` (extends `ProcessTree`) | `insert_*`, `remove_*`, `collection_ids_*`, `distributed_object_index`, and the description `serialize_component_accounting` makes | `distributed_objects`: that vector, with the two maps and the count of a `DistributedOjectClassHolder`; `object_index`: the static variables that number the components |
| `InsertBarrier` | `insert_barrier`, `check_component_accounting_consistency` | `pc`: where each process is; `wire`: descriptions under way |
| `InsertMode` (extends `ComponentRegistry`) | programs of insertions, then `insert_barrier` with the comparison | `todo`: the calls a process has left |
| `MessageBuffer` | how the messages of all types are laid out: operators that return a block with its measures | none |
| `Serialization` | `Serializer`, the overloads for the standard containers, `UniquePtr`, `SharedPtr`, the registry of derived classes | operators; a stream is a sequence of items |
| `Selection` | `std::remove_if` and `std::copy_if`, as an operator | none |
| `Delivery` (extends `ComponentRegistry`, `MessageBuffer`) | `invoke`, `broadcast`, `broadcast_to`, results of reductions, `initiate_sends`, what becomes of a received message, `findus_invoke_action_impl` | `outgoing`, `tasks`: the two queues; `channel`: MPI; `made`, `ran`: history |
| `Callback` (extends `Delivery`) | `Callback`, `CallbackBroadcastTo` | `callbacks`: `args_` and `invoked_` of each |
| `Program` (extends `InsertMode`, `Callback`) | a whole program; the receiving side of one process is that of `IncomingMessages` | `arrived`: the buffers of the entries of `incoming` |
| `PackedProgram` (extends `Program`, `Serialization`) | what is in the packed messages of a program | |
| `ProgramProofs` | theorems on `MessageBuffer`, `ComponentRegistry`, `InsertBarrier`, `InsertMode`, `Delivery`, `Callback`, `IncomingMessages` and `Program` | |
| `CallProofs` | theorems on what becomes of the calls of a `Program` | |
| `AtomicRegister` | what the interface of `Atomic128` promises: an atomic register | abstract |
| `Atomic128` | `Atomic128.hpp`, instruction by instruction, for seven builds | `mem`: `data_`; `seen`: the registers with the halves read; `link`: the exclusive monitor; `disturbed`: history |
| `Atomic128Proofs` | theorems on it | |
| `MC...` | constants for TLC | |

**Composition.** `DriverLoop` runs the actions of `ThreadPool` as the workers and as the calls the
driver makes, so a step of the loop is a step of the pool or leaves it alone (`LoopImplementsPool`).
`ReductionHandler` calls the actions of `ReductionCounter` as `increment`. `InterProcessReduction`,
`InsertBarrier` and `GlobalQuiescence` share the tree.
`InsertMode` has `InsertBarrier` as an instance whose accounting is `Account`, the description of the
registry, so that processes compare what they have really inserted (`InsertModeImplementsBarrier`).
`Program` puts the upper half of the library together: its processes insert, leave insert mode, call, directly
or through callbacks, and what they send goes through the queues, through the channels and, on the process
`Self`, through the vector of requests of `IncomingMessages`, an instance whose `wire` is what the channels to
`Self` hold. A message is a block of `MessageBuffer`; that what is packed in it is a stream of `Serialization` is added by
`PackedProgram`, a module of its own because `Serialization` is recursive and no proof can reach a recursive operator. `Atomic128` has its interface as an instance
of `AtomicRegister` whose value is the word.

**Grain of atomicity.** In `ThreadPool`, `ReductionCounter`, `ReductionHandler` and `Atomic128`, where
threads share words, each atomic load, store or read-modify-write is one action; a read of 128 bits
that the hardware does not make atomic is two. In `GlobalQuiescence` one call of `check` is
one action: the process does nothing else meanwhile, so the call may be placed at its last MPI
call as long as each probe may see any prefix of what has been sent (`Arrivals`). In
`InterProcessReduction` one message is one action, for only the driver thread works on that table.
`IncomingMessages` makes each turn of the loop of `initiate_receives` an action, so that messages
arrive in between. In `InsertBarrier` each blocking MPI call is an action, so that a deadlock
among them would show. In `Delivery` one message that is taken from a queue, or one task that runs, is an action:
the queues are concurrent and what a call reads of the registry no longer changes once insert mode is left.

**External parts.** The moodycamel queue keeps no order between producers, so the task queue is a
set; `try_dequeue` may miss a task that is being enqueued (`Miss` has no guard on the queue), and
`try_enqueue` may fail once the preallocated blocks are in use. MPI keeps the order of messages of
one tag between two processes and nothing else; a nonblocking send is bound to be complete only
once its message has been received.

Definitions whose comment says "Mutant of X" are X with a plausible mistake in it: for each
property of each passing run there is one that TLC finds to violate the property. They are never
part of a specification.

## 3. Runs

| Run | Instance | States | What it shows |
|---|---|---|---|
| `thread_pool` | 2 workers, 3 tasks, 1 preallocated block, 2 misses to idle | 129 785 | `QuiescenceIsReal`, `CountersBalance`, `IdleCountIsExact`, `QuiescenceIsDetected` (unless a task was lost), `StopCompletes`, with spawning, requeueing, lost tasks, stops and relaunches |
| `driver_loop` | 2 workers, 2 tasks, a broadcast that arrives, a contribution and its answer | 118 391 | `CheckedOnlyWhenQuiet`, `MailLeaves`, `QuietProcessAsks` |
| `global_safety` | 4 processes, 2 messages sent (broadcasts multiply them), 2 sweeps a phase | 560 554 | `CountsBalance`, `OneSweepAtATime`, `ResetFindsNothing`, `TerminationReachesAll`, `OnlyHiddenMessagesDeceive` |
| `global_liveness` | 4 processes, 1 message, 3 sweeps | 14 760 | `QuiescenceIsDetected` |
| `global_false_termination` | 2 processes, 3 messages | violation | `TerminationIsReal` fails |
| `reduction_counter` | 2 threads with a table of their own, 4 slots, a reduction of three contributions and two of one that share the last slot as home; any may be started again | 47 383 | `TrueMeansAllMade`, `OneThreadIsTold`, `HandedOnIsWhole`, `TablesAreEmptied`, `ReductionIsHandedOn` |
| `reduction_counter_collision` | 2 threads, 2 reductions of two contributions with the same home | violation | `OneThreadIsTold` fails |
| `inter_process` | 5 processes, every pair of sets of contributors, 2 reductions, 2 slots | 616 225 | `ResultIsWhole`, `ContributionsAreConserved`, `NobodyWaitsInVain` |
| `incoming_several` | 3 processes, 3 messages, one slow, 3 receives at a time | violation | `EachMessageOnce` fails |
| `program` | 4 processes, a regular component and a collection with up to 2 elements, 2 programs of insertions for each process, 7 calls of which 3 through callbacks, at most 2 of them made, 5 kinds of arguments, one of them slow to arrive | 125 940 | `IdsMatchLocations`, `OnlyAgreementLeavesInsertMode`; `ExactlyTheAddressed`, `ArgumentsArrive`, `BuffersHold`, `RoundTrips`, `CallsAreCarriedOut` |
| `insert_order` | 2 processes, each inserts the regular component first or last | violation | `SameNumbering` fails |
| `atomic128` | 2 threads, 2 values that share no half, every call on each of 7 builds | 264 738 | `SeenIsCurrent`, `ImplementsRegister`, `LockFree` |

**Why the bounds are enough.** Two workers are enough for everything a third could do to the
counters that one of the two could not, except to be in a third place at once; the proofs cover any
number. Three tasks let one be executed while it spawns another and a third is requeued. Four
processes is the smallest tree with a root, an inner process and leaves on two levels, where a
sweep, its answers and a forwarded broadcast can all be on different links; five is the smallest
with an inner process that has two children. Two sweeps suffice for a message of one sweep to be
met in the next, and the third of `global_liveness` is what detection needs when the quiet comes
during the second. In the counter two threads are enough for one to lose the claim and to subtract
before the other has added, as a third contribution may come from either; the safety properties of
`reduction_counter` also hold with three threads and a reduction of two (1 002 598 states), which is
too slow to repeat with liveness. Two threads make every conflict on one 128-bit word, where a third could
only disturb in the same way once more; two values that share no half let a torn one be told from
both. In `program` four processes are the smallest tree in which a
broadcast is forwarded by a process that is neither root nor leaf, and `Self = 1` is that process. Two calls are
enough for two messages to meet on every queue and channel, to be taken in in one turn or in two, and for a
callback and its clone. There are two programs of insertions, in all combinations: one puts both elements on
one process, so that a message names two of them; the other looks the collection up before it is there, tries a
process that does not exist, removes an element and inserts it anew, and puts the two on different processes, so
that a call of `broadcast_to` has several destinations. Processes with different programs are kept in insert mode. Arguments are
chosen so that every container, pointer and derived class occurs, empty and filled, and `RoundTrips` takes every
value of the type in which no sequence is longer than `MaxLength = 2`. `MaxToReceive = 1` because of the
disagreement 3 below: with more receives at a time `ExactlyTheAddressed` fails. With two misses to idle a worker can be awake with a miss, awake
without, and idle. Bounds in guards: `MaxSent` and `MaxSweep` of
`GlobalQuiescence`; `MaxCalls` of `Program`;
`MaxToSend` and `BulkSize` of `DriverLoop` are parameters of the code.

**Fairness.** `ThreadPool`: the operating system runs every thread (weak fairness of each thread's
steps); that a worker which keeps polling finds a queued task is strong fairness of `Dequeue`,
for a poll may miss a task but not for ever; that an action does not ask to be requeued for ever
is strong fairness of `Invoked`, a condition on the program. Nothing obliges the driver to add tasks
or to stop the pool. `GlobalQuiescence`: each process keeps going round its loop, what is sent
arrives, and tasks end; nobody is obliged to send. `DriverLoop`: all threads run, and a message that stays in the queue is
found there, for `try_dequeue_bulk` may overlook it but not for ever. `ReductionHandler`: a thread
inside `insert_or_combine` runs; nobody need contribute. `Atomic128`: all threads run, and of
store-exclusives that are tried again and again some succeeds (strong fairness of the disjunction
over the threads, not of each), which is what the architecture guarantees. `Program`: what
ends by itself goes on (processes make their calls of insert mode and pass the barrier, drivers send and take
in, threads work), the driver of `Self` goes round its loop, and large messages arrive. For the first part weak
fairness of the disjunction is enough, which is less than the code gives; nobody is obliged to call. A blocking
send in the barrier is complete for sure only after it has been received (`Ready`).

## 4. Disagreements between the code and what it says

Four runs end in a violation, and `PROJECT.json` records each with the sentence it contradicts.

1. `QD.cpp:324`. An inner process compares the sweep number of what it has received with the sweep
   it answers; a leaf does not. In a tree of two processes a message that reaches the leaf before its
   answer and was sent after the sweep began cancels one still in flight, and the root terminates.
   `OnlyHiddenMessagesDeceive` delimits this: premature termination needs a message that no such
   test can see. All others that overtake the sweep are caught.
2. `ReductionCounter.hpp:259`. Freeing a slot in the middle of a probe chain hides the key behind it.
   Its next contribution opens a second entry and nobody is ever told.
3. `DTD.cpp:1232`. The code reads the received messages from the range `std::remove_if` leaves behind
   its result, where the standard leaves moved-from elements.
4. `DTD.cpp:690`. What `insert_barrier` compares has all regular components first and the collections after
   them. Processes that interleave the two differently are found equal and leave insert mode with different
   numbers for the same component, although the documentation promises "in the same order" (`DTD.hpp:185`).

Others were met while modelling and have no run of their own:

- `ThreadPool.hpp:301`. A task that asks to be requeued is put back with `try_enqueue`, which does not
  allocate, and the result is ignored. When the preallocated blocks are in use the task is gone, and
  the process is never quiescent again. The model loses it too: `NoTaskIsLost` as an invariant of
  `thread_pool` fails, and `QuiescenceIsDetected` says that nothing else keeps the driver from
  learning of quiescence.
- `Atomic128.hpp:1012` and `:367`. On x86-64 `exchange` and `store` (the latter where `vmovdqa` is not
  used) are a `cmpxchg16b` that compares with the two halves read just before. "Since the compared
  values always match (they point to the same data)" holds for one thread only: if another thread
  writes in between, nothing is stored, and `exchange` returns the other's value as if it had replaced
  it. The comment at line 205 says "Atomically replaces the underlying value". `AtomicRegister` has
  the parameter `Lossy` for these calls; with `Lossy <- {}` `ImplementsRegister` fails in seven states. For
  instance, an `exchange` by 0 reads 0, a compare-exchange of 0 by 1 succeeds, the `cmpxchg16b`
  finds 1 and stores nothing: `exchange` returns 1 and 1 stays. (Two stores that disturb each other
  do no harm, as the lost one could have come first; against a compare-exchange it could not.)
- `Atomic128.hpp:1035`. On AArch64 `exchange` with `memory_order_consume` meets none of the branches:
  it does nothing and returns zeros.
- `DTD.hpp:810` says "At most `max_to_send` sends are initiated". `initiate_sends` takes up to ten
  messages in a turn (`DTD.cpp:1083`) and tests only the turns, so it may start more; a broadcast starts
  several at once. `MailLeaves` is what remains.
- `Reduction.cpp:57`. `DataHandler::pop` leaves a hole in the probe chain, as the counter does. A thread
  that contributes again to a reduction displaced past it opens a second entry, of which `pop`
  takes one: `TablesAreEmptied` and `HandedOnIsWhole` would fail, but the counter fails first.
- `ReductionCounter.hpp:223`. The loop stops when the index, incremented and not masked, is
  `hashed_key - 1`. For keys above `size + 1`, that is for hashes, this never is so, and in a full
  table `increment` probes for ever instead of throwing (line 167). With small keys it throws too soon: in
  a table of four that holds 1, 2 and 3, key 5 probes slots 1, 2 and 3 and then throws although slot
  0 is free. `MixedKeys` avoids both; with `Key` larger than the table, or `{1, 2, 3, 5}`, the module shows them.
- `Reduction.cpp:150`. The table of `combine_inter_process` frees slots in the same way. With `Id = {5, 7}`
  in a table of two, `NobodyWaitsInVain` fails.
- `Reduction.cpp:148`. When every slot holds another reduction the loop falls through and the
  message is neither stored nor refused. `SizeAssumption` of `InterProcessReduction` excludes it.
- `DTD.cpp:832` says "If this is the root, and we reach here, all data matched". The root has compared
  its two children with itself; a difference further down is found by another process, perhaps
  later. What holds is `OnlyAgreementLeavesInsertMode`, thanks to the second barrier.

Of the registry, the calls and the messages:

- `DTD.hpp:1028` and `:1090`. A component is appended to the vector before its number is compared with its place,
  and a collection is added before the process id of its element is tested: a call that throws has changed
  the registry. `ComponentRegistry` does the same. `IdsMatchLocations` holds nevertheless.
- The number of a component is given by first use, and a look-up is a use: a process that looks up a collection
  it has not inserted gives it a number past the end of the vector and reads there. The counter is not atomic.
- `insert_barrier(false)` makes no comparison. A process that catches the exception of the comparison and
  calls `barrier()` lets the others leave insert mode; in the model a process that has thrown stays where it is.
- `DTD.hpp:1873`. The arguments of a message that stays on its process are moved into the action before it is
  known whether it asks to be requeued: the second run sees moved-from arguments. `ArgumentsArrive` says that
  this is the only case.
- `DTD.hpp` (`broadcast_to`). The predicate is evaluated twice for each element; the model takes one that
  answers the same both times.
- `DTD.cpp:1168`. The buffer of a receive is allocated with the alignment of the header, for the receiver does
  not know that of the data, and freed with that of the data. `AlignmentAssumption` of `Delivery` excludes data that
  need more; `CopiesAreAligned` says that these are all.
- `MessageHeader.hpp`. An alignment of 256 would spill into the bits of the type; the size, of 40 bits, is cast to
  `int` before it is given to MPI (`DTD.cpp:888`), as are byte counts in `Serializer.cpp:51` and `View.hpp:40`.
- `Reduction.hpp:183`. `combine_impl` serializes the combined data into the old message. If they have grown they run
  over the callback behind them; `CombiningNeedsRoom` says exactly when.
- `Message.cpp:160`. The assertion that the metadata fit the block of 64 bytes leaves out the last field.
- Unpacking tests no bounds, and into a container that is not empty it appends, prepends or merges, depending on the
  container. Two shared pointers to one object come back as two objects. `Serializer.cpp:65` counts the bytes of a
  view twice when it prints its footprint.
- `Callback.hpp:402`. A clone and the original are said to compare equal, but not once the original has been
  invoked on its own process with arguments that can be moved. The equality of two `CallbackBroadcastTo` ignores the
  predicate. A clone of an invoked callback can never be invoked. A callback is marked as invoked before the driver
  may throw, as it does in insert mode.

## 5. Proofs

All proofs are for every value of the constants, under the named assumptions of each module (for
`ThreadPool`: finitely many workers, `MissesForIdle` positive; for the tree: `N` positive).

- **`DriverLoopProofs`**, first of the pool: `TypeCorrect`, `QuiescenceIsNeverPremature`, `CountersAreExact`,
  `IdleCountNeverDrifts`. `QuiescenceIsReal` is
  not inductive: that no task is left when `is_quiescent` returns true rests on what the separate
  loads can have seen. The invariant `IInv` adds who holds which task (`HandsAgree`,
  `NothingShared`, `BatchIsCounted`), that the counters differ by the number of outstanding tasks,
  and `PhasesKnow`: `sent` only grows, so if phase 2 finds it at the value at which phase 1 found the
  counters equal, then nothing has been outstanding since. One lemma per action; the lemmas
  `BalanceKept`, `IdleKept` and `AnswersKept` say what an action that leaves a part alone keeps. The count of
  idle threads needs less: it is the number of threads between the two atomic operations that change it.
  Then of the loop: `LoopTypeCorrect`, `LoopImplementsPool`, by which all that is proved of the pool holds of the
  pool inside the loop, and `GlobalIsAskedOnlyWhenQuiet`, which discharges what `GlobalQuiescence` takes for
  granted. The invariant says that while phase 2 still has the count of phase 1, a queue that was
  found empty is empty: only a task sends, and a task that had run would have changed the count.
- **`GlobalQuiescenceProofs`**: `SweepsDoNotMix`, `CountsAreExact`, `ResetIsClean`, `NobodyIsLeftBehind`,
  `OnlyTheUntestedDeceives` and `GlobalTypeCorrect`, for every tree. The invariant has a witness, the state `st` of a sweep: which processes it has
  not reached, is on its way to, waits below, comes up from or has left behind; from it `SweepInv` says of every process
  what it keeps and what is in each of its channels of the tree, so that there is one sweep at a time and a reset finds the
  channels empty. `TerminationInv` says that termination goes down without leaving a gap. `NumbersInv` and
  `FlightInv` account for every message: sent, on the wire, or processed. `CarriedInv` is what makes the answer
  mean something: what the sweep carries covers all that was sent before it and is still under way. What is left
  over are messages that a process has sent after it was last tested (`hidden`); the theorem says that nothing
  else can make termination premature, and the run `global_false_termination` that they do. Sums along the tree
  are of functions whose existence is proved (`SumsExist`).
  `GlobalTypeCorrect` is about the range of the counts: no sum that a process passes on comes near `Int64Max`, which
  stands for a count that is not known, so that a real count is never taken for an unknown one and nothing overflows,
  as long as `Int64Max` is more than `N` times the messages that the application sends (`BoundsAssumption`). It
  rests on `CountsInv`. A message of the application is sent and processed `N` times at most, for a broadcast still owes
  one copy to each process below the one it is on its way to (`BudgetInv`). What is on the way up, with what is counted by
  those that have not reported, adds up to no more than all have sent, and for the negative counts than all have
  processed (`SharesInv`): a count that goes up moves from a process to its parent, whatever is sent meanwhile
  (`GatheredShares`, `SharesOfMessages`). What is sent or received after the report only enlarges the right side.
- **`ProcessTreeProofs`**: parent and children are inverse (`ChildrenMatchParent`), parents are smaller
  (`ParentIsSmaller`), and `AgreementAlongTheTree`: what each process has in common with its parent
  all processes have in common. The last is an induction along the tree: of the processes that differ
  from the root take the smallest (the natural numbers are well founded); its parent is smaller, so
  it agrees with the root, and so does the process. What is below a process is a subtree: that of the
  root is all processes, and those of two children have nothing in common (`SubtreeStep`, `SubtreesApart`).
  `CountedAreThoseWhoSend` is about the two walks of a
  reduction: the number of messages a process is told to expect is found by walking down, whom a process sends to
  by walking up, in two functions of the code; they agree for every tree and every set of contributors. Each walk is a
  recursive function, which the proof first shows to exist (`WalkUpExists`, `WalkDownExists`).
- **`InterProcessReductionProofs`**: `ReductionTypeCorrect`, `TheResultIsWhole`, `NothingIsLostOrDoubled`,
  `NoProcessWaitsInVain`. The invariant `ReductionInv` says three things. Of a message on its way: it holds its source and
  all contributors below it, and no others (`WireShape`). Of an entry: with each contributor of which it has
  something it has all that is below, and `expected` is what it waits for less what it has got,
  where it knows what it waits for just when its own contribution is in; so the count may be negative, is never zero
  while the entry is kept, and when it becomes zero nothing is missing (`EntryShape`, `NewEntryShape`, `CountedDown`).
  Of all together: every contribution is in one place (`Accounts`). That nobody waits in vain then follows by
  taking the lowest process in the tree that still holds something.
- **`ReductionHandlerProofs`**: of the counter `TypeCorrect`, `TrueMeansComplete`, `OnlyOneIsTold`; of the tables
  `HandlerTypeCorrect`, `ResultsAreWhole`, `NothingIsLeftBehind`; and `HandlerImplementsCounter`, by which the
  first hold inside the second. The invariant of the counter accounts for each call: announced, counted, or told.

- **`ProgramProofs`**, first of the abstract barrier, on the instance `Barrier` of `InsertMode`: `InsertModeIsLeftInAgreement`,
  whatever is inserted. The invariant `BarrierInv` says that a
  process past a child has found it equal, and that insert mode is left by all or none; then
  `AgreementAlongTheTree` applies. Of the registry: `InsertTypeCorrect`, `RegistryIsConsistent`, `InsertModeImplementsBarrier`,
  `InsertModeIsLeftTogether`. That the three copies of where the elements are agree is inductive only together with
  finiteness (the count is a cardinality) and with the type of the maps; a lemma for each operation on one
  collection (`WithElementMatches`, `WithoutElementMatches`) and one for the four calls (`PerformKeeps`) make the
  induction. The refinement maps every insertion to `Insert` of `InsertBarrier`, whose accounting is any value,
  and every step of the check to itself; `InsertModeIsLeftInAgreement` then carries over.
  Of the messages: those of all types have room for what is in them, aligned, for all sizes and
  all alignments (`InvokeMessagesHold`, `BroadcastToMessagesHold`, `ReductionMessagesHold`), copies and received ones
  are freed as they were allocated (`CopiesAreAligned`), and when combining needs more room than there is
  (`CombiningNeedsRoom`). They rest on two facts about rounding, one for each way in which the code rounds
  up, proved for each alignment.
  Of the whole program: `ProgramTypeCorrect`, `AllBuffersHold`, `ArgumentsDoArrive`, for any number of processes, components
  and calls, any programs of insertions and arguments of any size. None of the three is inductive. `ProgramInv`
  says what a message may be in each place. One that is to leave or has left its process (`Mail`) is of a call that was made,
  fits its block, and has its arguments as `Form` puts them, packed unless they are plain: otherwise a copy of
  its bytes would break it. A message other than a broadcast leaves the process it is from and reaches another one
  (`Leaves`, `Reaches`); a broadcast may come back. Only a task of `invoke` on the process of the call may hold an object that is
  not plain, and one whose arguments have been moved out has been run once and is not asked for again (`Stays`). Of a callback
  that has not been invoked the arguments are those of the call (`CallbackInv`). Of the receiving side, each
  entry of the vector has, as long as it is there, the message it was made for (`ReceivingInv`): that is what ties the entries,
  which know nothing of messages, to `arrived`. There is one lemma for each way a message goes (`SendInvoke`,
  `BroadcastTo`, `ToChildren`, `HandOn`, `Run`) and one for each action of the receiving side. What is assumed of the calls
  (`CallAssumption`) is that each has a name of its own, and what the code's assertions and types impose: results
  of reductions are called by the root, `broadcast_to` is for collections only (`DTD.hpp:1380`), and a call of
  `invoke` is to one element, or to one process if the component has no elements (`DTD.hpp:1236`).
- **`CallProofs`**: `CallsReachTheAddressed` and `PromisedOrderIsEnough`, that is `ExactlyTheAddressed`, for every
  tree, every set of calls and every way their messages are interleaved.
  What a call owes is a set of keys: a process, an element of the component (or the process itself), and whether it is
  the run after a requeue. A message in a queue, in a channel or taken in, a task, and what has run are carriers, and the load
  of a carrier is the keys it will bring about, or has. `Exact` says that the loads of the carriers of one call are disjoint, hold nothing
  that is not due, and together all that is. It is kept by every step that replaces carriers by others that share out
  their loads (`ExactMoves`), and begins to hold of a call with the carriers it is made with (`ExactMakes`); what is
  left is what each step does to its carriers (`SentIsCarried`, `ReceivedIsCarried`, `HandedOnIsCarried`, `RanIsCarried`).
  A broadcast owes what is below the process it is on its way to, and shares it out among the children.
  A message of `broadcast_to` owes the elements of its list, and becomes as many tasks, for the count of local
  elements that ends the search is right (`AllLocals`, from `IdsMatchLocations`).
  The queues are bags and the channels sequences, so that nothing is in one place twice has to be said apart (`Once`).
  `Kept` says that the place, the number and the elements a message names are those of its component; `Taking` that
  the entries of the receiving process match what has arrived, and that one at most of them is incomplete, the first.
  The invariant is `ExactInv`: either all processes are past insert mode, or none is and nothing has been called; processes
  have a number for whatever they have inserted (`Numbered`); a call made by a callback has marked it (`Invoked`); and
  where the places in the registries are right, the rest holds. It was checked with TLC in the instance of `program` before it was
  proved. The second theorem adds `Ordered`: in a process that inserts in turn the place of a component in the vector is its
  number, so that it needs nothing but the promise of `insert_barrier`.
- **`Atomic128Proofs`**: `TypeCorrect` and `AtomicImplementsRegister`, the refinement that `atomic128` checks, for any
  number of threads and all builds, and `SeenInvariant`. A step that ends a call maps to `TakeEffect`, a
  `cmpxchg16b` that has compared in vain to `Lose`, the reads and the failures of a loop to nothing. What
  makes it work is `SeenIsCurrent`: who still holds the monitor, or has not been disturbed, has read
  the two halves of the value that is there. `QuietStep` and `WritingStep` say once what a step of one
  thread does to the others.

**A hypothesis.** `ReductionHandlerProofs` and `InterProcessReductionProofs` assume `DistinctHomes`: no two reductions in
progress begin their search at the same slot. The code does not see to it: ids are hashes that the caller chooses. Without it both
parts fail: a reduction that ends frees a slot in front of an entry that another one, displaced by it, has
behind; who comes next for that other takes the free slot and begins again. For the
counter the run `reduction_counter_collision` shows it. Between processes it happens as well: with two
ids of the same home TLC refutes `NobodyWaitsInVain` after six steps, with processes 0 and 1 contributing to both; one entry of the
displaced reduction then waits for one message more and the other has counted one too many. The instance of
`inter_process` has ids of different homes. `DistinctHomes` is satisfied by every set of ids whose remainders modulo the size of
the table differ.

`CallProofs` has three hypotheses. `OneAtATime`: at most one kind of message takes time to arrive after its receive has begun,
and then one receive is under way at a time (or none takes time); otherwise what `remove_if` leaves behind its result loses a message, as the run
`incoming_several` shows. `SameNumbering`, that all processes have inserted the same in the same order, is what `insert_barrier` promises
and does not check: `insert_order` refutes it of programs in general. It is a premise within the theorem, about each state. `InsertedInTurn`, a
condition on the programs: a process does not insert a component after it has asked for the number of another
that is not there yet. Without it a component may be in a place that is not its number, and a call reaches another one. (`CallsReachTheAddressed` has,
instead of the last two, that the places are right, `RightPlaces`.) The constants of `program` satisfy `OneAtATime` and
`InsertedInTurn`, and TLC finds states of that run, with calls under way, in which `RightPlaces` holds.

**Induction.** The induction theorems of the library take an operator as a parameter and cannot be used. Induction
over numbers and sets is by lemmas about sets instead: `SetInduction` (a set of numbers that contains
0 and with each number the next contains all), `SubsetInduction`, `PassesDown`; what is to be shown is the membership in such a
set.

**Model-checked only.** All liveness (fairness and `ENABLED`), and `RoundTrips`: what is computed by recursion over a
type. Every other property that a run finds to hold is a theorem.

## 6. Not modelled

- Weak memory. Atomic operations take effect in one order. In `increment` the subtraction that
  observes 1 has release order only (line 257), so what the other threads have combined is not
  formally acquired by the thread that goes on to read it; a model of the interleavings cannot say.
- Failures of MPI calls and exceptions thrown by tasks: the program ends.
- The objects: what an action does to the object it runs on, and the calls it makes from there. A call is made by
  a process at any time after insert mode, which includes them.
- Actions that are not threaded, `am_i_inserted`-style queries that change nothing, comparing and serializing
  callbacks, calls in insert mode, which throw.
- The contributing half of a reduction is in `ReductionHandler` and `InterProcessReduction`; in `Program` a reduction
  begins when its result is there (`Finish`).
- Weak memory in `Atomic128` as well: of a memory order the model keeps which instructions it selects.
  `memory_order_consume` is excluded.
- Logging, pinning of threads, options, hardware information: data and input/output without a protocol.
- Of serialization: byte order, widths of integers, sizes on foreign machines, demangled names, printing.
  `Spinlock` is not used by the library.

## 7. Plan

The order followed so far: the thread pool and local quiescence, global quiescence, the two levels of
reductions, receiving, the insert barrier, the loop that connects pool and network, the 128-bit
atomics, the registry and insert mode, messages and serialization, delivery, callbacks, and the program that puts
them together. What is left, in order of importance:

1. `IncomingMessages` alone: no buffer is read before it is complete, none is freed twice.
2. Abstract specifications: a task pool (accept, execute, announce) that `ThreadPool` implements, with the
   refinement proved; termination detection, which `GlobalQuiescence` implements but for hidden messages.
3. The contributing half of a reduction inside `Program`.
