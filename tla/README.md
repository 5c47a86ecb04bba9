# graph_runtime: TLA+ models, checks and proofs

graph_runtime executes a graph of nodes. Packets travel along streams, nodes are
run by thread pools, and an application drives the graph from outside. This
directory holds TLA+ models of the parts that make that work, TLC runs that check
them on small graphs, and TLAPS proofs for what holds of every graph. Paths below
are relative to `src/graph_runtime/src/framework/`.

## 1. The system

| Component | State | Operations | Meets |
|---|---|---|---|
| `SchedulerQueue` (`scheduler/scheduler_queue.*`) | `queue_` (a priority queue of items), `num_pending_tasks_`, `running_`, `close_pending_`, `finalized_nodes_` | `AddNode`, `SetRunning`, `SubmitWaitingTasksToExecutor`, `CleanupAfterRun`, `RunNextTask` (`TryPop`, `RunNode`, `OnTaskFinished`) | the executor (`AddTask`), the scheduler (idle, source-stopped and error callbacks), the streams |
| `Scheduler` (`scheduler/scheduler.*`) | `state_`, `has_error_`, `handling_idle_`, `active_sources_`, counts of closed graph inputs | `Start`, `HandleIdle`, `Pause`, `Resume`, `Cancel`, `Shutdown`, `WaitUntilDone`, `WaitForIdle`, synchronous `Schedule` | all queues; called by workers and application |
| `ThreadPoolExecutor` (`scheduler/thread_pool_executor.*`) | `tasks_`, `stopped_` | `Schedule`, worker loop, destructor | runs `RunNextTask` |
| `Node` (`node/node.h`) | `pending_count_`, its queue, its ports | `Open`, `Process`, `Close`, Increment/DecrementPending | queue and streams |
| `InputStreamManager` (`stream/input_stream_manager.*`) | packet queue, `next_timestamp_bound_`, size limit | `AddPackets`, `MovePackets`, `SetNextTimestampBound`, `PopQueueHead`, `PopPacketAtTimestamp`, `Close` | arrival callback -> `AddNode`; full/not-full callbacks -> throttling |
| `OutputStreamManager/Handler/Shard` (`stream/output_stream_*`) | mirrors, bound, `closed_` | `PropagateUpdatesToMirrors`, `PostProcess`, `Close` | the consumers' input managers |
| `InputStreamHandler` (`scheduler/input_stream_handler.*`) | the managers of a node, sync sets, `notified_` | `GetNodeReadiness`, `ScheduleInvocations`, `FillInputSet`, `Close`, for three policies | its managers; only tests drive it, `RunNode` pops the managers itself |
| `GraphRuntime` (`public/graph_runtime.*`) | the objects of a graph, closed inputs, throttling | `Initialize`, `Start`, `AddPacketToInputStream`, `CloseInputStream`, ... | all of the above |
| `Timestamp` (`stream/timestamp.*`) | a 64-bit value with special values at both ends | arithmetic, order | streams |
| `ConfigValidator` (`config/config_validator.*`) | marks, stack and path of its search | four checks on names and streams, search for cycles | called by `GraphBuilder` |
| `GraphBuilder` (`public/graph_builder.*`) | the executors and nodes it makes | `Build` | `GraphRuntime::Initialize`, which wires nodes, streams and queues |
| `JsonParser`, `ParserRegistry` (`config/json/json_parser.*`, `config/parser_registry.*`) | extension -> parser | `Parse`, `ParseFromString`, `CreateForFile` | calls `ConfigValidator` |
| `NodeFactoryRegistry` (`node/node_registry.*`) | type name -> factory, id -> type name | `Register`, `Unregister`, `GetFactory`, `CreateByName` | libraries, from any thread; `GraphBuilder` |
| `GraphProfiler` (`profiler/*`) | `is_profiling_`, open and close time and a histogram per node | `Scope`, `Start`, `Stop`, `Pause`, `Resume`, `Reset`, `WriteProfile` | called around `Open`, `Process`, `Close` by the scheduler, and by the application |
| `Reporter`, `print_profile` (`profiler/reporter/*`) | sums per node | `Accumulate`, `Report` | reads the files of `WriteProfile` |
| tag maps, logger | names and output | | no influence on a running graph |

How a packet moves: a worker pops an item, takes one packet (or the done flag) from
each input of the node, calls `Process`, hands the output to the input managers of
all consumers, and the arrival callback of each (if its queue was empty) adds the
consumer to its `SchedulerQueue`, which submits a task to its executor. At the end
of each task the idle callback enters `Scheduler::HandleIdle`, which decides
whether the graph has come to rest, wakes parked sources, drains, or closes all
nodes and terminates.

What is hard:

* concurrency: every worker, and the application, may be in `AddNode`, in the
  stream managers and in `HandleIdle` at once; `state_`, `has_error_`,
  `active_sources_` have no lock;
* signals that are dropped on purpose: arrival only on an empty queue, `AddNode`
  refused at `MaxInFlight`, `HandleIdle` refused when another thread is inside,
  tasks that find no item;
* termination detection from counters (`num_pending_tasks_`, emptiness) read at
  different moments;
* order at the end of a stream: last packet, done, flush, close;
* control calls (`Pause`, `Cancel`, `Shutdown`) against running workers;
* timestamp bounds: a reader combines bounds it has read from several managers one
  after the other, while producers move on, and callbacks run after the lock they
  report about was released;
* a profiler that is switched while scopes are open, a factory that is destroyed
  while it is used, a reader that must not stall on what the writer printed.

What makes each component correct:

* queue: a node never runs more often at once than its contract allows; a queue
  that looks idle is idle; an item of a running queue is always going to be taken;
* streams: done comes after the data, nothing is emitted into a closed stream,
  every consumer gets every packet;
* scheduler: it terminates only when everything is consumed and every consumer
  has seen the end of its input; it does terminate; errors are known before nodes
  are closed; a node is closed once and not processed afterwards (the synchronous path
  keeps the first half but for one window, see "Worth knowing");
* validation and wiring: the cycle check is exact, the wired graph has no cycle,
  every input has a producer and every node an executor; parsing and `Initialize`
  end whatever libraries do meanwhile, and the registry follows its tokens;
* input sets: a set is complete when it is given out, a consumer is closed only when
  exhausted, and none waits for ever;
* profiling: what is recorded was spent, what is reported was written.

`PROJECT.json` lists all components, the hazards by source line, and which
property covers which.

## 2. Modules

| Module | Contents |
|---|---|
| `QueueState` | shared state of the queues, the executors and `pending_count_`; one operator per critical section of `scheduler_queue.cc`, and the order of the priority queue |
| `SchedulerQueue` | the queues under an *arbitrary* environment: any number of workers and clients calling in any order. The abstract specification of what a graph may do to its queues |
| `GraphScheduler` | the composition: scheduler, queues, workers, streams, application; refines `SchedulerQueue` |
| `ConfigValidator` | the validation of a configuration, its search for cycles step by step |
| `NodeRegistry` | the registry of node factories and its tokens |
| `JsonParser` | which documents the parser accepts, refuses or throws on, and the configuration it makes |
| `GraphWiring` | the composition of the three: a document is parsed, validated, built and wired while libraries come and go; how the constants of `GraphScheduler` (edges, mirrors, queues) come about |
| `Timestamp` | special values and the arithmetic on them |
| `InputStreams` | `InputStreamManager` as a value with one operator per critical section |
| `Streams` | producers, mirrors, input managers, handlers, backpressure callbacks, with timestamps |
| `Profiler` | `TimeHistogram` and the data of `GraphProfiler` as values |
| `ProfileFile` | the file `WriteProfile` writes, as tokens |
| `SyncSchedule` | `Scheduler::Schedule`, the synchronous path, and the profiler around it |
| `ProfileReport` | `SyncSchedule`, then `print_profile` on the files it left |
| `MCSchedulerQueue`, `MCGraphScheduler`, `MCGraphWiring`, `MCStreams`, `MCProfile` | small instances for TLC |
| `SchedulerQueueProofs`, `GraphSchedulerProofs`, `ConfigValidatorProofs`, `GraphWiringProofs`, `StreamsProofs`, `SyncScheduleProofs` | theorems about the modules they are named after (`StreamsProofs` also about `Timestamp` and `InputStreams`) |
| `GraphRunProofs` | theorems about the run of a whole graph, on top of `GraphSchedulerProofs` |
| `InductionLemmas` | induction by sets: least and greatest elements, sets closed under successor; the recursion of `FlattenSeq` and its type |

Definitions starting with `Mut` are deliberately wrong variants of the definition
that follows them. They are used by no specification; each shows that a property
would notice that mistake in the code.

### QueueState and SchedulerQueue

`queue` counts the items of each node (items of one node are equal, so the
priority queue is determined by the counts and `ItemLess`). `numPending`,
`running`, `pendingCount` are the members of the same name. `tasks` is the number
of tasks waiting in the executor: all tasks of a queue are the same closure. A
thread inside `SubmitToExecutor` is between the increment (`Count`) and the
hand-over (`Send`), two steps in the code with no lock around both. A worker's
`pc` says where it is in `RunNextTask`; `"run"` and `"post"` are the parts of
`RunNode` before and after `DecrementPending`. In these, and in the idle callback,
a thread may make any call on any queue (`MayCall`), which is more than the code
does. `MaxTasks` bounds the environment: calls are made only while fewer than
`MaxTasks` tasks wait and are counted, or always when it is `Unbounded`; the theorems
hold for every value.

A call of `AddNode` at the limit changes nothing and is a stuttering step.

### GraphScheduler

Each thread has an `agenda`, the operations it still has to execute. One
operation is what the code does between two points where another thread can
interfere. A call pushes the operations of its body. `HandleIdle`, for instance,
is `Enter` (guard), `Begin` (cancel test), `CheckIdle` once per queue, `Idle`,
`Scan`/`DrainNode`/`FindUnfinalized` (the drain), `Judge`, `CloseNode`,
`Terminate`, `Leave`. `RunNode` is `PopQueueHead` per port, `Process`,
`PostProcess` (and the deliveries it pushes), `Finalize`, `Decrement`, the close
or re-add it decided on, `Reschedule`, `SafetyNet`. Application threads follow a
script of calls (`Scripts`); a call that `Start` must precede waits for it.

Abstractions:

* packets are counted. No property tells two packets of a stream apart;
* the timestamp bound of a stream is "Done or not": on the asynchronous path
  only `Done` is ever tested;
* a node has one output stream; input queues have no size limit;
* the closed graph inputs are a set, where `IncClosedGraphInputStreams` (`scheduler.h:88`)
  increments a plain integer: two threads that close two streams at once may lose an
  increment, after which the graph never terminates. The scripts close streams from one
  thread;
* `Start` stores `kRunning` and assigns the nodes to their queues in one step, and the
  application makes no call before it but those that feed graph inputs. What a `Cancel`
  that comes earlier does to a run is modelled on the synchronous path;
* a source emits `Supply` packets and then stops; a consumer emits a packet per
  packet; a flusher emits one more when it first sees its inputs done; a stopping
  invocation emits nothing. These are assumptions about application nodes, the
  only external part of the map;
* a test over all ports of one node (`HasPendingInput`, `AllInputsDone`) is one
  operation: its locks are taken one by one in the code, but a port's emptiness
  and done flag only move one way while the node is not running;
* condition variables wake only when notified (a spurious wake-up would merely
  hide a lost notification), and an access to an unprotected scalar is atomic;
* the `Open`/`Close` callbacks themselves, profiling, logging, counters and type
  warnings are left out.

### ConfigValidator, JsonParser, NodeRegistry and GraphWiring

`phase` is the check that comes next. The search for cycles has the code's
variables: `color` (`state`), `start`, `stack`, `path`, `cycle` (`cycle_nodes`). One
action is one turn of a loop: `NextStart` the outer one; `Backtrack`, and
`VisitChild` with its three cases (`FoundCycle`, `Descend`, `Skip`) the inner one. A
frame holds the set of children it has still to visit, so the model searches in
every order and the code's is one of them. A "port:stream" entry is a record of
its two parts.

A JSON object is a record with the members that are present; `Wrong` is a value of a
type its reader does not convert. `Outcome` lists the parser's checks in their order,
with the result of each: an error the parser returns, or an exception that nlohmann
throws and `ParseJsonText` does not catch. Of the members whose wrong type makes it throw
some stand for all: `max_queue_size`, the profiler's options and the side packets are left
out, and would add no other outcome.

In `NodeRegistry` each call is one step, since it holds the mutex. `CreateByName` is
two, `LookUpFactory` and `CreateNode`: it uses the factory after the mutex is
released. If the factory was destroyed in between, `CreateNode` is undefined and
either ends in `"crashed"` or works.

`GraphWiring` runs one thread from `ParseJsonText` (or from a configuration built in
code) through `Initialize` (`Options::Apply`), the validator, `CreateExecutors`, the
nodes one by one, to `Wire`, the rest of `Initialize`: one manager per input (an
*edge*), ports by name, and `output_by_stream`, in which a later output, or a graph
input, of the same name replaces an earlier one. `LibraryStep` is every other thread.
To bound the state space it moves only where a document is read, and `Register` is
called at most `MaxRegistrations` times.

### Timestamp, InputStreams and Streams

The ends of `int64_t` are constants, so that the reserved values and the saturation
are all there on a range of nine values; the proofs hold for every range. `operator+` and
`operator-` add first and clamp then, so the sum may leave the range: `Wrap` is what it
comes to in two's complement. A packet is its timestamp. `Streams` has agendas like `GraphScheduler`: an operation is one
critical section or one callback, which the managers make after they have released
their lock. A producer's `Process` fills a shard (`ShardCall`), computes the bound and
pushes one update per mirror, with its packets and the bound behind them; a graph input does the same without an input
timestamp. A consumer is either driven by its handler, which reads manager after
manager (`ReadPort`), decides, and pops manager after manager (`PopPort`), or by
`RunNode` (`PopHead`), as in the runtime.

Assumptions: one thread per producer and per consumer (`MaxInFlight` 1); the client of
a handler calls `ScheduleInvocations` when notified and after an invocation (external:
only tests drive a handler); a node sends nothing older than the bound it gave
(`Lawful`), which the code leaves unchecked; one output stream per producer. A graph is
what `GraphWiring` makes of a configuration: each edge mirrors one output and is one
input of one node (`EachOnce`), which is all that `StreamsAssumption` says of it.
`MaxInvocations` and `MaxAllowance` are the bounds.

### Profiler, SyncSchedule, ProfileFile and ProfileReport

`SyncSchedule` follows `Schedule` call by call: all nodes are opened, each active
source is processed with the consumers after it (`SkipSource`: the loop over all nodes
passes the sources by), all nodes are closed. A `Scope` is a
frame of `scopes`; entering it, testing the flag on leaving it and recording under the
mutex are three steps, between which the application may shut down, cancel, pause,
resume, reset or write a profile (at most `MaxCommands` calls, `MaxFiles` files). The
clock advances only in calls of nodes. The `spent`, `calls` and `stale` histories say what
a correct profiler would hold.

`Cancel` runs on a thread of its own, whose place is `canceller`: the stores to
`has_error_` and `state_` are two steps, and so are, in the `HandleIdle` it calls, the test
for `kCancelling`, `IsIdle`, the test of `state_` in the loop, each `Close` of
`CloseAllNodes` with its scope (`IdleCloseNode` to `IdleRecordSample`), the stop of the
profiler and the last store. It may begin before `Schedule`, whose first store, of
`kRunning`, is a step too. `overtaken` records that this store came after `Cancel`'s of
`kCancelling` and before `HandleIdle` had looked at `state_`.

Left out of this path: `AddPacketToInputStream` and `CloseInputStream` (the graph has no
graph inputs, so both return `NotFound` before they reach the scheduler) and the graph's
`Pause` and `Resume`. `Resume` starts the queues, and workers would then run the
consumers next to `Schedule`, which is the asynchronous path on top of the synchronous
one. With them other threads could call `HandleIdle` too; with `has_error_` set and
`state_` still `kRunning` they would close the nodes as the overtaken `Cancel` does. Two
calls of `Cancel` that both pass the test of `has_error_` are left out as well. Fused: the stores of `Shutdown`, which no
property tells apart. A consumer's input streams are one number, since each of its
producers is processed at most once and nothing reads them.

`ProfileFile` writes the file as tokens. One detail of number formatting matters and
is kept: an `ostream` prints a mean of 10^6 (`PrintLimit`) or more with an exponent,
which the reader does not know. `ProfileReport` runs the reader over all files, one
action per round of the three loops of `Accumulate`.

## 3. Runs

Bounds: two workers are enough for every race between two invocations and between
a worker and the idle detector of another; a third adds no new pair of program
points. Two nodes give a producer and a consumer, three add a node that is both,
and a sink with two ports. One packet per source is enough to have data, done and
a flush in a stream. The safety runs declare the
workers of the one pool symmetric (no operator distinguishes them); the temporal
runs do not.

| Run | Instance | Shows |
|---|---|---|
| `queue` | source + consumer, one queue, 2 workers, 1 client that may call anything, `MaxTasks` 2, fair | `MaxInFlightRespected`, `IdleMeansQuiescent`, `NoStrandedItem`, `RunningQueueProgresses`, and `IndInv`, the invariant of the proofs |
| `drain` | src -> mid -> snk and src -> snk, mid flushes | done behind data, nothing dropped, idle means drained (but for what the application adds before `Start`, which waits for `DrainInputQueues`), every packet reaches every consumer |
| `control` | src -> snk; Pause/Resume, Pause/Cancel, Cancel, Shutdown | no `Process` after `Close`; refinement of `SchedulerQueue` |
| `inputs` | graph input -> mid -> snk; the application feeds and closes after `Start`, or partly or wholly before it, and waits | termination only with all consumers finalized; done is final |
| `errors` | src -> snk, either may fail in `Open` or `Process`, snk may stop | error known at close, one close per node |
| `finalizes` | src -> snk, Pause/Resume, fair | every consumer is finalized |
| `config` | all configurations of three nodes with up to two inputs and one output over three streams, with and without a graph input; pairs of nodes with clashing node, port, stream and executor names; documents with missing, empty and ill-typed members, read while two types are registered up to three times; fair | the cycle check is sound and precise; the registry follows its tokens; `Initialize` returns; the wired graph is acyclic, fed and served, beyond the two exceptions below |
| `streams` | five graphs: a node and a graph input into one synchronized consumer; a node mirrored to a synchronized consumer and to one `RunNode` runs from a limited queue; a node into an immediate, and into a fixed-size consumer; a node whose offset makes the sum with its input timestamp overflow. Two invocations per producer, queues of two, allowance two; fair | nothing lost or reordered, input sets settled, closed means exhausted, full queues recorded, bounds kept, nothing waits for ever |
| `profile` | two sources and their consumer, one of each may fail, one source may stop; two calls from other threads, one of which may be a `Cancel`, calls of one length except that one node's `Open` and `Close` take time and the others' take none, `INT_MAX` 3, three buckets of three, exponents from 4; fair | the profile is complete and truthful, every node is closed once but for the window below, the report is what was written, `Schedule` and the reader end |

Three nodes are enough for a cycle behind a node that an earlier search marked
done, and for two producers of one stream. Three registrations give a type that is
registered twice and unregistered in either order. In `streams` the values a packet
may have are the lowest two of the range and `PostStream`; two invocations with up to
two packets each reach a full queue, a stream that is exhausted and one that is
closed behind data. In `profile` two calls are enough to pause and resume, or to
write two profiles, at any two moments, and a `Cancel` leaves one call more. The run
reaches a node that `Schedule` closes after the thread that cancels has, one closed twice
in the other order, and one closed before its `Open`. In the fifth graph of `streams` the
offset is the largest but one, so that adding it to any timestamp above 1 wraps.

The graph runs say `CHECK_DEADLOCK FALSE`: a graph that has terminated, or that
was left running by one of the faults below, takes no further step.

Runs that find a disagreement between the code and what it says of itself (the
quotations and lines are in `PROJECT.json`, `findings`):

| Run | What happens |
|---|---|
| `terminates` | the last caller of `HandleIdle` bounces off the guard; the graph stays running for ever, fully drained |
| `waiters` | `WaitUntilDone` misses the notification of termination |
| `two_queues` | with two executors the graph terminates before its consumers are finalized |

The passing runs on termination and errors therefore use one queue, which is the
default configuration; liveness is stated about finalization, not termination.

### Worth knowing besides

Scheduler:

* a consumer whose stream ends while it is empty sees done in two invocations,
  although `RunNode`'s comment says "exactly once";
* with two queues `NoProcessAfterClose` fails for the same reason as `two_queues`;
* `Cancel` can bounce off the guard of `HandleIdle` like the callers in `terminates`;
* the drain guard of `HandleIdle` is redundant on one queue: removing it changes no
  result;
* `Pause` tests `state_` and then assigns it, so a termination in between is
  overwritten by `kPaused` (`scheduler.cc:477`);
* errors of a node on a named executor are never recorded (`scheduler.cc:40`);
* a consumer that stops closes its outputs while packets are still buffered;
* `Item::operator<` ranks sources above the other nodes, although its comment says the
  opposite (lemma `ItemLessExpanded`).

Streams:

* `CheckTimestamp` accepts every timestamp (`CheckTimestampNeverFails`);
* only tests call `ScheduleInvocations`, `FillInputSet`, `UpdateTaskTimestampBound` and
  `UnthrottleSources`. `RunNode` uses `PopQueueHead`, which never calls the not-full
  callback, so a node that was throttled stays on record as throttled;
* with several ports the immediate and fixed-size handlers throw packets away
  (`DropsNothing` excludes them from `Lossless`); neither ever asks to be closed, and a
  fixed-size consumer whose queue is full is never ready;
* `PopPacketAtTimestamp` takes one packet, where `contracts/InputStreamManager.md`
  says all up to the timestamp;
* the full and not-full callbacks of a handler-driven consumer can be reordered, which is
  why `FullIsRecorded` is about queues that `RunNode` drains.

Synchronous path and profiler:

* `Schedule` makes one pass: each source is processed at most once, consumers get
  empty inputs and their outputs are dropped; it returns `OkStatus` after errors;
* a `Cancel` may close every node a second time. It stores `kCancelling`
  (`scheduler.cc:469`) and its `HandleIdle` tests for it (`:68`), without a lock. If
  `Schedule`'s unconditional store of `kRunning` (`:239`) comes in between, the queues are
  idle and `has_error_` is set, so `HandleIdle` calls `CloseAllNodes` (`:144`), and
  `Schedule` calls it too (`:345`): every node is closed twice, possibly before its `Open`,
  and the profiler is stopped under `Schedule`. This is the exception of
  `ClosedOnceAtTheEnd`, and why `ProfileIsComplete` asks that no `Cancel` closes nodes;
* a failed `Open` closes nothing and leaves the profiler on, as in `Start`
  (`scheduler.cc:403`); `Shutdown` and `Cancel` wake `WaitUntilDone` while `Schedule` still
  closes nodes;
* a source's PROCESS time includes that of its consumers;
* a scope entered while profiling is off and left while it is on records the clock's
  value as its duration (the exception of `ProfileIsTruthful`);
* an interval size of 0 divides by zero, 0 intervals index out of range; neither is
  validated (`ProfilerAssumption`);
* the reader never ends on a mean printed with an exponent (the exception of
  `ReaderEnds`);
* `SetProfilerConfig`'s override is stored and never used.

Configuration:

* an input that names one of the graph's `output_streams` is taken for fed, and with
  named executors only, a node without one is bound to a default queue that never runs
  (`EveryInputFed` and `EveryNodeServed` except these two cases);
* `Unregister` erases by name, so the token of an older registration takes a newer
  one's factory with it;
* an ill-typed member makes `Parse` throw, although its contract says it must not;
* `ThreadPoolExecutor::Create` with `num_threads <= 0` gives one thread, on any hardware.

### Fairness

`GraphScheduler`: weak fairness per thread. No operation waits for a lock held
across operations, so a thread that has an operation executes it; pool threads are
woken for a waiting task; `Process` returns. `SchedulerQueue`: weak fairness for
the steps inside `SubmitToExecutor`, `TakeTask`, `TryPop`; strong fairness for
leaving `RunNode` and the idle callback, because there the environment may make
any number of calls in between, while a real node makes finitely many.
`GraphWiring`: weak fairness of the one thread that runs `Initialize`; nobody has to
load a library. `Streams`: weak fairness of what a producer has begun (`Deliver`) and
of every consumer; nobody has to produce. `SyncSchedule`: weak fairness of `Schedule`'s
thread (calls of nodes return) and, in `ProfileReport`, of the reader; the thread that
cancels may stop anywhere.

## 4. Proofs

`SchedulerQueueProofs` proves, for every set of nodes, queues and clients, every
finite pool of workers, every assignment and every `MaxTasks`, `Unbounded` included:

* `MaxInFlightCorrect`, `IdleCorrect`, `NoItemStranded`, `TypeCorrect`: the four
  safety properties of `queue`, as `Spec => []...`;
* `Invariance`: `Spec => []IndInv`, from which they follow;
* `ItemOrder`: `Item::operator<` is a strict total order.

Assumptions: those named in `QueueState` and `SchedulerQueue` (functions have
their domains, `MaxInFlight >= 1`, node addresses are distinct, finitely many
threads). Nothing else is assumed.

The safety properties are not inductive. `MaxInFlightRespected` needs
`PendingAccounted`: `pending_count_` is the number of queued items plus invocations
under way, and at most the limit (in a queue that was cleaned up it may exceed the
sum, since `CleanupAfterRun` drops items without decrementing). `IdleMeansQuiescent` needs `TasksAccounted`:
`num_pending_tasks_` equals tasks sent, waiting and held, or is below that once
`CleanupAfterRun` was called. `EndProcess` needs `RunsOwnNode` and
`PendingAccounted` to keep the counter from going negative; `Count` needs
`OneSubmitStep` to add a *new* thread to those sending. `NoStrandedItem` is
inductive with these: each step that uses up the evidence (a task, a worker, a
submission) replaces it or found the queue empty. One lemma per conjunct, one case
per action; cardinality facts come from `FiniteSetTheorems`.

`ConfigValidatorProofs` proves, for every set of configurations of any size and
every order of the search:

* `AcceptedAcyclic`: an accepted configuration has no non-empty set of nodes each of
  which depends on one of the set, a definition of acyclicity that mentions no path;
* `ReportedCycleIsReal`: the reported cycle follows dependencies back to its start;
* `SearchInvariance`: `Spec => []SearchInv`, from which both follow.

The only assumption is that configurations have their type. Neither property is
inductive. `SearchInv` adds that the path lists the frames, that it holds exactly
the nodes in progress and follows dependencies (so the end of the path closes a
cycle with a child in progress), that a child no longer to be visited is done or is
the next frame (so a popped node has done children only), and that the done nodes
are closed under dependencies and acyclic: `AcyclicExtends` shows that a node whose
dependencies all lie in such a set can join it. There is one lemma per action,
with `PushStep` shared by the two that enter a node and `AdvanceStep` by the two
that only take a child from its frame.

`GraphWiringProofs` proves of the composition, for every set of configurations and
documents, every set of libraries and any number of registrations, as
`WiringSpec => []...`:

* `WiringAcyclic`, `InputsFed`, `NodesServed`: what `Initialize` wires has no cycle, every
  input has a producer and every node a thread, with the exceptions of section 3;
* `RegistryCorrect`: no factory outlives its token;
* `ValidationCorrect`: `AcceptedIsAcyclic` and `CycleIsReal` of `ConfigValidator` hold in
  the composition too;
* `WiringTypeCorrect` and `WiringInvariance`, from which the others follow.

`WiringInv` has the validator's `SearchInv` and the registry's `RegistryInv` as parts: a
step of one component leaves the other's alone, so the lemmas of
`ConfigValidatorProofs` are used as they are. `RegistryFollowsTokens` needs that a
factory was registered under the name it is found by. `WiredAcyclic` needs that a
configuration being built was accepted (`BuiltIsAccepted`) and that the mirrors were
made from it (`WiredFromConfig`): each mirror of a node's output is then a dependency
that the validator has seen, so the node that `AcceptedIsAcyclic` finds in a set of nodes
is the one `WiredAcyclic` asks for. `EveryInputFed` needs what the check of the streams
has left behind (`SearchedIsConnected`), `EveryNodeServed` which executors were created
(`ExecutorsCreated`). Assumptions
(`WiringAssumption`, `RegistryAssumption`): documents have the shape `JsonParser` gives
them, options are closed under being overridden, the hardware has a concurrency in `Nat`,
registered types have names.

`SyncScheduleProofs` proves, for every graph, clock, number and size of intervals and
any number of calls from other threads, as `Spec => []...`:

* `ProfileComplete`, `ProfileTruthful`: the two properties of the profile;
* `ClosedOnce`: `ClosedOnceAtTheEnd`, the window of the overtaken `Cancel` included: in
  such a run a node is closed once or twice, and still none is processed after it;
* `SyncInvariance`: `SyncInv`, from which they follow.

The profile is right only between scopes; in a scope, time has passed that no datum
shows. `SyncInv` therefore says which scopes are open where `Schedule` is (`ScopesNest`),
when each was entered and which of them will record (`ScopesTimed`, `ProfilingOn`), and
that Open and Close of a node have been recorded at most once (`RecordedOnce`), since
they are assigned, not added. `ClosesCounted` counts the calls of `Close` of two threads:
those of `Schedule` below its index, and those of the thread that cancels below
`idleIndex`. `ClosesOnlyOvertaken` says where the second summand comes from. Until
`Schedule` overtakes it, that thread finds `state_` at `kCancelling` or `kTerminated`,
neither of which lets it close; once overtaken, `has_error_` is set before the first
source could be processed. `AddsUp` is kept by a sample because `Clamp` puts it into a
bucket that exists. Assumptions (`SyncScheduleAssumption`, `ProfilerAssumption`): node
names are distinct, which the validator checks; consumers are not sources; durations
are natural numbers; there is an interval, and it is not empty.

`StreamsProofs` proves first, for every range of at least eight integers and one
`InputStreamManager`:

* `BoundOnlyRises`: no operation of a manager lowers its bound, except `AddPackets` with a last packet older than the bound;
* `PoppedIsSettled`: once `PopPacketAtTimestamp` has answered for a timestamp the bound
  is past it;
* `NextAndPrevious`: the neighbours of a timestamp a packet may have undo each other;
* `CheckTimestampNeverFails`.

The only assumption is `TimestampAssumption`.

and on these facts, for every graph, every range of timestamps, any number of
producers and consumers, queue sizes, offsets and invocations, and all three policies:

* `StreamsLossless`: every packet sent is given, waits in the queue or is on its way, once
  and in order;
* `InputSetsAreSettled`: after an input set was filled for a timestamp, nothing up to that
  timestamp is left or comes;
* `ClosedIsExhausted`: a consumer told to close was given everything;
* `FullQueuesRecorded`: a full queue is on record, or about to be;
* `BoundsOnlyRise`: the action property `BoundsNeverRecede`;
* `StreamsTypeCorrect` and `StreamsInvariance`, from which they follow.

`StreamsInv` relates what three threads hold at once. `ProducerInv`: the updates a
producer has still to make are below the bound it has announced, and packets for a
mirror come with the first of them. `EdgeInv`: a queue is increasing and below its
producer's bound; behind a handler that waits for bounds, what is still on its way is
not older than the manager's bound, which in turn is not past the producer's, and the
packets in the queue lie between the last selected timestamp and the bound. This is
what makes a reader's decision safe although it reads manager after manager:
`ConsumerInv` says of a reading that it is still true or that the bound has advanced
beyond it (`ReadingOk`), so the minimum a reader computes from stale readings is still
a lower bound when it pops (`PopOk`). `StoppedInv`: once the last bound is past the end
of the stream the producer is through, so nothing follows a close. `Lossless` and
`FullIsRecorded` are inductive with these. TLAPS cannot instantiate the library's
induction theorems, so induction goes by sets: `NatSet` (a set that holds 0 and is
closed under successor holds every number) and `LeastNat` in `InductionLemmas`. With
them the recursions of `FlattenSeq` and of `FoldLeft` are derived from their definitions
(`IsFlat`, `IsFold`), and what an agenda still brings to an edge and what a shard holds
after its calls from these. The assumptions are `StreamsAssumption` (section 2) and
`TimestampAssumption`.

`GraphSchedulerProofs` proves, for every graph, every set of queues, any finite pools of
workers and any application threads with any scripts, as `Spec => []...`:

* `QueuesRefined`: `RefinesSchedulerQueue`. Each step of a graph is a step of
  `SchedulerQueue` or changes none of its variables, `pc`, `counting` and `sending` being
  read off the agendas;
* `QueuesTyped`, `GraphRespectsMaxInFlight`, `GraphIdleMeansQuiescent`,
  `GraphStrandsNoItem`: what `SchedulerQueueProofs` says therefore holds of a running graph;
* `OneThreadDecides`: of the threads inside `HandleIdle` at most one is past the guard
  `handling_idle_`, so no two drain the inputs, close the nodes or terminate at once;
* `TypeCorrect`: `TypeOK`.

They rest on `AgendaInv`, which says what an agenda can look like. A thread that submits
has `Count` and `Send`, or `Send`, in front (`SubmitForm`). `HandleIdle` is entered once
per thread and everything it decides is followed by an operation of it, at the latest
`Leave` (`IdleForm`); hence the counter `handling_idle_` is the number of threads inside,
and a second one cannot get past the guard while it is positive (`OneDecider`). A worker
inside `RunNode` has `OnTaskFinished` last, at most one `Process`, `Finalize` or
`DecrementPending` before it, and that of its node (`WorkerForm`), from which `pc` is
computed. Lemmas say what becomes of these forms when the next operation is replaced by
others (`AgendaStep`, `QuietStep`, `RunStep`, `InsideStep`); each action is then one case.
Assumptions: `GraphAssumption` and `ThreadsAssumption` (the constants have their types,
the sequences list every node and queue, an input port belongs to the edge's consumer,
threads are finitely many) and those of `QueueState`.

`GraphRunProofs` proves, under the same assumptions:

* `GraphIdleMeansDrained`: `IdleMeansDrained`. When every queue is idle no packet that a
  node emitted is left in an input stream.

The arrival callback fires only on an empty stream and `AddNode` drops a node at its
limit, so a packet may have nobody who was told of it. `DrainInv` says who will find it
all the same (`PacketsAttended`): while a consumer has a packet, an item for it is queued,
or some worker inside `RunNode` has still to execute `Process` or `Finalize` of this node,
its second look (`Reschedule`) or an `AddNode` for it; or the node has failed, or its queue
was cleaned up. When `AddNode` is dropped, `PendingAccounted` of `SchedulerQueueProofs`
gives an item or an invocation before `DecrementPending`, and `LookedAtAfter` says that
`DecrementPending` is followed by that second look unless Process returned an error.
`DeliveredInTasks`: packets of nodes are delivered by workers inside `RunNode` only, so a
queue with such a thread is not idle. `NothingRuns`: before `Start`, when `AddNode` finds no
queue, nothing is there to be lost but what the application has put in.

* `NodesClosedOnce`: `StraightRun => (Spec => []ClosedAtMostOnce)`: `CloseAllNodes` closes
  each node at most once, whichever threads reach the termination check and however often.
  `StraightRun` says that `all_nodes_` lists a node once, that `Start` is called at most
  once, and that the application calls none of `Cancel`, `Pause` and `Resume`. The
  hypothesis is needed: these calls assign `state_` without a lock, so `Cancel` can take a
  terminated graph back to `kCancelling`, and its own `HandleIdle` then closes the nodes a
  second time (TLC shows it with the scripts of `control`).

`CloseInv`: a thread that is still searching has no node to close (`CloseForm`), and while
one is between the test of `state_` and `CloseAllNodes` no node was closed yet; once one is
closed, either `state_` is `kTerminated` or the thread that closes them, of which there is
one at a time (`OneThreadDecides`), has still to set it; and nothing takes `state_` back
(`StraightAhead`).

* `DoneBehindInputs`, `NothingAfterDone`, `OutputsReachMirrors`: under `OrderlyRun`,
  `Spec` implies `[]DoneFollowsInputs`, `DoneIsFinal` and `[]NoOutputDropped`. A node's
  outputs are Done only once its inputs are done and drained and `RunNode` has finalized
  it; nothing arrives on a stream after Done; `PostProcess` never meets a closed output.

`OrderlyRun` restricts the constants: every node runs one invocation at a time, none but
an empty source returns Stop and none an error, an input stream has one producer (`Initialize`
keeps one per name in `output_by_stream`), and a graph input is filled and closed by one
application thread. The instances of `drain`, `inputs` and `control` satisfy it. TLC shows
what happens without each of these conditions: with `MaxInFlight` 2 an invocation sends
packets after another one closed the outputs (`DoneIsFinal` fails); a consumer that stops
closes its outputs with inputs still open (`DoneFollowsInputs` fails); an invocation that
was still queued when the node closed its outputs, and returns an error, may have emitted
before it (`NoOutputDropped` fails); the Done of one of two producers would precede the
packets of the other, and a packet added by one thread may arrive after the Done of another
thread's `CloseInputStream` (`DoneIsFinal` fails both times).

`FlowInv` follows Done from the node that closes to the stream. Nothing is Done before its
producer is through (`DoneBehind`: finalized, or a source without packets), and every
operation on an agenda that closes or marks a stream is of such a producer (`OpsFit`). What
still emits for a producer lies on the agenda of the one thread that may (`EmittersFit`:
the worker that has `Finalize` of the node ahead, or the thread that owns the graph input),
so no thread emits for a producer while another closes it (`NotBoth`). That a finalized
node has nothing left to emit is the point of the second invocation `RunNode` schedules:
whoever runs a node that has observed its inputs done pops no packet and sees every input
done (`SeenFits`), and the invocation that flushes came before (`ObservedFit`). One
invocation at a time (`RunsOnce`) is what `GraphRespectsMaxInFlight` says of the queues.
TLC finds `FlowInv` true on the three instances.

Only model-checked:

* `TerminatedMeansFinalized`, `EveryPacketConsumed`, `NoProcessAfterClose` and
  `ErrorKnownAtClose` of `GraphScheduler`, which are not true of every graph: with two
  queues (`two_queues`), or when a second application thread adds a packet between
  `IsIdle` and the decision of `HandleIdle`, a graph terminates with work under way, and
  an error is recorded on the default queue only;
* `TypeOK` and `ReportMatchesFiles` of `ProfileReport`, which compare what a recursive
  reader makes of a file with what was written;
* all liveness, which TLAPS cannot prove.

## 5. Not modelled, and the plan

Not modelled: tag maps and names, the logger (data and output, nothing happens over
time); `WaitForIdle`, which waits for a predicate that no notification announces; the
destructor of `ThreadPoolExecutor`, which drains and joins; `UnthrottleSources` and `SetSpec`, which have no caller; the templates
of `OptionsRegistry`; output callbacks; the tables, filters and comparisons of the
reporter, which are formatting.

Hazards listed in `PROJECT.json` without a property say there why.

Next:

1. An abstract life cycle (not started, running, closing, terminated) that
   `GraphScheduler` implements on one queue.
2. What is left of `DoneFollowsInputs` and `NoOutputDropped` for nodes with `MaxInFlight`
   above one, and for nodes that stop or fail.
