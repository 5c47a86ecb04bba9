----------------------------- MODULE QueueState -----------------------------
(***************************************************************************)
(* The shared state of the SchedulerQueue objects of one graph, of the     *)
(* executor behind each of them and of the in-flight counter of each Node, *)
(* with one operator per critical section of                               *)
(*     graph_runtime/src/framework/scheduler/scheduler_queue.{h,cc}.       *)
(* The threads that execute these sections, and in which order, are the    *)
(* business of the modules that extend this one: SchedulerQueue (a queue   *)
(* under an arbitrary environment) and GraphScheduler (the whole graph).   *)
(***************************************************************************)
EXTENDS Integers

CONSTANTS
    Nodes,         \* the nodes of the graph
    Queues,        \* the SchedulerQueue objects
    WithExecutor,  \* the queues whose executor_ is set
    QueueOf,       \* node -> queue it was assigned to (AssignNodeToQueue)
    MaxInFlight,   \* node -> NodeContract::MaxInFlight()
    Sources,       \* the nodes without an input port
    Layer,         \* node -> SourceLayer()
    NodeId         \* node -> its address, the tie-breaker of Item::operator<

ASSUME QueueOfAssumption == QueueOf \in [Nodes -> Queues]
ASSUME WithExecutorAssumption == WithExecutor \subseteq Queues
ASSUME MaxInFlightAssumption == MaxInFlight \in [Nodes -> Nat \ {0}]
ASSUME SourcesAssumption == Sources \subseteq Nodes
ASSUME ItemAssumption ==
    /\ Layer \in [Nodes -> Int]
    /\ NodeId \in [Nodes -> Int]
    /\ \A m, n \in Nodes : NodeId[m] = NodeId[n] => m = n

Unbounded == -1        \* in place of a bound: there is none

VARIABLES
    queue,         \* queue_: node -> how many items of it are queued
    pendingCount,  \* Node::pending_count_
    numPending,    \* queue -> num_pending_tasks_
    running,       \* queue -> running_
    tasks          \* queue -> RunNextTask tasks waiting in its executor

queueVars == <<queue, pendingCount, numPending, running, tasks>>

QueueTypeOK ==
    /\ queue \in [Nodes -> Nat]
    /\ pendingCount \in [Nodes -> Nat]
    /\ numPending \in [Queues -> Nat]
    /\ running \in [Queues -> BOOLEAN]
    /\ tasks \in [Queues -> Nat]

QueueInit ==
    /\ queue = [n \in Nodes |-> 0]
    /\ pendingCount = [n \in Nodes |-> 0]
    /\ numPending = [q \in Queues |-> 0]
    /\ running = [q \in Queues |-> FALSE]
    /\ tasks = [q \in Queues |-> 0]

-----------------------------------------------------------------------------
(* The order of the priority queue.                                        *)

\* SchedulerQueue::Item as AddNode fills it in.
Item(n) == [open   |-> FALSE,
            source |-> n \in Sources,
            layer  |-> Layer[n],
            id     |-> NodeId[n]]

\* Item::operator<; std::priority_queue pops a maximal item first.
ItemLess(a, b) ==
    IF a.open # b.open THEN b.open
    ELSE IF a.source # b.source THEN b.source
    ELSE IF a.source
         THEN IF a.layer # b.layer THEN a.layer > b.layer ELSE a.id > b.id
         ELSE a.id < b.id

NodesOf(q) == {n \in Nodes : QueueOf[n] = q}

\* The nodes with an item in q; queue_.empty() is Queued(q) = {}.
Queued(q) == {n \in NodesOf(q) : queue[n] > 0}

\* queue_.top() is an item of node n.
IsTop(q, n) ==
    /\ n \in Queued(q)
    /\ \A m \in Queued(q) : ~ ItemLess(Item(n), Item(m))

MutIsIdleQueueOnly(q) == Queued(q) = {}

\* SchedulerQueue::IsIdle.
IsIdle(q) == Queued(q) = {} /\ numPending[q] = 0

-----------------------------------------------------------------------------
(* Critical sections.                                                      *)

MutAtLimitOffByOne(n) == pendingCount[n] > MaxInFlight[n]

\* AddNode's early return: the node is at its concurrency limit.
AtLimit(n) == pendingCount[n] >= MaxInFlight[n]

\* AddNode's critical section past the gate.
PushItem(n) ==
    /\ ~ AtLimit(n)
    /\ pendingCount' = [pendingCount EXCEPT ![n] = @ + 1]
    /\ queue' = [queue EXCEPT ![n] = @ + 1]
    /\ UNCHANGED <<numPending, running, tasks>>

MutCountTaskNot(q) == UNCHANGED <<queue, pendingCount, numPending, running, tasks>>

\* SubmitToExecutor, the locked increment.
CountTask(q) ==
    /\ numPending' = [numPending EXCEPT ![q] = @ + 1]
    /\ UNCHANGED <<queue, pendingCount, running, tasks>>

\* SubmitToExecutor, Executor::AddTask and ThreadPool::Schedule.
ScheduleTask(q) ==
    /\ tasks' = [tasks EXCEPT ![q] = @ + 1]
    /\ UNCHANGED <<queue, pendingCount, numPending, running>>

\* A ThreadPool worker takes the task at the front of tasks_.
DequeueTask(q) ==
    /\ tasks[q] > 0
    /\ tasks' = [tasks EXCEPT ![q] = @ - 1]
    /\ UNCHANGED <<queue, pendingCount, numPending, running>>

\* TryPop when it returns true.
PopItem(n) ==
    /\ IsTop(QueueOf[n], n)
    /\ queue' = [queue EXCEPT ![n] = @ - 1]
    /\ UNCHANGED <<pendingCount, numPending, running, tasks>>

MutUncountTaskUnclamped(q) ==
    /\ numPending' = [numPending EXCEPT ![q] = @ - 1]
    /\ UNCHANGED <<queue, pendingCount, running, tasks>>

\* The end of a task, in RunNextTask or OnTaskFinished: the clamped decrement.
UncountTask(q) ==
    /\ numPending' = [numPending EXCEPT ![q] = IF @ > 0 THEN @ - 1 ELSE @]
    /\ UNCHANGED <<queue, pendingCount, running, tasks>>

MutDecrementPendingTwice(n) ==
    /\ pendingCount' = [pendingCount EXCEPT ![n] = @ - 2]
    /\ UNCHANGED <<queue, numPending, running, tasks>>

\* Node::DecrementPending.
DecrementPending(n) ==
    /\ pendingCount' = [pendingCount EXCEPT ![n] = @ - 1]
    /\ UNCHANGED <<queue, numPending, running, tasks>>

\* SetRunning's critical section.
AssignRunning(q, b) ==
    /\ running' = [running EXCEPT ![q] = b]
    /\ UNCHANGED <<queue, pendingCount, numPending, tasks>>

\* CleanupAfterRun. The pendingCount of the dropped items is not restored.
CleanupAfterRun(q) ==
    /\ queue' = [n \in Nodes |-> IF QueueOf[n] = q THEN 0 ELSE queue[n]]
    /\ numPending' = [numPending EXCEPT ![q] = 0]
    /\ running' = [running EXCEPT ![q] = FALSE]
    /\ UNCHANGED <<pendingCount, tasks>>

=============================================================================
