--------------------------- MODULE SchedulerQueue ---------------------------
(***************************************************************************)
(* The scheduler queues of a graph under an arbitrary environment.         *)
(*                                                                         *)
(* Threads are the workers of the executors' thread pools and any number   *)
(* of client threads (the application, or whoever calls Pause, Resume and  *)
(* Shutdown).  A worker runs RunNextTask over and over; what RunNode does  *)
(* to the queues while it executes a node is left open: it may call        *)
(* AddNode for any node, any number of times, before and after the node's  *)
(* DecrementPending.  So may the idle callback, and so may clients.        *)
(* Everything the rest of the program does to a SchedulerQueue is one of   *)
(* these calls, so what holds here holds for every graph.                  *)
(***************************************************************************)
EXTENDS QueueState, FiniteSets

CONSTANTS
    Workers,       \* the threads of the executors' pools
    Clients,       \* the other threads
    WorkerQueue,   \* worker -> the queue its executor serves
    MaxTasks,      \* bound: the environment calls only while fewer tasks wait, or Unbounded
    NoNode,        \* a value that is no node
    NoQueue        \* a value that is no queue

ASSUME WorkersAssumption ==
    /\ IsFiniteSet(Workers)
    /\ IsFiniteSet(Clients)
    /\ Workers \cap Clients = {}
    /\ WorkerQueue \in [Workers -> Queues]
ASSUME NullAssumption == NoNode \notin Nodes /\ NoQueue \notin Queues
ASSUME MaxTasksAssumption == MaxTasks \in Nat \cup {Unbounded}

Threads == Workers \cup Clients

VARIABLES
    pc,            \* worker -> where it is in RunNextTask
    cur,           \* worker -> the node it runs
    counting,      \* thread -> the queue it is about to count a task for
    sending,       \* thread -> the queue it is about to send a task for
    cleaned        \* history: the queues CleanupAfterRun was called on

threadVars == <<pc, cur, counting, sending>>
vars == <<queueVars, threadVars, cleaned>>

\* The program points of a worker:
\*   "wait"  in ThreadPool's loop, waiting for a task
\*   "pop"   has the task, before TryPop
\*   "empty" TryPop returned false, before the decrement
\*   "run"   inside RunNode, before DecrementPending
\*   "post"  inside RunNode, after DecrementPending
\*   "idle"  in UpdateIdleState, that is in the idle callback
Points == {"wait", "pop", "empty", "run", "post", "idle"}

\* Every variable has its type; the counters pending_count_ and
\* num_pending_tasks_ are never negative, late decrements included.
TypeOK ==
    /\ QueueTypeOK
    /\ pc \in [Workers -> Points]
    /\ cur \in [Workers -> Nodes \cup {NoNode}]
    /\ counting \in [Threads -> Queues \cup {NoQueue}]
    /\ sending \in [Threads -> Queues \cup {NoQueue}]
    /\ cleaned \subseteq Queues

Init ==
    /\ QueueInit
    /\ pc = [w \in Workers |-> "wait"]
    /\ cur = [w \in Workers |-> NoNode]
    /\ counting = [t \in Threads |-> NoQueue]
    /\ sending = [t \in Threads |-> NoQueue]
    /\ cleaned = {}

-----------------------------------------------------------------------------
(* SubmitToExecutor, by any thread.                                        *)

\* A critical section ends with should_submit = b: thread t enters
\* SubmitToExecutor, which does nothing on a queue without executor.
Submit(t, b, q) ==
    counting' = [counting EXCEPT ![t] =
                    IF b /\ q \in WithExecutor THEN q ELSE NoQueue]

Count(t) ==
    /\ counting[t] # NoQueue
    /\ CountTask(counting[t])
    /\ sending' = [sending EXCEPT ![t] = counting[t]]
    /\ counting' = [counting EXCEPT ![t] = NoQueue]
    /\ UNCHANGED <<pc, cur, cleaned>>

Send(t) ==
    /\ sending[t] # NoQueue
    /\ ScheduleTask(sending[t])
    /\ sending' = [sending EXCEPT ![t] = NoQueue]
    /\ UNCHANGED <<pc, cur, counting, cleaned>>

-----------------------------------------------------------------------------
(* Calls from outside the module: AddNode and the control calls.           *)

Submitting(t) == counting[t] # NoQueue \/ sending[t] # NoQueue

\* Thread t is in code that may call into queue q.
MayCall(t, q) ==
    /\ ~ Submitting(t)
    /\ t \in Workers => pc[t] \in {"run", "post", "idle"}
    /\ MaxTasks = Unbounded \/ (tasks[q] < MaxTasks /\ numPending[q] < MaxTasks)

\* should_submit = running_, read inside the critical section.
AddNode(t, n) ==
    /\ MayCall(t, QueueOf[n])
    /\ PushItem(n)
    /\ Submit(t, running[QueueOf[n]], QueueOf[n])
    /\ UNCHANGED <<pc, cur, sending, cleaned>>

MutSetRunningNoSubmit(t, q, b) ==
    /\ MayCall(t, q)
    /\ AssignRunning(q, b)
    /\ UNCHANGED <<threadVars, cleaned>>

SetRunning(t, q, b) ==
    /\ MayCall(t, q)
    /\ AssignRunning(q, b)
    /\ Submit(t, b /\ Queued(q) # {}, q)
    /\ UNCHANGED <<pc, cur, sending, cleaned>>

SubmitWaitingTasksToExecutor(t, q) ==
    /\ MayCall(t, q)
    /\ Submit(t, running[q] /\ Queued(q) # {}, q)
    /\ UNCHANGED <<queueVars, pc, cur, sending, cleaned>>

Cleanup(t, q) ==
    /\ MayCall(t, q)
    /\ CleanupAfterRun(q)
    /\ cleaned' = cleaned \cup {q}
    /\ UNCHANGED threadVars

-----------------------------------------------------------------------------
(* RunNextTask, by worker w.                                               *)

TakeTask(w) ==
    /\ pc[w] = "wait"
    /\ DequeueTask(WorkerQueue[w])
    /\ pc' = [pc EXCEPT ![w] = "pop"]
    /\ UNCHANGED <<cur, counting, sending, cleaned>>

TryPop(w) ==
    /\ pc[w] = "pop"
    /\ \E n \in NodesOf(WorkerQueue[w]) :
        /\ PopItem(n)
        /\ cur' = [cur EXCEPT ![w] = n]
    /\ pc' = [pc EXCEPT ![w] = "run"]
    /\ UNCHANGED <<counting, sending, cleaned>>

TryPopFails(w) ==
    /\ pc[w] = "pop"
    /\ Queued(WorkerQueue[w]) = {}
    /\ pc' = [pc EXCEPT ![w] = "empty"]
    /\ UNCHANGED <<queueVars, cur, counting, sending, cleaned>>

\* RunNode reaches node->DecrementPending().
EndProcess(w) ==
    /\ pc[w] = "run"
    /\ ~ Submitting(w)
    /\ DecrementPending(cur[w])
    /\ pc' = [pc EXCEPT ![w] = "post"]
    /\ UNCHANGED <<cur, counting, sending, cleaned>>

MutOnTaskFinishedNoSubmit(w) ==
    /\ pc[w] = "post"
    /\ ~ Submitting(w)
    /\ UncountTask(WorkerQueue[w])
    /\ pc' = [pc EXCEPT ![w] = "idle"]
    /\ cur' = [cur EXCEPT ![w] = NoNode]
    /\ UNCHANGED <<counting, sending, cleaned>>

\* OnTaskFinished up to UpdateIdleState.
OnTaskFinished(w) ==
    /\ pc[w] = "post"
    /\ ~ Submitting(w)
    /\ LET q == WorkerQueue[w] IN
       /\ UncountTask(q)
       /\ Submit(w, running[q] /\ Queued(q) # {}, q)
    /\ pc' = [pc EXCEPT ![w] = "idle"]
    /\ cur' = [cur EXCEPT ![w] = NoNode]
    /\ UNCHANGED <<sending, cleaned>>

\* RunNextTask when there was no work item.
NoItem(w) ==
    /\ pc[w] = "empty"
    /\ UncountTask(WorkerQueue[w])
    /\ pc' = [pc EXCEPT ![w] = "idle"]
    /\ UNCHANGED <<cur, counting, sending, cleaned>>

\* The idle callback returns and the worker goes back to its pool.
EndIdle(w) ==
    /\ pc[w] = "idle"
    /\ ~ Submitting(w)
    /\ pc' = [pc EXCEPT ![w] = "wait"]
    /\ UNCHANGED <<queueVars, cur, counting, sending, cleaned>>

-----------------------------------------------------------------------------
Call(t) ==
    \/ \E n \in Nodes : AddNode(t, n)
    \/ \E q \in Queues :
        \/ \E b \in BOOLEAN : SetRunning(t, q, b)
        \/ SubmitWaitingTasksToExecutor(t, q)
        \/ Cleanup(t, q)

WorkerStep(w) ==
    \/ TakeTask(w)
    \/ TryPop(w)
    \/ TryPopFails(w)
    \/ EndProcess(w)
    \/ OnTaskFinished(w)
    \/ NoItem(w)
    \/ EndIdle(w)

Next ==
    \/ \E t \in Threads : Count(t) \/ Send(t) \/ Call(t)
    \/ \E w \in Workers : WorkerStep(w)

\* Nothing forces a thread to call, and nothing but the code above to go on:
\* a thread inside SubmitToExecutor does, and a worker does, because its
\* pool's condition variable wakes it when a task waits and Process returns.
Fairness ==
    /\ \A t \in Threads : WF_vars(Count(t)) /\ WF_vars(Send(t))
    /\ \A w \in Workers : WF_vars(TakeTask(w)) /\ WF_vars(TryPop(w) \/ TryPopFails(w))
    /\ \A w \in Workers : SF_vars(EndProcess(w)) /\ SF_vars(OnTaskFinished(w))
                          /\ WF_vars(NoItem(w)) /\ SF_vars(EndIdle(w))

Spec == Init /\ [][Next]_vars

FairSpec == Spec /\ Fairness

-----------------------------------------------------------------------------
(* Properties.                                                             *)

\* The workers between TryPop and DecrementPending of node n.
InFlight(n) == {w \in Workers : pc[w] = "run" /\ cur[w] = n}

\* A node never executes more invocations of Process at once than its
\* contract allows, however AddNode calls race with workers and clean-ups
\* (the gate in SchedulerQueue::AddNode).
MaxInFlightRespected ==
    \A n \in Nodes : Cardinality(InFlight(n)) <= MaxInFlight[n]

\* The workers that hold a task of queue q which num_pending_tasks_ counts.
Holding(q) ==
    {w \in Workers : WorkerQueue[w] = q /\ pc[w] \in {"pop", "empty", "run", "post"}}

\* The threads between the increment and AddTask.
Sending(q) == {t \in Threads : sending[t] = q}

\* SchedulerQueue::IsIdle, on which termination detection rests, is never
\* true while one of the queue's tasks waits in the executor or is held by a
\* worker, unless CleanupAfterRun has reset the counter under their feet.
IdleMeansQuiescent ==
    \A q \in Queues \ cleaned :
        IsIdle(q) => tasks[q] = 0 /\ Holding(q) = {} /\ Sending(q) = {}

\* A queue that is running and holds an item always has somebody who will
\* look at it: a task, a worker that has not yet re-examined the queue in
\* OnTaskFinished, or a thread about to submit.  AddNode submits only when
\* running_, SetRunning submits one task for any number of items, so this
\* rests on every finished task re-examining the queue.
NoStrandedItem ==
    \A q \in WithExecutor :
        running[q] /\ Queued(q) # {} =>
            \/ tasks[q] > 0
            \/ \E w \in Workers : WorkerQueue[w] = q /\ pc[w] \in {"pop", "run", "post"}
            \/ \E t \in Threads : q \in {counting[t], sending[t]}

\* A running queue that holds an item eventually executes one: some worker
\* of the queue enters RunNode, unless the queue is stopped or emptied.
\* (Which item is the business of the priority order.)
RunningQueueProgresses ==
    \A q \in WithExecutor :
        running[q] /\ Queued(q) # {} ~>
            \/ ~ running[q]
            \/ Queued(q) = {}
            \/ \E w \in Workers : WorkerQueue[w] = q /\ pc[w] = "run"

-----------------------------------------------------------------------------
(* The inductive invariant behind MaxInFlightRespected, IdleMeansQuiescent *)
(* and NoStrandedItem.                                                     *)

\* A worker inside RunNode runs a node of its own queue.
RunsOwnNode ==
    \A w \in Workers :
        pc[w] \in {"run", "post"} => cur[w] \in NodesOf(WorkerQueue[w])

\* A thread is never at both steps of SubmitToExecutor.
OneSubmitStep == \A t \in Threads : counting[t] = NoQueue \/ sending[t] = NoQueue

\* pending_count_ is the number of queued items and of invocations under way,
\* and never exceeds MaxInFlight.  After CleanupAfterRun, which drops items
\* without decrementing it, it may exceed their number.
PendingAccounted ==
    \A n \in Nodes :
        LET underway == queue[n] + Cardinality(InFlight(n))
        IN  /\ underway <= pendingCount[n]
            /\ pendingCount[n] <= MaxInFlight[n]
            /\ QueueOf[n] \notin cleaned => pendingCount[n] = underway

\* num_pending_tasks_ is the number of tasks sent, waiting or held; after
\* CleanupAfterRun it may fall short of that number but never exceeds it.
TasksAccounted ==
    \A q \in Queues :
        LET outstanding == tasks[q] + Cardinality(Holding(q)) + Cardinality(Sending(q))
        IN  /\ numPending[q] <= outstanding
            /\ q \notin cleaned => numPending[q] = outstanding

\* What every step of the queues preserves: pending_count_ and
\* num_pending_tasks_ account for every queued item, running invocation and
\* outstanding task, and no item of a running queue is stranded.
IndInv ==
    /\ TypeOK
    /\ RunsOwnNode
    /\ OneSubmitStep
    /\ PendingAccounted
    /\ TasksAccounted
    /\ NoStrandedItem

=============================================================================
