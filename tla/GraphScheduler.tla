--------------------------- MODULE GraphScheduler ---------------------------
(***************************************************************************)
(* A running graph: the Scheduler, its queues and their workers, the       *)
(* streams between the nodes, and the application threads that drive it    *)
(* through GraphRuntime.  Translated from graph_runtime/src/framework/     *)
(*     scheduler/scheduler.cc, scheduler/scheduler_queue.cc,               *)
(*     stream/{input,output}_stream_manager.cc,                            *)
(*     stream/output_stream_handler.cc and public/graph_runtime.cc.        *)
(*                                                                         *)
(* Each thread has an agenda: the operations it still has to execute, the  *)
(* next one first.  An operation is what the code does between two points  *)
(* where another thread can see or change the state: a critical section,   *)
(* an access to an atomic or to an unprotected member.  Executing one may  *)
(* put others in front of the rest, as a call does.                        *)
(*                                                                         *)
(* A packet is a unit in a count: no property here tells packets apart.    *)
(* The timestamp bound of a stream is abstracted to "it is Done".          *)
(***************************************************************************)
EXTENDS QueueState, SequencesExt

CONSTANTS
    AllNodes,      \* all_nodes_, a sequence in the order of the config
    AllQueues,     \* all_queues_, a sequence; the first is default_queue_
    Workers,       \* the threads of the executors' pools
    WorkerQueue,   \* worker -> the queue its executor serves
    Apps,          \* the application threads
    Scripts,       \* the scripts they may follow: app thread -> sequence of calls
    GraphInputs,   \* config.input_streams
    Edges,         \* the InputStreamManagers, one per node and input stream
    Consumer,      \* edge -> the node that owns it
    InputPorts,    \* node -> its edges, a sequence in the order of the ports
    Mirrors,       \* node or graph input -> the edges its output fans out to
    Supply,        \* source -> how many packets it emits before it stops
    Flushers,      \* nodes that emit a packet when they observe input-done
    MayStop,       \* consumers that may return Stop
    MayFail,       \* nodes whose Process may return an error
    HasErrorCb,    \* an error callback was registered
    NoNode,        \* a value that is no node
    NoQueue        \* a value that is no queue

Threads == Workers \cup Apps
Producers == Nodes \cup GraphInputs
DefaultQueue == AllQueues[1]

\* The calls an application thread makes; Start carries the nodes whose Open
\* returns an error.
CallsOfApps ==
    ({"Start"} \X SUBSET Nodes) \cup ({"AddPacket", "CloseInput"} \X GraphInputs)
    \cup {<<c>> : c \in {"Cancel", "Pause", "Resume", "Shutdown", "Wait"}}

ASSUME GraphAssumption ==
    /\ AllNodes \in Seq(Nodes) \ {<<>>}
    /\ {AllNodes[i] : i \in 1..Len(AllNodes)} = Nodes
    /\ AllQueues \in Seq(Queues) \ {<<>>}
    /\ {AllQueues[i] : i \in 1..Len(AllQueues)} = Queues
    /\ Consumer \in [Edges -> Nodes]
    /\ InputPorts \in [Nodes -> Seq(Edges)]
    /\ Mirrors \in [Producers -> Seq(Edges)]
    /\ \A n \in Nodes : n \in Sources <=> InputPorts[n] = <<>>
    /\ \A n \in Nodes : \A i \in 1..Len(InputPorts[n]) : Consumer[InputPorts[n][i]] = n
    /\ Supply \in [Sources -> Nat]
    /\ MayStop \cap Sources = {}
    /\ HasErrorCb \in BOOLEAN

ASSUME ThreadsAssumption ==
    /\ IsFiniteSet(Workers) /\ IsFiniteSet(Apps)
    /\ Workers \cap Apps = {}
    /\ WorkerQueue \in [Workers -> Queues]
    /\ Scripts \subseteq [Apps -> Seq(CallsOfApps)]
    /\ NoNode \notin Nodes /\ NoQueue \notin Queues

VARIABLES
    agenda,        \* thread -> the operations it has still to execute
    script,        \* app thread -> the calls it has still to make
    blocked,       \* the threads blocked in WaitUntilDone's cv_.wait
    cur,           \* worker -> the node it runs
    seen,          \* worker -> what this invocation popped: packets, done flags
    len,           \* edge -> packets in the InputStreamManager
    done,          \* edge -> its timestamp bound is Timestamp::Done()
    outDone,       \* the producers whose OutputStreamManager's bound is Done
    outClosed,     \* the producers whose OutputStreamManager is closed
    supply,        \* source -> packets it has still to emit
    closePending,  \* close_pending_
    finalized,     \* finalized_nodes_
    state,         \* state_
    hasError,      \* has_error_
    handlingIdle,  \* handling_idle_
    activeSources, \* active_sources_
    closedInputs,  \* the graph inputs counted in num_closed_graph_input_streams_
    doneRuns,      \* history: node -> invocations that saw every input done, up to 2
    taken,         \* history: edge -> packets popped from it
    closes,        \* history: node -> calls of Close
    failed,        \* history: the nodes whose Process returned an error
    cleaned        \* history: the queues CleanupAfterRun was called on

threadVars == <<agenda, script, blocked, cur, seen>>
streamVars == <<len, done, outDone, outClosed, supply>>
finalVars == <<closePending, finalized>>
schedVars == <<state, hasError, handlingIdle, activeSources, closedInputs>>
historyVars == <<doneRuns, taken, closes, failed, cleaned>>
vars == <<queueVars, threadVars, streamVars, finalVars, schedVars, historyVars>>

Ports(n) == {InputPorts[n][i] : i \in 1..Len(InputPorts[n])}

NoneSeen == [packets |-> {}, done |-> {}]

Init ==
    /\ QueueInit
    /\ agenda = [t \in Threads |-> <<>>]
    /\ script \in Scripts
    /\ blocked = {}
    /\ cur = [w \in Workers |-> NoNode]
    /\ seen = [w \in Workers |-> NoneSeen]
    /\ len = [e \in Edges |-> 0]
    /\ done = [e \in Edges |-> FALSE]
    /\ outDone = {}
    /\ outClosed = {}
    /\ supply = Supply
    /\ closePending = {}
    /\ finalized = {}
    /\ state = "NotStarted"
    /\ hasError = FALSE
    /\ handlingIdle = 0
    /\ activeSources = {}
    /\ closedInputs = {}
    /\ doneRuns = [n \in Nodes |-> 0]
    /\ taken = [e \in Edges |-> 0]
    /\ closes = [n \in Nodes |-> 0]
    /\ failed = {}
    /\ cleaned = {}

-----------------------------------------------------------------------------
(* Agendas.                                                                *)

\* The next operation of t is op; its arguments are Arg(t, 2), Arg(t, 3)...
At(t, op) == agenda[t] # <<>> /\ Head(agenda[t])[1] = op
Arg(t, i) == Head(agenda[t])[i]

\* t has executed its next operation and goes on with ops first.
Then(t, ops) == agenda' = [agenda EXCEPT ![t] = ops \o Tail(@)]

Each(op, args) == [i \in 1..Len(args) |-> <<op, args[i]>>]
If(b, ops) == IF b THEN ops ELSE <<>>
\* op for those of args that are in S.
EachIn(op, args, S) ==
    FlattenSeq([i \in 1..Len(args) |-> If(args[i] \in S, << <<op, args[i]>> >>)])

AddNodeOp(n) == << <<"AddNode", n>> >>
SubmitOps(q) == If(q \in WithExecutor, << <<"Count", q>>, <<"Send", q>> >>)
LeaveOp == << <<"Leave">> >>
HandleIdleOps == << <<"Enter", FALSE>> >>
\* The idle and source-stopped callbacks: cv_.notify_all() and HandleIdle().
IdleCallbackOps == << <<"Enter", TRUE>> >>
\* OutputStreamHandler::Close: Done to every mirror, then OutputStreamManager::Close.
CloseOutputOps(p) == << <<"BoundDone", p>>, <<"CloseManager", p>> >>

-----------------------------------------------------------------------------
(* SchedulerQueue: AddNode and SubmitToExecutor.                           *)

\* Before Start assigns the nodes to queues, an arrival callback finds no
\* queue; past the MaxInFlight gate, AddNode submits iff the queue runs.
AddNode(t) ==
    /\ At(t, "AddNode")
    /\ LET n == Arg(t, 2) IN
       \/ /\ state = "NotStarted" \/ AtLimit(n)
          /\ Then(t, <<>>)
          /\ UNCHANGED queueVars
       \/ /\ state # "NotStarted"
          /\ PushItem(n)
          /\ Then(t, If(running[QueueOf[n]], SubmitOps(QueueOf[n])))
    /\ UNCHANGED <<script, blocked, cur, seen, streamVars, finalVars, schedVars, historyVars>>

SubmitToExecutor(t) ==
    /\ \/ At(t, "Count") /\ CountTask(Arg(t, 2))
       \/ At(t, "Send") /\ ScheduleTask(Arg(t, 2))
    /\ Then(t, <<>>)
    /\ UNCHANGED <<script, blocked, cur, seen, streamVars, finalVars, schedVars, historyVars>>

SetRunning(t) ==
    /\ At(t, "SetRunning")
    /\ LET q == Arg(t, 2)
           b == Arg(t, 3)
       IN  /\ AssignRunning(q, b)
           /\ Then(t, If(b /\ Queued(q) # {}, SubmitOps(q)))
    /\ UNCHANGED <<script, blocked, cur, seen, streamVars, finalVars, schedVars, historyVars>>

SubmitWaiting(t) ==
    /\ At(t, "SubmitWaiting")
    /\ LET q == Arg(t, 2) IN Then(t, If(running[q] /\ Queued(q) # {}, SubmitOps(q)))
    /\ UNCHANGED <<queueVars, script, blocked, cur, seen, streamVars, finalVars, schedVars,
                   historyVars>>

Cleanup(t) ==
    /\ At(t, "Cleanup")
    /\ CleanupAfterRun(Arg(t, 2))
    /\ cleaned' = cleaned \cup {Arg(t, 2)}
    /\ Then(t, <<>>)
    /\ UNCHANGED <<script, blocked, cur, seen, streamVars, finalVars, schedVars, doneRuns,
                   taken, closes, failed>>

-----------------------------------------------------------------------------
(* Streams.                                                                *)

\* InputStreamManager::AddPackets and MovePackets of k packets: the bound
\* becomes that of the last packet, and the arrival callback is called only
\* if the queue was empty.
AddPackets(t) ==
    /\ At(t, "AddPackets")
    /\ LET e == Arg(t, 2)
           k == Arg(t, 3)
       IN  /\ len' = [len EXCEPT ![e] = @ + k]
           /\ done' = [done EXCEPT ![e] = FALSE]
           /\ Then(t, If(len[e] = 0, AddNodeOp(Consumer[e])))
    /\ UNCHANGED <<queueVars, script, blocked, cur, seen, outDone, outClosed, supply,
                   finalVars, schedVars, historyVars>>

\* InputStreamManager::SetNextTimestampBound(Timestamp::Done()).
SetDone(t) ==
    /\ At(t, "SetDone")
    /\ LET e == Arg(t, 2) IN
       /\ done' = [done EXCEPT ![e] = TRUE]
       /\ Then(t, If(~ done[e], AddNodeOp(Consumer[e])))
    /\ UNCHANGED <<queueVars, script, blocked, cur, seen, len, outDone, outClosed, supply,
                   finalVars, schedVars, historyVars>>

\* The packets are moved to the first mirror, and the others get none.
MutPropagateOpsMovesFirst(p, k) ==
    If(k > 0 /\ Mirrors[p] # <<>>, << <<"AddPackets", Mirrors[p][1], k>> >>)

\* PropagateUpdatesToMirrors of k packets by producer p.  The bound of a
\* packet reaches the mirrors with the packet; once the manager's bound is
\* Done it differs from the packet's and follows it.
PropagateOps(p, k) ==
    FlattenSeq([i \in 1..Len(Mirrors[p]) |->
                  If(k > 0, << <<"AddPackets", Mirrors[p][i], k>> >>)
                  \o If(p \in outDone, << <<"SetDone", Mirrors[p][i]>> >>)])

\* OutputStreamHandler::PostProcess: a closed manager is skipped.
PostProcess(t) ==
    /\ At(t, "PostProcess")
    /\ LET p == Arg(t, 2)
           k == Arg(t, 3)
       IN  Then(t, If(p \notin outClosed, PropagateOps(p, k)))
    /\ UNCHANGED <<queueVars, script, blocked, cur, seen, streamVars, finalVars, schedVars,
                   historyVars>>

\* PropagateUpdatesToMirrors(Timestamp::Done()) without packets.
BoundDone(t) ==
    /\ At(t, "BoundDone")
    /\ LET p == Arg(t, 2) IN
       /\ outDone' = outDone \cup {p}
       /\ Then(t, Each("SetDone", Mirrors[p]))
    /\ UNCHANGED <<queueVars, script, blocked, cur, seen, len, done, outClosed, supply,
                   finalVars, schedVars, historyVars>>

\* OutputStreamManager::Close.
CloseManager(t) ==
    /\ At(t, "CloseManager")
    /\ LET p == Arg(t, 2) IN
       /\ outClosed' = outClosed \cup {p}
       /\ outDone' = outDone \cup {p}
       /\ Then(t, If(p \notin outClosed, Each("SetDone", Mirrors[p])))
    /\ UNCHANGED <<queueVars, script, blocked, cur, seen, len, done, supply, finalVars,
                   schedVars, historyVars>>

\* InputStreamManager::IsDone.
IsDone(e) == len[e] = 0 /\ done[e]

AllInputsDone(n) == n \notin Sources /\ \A e \in Ports(n) : IsDone(e)

HasPendingInput(n) == \E e \in Ports(n) : len[e] > 0

-----------------------------------------------------------------------------
(* SchedulerQueue::RunNextTask and RunNode, by worker w.                   *)

TakeTask(w) ==
    /\ agenda[w] = <<>>
    /\ DequeueTask(WorkerQueue[w])
    /\ agenda' = [agenda EXCEPT ![w] = << <<"TryPop">> >>]
    /\ UNCHANGED <<script, blocked, cur, seen, streamVars, finalVars, schedVars, historyVars>>

TryPop(w) ==
    /\ At(w, "TryPop")
    /\ \/ \E n \in NodesOf(WorkerQueue[w]) :
            /\ PopItem(n)
            /\ cur' = [cur EXCEPT ![w] = n]
            /\ Then(w, Each("PopQueueHead", InputPorts[n])
                         \o << <<"Process", n>>, <<"Finished">> >>)
       \/ /\ Queued(WorkerQueue[w]) = {}
          /\ Then(w, << <<"NoItem">> >>)
          /\ UNCHANGED <<queueVars, cur>>
    /\ UNCHANGED <<script, blocked, seen, streamVars, finalVars, schedVars, historyVars>>

\* InputStreamManager::PopQueueHead: a packet, or else the done flag.
PopQueueHead(w) ==
    /\ At(w, "PopQueueHead")
    /\ LET e == Arg(w, 2) IN
       \/ /\ len[e] > 0
          /\ len' = [len EXCEPT ![e] = @ - 1]
          /\ taken' = [taken EXCEPT ![e] = @ + 1]
          /\ seen' = [seen EXCEPT ![w].packets = @ \cup {e}]
       \/ /\ len[e] = 0
          /\ seen' = [seen EXCEPT ![w].done = @ \cup (IF done[e] THEN {e} ELSE {})]
          /\ UNCHANGED <<len, taken>>
    /\ Then(w, <<>>)
    /\ UNCHANGED <<queueVars, script, blocked, cur, done, outDone, outClosed, supply,
                   finalVars, schedVars, doneRuns, closes, failed, cleaned>>

\* The invocation sees every input done.
ObservesDone(w, n) == n \notin Sources /\ seen[w].done = Ports(n)

\* What the node emits: a source from its supply, a consumer a packet for a
\* packet; a flusher holds one back until it first sees its inputs done.
Emitted(w, n) ==
    IF \/ n \in Sources \/ seen[w].packets # {}
       \/ n \in Flushers /\ ObservesDone(w, n) /\ doneRuns[n] = 0
    THEN 1 ELSE 0

ProcessOk(w) ==
    LET n == Arg(w, 2) IN
    /\ n \in Sources => supply[n] > 0
    /\ supply' = IF n \in Sources THEN [supply EXCEPT ![n] = @ - 1] ELSE supply
    /\ Then(w, << <<"PostProcess", n, Emitted(w, n)>>, <<"Finalize", n>> >>)
    /\ UNCHANGED failed

\* A source without packets left, or a consumer that chooses to, returns
\* Stop, with nothing emitted: close the outputs, then drain or report it.
ProcessStop(w) ==
    LET n == Arg(w, 2) IN
    /\ n \in MayStop \/ (n \in Sources /\ supply[n] = 0)
    /\ Then(w, << <<"PostProcess", n, 0>> >>
                 \o CloseOutputOps(n)
                 \o << <<"Decrement", n>> >>
                 \o (IF n \in Sources THEN << <<"SourceStopped", n>> >>
                     ELSE << <<"Reschedule", n>> >>)
                 \o IdleCallbackOps)
    /\ UNCHANGED <<supply, failed>>

ProcessError(w) ==
    LET n == Arg(w, 2) IN
    /\ n \in MayFail \ failed
    /\ failed' = failed \cup {n}
    /\ \E k \in 0..1 :
        Then(w, << <<"PostProcess", n, k>>, <<"Decrement", n>>, <<"ErrorCallback", n>> >>)
    /\ UNCHANGED supply

\* node->Process(ctx).  The done flags it sees are counted for the record.
Process(w) ==
    /\ At(w, "Process")
    /\ ProcessOk(w) \/ ProcessStop(w) \/ ProcessError(w)
    /\ LET n == Arg(w, 2) IN
       doneRuns' = [doneRuns EXCEPT ![n] =
                      IF ObservesDone(w, n) /\ @ < 2 THEN @ + 1 ELSE @]
    /\ seen' = [seen EXCEPT ![w] = NoneSeen]
    /\ UNCHANGED <<queueVars, script, blocked, cur, len, done, outDone, outClosed,
                   finalVars, schedVars, taken, closes, cleaned>>

\* No second invocation is scheduled once the inputs are done.
MutAfterFinalizeNoSchedule(n, action) ==
    << <<"Decrement", n>> >>
    \o If(action = "Close", CloseOutputOps(n))
    \o (IF n \in Sources THEN AddNodeOp(n) ELSE << <<"Reschedule", n>> >>)

\* The outputs are closed in every invocation that finds the inputs done.
MutAfterFinalizeClosesEarly(n, action) ==
    << <<"Decrement", n>> >>
    \o If(action # "None", CloseOutputOps(n))
    \o If(action = "Schedule", AddNodeOp(n))
    \o (IF n \in Sources THEN AddNodeOp(n) ELSE << <<"Reschedule", n>> >>)
    \o If(n \notin Sources /\ action # "Schedule", << <<"SafetyNet", n>> >>)

\* The operations of RunNode after the FinalizeAction is chosen.
AfterFinalize(n, action) ==
    << <<"Decrement", n>> >>
    \o (CASE action = "Close"    -> CloseOutputOps(n)
          [] action = "Schedule" -> AddNodeOp(n)
          [] action = "None"     -> <<>>)
    \o (IF n \in Sources THEN AddNodeOp(n) ELSE << <<"Reschedule", n>> >>)
    \o If(n \notin Sources /\ action # "Schedule", << <<"SafetyNet", n>> >>)

\* The outputs are closed by the invocation that first finds the inputs done.
MutFinalizeAtOnce(w) ==
    /\ At(w, "Finalize")
    /\ LET n == Arg(w, 2)
           observe == AllInputsDone(n) /\ n \notin finalized
       IN  /\ finalized' = finalized \cup (IF observe THEN {n} ELSE {})
           /\ Then(w, AfterFinalize(n, IF observe THEN "Close" ELSE "None"))
    /\ UNCHANGED <<queueVars, script, blocked, cur, seen, streamVars, closePending, schedVars,
                   historyVars>>

\* RunNode's decision, under the queue's lock, once Process returned OK.
Finalize(w) ==
    /\ At(w, "Finalize")
    /\ LET n == Arg(w, 2)
           observe == AllInputsDone(n) /\ n \notin finalized
       IN  \/ /\ ~ observe
              /\ Then(w, AfterFinalize(n, "None"))
              /\ UNCHANGED finalVars
           \/ /\ observe /\ n \notin closePending
              /\ closePending' = closePending \cup {n}
              /\ Then(w, AfterFinalize(n, "Schedule"))
              /\ UNCHANGED finalized
           \/ /\ observe /\ n \in closePending
              /\ closePending' = closePending \ {n}
              /\ finalized' = finalized \cup {n}
              /\ Then(w, AfterFinalize(n, "Close"))
    /\ UNCHANGED <<queueVars, script, blocked, cur, seen, streamVars, schedVars, historyVars>>

Decrement(w) ==
    /\ At(w, "Decrement")
    /\ DecrementPending(Arg(w, 2))
    /\ Then(w, <<>>)
    /\ UNCHANGED <<script, blocked, cur, seen, streamVars, finalVars, schedVars, historyVars>>

MutRescheduleNever(w) ==
    /\ At(w, "Reschedule")
    /\ Then(w, <<>>)
    /\ UNCHANGED <<queueVars, script, blocked, cur, seen, streamVars, finalVars, schedVars,
                   historyVars>>

\* Re-add the node while an input packet is buffered.
Reschedule(w) ==
    /\ At(w, "Reschedule")
    /\ LET n == Arg(w, 2) IN Then(w, If(HasPendingInput(n), AddNodeOp(n)))
    /\ UNCHANGED <<queueVars, script, blocked, cur, seen, streamVars, finalVars, schedVars,
                   historyVars>>

\* Re-add the node if its inputs became done during this invocation.
SafetyNet(w) ==
    /\ At(w, "SafetyNet")
    /\ LET n == Arg(w, 2) IN
       Then(w, If(n \notin finalized /\ AllInputsDone(n), AddNodeOp(n)))
    /\ UNCHANGED <<queueVars, script, blocked, cur, seen, streamVars, finalVars, schedVars,
                   historyVars>>

\* The source-stopped callback, up to its HandleIdle.
SourceStopped(w) ==
    /\ At(w, "SourceStopped")
    /\ activeSources' = activeSources \ {Arg(w, 2)}
    /\ Then(w, <<>>)
    /\ UNCHANGED <<queueVars, script, blocked, cur, seen, streamVars, finalVars, state,
                   hasError, handlingIdle, closedInputs, historyVars>>

MutErrorCallbackLost(w) ==
    /\ At(w, "ErrorCallback")
    /\ Then(w, <<>>)
    /\ UNCHANGED <<queueVars, script, blocked, cur, seen, streamVars, finalVars, schedVars,
                   historyVars>>

\* SetErrorCallback installs a callback on the default queue only.
ErrorCallback(w) ==
    /\ At(w, "ErrorCallback")
    /\ hasError' = (hasError \/ (HasErrorCb /\ WorkerQueue[w] = DefaultQueue))
    /\ Then(w, <<>>)
    /\ UNCHANGED <<queueVars, script, blocked, cur, seen, streamVars, finalVars, state,
                   handlingIdle, activeSources, closedInputs, historyVars>>

MutOnTaskFinishedNoSubmit(w) ==
    /\ At(w, "Finished") \/ At(w, "NoItem")
    /\ UncountTask(WorkerQueue[w])
    /\ Then(w, IdleCallbackOps)
    /\ cur' = [cur EXCEPT ![w] = NoNode]
    /\ UNCHANGED <<script, blocked, seen, streamVars, finalVars, schedVars, historyVars>>

\* OnTaskFinished, and its counterpart in RunNextTask without an item.
OnTaskFinished(w) ==
    /\ LET q == WorkerQueue[w] IN
       /\ UncountTask(q)
       /\ \/ /\ At(w, "Finished")
             /\ Then(w, If(running[q] /\ Queued(q) # {}, SubmitOps(q)) \o IdleCallbackOps)
          \/ /\ At(w, "NoItem")
             /\ Then(w, IdleCallbackOps)
    /\ cur' = [cur EXCEPT ![w] = NoNode]
    /\ UNCHANGED <<script, blocked, seen, streamVars, finalVars, schedVars, historyVars>>

-----------------------------------------------------------------------------
(* Scheduler::HandleIdle, by any thread.                                   *)

\* The re-entrance guard; after a callback's notify_all if Arg(t, 2).
Enter(t) ==
    /\ At(t, "Enter")
    /\ handlingIdle' = handlingIdle + 1
    /\ blocked' = IF Arg(t, 2) THEN {} ELSE blocked
    /\ Then(t, IF handlingIdle > 0 THEN LeaveOp ELSE << <<"Begin">> >>)
    /\ UNCHANGED <<queueVars, script, cur, seen, streamVars, finalVars, state, hasError,
                   activeSources, closedInputs, historyVars>>

Leave(t) ==
    /\ At(t, "Leave")
    /\ handlingIdle' = handlingIdle - 1
    /\ Then(t, <<>>)
    /\ UNCHANGED <<queueVars, script, blocked, cur, seen, streamVars, finalVars, state,
                   hasError, activeSources, closedInputs, historyVars>>

InputsRemaining == closedInputs # GraphInputs

\* A cancelled graph is torn down; otherwise inputs_remaining is read, once.
Begin(t) ==
    /\ At(t, "Begin")
    /\ Then(t, IF state = "Cancelling" /\ hasError
               THEN Each("Cleanup", AllQueues) \o << <<"Terminate">> >> \o LeaveOp
               ELSE << <<"CheckIdle", 1, InputsRemaining>> >>)
    /\ UNCHANGED <<queueVars, script, blocked, cur, seen, streamVars, finalVars, schedVars,
                   historyVars>>

\* Scheduler::IsIdle looks at one queue after the other.
CheckIdle(t) ==
    /\ At(t, "CheckIdle")
    /\ LET i == Arg(t, 2)
           rem == Arg(t, 3)
       IN  Then(t, IF ~ IsIdle(AllQueues[i]) THEN LeaveOp
                   ELSE IF i < Len(AllQueues) THEN << <<"CheckIdle", i + 1, rem>> >>
                   ELSE << <<"Idle", rem>> >>)
    /\ UNCHANGED <<queueVars, script, blocked, cur, seen, streamVars, finalVars, schedVars,
                   historyVars>>

\* The loop's test of state_ is dropped.
MutIdleAnyState(t) ==
    /\ At(t, "Idle")
    /\ LET noMore == activeSources = {}
           rem == Arg(t, 2)
       IN  Then(t, IF noMore /\ ~ hasError /\ ~ rem THEN << <<"Scan", 1, FALSE>> >>
                   ELSE << <<"Judge", noMore, rem>> >>)
    /\ UNCHANGED <<queueVars, script, blocked, cur, seen, streamVars, finalVars, schedVars,
                   historyVars>>

\* The loop's body up to the drain.  Every path out of the body leaves the
\* loop, so the body is executed at most once.
Idle(t) ==
    /\ At(t, "Idle")
    /\ LET rem == Arg(t, 2) IN
       \/ /\ state \notin {"Running", "Cancelling"}
          /\ Then(t, LeaveOp)
          /\ UNCHANGED activeSources
       \/ /\ state \in {"Running", "Cancelling"}
          /\ activeSources' = IF state = "Cancelling" THEN {} ELSE activeSources
          /\ LET noMore == activeSources' = {} IN
             Then(t, IF noMore /\ ~ hasError /\ ~ rem /\ state # "Cancelling"
                     THEN << <<"Scan", 1, FALSE>> >>
                     ELSE << <<"Judge", noMore, rem>> >>)
    /\ UNCHANGED <<queueVars, script, blocked, cur, seen, streamVars, finalVars, state,
                   hasError, handlingIdle, closedInputs, historyVars>>

\* DrainInputQueues, first loop: is any input queue non-empty?  Its other
\* result, all_inputs_done, only tells kDrained from kNotDone, and the switch
\* in HandleIdle treats both alike.
Scan(t) ==
    /\ At(t, "Scan")
    /\ LET i == Arg(t, 2)
           nonempty == Arg(t, 3) \/ HasPendingInput(AllNodes[i])
       IN  Then(t, IF i < Len(AllNodes) THEN << <<"Scan", i + 1, nonempty>> >>
                   ELSE IF nonempty THEN Each("DrainNode", AllNodes) \o LeaveOp
                   ELSE << <<"FindUnfinalized", 1>> >>)
    /\ UNCHANGED <<queueVars, script, blocked, cur, seen, streamVars, finalVars, schedVars,
                   historyVars>>

\* Second loop: schedule a node with a non-empty input (kScheduled).
DrainNode(t) ==
    /\ At(t, "DrainNode")
    /\ LET n == Arg(t, 2) IN
       Then(t, If(HasPendingInput(n) /\ running[QueueOf[n]], AddNodeOp(n)))
    /\ UNCHANGED <<queueVars, script, blocked, cur, seen, streamVars, finalVars, schedVars,
                   historyVars>>

\* Third loop: schedule the first node that has yet to observe input-done
\* (kScheduled), or go on to the termination check (kDrained, kNotDone).
FindUnfinalized(t) ==
    /\ At(t, "FindUnfinalized")
    /\ LET i == Arg(t, 2)
           n == AllNodes[i]
       IN  Then(t, IF AllInputsDone(n) /\ n \notin finalized
                   THEN AddNodeOp(n) \o LeaveOp
                   ELSE IF i < Len(AllNodes) THEN << <<"FindUnfinalized", i + 1>> >>
                   ELSE << <<"Judge", TRUE, FALSE>> >>)
    /\ UNCHANGED <<queueVars, script, blocked, cur, seen, streamVars, finalVars, schedVars,
                   historyVars>>

\* should_quit, or wake the sources that are parked.
Judge(t) ==
    /\ At(t, "Judge")
    /\ LET noMore == Arg(t, 2)
           rem == Arg(t, 3)
       IN  Then(t, IF hasError \/ (noMore /\ ~ rem)
                   THEN Each("CloseNode", AllNodes) \o << <<"Terminate">> >> \o LeaveOp
                   ELSE EachIn("AddNode", AllNodes, activeSources) \o LeaveOp)
    /\ UNCHANGED <<queueVars, script, blocked, cur, seen, streamVars, finalVars, schedVars,
                   historyVars>>

\* CloseAllNodes, one node.
CloseNode(t) ==
    /\ At(t, "CloseNode")
    /\ closes' = [closes EXCEPT ![Arg(t, 2)] = @ + 1]
    /\ Then(t, <<>>)
    /\ UNCHANGED <<queueVars, script, blocked, cur, seen, streamVars, finalVars, schedVars,
                   doneRuns, taken, failed, cleaned>>

\* state_ = kTerminated and cv_.notify_all(), without holding mutex_.
Terminate(t) ==
    /\ At(t, "Terminate")
    /\ state' = "Terminated"
    /\ blocked' = {}
    /\ Then(t, <<>>)
    /\ UNCHANGED <<queueVars, script, cur, seen, streamVars, finalVars, hasError,
                   handlingIdle, activeSources, closedInputs, historyVars>>

-----------------------------------------------------------------------------
(* GraphRuntime's calls, by application thread a following its script.     *)

\* The next call of a is c.  Only Start and the calls that fill or close a
\* graph input are made before Start.
Calls(a, c) ==
    /\ agenda[a] = <<>>
    /\ script[a] # <<>>
    /\ Head(script[a])[1] = c
    /\ state = "NotStarted" => c \in {"Start", "AddPacket", "CloseInput"}

\* a makes that call, which puts ops on its agenda.
Making(a, ops) ==
    /\ script' = [script EXCEPT ![a] = Tail(@)]
    /\ agenda' = [agenda EXCEPT ![a] = ops]
    /\ UNCHANGED <<queueVars, blocked, cur, seen, streamVars, finalVars, historyVars>>

SetAll(b) == [i \in 1..Len(AllQueues) |-> <<"SetRunning", AllQueues[i], b>>]

\* Scheduler::Start: open the nodes in order, queueing the sources; then
\* start the queues and look for termination.  The call's argument is the set
\* of nodes whose Open returns an error.
Start(a) ==
    /\ Calls(a, "Start")
    /\ state' = "Running"
    /\ LET failing == {i \in 1..Len(AllNodes) : AllNodes[i] \in Head(script[a])[2]}
           first == CHOOSE i \in failing : \A j \in failing : i <= j
           opened == IF failing = {} THEN AllNodes ELSE SubSeq(AllNodes, 1, first - 1)
       IN  Making(a, EachIn("OpenSource", opened, Sources)
                     \o (IF failing = {} THEN SetAll(TRUE) \o HandleIdleOps
                         ELSE << <<"SetState", "Terminated">> >>))
    /\ UNCHANGED <<hasError, handlingIdle, activeSources, closedInputs>>

OpenSource(a) ==
    /\ At(a, "OpenSource")
    /\ activeSources' = activeSources \cup {Arg(a, 2)}
    /\ Then(a, AddNodeOp(Arg(a, 2)))
    /\ UNCHANGED <<queueVars, script, blocked, cur, seen, streamVars, finalVars, state,
                   hasError, handlingIdle, closedInputs, historyVars>>

\* AddPacketToInputStream: refused when the stream is closed.
AddPacketToInputStream(a) ==
    /\ Calls(a, "AddPacket")
    /\ LET s == Head(script[a])[2] IN
       Making(a, If(s \notin outClosed, PropagateOps(s, 1) \o HandleIdleOps))
    /\ UNCHANGED schedVars

\* The stream is counted as closed before its consumers are told.
MutCloseInputStreamCountsFirst(a) ==
    /\ Calls(a, "CloseInput")
    /\ LET s == Head(script[a])[2] IN
       Making(a, If(s \notin closedInputs,
                    << <<"IncClosed", s>>, <<"CloseManager", s>> >> \o HandleIdleOps))
    /\ UNCHANGED schedVars

\* CloseInputStream: idempotent.
CloseInputStream(a) ==
    /\ Calls(a, "CloseInput")
    /\ LET s == Head(script[a])[2] IN
       Making(a, If(s \notin closedInputs,
                    << <<"CloseManager", s>>, <<"IncClosed", s>> >> \o HandleIdleOps))
    /\ UNCHANGED schedVars

IncClosedGraphInputStreams(a) ==
    /\ At(a, "IncClosed")
    /\ closedInputs' = closedInputs \cup {Arg(a, 2)}
    /\ Then(a, <<>>)
    /\ UNCHANGED <<queueVars, script, blocked, cur, seen, streamVars, finalVars, state,
                   hasError, handlingIdle, activeSources, historyVars>>

\* Cancel: its test for kPaused comes after the assignment and never holds.
Cancel(a) ==
    /\ Calls(a, "Cancel")
    /\ hasError' = TRUE
    /\ Making(a, If(~ hasError, << <<"SetState", "Cancelling">> >> \o HandleIdleOps))
    /\ UNCHANGED <<state, handlingIdle, activeSources, closedInputs>>

\* Pause and Resume test state_ and then assign it.
Pause(a) ==
    /\ Calls(a, "Pause")
    /\ Making(a, If(state = "Running", << <<"SetState", "Paused">> >> \o SetAll(FALSE)))
    /\ UNCHANGED schedVars

Resume(a) ==
    /\ Calls(a, "Resume")
    /\ Making(a, If(state = "Paused",
                    << <<"SetState", "Running">> >> \o SetAll(TRUE)
                    \o Each("SubmitWaiting", AllQueues) \o HandleIdleOps))
    /\ UNCHANGED schedVars

SetState(a) ==
    /\ At(a, "SetState")
    /\ state' = Arg(a, 2)
    /\ Then(a, <<>>)
    /\ UNCHANGED <<queueVars, script, blocked, cur, seen, streamVars, finalVars, hasError,
                   handlingIdle, activeSources, closedInputs, historyVars>>

Shutdown(a) ==
    /\ Calls(a, "Shutdown")
    /\ state' = "Terminated"
    /\ Making(a, Each("Cleanup", AllQueues) \o << <<"Notify">> >>)
    /\ UNCHANGED <<hasError, handlingIdle, activeSources, closedInputs>>

Notify(a) ==
    /\ At(a, "Notify")
    /\ blocked' = {}
    /\ Then(a, <<>>)
    /\ UNCHANGED <<queueVars, script, cur, seen, streamVars, finalVars, schedVars,
                   historyVars>>

WaitUntilDone(a) ==
    /\ Calls(a, "Wait")
    /\ Making(a, << <<"Wait">> >>)
    /\ UNCHANGED schedVars

\* cv_.wait evaluates its predicate under mutex_ and then blocks; whoever
\* notifies does not hold mutex_, so a notification can fall in between.
Wait(a) ==
    /\ At(a, "Wait")
    /\ a \notin blocked
    /\ Then(a, If(state # "Terminated", << <<"Block">>, <<"Wait">> >>))
    /\ UNCHANGED <<queueVars, script, blocked, cur, seen, streamVars, finalVars, schedVars,
                   historyVars>>

Block(a) ==
    /\ At(a, "Block")
    /\ blocked' = blocked \cup {a}
    /\ Then(a, <<>>)
    /\ UNCHANGED <<queueVars, script, cur, seen, streamVars, finalVars, schedVars,
                   historyVars>>

-----------------------------------------------------------------------------
QueueStep(t) ==
    \/ AddNode(t) \/ SubmitToExecutor(t) \/ SetRunning(t) \/ SubmitWaiting(t) \/ Cleanup(t)

StreamStep(t) ==
    \/ AddPackets(t) \/ SetDone(t) \/ PostProcess(t) \/ BoundDone(t) \/ CloseManager(t)

IdleStep(t) ==
    \/ Enter(t) \/ Leave(t) \/ Begin(t) \/ CheckIdle(t) \/ Idle(t) \/ Scan(t)
    \/ DrainNode(t) \/ FindUnfinalized(t) \/ Judge(t) \/ CloseNode(t) \/ Terminate(t)

WorkerStep(w) ==
    \/ TakeTask(w) \/ TryPop(w) \/ PopQueueHead(w) \/ Process(w) \/ Finalize(w)
    \/ Decrement(w) \/ Reschedule(w) \/ SafetyNet(w) \/ SourceStopped(w)
    \/ ErrorCallback(w) \/ OnTaskFinished(w)

CallStep(a) ==
    \/ Start(a) \/ AddPacketToInputStream(a) \/ CloseInputStream(a) \/ Cancel(a)
    \/ Pause(a) \/ Resume(a) \/ Shutdown(a) \/ WaitUntilDone(a)

AppStep(a) ==
    \/ CallStep(a) \/ OpenSource(a) \/ IncClosedGraphInputStreams(a) \/ SetState(a)
    \/ Notify(a) \/ Wait(a) \/ Block(a)

CommonStep(t) == QueueStep(t) \/ StreamStep(t) \/ IdleStep(t)

Next ==
    \/ \E t \in Threads : CommonStep(t)
    \/ \E w \in Workers : WorkerStep(w)
    \/ \E a \in Apps : AppStep(a)

\* Every thread is scheduled: no lock is held across operations, so each
\* operation a thread has reached is executed, a worker takes a task that
\* waits, and the application goes through its script.
Fairness ==
    /\ \A w \in Workers : WF_vars(CommonStep(w) \/ WorkerStep(w))
    /\ \A a \in Apps : WF_vars(CommonStep(a) \/ AppStep(a))

Spec == Init /\ [][Next]_vars

FairSpec == Spec /\ Fairness

-----------------------------------------------------------------------------
(* Properties.                                                             *)

States == {"NotStarted", "Running", "Paused", "Cancelling", "Terminated"}

\* Every variable has its type: no counter of the queues is negative, at
\* most one call of HandleIdle per thread is under way, and a closed output
\* has the bound Done.
TypeOK ==
    /\ QueueTypeOK
    /\ cur \in [Workers -> Nodes \cup {NoNode}]
    /\ len \in [Edges -> Nat]
    /\ done \in [Edges -> BOOLEAN]
    /\ outClosed \subseteq outDone
    /\ outDone \subseteq Producers
    /\ closePending \subseteq Nodes
    /\ finalized \subseteq Nodes
    /\ state \in States
    /\ hasError \in BOOLEAN
    /\ handlingIdle \in 0..Cardinality(Threads)
    /\ activeSources \subseteq Sources
    /\ closedInputs \subseteq GraphInputs
    /\ blocked \subseteq Apps
    /\ seen \in [Workers -> [packets : SUBSET Edges, done : SUBSET Edges]]

\* The run was not cut short: no error, no cancellation, no shutdown.
Undisturbed == ~ hasError /\ failed = {} /\ cleaned = {}

Consumers == Nodes \ Sources

\* The graph never terminates while a consumer has yet to observe
\* input-done or a packet is still buffered: "Only when every non-source
\* node's input streams are both done and empty is the graph truly finished"
\* (HandleIdle).
TerminatedMeansFinalized ==
    state = "Terminated" /\ Undisturbed =>
        \A n \in Consumers : n \in finalized /\ ~ HasPendingInput(n)

\* A graph that terminated undisturbed lost and duplicated no packet of a
\* source: each consumer of it took every packet, fan-out included
\* (PropagateUpdatesToMirrors copies to all mirrors but the last).
EveryPacketConsumed ==
    state = "Terminated" /\ Undisturbed =>
        \A s \in Sources : \A i \in 1..Len(Mirrors[s]) :
            taken[Mirrors[s][i]] = Supply[s]

Has(t, op) == \E i \in 1..Len(agenda[t]) : agenda[t][i][1] = op

\* No invocation of Process is under way or to come on a node that the
\* scheduler has closed (CloseAllNodes runs on whichever thread found the
\* queues idle).
NoProcessAfterClose ==
    \A w \in Workers : Has(w, "Process") => closes[cur[w]] = 0

\* Each node is closed at most once.
ClosedAtMostOnce == \A n \in Nodes : closes[n] <= 1

\* Done travels downstream behind the data: a node's outputs are Done only
\* when all its own inputs are Done and consumed and it was finalized.
DoneFollowsInputs ==
    \A n \in Consumers : \A i \in 1..Len(Mirrors[n]) :
        done[Mirrors[n][i]] => AllInputsDone(n) /\ n \in finalized

\* Once an input is done and drained it stays so: nothing arrives after Done.
DoneIsFinal == [][\A e \in Edges : IsDone(e) => IsDone(e)']_vars

\* What a node emits is never lost on an output that is already closed, the
\* packets of its finalize invocation included: "otherwise the finalize
\* output (Flush packets) is dropped by the closed shard" (RunNode).
NoOutputDropped ==
    \A t \in Threads :
        At(t, "PostProcess") /\ Arg(t, 3) > 0 => Arg(t, 2) \notin outClosed

\* Every consumer eventually observes input-done and is finalized.
EventuallyFinalized == <>(Consumers \subseteq finalized)

\* A graph whose sources stop and whose inputs are closed eventually
\* terminates, although callers that lose the race for HandleIdle's guard
\* return at once: "the winning caller runs the full idle-detection loop".
EventuallyTerminates == <>(state = "Terminated")

\* A thread in WaitUntilDone returns once the graph has terminated.
TerminationWakesWaiters ==
    \A a \in Apps : state = "Terminated" ~> agenda[a] = <<>>

\* The edges a graph input feeds.  What the application adds before Start
\* stays in them until DrainInputQueues looks.
FedByApps == UNION {{Mirrors[g][i] : i \in 1..Len(Mirrors[g])} : g \in GraphInputs}

\* "when every scheduler queue is idle, every input stream is drained": a
\* packet of a node never sits in an input stream while no task is under way
\* to take it, although the arrival callback fires only on an empty stream
\* and AddNode drops a node that is at its limit.
IdleMeansDrained ==
    (\A q \in Queues : IsIdle(q)) /\ failed = {} /\ cleaned = {} =>
        \A n \in Consumers : \A e \in Ports(n) \ FedByApps : len[e] = 0

\* The error of a node is recorded before any node is closed, so that Close
\* can see it ("The callback runs before nodes are closed").
ErrorKnownAtClose ==
    failed # {} /\ (\E n \in Nodes : closes[n] > 0) => hasError

-----------------------------------------------------------------------------
(* A running graph drives its queues through the calls of SchedulerQueue.  *)

\* Where a worker is in RunNextTask, read off its agenda.
Point(w) ==
    CASE agenda[w] = <<>> -> "wait"
      [] At(w, "TryPop") -> "pop"
      [] At(w, "NoItem") -> "empty"
      [] OTHER -> IF ~ Has(w, "Finished") THEN "idle"
                  ELSE IF \E op \in {"Process", "Finalize", "Decrement"} : Has(w, op)
                       THEN "run" ELSE "post"

SubmitTarget(t, op) == IF At(t, op) THEN Arg(t, 2) ELSE NoQueue

\* The variables of SchedulerQueue that say what each thread is doing.
pc == [w \in Workers |-> Point(w)]
counting == [t \in Threads |-> SubmitTarget(t, "Count")]
sending == [t \in Threads |-> SubmitTarget(t, "Send")]

SQ == INSTANCE SchedulerQueue WITH Clients <- Apps, MaxTasks <- Unbounded

\* The scheduler and the streams use a SchedulerQueue only as the module
\* SchedulerQueue assumes, so what is proved there holds of every graph.
RefinesSchedulerQueue == SQ!Spec

=============================================================================
