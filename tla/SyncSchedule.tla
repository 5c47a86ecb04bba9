---------------------------- MODULE SyncSchedule ----------------------------
(***************************************************************************)
(* Scheduler::Schedule, the synchronous path (scheduler/scheduler.cc), and *)
(* the GraphProfiler it reports to, while other threads of the application *)
(* shut the graph down, cancel it, pause, resume or reset the profiler and *)
(* write profiles.                                                         *)
(*                                                                         *)
(* The graph has no graph inputs, so AddPacketToInputStream and            *)
(* CloseInputStream find no stream, and the application neither pauses nor *)
(* resumes it: Resume would start the queues.  HandleIdle is then called   *)
(* by Cancel alone, on one thread, which executes it step by step while    *)
(* Schedule goes on.                                                       *)
(*                                                                         *)
(* A Scope of the profiler is a frame of the stack `scopes`: it reads the  *)
(* flag and the clock when it is entered, and again when it is left.  The  *)
(* packets a source sends wait in its consumers' input streams, which this *)
(* path never reads; a consumer's own outputs are thrown away with its     *)
(* shards.                                                                 *)
(***************************************************************************)
EXTENDS ProfileFile

CONSTANTS
    AllNodes,       \* all_nodes_
    Sources,        \* the nodes without input ports
    Consumers,      \* source -> the nodes its outputs are mirrored to
    MayFail,        \* the nodes that may return an error
    MayStop,        \* the nodes that may return Stop
    Elapsed,        \* event type -> node -> the times a call of the node may take
    StartTime,      \* what the clock shows at first
    MaxCommands,    \* bound: calls from other threads
    MaxFiles        \* bound: profiles written

EventType == {"OPEN", "PROCESS", "CLOSE"}
Nodes == {AllNodes[i] : i \in 1..Len(AllNodes)}

\* The validator has seen to it that no name, under which a node is profiled,
\* is used twice.
ASSUME SyncScheduleAssumption ==
    /\ AllNodes \in Seq(Nodes)
    /\ \A i, j \in 1..Len(AllNodes) : AllNodes[i] = AllNodes[j] => i = j
    /\ Elapsed \in [EventType -> [Nodes -> SUBSET Nat]]
    /\ Sources \subseteq Nodes
    /\ Consumers \in [Sources -> SUBSET (Nodes \ Sources)]
    /\ StartTime \in Nat

VARIABLES
    pc,           \* where Schedule is
    after,        \* where it goes on once the innermost scope is left
    index,        \* the node of all_nodes_ its loop is at
    todo,         \* the sources its pass over active_sources_ has not reached
    source,       \* the source the pass is at
    active,       \* active_sources_
    state,        \* state_
    stopping,     \* stopping_
    hasError,     \* has_error_
    processed,    \* processed_count_
    buffered,     \* node -> packets waiting in its input streams
    queued,       \* the nodes with an item in their SchedulerQueue
    scopes,       \* the Scopes, the innermost last
    profiling,    \* is_profiling_
    data,         \* node_data_
    clock,        \* what TimeNowUsec returns
    files,        \* the profiles written, the data and the text
    canceller,    \* where the thread that cancels is
    idleIndex,    \* the node its CloseAllNodes is at, 0 before
    idleScope,    \* the Scope it is in
    commands,     \* history: the calls from other threads
    overtaken,    \* history: Schedule's kRunning came after Cancel's kCancelling, before HandleIdle read it
    closes,       \* history: node -> the calls of Close
    calls,        \* history: node -> its Process calls since Reset
    spent,        \* history: event type -> node -> the time recorded for it if all is well
    paused,       \* history: profiling was off at some moment of the run
    stale         \* history: the type and node of samples without a start time

loopVars == <<index, todo, source, active, hasError, processed>>
schedulerVars == <<pc, after, loopVars>>
streamVars == <<buffered, queued>>
controlVars == <<state, stopping>>
profilerVars == <<scopes, profiling, data, clock>>
historyVars == <<closes, calls, spent, paused, stale, overtaken>>
cancelVars == <<canceller, idleIndex, idleScope>>
appVars == <<files, commands, cancelVars>>
syncVars == <<schedulerVars, streamVars, controlVars, profilerVars, historyVars, appVars>>

NewScope(type, n) ==
    [type |-> type, node |-> n, entered |-> clock, start |-> IF profiling THEN clock ELSE 0,
     timed |-> profiling, end |-> 0]
NoScope == [type |-> "CLOSE", node |-> AllNodes[1], entered |-> 0, start |-> 0, timed |-> FALSE, end |-> 0]

\* GraphProfiler::Initialize, for an enabled profiler.
Init ==
    /\ pc = "NotStarted" /\ after = "NotStarted" /\ index = 1
    /\ todo = {} /\ source = AllNodes[1] /\ active = {}
    /\ state = "NotStarted" /\ stopping = FALSE /\ hasError = FALSE /\ processed = 0
    /\ buffered = [n \in Nodes |-> 0] /\ queued = {}
    /\ scopes = <<>> /\ profiling = FALSE /\ clock = StartTime
    /\ data = [n \in Nodes |-> NewNodeData]
    /\ files = <<>> /\ commands = 0
    /\ canceller = "Outside" /\ idleIndex = 0 /\ idleScope = NoScope
    /\ closes = [n \in Nodes |-> 0]
    /\ calls = [n \in Nodes |-> 0]
    /\ spent = [t \in EventType |-> [n \in Nodes |-> 0]]
    /\ paused = FALSE /\ stale = {} /\ overtaken = FALSE

-----------------------------------------------------------------------------
(* Scopes.                                                                 *)

Goto(place) == pc' = place /\ UNCHANGED after

\* Scope::Scope, then the node is called.
Enter(type, n, place) ==
    /\ scopes' = Append(scopes, NewScope(type, n))
    /\ Goto(place)
    /\ UNCHANGED <<profiling, data, clock>>

\* The node returns after some time.
Returns(type, n) ==
    /\ \E d \in Elapsed[type][n] : clock' = clock + d
    /\ UNCHANGED <<scopes, profiling, data>>

\* The innermost scope is about to be left, and Schedule goes on at place.
Leave(place) == pc' = "Leave" /\ after' = place

\* The history of the calls, once scope s is gone, with its sample recorded or not.
Ended(s, recorded) ==
    /\ calls' = IF s.type = "PROCESS" THEN [calls EXCEPT ![s.node] = @ + 1] ELSE calls
    /\ spent' = [spent EXCEPT ![s.type][s.node] = @ + s.end - s.entered]
    /\ stale' = IF recorded /\ ~ s.timed THEN stale \cup {<<s.type, s.node>>} ELSE stale
    /\ UNCHANGED <<closes, paused, overtaken>>

Left(recorded) ==
    /\ scopes' = Front(scopes)
    /\ pc' = after /\ UNCHANGED after
    /\ Ended(scopes[Len(scopes)], recorded)

\* Scope::~Scope up to the lock: the flag and the clock.
LeaveScope ==
    /\ pc = "Leave"
    /\ scopes' = [scopes EXCEPT ![Len(scopes)].end = clock]
    /\ pc' = IF profiling THEN "Record" ELSE "Skip"
    /\ UNCHANGED <<after, loopVars, streamVars, controlVars, profiling, data, clock>>
    /\ UNCHANGED <<historyVars, appVars>>

SkipSample ==
    /\ pc = "Skip"
    /\ Left(FALSE)
    /\ UNCHANGED <<loopVars, streamVars, controlVars, profiling, data, clock, appVars>>

\* The rest of it, under the profiler's mutex.
RecordSample ==
    /\ pc = "Record"
    /\ LET s == scopes[Len(scopes)] IN data' = Record(data, s.type, s.node, s.start, s.end)
    /\ Left(TRUE)
    /\ UNCHANGED <<loopVars, streamVars, controlVars, profiling, clock, appVars>>

-----------------------------------------------------------------------------
(* Schedule: every node is opened,                                         *)

Schedule ==
    /\ pc = "NotStarted"
    /\ Goto("Starting")
    /\ state' = "Running"
    /\ overtaken' = (canceller \in {"HandleIdle", "Queues", "State"})
    /\ UNCHANGED <<loopVars, stopping, streamVars, profilerVars, appVars>>
    /\ UNCHANGED <<closes, calls, spent, paused, stale>>

StartProfiler ==
    /\ pc = "Starting"
    /\ Goto("Opening")
    /\ profiling' = TRUE
    /\ UNCHANGED <<loopVars, streamVars, controlVars, scopes, data, clock, historyVars, appVars>>

OpenNode ==
    /\ pc = "Opening" /\ index <= Len(AllNodes)
    /\ Enter("OPEN", AllNodes[index], "InOpen")
    /\ UNCHANGED <<loopVars, streamVars, controlVars, historyVars, appVars>>

\* After an error the nodes are closed, from the one that failed.
MutOpenReturnsCloses ==
    /\ pc = "InOpen"
    /\ Returns("OPEN", AllNodes[index])
    /\ \/ /\ index' = index + 1
          /\ active' = active \cup ({AllNodes[index]} \cap Sources)
          /\ Leave("Opening")
       \/ /\ AllNodes[index] \in MayFail
          /\ Leave("Closing")
          /\ UNCHANGED <<index, active>>
    /\ UNCHANGED <<todo, source, hasError, processed, controlVars>>
    /\ UNCHANGED <<streamVars, historyVars, appVars>>

\* An error ends Schedule: nothing is closed and the profiler is not stopped.
OpenReturns ==
    /\ pc = "InOpen"
    /\ Returns("OPEN", AllNodes[index])
    /\ \/ /\ index' = index + 1
          /\ active' = active \cup ({AllNodes[index]} \cap Sources)
          /\ Leave("Opening")
          /\ UNCHANGED state
       \/ /\ AllNodes[index] \in MayFail
          /\ state' = "Terminated"
          /\ Leave("OpenFailed")
          /\ UNCHANGED <<index, active>>
    /\ UNCHANGED <<todo, source, hasError, processed, stopping, streamVars, historyVars, appVars>>

-----------------------------------------------------------------------------
(* the sources are processed, each with the consumers after it,            *)

StartPass ==
    /\ pc = "Opening" /\ index > Len(AllNodes)
    /\ todo' = active
    /\ Goto("Pass")
    /\ UNCHANGED <<index, source, active, hasError, processed>>
    /\ UNCHANGED <<streamVars, controlVars, profilerVars, historyVars, appVars>>

\* active_sources_ is ordered by address, which is any order.
ProcessSource ==
    /\ pc = "Pass" /\ ~ stopping /\ ~ hasError
    /\ \E n \in todo : source' = n /\ Enter("PROCESS", n, "InSource")
    /\ UNCHANGED <<index, todo, active, hasError, processed>>
    /\ UNCHANGED <<streamVars, controlVars, historyVars, appVars>>

\* PostProcess: a packet to every consumer, which the first one puts into its
\* queue.  Nothing lowers its pending count, so the others do not.
PostProcess(n) ==
    /\ buffered' = [m \in Nodes |-> IF m \in Consumers[n] THEN buffered[m] + 1 ELSE buffered[m]]
    /\ queued' = queued \cup {m \in Consumers[n] : buffered[m] = 0}

SourceReturns ==
    /\ pc = "InSource"
    /\ Returns("PROCESS", source)
    /\ \/ /\ PostProcess(source)
          /\ index' = 1 /\ Goto("Consumers")
          /\ UNCHANGED <<todo, active, hasError>>
       \/ /\ source \in MayStop
          /\ PostProcess(source)
          /\ active' = active \ {source} /\ todo' = todo \ {source} /\ Leave("Pass")
          /\ UNCHANGED <<index, hasError>>
       \/ /\ source \in MayFail
          /\ hasError' = TRUE /\ Leave("Pass")
          /\ UNCHANGED <<index, todo, active, streamVars>>
    /\ UNCHANGED <<source, processed, controlVars, historyVars, appVars>>

\* The loop over the consumers is a loop over all nodes.
SkipSource ==
    /\ pc = "Consumers" /\ index <= Len(AllNodes) /\ ~ stopping /\ ~ hasError
    /\ AllNodes[index] \in Sources
    /\ index' = index + 1
    /\ UNCHANGED <<pc, after, todo, source, active, hasError, processed>>
    /\ UNCHANGED <<streamVars, controlVars, profilerVars, historyVars, appVars>>

ProcessConsumer ==
    /\ pc = "Consumers" /\ index <= Len(AllNodes) /\ ~ stopping /\ ~ hasError
    /\ AllNodes[index] \notin Sources
    /\ Enter("PROCESS", AllNodes[index], "InConsumer")
    /\ UNCHANGED <<loopVars, streamVars, controlVars, historyVars, appVars>>

ConsumerReturns ==
    /\ pc = "InConsumer"
    /\ Returns("PROCESS", AllNodes[index])
    /\ index' = index + 1
    /\ Leave("Consumers")
    /\ \/ UNCHANGED hasError
       \/ AllNodes[index] \in MayFail /\ hasError' = TRUE
    /\ UNCHANGED <<todo, source, active, processed, streamVars, controlVars, historyVars, appVars>>

\* The source's scope is left last.
EndOfConsumers ==
    /\ pc = "Consumers" /\ (index > Len(AllNodes) \/ stopping \/ hasError)
    /\ processed' = processed + 1
    /\ todo' = todo \ {source}
    /\ Leave("Pass")
    /\ UNCHANGED <<index, source, active, hasError>>
    /\ UNCHANGED <<streamVars, controlVars, profilerVars, historyVars, appVars>>

-----------------------------------------------------------------------------
(* and every node is closed.                                               *)

\* The profiler is stopped before the nodes are closed.
MutEndOfPassStops ==
    /\ pc = "Pass" /\ (todo = {} \/ stopping \/ hasError)
    /\ index' = 1 /\ Goto("Closing") /\ profiling' = FALSE
    /\ UNCHANGED <<todo, source, active, hasError, processed>>
    /\ UNCHANGED <<streamVars, controlVars, scopes, data, clock, historyVars, appVars>>

\* The loop over the sources passes over them after an error, for ever.
MutEndOfPassContinues ==
    /\ pc = "Pass" /\ todo = {}
    /\ index' = 1 /\ Goto("Closing")
    /\ UNCHANGED <<todo, source, active, hasError, processed>>
    /\ UNCHANGED <<streamVars, controlVars, profilerVars, historyVars, appVars>>

\* One pass is all: any_source_active is never set again.
EndOfPass ==
    /\ pc = "Pass" /\ (todo = {} \/ stopping \/ hasError)
    /\ index' = 1 /\ Goto("Closing")
    /\ UNCHANGED <<todo, source, active, hasError, processed>>
    /\ UNCHANGED <<streamVars, controlVars, profilerVars, historyVars, appVars>>

\* CloseAllNodes.
CloseNode ==
    /\ pc = "Closing" /\ index <= Len(AllNodes)
    /\ Enter("CLOSE", AllNodes[index], "InClose")
    /\ UNCHANGED <<loopVars, streamVars, controlVars, historyVars, appVars>>

CloseReturns ==
    /\ pc = "InClose"
    /\ Returns("CLOSE", AllNodes[index])
    /\ closes' = [closes EXCEPT ![AllNodes[index]] = @ + 1]
    /\ index' = index + 1
    /\ Leave("Closing")
    /\ UNCHANGED <<todo, source, active, hasError, processed>>
    /\ UNCHANGED <<calls, spent, paused, stale, overtaken>>
    /\ UNCHANGED <<streamVars, controlVars, appVars>>

Finish ==
    /\ pc = "Closing" /\ index > Len(AllNodes)
    /\ profiling' = FALSE
    /\ Goto("Stopped")
    /\ UNCHANGED <<loopVars, streamVars, controlVars, scopes, data, clock, historyVars, appVars>>

Terminate ==
    /\ pc = "Stopped"
    /\ state' = "Terminated"
    /\ Goto("Returned")
    /\ UNCHANGED <<loopVars, stopping, streamVars, profilerVars, historyVars, appVars>>

-----------------------------------------------------------------------------
(* The application's other threads.                                        *)

Command ==
    /\ commands < MaxCommands
    /\ commands' = commands + 1

Shutdown ==
    /\ Command
    /\ stopping' = TRUE /\ state' = "Terminated" /\ queued' = {}
    /\ UNCHANGED <<schedulerVars, buffered, profilerVars, historyVars, files, cancelVars>>

ProfilerPause ==
    /\ Command
    /\ profiling' = FALSE
    /\ paused' = TRUE
    /\ UNCHANGED <<schedulerVars, streamVars, controlVars, scopes, data, clock>>
    /\ UNCHANGED <<closes, calls, spent, stale, overtaken, files, cancelVars>>

ProfilerResume ==
    /\ Command
    /\ profiling' = TRUE
    /\ UNCHANGED <<schedulerVars, streamVars, controlVars, scopes, data, clock, historyVars, files, cancelVars>>

ProfilerReset ==
    /\ Command
    /\ data' = Reset(data)
    /\ calls' = [n \in Nodes |-> 0] /\ stale' = {}
    /\ spent' = [t \in EventType |-> [n \in Nodes |-> 0]]
    /\ UNCHANGED <<schedulerVars, streamVars, controlVars, scopes, profiling, clock>>
    /\ UNCHANGED <<closes, paused, overtaken, files, cancelVars>>

\* WriteProfile: a copy under the mutex, then the file, which is complete.
WriteProfile ==
    /\ Command
    /\ Len(files) < MaxFiles
    /\ files' = Append(files, [data |-> data, content |-> Json(AllNodes, data)])
    /\ UNCHANGED <<schedulerVars, streamVars, controlVars, profilerVars, historyVars, cancelVars>>

-----------------------------------------------------------------------------
(* Cancel and the HandleIdle it calls, on a thread of its own.             *)

CancelGoto(place) == canceller' = place /\ UNCHANGED <<idleIndex, idleScope>>

\* A Cancel that finds has_error_ returns at once.
Cancel ==
    /\ Command
    /\ ~ hasError
    /\ hasError' = TRUE
    /\ CancelGoto("Cancelling")
    /\ UNCHANGED <<pc, after, index, todo, source, active, processed, controlVars>>
    /\ UNCHANGED <<streamVars, profilerVars, historyVars, files>>

StoreCancelling ==
    /\ canceller = "Cancelling"
    /\ state' = "Cancelling"
    /\ CancelGoto("HandleIdle")
    /\ UNCHANGED <<schedulerVars, stopping, streamVars, profilerVars, historyVars, files, commands>>

\* HandleIdle: has_error_ is set, so the state decides whether the end is
\* forced or the queues are looked at.
TestCancelling ==
    /\ canceller = "HandleIdle"
    /\ CancelGoto(IF state = "Cancelling" THEN "CleanUp" ELSE "Queues")
    /\ UNCHANGED <<schedulerVars, streamVars, controlVars, profilerVars, historyVars, files, commands>>

\* CleanupAfterRun of every queue.
CleanUpQueues ==
    /\ canceller = "CleanUp"
    /\ queued' = {}
    /\ CancelGoto("Terminate")
    /\ UNCHANGED <<schedulerVars, buffered, controlVars, profilerVars, historyVars, files, commands>>

\* The condition of HandleIdle's loop: IsIdle, then the state.
LookAtQueues ==
    /\ canceller = "Queues"
    /\ CancelGoto(IF queued = {} THEN "State" ELSE "Returned")
    /\ UNCHANGED <<schedulerVars, streamVars, controlVars, profilerVars, historyVars, files, commands>>

\* After an error HandleIdle quits: this thread closes the nodes.
LookAtState ==
    /\ canceller = "State"
    /\ \/ /\ state \in {"Running", "Cancelling"}
          /\ canceller' = "Closing" /\ idleIndex' = 1 /\ UNCHANGED idleScope
       \/ /\ state \notin {"Running", "Cancelling"}
          /\ CancelGoto("Returned")
    /\ UNCHANGED <<schedulerVars, streamVars, controlVars, profilerVars, historyVars, files, commands>>

IdleCloseNode ==
    /\ canceller = "Closing" /\ idleIndex <= Len(AllNodes)
    /\ idleScope' = NewScope("CLOSE", AllNodes[idleIndex])
    /\ canceller' = "InClose"
    /\ UNCHANGED <<idleIndex, schedulerVars, streamVars, controlVars, profilerVars, historyVars>>
    /\ UNCHANGED <<files, commands>>

IdleCloseReturns ==
    /\ canceller = "InClose"
    /\ Returns("CLOSE", AllNodes[idleIndex])
    /\ closes' = [closes EXCEPT ![AllNodes[idleIndex]] = @ + 1]
    /\ idleIndex' = idleIndex + 1
    /\ canceller' = "Leave"
    /\ UNCHANGED <<idleScope, schedulerVars, streamVars, controlVars>>
    /\ UNCHANGED <<calls, spent, paused, stale, overtaken, files, commands>>

IdleLeaveScope ==
    /\ canceller = "Leave"
    /\ idleScope' = [idleScope EXCEPT !.end = clock]
    /\ canceller' = IF profiling THEN "Record" ELSE "Skip"
    /\ UNCHANGED <<idleIndex, schedulerVars, streamVars, controlVars, profilerVars, historyVars>>
    /\ UNCHANGED <<files, commands>>

IdleSkipSample ==
    /\ canceller = "Skip"
    /\ Ended(idleScope, FALSE)
    /\ idleScope' = NoScope /\ canceller' = "Closing"
    /\ UNCHANGED <<idleIndex, schedulerVars, streamVars, controlVars, profilerVars, files, commands>>

IdleRecordSample ==
    /\ canceller = "Record"
    /\ data' = Record(data, "CLOSE", idleScope.node, idleScope.start, idleScope.end)
    /\ Ended(idleScope, TRUE)
    /\ idleScope' = NoScope /\ canceller' = "Closing"
    /\ UNCHANGED <<idleIndex, schedulerVars, streamVars, controlVars, scopes, profiling, clock>>
    /\ UNCHANGED <<files, commands>>

IdleStopProfiler ==
    /\ canceller = "Closing" /\ idleIndex > Len(AllNodes)
    /\ profiling' = FALSE
    /\ CancelGoto("Terminate")
    /\ UNCHANGED <<schedulerVars, streamVars, controlVars, scopes, data, clock, historyVars>>
    /\ UNCHANGED <<files, commands>>

IdleTerminate ==
    /\ canceller = "Terminate"
    /\ state' = "Terminated"
    /\ CancelGoto("Returned")
    /\ UNCHANGED <<schedulerVars, stopping, streamVars, profilerVars, historyVars, files, commands>>

-----------------------------------------------------------------------------
Step ==
    \/ LeaveScope \/ SkipSample \/ RecordSample
    \/ Schedule \/ StartProfiler \/ OpenNode \/ OpenReturns
    \/ StartPass \/ ProcessSource \/ SourceReturns
    \/ SkipSource \/ ProcessConsumer \/ ConsumerReturns \/ EndOfConsumers
    \/ EndOfPass \/ CloseNode \/ CloseReturns \/ Finish \/ Terminate

CancelStep ==
    \/ StoreCancelling \/ TestCancelling \/ CleanUpQueues
    \/ LookAtQueues \/ LookAtState
    \/ IdleCloseNode \/ IdleCloseReturns
    \/ IdleLeaveScope \/ IdleSkipSample \/ IdleRecordSample
    \/ IdleStopProfiler \/ IdleTerminate

App == Shutdown \/ Cancel \/ ProfilerPause \/ ProfilerResume \/ ProfilerReset \/ WriteProfile

SyncNext == Step \/ CancelStep \/ App

\* Schedule's thread goes on and every call of a node returns.
SyncFairness == WF_syncVars(Step)

-----------------------------------------------------------------------------
(* Properties.                                                             *)

SyncTypeOK ==
    /\ todo \subseteq active /\ active \subseteq Sources
    /\ pc \in {"InSource", "Consumers", "InConsumer"} => source \in todo
    /\ index \in 1..Len(AllNodes) + 1
    /\ state \in {"NotStarted", "Running", "Cancelling", "Terminated"}
    /\ data \in [Nodes -> PerNodeData]
    /\ \A i \in 1..Len(files) : files[i].data \in [Nodes -> PerNodeData]
    /\ queued \subseteq Nodes \ Sources
    /\ Len(scopes) <= 2

\* What the data say about event type t of node n.
Recorded(t, n) ==
    CASE t = "OPEN" -> data[n].open [] t = "PROCESS" -> data[n].hist.total
      [] t = "CLOSE" -> data[n].close

\* As long as profiling stays on, the data hold every Open, Process and Close
\* that has ended since the last Reset, with the time it took, whichever way
\* it ended, unless a Cancel closes the nodes too, which also ends in Stop
\* (Scope, Schedule, CloseAllNodes, HandleIdle).
ProfileIsComplete ==
    ~ paused /\ idleIndex = 0 =>
        \A n \in Nodes : /\ data[n].hist.count = calls[n]
                         /\ \A t \in EventType : Recorded(t, n) = spent[t][n]

\* Whatever is switched off and on, no call is counted twice or survives a
\* Reset, and no time is recorded that was not spent, except for a call whose
\* scope was entered while profiling was off and left while it was on: its
\* sample starts at time 0.  The buckets agree with the count and the total, in
\* every profile written too (Scope::Scope, Scope::~Scope, AddSample, Reset).
ProfileIsTruthful ==
    /\ \A n \in Nodes :
        /\ data[n].hist.count <= calls[n]
        /\ \A t \in EventType : <<t, n>> \notin stale => Recorded(t, n) <= spent[t][n]
        /\ AddsUp(data[n].hist)
    /\ \A i \in 1..Len(files) : \A n \in Nodes : AddsUp(files[i].data[n].hist)

\* A Schedule that opened its nodes has closed each of them once when it
\* returns, whoever stops or cancels it meanwhile, and one that could not open
\* them closes none, but for one window: if Schedule stores kRunning after a
\* Cancel stored kCancelling and before its HandleIdle has looked at the state,
\* the thread that cancels may close every node once more, at any time.  A node
\* is never processed after it was closed, not even then (Schedule, Cancel,
\* HandleIdle, CloseAllNodes).
ClosedOnceAtTheEnd ==
    /\ ~ overtaken =>
           /\ pc = "Returned" => \A n \in Nodes : closes[n] = 1
           /\ pc \in {"OpenFailed", "Pass"} => \A n \in Nodes : closes[n] = 0
    /\ overtaken /\ pc = "Returned" => \A n \in Nodes : closes[n] \in {1, 2}
    /\ pc \in {"Consumers", "InSource", "InConsumer"} => \A n \in Nodes : closes[n] = 0

\* Schedule returns (its loops, the iterator over active_sources_).
ScheduleReturns == (pc = "Opening") ~> (pc \in {"Returned", "OpenFailed"})

-----------------------------------------------------------------------------
(* The inductive invariant behind the safety properties.                   *)

Leaving == pc \in {"Leave", "Record", "Skip"}
InOpening == pc \in {"NotStarted", "Starting", "Opening", "InOpen"} \/ (Leaving /\ after \in {"Opening", "OpenFailed"})
AfterClosing == pc \in {"Stopped", "Returned"}
InClosing == pc \in {"Closing", "InClose"} \/ (Leaving /\ after = "Closing")

\* The loop over the nodes is at this one, or the scope of this one is left.
Current == IF Leaving /\ after \in {"Opening", "Closing"} THEN index - 1 ELSE index

Scopes == [type : EventType, node : Nodes, entered : Nat, start : Nat, timed : BOOLEAN, end : Nat]

HistoryTypeOK ==
    /\ clock \in Nat /\ profiling \in BOOLEAN /\ paused \in BOOLEAN /\ overtaken \in BOOLEAN
    /\ scopes \in Seq(Scopes)
    /\ files \in Seq({files[i] : i \in 1..Len(files)})
    /\ closes \in [Nodes -> Nat]
    /\ calls \in [Nodes -> Nat]
    /\ spent \in [EventType -> [Nodes -> Nat]]

\* The places of Schedule, and where it may go on when a scope is left.
PlacesKnown ==
    /\ pc \in {"NotStarted", "Starting", "Opening", "InOpen", "OpenFailed", "Pass", "InSource", "Consumers",
               "InConsumer", "Closing", "InClose", "Stopped", "Returned", "Leave", "Record", "Skip"}
    /\ Leaving => after \in {"Opening", "OpenFailed", "Pass", "Consumers", "Closing"}
    /\ pc \in {"InOpen", "InConsumer", "InClose"} => index <= Len(AllNodes)
    /\ Leaving /\ after \in {"Opening", "OpenFailed", "Closing"} => Current \in 1..Len(AllNodes)
    /\ Leaving /\ after = "Consumers" => source \in todo
    /\ AfterClosing => index > Len(AllNodes)

\* The scopes are those of the calls Schedule is in.
ScopesNest ==
    /\ Len(scopes) =
          IF pc \in {"InOpen", "InSource", "Consumers", "InClose"} THEN 1
          ELSE IF pc = "InConsumer" THEN 2
          ELSE IF Leaving THEN IF after = "Consumers" THEN 2 ELSE 1
          ELSE 0
    /\ \A i \in 1..Len(scopes) :
          /\ scopes[i].type = IF InOpening THEN "OPEN" ELSE IF InClosing THEN "CLOSE" ELSE "PROCESS"
          /\ InOpening \/ InClosing => scopes[i].node = AllNodes[Current]

\* A timed scope starts when it is entered; a scope ends after that.
ScopesTimed ==
    \A i \in 1..Len(scopes) :
        /\ scopes[i].entered <= clock
        /\ scopes[i].timed => scopes[i].start = scopes[i].entered
        /\ pc \in {"Record", "Skip"} /\ i = Len(scopes) => scopes[i].entered <= scopes[i].end

\* Unless it was switched off, the profiler is on during the run.
ProfilingOn ==
    ~ paused /\ idleIndex = 0 =>
        /\ pc \notin {"NotStarted", "Starting"} /\ ~ AfterClosing => profiling
        /\ pc # "Skip"
        /\ \A i \in 1..Len(scopes) : scopes[i].timed

\* A node is opened and closed once, so these times are recorded once.
RecordedOnce ==
    idleIndex = 0 =>
        /\ InOpening => \A i \in 1..Len(AllNodes) : i >= Current => data[AllNodes[i]].open = 0
        /\ ~ InClosing /\ ~ AfterClosing => \A n \in Nodes : data[n].close = 0
        /\ InClosing => \A i \in 1..Len(AllNodes) : i >= Current => data[AllNodes[i]].close = 0

\* Schedule's thread and the one that cancels close each node once.
ClosesCounted ==
    \A i \in 1..Len(AllNodes) :
        closes[AllNodes[i]] = (IF (InClosing \/ AfterClosing) /\ i < index THEN 1 ELSE 0)
                                + (IF i < idleIndex THEN 1 ELSE 0)

\* Where the thread that cancels may be.
CancellerKnown ==
    /\ canceller \in {"Outside", "Cancelling", "HandleIdle", "CleanUp", "Queues", "State", "Closing",
                      "InClose", "Leave", "Record", "Skip", "Terminate", "Returned"}
    /\ idleIndex \in 0..Len(AllNodes) + 1
    /\ canceller \in {"Closing", "InClose", "Leave", "Record", "Skip"} => idleIndex >= 1
    /\ canceller \in {"Outside", "Cancelling", "HandleIdle", "CleanUp", "Queues", "State"} => idleIndex = 0
    /\ canceller = "InClose" => idleIndex <= Len(AllNodes)
    /\ canceller # "Outside" => hasError

\* The scope of its Close.
IdleScopeKnown ==
    /\ canceller \in {"InClose", "Leave", "Record", "Skip"} =>
           /\ idleScope \in Scopes /\ idleScope.type = "CLOSE"
           /\ idleScope.entered <= clock
           /\ idleScope.timed => idleScope.start = idleScope.entered
    /\ canceller \in {"Record", "Skip"} => idleScope.entered <= idleScope.end

\* Only in a run that overtook it does it come to close the nodes, and such a
\* run processes none.
ClosesOnlyOvertaken ==
    /\ ~ overtaken =>
           /\ idleIndex = 0
           /\ canceller = "HandleIdle" => state \in {"Cancelling", "Terminated"}
           /\ canceller \in {"Queues", "State"} => state = "Terminated"
    /\ overtaken =>
           /\ hasError
           /\ pc \notin {"NotStarted", "InSource", "Consumers", "InConsumer"}
           /\ Leaving => after \notin {"Pass", "Consumers"}

\* What every step of Schedule and of the other threads preserves.
SyncInv ==
    /\ SyncTypeOK
    /\ HistoryTypeOK
    /\ PlacesKnown
    /\ ScopesNest
    /\ ScopesTimed
    /\ ProfilingOn
    /\ RecordedOnce
    /\ ClosesCounted
    /\ CancellerKnown
    /\ IdleScopeKnown
    /\ ClosesOnlyOvertaken
    /\ ProfileIsComplete
    /\ ProfileIsTruthful
=============================================================================
