------------------------ MODULE SchedulerQueueProofs ------------------------
(***************************************************************************)
(* Theorems about SchedulerQueue, for any number of nodes, queues, workers *)
(* and client threads, and for any bound MaxTasks.                         *)
(***************************************************************************)
EXTENDS SchedulerQueue, FiniteSetTheorems, TLAPS

-----------------------------------------------------------------------------
(* Finite sets.                                                            *)

\* The cardinality of a finite set is a natural number, positive if the set
\* has an element.
LEMMA CardPositive ==
    ASSUME NEW S, IsFiniteSet(S)
    PROVE  /\ Cardinality(S) \in Nat
           /\ \A x \in S : Cardinality(S) >= 1
<1>1. Cardinality(S) \in Nat
  BY FS_CardinalityType
<1>2. ASSUME NEW x \in S PROVE Cardinality(S) >= 1
  <2>1. /\ IsFiniteSet(S \ {x})
        /\ Cardinality(S \ {x}) = Cardinality(S) - 1
    BY FS_RemoveElement
  <2>2. Cardinality(S \ {x}) \in Nat
    BY <2>1, FS_CardinalityType
  <2>. QED  BY <1>1, <2>1, <2>2
<1>. QED  BY <1>1, <1>2

\* Adding a new element adds one to the cardinality.
LEMMA CardAdd ==
    ASSUME NEW S, IsFiniteSet(S), NEW x, x \notin S
    PROVE  Cardinality(S \cup {x}) = Cardinality(S) + 1
BY FS_AddElement

\* Removing an element takes one from the cardinality.
LEMMA CardRemove ==
    ASSUME NEW S, IsFiniteSet(S), NEW x \in S
    PROVE  Cardinality(S \ {x}) = Cardinality(S) - 1
BY FS_RemoveElement

\* The sets that the invariant counts are finite: they are sets of threads.
LEMMA CountedSetsFinite ==
    /\ IsFiniteSet(Threads)
    /\ \A n : IsFiniteSet(InFlight(n))
    /\ \A q : IsFiniteSet(Holding(q)) /\ IsFiniteSet(Sending(q))
<1>1. IsFiniteSet(Workers) /\ IsFiniteSet(Clients)
  BY WorkersAssumption
<1>2. IsFiniteSet(Threads)
  BY <1>1, FS_Union DEF Threads
<1>3. ASSUME NEW n PROVE IsFiniteSet(InFlight(n))
  <2>1. InFlight(n) \subseteq Workers
    BY DEF InFlight
  <2>. QED  BY <1>1, <2>1, FS_Subset
<1>4. ASSUME NEW q PROVE IsFiniteSet(Holding(q)) /\ IsFiniteSet(Sending(q))
  <2>1. Holding(q) \subseteq Workers /\ Sending(q) \subseteq Threads
    BY DEF Holding, Sending
  <2>. QED  BY <1>1, <1>2, <2>1, FS_Subset
<1>. QED  BY <1>2, <1>3, <1>4

-----------------------------------------------------------------------------
(* The initial states.                                                     *)

\* Before Start every queue is empty and stopped and every counter is zero,
\* so the invariant holds.
LEMMA InitInv == Init => IndInv
<1>. SUFFICES ASSUME Init PROVE IndInv
  OBVIOUS
<1>. USE DEF Init, QueueInit
<1>1. TypeOK
  BY WorkersAssumption DEF TypeOK, QueueTypeOK, Points
<1>2. RunsOwnNode /\ OneSubmitStep
  BY DEF RunsOwnNode, OneSubmitStep
<1>3. PendingAccounted
  <2>. SUFFICES ASSUME NEW n \in Nodes
                PROVE  /\ queue[n] + Cardinality(InFlight(n)) <= pendingCount[n]
                       /\ pendingCount[n] <= MaxInFlight[n]
                       /\ QueueOf[n] \notin cleaned =>
                             pendingCount[n] = queue[n] + Cardinality(InFlight(n))
    BY DEF PendingAccounted
  <2>1. InFlight(n) = {}
    BY DEF InFlight
  <2>2. Cardinality(InFlight(n)) = 0
    BY <2>1, FS_EmptySet
  <2>. QED  BY <2>2, MaxInFlightAssumption
<1>4. TasksAccounted
  <2>. SUFFICES ASSUME NEW q \in Queues
                PROVE  numPending[q] = tasks[q] + Cardinality(Holding(q))
                                          + Cardinality(Sending(q))
    BY DEF TasksAccounted
  <2>1. Holding(q) = {}
    BY DEF Holding
  <2>2. Sending(q) = {}
    BY NullAssumption DEF Sending
  <2>3. Cardinality(Holding(q)) = 0 /\ Cardinality(Sending(q)) = 0
    BY <2>1, <2>2, FS_EmptySet
  <2>. QED  BY <2>3
<1>5. NoStrandedItem
  BY WithExecutorAssumption DEF NoStrandedItem
<1>. QED  BY <1>1, <1>2, <1>3, <1>4, <1>5 DEF IndInv

-----------------------------------------------------------------------------
(* The steps.  One lemma per conjunct of IndInv, one case per action.      *)

\* A worker between TryPop and DecrementPending leaves pending_count_ positive.
LEMMA RunningIsPending ==
    ASSUME IndInv, NEW w \in Workers, pc[w] = "run"
    PROVE  cur[w] \in Nodes /\ pendingCount[cur[w]] >= 1
<1>1. cur[w] \in Nodes
  BY DEF IndInv, RunsOwnNode, NodesOf
<1>2. w \in InFlight(cur[w])
  BY DEF InFlight
<1>3. Cardinality(InFlight(cur[w])) \in Nat /\ Cardinality(InFlight(cur[w])) >= 1
  BY <1>2, CountedSetsFinite, CardPositive
<1>4. /\ queue[cur[w]] \in Nat
      /\ pendingCount[cur[w]] \in Nat
      /\ queue[cur[w]] + Cardinality(InFlight(cur[w])) <= pendingCount[cur[w]]
  BY <1>1 DEF IndInv, TypeOK, QueueTypeOK, PendingAccounted
<1>. QED  BY <1>1, <1>3, <1>4

\* Every step keeps the variables in their types; above all, no counter
\* becomes negative.
LEMMA TypeStep == IndInv /\ [Next]_vars => TypeOK'
<1>. SUFFICES ASSUME IndInv, [Next]_vars PROVE TypeOK'
  OBVIOUS
<1>. USE DEF TypeOK, QueueTypeOK
<1>0. TypeOK
  BY DEF IndInv
<1>1. CASE UNCHANGED vars
  BY <1>0, <1>1 DEF vars, queueVars, threadVars
<1>2. ASSUME NEW t \in Threads, Count(t) PROVE TypeOK'
  BY <1>0, <1>2 DEF Count, CountTask
<1>3. ASSUME NEW t \in Threads, Send(t) PROVE TypeOK'
  BY <1>0, <1>3 DEF Send, ScheduleTask
<1>4. ASSUME NEW t \in Threads, NEW n \in Nodes, AddNode(t, n) PROVE TypeOK'
  <2>1. QueueOf[n] \in Queues
    BY QueueOfAssumption
  <2>2. counting' \in [Threads -> Queues \cup {NoQueue}]
    BY <1>0, <1>4, <2>1 DEF AddNode, Submit
  <2>. QED  BY <1>0, <1>4, <2>2 DEF AddNode, PushItem
<1>5. ASSUME NEW t \in Threads, NEW q \in Queues, NEW b \in BOOLEAN, SetRunning(t, q, b)
      PROVE  TypeOK'
  BY <1>0, <1>5 DEF SetRunning, AssignRunning, Submit
<1>6. ASSUME NEW t \in Threads, NEW q \in Queues, SubmitWaitingTasksToExecutor(t, q)
      PROVE  TypeOK'
  BY <1>0, <1>6 DEF SubmitWaitingTasksToExecutor, Submit, queueVars
<1>7. ASSUME NEW t \in Threads, NEW q \in Queues, Cleanup(t, q) PROVE TypeOK'
  BY <1>0, <1>7 DEF Cleanup, CleanupAfterRun, threadVars
<1>8. ASSUME NEW w \in Workers, TakeTask(w) PROVE TypeOK'
  <2>1. WorkerQueue[w] \in Queues
    BY WorkersAssumption
  <2>2. tasks' \in [Queues -> Nat]
    BY <1>0, <1>8, <2>1 DEF TakeTask, DequeueTask
  <2>. QED  BY <1>0, <1>8, <2>2 DEF TakeTask, DequeueTask, Points
<1>9. ASSUME NEW w \in Workers, TryPop(w) PROVE TypeOK'
  BY <1>0, <1>9 DEF TryPop, PopItem, IsTop, Queued, NodesOf, Points
<1>10. ASSUME NEW w \in Workers, TryPopFails(w) PROVE TypeOK'
  BY <1>0, <1>10 DEF TryPopFails, queueVars, Points
<1>11. ASSUME NEW w \in Workers, EndProcess(w) PROVE TypeOK'
  <2>1. cur[w] \in Nodes /\ pendingCount[cur[w]] >= 1
    BY <1>11, RunningIsPending DEF EndProcess
  <2>2. pendingCount' \in [Nodes -> Nat]
    BY <1>0, <1>11, <2>1 DEF EndProcess, DecrementPending
  <2>. QED  BY <1>0, <1>11, <2>2 DEF EndProcess, DecrementPending, Points
<1>12. ASSUME NEW w \in Workers, OnTaskFinished(w) PROVE TypeOK'
  <2>1. WorkerQueue[w] \in Queues
    BY WorkersAssumption
  <2>2. counting' \in [Threads -> Queues \cup {NoQueue}]
    BY <1>0, <1>12, <2>1 DEF OnTaskFinished, Submit
  <2>3. numPending' \in [Queues -> Nat]
    BY <1>0, <1>12, <2>1 DEF OnTaskFinished, UncountTask
  <2>. QED  BY <1>0, <1>12, <2>2, <2>3 DEF OnTaskFinished, UncountTask, Points
<1>13. ASSUME NEW w \in Workers, NoItem(w) PROVE TypeOK'
  <2>1. WorkerQueue[w] \in Queues
    BY WorkersAssumption
  <2>2. numPending' \in [Queues -> Nat]
    BY <1>0, <1>13, <2>1 DEF NoItem, UncountTask
  <2>. QED  BY <1>0, <1>13, <2>2 DEF NoItem, UncountTask, Points
<1>14. ASSUME NEW w \in Workers, EndIdle(w) PROVE TypeOK'
  BY <1>0, <1>14 DEF EndIdle, queueVars, Points
<1>. QED
  BY <1>1, <1>2, <1>3, <1>4, <1>5, <1>6, <1>7, <1>8, <1>9, <1>10, <1>11, <1>12, <1>13, <1>14
     DEF Next, Call, WorkerStep

\* A worker keeps running a node of its own queue.
LEMMA RunsOwnNodeStep == IndInv /\ [Next]_vars => RunsOwnNode'
<1>. SUFFICES ASSUME IndInv, [Next]_vars PROVE RunsOwnNode'
  OBVIOUS
<1>. USE DEF RunsOwnNode, NodesOf
<1>0. RunsOwnNode /\ pc \in [Workers -> Points] /\ cur \in [Workers -> Nodes \cup {NoNode}]
  BY DEF IndInv, TypeOK
<1>1. CASE UNCHANGED <<pc, cur>>
  BY <1>0, <1>1
<1>2. ASSUME NEW w \in Workers, TakeTask(w) \/ TryPopFails(w) \/ NoItem(w) \/ EndIdle(w)
      PROVE  RunsOwnNode'
  BY <1>0, <1>2 DEF TakeTask, TryPopFails, NoItem, EndIdle
<1>3. ASSUME NEW w \in Workers, TryPop(w) PROVE RunsOwnNode'
  BY <1>0, <1>3 DEF TryPop
<1>4. ASSUME NEW w \in Workers, EndProcess(w) PROVE RunsOwnNode'
  BY <1>0, <1>4 DEF EndProcess
<1>5. ASSUME NEW w \in Workers, OnTaskFinished(w) PROVE RunsOwnNode'
  BY <1>0, <1>5 DEF OnTaskFinished
<1>6. ASSUME NEW t \in Threads, Count(t) \/ Send(t) PROVE UNCHANGED <<pc, cur>>
  BY <1>6 DEF Count, Send
<1>7. ASSUME NEW t \in Threads, Call(t) PROVE UNCHANGED <<pc, cur>>
  BY <1>7 DEF Call, AddNode, SetRunning, SubmitWaitingTasksToExecutor, Cleanup, threadVars
<1>8. CASE UNCHANGED vars
  BY <1>1, <1>8 DEF vars, threadVars
<1>. QED
  BY <1>1, <1>2, <1>3, <1>4, <1>5, <1>6, <1>7, <1>8 DEF Next, WorkerStep

\* A thread enters SubmitToExecutor only when it is not inside it.
LEMMA OneSubmitStepStep == IndInv /\ [Next]_vars => OneSubmitStep'
<1>. SUFFICES ASSUME IndInv, [Next]_vars PROVE OneSubmitStep'
  OBVIOUS
<1>. USE DEF OneSubmitStep
<1>0. /\ OneSubmitStep
      /\ counting \in [Threads -> Queues \cup {NoQueue}]
      /\ sending \in [Threads -> Queues \cup {NoQueue}]
  BY DEF IndInv, TypeOK
<1>1. CASE UNCHANGED <<counting, sending>>
  BY <1>0, <1>1
<1>2. ASSUME NEW t \in Threads, Count(t) PROVE OneSubmitStep'
  BY <1>0, <1>2 DEF Count
<1>3. ASSUME NEW t \in Threads, Send(t) PROVE OneSubmitStep'
  BY <1>0, <1>3 DEF Send
<1>4. ASSUME NEW t \in Threads, ~ Submitting(t), NEW b, NEW q,
             Submit(t, b, q), UNCHANGED sending
      PROVE  OneSubmitStep'
  BY <1>0, <1>4 DEF Submit, Submitting
<1>5. ASSUME NEW t \in Threads, Call(t)
      PROVE  OneSubmitStep'
  <2>1. CASE \E n \in Nodes : AddNode(t, n)
    BY <1>4, <2>1 DEF AddNode, MayCall
  <2>2. CASE \E q \in Queues, b \in BOOLEAN : SetRunning(t, q, b)
    BY <1>4, <2>2 DEF SetRunning, MayCall
  <2>3. CASE \E q \in Queues : SubmitWaitingTasksToExecutor(t, q)
    BY <1>4, <2>3 DEF SubmitWaitingTasksToExecutor, MayCall
  <2>4. CASE \E q \in Queues : Cleanup(t, q)
    BY <1>1, <2>4 DEF Cleanup, threadVars
  <2>. QED  BY <1>5, <2>1, <2>2, <2>3, <2>4 DEF Call
<1>6. ASSUME NEW w \in Workers, OnTaskFinished(w) PROVE OneSubmitStep'
  <2>1. w \in Threads
    BY DEF Threads
  <2>. QED  BY <1>4, <1>6, <2>1 DEF OnTaskFinished
<1>7. ASSUME NEW w \in Workers, WorkerStep(w), ~ OnTaskFinished(w)
      PROVE  UNCHANGED <<counting, sending>>
  BY <1>7 DEF WorkerStep, TakeTask, TryPop, TryPopFails, EndProcess, NoItem, EndIdle
<1>8. CASE UNCHANGED vars
  BY <1>1, <1>8 DEF vars, threadVars
<1>. QED
  BY <1>1, <1>2, <1>3, <1>5, <1>6, <1>7, <1>8 DEF Next

\* The gate of AddNode and the decrement of RunNode keep pending_count_ an
\* upper bound of the queued and running invocations, within MaxInFlight.
LEMMA PendingAccountedStep == IndInv /\ [Next]_vars => PendingAccounted'
<1>. SUFFICES ASSUME IndInv, [Next]_vars, NEW n \in Nodes
              PROVE  /\ queue'[n] + Cardinality(InFlight(n)') <= pendingCount'[n]
                     /\ pendingCount'[n] <= MaxInFlight[n]
                     /\ QueueOf[n] \notin cleaned' =>
                           pendingCount'[n] = queue'[n] + Cardinality(InFlight(n)')
  BY DEF PendingAccounted
<1>. DEFINE Goal == /\ queue'[n] + Cardinality(InFlight(n)') <= pendingCount'[n]
                    /\ pendingCount'[n] <= MaxInFlight[n]
                    /\ QueueOf[n] \notin cleaned' =>
                          pendingCount'[n] = queue'[n] + Cardinality(InFlight(n)')
<1>0. /\ queue[n] \in Nat /\ pendingCount[n] \in Nat /\ MaxInFlight[n] \in Nat
      /\ queue[n] + Cardinality(InFlight(n)) <= pendingCount[n]
      /\ pendingCount[n] <= MaxInFlight[n]
      /\ QueueOf[n] \notin cleaned => pendingCount[n] = queue[n] + Cardinality(InFlight(n))
  BY MaxInFlightAssumption DEF IndInv, TypeOK, QueueTypeOK, PendingAccounted
<1>c. IsFiniteSet(InFlight(n)) /\ Cardinality(InFlight(n)) \in Nat
  BY CountedSetsFinite, CardPositive
<1>t. /\ queue \in [Nodes -> Nat] /\ pendingCount \in [Nodes -> Nat]
      /\ pc \in [Workers -> Points] /\ cur \in [Workers -> Nodes \cup {NoNode}]
  BY DEF IndInv, TypeOK, QueueTypeOK
<1>1. ASSUME UNCHANGED <<queue, pendingCount, cleaned>>,
             \A w \in Workers : (pc'[w] = "run" /\ cur'[w] = n) <=> (pc[w] = "run" /\ cur[w] = n)
      PROVE  Goal
  <2>1. InFlight(n)' = InFlight(n)
    BY <1>1 DEF InFlight
  <2>. QED  BY <1>0, <1>1, <2>1
<1>2. ASSUME NEW t \in Threads, NEW m \in Nodes, AddNode(t, m) PROVE Goal
  <2>1. InFlight(n)' = InFlight(n) /\ cleaned' = cleaned
    BY <1>2 DEF AddNode, InFlight
  <2>2. CASE m = n
    <3>1. /\ pendingCount[n] < MaxInFlight[n]
          /\ pendingCount'[n] = pendingCount[n] + 1
          /\ queue'[n] = queue[n] + 1
      BY <1>0, <1>2, <1>t, <2>2 DEF AddNode, PushItem, AtLimit
    <3>. QED  BY <1>0, <1>c, <2>1, <3>1
  <2>3. CASE m # n
    <3>1. pendingCount'[n] = pendingCount[n] /\ queue'[n] = queue[n]
      BY <1>2, <1>t, <2>3 DEF AddNode, PushItem
    <3>. QED  BY <1>0, <2>1, <3>1
  <2>. QED  BY <2>2, <2>3
<1>3. ASSUME NEW t \in Threads, NEW q \in Queues, Cleanup(t, q) PROVE Goal
  <2>1. InFlight(n)' = InFlight(n)
    BY <1>3 DEF Cleanup, threadVars, InFlight
  <2>2. /\ pendingCount'[n] = pendingCount[n]
        /\ queue'[n] = IF QueueOf[n] = q THEN 0 ELSE queue[n]
        /\ cleaned' = cleaned \cup {q}
    BY <1>3 DEF Cleanup, CleanupAfterRun
  <2>. QED  BY <1>0, <1>c, <2>1, <2>2
<1>4. ASSUME NEW w \in Workers, TryPop(w) PROVE Goal
  <2>1. PICK m \in Nodes : PopItem(m) /\ cur' = [cur EXCEPT ![w] = m]
    BY <1>4 DEF TryPop, NodesOf
  <2>2. pc[w] = "pop" /\ pc' = [pc EXCEPT ![w] = "run"] /\ cleaned' = cleaned
    BY <1>4 DEF TryPop
  <2>3. w \notin InFlight(n)
    BY <2>2 DEF InFlight
  <2>4. CASE m = n
    <3>1. InFlight(n)' = InFlight(n) \cup {w}
      BY <1>t, <2>1, <2>2, <2>4 DEF InFlight
    <3>2. Cardinality(InFlight(n)') = Cardinality(InFlight(n)) + 1
      BY <1>c, <2>3, <3>1, CardAdd
    <3>3. queue'[n] = queue[n] - 1 /\ pendingCount'[n] = pendingCount[n]
      BY <1>t, <2>1, <2>4 DEF PopItem
    <3>. QED  BY <1>0, <1>c, <2>2, <3>2, <3>3
  <2>5. CASE m # n
    <3>1. InFlight(n)' = InFlight(n)
      BY <1>t, <2>1, <2>2, <2>5 DEF InFlight
    <3>2. queue'[n] = queue[n] /\ pendingCount'[n] = pendingCount[n]
      BY <1>t, <2>1, <2>5 DEF PopItem
    <3>. QED  BY <1>0, <2>2, <3>1, <3>2
  <2>. QED  BY <2>4, <2>5
<1>5. ASSUME NEW w \in Workers, EndProcess(w) PROVE Goal
  <2>1. /\ pc[w] = "run" /\ pc' = [pc EXCEPT ![w] = "post"]
        /\ UNCHANGED <<cur, queue, cleaned>>
        /\ pendingCount' = [pendingCount EXCEPT ![cur[w]] = @ - 1]
    BY <1>5 DEF EndProcess, DecrementPending
  <2>2. CASE cur[w] = n
    <3>1. w \in InFlight(n) /\ InFlight(n)' = InFlight(n) \ {w}
      BY <1>t, <2>1, <2>2 DEF InFlight
    <3>2. Cardinality(InFlight(n)') = Cardinality(InFlight(n)) - 1
      BY <1>c, <3>1, CardRemove
    <3>3. queue'[n] = queue[n] /\ pendingCount'[n] = pendingCount[n] - 1
      BY <1>t, <2>1, <2>2
    <3>. QED  BY <1>0, <1>c, <2>1, <3>2, <3>3
  <2>3. CASE cur[w] # n
    <3>1. InFlight(n)' = InFlight(n)
      BY <1>t, <2>1, <2>3 DEF InFlight
    <3>2. queue'[n] = queue[n] /\ pendingCount'[n] = pendingCount[n]
      BY <1>t, <2>1, <2>3
    <3>. QED  BY <1>0, <2>1, <3>1, <3>2
  <2>. QED  BY <2>2, <2>3
<1>6. ASSUME NEW w \in Workers, TakeTask(w) \/ TryPopFails(w) \/ NoItem(w) \/ EndIdle(w)
      PROVE  Goal
  BY <1>1, <1>6, <1>t
     DEF TakeTask, DequeueTask, TryPopFails, NoItem, UncountTask, EndIdle, queueVars
<1>7. ASSUME NEW w \in Workers, OnTaskFinished(w) PROVE Goal
  BY <1>1, <1>7, <1>t DEF OnTaskFinished, UncountTask
<1>8. ASSUME NEW t \in Threads, Count(t) \/ Send(t) PROVE Goal
  BY <1>1, <1>8 DEF Count, CountTask, Send, ScheduleTask
<1>9. ASSUME NEW t \in Threads, NEW q \in Queues,
             \/ \E b \in BOOLEAN : SetRunning(t, q, b)
             \/ SubmitWaitingTasksToExecutor(t, q)
      PROVE  Goal
  BY <1>1, <1>9 DEF SetRunning, AssignRunning, SubmitWaitingTasksToExecutor, queueVars
<1>10. CASE UNCHANGED vars
  BY <1>1, <1>10 DEF vars, queueVars, threadVars
<1>. QED
  BY <1>2, <1>3, <1>4, <1>5, <1>6, <1>7, <1>8, <1>9, <1>10 DEF Next, Call, WorkerStep

\* The increment of SubmitToExecutor and the clamped decrements keep
\* num_pending_tasks_ equal to the number of outstanding tasks, or below it
\* once CleanupAfterRun has reset it.
LEMMA TasksAccountedStep == IndInv /\ [Next]_vars => TasksAccounted'
<1>. SUFFICES ASSUME IndInv, [Next]_vars, NEW q \in Queues
              PROVE  LET out == tasks'[q] + Cardinality(Holding(q)') + Cardinality(Sending(q)')
                     IN  /\ numPending'[q] <= out
                         /\ q \notin cleaned' => numPending'[q] = out
  BY DEF TasksAccounted
<1>. DEFINE H == Cardinality(Holding(q))
            S == Cardinality(Sending(q))
            HH == Cardinality(Holding(q)')
            SS == Cardinality(Sending(q)')
            Goal == /\ numPending'[q] <= tasks'[q] + HH + SS
                    /\ q \notin cleaned' => numPending'[q] = tasks'[q] + HH + SS
<1>0. /\ numPending[q] \in Nat /\ tasks[q] \in Nat
      /\ numPending[q] <= tasks[q] + H + S
      /\ q \notin cleaned => numPending[q] = tasks[q] + H + S
  BY DEF IndInv, TypeOK, QueueTypeOK, TasksAccounted
<1>c. /\ IsFiniteSet(Holding(q)) /\ H \in Nat
      /\ IsFiniteSet(Sending(q)) /\ S \in Nat
  BY CountedSetsFinite, CardPositive
<1>t. /\ numPending \in [Queues -> Nat] /\ tasks \in [Queues -> Nat]
      /\ pc \in [Workers -> Points]
      /\ counting \in [Threads -> Queues \cup {NoQueue}]
      /\ sending \in [Threads -> Queues \cup {NoQueue}]
  BY DEF IndInv, TypeOK, QueueTypeOK
<1>n. q # NoQueue /\ \A w \in Workers : WorkerQueue[w] \in Queues
  BY NullAssumption, WorkersAssumption
<1>1. ASSUME numPending'[q] = numPending[q], tasks'[q] = tasks[q], UNCHANGED cleaned,
             Holding(q)' = Holding(q), Sending(q)' = Sending(q)
      PROVE  Goal
  BY <1>0, <1>1
<1>2. ASSUME NEW t \in Threads, Count(t) PROVE Goal
  <2>1. /\ counting[t] \in Queues /\ sending[t] = NoQueue
        /\ numPending' = [numPending EXCEPT ![counting[t]] = @ + 1]
        /\ sending' = [sending EXCEPT ![t] = counting[t]]
        /\ UNCHANGED <<tasks, cleaned>>
    BY <1>2, <1>t DEF Count, CountTask, IndInv, OneSubmitStep
  <2>2. Holding(q)' = Holding(q)
    BY <1>2 DEF Count, Holding
  <2>3. CASE counting[t] = q
    <3>1. t \notin Sending(q) /\ Sending(q)' = Sending(q) \cup {t}
      BY <1>n, <1>t, <2>1, <2>3 DEF Sending
    <3>2. SS = S + 1
      BY <1>c, <3>1, CardAdd
    <3>3. numPending'[q] = numPending[q] + 1
      BY <1>t, <2>1, <2>3
    <3>. QED  BY <1>0, <1>c, <2>1, <2>2, <3>2, <3>3
  <2>4. CASE counting[t] # q
    <3>1. Sending(q)' = Sending(q)
      BY <1>n, <1>t, <2>1, <2>4 DEF Sending
    <3>2. numPending'[q] = numPending[q]
      BY <1>t, <2>1, <2>4
    <3>. QED  BY <1>1, <2>1, <2>2, <3>1, <3>2
  <2>. QED  BY <2>3, <2>4
<1>3. ASSUME NEW t \in Threads, Send(t) PROVE Goal
  <2>1. /\ sending[t] \in Queues
        /\ tasks' = [tasks EXCEPT ![sending[t]] = @ + 1]
        /\ sending' = [sending EXCEPT ![t] = NoQueue]
        /\ UNCHANGED <<numPending, cleaned>>
    BY <1>3, <1>t DEF Send, ScheduleTask
  <2>2. Holding(q)' = Holding(q)
    BY <1>3 DEF Send, Holding
  <2>3. CASE sending[t] = q
    <3>1. t \in Sending(q) /\ Sending(q)' = Sending(q) \ {t}
      BY <1>n, <1>t, <2>1, <2>3 DEF Sending
    <3>2. SS = S - 1
      BY <1>c, <3>1, CardRemove
    <3>3. tasks'[q] = tasks[q] + 1
      BY <1>t, <2>1, <2>3
    <3>. QED  BY <1>0, <1>c, <2>1, <2>2, <3>2, <3>3
  <2>4. CASE sending[t] # q
    <3>1. Sending(q)' = Sending(q)
      BY <1>n, <1>t, <2>1, <2>4 DEF Sending
    <3>2. tasks'[q] = tasks[q]
      BY <1>t, <2>1, <2>4
    <3>. QED  BY <1>1, <2>1, <2>2, <3>1, <3>2
  <2>. QED  BY <2>3, <2>4
<1>4. ASSUME NEW w \in Workers, TakeTask(w) PROVE Goal
  <2>1. /\ pc[w] = "wait" /\ pc' = [pc EXCEPT ![w] = "pop"]
        /\ tasks' = [tasks EXCEPT ![WorkerQueue[w]] = @ - 1]
        /\ UNCHANGED <<numPending, cleaned, sending>>
    BY <1>4 DEF TakeTask, DequeueTask
  <2>2. Sending(q)' = Sending(q)
    BY <2>1 DEF Sending
  <2>3. CASE WorkerQueue[w] = q
    <3>1. w \notin Holding(q) /\ Holding(q)' = Holding(q) \cup {w}
      BY <1>t, <2>1, <2>3 DEF Holding
    <3>2. HH = H + 1
      BY <1>c, <3>1, CardAdd
    <3>3. tasks'[q] = tasks[q] - 1
      BY <1>t, <2>1, <2>3
    <3>. QED  BY <1>0, <1>c, <2>1, <2>2, <3>2, <3>3
  <2>4. CASE WorkerQueue[w] # q
    <3>1. Holding(q)' = Holding(q)
      BY <1>t, <2>1, <2>4 DEF Holding
    <3>2. tasks'[q] = tasks[q]
      BY <1>t, <2>1, <2>4
    <3>. QED  BY <1>1, <2>1, <2>2, <3>1, <3>2
  <2>. QED  BY <2>3, <2>4
<1>5. ASSUME NEW w \in Workers, OnTaskFinished(w) \/ NoItem(w) PROVE Goal
  <2>1. /\ pc[w] \in {"post", "empty"} /\ pc' = [pc EXCEPT ![w] = "idle"]
        /\ UncountTask(WorkerQueue[w])
        /\ UNCHANGED <<cleaned, sending>>
    BY <1>5 DEF OnTaskFinished, NoItem
  <2>2. tasks'[q] = tasks[q] /\ Sending(q)' = Sending(q)
    BY <2>1 DEF UncountTask, Sending
  <2>3. CASE WorkerQueue[w] = q
    <3>1. w \in Holding(q) /\ Holding(q)' = Holding(q) \ {w}
      BY <1>t, <2>1, <2>3 DEF Holding
    <3>2. HH = H - 1 /\ H >= 1
      BY <1>c, <3>1, CardRemove, CardPositive
    <3>3. numPending'[q] = IF numPending[q] > 0 THEN numPending[q] - 1 ELSE numPending[q]
      BY <1>t, <2>1, <2>3 DEF UncountTask
    <3>. QED  BY <1>0, <1>c, <2>1, <2>2, <3>2, <3>3
  <2>4. CASE WorkerQueue[w] # q
    <3>1. Holding(q)' = Holding(q)
      BY <1>t, <2>1, <2>4 DEF Holding
    <3>2. numPending'[q] = numPending[q]
      BY <1>t, <2>1, <2>4 DEF UncountTask
    <3>. QED  BY <1>1, <2>1, <2>2, <3>1, <3>2
  <2>. QED  BY <2>3, <2>4
<1>6. ASSUME NEW t \in Threads, NEW p \in Queues, Cleanup(t, p) PROVE Goal
  <2>1. /\ Holding(q)' = Holding(q) /\ Sending(q)' = Sending(q)
        /\ tasks'[q] = tasks[q] /\ cleaned' = cleaned \cup {p}
    BY <1>6 DEF Cleanup, CleanupAfterRun, threadVars, Holding, Sending
  <2>2. CASE p = q
    <3>1. numPending'[q] = 0
      BY <1>6, <1>t, <2>2 DEF Cleanup, CleanupAfterRun
    <3>. QED  BY <1>0, <1>c, <2>1, <2>2, <3>1
  <2>3. CASE p # q
    <3>1. numPending'[q] = numPending[q]
      BY <1>6, <1>t, <2>3 DEF Cleanup, CleanupAfterRun
    <3>. QED  BY <1>0, <2>1, <2>3, <3>1
  <2>. QED  BY <2>2, <2>3
<1>7. ASSUME NEW w \in Workers, TryPop(w) \/ TryPopFails(w) \/ EndProcess(w) PROVE Goal
  <2>1. /\ pc[w] \in {"pop", "run"}
        /\ \E p \in {"empty", "run", "post"} : pc' = [pc EXCEPT ![w] = p]
        /\ UNCHANGED <<numPending, tasks, cleaned, sending>>
    BY <1>7 DEF TryPop, PopItem, TryPopFails, EndProcess, DecrementPending, queueVars
  <2>2. Holding(q)' = Holding(q) /\ Sending(q)' = Sending(q)
    BY <1>t, <2>1 DEF Holding, Sending
  <2>. QED  BY <1>1, <2>1, <2>2
<1>8. ASSUME NEW w \in Workers, EndIdle(w) PROVE Goal
  <2>1. Holding(q)' = Holding(q) /\ Sending(q)' = Sending(q)
    BY <1>8, <1>t DEF EndIdle, Holding, Sending
  <2>. QED  BY <1>1, <1>8, <2>1 DEF EndIdle, queueVars
<1>9. ASSUME UNCHANGED <<numPending, tasks, cleaned, sending, pc>> PROVE Goal
  BY <1>1, <1>9 DEF Holding, Sending
<1>10. ASSUME NEW t \in Threads, NEW n \in Nodes, AddNode(t, n) PROVE Goal
  BY <1>9, <1>10 DEF AddNode, PushItem
<1>11. ASSUME NEW t \in Threads, NEW p \in Queues,
              \/ \E b \in BOOLEAN : SetRunning(t, p, b)
              \/ SubmitWaitingTasksToExecutor(t, p)
       PROVE  Goal
  BY <1>9, <1>11 DEF SetRunning, AssignRunning, SubmitWaitingTasksToExecutor, queueVars
<1>12. CASE UNCHANGED vars
  BY <1>9, <1>12 DEF vars, queueVars, threadVars
<1>. QED
  BY <1>2, <1>3, <1>4, <1>5, <1>6, <1>7, <1>8, <1>10, <1>11, <1>12
     DEF Next, Call, WorkerStep

\* Every step that consumes the evidence that a queue will be looked at
\* (a task, a worker, a submission) hands it on or finds the queue empty.
LEMMA NoStrandedItemStep == IndInv /\ [Next]_vars => NoStrandedItem'
<1>. DEFINE Looked(q) ==
              \/ tasks[q] > 0
              \/ \E w \in Workers : WorkerQueue[w] = q /\ pc[w] \in {"pop", "run", "post"}
              \/ \E t \in Threads : q \in {counting[t], sending[t]}
<1>. SUFFICES ASSUME IndInv, [Next]_vars, NEW q \in WithExecutor,
                     running'[q], Queued(q)' # {}
              PROVE  Looked(q)'
  BY DEF NoStrandedItem
<1>0. q \in Queues /\ q # NoQueue
  BY WithExecutorAssumption, NullAssumption
<1>i. running[q] /\ Queued(q) # {} => Looked(q)
  BY DEF IndInv, NoStrandedItem
<1>t. /\ queue \in [Nodes -> Nat] /\ tasks \in [Queues -> Nat]
      /\ running \in [Queues -> BOOLEAN]
      /\ pc \in [Workers -> Points]
      /\ counting \in [Threads -> Queues \cup {NoQueue}]
      /\ sending \in [Threads -> Queues \cup {NoQueue}]
  BY DEF IndInv, TypeOK, QueueTypeOK
<1>w. ASSUME NEW w \in Workers PROVE w \in Threads /\ WorkerQueue[w] \in Queues
  BY WorkersAssumption DEF Threads
<1>1. ASSUME running'[q] = running[q], UNCHANGED queue PROVE Looked(q)
  BY <1>1, <1>i DEF Queued, NodesOf
\* Entering SubmitToExecutor loses no evidence.
<1>2. ASSUME NEW t \in Threads, ~ Submitting(t), NEW b, NEW p, Submit(t, b, p),
             UNCHANGED <<tasks, pc, sending>>, Looked(q)
      PROVE  Looked(q)'
  <2>1. CASE \E s \in Threads : q \in {counting[s], sending[s]}
    <3>1. PICK s \in Threads : q \in {counting[s], sending[s]}
      BY <2>1
    <3>2. s # t
      BY <1>0, <1>2, <3>1 DEF Submitting
    <3>3. counting'[s] = counting[s] /\ sending'[s] = sending[s]
      BY <1>2, <1>t, <3>2 DEF Submit
    <3>. QED  BY <3>1, <3>3
  <2>. QED  BY <1>2, <2>1
\* Entering SubmitToExecutor for q is evidence.
<1>3. ASSUME NEW t \in Threads, NEW b, b, Submit(t, b, q) PROVE Looked(q)'
  <2>1. counting'[t] = q
    BY <1>3, <1>t DEF Submit
  <2>. QED  BY <2>1
<1>4. ASSUME NEW t \in Threads, Count(t) PROVE Looked(q)'
  <2>1. Looked(q)
    BY <1>1, <1>4 DEF Count, CountTask
  <2>2. UNCHANGED <<tasks, pc>> /\ counting[t] # NoQueue /\ sending[t] = NoQueue
    BY <1>4 DEF Count, CountTask, IndInv, OneSubmitStep
  <2>3. CASE \E s \in Threads : q \in {counting[s], sending[s]}
    <3>1. PICK s \in Threads : q \in {counting[s], sending[s]}
      BY <2>3
    <3>2. CASE s = t
      <4>1. counting[t] = q
        BY <1>0, <2>2, <3>1, <3>2
      <4>2. sending'[t] = q
        BY <1>4, <1>t, <4>1 DEF Count
      <4>. QED  BY <4>2
    <3>3. CASE s # t
      <4>1. counting'[s] = counting[s] /\ sending'[s] = sending[s]
        BY <1>4, <1>t, <3>3 DEF Count
      <4>. QED  BY <3>1, <4>1
    <3>. QED  BY <3>2, <3>3
  <2>. QED  BY <2>1, <2>2, <2>3
<1>5. ASSUME NEW t \in Threads, Send(t) PROVE Looked(q)'
  <2>1. Looked(q)
    BY <1>1, <1>5 DEF Send, ScheduleTask
  <2>2. /\ sending[t] \in Queues /\ UNCHANGED <<pc, counting>>
        /\ tasks' = [tasks EXCEPT ![sending[t]] = @ + 1]
        /\ sending' = [sending EXCEPT ![t] = NoQueue]
    BY <1>5, <1>t DEF Send, ScheduleTask
  <2>3. tasks'[q] >= tasks[q] /\ tasks[q] \in Nat /\ tasks'[q] \in Nat
    BY <1>0, <1>t, <2>2
  <2>4. CASE sending[t] = q
    <3>1. tasks'[q] > 0
      BY <1>0, <1>t, <2>2, <2>4
    <3>. QED  BY <3>1
  <2>5. CASE sending[t] # q
    <3>1. \A s \in Threads : sending[s] = q => sending'[s] = q
      BY <1>t, <2>2, <2>5
    <3>2. tasks[q] > 0 => tasks'[q] > 0
      BY <2>3
    <3>. QED  BY <2>1, <2>2, <3>1, <3>2
  <2>. QED  BY <2>4, <2>5
<1>6. ASSUME NEW t \in Threads, NEW n \in Nodes, AddNode(t, n) PROVE Looked(q)'
  <2>1. /\ ~ Submitting(t) /\ UNCHANGED <<running, tasks, pc, sending>>
        /\ queue' = [queue EXCEPT ![n] = @ + 1]
        /\ Submit(t, running[QueueOf[n]], QueueOf[n])
    BY <1>6 DEF AddNode, MayCall, PushItem
  <2>2. CASE QueueOf[n] = q
    BY <1>3, <2>1, <2>2
  <2>3. CASE QueueOf[n] # q
    <3>1. Queued(q)' = Queued(q)
      BY <1>t, <2>1, <2>3 DEF Queued, NodesOf
    <3>. QED  BY <1>2, <1>i, <2>1, <3>1
  <2>. QED  BY <2>2, <2>3
<1>7. ASSUME NEW t \in Threads, NEW p \in Queues, NEW b \in BOOLEAN, SetRunning(t, p, b)
      PROVE  Looked(q)'
  <2>1. /\ ~ Submitting(t) /\ UNCHANGED <<queue, tasks, pc, sending>>
        /\ running' = [running EXCEPT ![p] = b]
        /\ Submit(t, b /\ Queued(p) # {}, p)
        /\ Queued(q)' = Queued(q)
    BY <1>7 DEF SetRunning, MayCall, AssignRunning, Queued, NodesOf
  <2>2. CASE p = q
    <3>1. b /\ Queued(q) # {}
      BY <1>0, <1>t, <2>1, <2>2
    <3>. QED  BY <1>3, <2>1, <2>2, <3>1
  <2>3. CASE p # q
    <3>1. running'[q] = running[q]
      BY <1>0, <1>t, <2>1, <2>3
    <3>. QED  BY <1>2, <1>i, <2>1, <3>1
  <2>. QED  BY <2>2, <2>3
<1>8. ASSUME NEW t \in Threads, NEW p \in Queues, SubmitWaitingTasksToExecutor(t, p)
      PROVE  Looked(q)'
  BY <1>1, <1>2, <1>8 DEF SubmitWaitingTasksToExecutor, MayCall, queueVars
<1>9. ASSUME NEW t \in Threads, NEW p \in Queues, Cleanup(t, p) PROVE Looked(q)'
  <2>1. p # q
    BY <1>0, <1>9, <1>t DEF Cleanup, CleanupAfterRun
  <2>2. running'[q] = running[q]
    BY <1>0, <1>9, <1>t, <2>1 DEF Cleanup, CleanupAfterRun
  <2>3. \A n \in NodesOf(q) : queue'[n] = queue[n]
    BY <1>9, <2>1 DEF Cleanup, CleanupAfterRun, NodesOf
  <2>4. Queued(q)' = Queued(q)
    BY <2>3 DEF Queued, NodesOf
  <2>. QED  BY <1>9, <1>i, <2>2, <2>4 DEF Cleanup, CleanupAfterRun, threadVars
<1>10. ASSUME NEW w \in Workers, TakeTask(w) PROVE Looked(q)'
  <2>1. Looked(q)
    BY <1>1, <1>10 DEF TakeTask, DequeueTask
  <2>2. /\ pc[w] = "wait" /\ pc' = [pc EXCEPT ![w] = "pop"]
        /\ tasks' = [tasks EXCEPT ![WorkerQueue[w]] = @ - 1]
        /\ UNCHANGED <<counting, sending>>
    BY <1>10 DEF TakeTask, DequeueTask
  <2>3. CASE WorkerQueue[w] = q
    BY <1>t, <2>2, <2>3
  <2>4. CASE WorkerQueue[w] # q
    <3>1. tasks'[q] = tasks[q]
      BY <1>t, <2>2, <2>4
    <3>2. \A v \in Workers : pc[v] \in {"pop", "run", "post"} => pc'[v] = pc[v]
      BY <1>t, <2>2
    <3>. QED  BY <2>1, <2>2, <3>1, <3>2
  <2>. QED  BY <2>3, <2>4
\* A worker of q that stays inside RunNextTask is evidence; a step of a
\* worker of another queue leaves the evidence for q alone.
<1>11. ASSUME NEW w \in Workers, NEW p, pc' = [pc EXCEPT ![w] = p],
              WorkerQueue[w] # q \/ pc[w] \in {"empty", "idle"},
              UNCHANGED <<tasks, counting, sending>>, Looked(q)
       PROVE  Looked(q)'
  <2>1. \A v \in Workers : WorkerQueue[v] = q /\ pc[v] \in {"pop", "run", "post"} => pc'[v] = pc[v]
    BY <1>11, <1>t
  <2>. QED  BY <1>11, <2>1
<1>12. ASSUME NEW w \in Workers, TryPop(w) PROVE Looked(q)'
  <2>1. PICK n \in NodesOf(WorkerQueue[w]) : PopItem(n)
    BY <1>12 DEF TryPop
  <2>2. /\ UNCHANGED <<running, tasks, counting, sending>>
        /\ pc' = [pc EXCEPT ![w] = "run"]
        /\ queue' = [queue EXCEPT ![n] = @ - 1]
    BY <1>12, <2>1 DEF TryPop, PopItem
  <2>3. CASE WorkerQueue[w] = q
    BY <1>t, <2>2, <2>3
  <2>4. CASE WorkerQueue[w] # q
    <3>1. Queued(q)' = Queued(q)
      BY <1>t, <2>1, <2>2, <2>4 DEF Queued, NodesOf
    <3>. QED  BY <1>11, <1>i, <2>2, <2>4, <3>1
  <2>. QED  BY <2>3, <2>4
<1>13. ASSUME NEW w \in Workers, TryPopFails(w) PROVE Looked(q)'
  <2>1. Looked(q)
    BY <1>1, <1>13 DEF TryPopFails, queueVars
  <2>2. WorkerQueue[w] # q
    BY <1>13 DEF TryPopFails, Queued, NodesOf, queueVars
  <2>. QED  BY <1>11, <1>13, <2>1, <2>2 DEF TryPopFails, queueVars
<1>14. ASSUME NEW w \in Workers, EndProcess(w) PROVE Looked(q)'
  <2>1. Looked(q)
    BY <1>1, <1>14 DEF EndProcess, DecrementPending
  <2>2. /\ UNCHANGED <<tasks, counting, sending>>
        /\ pc' = [pc EXCEPT ![w] = "post"]
    BY <1>14 DEF EndProcess, DecrementPending
  <2>3. CASE WorkerQueue[w] = q
    BY <1>t, <2>2, <2>3
  <2>4. CASE WorkerQueue[w] # q
    BY <1>11, <2>1, <2>2, <2>4
  <2>. QED  BY <2>3, <2>4
<1>15. ASSUME NEW w \in Workers, OnTaskFinished(w) PROVE Looked(q)'
  <2>1. /\ ~ Submitting(w) /\ UNCHANGED <<queue, running, tasks, sending>>
        /\ pc' = [pc EXCEPT ![w] = "idle"]
        /\ Submit(w, running[WorkerQueue[w]] /\ Queued(WorkerQueue[w]) # {}, WorkerQueue[w])
        /\ Queued(q)' = Queued(q)
    BY <1>15 DEF OnTaskFinished, UncountTask, Queued, NodesOf
  <2>2. CASE WorkerQueue[w] = q
    BY <1>3, <1>w, <2>1, <2>2
  <2>3. CASE WorkerQueue[w] # q
    <3>1. Looked(q)
      BY <1>i, <2>1
    <3>2. \A v \in Workers : WorkerQueue[v] = q => pc'[v] = pc[v]
      BY <1>t, <2>1, <2>3
    <3>3. \A s \in Threads : q \in {counting[s], sending[s]} => s # w
      BY <1>0, <2>1 DEF Submitting
    <3>4. \A s \in Threads : s # w => counting'[s] = counting[s]
      BY <1>t, <2>1 DEF Submit
    <3>. QED  BY <2>1, <3>1, <3>2, <3>3, <3>4
  <2>. QED  BY <2>2, <2>3
<1>16. ASSUME NEW w \in Workers, NoItem(w) \/ EndIdle(w) PROVE Looked(q)'
  <2>1. Looked(q)
    BY <1>1, <1>16 DEF NoItem, UncountTask, EndIdle, queueVars
  <2>. QED  BY <1>11, <1>16, <2>1 DEF NoItem, UncountTask, EndIdle, queueVars
<1>17. CASE UNCHANGED vars
  BY <1>1, <1>17 DEF vars, queueVars, threadVars
<1>. QED
  BY <1>4, <1>5, <1>6, <1>7, <1>8, <1>9, <1>10, <1>12, <1>13, <1>14, <1>15, <1>16, <1>17
     DEF Next, Call, WorkerStep

-----------------------------------------------------------------------------
(* The theorems.                                                           *)

\* The inductive invariant holds in every reachable state.
THEOREM Invariance == Spec => []IndInv
<1>1. IndInv /\ [Next]_vars => IndInv'
  BY TypeStep, RunsOwnNodeStep, OneSubmitStepStep, PendingAccountedStep,
     TasksAccountedStep, NoStrandedItemStep DEF IndInv
<1>. QED  BY InitInv, <1>1, PTL DEF Spec

\* Type correctness: in particular pending_count_ and num_pending_tasks_ are
\* never negative, whatever CleanupAfterRun resets while workers run.
THEOREM TypeCorrect == Spec => []TypeOK
<1>1. IndInv => TypeOK
  BY DEF IndInv
<1>. QED  BY <1>1, Invariance, PTL

\* No node ever runs more invocations of Process at once than its contract
\* allows: the gate of SchedulerQueue::AddNode.
THEOREM MaxInFlightCorrect == Spec => []MaxInFlightRespected
<1>1. IndInv => MaxInFlightRespected
  <2>. SUFFICES ASSUME IndInv, NEW n \in Nodes
                PROVE  Cardinality(InFlight(n)) <= MaxInFlight[n]
    BY DEF MaxInFlightRespected
  <2>1. Cardinality(InFlight(n)) \in Nat
    BY CountedSetsFinite, CardPositive
  <2>2. /\ queue[n] \in Nat /\ pendingCount[n] \in Nat /\ MaxInFlight[n] \in Nat
        /\ queue[n] + Cardinality(InFlight(n)) <= pendingCount[n]
        /\ pendingCount[n] <= MaxInFlight[n]
    BY MaxInFlightAssumption DEF IndInv, TypeOK, QueueTypeOK, PendingAccounted
  <2>. QED  BY <2>1, <2>2
<1>. QED  BY <1>1, Invariance, PTL

\* A queue that reports IsIdle, and was never cleaned up, has no task in its
\* executor, in the hands of a worker or on its way: the fact on which
\* Scheduler::HandleIdle decides that the graph has come to rest.
THEOREM IdleCorrect == Spec => []IdleMeansQuiescent
<1>1. IndInv => IdleMeansQuiescent
  <2>. SUFFICES ASSUME IndInv, NEW q \in Queues \ cleaned, IsIdle(q)
                PROVE  tasks[q] = 0 /\ Holding(q) = {} /\ Sending(q) = {}
    BY DEF IdleMeansQuiescent
  <2>1. /\ IsFiniteSet(Holding(q)) /\ Cardinality(Holding(q)) \in Nat
        /\ IsFiniteSet(Sending(q)) /\ Cardinality(Sending(q)) \in Nat
    BY CountedSetsFinite, CardPositive
  <2>2. /\ tasks[q] \in Nat
        /\ tasks[q] + Cardinality(Holding(q)) + Cardinality(Sending(q)) = 0
    BY DEF IndInv, TypeOK, QueueTypeOK, TasksAccounted, IsIdle
  <2>3. tasks[q] = 0 /\ Cardinality(Holding(q)) = 0 /\ Cardinality(Sending(q)) = 0
    BY <2>1, <2>2
  <2>. QED  BY <2>1, <2>3, FS_EmptySet
<1>. QED  BY <1>1, Invariance, PTL

\* No item of a running queue is ever left with nobody to look at it.
THEOREM NoItemStranded == Spec => []NoStrandedItem
<1>1. IndInv => NoStrandedItem
  BY DEF IndInv
<1>. QED  BY <1>1, Invariance, PTL

-----------------------------------------------------------------------------
(* The order of the priority queue.                                        *)

\* The order of the items of two nodes in one expression: sources above the
\* others, then the lower layer, then the address.
LEMMA ItemLessExpanded ==
    ASSUME NEW m \in Nodes, NEW n \in Nodes
    PROVE  ItemLess(Item(m), Item(n)) <=>
             \/ m \notin Sources /\ n \in Sources
             \/ m \in Sources /\ n \in Sources /\ Layer[m] > Layer[n]
             \/ m \in Sources /\ n \in Sources /\ Layer[m] = Layer[n] /\ NodeId[m] > NodeId[n]
             \/ m \notin Sources /\ n \notin Sources /\ NodeId[m] < NodeId[n]
<1>1. /\ Layer[m] \in Int /\ Layer[n] \in Int
      /\ NodeId[m] \in Int /\ NodeId[n] \in Int
  BY ItemAssumption
<1>2. \A k \in Nodes : /\ Item(k).open = FALSE /\ Item(k).source = (k \in Sources)
                       /\ Item(k).layer = Layer[k] /\ Item(k).id = NodeId[k]
  BY DEF Item
<1>3. CASE m \in Sources /\ n \in Sources
  <2>1. /\ Item(m).open = FALSE /\ Item(n).open = FALSE
        /\ Item(m).source = TRUE /\ Item(n).source = TRUE
    BY <1>2, <1>3, Zenon
  <2>2. ItemLess(Item(m), Item(n)) <=>
           IF Item(m).layer # Item(n).layer THEN Item(m).layer > Item(n).layer
                                            ELSE Item(m).id > Item(n).id
    BY <2>1, Zenon DEF ItemLess
  <2>3. ItemLess(Item(m), Item(n)) <=>
           IF Layer[m] # Layer[n] THEN Layer[m] > Layer[n] ELSE NodeId[m] > NodeId[n]
    BY <1>2, <2>2, Zenon
  <2>. QED  BY <1>1, <1>3, <2>3
<1>4. CASE m \in Sources /\ n \notin Sources
  BY <1>1, <1>2, <1>4 DEF ItemLess
<1>5. CASE m \notin Sources /\ n \in Sources
  BY <1>1, <1>2, <1>5 DEF ItemLess
<1>6. CASE m \notin Sources /\ n \notin Sources
  <2>1. /\ Item(m).open = FALSE /\ Item(n).open = FALSE
        /\ Item(m).source = FALSE /\ Item(n).source = FALSE
    <3>1. (m \in Sources) = FALSE /\ (n \in Sources) = FALSE
      BY <1>6
    <3>. QED  BY <1>2, <3>1, Zenon
  <2>2. ItemLess(Item(m), Item(n)) <=> Item(m).id < Item(n).id
    BY <2>1, Zenon DEF ItemLess
  <2>3. ItemLess(Item(m), Item(n)) <=> NodeId[m] < NodeId[n]
    BY <1>2, <2>2, Zenon
  <2>. QED  BY <1>1, <1>6, <2>3
<1>. QED  BY <1>3, <1>4, <1>5, <1>6

\* Item::operator< is a strict order on the items of a graph, total on
\* distinct nodes, which std::priority_queue requires of it: its clauses
\* (sources, layers, addresses in opposite directions) never contradict
\* each other.
THEOREM ItemOrder ==
    /\ \A m \in Nodes : ~ ItemLess(Item(m), Item(m))
    /\ \A k, m, n \in Nodes :
         ItemLess(Item(k), Item(m)) /\ ItemLess(Item(m), Item(n)) => ItemLess(Item(k), Item(n))
    /\ \A m, n \in Nodes :
         m # n => ItemLess(Item(m), Item(n)) \/ ItemLess(Item(n), Item(m))
<1>1. /\ \A n \in Nodes : Layer[n] \in Int /\ NodeId[n] \in Int
      /\ \A m, n \in Nodes : NodeId[m] = NodeId[n] => m = n
  BY ItemAssumption
<1>2. ASSUME NEW m \in Nodes PROVE ~ ItemLess(Item(m), Item(m))
  <2>1. ~ (Layer[m] > Layer[m]) /\ ~ (NodeId[m] > NodeId[m]) /\ ~ (NodeId[m] < NodeId[m])
    BY <1>1
  <2>. QED  BY <2>1, ItemLessExpanded, Zenon
<1>3. ASSUME NEW k \in Nodes, NEW m \in Nodes, NEW n \in Nodes,
             ItemLess(Item(k), Item(m)), ItemLess(Item(m), Item(n))
      PROVE  ItemLess(Item(k), Item(n))
  BY <1>1, <1>3, ItemLessExpanded
<1>4. ASSUME NEW m \in Nodes, NEW n \in Nodes, m # n
      PROVE  ItemLess(Item(m), Item(n)) \/ ItemLess(Item(n), Item(m))
  BY <1>1, <1>4, ItemLessExpanded
<1>. QED  BY <1>2, <1>3, <1>4

=============================================================================
