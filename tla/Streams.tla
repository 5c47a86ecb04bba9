------------------------------ MODULE Streams ------------------------------
(***************************************************************************)
(* Streams with their timestamps: producers whose OutputStreamManagers     *)
(* mirror packets and timestamp bounds to the InputStreamManagers of       *)
(* several consumers, and consumers that read their inputs through an      *)
(* InputStreamHandler or, as SchedulerQueue::RunNode does, head by head.   *)
(* Translated from stream/output_stream_{shard,manager,handler}.cc,        *)
(* stream/input_stream_manager.cc, scheduler/input_stream_handler.cc and   *)
(* the backpressure callbacks of public/graph_runtime.cc.                  *)
(*                                                                         *)
(* A producer is one thread, a consumer is one thread (MaxInFlight 1).  As *)
(* in GraphScheduler, a thread has an agenda of operations, each of which  *)
(* is one critical section or callback of the code.                        *)
(***************************************************************************)
EXTENDS InputStreams, SequencesExt

CONSTANTS
    Producers,       \* nodes with an output, and graph inputs
    Consumers,       \* nodes with inputs
    Graphs,          \* the graphs that Init chooses from
    GraphInputs,     \* the producers that are graph inputs
    MaxQueueSize,    \* consumer -> what CreateInputStreamHandler is given
    MaxAllowance,    \* of ScheduleInvocations
    Offset,          \* producer -> its offset, or NoOffset
    NoOffset,        \* the producer has not called SetOffset
    Behaviours,      \* producer -> the sequences of calls one Process may make on its shard
    MaxInvocations   \* producer -> bound: its invocations

\* A graph as GraphRuntime::Initialize wires it: the edges (one for each
\* InputStreamManager) a producer mirrors to and those a consumer's handler
\* has, in order, the handlers, and the consumers that are driven by theirs.
EdgesOf(f) == UNION {{f[x][i] : i \in 1..Len(f[x])} : x \in DOMAIN f}

\* An InputStreamManager belongs to one output stream and to one port.
EachOnce(f) ==
    \A x, y \in DOMAIN f : \A i \in 1..Len(f[x]), j \in 1..Len(f[y]) :
        f[x][i] = f[y][j] => x = y /\ i = j

\* What a node may call on its shard.  The code does not check that the packets
\* it sends are allowed in a stream.
ShardCalls ==
    {call \in {"Packet", "Empty", "Bound", "Close"} \X Timestamps :
        call[1] = "Packet" => IsAllowedInStream(call[2])}

ASSUME StreamsAssumption ==
    /\ \A w \in Graphs :
          /\ DOMAIN w.mirrors \subseteq Producers
          /\ DOMAIN w.ports \subseteq Consumers
          /\ EdgesOf(w.mirrors) = EdgesOf(w.ports)
          /\ EachOnce(w.mirrors) /\ EachOnce(w.ports)
          /\ \A p \in DOMAIN w.mirrors : w.mirrors[p] \in Seq(EdgesOf(w.ports))
          /\ \A c \in DOMAIN w.ports : w.ports[c] \in Seq(EdgesOf(w.ports)) \ {<<>>}
          /\ w.policy \in [DOMAIN w.ports -> {"default", "immediate", "fixed_size"}]
          /\ w.driven \subseteq DOMAIN w.ports
    /\ Producers \cap Consumers = {}
    /\ \A p \in Producers : Behaviours[p] \subseteq Seq(ShardCalls)
    /\ Offset \in [Producers -> Int \cup {NoOffset}]
    /\ MaxInvocations \in [Producers -> Nat]
    /\ MaxQueueSize \in [Consumers -> Int]
    /\ MaxAllowance \in Nat \ {0}
    /\ NoPacket \notin Timestamps

Threads == Producers \cup Consumers

VARIABLES
    agenda,    \* thread -> the operations it has still to execute
    graph,     \* the graph: mirrors, ports, policy and driven
    in,        \* edge -> its InputStreamManager
    out,       \* producer -> bound and closed flag of its OutputStreamManager
    calls,     \* producer -> invocations so far
    view,      \* consumer -> what GetNodeReadiness has read so far, port by port
    notified,  \* the handlers whose notified_ the client has not acted upon
    stopped,   \* the consumers that were told kReadyForClose and closed their handler
    full,      \* full_input_streams_, as the set of edges in it
    sent,      \* history: producer -> the packets it has sent
    given      \* history: edge -> the packets its consumer was given

vars == <<agenda, graph, in, out, calls, view, notified, stopped, full, sent, given>>

Edges == EdgesOf(graph.ports)
PortEdges(c) == {graph.ports[c][i] : i \in 1..Len(graph.ports[c])}
ConsumerOf(e) == CHOOSE c \in DOMAIN graph.ports : e \in PortEdges(c)
ProducerOf(e) ==
    CHOOSE p \in DOMAIN graph.mirrors :
        \E i \in 1..Len(graph.mirrors[p]) : graph.mirrors[p][i] = e

\* FixedSizeInputStreamHandler::SetInputStreamManagers limits its managers.
SetInputStreamManagers(c, handler) ==
    IF handler = "fixed_size" /\ MaxQueueSize[c] > 0 THEN MaxQueueSize[c] ELSE -1

Init ==
    /\ agenda = [t \in Threads |-> <<>>]
    /\ graph \in Graphs
    /\ in = [e \in Edges |->
                PrepareForRun(SetInputStreamManagers(ConsumerOf(e), graph.policy[ConsumerOf(e)]))]
    /\ out = [p \in Producers |-> [bound |-> Unset, closed |-> FALSE]]
    /\ calls = [p \in Producers |-> 0]
    /\ view = [c \in Consumers |-> <<>>]
    /\ notified = {}
    /\ stopped = {}
    /\ full = {}
    /\ sent = [p \in Producers |-> <<>>]
    /\ given = [e \in Edges |-> <<>>]

-----------------------------------------------------------------------------
(* Agendas.                                                                *)

At(t, op) == agenda[t] # <<>> /\ Head(agenda[t])[1] = op
Arg(t, i) == Head(agenda[t])[i]
Then(t, ops) == agenda' = [agenda EXCEPT ![t] = ops \o Tail(@)]
If(b, ops) == IF b THEN ops ELSE <<>>

-----------------------------------------------------------------------------
(* OutputStreamShard: what one Process leaves in it.                       *)

\* ResetShard, before a node's Process; AddPacketToInputStream makes a new one.
ShardReset(p) ==
    [queue |-> <<>>, updated |-> Unset, closed |-> p \notin GraphInputs /\ out[p].closed]

LastAddedPacketTimestamp(s) == IF s.queue = <<>> THEN Unset ELSE s.queue[Len(s.queue)]

\* A call on the shard: a packet, an empty packet, a bound, or Close.
ShardCall(s, call) ==
    CASE call[1] = "Packet" -> IF s.closed THEN s
                               ELSE [s EXCEPT !.queue = Append(@, call[2]),
                                              !.updated = NextAllowedInStream(call[2])]
      [] call[1] = "Empty"  -> IF s.closed THEN s
                               ELSE [s EXCEPT !.updated = NextAllowedInStream(call[2])]
      [] call[1] = "Bound"  -> [s EXCEPT !.updated = call[2]]
      [] call[1] = "Close"  -> [s EXCEPT !.updated = Done, !.closed = TRUE]

-----------------------------------------------------------------------------
(* OutputStreamManager and OutputStreamHandler.                            *)

\* The new bound is not compared with the present one.
MutComputeOutputTimestampBoundLatest(p, s, t) == s.updated

ComputeOutputTimestampBound(p, s, t) ==
    LET fromInput == IF Offset[p] = NoOffset THEN Unset
                     ELSE IF Offset[p] > 0 THEN Plus(t, Offset[p])
                     ELSE NextAllowedInStream(t)
        fromPackets == IF s.queue = <<>> THEN Unset
                       ELSE NextAllowedInStream(LastAddedPacketTimestamp(s))
    IN  Later(Later(out[p].bound, fromInput), Later(fromPackets, s.updated))

\* The calls on each mirror in turn: the packets ts, if there are any, and the
\* bound b, unless it is Unset.
ToMirrors(p, ts, b) ==
    If(ts # <<>> \/ b # Unset,
       [i \in 1..Len(graph.mirrors[p]) |-> <<"Update", graph.mirrors[p][i], ts, b>>])

\* The first mirror takes the packets, the others find the list empty.
MutPropagateToMirrorsMovesFirst(p, b, s) ==
    [i \in 1..Len(graph.mirrors[p]) |->
        <<"Update", graph.mirrors[p][i], IF i = 1 THEN s.queue ELSE <<>>, b>>]

\* PropagateUpdatesToMirrors: copies of the packets to all mirrors but the
\* last, the list itself to the last, and the bound where the last packet does
\* not imply it.
PropagateToMirrors(p, b, s) ==
    LET implied == s.queue # <<>> /\ NextAllowedInStream(LastAddedPacketTimestamp(s)) = b
    IN  ToMirrors(p, s.queue, IF implied THEN Unset ELSE b)

\* OutputStreamManager::Close: Done to every mirror, unless it was closed.
CloseOps(p) == If(~ out[p].closed, ToMirrors(p, <<>>, Done))

\* A node's obligation, which the code leaves unchecked: what it sends is not
\* older than the bound it gave, and goes up.
Lawful(p, b) ==
    /\ \A i \in 1..Len(b) : b[i][2] >= out[p].bound
    /\ \A i \in 1..(Len(b) - 1) : b[i][2] < b[i + 1][2]

\* Producer p, idle, propagates shard s with the bound it computes at input
\* timestamp t, and closes its manager if the shard was closed.
Propagate(p, s, t) ==
    LET next == ComputeOutputTimestampBound(p, s, t) IN
    /\ agenda' = [agenda EXCEPT ![p] = PropagateToMirrors(p, next, s)
                                         \o If(s.closed, CloseOps(p))]
    /\ out' = [out EXCEPT ![p] = [bound |-> IF s.closed THEN Done ELSE next,
                                  closed |-> s.closed]]
    /\ sent' = [sent EXCEPT ![p] = @ \o s.queue]

\* One invocation of a node: PrepareOutputs, its calls on the shard, then
\* PostProcess, which passes over a closed manager.
Process(p) ==
    /\ p \in DOMAIN graph.mirrors \ GraphInputs
    /\ agenda[p] = <<>> /\ calls[p] < MaxInvocations[p] /\ ~ out[p].closed
    /\ \E b \in Behaviours[p] :
        /\ Lawful(p, b)
        /\ Propagate(p, FoldLeft(ShardCall, ShardReset(p), b), MinTime + calls[p])
    /\ calls' = [calls EXCEPT ![p] = @ + 1]
    /\ UNCHANGED <<graph, in, view, notified, stopped, full, given>>

\* GraphRuntime::AddPacketToInputStream.
AddPacketToInputStream(p) ==
    /\ p \in DOMAIN graph.mirrors \cap GraphInputs
    /\ agenda[p] = <<>> /\ calls[p] < MaxInvocations[p] /\ ~ out[p].closed
    /\ \E b \in Behaviours[p] :
        /\ Lawful(p, b)
        /\ Propagate(p, FoldLeft(ShardCall, ShardReset(p), b), MinTime)
    /\ calls' = [calls EXCEPT ![p] = @ + 1]
    /\ UNCHANGED <<graph, in, view, notified, stopped, full, given>>

\* OutputStreamHandler::UpdateTaskTimestampBound with the bound of the inputs
\* to come: a stream with an offset can promise more than its packets did.
UpdateTaskTimestampBound(p) ==
    LET input == MinTime + calls[p]
        next == Plus(input, Offset[p])
    IN  /\ p \in DOMAIN graph.mirrors /\ agenda[p] = <<>>
        /\ IsRangeValue(input)
        /\ Offset[p] # NoOffset /\ ~ out[p].closed /\ next > out[p].bound
        /\ agenda' = [agenda EXCEPT ![p] = PropagateToMirrors(p, next, ShardReset(p))]
        /\ out' = [out EXCEPT ![p].bound = next]
        /\ UNCHANGED <<graph, in, calls, view, notified, stopped, full, sent, given>>

\* OutputStreamHandler::Close, which propagates Done before it closes the
\* manager, or GraphRuntime::CloseInputStream, which only closes it.
CloseOutput(p) ==
    /\ p \in DOMAIN graph.mirrors /\ agenda[p] = <<>> /\ ~ out[p].closed
    /\ agenda' = [agenda EXCEPT ![p] =
                    If(p \notin GraphInputs, PropagateToMirrors(p, Done, ShardReset(p)))
                      \o CloseOps(p)]
    /\ out' = [out EXCEPT ![p] = [bound |-> Done, closed |-> TRUE]]
    /\ UNCHANGED <<graph, in, calls, view, notified, stopped, full, sent, given>>

-----------------------------------------------------------------------------
(* The mirrors, called by producer p, and the callbacks they make.         *)

\* A bound that advances is no news to anybody.
MutCallbacksPacketsOnly(e, m, n) ==
    If(BecomesFull(m, n), << <<"Full", e>> >>)
      \o If(ConsumerOf(e) \in graph.driven /\ BecomesNonEmpty(m, n), << <<"Arrival", e>> >>)

\* The handler of every consumer is notified.
MutCallbacksToAll(e, m, n) ==
    If(BecomesFull(m, n), << <<"Full", e>> >>)
      \o If(BecomesNonEmpty(m, n) \/ (m.queue = n.queue /\ BoundAdvances(m, n)),
            << <<"Arrival", e>> >>)

\* What the manager of edge e calls once it has left its critical section.
\* The arrival of a packet for a consumer that RunNode runs puts the consumer
\* into its queue, which is GraphScheduler's subject.
Callbacks(e, m, n) ==
    If(BecomesFull(m, n), << <<"Full", e>> >>)
      \o If(ConsumerOf(e) \in graph.driven
              /\ (BecomesNonEmpty(m, n) \/ (m.queue = n.queue /\ BoundAdvances(m, n))),
            << <<"Arrival", e>> >>)

\* AddPacketsToStream, MovePacketsToStream and SetNextTimestampBound.
Mirror(p) ==
    /\ At(p, "Update")
    /\ LET e == Arg(p, 2)
           ts == Arg(p, 3)
           b == Arg(p, 4)
           m == IF ts # <<>> THEN AddPackets(in[e], ts) ELSE SetNextTimestampBound(in[e], b)
       IN  /\ in' = [in EXCEPT ![e] = m]
           /\ Then(p, Callbacks(e, in[e], m)
                        \o If(ts # <<>> /\ b # Unset, << <<"Update", e, <<>>, b>> >>))
    /\ UNCHANGED <<graph, out, calls, view, notified, stopped, full, sent, given>>

\* GraphRuntime::OnInputStreamFull.
OnInputStreamFull(p) ==
    /\ At(p, "Full")
    /\ full' = full \cup {Arg(p, 2)}
    /\ Then(p, <<>>)
    /\ UNCHANGED <<graph, in, out, calls, view, notified, stopped, sent, given>>

NotifyPacketArrival(p) ==
    /\ At(p, "Arrival")
    /\ notified' = notified \cup {ConsumerOf(Arg(p, 2))}
    /\ Then(p, <<>>)
    /\ UNCHANGED <<graph, in, out, calls, view, stopped, full, sent, given>>

-----------------------------------------------------------------------------
(* InputStreamHandler: readiness.                                          *)

MinOf(S) == IF S = {} THEN Done ELSE CHOOSE t \in S : \A u \in S : t <= u

\* Readiness of the three handlers from the readings v of their managers.

\* A stream whose bound equals the packet's timestamp counts as settled.
MutGetReadinessEager(v) ==
    LET bounds  == {v[i].ts : i \in {j \in 1..Len(v) : v[j].empty}}
        packets == {v[i].ts : i \in {j \in 1..Len(v) : ~ v[j].empty}}
        min     == Earlier(MinOf(bounds), MinOf(packets))
    IN  [ready |-> IF min >= OneOverPostStream THEN "Close"
                   ELSE IF bounds = {} \/ MinOf(bounds) >= MinOf(packets) THEN "Process"
                   ELSE "NotReady",
         ts    |-> min]

\* One stream at its end is taken for all of them.
MutGetReadinessClosesOnAny(v) ==
    LET bounds  == {v[i].ts : i \in {j \in 1..Len(v) : v[j].empty}}
        packets == {v[i].ts : i \in {j \in 1..Len(v) : ~ v[j].empty}}
        min     == Earlier(MinOf(bounds), MinOf(packets))
    IN  [ready |-> IF \E b \in bounds : b >= OneOverPostStream THEN "Close"
                   ELSE IF bounds = {} \/ MinOf(bounds) > MinOf(packets) THEN "Process"
                   ELSE "NotReady",
         ts    |-> min]

\* SyncSet::GetReadiness.
GetReadiness(v) ==
    LET bounds  == {v[i].ts : i \in {j \in 1..Len(v) : v[j].empty}}
        packets == {v[i].ts : i \in {j \in 1..Len(v) : ~ v[j].empty}}
        min     == Earlier(MinOf(bounds), MinOf(packets))
    IN  [ready |-> IF min >= OneOverPostStream THEN "Close"
                   ELSE IF bounds = {} \/ MinOf(bounds) > MinOf(packets) THEN "Process"
                   ELSE "NotReady",
         ts    |-> min]

\* Neither of the other two handlers ever answers kReadyForClose.  The
\* immediate one stops reading at the first packet, the fixed-size one reads
\* every manager.
ImmediateReadiness(v) ==
    [ready |-> IF ~ v[Len(v)].empty THEN "Process" ELSE "NotReady",
     ts    |-> MinOf({v[i].ts : i \in 1..Len(v)})]

FixedSizeReadiness(v) ==
    [ready |-> IF \E i \in 1..Len(v) : ~ v[i].empty THEN "Process" ELSE "NotReady",
     ts    |-> MinOf({v[i].ts : i \in 1..Len(v)})]

\* CreateInputStreamHandler: any other name is that of the default handler.
GetNodeReadiness(c, v) ==
    CASE graph.policy[c] = "immediate"  -> ImmediateReadiness(v)
      [] graph.policy[c] = "fixed_size" -> FixedSizeReadiness(v)
      [] OTHER                          -> GetReadiness(v)

\* The fixed-size handler asks IsFull before it reads a manager.
EvaluateFrom(c, i, k) ==
    If(graph.policy[c] = "fixed_size", << <<"IsFull", i>> >>) \o << <<"Read", i, k>> >>

-----------------------------------------------------------------------------
(* A consumer driven by its handler.  Its client calls ScheduleInvocations *)
(* when it was notified and again after an invocation; the schedule        *)
(* callback runs the node, which calls FillInputSet (external: no code in  *)
(* the repository but its tests drives a handler).                         *)

ScheduleInvocations(c) ==
    /\ c \in graph.driven \ stopped
    /\ agenda[c] = <<>> /\ c \in notified
    /\ notified' = notified \ {c}
    /\ agenda' = [agenda EXCEPT ![c] = EvaluateFrom(c, 1, MaxAllowance)]
    /\ UNCHANGED <<graph, in, out, calls, view, stopped, full, sent, given>>

\* A full queue ends the call with kNotReady.
IsFullPort(c) ==
    /\ At(c, "IsFull")
    /\ IF IsFull(in[graph.ports[c][Arg(c, 2)]])
       THEN /\ agenda' = [agenda EXCEPT ![c] = <<>>]
            /\ view' = [view EXCEPT ![c] = <<>>]
       ELSE /\ Then(c, <<>>)
            /\ UNCHANGED view
    /\ UNCHANGED <<graph, in, out, calls, notified, stopped, full, sent, given>>

\* The invocation scheduled for timestamp t, then the next round of the loop.
FillInputSet(c, t, k) ==
    [i \in 1..Len(graph.ports[c]) |-> <<"Pop", i, t>>]
      \o If(k > 1, EvaluateFrom(c, 1, k - 1))

\* One manager is read.  After the last one that the handler looks at, the
\* loop of ScheduleInvocations acts on the readiness.
ReadPort(c) ==
    /\ At(c, "Read")
    /\ LET i == Arg(c, 2)
           k == Arg(c, 3)
           v == Append(view[c], MinTimestampOrBound(in[graph.ports[c][i]]))
           r == GetNodeReadiness(c, v)
           last == i = Len(graph.ports[c]) \/ (graph.policy[c] = "immediate" /\ ~ v[i].empty)
       IN  IF ~ last
           THEN /\ view' = [view EXCEPT ![c] = v]
                /\ Then(c, EvaluateFrom(c, i + 1, k))
                /\ UNCHANGED <<notified, stopped>>
           ELSE /\ view' = [view EXCEPT ![c] = <<>>]
                /\ \/ /\ r.ready = "Process"
                      /\ Then(c, FillInputSet(c, r.ts, k))
                      /\ notified' = notified \cup {c}
                      /\ UNCHANGED stopped
                   \/ /\ r.ready = "Close"
                      /\ Then(c, [j \in 1..Len(graph.ports[c]) |-> <<"Close", j>>])
                      /\ stopped' = stopped \cup {c}
                      /\ UNCHANGED notified
                   \/ /\ r.ready = "NotReady"
                      /\ Then(c, <<>>)
                      /\ UNCHANGED <<notified, stopped>>
    /\ UNCHANGED <<graph, in, out, calls, full, sent, given>>

\* The result r of a pop by c from edge e.
Popped(c, e, r, callback) ==
    /\ in' = [in EXCEPT ![e] = r.mgr]
    /\ given' = [given EXCEPT ![e] = IF r.packet = NoPacket THEN @ ELSE Append(@, r.packet)]
    /\ Then(c, If(callback /\ BecomesNotFull(in[e], r.mgr), << <<"NotFull", e>> >>))
    /\ UNCHANGED <<graph, out, calls, view, notified, stopped, full, sent>>

PopPort(c) ==
    /\ At(c, "Pop")
    /\ LET e == graph.ports[c][Arg(c, 2)]
       IN  Popped(c, e, PopPacketAtTimestamp(in[e], Arg(c, 3)), TRUE)

\* GraphRuntime::OnInputStreamNotFull, without its call of HandleIdle.
OnInputStreamNotFull(c) ==
    /\ At(c, "NotFull")
    /\ full' = full \ {Arg(c, 2)}
    /\ Then(c, <<>>)
    /\ UNCHANGED <<graph, in, out, calls, view, notified, stopped, sent, given>>

\* InputStreamHandler::Close, manager by manager.  The arrival callbacks of
\* the closed managers find the client gone.
CloseInput(c) ==
    /\ At(c, "Close")
    /\ LET e == graph.ports[c][Arg(c, 2)] IN in' = [in EXCEPT ![e] = Close(@)]
    /\ Then(c, <<>>)
    /\ UNCHANGED <<graph, out, calls, view, notified, stopped, full, sent, given>>

-----------------------------------------------------------------------------
(* A consumer that SchedulerQueue::RunNode runs: the head of every input,  *)
(* whatever its timestamp, and no not-full callback.                       *)

RunNode(c) ==
    /\ c \in DOMAIN graph.ports \ graph.driven
    /\ agenda[c] = <<>> /\ \E e \in PortEdges(c) : in[e].queue # <<>>
    /\ agenda' = [agenda EXCEPT ![c] =
                    [i \in 1..Len(graph.ports[c]) |-> <<"PopQueueHead", i>>]]
    /\ UNCHANGED <<graph, in, out, calls, view, notified, stopped, full, sent, given>>

PopHead(c) ==
    /\ At(c, "PopQueueHead")
    /\ LET e == graph.ports[c][Arg(c, 2)] IN Popped(c, e, PopQueueHead(in[e]), FALSE)

-----------------------------------------------------------------------------
Deliver(p) == Mirror(p) \/ OnInputStreamFull(p) \/ NotifyPacketArrival(p)

Consume(c) ==
    \/ ScheduleInvocations(c) \/ IsFullPort(c) \/ ReadPort(c) \/ PopPort(c)
    \/ OnInputStreamNotFull(c) \/ CloseInput(c) \/ RunNode(c) \/ PopHead(c)

Next ==
    \/ \E p \in Producers : \/ Process(p) \/ AddPacketToInputStream(p)
                            \/ UpdateTaskTimestampBound(p) \/ CloseOutput(p) \/ Deliver(p)
    \/ \E c \in Consumers : Consume(c)

\* A thread goes on with what it has begun, and a notified client calls.
Fairness ==
    /\ \A p \in Producers : WF_vars(Deliver(p))
    /\ \A c \in Consumers : WF_vars(Consume(c))

Spec == Init /\ [][Next]_vars /\ Fairness

-----------------------------------------------------------------------------
(* Properties.                                                             *)

Operations ==
    ({"Update"} \X Edges \X Seq(Timestamps) \X Timestamps)
      \cup ({"Full", "Arrival", "NotFull"} \X Edges)
      \cup ({"IsFull", "Close", "PopQueueHead"} \X Nat)
      \cup ({"Read"} \X Nat \X Nat)
      \cup ({"Pop"} \X Nat \X Timestamps)

TypeOK ==
    /\ agenda \in [Threads -> Seq(Operations)]
    /\ graph \in Graphs
    /\ in \in [Edges -> Managers]
    /\ out \in [Producers -> [bound : Timestamps, closed : BOOLEAN]]
    /\ calls \in [Producers -> Nat] /\ \A p \in Producers : calls[p] <= MaxInvocations[p]
    /\ view \in [Consumers -> Seq([empty : BOOLEAN, ts : Timestamps])]
    /\ notified \subseteq graph.driven
    /\ stopped \subseteq graph.driven
    /\ full \subseteq Edges
    /\ sent \in [Producers -> Seq(Timestamps)]
    /\ given \in [Edges -> Seq(Timestamps)]

\* The packets edge e's producer has sent and has still to deliver to it.
OnTheWay(e) ==
    FlattenSeq([i \in 1..Len(agenda[ProducerOf(e)]) |->
                   LET op == agenda[ProducerOf(e)][i]
                   IN  If(op[1] = "Update" /\ op[2] = e, op[3])])

\* The handlers that do not wait for bounds may read past the packets of one
\* port while they serve another; the others may not.
DropsNothing(e) ==
    LET c == ConsumerOf(e)
    IN  c \notin graph.driven \/ graph.policy[c] = "default" \/ Len(graph.ports[c]) = 1

\* Every consumer is given every packet of its producers, once and in order,
\* whichever mirror it is and whatever the other consumers do
\* (PropagateUpdatesToMirrors, AddPackets, PopPacketAtTimestamp, PopQueueHead).
Lossless ==
    \A e \in Edges : DropsNothing(e) =>
        sent[ProducerOf(e)] = given[e] \o in[e].queue \o OnTheWay(e)

\* The sync set's promise: once an input set was filled for a timestamp
\* (last_select_timestamp_), no packet with that or an older timestamp is left
\* or arrives on any stream of the set (SyncSet::GetReadiness).
InputSetsSettled ==
    \A c \in graph.driven : graph.policy[c] = "default" =>
        \A e \in PortEdges(c) :
            LET rest == in[e].queue \o OnTheWay(e)
            IN  \A i \in 1..Len(rest) : rest[i] > in[e].select

\* kReadyForClose is answered only when every packet of every input has been
\* given to the node, and none comes later (SyncSet::GetReadiness).
ClosedMeansExhausted ==
    \A c \in stopped : \A e \in PortEdges(c) : given[e] = sent[ProducerOf(e)]

\* A full queue that RunNode drains is on record as full once its callback has
\* run, so IsNodeThrottled sees it (AddPackets, OnInputStreamFull).
FullIsRecorded ==
    \A e \in Edges :
        /\ ConsumerOf(e) \notin graph.driven
        /\ IsFull(in[e])
        /\ ~ \E i \in 1..Len(agenda[ProducerOf(e)]) :
               agenda[ProducerOf(e)][i] = <<"Full", e>>
        => e \in full

\* A timestamp bound is a promise: neither a producer's nor, behind a handler
\* that waits for bounds, a consumer's bound is ever taken back
\* (ComputeOutputTimestampBound, AddPackets, PopPacketAtTimestamp).
BoundsNeverRecede ==
    [][/\ \A p \in Producers : out'[p].bound >= out[p].bound
       /\ \A e \in Edges :
             graph.policy[ConsumerOf(e)] = "default" => in'[e].bound >= in[e].bound]_vars

\* Every input stream of c has a packet not older than t or a producer that
\* has promised to send none up to t.
Settled(c, t) ==
    \A e \in PortEdges(c) :
        \/ in[e].queue # <<>> /\ Head(in[e].queue) >= t
        \/ in[e].queue = <<>> /\ out[ProducerOf(e)].bound > t

\* Consumer c, driven by the default handler, has a packet to be given or has
\* to be closed.
Waiting(c) ==
    /\ c \in graph.driven \ stopped
    /\ graph.policy[c] = "default"
    /\ \/ \E e \in PortEdges(c) : in[e].queue # <<>> /\ Settled(c, Head(in[e].queue))
       \/ \A e \in PortEdges(c) : out[ProducerOf(e)].closed

\* Behind the default handler no packet waits for ever for the other streams
\* once their producers have packets or bounds past it, and a consumer whose
\* producers have closed their streams is closed: no notification that it
\* needs is lost (Callbacks, ScheduleInvocations, PopPacketAtTimestamp).
NothingWaitsForEver == \A c \in Consumers : Waiting(c) ~> ~ Waiting(c)
=============================================================================
