-------------------------- MODULE MCGraphScheduler --------------------------
(***************************************************************************)
(* GraphScheduler on small graphs.                                         *)
(***************************************************************************)
EXTENDS GraphScheduler, TLC

CONSTANTS src, mid, snk, q0, q1, w1, w2, app, inp, e1, e2, e3

OneQueue == <<q0>>
TwoQueues == <<q0, q1>>
OneQueueSet == {q0}
TwoQueuesSet == {q0, q1}

AllOnDefault == [n \in Nodes |-> q0]
SourceElsewhere == [n \in Nodes |-> IF n = src THEN q1 ELSE q0]
OneInFlight == [n \in Nodes |-> 1]
Layers == [n \in Nodes |-> 0]
Ids == [n \in Nodes |-> CHOOSE i \in 1..Len(AllNodes) : AllNodes[i] = n]

TwoWorkers == {w1, w2}
\* Workers of one pool are interchangeable.
PoolSymmetry == Permutations(Workers)
PoolOnDefault == [w \in Workers |-> q0]
PoolEach == [w \in Workers |-> IF w = w1 THEN q0 ELSE q1]

None == {}

\* src -> mid -> snk
ChainNodes == {src, mid, snk}
Chain == <<src, mid, snk>>
SrcOnly == {src}
ChainEdges == {e1, e2}
ChainConsumer == (e1 :> mid) @@ (e2 :> snk)
ChainPorts == (src :> <<>>) @@ (mid :> <<e1>>) @@ (snk :> <<e2>>)
ChainMirrors == (src :> <<e1>>) @@ (mid :> <<e2>>) @@ (snk :> <<>>)
MidOnly == {mid}
SnkOnly == {snk}

\* src -> mid -> snk and src -> snk
DiamondEdges == {e1, e2, e3}
DiamondConsumer == (e1 :> mid) @@ (e2 :> snk) @@ (e3 :> snk)
DiamondPorts == (src :> <<>>) @@ (mid :> <<e1>>) @@ (snk :> <<e2, e3>>)
DiamondMirrors == (src :> <<e1, e3>>) @@ (mid :> <<e2>>) @@ (snk :> <<>>)

\* the graph input inp -> mid -> snk
FedNodes == {mid, snk}
Fed == <<mid, snk>>
InpOnly == {inp}
FedPorts == (mid :> <<e1>>) @@ (snk :> <<e2>>)
FedMirrors == (inp :> <<e1>>) @@ (mid :> <<e2>>) @@ (snk :> <<>>)
\* The graph is fed and closed after Start, or partly or wholly before it.
FeedAndClose ==
    LET start == << <<"Start", {}>> >>
        feed  == << <<"AddPacket", inp>> >>
        close == << <<"CloseInput", inp>> >>
    IN  {[a \in Apps |-> calls \o << <<"Wait">> >>] :
            calls \in {start \o feed \o close, feed \o start \o feed \o close,
                       feed \o close \o start}}

\* src -> snk
PairNodes == {src, snk}
Pair == <<src, snk>>
PairEdges == {e1}
PairConsumer == (e1 :> snk)
PairPorts == (src :> <<>>) @@ (snk :> <<e1>>)
PairMirrors == (src :> <<e1>>) @@ (snk :> <<>>)

Supply1 == [s \in Sources |-> 1]

OneApp == {app}
JustRun == {[a \in Apps |-> << <<"Start", {}>> >>]}
RunAndWait == {[a \in Apps |-> << <<"Start", {}>>, <<"Wait">> >>]}
\* Start, with at most one node failing to open.
RunOrOpenFailure ==
    JustRun \cup {[a \in Apps |-> << <<"Start", {n}>> >>] : n \in Nodes}

\* Start, then the calls cs.
Controlled(cs) == [a \in Apps |-> << <<"Start", {}>> >> \o cs]
PauseResume == {Controlled(<< <<"Pause">>, <<"Resume">> >>)}
Control ==
    PauseResume \cup {Controlled(<< <<"Pause">>, <<"Cancel">> >>),
                      Controlled(<< <<"Cancel">> >>), Controlled(<< <<"Shutdown">> >>)}
=============================================================================
