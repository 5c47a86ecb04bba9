----------------------------- MODULE MCStreams -----------------------------
(***************************************************************************)
(* Streams on five small graphs of the nodes p1 and p3, the graph input p2 *)
(* and the consumers c1 and c2.                                            *)
(***************************************************************************)
EXTENDS Streams, TLC

CONSTANTS p1, p2, p3, c1, c2, e1, e2, e3

MCProducers == {p1, p2, p3}
MCGraphInputs == {p2}
MCConsumers == {c1, c2}

\* c1 waits for the bounds of its two ports, one of them a graph input.
Synchronized == [mirrors |-> (p1 :> <<e1>>) @@ (p2 :> <<e2>>), ports |-> (c1 :> <<e1, e2>>),
                 policy |-> (c1 :> "default"), driven |-> {c1}]

\* p1 mirrors to c1 and to c2, which RunNode runs.
Mirrored == [mirrors |-> (p1 :> <<e3, e1>>), ports |-> (c1 :> <<e1>>) @@ (c2 :> <<e3>>),
             policy |-> (c1 :> "default") @@ (c2 :> "fixed_size"), driven |-> {c1}]

\* c2 is driven by a handler that does not wait for bounds.
Unwaiting(handler) == [mirrors |-> (p1 :> <<e3>>), ports |-> (c2 :> <<e3>>),
                       policy |-> (c2 :> handler), driven |-> {c2}]

\* The bounds of p3 are so far ahead of its inputs that their sum overflows.
Overflowing == [mirrors |-> (p3 :> <<e1>>), ports |-> (c1 :> <<e1>>),
                policy |-> (c1 :> "default"), driven |-> {c1}]

MCGraphs == {Synchronized, Mirrored, Overflowing, Unwaiting("immediate"), Unwaiting("fixed_size")}
MCMaxQueueSize == (c1 :> 2) @@ (c2 :> 2)
MCOffset == (p1 :> 1) @@ (p2 :> NoOffset) @@ (p3 :> INT64_MAX - 1)
MCMaxInvocations == (p1 :> 2) @@ (p2 :> 2) @@ (p3 :> 2)

\* Two of the range's values, and the timestamp of a summary packet.
MCBehaviours ==
    (p1 :> {<<>>, << <<"Close", Done>> >>, << <<"Empty", MinTime>> >>,
           << <<"Bound", MinTime + 1>> >>, << <<"Packet", MinTime>> >>,
           << <<"Packet", MinTime + 1>>, <<"Packet", PostStream>> >>,
           << <<"Packet", MinTime + 1>>, <<"Close", Done>> >>})
    @@ (p3 :> {<<>>, << <<"Close", Done>> >>, << <<"Packet", MinTime + 1>> >>,
               << <<"Packet", PostStream>> >>})
    @@ (p2 :> {<< <<"Packet", t>> >> : t \in {MinTime, MinTime + 1}})
=============================================================================
