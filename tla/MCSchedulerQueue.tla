-------------------------- MODULE MCSchedulerQueue --------------------------
(***************************************************************************)
(* SchedulerQueue on a small instance: a source and a consumer on one      *)
(* queue, a pool of two workers, one client.                               *)
(***************************************************************************)
EXTENDS SchedulerQueue

CONSTANTS src, n1, q0, w1, w2, app

OneQueue == {q0}
SourceAndConsumer == {src, n1}
OneSource == {src}

AllOnDefault == [n \in Nodes |-> q0]
OneInFlight == [n \in Nodes |-> 1]
Layers == [n \in Nodes |-> 0]
Ids == [n \in Nodes |-> IF n = src THEN 0 ELSE 1]

TwoWorkers == {w1, w2}
OneClient == {app}
PoolOfTwo == [w \in Workers |-> q0]
=============================================================================
