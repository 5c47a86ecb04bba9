----------------------------- MODULE MCProfile -----------------------------
(***************************************************************************)
(* ProfileReport for two sources and a consumer of both.                   *)
(***************************************************************************)
EXTENDS ProfileReport

MCAllNodes == <<"s1", "d", "s2">>
MCSources == {"s1", "s2"}
MCConsumers == [n \in MCSources |-> {"d"}]
MCMayFail == {"s1", "d"}
MCMayStop == {"s2"}

\* Process takes time, and of the Opens and Closes those of s2.
MCElapsed ==
    LET some(m) == IF m = "s2" THEN {1} ELSE {0}
        nodes == {"s1", "d", "s2"}
    IN  [OPEN |-> [m \in nodes |-> some(m)], PROCESS |-> [m \in nodes |-> {2}],
         CLOSE |-> [m \in nodes |-> some(m)]]
=============================================================================
