--------------------------- MODULE ConfigValidator ---------------------------
(***************************************************************************)
(* The validation of a graph configuration, from                           *)
(* graph_runtime/src/framework/config/config_validator.cc: four checks in  *)
(* sequence, then a depth-first search for cycles with an explicit stack.  *)
(*                                                                         *)
(* Nodes are identified by their index in config.nodes, from 1.  The       *)
(* children of a node are searched in some order: the code's is one of     *)
(* them, and a frame's next_child is the set of children still to visit.   *)
(* A child that deps lists more than once is visited once: by the second   *)
(* visit the code finds it done, and skips it.                             *)
(***************************************************************************)
EXTENDS Integers, Sequences

CONSTANTS
    Strings,       \* the names of nodes, types, executors, ports and streams
    OptionSets,    \* the values of NodeOptions: maps from keys to scalars
    Configs        \* the configurations to validate

\* An entry "port:stream"; a plain name is its own port and stream.
PortStream == [port : Strings, stream : Strings]

NodeDef == [name : Strings, type : Strings, executor : Strings, options : OptionSets,
            input_streams : Seq(PortStream), output_streams : Seq(PortStream)]

ExecutorDef == [name : Strings, num_threads : Int]

GraphConfig == [nodes : Seq(NodeDef), executors : Seq(ExecutorDef),
                input_streams : Seq(Strings), output_streams : Seq(Strings)]

ASSUME ConfigAssumption == Configs \subseteq GraphConfig

VARIABLES
    config,        \* the configuration being validated; never changes
    phase,         \* the check that comes next, or the outcome
    color,         \* state: node -> 0 unvisited, 1 in progress, 2 done
    start,         \* the node the outer loop is at
    stack,         \* the frames: a node and its children still to visit
    path,          \* the nodes on the way from the start node
    cycle          \* cycle_nodes

dfsVars == <<color, start, stack, path, cycle>>
validatorVars == <<config, phase, dfsVars>>

Indices == 1..Len(config.nodes)

Elements(s) == {s[i] : i \in 1..Len(s)}
Distinct(s) == \A i, j \in 1..Len(s) : s[i] = s[j] => i = j

\* StreamName of every entry of s.
StreamNames(s) == {s[i].stream : i \in 1..Len(s)}

Phases == {"names", "executors", "inputs", "connectivity", "cycles", "accepted", "rejected"}

\* Where a call of Validate starts.
ValidateStart ==
    /\ phase = "names"
    /\ color = [i \in Indices |-> 0]
    /\ start = 1
    /\ stack = <<>>
    /\ path = <<>>
    /\ cycle = <<>>

Init ==
    /\ config \in Configs
    /\ ValidateStart

-----------------------------------------------------------------------------
\* One check: go on to the next one, or return its error.
Check(p, ok, next) ==
    /\ phase = p
    /\ phase' = IF ok THEN next ELSE "rejected"
    /\ UNCHANGED <<config, dfsVars>>

ValidateUniqueNames ==
    Check("names",
          \A i, j \in Indices : config.nodes[i].name = config.nodes[j].name => i = j,
          "executors")

ValidateUniqueExecutors ==
    Check("executors",
          \A i, j \in 1..Len(config.executors) :
            config.executors[i].name = config.executors[j].name => i = j,
          "inputs")

ValidateNoDuplicateNodeInputs ==
    Check("inputs",
          \A n \in Indices :
            LET s == config.nodes[n].input_streams
            IN  \A i, j \in 1..Len(s) : s[i].stream = s[j].stream => i = j,
          "connectivity")

\* CollectOutputStreams: the streams of the nodes and the graph's own.
OutputStreams ==
    (UNION {StreamNames(config.nodes[n].output_streams) : n \in Indices})
      \cup Elements(config.output_streams)

\* Only the first node's inputs are looked at.
MutValidateConnectivityFirstOnly ==
    Check("connectivity",
          Indices = {} \/ StreamNames(config.nodes[1].input_streams)
                            \subseteq OutputStreams \cup Elements(config.input_streams),
          "cycles")

ValidateConnectivity ==
    Check("connectivity",
          \A n \in Indices :
            StreamNames(config.nodes[n].input_streams)
              \subseteq OutputStreams \cup Elements(config.input_streams),
          "cycles")

-----------------------------------------------------------------------------
(* ValidateNoCycles.                                                       *)

\* Of several producers of a stream only the first is counted.
MutDepsFirstProducer(n) ==
    {m \in Indices :
        \E s \in StreamNames(config.nodes[n].input_streams) :
            /\ s \in StreamNames(config.nodes[m].output_streams)
            /\ \A l \in 1..(m - 1) : s \notin StreamNames(config.nodes[l].output_streams)}

\* BuildDependencyGraph: the nodes that produce a stream which n consumes.
Deps(n) ==
    {m \in Indices :
        StreamNames(config.nodes[n].input_streams)
          \cap StreamNames(config.nodes[m].output_streams) # {}}

Top == stack[Len(stack)]
PopBack(s) == SubSeq(s, 1, Len(s) - 1)

\* Enter a node: mark it in progress and push its frame.
Push(n, frames) ==
    /\ color' = [color EXCEPT ![n] = 1]
    /\ stack' = Append(frames, [node |-> n, todo |-> Deps(n)])
    /\ path' = Append(path, n)

\* The outer loop skips a node.
MutNextStartSkips ==
    /\ phase = "cycles"
    /\ stack = <<>>
    /\ start \in Indices
    /\ \/ /\ color[start] = 0
          /\ Push(start, stack)
          /\ UNCHANGED start
       \/ /\ color[start] # 0
          /\ start' = start + 2
          /\ path' = <<>>
          /\ UNCHANGED <<color, stack>>
    /\ UNCHANGED <<config, phase, cycle>>

\* The outer loop: search from the next node that is unvisited.
NextStart ==
    /\ phase = "cycles"
    /\ stack = <<>>
    /\ start \in Indices
    /\ \/ /\ color[start] = 0
          /\ Push(start, stack)
          /\ UNCHANGED start
       \/ /\ color[start] # 0
          /\ start' = start + 1
          /\ path' = <<>>
          /\ UNCHANGED <<color, stack>>
    /\ UNCHANGED <<config, phase, cycle>>

\* A frame without children left is popped, and its node is unvisited again.
MutBacktrackUnmarked ==
    /\ phase = "cycles"
    /\ stack # <<>>
    /\ Top.todo = {}
    /\ color' = [color EXCEPT ![Top.node] = 0]
    /\ stack' = PopBack(stack)
    /\ path' = PopBack(path)
    /\ UNCHANGED <<config, phase, start, cycle>>

\* A frame without children left is done and popped.
Backtrack ==
    /\ phase = "cycles"
    /\ stack # <<>>
    /\ Top.todo = {}
    /\ color' = [color EXCEPT ![Top.node] = 2]
    /\ stack' = PopBack(stack)
    /\ path' = PopBack(path)
    /\ UNCHANGED <<config, phase, start, cycle>>

\* The stack with child taken from the top frame: next_child++.
Advanced(child) == [stack EXCEPT ![Len(stack)].todo = @ \ {child}]

\* The cycle is traced from the start of the path.
MutFoundCycleWholePath(child) ==
    /\ color[child] = 1
    /\ cycle' = Append(path, child)
    /\ phase' = "rejected"
    /\ stack' = Advanced(child)
    /\ UNCHANGED <<color, path>>

\* A child in progress closes a cycle: trace it from there to the end of path.
FoundCycle(child) ==
    /\ color[child] = 1
    /\ \E k \in 1..Len(path) :
        /\ path[k] = child
        /\ \A j \in 1..(k - 1) : path[j] # child
        /\ cycle' = Append(SubSeq(path, k, Len(path)), child)
    /\ phase' = "rejected"
    /\ stack' = Advanced(child)
    /\ UNCHANGED <<color, path>>

Descend(child) ==
    /\ color[child] = 0
    /\ Push(child, Advanced(child))
    /\ UNCHANGED <<phase, cycle>>

\* A child in progress is taken for one that is done.
MutSkipVisited(child) ==
    /\ color[child] \in {1, 2}
    /\ stack' = Advanced(child)
    /\ UNCHANGED <<phase, color, path, cycle>>

Skip(child) ==
    /\ color[child] = 2
    /\ stack' = Advanced(child)
    /\ UNCHANGED <<phase, color, path, cycle>>

\* Visit the next child of the top frame.
VisitChild ==
    /\ phase = "cycles"
    /\ stack # <<>>
    /\ \E child \in Top.todo : FoundCycle(child) \/ Descend(child) \/ Skip(child)
    /\ UNCHANGED <<config, start>>

\* Every node was a start node or reached from one.
Accept ==
    /\ phase = "cycles"
    /\ stack = <<>>
    /\ start \notin Indices
    /\ phase' = "accepted"
    /\ UNCHANGED <<config, dfsVars>>

Validate ==
    \/ ValidateUniqueNames
    \/ ValidateUniqueExecutors
    \/ ValidateNoDuplicateNodeInputs
    \/ ValidateConnectivity
    \/ NextStart
    \/ Backtrack
    \/ VisitChild
    \/ Accept

Spec == Init /\ [][Validate]_validatorVars

-----------------------------------------------------------------------------
(* Properties.                                                             *)

\* No subset of the nodes ns has all its members depend on a member: the
\* reference definition of acyclicity, independent of any search.
Acyclic(ns) == \A S \in SUBSET ns : S # {} => \E n \in S : Deps(n) \cap S = {}

\* A configuration that ValidateNoCycles lets pass has no cycle, whatever
\* nodes the searches from earlier start nodes have already marked done.
AcceptedIsAcyclic == phase = "accepted" => Acyclic(Indices)

\* The cycle that ValidateNoCycles reports exists: it leads from a node along
\* dependencies back to that node.
CycleIsReal ==
    cycle # <<>> =>
        /\ Len(cycle) > 1
        /\ cycle[1] = cycle[Len(cycle)]
        /\ \A i \in 1..(Len(cycle) - 1) : cycle[i + 1] \in Deps(cycle[i])

-----------------------------------------------------------------------------
(* The inductive invariant behind them.                                    *)

Done == {n \in Indices : color[n] = 2}

ValidatorTypeOK ==
    /\ config \in GraphConfig
    /\ phase \in Phases
    /\ color \in [Indices -> 0..2]
    /\ start \in 1..(Len(config.nodes) + 1)
    /\ stack \in Seq([node : Indices, todo : SUBSET Indices])
    /\ path \in Seq(Indices)
    /\ cycle \in Seq(Indices)

\* The path lists the nodes of the frames.
PathIsStack ==
    /\ Len(path) = Len(stack)
    /\ \A i \in 1..Len(stack) : path[i] = stack[i].node

\* The nodes in progress are those on the path, each once.
PathIsInProgress ==
    /\ \A i \in 1..Len(path) : color[path[i]] = 1
    /\ \A n \in Indices : color[n] = 1 => \E i \in 1..Len(path) : path[i] = n
    /\ Distinct(path)

PathFollowsDeps == \A i \in 1..(Len(path) - 1) : path[i + 1] \in Deps(path[i])

\* While the search goes on, a child that a frame no longer has to visit is
\* done, or it is the node of the next frame.
ChildrenAccounted ==
    \A i \in 1..Len(stack) :
        /\ stack[i].todo \subseteq Deps(path[i])
        /\ phase # "rejected" =>
            \A m \in Deps(path[i]) \ stack[i].todo :
                color[m] = 2 \/ (i < Len(stack) /\ m = path[i + 1])

\* A node that is done depends on nodes that are done only, and these nodes
\* have no cycle.
DoneIsClosed == \A n \in Done : Deps(n) \subseteq Done
DoneIsAcyclic == Acyclic(Done)

\* The start nodes behind the outer loop are done.
StartsAreDone ==
    /\ \A n \in 1..(start - 1) : color[n] = 2
    /\ phase = "accepted" => start = Len(config.nodes) + 1

\* What every step of the search preserves.
SearchInv ==
    /\ ValidatorTypeOK
    /\ PathIsStack
    /\ PathIsInProgress
    /\ PathFollowsDeps
    /\ ChildrenAccounted
    /\ DoneIsClosed
    /\ DoneIsAcyclic
    /\ StartsAreDone
    /\ CycleIsReal

=============================================================================
