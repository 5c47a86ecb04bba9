---------------------------- MODULE GraphWiring ----------------------------
(***************************************************************************)
(* From a configuration, built in code or read from a document, to the     *)
(* objects of a graph: JsonParser, Options::Apply, GraphBuilder::Build and *)
(* GraphRuntime::Initialize around ConfigValidator, while libraries        *)
(* register and unregister node types.  The result is what GraphScheduler  *)
(* takes as its constants: which input streams a node reads, which ones an *)
(* output fans out to, which queue a node is bound to and which queues     *)
(* have an executor.                                                       *)
(*                                                                         *)
(* From graph_runtime/src/framework/public/{graph_builder,graph_runtime}.cc *)
(* and scheduler/{scheduler,thread_pool_executor}.cc.                      *)
(***************************************************************************)
EXTENDS ConfigValidator, NodeRegistry, JsonParser

CONSTANTS
    Documents,     \* what parsers are asked to read
    NoDocument,    \* the configuration is built in code
    Overrides,     \* GraphRuntime::Options: type name -> options to set
    Hardware,      \* what std::thread::hardware_concurrency may return
    StaticTypes,   \* the types registered before a configuration built in code is used
    Preloads       \* the types registered before a document is read

\* NodeOptions: old with the options of new set in it.
SetOptions(old, new) ==
    [key \in DOMAIN old \cup DOMAIN new |-> IF key \in DOMAIN new THEN new[key] ELSE old[key]]

\* The members of a node definition, of the type they should have or Wrong.
NodeJson(nj) ==
    LET options == Value(nj, "options", <<>>)
        WrongOr(key, default, S) == Value(nj, key, default) = Wrong \/ Value(nj, key, default) \in S
    IN  /\ \A key \in {"name", "type", "executor"} : WrongOr(key, NoName, Strings)
        /\ \A key \in {"input_streams", "output_streams"} : WrongOr(key, <<>>, Seq(PortStream))
        /\ options = Wrong \/ BadOption(options) \/ options \in OptionSets

ExecutorJson(ej) ==
    /\ Value(ej, "name", NoName) = Wrong \/ Value(ej, "name", NoName) \in Strings
    /\ Value(ej, "num_threads", 0) = Wrong \/ Value(ej, "num_threads", 0) \in Int

IsList(s) == Len(s) \in Nat /\ DOMAIN s = 1..Len(s)

RootJson(root) ==
    LET nodes == Value(root, "nodes", <<>>)
        executors == Value(root, "executors", <<>>)
    IN  /\ \A key \in {"input_streams", "output_streams"} :
              Value(root, key, <<>>) = Wrong \/ Value(root, key, <<>>) \in Seq(Strings)
        /\ IsList(executors) /\ \A i \in DOMAIN executors : ExecutorJson(executors[i])
        /\ IsList(nodes) /\ \A i \in DOMAIN nodes : NodeJson(nodes[i])

ASSUME WiringAssumption ==
    /\ NoName \in Strings
    /\ \A d \in Documents : d.root = Wrong \/ RootJson(d.root)
    /\ \A t \in DOMAIN Overrides : \A o \in OptionSets : SetOptions(o, Overrides[t]) \in OptionSets
    /\ Hardware \subseteq Nat
    /\ \A types \in Preloads \cup {StaticTypes} :
          types \in Seq(TypeNames) /\ Len(types) <= MaxRegistrations

VARIABLES
    document,      \* the document being read; never changes
    stage,         \* how far parsing, Build and Initialize have come
    executed,      \* queue with an executor -> its threads; NoName: default
    factory,       \* Build: what GetFactory has returned for the next node
    made,          \* all_nodes_: the factory that made each node
    ports,         \* node -> its input_ports_: port name -> edge
    mirrors        \* <<output manager, edge>>: the edge mirrors that output

buildVars == <<stage, executed, factory, made>>
wiringVars == <<ports, mirrors>>
vars == <<validatorVars, registryVars, document, buildVars, wiringVars>>

\* An InputStreamManager: input k of node n.
Edge(n, k) == <<n, k>>
NodeEdges(n) == {Edge(n, k) : k \in 1..Len(config.nodes[n].input_streams)}
Edges == UNION {NodeEdges(n) : n \in Indices}
PortOf(e) == config.nodes[e[1]].input_streams[e[2]].port
StreamOf(e) == config.nodes[e[1]].input_streams[e[2]].stream

EmptyConfig == [nodes |-> <<>>, executors |-> <<>>, input_streams |-> <<>>, output_streams |-> <<>>]

WiringInit ==
    /\ \/ /\ document = NoDocument
          /\ stage = "configured"
          /\ Init
          /\ RegistryInit(StaticTypes)
       \/ /\ document \in Documents
          /\ stage = "unread"
          /\ config = EmptyConfig
          /\ ValidateStart
          /\ \E types \in Preloads : RegistryInit(types)
    /\ executed = <<>>
    /\ factory = NoFactory
    /\ made = <<>>
    /\ ports = [n \in Indices |-> <<>>]
    /\ mirrors = {}

\* A call of Validate for c: from ValidateStart.
CallValidate(c) ==
    /\ config' = c
    /\ phase' = "names"
    /\ color' = [i \in 1..Len(c.nodes) |-> 0]
    /\ start' = 1
    /\ stack' = <<>>
    /\ path' = <<>>
    /\ cycle' = <<>>

Validating ==
    /\ stage \in {"parsing", "building"}
    /\ Validate
    /\ UNCHANGED <<registryVars, document, buildVars, wiringVars>>

-----------------------------------------------------------------------------
(* Reading a document.                                                     *)

\* JsonParser::Parse and ParseFromString up to the call of Validate.
ParseJsonText ==
    /\ stage = "unread"
    /\ LET read == ReadOutcome(document)
           outcome == IF read = "ok" THEN Outcome(document.root) ELSE read
       IN  \/ /\ outcome = "ok"
              /\ stage' = "parsing"
              /\ CallValidate(ConfigOf(document.root))
           \/ /\ outcome # "ok"
              /\ stage' = outcome
              /\ UNCHANGED validatorVars
    /\ ports' = [n \in Indices' |-> <<>>]
    /\ UNCHANGED <<registryVars, document, executed, factory, made, mirrors>>

\* The parser returns a configuration that Validate has accepted.
ParserReturns ==
    /\ stage = "parsing"
    /\ phase = "accepted"
    /\ stage' = "configured"
    /\ UNCHANGED <<validatorVars, registryVars, document, executed, factory, made, wiringVars>>

-----------------------------------------------------------------------------
(* GraphRuntime::Initialize.                                               *)

\* Options::Apply: the overrides for a type replace the options of its nodes.
Apply(c) ==
    [c EXCEPT !.nodes =
        [i \in DOMAIN c.nodes |->
            IF c.nodes[i].type \in DOMAIN Overrides
            THEN [c.nodes[i] EXCEPT !.options = SetOptions(@, Overrides[c.nodes[i].type])]
            ELSE c.nodes[i]]]

\* Initialize up to Build's call of Validate.  config becomes merged; the
\* runtime keeps the original, which differs in the options only.
Initialize ==
    /\ stage = "configured"
    /\ stage' = "building"
    /\ CallValidate(Apply(config))
    /\ UNCHANGED <<registryVars, document, executed, factory, made, wiringVars>>

\* The pool gets no thread where the hardware concurrency is not known.
MutCreateUnfloored(num_threads, hw) ==
    IF num_threads <= 0 THEN (IF hw < 1 THEN hw ELSE 1) ELSE num_threads

\* ThreadPoolExecutor::Create: the threads of the pool for num_threads; hw is
\* hardware_concurrency, 0 if that is not known.
Create(num_threads, hw) ==
    LET n == IF num_threads <= 0 THEN (IF hw < 1 THEN hw ELSE 1) ELSE num_threads
    IN  IF n < 1 THEN 1 ELSE n

ExecutorNames == {config.executors[i].name : i \in DOMAIN config.executors}
NumThreads(name) ==
    config.executors[CHOOSE i \in DOMAIN config.executors :
                        config.executors[i].name = name].num_threads

\* Build: the executors of the configuration, or a default one with a thread
\* per node as far as the hardware has them.
CreateExecutors ==
    /\ stage = "building"
    /\ phase = "accepted"
    /\ stage' = "creating"
    /\ \E hw \in Hardware :
        LET nodes == IF Len(config.nodes) > 1 THEN Len(config.nodes) ELSE 1
        IN  executed' =
              IF config.executors = <<>>
              THEN [name \in {NoName} |-> Create(IF hw < nodes THEN hw ELSE nodes, hw)]
              ELSE [name \in ExecutorNames |->
                       Create(NumThreads(name), hw)]
    /\ UNCHANGED <<validatorVars, registryVars, document, factory, made, wiringVars>>

\* Build, for the next node: CreateByName's GetFactory, under the mutex.
\* Without a factory what was made is thrown away.
LookUpFactory ==
    /\ stage = "creating"
    /\ factory = NoFactory
    /\ Len(made) < Len(config.nodes)
    /\ LET f == GetFactory(config.nodes[Len(made) + 1].type)
       IN  \/ /\ f # NoFactory
              /\ factory' = f
              /\ UNCHANGED <<stage, executed, made>>
           \/ /\ f = NoFactory
              /\ stage' = "not_registered"
              /\ executed' = <<>>
              /\ made' = <<>>
              /\ UNCHANGED factory
    /\ UNCHANGED <<validatorVars, registryVars, document, wiringVars>>

\* Then factory->CreateNode, without the mutex.  If the factory was destroyed
\* in between this is undefined: it may crash, or find the memory as it was.
CreateNode ==
    /\ factory # NoFactory
    /\ factory' = NoFactory
    /\ \/ /\ made' = Append(made, factory)
          /\ UNCHANGED stage
       \/ /\ ~ Alive(factory)
          /\ stage' = "crashed"
          /\ UNCHANGED made
    /\ UNCHANGED <<validatorVars, registryVars, document, executed, wiringVars>>

\* Scheduler::AssignNodeToQueue: an unknown executor means the default queue.
QueueOfNode(n) ==
    LET name == config.nodes[n].executor
    IN  IF name \in ExecutorNames THEN name ELSE NoName

\* SetInputPort for every input of n in order: a later input with the same
\* port name replaces an earlier one.
InputPortsOf(n) ==
    [p \in {PortOf(e) : e \in NodeEdges(n)} |->
        CHOOSE e \in NodeEdges(n) :
            /\ PortOf(e) = p
            /\ \A f \in NodeEdges(n) : PortOf(f) = p => f[2] <= e[2]]

\* The OutputStreamManagers of stream s: output k of node n is <<n, k>>, and
\* the virtual source of graph input k is <<0, k>>.
NodeOutputs(s) ==
    UNION {{<<n, k>> : k \in {i \in 1..Len(config.nodes[n].output_streams) :
                                config.nodes[n].output_streams[i].stream = s}} :
           n \in Indices}
GraphInputs(s) ==
    {<<0, k>> : k \in {i \in 1..Len(config.input_streams) : config.input_streams[i] = s}}

\* The one that is registered last.
Latest(ms) ==
    CHOOSE m \in ms : \A l \in ms : l[1] < m[1] \/ (l[1] = m[1] /\ l[2] <= m[2])

\* output_by_stream: of several outputs with one name the last one counts,
\* and a graph input replaces them all.
OutputByStream(s) ==
    IF GraphInputs(s) # {} THEN Latest(GraphInputs(s)) ELSE Latest(NodeOutputs(s))

\* The rest of Initialize, once Build has returned.
Wire ==
    /\ stage = "creating"
    /\ factory = NoFactory
    /\ Len(made) = Len(config.nodes)
    /\ stage' = "wired"
    /\ ports' = [n \in Indices |-> InputPortsOf(n)]
    /\ mirrors' = {<<OutputByStream(StreamOf(e)), e>> :
                     e \in {f \in Edges :
                              GraphInputs(StreamOf(f)) \cup NodeOutputs(StreamOf(f)) # {}}}
    /\ UNCHANGED <<validatorVars, registryVars, document, executed, factory, made>>

-----------------------------------------------------------------------------
\* The thread that reads, builds and wires.
InitializeStep ==
    \/ Validating
    \/ ParseJsonText
    \/ ParserReturns
    \/ Initialize
    \/ CreateExecutors
    \/ LookUpFactory
    \/ CreateNode
    \/ Wire

\* Other threads load and unload libraries.  To bound the state space they do
\* so only where the configuration comes from a document.
LibraryStep ==
    /\ document # NoDocument
    /\ \/ \E t \in TypeNames : Register(t)
       \/ \E id \in tokens : Unregister(id)
    /\ UNCHANGED <<validatorVars, document, buildVars, wiringVars>>

Next == InitializeStep \/ LibraryStep

\* The thread in Initialize is scheduled; nobody has to load a library.
WiringSpec == WiringInit /\ [][Next]_vars /\ WF_vars(InitializeStep)

-----------------------------------------------------------------------------
(* Properties.                                                             *)

Stages == {"unread", "parsing", "configured", "building", "creating", "wired",
           "nullptr", "not_found", "invalid", "thrown", "not_registered", "crashed"}

\* Every variable has its type; the outer loop of the search stays in range,
\* a node is made by a factory of its type, and a port of a node leads to an
\* input of that node.
TypeOK ==
    /\ ValidatorTypeOK
    /\ RegistryTypeOK
    /\ stage \in Stages
    /\ DOMAIN executed \subseteq Strings
    /\ factory \in DOMAIN registrations \cup {NoFactory}
    /\ \A n \in DOMAIN made : registrations[made[n]] = config.nodes[n].type
    /\ \A n \in Indices : \A p \in DOMAIN ports[n] : ports[n][p] \in NodeEdges(n)

\* Packets cannot travel in a circle: the graph that Initialize wires up has
\* no cycle, although it resolves stream names in its own way (one producer
\* per name) and the validator in another (all of them).
WiredAcyclic ==
    stage = "wired" =>
        \A S \in SUBSET Indices : S # {} =>
            \E n \in S : \A link \in mirrors : ~ (link[2][1] = n /\ link[1][1] \in S)

\* Every input of a node has a producer, except one whose stream is listed
\* in the graph's output_streams: CollectOutputStreams counts these as
\* produced, whether or not a node produces them.
EveryInputFed ==
    stage = "wired" =>
        \A e \in Edges :
            \/ \E link \in mirrors : link[2] = e
            \/ StreamOf(e) \in Elements(config.output_streams)

\* Every node is bound to a queue whose executor has a thread, whatever the
\* configuration says about num_threads and the hardware about its
\* concurrency, unless the configuration has named executors only: then the
\* default queue has none.
EveryNodeServed ==
    stage = "wired" /\ (config.executors = <<>> \/ NoName \in ExecutorNames) =>
        \A n \in Indices :
            /\ QueueOfNode(n) \in DOMAIN executed
            /\ executed[QueueOfNode(n)] >= 1

\* Parsing, validation and Initialize come to an end, whatever is registered
\* or unregistered meanwhile: with a graph, with an error, or abnormally.
InitializeReturns ==
    <>(phase = "rejected" \/ stage \in Stages \ {"unread", "parsing", "configured",
                                                  "building", "creating"})

-----------------------------------------------------------------------------
(* The inductive invariant behind the safety properties.                   *)

\* What the parser or the application has handed over.
DocumentKnown ==
    /\ document \in Documents \cup {NoDocument}
    /\ stage = "unread" => document \in Documents

\* The search for cycles begins when every input is known to have a producer.
SearchedIsConnected ==
    phase \in {"cycles", "accepted"} =>
        \A n \in Indices :
            StreamNames(config.nodes[n].input_streams)
              \subseteq OutputStreams \cup Elements(config.input_streams)

\* Nothing is made before the configuration is accepted.
BuiltIsAccepted ==
    /\ stage \in {"creating", "wired"} => phase = "accepted"
    /\ factory # NoFactory => stage = "creating" /\ Len(made) < Len(config.nodes)
    /\ made # <<>> => stage \in {"creating", "wired", "crashed"}
    /\ Len(made) <= Len(config.nodes)

\* A node is made, or about to be made, by a factory of its type.
MadeByType ==
    /\ made \in Seq(DOMAIN registrations)
    /\ \A n \in 1..Len(made) : registrations[made[n]] = config.nodes[n].type
    /\ factory \in DOMAIN registrations \cup {NoFactory}
    /\ factory # NoFactory => registrations[factory] = config.nodes[Len(made) + 1].type

\* The executors are those of the configuration, or the default one.
ExecutorsCreated ==
    /\ DOMAIN executed \subseteq Strings
    /\ stage \in {"creating", "wired"} =>
        /\ DOMAIN executed = IF config.executors = <<>> THEN {NoName} ELSE ExecutorNames
        /\ \A name \in DOMAIN executed : executed[name] >= 1

\* The wiring, once it is there, is that of the accepted configuration.
WiredFromConfig ==
    /\ ports = [n \in Indices |-> IF stage = "wired" THEN InputPortsOf(n) ELSE <<>>]
    /\ stage = "wired" =>
        mirrors = {<<OutputByStream(StreamOf(e)), e>> :
                     e \in {f \in Edges :
                              GraphInputs(StreamOf(f)) \cup NodeOutputs(StreamOf(f)) # {}}}

\* What every step of reading, building and wiring preserves.
WiringInv ==
    /\ SearchInv
    /\ RegistryInv
    /\ stage \in Stages
    /\ DocumentKnown
    /\ SearchedIsConnected
    /\ BuiltIsAccepted
    /\ MadeByType
    /\ ExecutorsCreated
    /\ WiredFromConfig

=============================================================================
