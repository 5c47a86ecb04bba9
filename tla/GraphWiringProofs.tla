------------------------- MODULE GraphWiringProofs -------------------------
(***************************************************************************)
(* Reading, building and wiring a graph keep WiringInv, for documents and  *)
(* configurations of any size, any hardware and any libraries that come    *)
(* and go; the safety properties of GraphWiring and NodeRegistry follow.   *)
(***************************************************************************)
EXTENDS GraphWiring, ConfigValidatorProofs, InductionLemmas

-----------------------------------------------------------------------------
(* The registry.                                                           *)

\* The static initialisers leave every name with its latest factory.
LEMMA RegistryInitInv ==
    ASSUME NEW types \in Seq(TypeNames), Len(types) <= MaxRegistrations, RegistryInit(types)
    PROVE  RegistryInv
<1>1. Len(types) \in Nat /\ DOMAIN types = 1..Len(types) /\ \A i \in 1..Len(types) : types[i] \in TypeNames
  OBVIOUS
<1>. DEFINE LastOf(t) == CHOOSE i \in DOMAIN types :
                           /\ types[i] = t
                           /\ \A j \in DOMAIN types : types[j] = t => j <= i
            Registered == {types[i] : i \in DOMAIN types}
<1>2. ASSUME NEW t \in Registered
      PROVE  /\ LastOf(t) \in DOMAIN types /\ types[LastOf(t)] = t
             /\ \A j \in DOMAIN types : types[j] = t => j <= LastOf(t)
  <2>. DEFINE T == {i \in DOMAIN types : types[i] = t}
  <2>1. T \in SUBSET Nat /\ T # {} /\ \A i \in T : i <= Len(types)
    BY <1>1
  <2>2. PICK x \in T : \A y \in T : y <= x
    BY <1>1, <2>1, GreatestNat
  <2>. QED  BY <2>2
<1>3. factories = [t \in Registered |-> LastOf(t)]
  BY DEF RegistryInit
<1>. HIDE DEF LastOf
<1>4. /\ registrations = types /\ tokens = DOMAIN types /\ DOMAIN factories = Registered
      /\ \A t \in Registered : factories[t] = LastOf(t)
  BY <1>3 DEF RegistryInit
<1>. QED  BY <1>1, <1>2, <1>4 DEF RegistryInv, RegistryTypeOK, RegistryFollowsTokens

LEMMA RegisterStep ==
    ASSUME RegistryInv, NEW t \in TypeNames, Register(t)
    PROVE  RegistryInv' /\ DOMAIN registrations \subseteq DOMAIN registrations'
           /\ \A id \in DOMAIN registrations : registrations'[id] = registrations[id]
<1>. DEFINE id == Len(registrations) + 1
<1>1. registrations \in Seq(TypeNames) /\ Len(registrations) \in Nat
  BY DEF RegistryInv, RegistryTypeOK
<1>2. /\ registrations' \in Seq(TypeNames) /\ Len(registrations') = id
      /\ DOMAIN registrations' = DOMAIN registrations \cup {id}
      /\ DOMAIN registrations = 1..Len(registrations)
      /\ \A i \in DOMAIN registrations : registrations'[i] = registrations[i]
      /\ registrations'[id] = t
  BY <1>1 DEF Register
<1>3. /\ tokens' = tokens \cup {id}
      /\ DOMAIN factories' = DOMAIN factories \cup {t}
      /\ factories'[t] = id
      /\ \A u \in DOMAIN factories \ {t} : factories'[u] = factories[u]
  BY DEF Register
<1>4. Len(registrations') <= MaxRegistrations
  <2>1. Len(registrations) < MaxRegistrations
    BY DEF Register
  <2>. QED  BY <1>1, <1>2, <2>1, RegistryAssumption
<1>. QED  BY <1>1, <1>2, <1>3, <1>4 DEF RegistryInv, RegistryTypeOK, RegistryFollowsTokens

LEMMA UnregisterStep ==
    ASSUME RegistryInv, NEW id \in tokens, Unregister(id)
    PROVE  RegistryInv' /\ registrations' = registrations
<1>1. /\ registrations' = registrations /\ tokens' = tokens \ {id}
      /\ DOMAIN factories' = DOMAIN factories \ {registrations[id]}
      /\ \A u \in DOMAIN factories' : factories'[u] = factories[u]
  BY DEF Unregister
<1>. QED  BY <1>1 DEF RegistryInv, RegistryTypeOK, RegistryFollowsTokens

-----------------------------------------------------------------------------
(* Documents.                                                              *)

\* If no check has failed the outcome is "ok", and only then.
LEMMA FirstFailureOk ==
    ASSUME NEW checks, DOMAIN checks \subseteq Nat,
           \A i \in DOMAIN checks : checks[i][1] => checks[i][2] # "ok",
           FirstFailure(checks) = "ok"
    PROVE  \A i \in DOMAIN checks : ~ checks[i][1]
<1>. DEFINE failed == {i \in DOMAIN checks : checks[i][1]}
<1>. SUFFICES ASSUME failed # {} PROVE FALSE
  OBVIOUS
<1>1. failed \in SUBSET Nat
  OBVIOUS
<1>2. \E i \in failed : \A j \in failed : i <= j
  BY <1>1, LeastNat
<1>. DEFINE first == CHOOSE i \in failed : \A j \in failed : i <= j
<1>3. first \in failed
  BY <1>2
<1>4. FirstFailure(checks) = checks[first][2]
  BY DEF FirstFailure
<1>. QED  BY <1>3, <1>4

\* Otherwise it is the outcome of one of the checks.
LEMMA FirstFailureType ==
    ASSUME NEW checks, NEW S, DOMAIN checks \subseteq Nat, \A i \in DOMAIN checks : checks[i][2] \in S
    PROVE  FirstFailure(checks) \in S \cup {"ok"}
<1>. DEFINE failed == {i \in DOMAIN checks : checks[i][1]}
<1>1. CASE failed = {}
  BY <1>1 DEF FirstFailure
<1>2. CASE failed # {}
  <2>1. failed \in SUBSET Nat
    OBVIOUS
  <2>2. \E i \in failed : \A j \in failed : i <= j
    BY <1>2, <2>1, LeastNat
  <2>. DEFINE first == CHOOSE i \in failed : \A j \in failed : i <= j
  <2>3. first \in failed
    BY <2>2
  <2>4. FirstFailure(checks) = checks[first][2]
    BY <1>2 DEF FirstFailure
  <2>. QED  BY <2>3, <2>4
<1>. QED  BY <1>1, <1>2

\* A member that is present is read, an absent one has its default.
LEMMA ValueIs ==
    ASSUME NEW object, NEW key, NEW default, NEW other, NEW S, default \in S,
           Value(object, key, other) # Wrong,
           Value(object, key, default) = Wrong \/ Value(object, key, default) \in S
    PROVE  Value(object, key, default) \in S
BY DEF Value

LEMMA NodeOk ==
    ASSUME NEW nj, NodeJson(nj), NodeOutcome(nj) = "ok"
    PROVE  [name |-> nj.name,
            type |-> nj.type,
            executor |-> Value(nj, "executor", NoName),
            options |-> Value(nj, "options", <<>>),
            input_streams |-> Value(nj, "input_streams", <<>>),
            output_streams |-> Value(nj, "output_streams", <<>>)] \in NodeDef
<1>. DEFINE options == Value(nj, "options", <<>>)
            c1 == Throws(nj, {"name"})
            c2 == Value(nj, "name", NoName) = NoName
            c3 == Throws(nj, {"type"})
            c4 == Value(nj, "type", NoName) = NoName
            c5 == Throws(nj, {"input_streams", "output_streams", "executor"})
            c6 == options = Wrong
            c7 == options # Wrong /\ BadOption(options)
            checks == << <<c1, "thrown">>, <<c2, "invalid">>, <<c3, "thrown">>, <<c4, "invalid">>,
                         <<c5, "thrown">>, <<c6, "invalid">>, <<c7, "invalid">> >>
<1>1. FirstFailure(checks) = "ok"
  BY DEF NodeOutcome
<1>2. DOMAIN checks = 1..7
  OBVIOUS
<1>3. \A i \in DOMAIN checks : checks[i][1] => checks[i][2] # "ok"
  BY <1>2
<1>4. \A i \in DOMAIN checks : ~ checks[i][1]
  <2>. HIDE DEF checks
  <2>. QED  BY <1>1, <1>2, <1>3, FirstFailureOk
<1>5. ~c1 /\ ~c2 /\ ~c3 /\ ~c4 /\ ~c5 /\ ~c6 /\ ~c7
  <2>1. /\ ~ checks[1][1] /\ ~ checks[2][1] /\ ~ checks[3][1] /\ ~ checks[4][1]
        /\ ~ checks[5][1] /\ ~ checks[6][1] /\ ~ checks[7][1]
    <3>. HIDE DEF checks
    <3>. QED  BY <1>2, <1>4
  <2>. HIDE DEF c1, c2, c3, c4, c5, c6, c7
  <2>. QED  BY <2>1
<1>6. nj.name \in Strings /\ nj.type \in Strings
  BY <1>5 DEF Value, Throws, NodeJson
<1>7. Value(nj, "executor", NoName) \in Strings
  BY <1>5, ValueIs, WiringAssumption DEF Throws, NodeJson
<1>8. /\ Value(nj, "input_streams", <<>>) \in Seq(PortStream)
      /\ Value(nj, "output_streams", <<>>) \in Seq(PortStream)
  BY <1>5 DEF Value, Throws, NodeJson
<1>9. Value(nj, "options", <<>>) \in OptionSets
  BY <1>5 DEF NodeJson
<1>. QED  BY <1>6, <1>7, <1>8, <1>9 DEF NodeDef

\* A function on 1..n is a sequence.
LEMMA FunctionIsSeq ==
    ASSUME NEW S, NEW n \in Nat, NEW f, DOMAIN f = 1..n, f = [i \in 1..n |-> f[i]],
           \A i \in 1..n : f[i] \in S
    PROVE  f \in Seq(S) /\ Len(f) = n
<1>1. f \in [1..n -> S]
  OBVIOUS
<1>. QED  BY <1>1

\* The checks that Outcome makes, in their order.
LEMMA OutcomeChecks ==
    ASSUME NEW root, root # Wrong, RootJson(root)
    PROVE  LET nodes == Value(root, "nodes", <<>>)
               executors == Value(root, "executors", <<>>)
           IN  \E checks :
                /\ Outcome(root) = FirstFailure(checks)
                /\ DOMAIN checks = 1..(2 + Len(nodes))
                /\ checks[1] = <<Throws(root, {"input_streams", "output_streams"}), "thrown">>
                /\ checks[2] = <<\E i \in DOMAIN executors :
                                     Throws(executors[i], {"name", "num_threads"}), "thrown">>
                /\ \A i \in 1..Len(nodes) :
                     checks[2 + i] = <<NodeOutcome(nodes[i]) # "ok", NodeOutcome(nodes[i])>>
<1>. DEFINE nodes == Value(root, "nodes", <<>>)
            executors == Value(root, "executors", <<>>)
            c1 == Throws(root, {"input_streams", "output_streams"})
            c2 == \E i \in DOMAIN executors : Throws(executors[i], {"name", "num_threads"})
            first == << <<c1, "thrown">>, <<c2, "thrown">> >>
            each == [i \in DOMAIN nodes |-> <<NodeOutcome(nodes[i]) # "ok", NodeOutcome(nodes[i])>>]
            checks == first \o each
<1>1. Outcome(root) = FirstFailure(checks)
  BY DEF Outcome
<1>2. Len(nodes) \in Nat /\ DOMAIN nodes = 1..Len(nodes)
  BY DEF RootJson, IsList
<1>. HIDE DEF c1, c2, nodes, executors
<1>3. /\ DOMAIN checks = 1..(2 + Len(nodes))
      /\ checks[1] = <<c1, "thrown">> /\ checks[2] = <<c2, "thrown">>
      /\ \A i \in 1..Len(nodes) : checks[2 + i] = each[i]
  <2>. DEFINE S == {each[i] : i \in DOMAIN nodes} \cup {<<c1, "thrown">>, <<c2, "thrown">>}
  <2>1. each \in Seq(S) /\ Len(each) = Len(nodes)
    <3>1. DOMAIN each = 1..Len(nodes) /\ each = [i \in 1..Len(nodes) |-> each[i]]
      BY <1>2
    <3>2. \A i \in 1..Len(nodes) : each[i] \in S
      BY <1>2
    <3>. HIDE DEF each, S
    <3>. QED  BY <1>2, <3>1, <3>2, FunctionIsSeq
  <2>2. first \in Seq(S) /\ Len(first) = 2 /\ first[1] = <<c1, "thrown">> /\ first[2] = <<c2, "thrown">>
    <3>. DEFINE p == <<c1, "thrown">>
                q == <<c2, "thrown">>
    <3>1. p \in S /\ q \in S
      OBVIOUS
    <3>2. first = <<p, q>>
      OBVIOUS
    <3>. HIDE DEF p, q, S, first
    <3>3. first \in Seq(S) /\ Len(first) = 2 /\ first[1] = p /\ first[2] = q
      BY <3>1, <3>2
    <3>. QED  BY <3>3 DEF p, q
  <2>. HIDE DEF first, each, S
  <2>3. /\ Len(first \o each) = Len(first) + Len(each)
        /\ first \o each \in Seq(S)
        /\ \A i \in 1..(Len(first) + Len(each)) :
              (first \o each)[i] = IF i <= Len(first) THEN first[i] ELSE each[i - Len(first)]
    BY <2>1, <2>2, ConcatProperties
  <2>. QED  BY <1>2, <2>1, <2>2, <2>3
<1>4. \A i \in 1..Len(nodes) : each[i] = <<NodeOutcome(nodes[i]) # "ok", NodeOutcome(nodes[i])>>
  BY <1>2
<1>5. \A i \in 1..Len(nodes) : checks[2 + i] = <<NodeOutcome(nodes[i]) # "ok", NodeOutcome(nodes[i])>>
  <2>. HIDE DEF checks, each
  <2>. QED  BY <1>3, <1>4
<1>. HIDE DEF checks
<1>. QED  BY <1>1, <1>3, <1>5 DEF c1, c2, nodes, executors

\* A document that passes the checks of ParseJsonText gives a configuration.
LEMMA ConfigOk ==
    ASSUME NEW root, root = Wrong \/ RootJson(root), Outcome(root) = "ok"
    PROVE  ConfigOf(root) \in GraphConfig
<1>. DEFINE nodes == Value(root, "nodes", <<>>)
            executors == Value(root, "executors", <<>>)
            c1 == Throws(root, {"input_streams", "output_streams"})
            c2 == \E i \in DOMAIN executors : Throws(executors[i], {"name", "num_threads"})
<1>1. root # Wrong /\ RootJson(root)
  BY DEF Outcome
<1>2. /\ Len(nodes) \in Nat /\ DOMAIN nodes = 1..Len(nodes)
      /\ Len(executors) \in Nat /\ DOMAIN executors = 1..Len(executors)
      /\ \A i \in DOMAIN executors : ExecutorJson(executors[i])
      /\ \A i \in DOMAIN nodes : NodeJson(nodes[i])
  BY <1>1 DEF RootJson, IsList
<1>3. PICK checks :
        /\ FirstFailure(checks) = "ok"
        /\ DOMAIN checks = 1..(2 + Len(nodes))
        /\ checks[1] = <<c1, "thrown">> /\ checks[2] = <<c2, "thrown">>
        /\ \A i \in 1..Len(nodes) :
             checks[2 + i] = <<NodeOutcome(nodes[i]) # "ok", NodeOutcome(nodes[i])>>
  BY ZenonT(60), <1>1, OutcomeChecks
<1>. HIDE DEF c1, c2, nodes, executors
<1>5. \A i \in DOMAIN checks : checks[i][1] => checks[i][2] # "ok"
  <2>. SUFFICES ASSUME NEW i \in DOMAIN checks, checks[i][1] PROVE checks[i][2] # "ok"
    OBVIOUS
  <2>1. CASE i = 1 \/ i = 2
    BY <1>3, <2>1
  <2>2. CASE i # 1 /\ i # 2
    <3>1. i - 2 \in 1..Len(nodes) /\ 2 + (i - 2) = i
      BY <1>2, <1>3, <2>2
    <3>. DEFINE outcome == NodeOutcome(nodes[i - 2])
                bad == outcome # "ok"
    <3>2. checks[i] = <<bad, outcome>>
      BY <1>3, <3>1
    <3>. HIDE DEF bad, outcome
    <3>3. bad /\ checks[i][2] = outcome
      BY <3>2
    <3>. QED  BY <3>3 DEF bad
  <2>. QED  BY <2>1, <2>2
<1>6. \A i \in DOMAIN checks : ~ checks[i][1]
  <2>1. DOMAIN checks \subseteq Nat
    BY <1>2, <1>3
  <2>. QED  BY <1>3, <1>5, <2>1, FirstFailureOk
<1>7. ~ c1 /\ ~ c2
  <2>1. 1 \in DOMAIN checks /\ 2 \in DOMAIN checks
    BY <1>2, <1>3
  <2>2. ~ checks[1][1] /\ ~ checks[2][1]
    BY <1>6, <2>1
  <2>. QED  BY <1>3, <2>2
<1>8. \A i \in 1..Len(nodes) : NodeOutcome(nodes[i]) = "ok"
  <2>. SUFFICES ASSUME NEW i \in 1..Len(nodes) PROVE NodeOutcome(nodes[i]) = "ok"
    OBVIOUS
  <2>1. 2 + i \in DOMAIN checks
    BY <1>2, <1>3
  <2>2. ~ checks[2 + i][1]
    BY <1>6, <2>1
  <2>. DEFINE outcome == NodeOutcome(nodes[i])
              bad == outcome # "ok"
  <2>3. checks[2 + i] = <<bad, outcome>>
    BY <1>3
  <2>. HIDE DEF bad
  <2>4. ~ bad
    BY <2>2, <2>3
  <2>. QED  BY <2>4 DEF bad
<1>. DEFINE NodeAt(i) == [name |-> nodes[i].name,
             type |-> nodes[i].type,
             executor |-> Value(nodes[i], "executor", NoName),
             options |-> Value(nodes[i], "options", <<>>),
             input_streams |-> Value(nodes[i], "input_streams", <<>>),
             output_streams |-> Value(nodes[i], "output_streams", <<>>)]
            ExecutorAt(i) == [name |-> Value(executors[i], "name", NoName),
             num_threads |-> Value(executors[i], "num_threads", 0)]
<1>9. \A i \in 1..Len(nodes) : NodeAt(i) \in NodeDef
  BY <1>2, <1>8, NodeOk
<1>10. \A i \in 1..Len(executors) : ExecutorAt(i) \in ExecutorDef
  <2>. SUFFICES ASSUME NEW i \in 1..Len(executors) PROVE ExecutorAt(i) \in ExecutorDef
    OBVIOUS
  <2>1. ~ Throws(executors[i], {"name", "num_threads"}) /\ ExecutorJson(executors[i])
    BY <1>2, <1>7 DEF c2
  <2>2. Value(executors[i], "name", NoName) \in Strings
    BY <2>1, ValueIs, WiringAssumption DEF Throws, ExecutorJson
  <2>3. Value(executors[i], "num_threads", 0) \in Int
    BY <2>1, ValueIs DEF Throws, ExecutorJson
  <2>. QED  BY <2>2, <2>3 DEF ExecutorDef
<1>11. /\ Value(root, "input_streams", <<>>) \in Seq(Strings)
       /\ Value(root, "output_streams", <<>>) \in Seq(Strings)
  <2>1. <<>> \in Seq(Strings)
    OBVIOUS
  <2>. QED  BY <1>1, <1>7, <2>1 DEF c1, Value, Throws, RootJson
<1>12. ConfigOf(root) = [nodes |-> [i \in 1..Len(nodes) |-> NodeAt(i)],
                         executors |-> [i \in 1..Len(executors) |-> ExecutorAt(i)],
                         input_streams |-> Value(root, "input_streams", <<>>),
                         output_streams |-> Value(root, "output_streams", <<>>)]
  BY <1>2 DEF ConfigOf, nodes, executors
<1>. HIDE DEF NodeAt, ExecutorAt
<1>13. /\ [i \in 1..Len(nodes) |-> NodeAt(i)] \in Seq(NodeDef)
       /\ [i \in 1..Len(executors) |-> ExecutorAt(i)] \in Seq(ExecutorDef)
  BY <1>2, <1>9, <1>10
<1>. QED  BY <1>11, <1>12, <1>13 DEF GraphConfig

LEMMA NodeOutcomeType ==
    ASSUME NEW nj
    PROVE  NodeOutcome(nj) \in {"ok", "thrown", "invalid"}
<1>. DEFINE options == Value(nj, "options", <<>>)
            c1 == Throws(nj, {"name"})
            c2 == Value(nj, "name", NoName) = NoName
            c3 == Throws(nj, {"type"})
            c4 == Value(nj, "type", NoName) = NoName
            c5 == Throws(nj, {"input_streams", "output_streams", "executor"})
            c6 == options = Wrong
            c7 == options # Wrong /\ BadOption(options)
            checks == << <<c1, "thrown">>, <<c2, "invalid">>, <<c3, "thrown">>, <<c4, "invalid">>,
                         <<c5, "thrown">>, <<c6, "invalid">>, <<c7, "invalid">> >>
<1>1. NodeOutcome(nj) = FirstFailure(checks)
  BY DEF NodeOutcome
<1>2. DOMAIN checks = 1..7
  OBVIOUS
<1>. DEFINE S == {"thrown", "invalid"}
<1>3. \A i \in DOMAIN checks : checks[i][2] \in S
  BY <1>2
<1>4. FirstFailure(checks) \in S \cup {"ok"}
  <2>. HIDE DEF checks, S
  <2>. QED  BY <1>2, <1>3, FirstFailureType
<1>. QED  BY <1>1, <1>4

LEMMA OutcomeType ==
    ASSUME NEW root, root = Wrong \/ RootJson(root)
    PROVE  Outcome(root) \in {"ok", "thrown", "invalid"}
<1>1. CASE root = Wrong
  BY <1>1 DEF Outcome
<1>2. CASE root # Wrong
  <2>. DEFINE nodes == Value(root, "nodes", <<>>)
  <2>. DEFINE executors == Value(root, "executors", <<>>)
              c1 == Throws(root, {"input_streams", "output_streams"})
              c2 == \E i \in DOMAIN executors : Throws(executors[i], {"name", "num_threads"})
              bad(i) == NodeOutcome(nodes[i]) # "ok"
  <2>0. PICK checks :
          /\ Outcome(root) = FirstFailure(checks)
          /\ DOMAIN checks = 1..(2 + Len(nodes))
          /\ checks[1] = <<c1, "thrown">> /\ checks[2] = <<c2, "thrown">>
          /\ \A i \in 1..Len(nodes) : checks[2 + i] = <<bad(i), NodeOutcome(nodes[i])>>
    BY <1>2, OutcomeChecks
  <2>1. /\ Outcome(root) = FirstFailure(checks)
        /\ DOMAIN checks = 1..(2 + Len(nodes))
        /\ checks[1][2] = "thrown" /\ checks[2][2] = "thrown"
        /\ \A i \in 1..Len(nodes) : checks[2 + i][2] = NodeOutcome(nodes[i])
    <3>. HIDE DEF c1, c2, bad, nodes
    <3>. QED  BY <2>0
  <2>2. Len(nodes) \in Nat
    BY <1>2 DEF RootJson, IsList
  <2>. HIDE DEF nodes
  <2>3. ASSUME NEW i \in DOMAIN checks PROVE checks[i][2] \in {"ok", "thrown", "invalid"}
    <3>1. CASE i = 1 \/ i = 2
      BY <2>1, <3>1
    <3>2. CASE i # 1 /\ i # 2
      <4>1. i - 2 \in 1..Len(nodes) /\ 2 + (i - 2) = i
        BY <2>1, <2>2, <3>2
      <4>2. checks[i][2] = NodeOutcome(nodes[i - 2])
        BY <2>1, <4>1
      <4>. QED  BY <4>2, NodeOutcomeType
    <3>. QED  BY <3>1, <3>2
  <2>4. DOMAIN checks \subseteq Nat
    BY <2>1, <2>2
  <2>. QED  BY <2>1, <2>3, <2>4, FirstFailureType
<1>. QED  BY <1>1, <1>2

LEMMA ReadOutcomeType ==
    ASSUME NEW d
    PROVE  ReadOutcome(d) \in {"ok", "nullptr", "not_found", "invalid"}
<1>. DEFINE c1 == d.extension # NoName /\ ~ CreateForFile(d.extension)
            c2 == d.content = "missing"
            c3 == d.content = "malformed"
            checks == << <<c1, "nullptr">>, <<c2, "not_found">>, <<c3, "invalid">> >>
<1>1. ReadOutcome(d) = FirstFailure(checks)
  BY DEF ReadOutcome
<1>2. DOMAIN checks = 1..3
  OBVIOUS
<1>. DEFINE S == {"nullptr", "not_found", "invalid"}
<1>3. \A i \in DOMAIN checks : checks[i][2] \in S
  BY <1>2
<1>4. FirstFailure(checks) \in S \cup {"ok"}
  <2>. HIDE DEF checks, S
  <2>. QED  BY <1>2, <1>3, FirstFailureType
<1>. QED  BY <1>1, <1>4

-----------------------------------------------------------------------------
(* Configurations and their validation.                                    *)

\* Apply changes options only.
LEMMA ApplyOk ==
    ASSUME NEW c \in GraphConfig
    PROVE  /\ Apply(c) \in GraphConfig
           /\ Len(Apply(c).nodes) = Len(c.nodes)
<1>. DEFINE n == Len(c.nodes)
            NodeAt(i) == IF c.nodes[i].type \in DOMAIN Overrides
                         THEN [c.nodes[i] EXCEPT !.options = SetOptions(@, Overrides[c.nodes[i].type])]
                         ELSE c.nodes[i]
<1>1. /\ c.nodes \in Seq(NodeDef) /\ n \in Nat /\ DOMAIN c.nodes = 1..n
      /\ \A i \in 1..n : c.nodes[i] \in NodeDef
  BY DEF GraphConfig
<1>2. \A i \in 1..n : NodeAt(i) \in NodeDef
  <2>. SUFFICES ASSUME NEW i \in 1..n PROVE NodeAt(i) \in NodeDef
    OBVIOUS
  <2>. DEFINE d == c.nodes[i]
              merged == SetOptions(d.options, Overrides[d.type])
  <2>1. CASE d.type \in DOMAIN Overrides
    <3>1. d \in NodeDef /\ d.options \in OptionSets
      BY <1>1 DEF NodeDef
    <3>2. merged \in OptionSets
      BY <2>1, <3>1, WiringAssumption
    <3>3. NodeAt(i) = [d EXCEPT !.options = merged]
      BY <2>1
    <3>. HIDE DEF merged, NodeAt
    <3>. QED  BY <3>1, <3>2, <3>3 DEF NodeDef
  <2>2. CASE d.type \notin DOMAIN Overrides
    BY <1>1, <2>2
  <2>. QED  BY <2>1, <2>2
<1>3. Apply(c) = [c EXCEPT !.nodes = [i \in 1..n |-> NodeAt(i)]]
  BY <1>1 DEF Apply
<1>. HIDE DEF NodeAt
<1>4. [i \in 1..n |-> NodeAt(i)] \in Seq(NodeDef) /\ Len([i \in 1..n |-> NodeAt(i)]) = n
  BY <1>1, <1>2
<1>5. Apply(c).nodes = [i \in 1..n |-> NodeAt(i)]
  BY <1>3 DEF GraphConfig
<1>. QED  BY <1>3, <1>4, <1>5 DEF GraphConfig

\* A call of Validate starts a new search.
LEMMA CallValidateStep ==
    ASSUME NEW c \in GraphConfig, CallValidate(c)
    PROVE  /\ SearchInv' /\ SearchedIsConnected'
           /\ phase' = "names" /\ config' = c /\ Indices' = 1..Len(c.nodes)
<1>1. (config \in GraphConfig)' /\ ValidateStart'
  BY DEF CallValidate, ValidateStart, Indices
<1>2. (config \in GraphConfig)' /\ ValidateStart' => SearchInv'
  BY StartSearchInv, PTL
<1>. QED  BY <1>1, <1>2 DEF CallValidate, SearchedIsConnected, Indices

\* Validate does not change what it validates.
LEMMA ValidateKeepsConfig == Validate => config' = config
BY DEF Validate, ValidateUniqueNames, ValidateUniqueExecutors, ValidateNoDuplicateNodeInputs,
       ValidateConnectivity, Check, NextStart, Backtrack, VisitChild, Accept

\* Only ValidateConnectivity leads to the search for cycles.
LEMMA ConnectedStep ==
    ASSUME SearchedIsConnected, Validate
    PROVE  SearchedIsConnected'
<1>1. /\ config' = config /\ Indices' = Indices /\ OutputStreams' = OutputStreams
      /\ \A s : StreamNames(s)' = StreamNames(s) /\ Elements(s)' = Elements(s)
  BY ValidateKeepsConfig DEF Indices, OutputStreams, StreamNames, Elements
<1>2. CASE ValidateConnectivity
  BY <1>1, <1>2 DEF SearchedIsConnected, ValidateConnectivity, Check
<1>3. CASE ValidateUniqueNames \/ ValidateUniqueExecutors \/ ValidateNoDuplicateNodeInputs
  <2>1. phase' \notin {"cycles", "accepted"}
    BY <1>3 DEF ValidateUniqueNames, ValidateUniqueExecutors, ValidateNoDuplicateNodeInputs, Check
  <2>. QED  BY <2>1 DEF SearchedIsConnected
<1>4. CASE NextStart \/ Backtrack \/ VisitChild \/ Accept
  <2>1. phase = "cycles"
    BY <1>4 DEF NextStart, Backtrack, VisitChild, Accept
  <2>. QED  BY <1>1, <2>1 DEF SearchedIsConnected
<1>. QED  BY <1>2, <1>3, <1>4 DEF Validate

-----------------------------------------------------------------------------
(* The steps.                                                              *)

\* The wiring is a matter of the configuration.
LEMMA ConfigConstant ==
    ASSUME config' = config
    PROVE  /\ Indices' = Indices /\ Edges' = Edges /\ ExecutorNames' = ExecutorNames
           /\ OutputStreams' = OutputStreams
           /\ \A e : StreamOf(e)' = StreamOf(e)
           /\ \A n : InputPortsOf(n)' = InputPortsOf(n)
           /\ \A s : /\ StreamNames(s)' = StreamNames(s) /\ Elements(s)' = Elements(s)
                     /\ GraphInputs(s)' = GraphInputs(s) /\ NodeOutputs(s)' = NodeOutputs(s)
                     /\ OutputByStream(s)' = OutputByStream(s)
BY DEF Indices, Edges, NodeEdges, Edge, ExecutorNames, OutputStreams, StreamOf, PortOf, InputPortsOf,
       StreamNames, Elements, GraphInputs, NodeOutputs, OutputByStream, Latest

\* With the same configuration and stage, the wiring stays right.
LEMMA WiringUntouched ==
    ASSUME WiringInv, UNCHANGED <<config, ports, mirrors>>,
           stage' = stage \/ (stage # "wired" /\ stage' # "wired")
    PROVE  WiredFromConfig'
BY ConfigConstant DEF WiringInv, WiredFromConfig

LEMMA LibraryInvStep ==
    ASSUME WiringInv, LibraryStep
    PROVE  WiringInv'
<1>1. UNCHANGED <<validatorVars, document, stage, executed, factory, made, ports, mirrors>>
  BY DEF LibraryStep, buildVars, wiringVars
<1>2. config' = config /\ phase' = phase
  BY <1>1 DEF validatorVars
<1>3. /\ RegistryInv' /\ DOMAIN registrations \subseteq DOMAIN registrations'
      /\ \A id \in DOMAIN registrations : registrations'[id] = registrations[id]
  BY RegisterStep, UnregisterStep DEF WiringInv, LibraryStep
<1>4. SearchInv'
  BY <1>1, SearchStep DEF WiringInv
<1>5. DocumentKnown' /\ stage' \in Stages /\ BuiltIsAccepted' /\ SearchedIsConnected' /\ ExecutorsCreated'
  BY <1>1, <1>2, ConfigConstant
     DEF WiringInv, DocumentKnown, BuiltIsAccepted, SearchedIsConnected, ExecutorsCreated
<1>6. MadeByType'
  BY <1>1, <1>2, <1>3 DEF WiringInv, MadeByType
<1>7. WiredFromConfig'
  BY <1>1, <1>2, WiringUntouched
<1>. QED  BY <1>3, <1>4, <1>5, <1>6, <1>7 DEF WiringInv, Stages

\* A step of Build or Initialize that leaves registry, document and
\* configuration alone and does not wire: what is left to show.
LEMMA BuildStep ==
    ASSUME WiringInv, UNCHANGED <<validatorVars, registryVars, document, wiringVars>>,
           stage' \in Stages, stage' # "unread", stage # "wired", stage' # "wired",
           BuiltIsAccepted', MadeByType', ExecutorsCreated'
    PROVE  WiringInv'
<1>1. config' = config /\ phase' = phase /\ UNCHANGED <<ports, mirrors>>
  BY DEF validatorVars, wiringVars
<1>2. SearchInv'
  BY SearchStep DEF WiringInv
<1>3. RegistryInv'
  BY DEF WiringInv, RegistryInv, RegistryTypeOK, RegistryFollowsTokens, registryVars
<1>4. DocumentKnown'
  BY DEF WiringInv, DocumentKnown
<1>5. SearchedIsConnected'
  BY <1>1, ConfigConstant DEF WiringInv, SearchedIsConnected
<1>6. WiredFromConfig'
  BY <1>1, WiringUntouched
<1>. QED  BY <1>2, <1>3, <1>4, <1>5, <1>6 DEF WiringInv, Stages

\* The configuration is replaced, or validated further, before anything is
\* made.
LEMMA ConfigStep ==
    ASSUME WiringInv, UNCHANGED <<registryVars, document, executed, factory, made, mirrors>>,
           stage \in {"unread", "parsing", "configured", "building"},
           stage' \in Stages \ {"unread", "creating", "wired"},
           SearchInv', SearchedIsConnected',
           ports' = [n \in Indices' |-> <<>>]
    PROVE  WiringInv'
<1>1. made = <<>> /\ factory = NoFactory
  BY DEF WiringInv, BuiltIsAccepted
<1>2. RegistryInv'
  BY DEF WiringInv, RegistryInv, RegistryTypeOK, RegistryFollowsTokens, registryVars
<1>3. DocumentKnown' /\ ExecutorsCreated'
  BY DEF WiringInv, DocumentKnown, ExecutorsCreated
<1>4. BuiltIsAccepted'
  <2>1. Len(config'.nodes) \in Nat
    BY DEF SearchInv, ValidatorTypeOK, GraphConfig
  <2>. QED  BY <1>1, <2>1 DEF BuiltIsAccepted
<1>5. MadeByType'
  BY <1>1 DEF WiringInv, MadeByType, registryVars
<1>6. WiredFromConfig'
  BY DEF WiredFromConfig
<1>. QED  BY <1>2, <1>3, <1>4, <1>5, <1>6 DEF WiringInv

LEMMA ValidatingStep ==
    ASSUME WiringInv, Validating
    PROVE  WiringInv'
<1>1. /\ Validate /\ config' = config /\ stage' = stage /\ stage \in {"parsing", "building"}
      /\ UNCHANGED <<registryVars, document, executed, factory, made, ports, mirrors>>
  BY ValidateKeepsConfig DEF Validating, buildVars, wiringVars
<1>2. SearchInv' /\ SearchedIsConnected'
  BY <1>1, SearchStep, ConnectedStep DEF WiringInv
<1>3. ports' = [n \in Indices' |-> <<>>]
  BY <1>1, ConfigConstant DEF WiringInv, WiredFromConfig
<1>. QED  BY <1>1, <1>2, <1>3, ConfigStep DEF Stages

\* A document that cannot be read or parsed ends the run; any other gives a
\* configuration.
LEMMA ParseStep ==
    ASSUME WiringInv, ParseJsonText
    PROVE  WiringInv'
<1>. DEFINE read == ReadOutcome(document)
            outcome == IF read = "ok" THEN Outcome(document.root) ELSE read
<1>1. /\ stage = "unread" /\ ports' = [n \in Indices' |-> <<>>]
      /\ UNCHANGED <<registryVars, document, executed, factory, made, mirrors>>
  BY DEF ParseJsonText
<1>2. CASE outcome = "ok"
  <2>1. stage' = "parsing" /\ CallValidate(ConfigOf(document.root)) /\ Outcome(document.root) = "ok"
    BY <1>2 DEF ParseJsonText
  <2>2. ConfigOf(document.root) \in GraphConfig
    BY <1>1, <2>1, ConfigOk, WiringAssumption DEF WiringInv, DocumentKnown
  <2>. QED  BY <1>1, <2>1, <2>2, CallValidateStep, ConfigStep DEF Stages
<1>3. CASE outcome # "ok"
  <2>1. stage' = outcome /\ UNCHANGED validatorVars
    BY <1>3 DEF ParseJsonText
  <2>2. outcome \in {"nullptr", "not_found", "invalid", "thrown"}
    BY <1>1, <1>3, OutcomeType, ReadOutcomeType, WiringAssumption DEF WiringInv, DocumentKnown
  <2>3. SearchInv'
    BY <2>1, SearchStep DEF WiringInv
  <2>4. SearchedIsConnected'
    <3>1. config' = config /\ phase' = phase
      BY <2>1 DEF validatorVars
    <3>. QED  BY <3>1, ConfigConstant DEF WiringInv, SearchedIsConnected
  <2>. QED  BY <1>1, <2>1, <2>2, <2>3, <2>4, ConfigStep DEF Stages
<1>. QED  BY <1>2, <1>3

LEMMA ParserReturnsStep ==
    ASSUME WiringInv, ParserReturns
    PROVE  WiringInv'
<1>1. /\ stage = "parsing" /\ stage' = "configured"
      /\ UNCHANGED <<validatorVars, registryVars, document, executed, factory, made, wiringVars>>
  BY DEF ParserReturns
<1>2. UNCHANGED <<config, registrations>>
  BY <1>1 DEF validatorVars, registryVars
<1>3. BuiltIsAccepted' /\ MadeByType' /\ ExecutorsCreated'
  BY <1>1, <1>2 DEF WiringInv, BuiltIsAccepted, MadeByType, ExecutorsCreated
<1>. QED  BY <1>1, <1>3, BuildStep DEF Stages

LEMMA InitializeInvStep ==
    ASSUME WiringInv, Initialize
    PROVE  WiringInv'
<1>1. /\ stage = "configured" /\ stage' = "building" /\ CallValidate(Apply(config))
      /\ UNCHANGED <<registryVars, document, executed, factory, made, ports, mirrors>>
  BY DEF Initialize, wiringVars
<1>2. Apply(config) \in GraphConfig /\ Len(Apply(config).nodes) = Len(config.nodes)
  BY ApplyOk DEF WiringInv, SearchInv, ValidatorTypeOK
<1>3. SearchInv' /\ SearchedIsConnected' /\ Indices' = Indices
  BY <1>1, <1>2, CallValidateStep DEF Indices
<1>4. ports' = [n \in Indices' |-> <<>>]
  BY <1>1, <1>3 DEF WiringInv, WiredFromConfig
<1>. QED  BY <1>1, <1>3, <1>4, ConfigStep DEF Stages

\* A pool has a thread, whatever was asked for.
LEMMA CreateServes ==
    ASSUME NEW num_threads \in Int, NEW hw \in Nat
    PROVE  Create(num_threads, hw) \in Int /\ Create(num_threads, hw) >= 1
BY DEF Create

LEMMA CreateExecutorsStep ==
    ASSUME WiringInv, CreateExecutors
    PROVE  WiringInv'
<1>1. /\ stage = "building" /\ phase = "accepted" /\ stage' = "creating"
      /\ UNCHANGED <<validatorVars, registryVars, document, factory, made, wiringVars>>
  BY DEF CreateExecutors
<1>2. UNCHANGED <<config, phase, registrations, factory, made>>
  BY <1>1 DEF validatorVars, registryVars
<1>3. BuiltIsAccepted' /\ MadeByType'
  BY <1>1, <1>2 DEF WiringInv, BuiltIsAccepted, MadeByType
<1>4. config.nodes \in Seq(NodeDef) /\ config.executors \in Seq(ExecutorDef)
  BY DEF WiringInv, SearchInv, ValidatorTypeOK, GraphConfig
<1>5. /\ \A i \in DOMAIN config.executors : config.executors[i] \in ExecutorDef
      /\ ExecutorNames \subseteq Strings
  <2>1. \A i \in DOMAIN config.executors : config.executors[i] \in ExecutorDef
    BY <1>4, ElementOfSeq
  <2>. QED  BY <2>1 DEF ExecutorNames, ExecutorDef
<1>. DEFINE nodes == IF Len(config.nodes) > 1 THEN Len(config.nodes) ELSE 1
<1>6. PICK hw \in Hardware :
        executed' = IF config.executors = <<>>
                    THEN [name \in {NoName} |-> Create(IF hw < nodes THEN hw ELSE nodes, hw)]
                    ELSE [name \in ExecutorNames |-> Create(NumThreads(name), hw)]
  BY DEF CreateExecutors
<1>7. hw \in Nat /\ NoName \in Strings
  BY WiringAssumption
<1>8. ExecutorsCreated'
  <2>1. CASE config.executors = <<>>
    <3>1. (IF hw < nodes THEN hw ELSE nodes) \in Int
      BY <1>4, <1>7
    <3>. DEFINE n == Create(IF hw < nodes THEN hw ELSE nodes, hw)
    <3>2. n >= 1
      BY <1>7, <3>1, CreateServes
    <3>3. executed' = [name \in {NoName} |-> n]
      BY <1>6, <2>1
    <3>. HIDE DEF n
    <3>4. DOMAIN executed' = {NoName} /\ executed'[NoName] >= 1
      BY <3>2, <3>3
    <3>. QED  BY <1>2, <1>7, <2>1, <3>4 DEF ExecutorsCreated
  <2>2. CASE config.executors # <<>>
    <3>1. ASSUME NEW name \in ExecutorNames PROVE NumThreads(name) \in Int
      <4>. DEFINE i0 == CHOOSE i \in DOMAIN config.executors : config.executors[i].name = name
      <4>1. i0 \in DOMAIN config.executors
        BY DEF ExecutorNames
      <4>2. config.executors[i0] \in ExecutorDef
        BY <1>5, <4>1
      <4>. QED  BY <4>2 DEF NumThreads, ExecutorDef
    <3>2. \A name \in ExecutorNames : Create(NumThreads(name), hw) >= 1
      BY <1>7, <3>1, CreateServes
    <3>3. executed' = [name \in ExecutorNames |-> Create(NumThreads(name), hw)]
      BY <1>6, <2>2
    <3>4. DOMAIN executed' = ExecutorNames /\ \A name \in ExecutorNames : executed'[name] >= 1
      BY <3>2, <3>3
    <3>5. ExecutorNames' = ExecutorNames /\ config' = config
      BY <1>2, ConfigConstant
    <3>. QED  BY <1>5, <2>2, <3>4, <3>5 DEF ExecutorsCreated
  <2>. QED  BY <2>1, <2>2
<1>. QED  BY <1>1, <1>3, <1>8, BuildStep DEF Stages

\* GetFactory returns a factory of the type it is asked for.
LEMMA LookUpFactoryStep ==
    ASSUME WiringInv, LookUpFactory
    PROVE  WiringInv'
<1>. DEFINE type == config.nodes[Len(made) + 1].type
            f == GetFactory(type)
<1>1. /\ stage = "creating" /\ factory = NoFactory /\ Len(made) < Len(config.nodes)
      /\ UNCHANGED <<validatorVars, registryVars, document, wiringVars>>
  BY DEF LookUpFactory
<1>2. UNCHANGED <<config, phase, registrations>>
  BY <1>1 DEF validatorVars, registryVars
<1>3. CASE f # NoFactory
  <2>1. factory' = f /\ UNCHANGED <<stage, executed, made>>
    BY <1>3 DEF LookUpFactory
  <2>2. f \in DOMAIN registrations /\ registrations[f] = type
    BY <1>3 DEF WiringInv, RegistryInv, RegistryTypeOK, GetFactory
  <2>. HIDE DEF f
  <2>3. MadeByType'
    BY <1>2, <2>1, <2>2 DEF WiringInv, MadeByType
  <2>4. BuiltIsAccepted'
    BY <1>1, <1>2, <2>1 DEF WiringInv, BuiltIsAccepted
  <2>5. ExecutorsCreated'
    BY <1>1, <1>2, <2>1, ConfigConstant DEF WiringInv, ExecutorsCreated
  <2>. QED  BY <1>1, <2>1, <2>3, <2>4, <2>5, BuildStep DEF Stages
<1>4. CASE f = NoFactory
  <2>1. stage' = "not_registered" /\ executed' = <<>> /\ made' = <<>> /\ factory' = factory
    BY <1>4 DEF LookUpFactory
  <2>2. Len(config.nodes) \in Nat
    BY DEF WiringInv, SearchInv, ValidatorTypeOK, GraphConfig
  <2>3. MadeByType' /\ BuiltIsAccepted' /\ ExecutorsCreated'
    BY <1>1, <1>2, <2>1, <2>2 DEF MadeByType, BuiltIsAccepted, ExecutorsCreated
  <2>. QED  BY <1>1, <2>1, <2>3, BuildStep DEF Stages
<1>. QED  BY <1>3, <1>4

LEMMA CreateNodeStep ==
    ASSUME WiringInv, CreateNode
    PROVE  WiringInv'
<1>1. /\ factory # NoFactory /\ factory' = NoFactory
      /\ UNCHANGED <<validatorVars, registryVars, document, executed, wiringVars>>
  BY DEF CreateNode
<1>2. UNCHANGED <<config, phase, registrations>>
  BY <1>1 DEF validatorVars, registryVars
<1>3. /\ stage = "creating" /\ phase = "accepted"
      /\ Len(made) \in Nat /\ Len(config.nodes) \in Nat /\ Len(made) < Len(config.nodes)
      /\ made \in Seq(DOMAIN registrations) /\ factory \in DOMAIN registrations
      /\ registrations[factory] = config.nodes[Len(made) + 1].type
  BY <1>1 DEF WiringInv, BuiltIsAccepted, MadeByType, SearchInv, ValidatorTypeOK, GraphConfig
<1>4. CASE made' = Append(made, factory) /\ UNCHANGED stage
  <2>1. /\ made' \in Seq(DOMAIN registrations) /\ Len(made') = Len(made) + 1
        /\ \A n \in 1..Len(made) : made'[n] = made[n]
        /\ made'[Len(made) + 1] = factory
    BY <1>3, <1>4
  <2>2. MadeByType'
    <3>1. \A n \in 1..Len(made') : registrations[made'[n]] = config.nodes[n].type
      BY <1>3, <2>1 DEF WiringInv, MadeByType
    <3>. QED  BY <1>1, <1>2, <2>1, <3>1 DEF MadeByType
  <2>3. BuiltIsAccepted'
    BY <1>1, <1>2, <1>3, <1>4, <2>1 DEF BuiltIsAccepted
  <2>4. ExecutorsCreated'
    BY <1>1, <1>2, <1>4, ConfigConstant DEF WiringInv, ExecutorsCreated
  <2>. QED  BY <1>1, <1>3, <1>4, <2>2, <2>3, <2>4, BuildStep DEF Stages
<1>5. CASE stage' = "crashed" /\ UNCHANGED made
  <2>1. MadeByType' /\ BuiltIsAccepted' /\ ExecutorsCreated'
    BY <1>1, <1>2, <1>3, <1>5 DEF WiringInv, MadeByType, BuiltIsAccepted, ExecutorsCreated
  <2>. QED  BY <1>1, <1>3, <1>5, <2>1, BuildStep DEF Stages
<1>. QED  BY <1>4, <1>5 DEF CreateNode

LEMMA WireStep ==
    ASSUME WiringInv, Wire
    PROVE  WiringInv'
<1>1. /\ stage = "creating" /\ factory = NoFactory /\ stage' = "wired"
      /\ UNCHANGED <<validatorVars, registryVars, document, executed, factory, made>>
  BY DEF Wire
<1>2. UNCHANGED <<config, phase, registrations, tokens, factories>>
  BY <1>1 DEF validatorVars, registryVars
<1>3. SearchInv'
  BY <1>1, SearchStep DEF WiringInv
<1>4. RegistryInv' /\ DocumentKnown' /\ BuiltIsAccepted' /\ MadeByType'
  BY <1>1, <1>2 DEF WiringInv, RegistryInv, RegistryTypeOK, RegistryFollowsTokens, DocumentKnown,
                    BuiltIsAccepted, MadeByType
<1>5. SearchedIsConnected' /\ ExecutorsCreated'
  BY <1>1, <1>2, ConfigConstant DEF WiringInv, SearchedIsConnected, ExecutorsCreated
<1>6. WiredFromConfig'
  BY <1>1, <1>2, ConfigConstant DEF WiredFromConfig, Wire
<1>. QED  BY <1>1, <1>3, <1>4, <1>5, <1>6 DEF WiringInv, Stages

-----------------------------------------------------------------------------
LEMMA WiringInitInv == WiringInit => WiringInv
<1>. SUFFICES ASSUME WiringInit PROVE WiringInv
  OBVIOUS
<1>1. /\ executed = <<>> /\ factory = NoFactory /\ made = <<>>
      /\ ports = [n \in Indices |-> <<>>] /\ stage \in {"configured", "unread"}
      /\ phase = "names" /\ ValidateStart
  BY DEF WiringInit, Init, ValidateStart
<1>2. config \in GraphConfig
  <2>1. EmptyConfig \in GraphConfig
    BY DEF EmptyConfig, GraphConfig
  <2>. QED  BY <2>1, ConfigAssumption DEF WiringInit, Init
<1>3. SearchInv
  BY <1>1, <1>2, StartSearchInv
<1>4. RegistryInv
  BY RegistryInitInv, WiringAssumption DEF WiringInit
<1>5. DocumentKnown
  BY DEF WiringInit, DocumentKnown
<1>6. BuiltIsAccepted /\ MadeByType /\ ExecutorsCreated
  <2>1. Len(config.nodes) \in Nat
    BY <1>2 DEF GraphConfig
  <2>. QED  BY <1>1, <2>1 DEF BuiltIsAccepted, MadeByType, ExecutorsCreated
<1>7. SearchedIsConnected /\ WiredFromConfig
  BY <1>1 DEF SearchedIsConnected, WiredFromConfig
<1>. QED  BY <1>1, <1>3, <1>4, <1>5, <1>6, <1>7 DEF WiringInv, Stages

\* Every step of reading, building and wiring a graph, and of the libraries
\* around it, keeps WiringInv.
THEOREM WiringInvariance == WiringSpec => []WiringInv
<1>1. WiringInv /\ [Next]_vars => WiringInv'
  <2>. SUFFICES ASSUME WiringInv, [Next]_vars PROVE WiringInv'
    OBVIOUS
  <2>1. CASE UNCHANGED vars
    <3>1. /\ UNCHANGED <<validatorVars, config, phase>> /\ UNCHANGED <<registrations, tokens, factories>>
          /\ UNCHANGED <<document, stage, executed, factory, made, ports, mirrors>>
      BY <2>1 DEF vars, validatorVars, registryVars, buildVars, wiringVars
    <3>2. SearchInv'
      BY <3>1, SearchStep DEF WiringInv
    <3>3. RegistryInv' /\ DocumentKnown' /\ BuiltIsAccepted' /\ MadeByType'
      BY <3>1 DEF WiringInv, RegistryInv, RegistryTypeOK, RegistryFollowsTokens, DocumentKnown,
                  BuiltIsAccepted, MadeByType
    <3>4. SearchedIsConnected' /\ ExecutorsCreated' /\ WiredFromConfig'
      BY <3>1, ConfigConstant DEF WiringInv, SearchedIsConnected, ExecutorsCreated, WiredFromConfig
    <3>. QED  BY <3>1, <3>2, <3>3, <3>4 DEF WiringInv
  <2>2. CASE InitializeStep
    BY <2>2, ValidatingStep, ParseStep, ParserReturnsStep, InitializeInvStep, CreateExecutorsStep,
       LookUpFactoryStep, CreateNodeStep, WireStep DEF InitializeStep
  <2>3. CASE LibraryStep
    BY <2>3, LibraryInvStep
  <2>. QED  BY <2>1, <2>2, <2>3 DEF Next
<1>. QED  BY <1>1, WiringInitInv, PTL DEF WiringSpec

-----------------------------------------------------------------------------
(* What follows.                                                           *)

\* The registry of libraries that come and go while graphs are built: no
\* factory outlives its library's token, and a lookup finds the latest one.
THEOREM RegistryCorrect == WiringSpec => []RegistryFollowsTokens
<1>1. WiringInv => RegistryFollowsTokens
  BY DEF WiringInv, RegistryInv
<1>. QED  BY <1>1, WiringInvariance, PTL

\* The validation within Initialize is sound and precise, as on its own: a
\* call of Validate forgets what an earlier one has marked.
THEOREM ValidationCorrect == WiringSpec => [](AcceptedIsAcyclic /\ CycleIsReal)
<1>1. WiringInv => SearchInv
  BY DEF WiringInv
<1>. QED  BY <1>1, SearchInvImplies, WiringInvariance, PTL

LEMMA NodeListLengths ==
    ASSUME config \in GraphConfig, NEW n \in Indices
    PROVE  /\ Len(config.nodes[n].input_streams) \in Nat
           /\ Len(config.nodes[n].output_streams) \in Nat
<1>1. config.nodes \in Seq(NodeDef) /\ n \in 1..Len(config.nodes)
  BY DEF GraphConfig, Indices
<1>2. config.nodes[n] \in NodeDef
  BY <1>1, ElementOfSeq
<1>. QED  BY <1>2 DEF NodeDef

\* A port leads to the last of the inputs with its name.
LEMMA PortsLead ==
    ASSUME config \in GraphConfig, NEW n \in Indices, NEW p \in DOMAIN InputPortsOf(n)
    PROVE  InputPortsOf(n)[p] \in NodeEdges(n)
<1>. DEFINE len == Len(config.nodes[n].input_streams)
            T == {k \in 1..len : PortOf(Edge(n, k)) = p}
<1>1. len \in Nat
  BY NodeListLengths
<1>. HIDE DEF len
<1>2. NodeEdges(n) = {<<n, k>> : k \in 1..len}
  BY DEF NodeEdges, Edge, len
<1>3. p \in {PortOf(e) : e \in NodeEdges(n)}
  BY DEF InputPortsOf
<1>4. T # {} /\ T \in SUBSET Nat /\ \A k \in T : k <= len
  BY <1>1, <1>2, <1>3 DEF Edge
<1>5. PICK k \in T : \A j \in T : j <= k
  BY <1>1, <1>4, GreatestNat
<1>6. \E e \in NodeEdges(n) : /\ PortOf(e) = p
                              /\ \A f \in NodeEdges(n) : PortOf(f) = p => f[2] <= e[2]
  <2>1. <<n, k>> \in NodeEdges(n) /\ PortOf(<<n, k>>) = p /\ <<n, k>>[2] = k
    BY <1>2, <1>5 DEF Edge
  <2>2. ASSUME NEW f \in NodeEdges(n), PortOf(f) = p PROVE f[2] <= k
    <3>1. PICK j \in 1..len : f = <<n, j>>
      BY <1>2
    <3>2. j \in T /\ f[2] = j
      BY <2>2, <3>1 DEF Edge
    <3>. QED  BY <1>5, <3>2
  <2>. QED  BY <2>1, <2>2
<1>7. InputPortsOf(n)[p] = CHOOSE e \in NodeEdges(n) :
                              /\ PortOf(e) = p
                              /\ \A f \in NodeEdges(n) : PortOf(f) = p => f[2] <= e[2]
  BY <1>3 DEF InputPortsOf
<1>. QED  BY <1>6, <1>7

\* Types, and more than types: a node is made by a factory of its type, and
\* its ports lead to inputs of its own.
THEOREM WiringTypeCorrect == WiringSpec => []TypeOK
<1>1. WiringInv => TypeOK
  <2>. SUFFICES ASSUME WiringInv PROVE TypeOK
    OBVIOUS
  <2>1. ValidatorTypeOK /\ RegistryTypeOK /\ stage \in Stages
    BY DEF WiringInv, SearchInv, RegistryInv
  <2>2. /\ DOMAIN executed \subseteq Strings
        /\ factory \in DOMAIN registrations \cup {NoFactory}
        /\ \A n \in DOMAIN made : registrations[made[n]] = config.nodes[n].type
    BY DEF WiringInv, ExecutorsCreated, MadeByType
  <2>3. ASSUME NEW n \in Indices, NEW p \in DOMAIN ports[n]
        PROVE  ports[n][p] \in NodeEdges(n)
    <3>1. CASE stage = "wired"
      <4>1. ports[n] = InputPortsOf(n)
        BY <3>1 DEF WiringInv, WiredFromConfig
      <4>. QED  BY <2>1, <2>3, <4>1, PortsLead DEF ValidatorTypeOK
    <3>2. CASE stage # "wired"
      <4>1. ports[n] = <<>>
        BY <3>2 DEF WiringInv, WiredFromConfig
      <4>. QED  BY <2>3, <4>1
    <3>. QED  BY <3>1, <3>2
  <2>. QED  BY <2>1, <2>2, <2>3 DEF TypeOK
<1>. QED  BY <1>1, WiringInvariance, PTL

\* The last of some registrations is one of them, if there is a bound on each
\* of their numbers.
LEMMA LatestIn ==
    ASSUME NEW ms, ms # {}, \A m \in ms : m \in Nat \X Nat,
           NEW N \in Nat, \A m \in ms : m[1] <= N,
           \A a \in Nat : \E B \in Nat : \A m \in ms : m[1] = a => m[2] <= B
    PROVE  Latest(ms) \in ms
<1>. DEFINE T == {m[1] : m \in ms}
<1>1. T # {} /\ T \in SUBSET Nat /\ \A a \in T : a <= N
  OBVIOUS
<1>2. PICK a \in T : \A b \in T : b <= a
  BY <1>1, GreatestNat
<1>3. PICK B \in Nat : \A m \in ms : m[1] = a => m[2] <= B
  BY <1>1
<1>. DEFINE U == {m[2] : m \in {l \in ms : l[1] = a}}
<1>4. U # {} /\ U \in SUBSET Nat /\ \A b \in U : b <= B
  BY <1>3
<1>5. PICK b \in U : \A d \in U : d <= b
  BY <1>4, GreatestNat
<1>6. PICK m \in ms : m[1] = a /\ m[2] = b
  BY <1>5
<1>7. \A l \in ms : l[1] < m[1] \/ (l[1] = m[1] /\ l[2] <= m[2])
  <2>. SUFFICES ASSUME NEW l \in ms PROVE l[1] < a \/ (l[1] = a /\ l[2] <= b)
    BY <1>6
  <2>1. l[1] <= a /\ l[1] \in Nat /\ a \in Nat
    BY <1>1, <1>2
  <2>2. l[1] = a => l[2] <= b
    BY <1>5
  <2>. QED  BY <2>1, <2>2
<1>. QED  BY <1>6, <1>7 DEF Latest

\* The output a stream name stands for is a graph input or a node's output of
\* that name, if there is one.
LEMMA OutputByStreamIn ==
    ASSUME config \in GraphConfig, NEW s, GraphInputs(s) \cup NodeOutputs(s) # {}
    PROVE  \/ OutputByStream(s)[1] = 0
           \/ OutputByStream(s) \in NodeOutputs(s)
<1>1. /\ Len(config.nodes) \in Nat /\ Indices = 1..Len(config.nodes)
      /\ Len(config.input_streams) \in Nat
  BY DEF GraphConfig, Indices
<1>2. CASE GraphInputs(s) # {}
  <2>. DEFINE ms == GraphInputs(s)
  <2>1. \A m \in ms : m \in Nat \X Nat /\ m[1] = 0 /\ m[2] <= Len(config.input_streams)
    BY <1>1 DEF GraphInputs
  <2>. HIDE DEF ms
  <2>2. Latest(ms) \in ms
    BY SMTT(40), <1>1, <1>2, <2>1, LatestIn DEF ms
  <2>. QED  BY <1>2, <2>1, <2>2 DEF OutputByStream, ms
<1>3. CASE GraphInputs(s) = {}
  <2>. DEFINE ms == NodeOutputs(s)
  <2>1. \A m \in ms : /\ m \in Nat \X Nat /\ m[1] \in Indices
                      /\ m[2] <= Len(config.nodes[m[1]].output_streams)
    BY <1>1, NodeListLengths DEF NodeOutputs
  <2>2. \A a \in Nat : \E B \in Nat : \A m \in ms : m[1] = a => m[2] <= B
    <3>. SUFFICES ASSUME NEW a \in Nat PROVE \E B \in Nat : \A m \in ms : m[1] = a => m[2] <= B
      OBVIOUS
    <3>. HIDE DEF ms
    <3>1. CASE a \in Indices
      <4>1. Len(config.nodes[a].output_streams) \in Nat
        BY <3>1, NodeListLengths
      <4>. QED  BY <2>1, <4>1
    <3>2. CASE a \notin Indices
      BY <2>1, <3>2
    <3>. QED  BY <3>1, <3>2
  <2>3. \A m \in ms : m[1] <= Len(config.nodes)
    BY <1>1, <2>1
  <2>4. Latest(ms) \in ms
    <3>. HIDE DEF ms
    <3>1. ms # {}
      BY <1>3 DEF ms
    <3>. QED  BY <1>1, <2>1, <2>2, <2>3, <3>1, LatestIn
  <2>. QED  BY <1>3, <2>4 DEF OutputByStream
<1>. QED  BY <1>2, <1>3

\* The graph that Initialize wires up has no cycle, for a configuration of
\* any size: a link from a node to another is a dependency that the validator
\* has followed, although it resolves stream names in another way.
THEOREM WiringAcyclic == WiringSpec => []WiredAcyclic
<1>1. WiringInv => WiredAcyclic
  <2>. SUFFICES ASSUME WiringInv, stage = "wired", NEW S \in SUBSET Indices, S # {}
                PROVE  \E n \in S : \A link \in mirrors : ~ (link[2][1] = n /\ link[1][1] \in S)
    BY DEF WiredAcyclic
  <2>1. Acyclic(Indices)
    BY SearchInvImplies DEF WiringInv, BuiltIsAccepted, AcceptedIsAcyclic
  <2>2. PICK n \in S : Deps(n) \cap S = {}
    BY <2>1 DEF Acyclic
  <2>3. config \in GraphConfig
    BY DEF WiringInv, SearchInv, ValidatorTypeOK
  <2>4. ASSUME NEW link \in mirrors, link[2][1] = n, link[1][1] \in S PROVE FALSE
    <3>1. PICK e \in Edges : /\ GraphInputs(StreamOf(e)) \cup NodeOutputs(StreamOf(e)) # {}
                             /\ link = <<OutputByStream(StreamOf(e)), e>>
      BY DEF WiringInv, WiredFromConfig
    <3>. DEFINE s == StreamOf(e)
                m == OutputByStream(s)[1]
    <3>2. e[1] = n /\ m \in S
      BY <2>4, <3>1
    <3>3. m # 0
      BY <3>2 DEF Indices
    <3>4. OutputByStream(s) \in NodeOutputs(s)
      BY <2>3, <3>1, <3>3, OutputByStreamIn
    <3>5. m \in Indices /\ s \in StreamNames(config.nodes[m].output_streams)
      BY <3>4 DEF NodeOutputs, StreamNames
    <3>6. s \in StreamNames(config.nodes[n].input_streams)
      BY <3>2 DEF Edges, NodeEdges, Edge, StreamOf, StreamNames
    <3>7. m \in Deps(n)
      BY <3>5, <3>6 DEF Deps
    <3>. QED  BY <2>2, <3>2, <3>7
  <2>. QED  BY <2>4
<1>. QED  BY <1>1, WiringInvariance, PTL

\* Every input of a node has a producer, except one whose stream is listed in
\* the graph's output_streams.
THEOREM InputsFed == WiringSpec => []EveryInputFed
<1>1. WiringInv => EveryInputFed
  <2>. SUFFICES ASSUME WiringInv, stage = "wired", NEW e \in Edges,
                       StreamOf(e) \notin Elements(config.output_streams)
                PROVE  \E link \in mirrors : link[2] = e
    BY DEF EveryInputFed
  <2>. DEFINE s == StreamOf(e)
  <2>1. PICK n \in Indices : s \in StreamNames(config.nodes[n].input_streams)
    <3>1. PICK n \in Indices : \E k \in 1..Len(config.nodes[n].input_streams) : e = <<n, k>>
      BY DEF Edges, NodeEdges, Edge
    <3>2. PICK k \in 1..Len(config.nodes[n].input_streams) : e = <<n, k>>
      BY <3>1
    <3>3. s = config.nodes[n].input_streams[k].stream
      BY <3>2 DEF StreamOf
    <3>. QED  BY <3>3 DEF StreamNames
  <2>2. s \in OutputStreams \cup Elements(config.input_streams)
    BY <2>1 DEF WiringInv, BuiltIsAccepted, SearchedIsConnected
  <2>3. GraphInputs(s) \cup NodeOutputs(s) # {}
    <3>1. CASE s \in Elements(config.input_streams)
      <4>1. PICK k \in 1..Len(config.input_streams) : config.input_streams[k] = s
        BY <3>1 DEF Elements
      <4>2. <<0, k>> \in GraphInputs(s)
        BY <4>1 DEF GraphInputs
      <4>. QED  BY <4>2
    <3>2. CASE s \notin Elements(config.input_streams)
      <4>1. PICK m \in Indices : s \in StreamNames(config.nodes[m].output_streams)
        <5>. HIDE DEF s
        <5>1. s \notin Elements(config.output_streams)
          BY DEF s
        <5>2. s \in OutputStreams
          BY <2>2, <3>2
        <5>. QED  BY <5>1, <5>2 DEF OutputStreams
      <4>2. PICK k \in 1..Len(config.nodes[m].output_streams) :
                    config.nodes[m].output_streams[k].stream = s
        BY <4>1 DEF StreamNames
      <4>3. <<m, k>> \in NodeOutputs(s)
        BY <4>2 DEF NodeOutputs
      <4>. QED  BY <4>3
    <3>. QED  BY <3>1, <3>2
  <2>4. <<OutputByStream(s), e>> \in mirrors
    BY <2>3 DEF WiringInv, WiredFromConfig
  <2>. QED  BY <2>4
<1>. QED  BY <1>1, WiringInvariance, PTL

\* Every node is bound to a queue whose executor has a thread, whatever
\* num_threads and the hardware say, unless all executors are named.
THEOREM NodesServed == WiringSpec => []EveryNodeServed
<1>1. WiringInv => EveryNodeServed
  <2>. SUFFICES ASSUME WiringInv, stage = "wired",
                       config.executors = <<>> \/ NoName \in ExecutorNames,
                       NEW n \in Indices
                PROVE  QueueOfNode(n) \in DOMAIN executed /\ executed[QueueOfNode(n)] >= 1
    BY DEF EveryNodeServed
  <2>1. /\ DOMAIN executed = IF config.executors = <<>> THEN {NoName} ELSE ExecutorNames
        /\ \A name \in DOMAIN executed : executed[name] >= 1
    BY DEF WiringInv, ExecutorsCreated
  <2>2. config.executors = <<>> => ExecutorNames = {}
    BY DEF ExecutorNames
  <2>. QED  BY <2>1, <2>2 DEF QueueOfNode
<1>. QED  BY <1>1, WiringInvariance, PTL
=============================================================================
