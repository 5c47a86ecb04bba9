----------------------- MODULE ConfigValidatorProofs -----------------------
(***************************************************************************)
(* The cycle check of ConfigValidator is exact, for configurations of any  *)
(* size and whatever the order in which children are visited.              *)
(***************************************************************************)
EXTENDS ConfigValidator, SequenceTheorems, TLAPS

\* Dependencies are a matter of the configuration, which never changes.
LEMMA DepsConstant ==
    ASSUME config' = config
    PROVE  /\ Indices' = Indices
           /\ \A n : Deps(n)' = Deps(n)
BY DEF Indices, Deps, StreamNames

\* A node depends on nodes.
LEMMA DepsType == \A n : Deps(n) \subseteq Indices
BY DEF Deps

\* The lengths the proofs calculate with are numbers.
LEMMA LenType ==
    ASSUME ValidatorTypeOK
    PROVE  /\ Len(config.nodes) \in Nat
           /\ Indices = 1..Len(config.nodes)
           /\ Len(stack) \in Nat /\ Len(path) \in Nat
BY DEF ValidatorTypeOK, GraphConfig, Indices

-----------------------------------------------------------------------------
\* The search has not begun: nothing is marked.
LEMMA StartSearchInv == config \in GraphConfig /\ ValidateStart => SearchInv
<1>. SUFFICES ASSUME config \in GraphConfig, ValidateStart PROVE SearchInv
  OBVIOUS
<1>1. config \in GraphConfig
  OBVIOUS
<1>2. Len(config.nodes) \in Nat
  BY <1>1 DEF GraphConfig
<1>3. ValidatorTypeOK
  BY <1>1, <1>2 DEF ValidateStart, ValidatorTypeOK, Phases, Indices
<1>4. Done = {}
  BY DEF ValidateStart, Done
<1>5. DoneIsClosed /\ DoneIsAcyclic
  BY <1>4 DEF DoneIsClosed, DoneIsAcyclic, Acyclic
<1>6. PathIsStack /\ PathIsInProgress /\ PathFollowsDeps /\ ChildrenAccounted
  BY DEF ValidateStart, PathIsStack, PathIsInProgress, PathFollowsDeps, ChildrenAccounted, Distinct
<1>7. StartsAreDone /\ CycleIsReal
  BY DEF ValidateStart, StartsAreDone, CycleIsReal
<1>. QED  BY <1>3, <1>5, <1>6, <1>7 DEF SearchInv

-----------------------------------------------------------------------------
(* The steps that leave the search alone: the checks before it, a step of  *)
(* the outer loop, and Accept.                                             *)

\* Only the phase and the start node may move, the latter over done nodes.
LEMMA SearchUntouched ==
    ASSUME SearchInv, UNCHANGED <<config, color, stack, path, cycle>>,
           phase' \in Phases, phase = "rejected" => phase' = "rejected",
           start' \in 1..(Len(config.nodes) + 1),
           \A n \in 1..(start' - 1) : color[n] = 2,
           phase' = "accepted" => start' = Len(config.nodes) + 1
    PROVE  SearchInv'
<1>1. /\ config' = config /\ color' = color /\ stack' = stack
      /\ path' = path /\ cycle' = cycle
  OBVIOUS
<1>2. Indices' = Indices /\ \A n : Deps(n)' = Deps(n)
  BY <1>1, DepsConstant
<1>3. Done' = Done
  BY <1>1, <1>2 DEF Done
<1>4. ValidatorTypeOK'
  BY <1>1, <1>2 DEF SearchInv, ValidatorTypeOK
<1>5. PathIsStack' /\ PathIsInProgress' /\ PathFollowsDeps'
  BY <1>1, <1>2 DEF SearchInv, PathIsStack, PathIsInProgress, PathFollowsDeps, Distinct
<1>6. ChildrenAccounted'
  BY <1>1, <1>2 DEF SearchInv, ChildrenAccounted
<1>7. DoneIsClosed' /\ DoneIsAcyclic'
  BY <1>2, <1>3 DEF SearchInv, DoneIsClosed, DoneIsAcyclic, Acyclic
<1>8. StartsAreDone' /\ CycleIsReal'
  BY <1>1, <1>2 DEF SearchInv, StartsAreDone, CycleIsReal
<1>. QED  BY <1>4, <1>5, <1>6, <1>7, <1>8 DEF SearchInv

\* The four checks before the search.
LEMMA CheckStep ==
    ASSUME SearchInv,
           \/ ValidateUniqueNames \/ ValidateUniqueExecutors
           \/ ValidateNoDuplicateNodeInputs \/ ValidateConnectivity
    PROVE  SearchInv'
<1>1. /\ UNCHANGED <<config, dfsVars>>
      /\ phase' \in {"executors", "inputs", "connectivity", "cycles", "rejected"}
      /\ phase # "rejected"
      /\ start' = start /\ UNCHANGED <<config, color, stack, path, cycle>>
  BY DEF dfsVars, ValidateUniqueNames, ValidateUniqueExecutors, ValidateNoDuplicateNodeInputs,
         ValidateConnectivity, Check
<1>2. start \in 1..(Len(config.nodes) + 1) /\ \A n \in 1..(start - 1) : color[n] = 2
  BY DEF SearchInv, ValidatorTypeOK, StartsAreDone
<1>. QED  BY <1>1, <1>2, SearchUntouched DEF Phases

\* The outer loop has passed the last node.
LEMMA AcceptStep ==
    ASSUME SearchInv, Accept
    PROVE  SearchInv'
<1>0. ValidatorTypeOK
  BY DEF SearchInv
<1>1. start = Len(config.nodes) + 1
  BY <1>0, LenType DEF ValidatorTypeOK, Accept
<1>2. start' = start /\ UNCHANGED <<config, color, stack, path, cycle>>
  BY DEF Accept, dfsVars
<1>3. start \in 1..(Len(config.nodes) + 1) /\ \A n \in 1..(start - 1) : color[n] = 2
  BY DEF SearchInv, ValidatorTypeOK, StartsAreDone
<1>. QED  BY <1>1, <1>2, <1>3, SearchUntouched DEF Accept, Phases

-----------------------------------------------------------------------------
(* The stack and the path when a frame is pushed.                          *)

\* The search enters the unvisited node n, which is the first node or a
\* child that the top frame still had to visit; the frames below are fs.
LEMMA PushStep ==
    ASSUME SearchInv, NEW n \in Indices, NEW fs,
           phase = "cycles", color[n] = 0,
           fs \in Seq([node : Indices, todo : SUBSET Indices]), Len(fs) = Len(stack),
           \A i \in 1..Len(stack) : fs[i].node = stack[i].node,
           \A i \in 1..Len(stack) :
              \/ fs[i].todo = stack[i].todo
              \/ i = Len(stack) /\ fs[i].todo = stack[i].todo \ {n},
           Len(stack) > 0 => n \in Deps(path[Len(path)]),
           Push(n, fs), UNCHANGED <<config, phase, start, cycle>>
    PROVE  SearchInv'
<1>0. ValidatorTypeOK
  BY DEF SearchInv
<1>1. Indices' = Indices /\ \A m : Deps(m)' = Deps(m)
  BY DepsConstant
<1>2. /\ Len(config.nodes) \in Nat /\ Len(stack) \in Nat /\ Len(path) = Len(stack)
      /\ color \in [Indices -> 0..2] /\ path \in Seq(Indices)
      /\ stack \in Seq([node : Indices, todo : SUBSET Indices])
      /\ \A i \in 1..Len(path) : path[i] \in Indices
  BY <1>0, LenType DEF SearchInv, ValidatorTypeOK, PathIsStack
<1>3. /\ color' = [color EXCEPT ![n] = 1]
      /\ stack' = Append(fs, [node |-> n, todo |-> Deps(n)])
      /\ path' = Append(path, n)
  BY DEF Push
<1>4. /\ Len(stack') = Len(stack) + 1
      /\ \A i \in 1..Len(stack) : stack'[i] = fs[i]
      /\ stack'[Len(stack) + 1] = [node |-> n, todo |-> Deps(n)]
      /\ Len(path') = Len(path) + 1
      /\ \A i \in 1..Len(path) : path'[i] = path[i]
      /\ path'[Len(path) + 1] = n
  BY <1>2, <1>3
<1>5. /\ \A m \in Indices : color'[m] = IF m = n THEN 1 ELSE color[m]
      /\ color' \in [Indices -> 0..2]
  BY <1>2, <1>3
<1>6. Done' = Done
  BY <1>1, <1>5 DEF Done
<1>7. ValidatorTypeOK'
  <2>1. path' \in Seq(Indices)
    BY <1>2, <1>3
  <2>2. Deps(n) \subseteq Indices
    BY DepsType
  <2>3. stack' \in Seq([node : Indices, todo : SUBSET Indices])
    BY <1>3, <2>2
  <2>. QED  BY <1>1, <1>5, <2>1, <2>3 DEF SearchInv, ValidatorTypeOK
<1>8. PathIsStack'
  <2>1. \A i \in 1..Len(stack) : path[i] = fs[i].node
    BY DEF SearchInv, PathIsStack
  <2>2. ASSUME NEW i \in 1..Len(stack') PROVE path'[i] = stack'[i].node
    <3>1. CASE i = Len(stack) + 1
      BY <1>2, <1>4, <3>1
    <3>2. CASE i # Len(stack) + 1
      <4>1. i \in 1..Len(stack)
        BY <1>2, <1>4, <3>2
      <4>. QED  BY <1>2, <1>4, <2>1, <4>1
    <3>. QED  BY <3>1, <3>2
  <2>. QED  BY <1>2, <1>4, <2>2 DEF PathIsStack
<1>9. PathIsInProgress'
  <2>1. \A i \in 1..Len(path) : path[i] # n
    BY DEF SearchInv, PathIsInProgress
  <2>2. \A i \in 1..Len(path') : color'[path'[i]] = 1
    BY <1>2, <1>4, <1>5 DEF SearchInv, PathIsInProgress
  <2>3. \A m \in Indices : color'[m] = 1 => \E i \in 1..Len(path') : path'[i] = m
    BY <1>2, <1>4, <1>5 DEF SearchInv, PathIsInProgress
  <2>4. Distinct(path')
    BY <1>2, <1>4, <2>1 DEF SearchInv, PathIsInProgress, Distinct
  <2>. QED  BY <1>1, <2>2, <2>3, <2>4 DEF PathIsInProgress, Distinct
<1>10. PathFollowsDeps'
  BY <1>1, <1>2, <1>4 DEF SearchInv, PathFollowsDeps
<1>11. ChildrenAccounted'
  <2>1. ASSUME NEW i \in 1..Len(stack')
        PROVE  /\ stack'[i].todo \subseteq Deps(path'[i])
               /\ \A m \in Deps(path'[i]) \ stack'[i].todo :
                     color'[m] = 2 \/ (i < Len(stack') /\ m = path'[i + 1])
    <3>1. CASE i = Len(stack) + 1
      BY <1>2, <1>4, <3>1
    <3>2. CASE i # Len(stack) + 1
      <4>1. i \in 1..Len(stack) /\ path'[i] = path[i] /\ stack'[i] = fs[i]
        BY <1>2, <1>4, <3>2
      <4>2. fs[i].todo \subseteq Deps(path[i])
        BY <4>1 DEF SearchInv, ChildrenAccounted
      <4>3. ASSUME NEW m \in Deps(path[i]) \ fs[i].todo
            PROVE  color'[m] = 2 \/ m = path'[i + 1]
        <5>1. m \in Indices
          BY DepsType
        <5>2. CASE m \notin stack[i].todo
          <6>1. color[m] = 2 \/ (i < Len(stack) /\ m = path[i + 1])
            BY <4>1, <5>2 DEF SearchInv, ChildrenAccounted
          <6>. QED  BY <1>2, <1>4, <1>5, <4>1, <5>1, <6>1
        <5>3. CASE m \in stack[i].todo
          BY <1>2, <1>4, <4>1, <5>3
        <5>. QED  BY <5>2, <5>3
      <4>. QED  BY <1>2, <1>4, <4>1, <4>2, <4>3
    <3>. QED  BY <3>1, <3>2
  <2>. QED  BY <1>1, <2>1 DEF ChildrenAccounted
<1>12. DoneIsClosed' /\ DoneIsAcyclic'
  BY <1>1, <1>6 DEF SearchInv, DoneIsClosed, DoneIsAcyclic, Acyclic
<1>13. StartsAreDone'
  <2>1. \A m \in 1..(start - 1) : m \in Indices /\ color[m] = 2
    BY <1>0, <1>2, LenType DEF SearchInv, StartsAreDone, ValidatorTypeOK
  <2>2. \A m \in 1..(start - 1) : color'[m] = 2
    BY <1>5, <2>1
  <2>. QED  BY <2>2 DEF StartsAreDone
<1>14. CycleIsReal'
  BY <1>1 DEF SearchInv, CycleIsReal
<1>. QED
  BY <1>7, <1>8, <1>9, <1>10, <1>11, <1>12, <1>13, <1>14 DEF SearchInv

-----------------------------------------------------------------------------
(* The stack and the path when the top frame is popped.                    *)

\* A node whose dependencies are all in a closed, acyclic set can join it.
LEMMA AcyclicExtends ==
    ASSUME NEW D, NEW n, Acyclic(D), n \notin D, Deps(n) \subseteq D,
           \A m \in D : Deps(m) \subseteq D
    PROVE  Acyclic(D \cup {n})
<1>. SUFFICES ASSUME NEW S \in SUBSET (D \cup {n}), S # {}
              PROVE  \E m \in S : Deps(m) \cap S = {}
  BY DEF Acyclic
<1>1. CASE S \ {n} = {}
  <2>1. n \in S /\ Deps(n) \cap S = {}
    BY <1>1
  <2>. QED  BY <2>1
<1>2. CASE S \ {n} # {}
  <2>1. S \ {n} \in SUBSET D
    OBVIOUS
  <2>2. PICK m \in S \ {n} : Deps(m) \cap (S \ {n}) = {}
    BY <1>2, <2>1 DEF Acyclic
  <2>3. n \notin Deps(m)
    BY <2>1
  <2>. QED  BY <2>2, <2>3
<1>. QED  BY <1>1, <1>2

\* pop_back drops the last element.
LEMMA PopBackFacts ==
    ASSUME NEW A, NEW s \in Seq(A), Len(s) # 0
    PROVE  /\ PopBack(s) \in Seq(A)
           /\ Len(PopBack(s)) = Len(s) - 1
           /\ \A i \in 1..(Len(s) - 1) : PopBack(s)[i] = s[i]
<1>1. Len(s) \in Nat /\ Len(s) - 1 \in Nat /\ \A i \in 1..(Len(s) - 1) : s[i] \in A
  OBVIOUS
<1>. DEFINE n == Len(s) - 1
<1>2. n \in Nat /\ \A i \in 1..n : s[i] \in A
  BY <1>1
<1>. HIDE DEF n
<1>3. n \in Int /\ n - 1 + 1 = n /\ (1 <= n \/ n = 0)
  BY <1>2
<1>4. /\ SubSeq(s, 1, n) \in Seq(A)
      /\ Len(SubSeq(s, 1, n)) = IF 1 <= n THEN n - 1 + 1 ELSE 0
      /\ \A i \in 1..(n - 1 + 1) : SubSeq(s, 1, n)[i] = s[1 + i - 1]
  BY <1>2, <1>3, SubSeqProperties
<1>5. \A i \in 1..n : 1 + i - 1 = i
  BY <1>2
<1>6. Len(SubSeq(s, 1, n)) = n /\ \A i \in 1..n : SubSeq(s, 1, n)[i] = s[i]
  BY <1>3, <1>4, <1>5
<1>. QED  BY <1>4, <1>6 DEF PopBack, n

\* A node whose children are all done joins the nodes that are done.
LEMMA BacktrackStep ==
    ASSUME SearchInv, Backtrack
    PROVE  SearchInv'
<1>. DEFINE L == Len(stack)
            n == path[L]
<1>0. ValidatorTypeOK
  BY DEF SearchInv
<1>1. Indices' = Indices /\ \A m : Deps(m)' = Deps(m)
  BY DepsConstant DEF Backtrack
<1>2. /\ Len(config.nodes) \in Nat /\ L \in Nat /\ Len(path) = L
      /\ color \in [Indices -> 0..2] /\ path \in Seq(Indices)
      /\ stack \in Seq([node : Indices, todo : SUBSET Indices])
  BY <1>0, LenType DEF SearchInv, ValidatorTypeOK, PathIsStack
<1>3. /\ L \in Nat \ {0} /\ L \in 1..L
      /\ \A i \in 1..L : path[i] \in Indices
  BY <1>2 DEF Backtrack
<1>4. n \in Indices /\ n = stack[L].node /\ color[n] = 1
  BY <1>2, <1>3 DEF SearchInv, PathIsStack, PathIsInProgress
<1>5. /\ color' = [color EXCEPT ![n] = 2]
      /\ stack' = PopBack(stack) /\ path' = PopBack(path)
  BY <1>2, <1>4 DEF Backtrack, Top
<1>6. /\ Len(stack') = L - 1 /\ \A i \in 1..(L - 1) : stack'[i] = stack[i]
      /\ stack' \in Seq([node : Indices, todo : SUBSET Indices])
      /\ Len(path') = L - 1 /\ \A i \in 1..(L - 1) : path'[i] = path[i]
      /\ path' \in Seq(Indices)
      /\ \A i \in 1..(L - 1) : i \in 1..L /\ i + 1 \in 1..L
  BY <1>2, <1>3, <1>5, PopBackFacts
<1>7. /\ \A m \in Indices : color'[m] = IF m = n THEN 2 ELSE color[m]
      /\ color' \in [Indices -> 0..2]
  BY <1>2, <1>4, <1>5
<1>8. Done' = Done \cup {n} /\ n \notin Done
  BY <1>1, <1>4, <1>7 DEF Done
<1>9. Deps(n) \subseteq Done
  <2>1. stack[L].todo = {} /\ phase # "rejected"
    BY DEF Backtrack, Top
  <2>2. \A m \in Deps(n) : color[m] = 2
    BY <1>2, <1>3, <2>1 DEF SearchInv, ChildrenAccounted
  <2>. QED  BY <2>2, DepsType DEF Done
<1>10. ValidatorTypeOK'
  BY <1>0, <1>1, <1>6, <1>7 DEF ValidatorTypeOK, Backtrack
<1>11. PathIsStack'
  <2>1. \A i \in 1..(L - 1) : path[i] = stack[i].node
    BY <1>6 DEF SearchInv, PathIsStack
  <2>. QED  BY <1>6, <2>1 DEF PathIsStack
<1>12. PathIsInProgress'
  <2>1. \A i \in 1..(L - 1) : path[i] # n
    BY <1>2, <1>3 DEF SearchInv, PathIsInProgress, Distinct
  <2>2. \A i \in 1..Len(path') : color'[path'[i]] = 1
    <3>1. \A i \in 1..(L - 1) : color[path[i]] = 1 /\ path[i] \in Indices
      BY <1>2, <1>3, <1>6 DEF SearchInv, PathIsInProgress
    <3>2. \A i \in 1..(L - 1) : color'[path[i]] = 1
      BY <1>7, <2>1, <3>1
    <3>. QED  BY <1>6, <3>2
  <2>3. ASSUME NEW m \in Indices, color'[m] = 1
        PROVE  \E i \in 1..Len(path') : path'[i] = m
    <3>1. m # n /\ color[m] = 1
      BY <1>7, <2>3
    <3>2. PICK i \in 1..L : path[i] = m
      BY <1>2, <3>1 DEF SearchInv, PathIsInProgress
    <3>3. i \in 1..(L - 1)
      BY <1>2, <3>1, <3>2
    <3>. QED  BY <1>6, <3>2, <3>3
  <2>4. Distinct(path')
    BY <1>2, <1>3, <1>6 DEF SearchInv, PathIsInProgress, Distinct
  <2>. QED  BY <1>1, <2>2, <2>3, <2>4 DEF PathIsInProgress, Distinct
<1>13. PathFollowsDeps'
  BY <1>1, <1>2, <1>3, <1>6 DEF SearchInv, PathFollowsDeps
<1>14. ChildrenAccounted'
  <2>1. ASSUME NEW i \in 1..(L - 1)
        PROVE  /\ stack'[i].todo \subseteq Deps(path'[i])
               /\ \A m \in Deps(path'[i]) \ stack'[i].todo :
                     color'[m] = 2 \/ (i < Len(stack') /\ m = path'[i + 1])
    <3>1. i \in 1..L /\ path'[i] = path[i] /\ stack'[i] = stack[i]
      BY <1>2, <1>3, <1>6
    <3>2. stack[i].todo \subseteq Deps(path[i])
      BY <3>1 DEF SearchInv, ChildrenAccounted
    <3>3. ASSUME NEW m \in Deps(path[i]) \ stack[i].todo
          PROVE  color'[m] = 2 \/ (i < Len(stack') /\ m = path'[i + 1])
      <4>1. m \in Indices
        BY DepsType
      <4>2. color[m] = 2 \/ m = path[i + 1]
        BY <3>1 DEF SearchInv, ChildrenAccounted, Backtrack
      <4>3. CASE color[m] = 2
        BY <1>7, <4>1, <4>3
      <4>4. CASE m = path[i + 1] /\ i + 1 = L
        BY <1>7, <4>1, <4>4
      <4>5. CASE m = path[i + 1] /\ i + 1 # L
        <5>1. i + 1 \in 1..(L - 1)
          BY <1>2, <1>3, <4>5
        <5>2. m = path'[i + 1]
          BY <1>6, <4>5, <5>1
        <5>3. i < Len(stack')
          BY <1>2, <1>6, <5>1
        <5>. QED  BY <5>2, <5>3
      <4>. QED  BY <4>2, <4>3, <4>4, <4>5
    <3>. QED  BY <3>1, <3>2, <3>3
  <2>. QED  BY <1>1, <1>6, <2>1 DEF ChildrenAccounted
<1>15. DoneIsClosed' /\ DoneIsAcyclic'
  <2>1. Acyclic(Done \cup {n})
    BY <1>8, <1>9, AcyclicExtends DEF SearchInv, DoneIsClosed, DoneIsAcyclic
  <2>2. \A m \in Done \cup {n} : Deps(m) \subseteq Done \cup {n}
    BY <1>9 DEF SearchInv, DoneIsClosed
  <2>. QED  BY <1>1, <1>8, <2>1, <2>2 DEF DoneIsClosed, DoneIsAcyclic, Acyclic
<1>16. StartsAreDone'
  <2>1. /\ phase' = "cycles" /\ start' = start
        /\ \A m \in 1..(start - 1) : m \in Indices /\ color[m] = 2
    BY <1>0, <1>2, LenType DEF SearchInv, StartsAreDone, ValidatorTypeOK, Backtrack
  <2>. QED  BY <1>7, <2>1 DEF StartsAreDone
<1>17. CycleIsReal'
  BY <1>1 DEF SearchInv, CycleIsReal, Backtrack
<1>. QED
  BY <1>10, <1>11, <1>12, <1>13, <1>14, <1>15, <1>16, <1>17 DEF SearchInv

-----------------------------------------------------------------------------
(* The outer loop.                                                         *)

\* With an empty stack nothing is in progress: a marked start node is done.
LEMMA NextStartStep ==
    ASSUME SearchInv, NextStart
    PROVE  SearchInv'
<1>0. ValidatorTypeOK
  BY DEF SearchInv
<1>1. /\ Len(config.nodes) \in Nat /\ Indices = 1..Len(config.nodes)
      /\ stack = <<>> /\ Len(stack) = 0 /\ Len(path) = 0 /\ path = <<>>
      /\ start \in Indices /\ phase = "cycles" /\ color \in [Indices -> 0..2]
  BY <1>0, LenType, EmptySeq DEF SearchInv, ValidatorTypeOK, PathIsStack, NextStart
<1>2. CASE color[start] = 0
  <2>1. Push(start, stack) /\ UNCHANGED <<config, phase, start, cycle>>
    BY <1>2 DEF NextStart
  <2>2. stack \in Seq([node : Indices, todo : SUBSET Indices])
    BY <1>0 DEF ValidatorTypeOK
  <2>3. /\ \A i \in 1..Len(stack) : stack[i].node = stack[i].node
        /\ \A i \in 1..Len(stack) :
              \/ stack[i].todo = stack[i].todo
              \/ i = Len(stack) /\ stack[i].todo = stack[i].todo \ {start}
        /\ ~(Len(stack) > 0) /\ start \in Indices /\ phase = "cycles"
    BY <1>1
  <2>. QED  BY <1>2, <2>1, <2>2, <2>3, PushStep
<1>3. CASE color[start] # 0
  <2>1. color[start] = 2
    <3>1. color[start] # 1
      BY <1>1 DEF SearchInv, PathIsInProgress
    <3>. QED  BY <1>1, <1>3, <3>1
  <2>2. start' = start + 1 /\ UNCHANGED <<config, phase, color, stack, path, cycle>>
    BY <1>1, <1>3 DEF NextStart
  <2>3. start' \in 1..(Len(config.nodes) + 1) /\ \A n \in 1..(start' - 1) : color[n] = 2
    BY <1>1, <2>1, <2>2 DEF SearchInv, StartsAreDone
  <2>. QED  BY <1>1, <2>2, <2>3, SearchUntouched DEF Phases
<1>. QED  BY <1>2, <1>3

-----------------------------------------------------------------------------
(* A child is taken from the top frame.                                    *)

\* next_child++ changes the top frame only.
LEMMA AdvancedFacts ==
    ASSUME ValidatorTypeOK, stack # <<>>, NEW child
    PROVE  /\ Len(stack) \in 1..Len(stack)
           /\ Advanced(child) \in Seq([node : Indices, todo : SUBSET Indices])
           /\ Len(Advanced(child)) = Len(stack)
           /\ \A i \in 1..Len(stack) :
                /\ Advanced(child)[i].node = stack[i].node
                /\ i # Len(stack) => Advanced(child)[i].todo = stack[i].todo
           /\ Advanced(child)[Len(stack)].todo = stack[Len(stack)].todo \ {child}
<1>1. stack \in Seq([node : Indices, todo : SUBSET Indices])
  BY DEF ValidatorTypeOK
<1>2. Len(stack) \in Nat \ {0} /\ Len(stack) \in 1..Len(stack)
  BY <1>1
<1>. DEFINE f == stack[Len(stack)]
<1>3. f \in [node : Indices, todo : SUBSET Indices]
  BY <1>1, <1>2, ElementOfSeq
<1>. DEFINE g == [f EXCEPT !.todo = @ \ {child}]
<1>4. /\ g \in [node : Indices, todo : SUBSET Indices]
      /\ g.node = f.node /\ g.todo = f.todo \ {child}
  BY <1>3
<1>5. Advanced(child) = [stack EXCEPT ![Len(stack)] = g]
  BY DEF Advanced
<1>. HIDE DEF g
<1>6. /\ Advanced(child) \in Seq([node : Indices, todo : SUBSET Indices])
      /\ Len(Advanced(child)) = Len(stack)
      /\ \A i \in 1..Len(stack) : Advanced(child)[i] = IF i = Len(stack) THEN g ELSE stack[i]
  BY <1>1, <1>2, <1>4, <1>5, ExceptSeq
<1>. QED  BY <1>2, <1>4, <1>6

\* The child is done, or the search ends here with the cycle it closes.
LEMMA AdvanceStep ==
    ASSUME SearchInv, stack # <<>>, phase = "cycles", NEW child \in Top.todo,
           stack' = Advanced(child), UNCHANGED <<config, color, path, start>>,
           phase' = "rejected" \/ (phase' = "cycles" /\ color[child] = 2),
           cycle' \in Seq(Indices), CycleIsReal'
    PROVE  SearchInv'
<1>0. ValidatorTypeOK
  BY DEF SearchInv
<1>1. Indices' = Indices /\ \A m : Deps(m)' = Deps(m)
  BY DepsConstant
<1>2. /\ Len(stack) \in 1..Len(stack)
      /\ stack' \in Seq([node : Indices, todo : SUBSET Indices])
      /\ Len(stack') = Len(stack)
      /\ \A i \in 1..Len(stack) :
           /\ stack'[i].node = stack[i].node
           /\ i # Len(stack) => stack'[i].todo = stack[i].todo
      /\ stack'[Len(stack)].todo = stack[Len(stack)].todo \ {child}
  BY <1>0, AdvancedFacts
<1>3. Done' = Done
  BY <1>1 DEF Done
<1>4. ValidatorTypeOK'
  BY <1>0, <1>1, <1>2 DEF ValidatorTypeOK, Phases
<1>5. PathIsStack'
  BY <1>2 DEF SearchInv, PathIsStack
<1>6. PathIsInProgress' /\ PathFollowsDeps'
  BY <1>1 DEF SearchInv, PathIsInProgress, PathFollowsDeps, Distinct
<1>7. ChildrenAccounted'
  <2>1. ASSUME NEW i \in 1..Len(stack)
        PROVE  /\ stack'[i].todo \subseteq Deps(path[i])
               /\ phase' # "rejected" =>
                    \A m \in Deps(path[i]) \ stack'[i].todo :
                        color[m] = 2 \/ (i < Len(stack) /\ m = path[i + 1])
    <3>1. /\ stack[i].todo \subseteq Deps(path[i])
          /\ \A m \in Deps(path[i]) \ stack[i].todo :
                color[m] = 2 \/ (i < Len(stack) /\ m = path[i + 1])
      BY DEF SearchInv, ChildrenAccounted
    <3>2. CASE i = Len(stack)
      BY <1>2, <3>1, <3>2
    <3>3. CASE i # Len(stack)
      BY <1>2, <3>1, <3>3
    <3>. QED  BY <3>2, <3>3
  <2>. QED  BY <1>1, <1>2, <2>1 DEF ChildrenAccounted
<1>8. DoneIsClosed' /\ DoneIsAcyclic'
  BY <1>1, <1>3 DEF SearchInv, DoneIsClosed, DoneIsAcyclic, Acyclic
<1>9. StartsAreDone'
  BY DEF SearchInv, StartsAreDone
<1>. QED  BY <1>4, <1>5, <1>6, <1>7, <1>8, <1>9 DEF SearchInv

\* What is left of the path from the child on, and the child: a cycle.
LEMMA FoundCycleStep ==
    ASSUME SearchInv, stack # <<>>, phase = "cycles", NEW child \in Top.todo,
           FoundCycle(child), UNCHANGED <<config, start>>
    PROVE  SearchInv'
<1>. DEFINE L == Len(path)
<1>0. ValidatorTypeOK
  BY DEF SearchInv
<1>1. Indices' = Indices /\ \A m : Deps(m)' = Deps(m)
  BY DepsConstant
<1>2. /\ path \in Seq(Indices) /\ L \in Nat /\ Len(stack) = L /\ L \in 1..L
      /\ \A i \in 1..L : path[i] \in Indices
  BY <1>0, AdvancedFacts DEF SearchInv, ValidatorTypeOK, PathIsStack
<1>3. child \in Deps(path[L]) /\ child \in Indices
  BY <1>2, DepsType DEF SearchInv, ChildrenAccounted, Top
<1>4. PICK k \in 1..L : path[k] = child /\ cycle' = Append(SubSeq(path, k, L), child)
  BY DEF FoundCycle
<1>. DEFINE tail == SubSeq(path, k, L)
<1>5. /\ tail \in Seq(Indices) /\ Len(tail) = L - k + 1
      /\ \A i \in 1..(L - k + 1) : tail[i] = path[k + i - 1]
  <2>1. k \in Int /\ L \in Int /\ k <= L /\ \A i \in k..L : path[i] \in Indices
    BY <1>2
  <2>. QED  BY <2>1, SubSeqProperties
<1>. HIDE DEF tail
<1>6. /\ cycle' \in Seq(Indices) /\ Len(cycle') = L - k + 2
      /\ \A i \in 1..(L - k + 1) : cycle'[i] = path[k + i - 1]
      /\ cycle'[L - k + 2] = child
  <2>1. cycle' = Append(tail, child)
    BY <1>4 DEF tail
  <2>2. L - k + 1 \in Nat /\ L - k + 2 = (L - k + 1) + 1
    BY <1>2
  <2>3. /\ cycle' \in Seq(Indices) /\ Len(cycle') = Len(tail) + 1
        /\ \A i \in 1..Len(tail) : cycle'[i] = tail[i]
        /\ cycle'[Len(tail) + 1] = child
    BY <1>3, <1>5, <2>1, AppendProperties
  <2>. QED  BY <1>5, <2>2, <2>3
<1>7. \A i \in 1..(L - k + 1) : cycle'[i + 1] \in Deps(cycle'[i])
  <2>. SUFFICES ASSUME NEW i \in 1..(L - k + 1) PROVE cycle'[i + 1] \in Deps(path[k + i - 1])
    BY <1>6
  <2>1. CASE i = L - k + 1
    BY <1>2, <1>3, <1>6, <2>1
  <2>2. CASE i # L - k + 1
    <3>1. i + 1 \in 1..(L - k + 1) /\ k + i - 1 \in 1..(L - 1) /\ k + (i + 1) - 1 = (k + i - 1) + 1
      BY <1>2, <2>2
    <3>2. cycle'[i + 1] = path[(k + i - 1) + 1]
      <4>1. cycle'[i + 1] = path[k + (i + 1) - 1]
        BY <1>6, <3>1
      <4>. QED  BY <3>1, <4>1
    <3>. QED  BY <3>1, <3>2 DEF SearchInv, PathFollowsDeps
  <2>. QED  BY <2>1, <2>2
<1>8. CycleIsReal'
  <2>1. Len(cycle') > 1 /\ cycle'[1] = cycle'[Len(cycle')] /\ Len(cycle') - 1 = L - k + 1
    BY <1>2, <1>4, <1>6
  <2>. QED  BY <1>1, <1>7, <2>1 DEF CycleIsReal
<1>. QED  BY <1>6, <1>8, AdvanceStep DEF FoundCycle

\* A child that is done needs no visit.
LEMMA SkipStep ==
    ASSUME SearchInv, stack # <<>>, phase = "cycles", NEW child \in Top.todo,
           Skip(child), UNCHANGED <<config, start>>
    PROVE  SearchInv'
<1>1. CycleIsReal' /\ cycle' \in Seq(Indices)
  BY DepsConstant DEF SearchInv, ValidatorTypeOK, CycleIsReal, Skip
<1>. QED  BY <1>1, AdvanceStep DEF Skip

\* An unvisited child leaves the top frame and gets one of its own.
LEMMA DescendStep ==
    ASSUME SearchInv, stack # <<>>, phase = "cycles", NEW child \in Top.todo,
           Descend(child), UNCHANGED <<config, start>>
    PROVE  SearchInv'
<1>0. ValidatorTypeOK
  BY DEF SearchInv
<1>. DEFINE fs == Advanced(child)
<1>1. /\ Len(stack) \in 1..Len(stack)
      /\ fs \in Seq([node : Indices, todo : SUBSET Indices])
      /\ Len(fs) = Len(stack)
      /\ \A i \in 1..Len(stack) :
           /\ fs[i].node = stack[i].node
           /\ i # Len(stack) => fs[i].todo = stack[i].todo
      /\ fs[Len(stack)].todo = stack[Len(stack)].todo \ {child}
  BY <1>0, AdvancedFacts
<1>2. /\ color[child] = 0 /\ Push(child, fs)
      /\ UNCHANGED <<config, phase, start, cycle>>
  BY DEF Descend
<1>3. child \in Deps(path[Len(path)]) /\ child \in Indices
  BY <1>1, DepsType DEF SearchInv, PathIsStack, ChildrenAccounted, Top
<1>. HIDE DEF fs
<1>4. \A i \in 1..Len(stack) :
         \/ fs[i].todo = stack[i].todo
         \/ i = Len(stack) /\ fs[i].todo = stack[i].todo \ {child}
  BY <1>1
<1>. QED  BY <1>1, <1>2, <1>3, <1>4, PushStep

-----------------------------------------------------------------------------
LEMMA SearchStep ==
    ASSUME SearchInv, [Validate]_validatorVars
    PROVE  SearchInv'
<1>1. CASE UNCHANGED validatorVars
  <2>1. /\ start' = start /\ phase' = phase
        /\ UNCHANGED <<config, color, stack, path, cycle>>
    BY <1>1 DEF validatorVars, dfsVars
  <2>2. /\ phase \in Phases /\ start \in 1..(Len(config.nodes) + 1)
        /\ \A n \in 1..(start - 1) : color[n] = 2
        /\ phase = "accepted" => start = Len(config.nodes) + 1
    BY DEF SearchInv, ValidatorTypeOK, StartsAreDone
  <2>. QED  BY <2>1, <2>2, SearchUntouched
<1>2. CASE \/ ValidateUniqueNames \/ ValidateUniqueExecutors
           \/ ValidateNoDuplicateNodeInputs \/ ValidateConnectivity
  BY <1>2, CheckStep
<1>3. CASE NextStart
  BY <1>3, NextStartStep
<1>4. CASE Backtrack
  BY <1>4, BacktrackStep
<1>5. CASE VisitChild
  BY <1>5, FoundCycleStep, DescendStep, SkipStep DEF VisitChild
<1>6. CASE Accept
  BY <1>6, AcceptStep
<1>. QED  BY <1>1, <1>2, <1>3, <1>4, <1>5, <1>6 DEF Validate

\* What the invariant says once the search has ended without a cycle.
LEMMA SearchInvImplies == SearchInv => AcceptedIsAcyclic /\ CycleIsReal
<1>1. ASSUME SearchInv, phase = "accepted" PROVE Acyclic(Indices)
  <2>1. Len(config.nodes) \in Nat /\ Indices = 1..Len(config.nodes)
    BY <1>1, LenType DEF SearchInv
  <2>2. \A n \in Indices : color[n] = 2
    BY <1>1, <2>1 DEF SearchInv, StartsAreDone
  <2>3. Done = Indices
    BY <2>2 DEF Done
  <2>. QED  BY <1>1, <2>3 DEF SearchInv, DoneIsAcyclic
<1>. QED  BY <1>1 DEF AcceptedIsAcyclic, SearchInv

\* Every step of the validation keeps the invariant of the search: the frames
\* mirror the path, the path holds what is in progress, and what is done is
\* closed under dependencies and free of cycles.
THEOREM SearchInvariance == Spec => []SearchInv
<1>1. Init => SearchInv
  BY StartSearchInv, ConfigAssumption DEF Init
<1>2. SearchInv /\ [Validate]_validatorVars => SearchInv'
  BY SearchStep
<1>. QED  BY <1>1, <1>2, PTL DEF Spec

\* Soundness of ValidateNoCycles: an accepted configuration, of any size, has
\* no set of nodes in which each one depends on another of the set.
THEOREM AcceptedAcyclic == Spec => []AcceptedIsAcyclic
BY SearchInvImplies, SearchInvariance, PTL

\* Precision of ValidateNoCycles: the cycle in its error message is one.
THEOREM ReportedCycleIsReal == Spec => []CycleIsReal
BY SearchInvImplies, SearchInvariance, PTL

=============================================================================
