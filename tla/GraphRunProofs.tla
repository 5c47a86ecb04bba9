--------------------------- MODULE GraphRunProofs ---------------------------
(***************************************************************************)
(* What holds of the run of a whole graph, for any graph, any queues and   *)
(* workers, and any calls of the application: when the queues are idle no  *)
(* packet is left in a stream between two nodes; when the application      *)
(* runs the graph once from start to end, each node is closed once; and in *)
(* an orderly run Done travels behind the data.                            *)
(***************************************************************************)
EXTENDS GraphSchedulerProofs

-----------------------------------------------------------------------------
(* What a thread has still to do, as a set.                                *)

Ops(a) == {a[i] : i \in 1..Len(a)}
Rest(a) == {a[i] : i \in 2..Len(a)}

LEMMA OpsType ==
    ASSUME NEW T, NEW r \in Seq(T)
    PROVE  Ops(r) \subseteq T
BY DEF Ops

LEMMA OpsEmpty == Ops(<<>>) = {}
BY DEF Ops

LEMMA OpsOne ==
    ASSUME NEW x
    PROVE  Ops(<<x>>) = {x}
BY DEF Ops

LEMMA OpsJoined ==
    ASSUME NEW T, NEW r \in Seq(T), NEW s \in Seq(T)
    PROVE  Ops(r \o s) = Ops(r) \cup Ops(s)
<1>1. /\ Len(r) \in Nat /\ Len(s) \in Nat /\ Len(r \o s) = Len(r) + Len(s)
      /\ \A i \in 1..Len(r) : (r \o s)[i] = r[i]
      /\ \A i \in (Len(r) + 1)..(Len(r) + Len(s)) : (r \o s)[i] = s[i - Len(r)]
  BY ConcatProperties
<1>. DEFINE q == r \o s
<1>. HIDE DEF q
<1>2. /\ Len(q) = Len(r) + Len(s)
      /\ \A i \in 1..Len(r) : q[i] = r[i]
      /\ \A i \in (Len(r) + 1)..(Len(r) + Len(s)) : q[i] = s[i - Len(r)]
  BY <1>1 DEF q
<1>3. ASSUME NEW i \in 1..Len(q) PROVE q[i] \in Ops(r) \cup Ops(s)
  <2>1. CASE i <= Len(r)
    BY <1>1, <1>2, <2>1 DEF Ops
  <2>2. CASE i > Len(r)
    <3>1. i \in (Len(r) + 1)..(Len(r) + Len(s)) /\ i - Len(r) \in 1..Len(s)
      BY <1>1, <1>2, <2>2
    <3>. QED  BY <1>2, <3>1 DEF Ops
  <2>. QED  BY <1>1, <1>2, <2>1, <2>2
<1>4. ASSUME NEW i \in 1..Len(r) PROVE r[i] \in Ops(q)
  <2>1. i \in 1..Len(q)
    BY <1>1, <1>2
  <2>. QED  BY <1>2, <2>1 DEF Ops
<1>5. ASSUME NEW i \in 1..Len(s) PROVE s[i] \in Ops(q)
  <2>1. /\ i + Len(r) \in 1..Len(q) /\ i + Len(r) \in (Len(r) + 1)..(Len(r) + Len(s))
        /\ (i + Len(r)) - Len(r) = i
    BY <1>1, <1>2
  <2>2. q[i + Len(r)] = s[i]
    BY <1>2, <2>1
  <2>. QED  BY <2>1, <2>2 DEF Ops
<1>. QED  BY <1>3, <1>4, <1>5 DEF Ops, q

\* Thread t executes its next operation.
LEMMA OpsStep ==
    ASSUME AgendaInv, NEW t \in Threads, NEW k, At(t, k), NEW r \in Seq(Operations), Then(t, r)
    PROVE  /\ Ops(agenda'[t]) = Ops(r) \cup Rest(agenda[t])
           /\ Ops(agenda[t]) = {Head(agenda[t])} \cup Rest(agenda[t])
           /\ Head(agenda[t]) = agenda[t][1] /\ Head(agenda[t])[1] = k
           /\ Head(agenda[t]) \in Operations
           /\ Ops(agenda[t]) \subseteq Operations /\ Rest(agenda[t]) \subseteq Operations
           /\ \A u \in Threads : u # t => agenda'[u] = agenda[u]
           /\ Replaces(agenda'[t], r, agenda[t])
<1>. DEFINE a == agenda[t]
            b == r \o Tail(a)
<1>1. /\ a \in Seq(Operations) /\ a # <<>> /\ Head(a) = a[1] /\ a[1] \in Operations
      /\ a[1][1] = k
  BY AtFacts
<1>2. b \in Seq(Operations) /\ Replaces(b, r, a)
  BY <1>1, ReplaceHead
<1>3. agenda' = [agenda EXCEPT ![t] = b]
  BY DEF Then
<1>4. agenda'[t] = b /\ \A u \in Threads : u # t => agenda'[u] = agenda[u]
  <2>. HIDE DEF b
  <2>. QED  BY <1>3 DEF AgendaInv
<1>. HIDE DEF a, b
<1>5. /\ Len(a) \in Nat /\ Len(a) > 0 /\ Len(r) \in Nat
      /\ Len(b) = Len(r) + Len(a) - 1
      /\ \A i \in 1..Len(r) : b[i] = r[i]
      /\ \A i \in 2..Len(a) : b[i + Len(r) - 1] = a[i]
      /\ \A i \in (Len(r) + 1)..Len(b) : b[i] = a[i - Len(r) + 1]
  BY <1>2 DEF Replaces
<1>6. ASSUME NEW i \in 1..Len(b) PROVE b[i] \in Ops(r) \cup Rest(a)
  <2>1. CASE i <= Len(r)
    <3>1. i \in 1..Len(r)
      BY <1>5, <2>1
    <3>. QED  BY <1>5, <3>1 DEF Ops
  <2>2. CASE i > Len(r)
    <3>1. i \in (Len(r) + 1)..Len(b) /\ i - Len(r) + 1 \in 2..Len(a)
      BY <1>5, <2>2
    <3>. QED  BY <1>5, <3>1 DEF Rest
  <2>. QED  BY <1>5, <2>1, <2>2
<1>7. ASSUME NEW i \in 1..Len(r) PROVE r[i] \in Ops(b)
  <2>1. i \in 1..Len(b)
    BY <1>5
  <2>. QED  BY <1>5, <2>1 DEF Ops
<1>8. ASSUME NEW i \in 2..Len(a) PROVE a[i] \in Ops(b)
  <2>1. i + Len(r) - 1 \in 1..Len(b)
    BY <1>5
  <2>. QED  BY <1>5, <2>1 DEF Ops
<1>9. Ops(b) = Ops(r) \cup Rest(a)
  BY <1>6, <1>7, <1>8 DEF Ops, Rest
<1>10. Ops(a) = {a[1]} \cup Rest(a)
  <2>1. \A i : i \in 1..Len(a) <=> i = 1 \/ i \in 2..Len(a)
    BY <1>5
  <2>. QED  BY <2>1 DEF Ops, Rest
<1>11. Ops(a) \subseteq Operations
  BY <1>1, OpsType DEF a
<1>. QED  BY <1>1, <1>2, <1>4, <1>9, <1>10, <1>11 DEF a

\* Thread t has nothing to do and gets a new agenda.
LEMMA OpsFresh ==
    ASSUME AgendaInv, NEW t \in Threads, agenda[t] = <<>>, NEW r,
           agenda' = [agenda EXCEPT ![t] = r]
    PROVE  /\ Ops(agenda[t]) = {} /\ agenda'[t] = r
           /\ \A u \in Threads : u # t => agenda'[u] = agenda[u]
BY OpsEmpty DEF AgendaInv

LEMMA HasOps ==
    ASSUME NEW a, NEW K
    PROVE  HasIn(a, K) <=> \E op \in Ops(a) : op[1] \in K
BY DEF HasIn, Ops

\* OnTaskFinished is the last operation of an agenda.
LEMMA FinishedLast ==
    ASSUME AgendaInv, NEW w \in Workers, At(w, "Finished")
    PROVE  Rest(agenda[w]) = {}
<1>1. Len(agenda[w]) > 0 /\ ~ (Len(agenda[w]) > 1)
  BY Alone
<1>2. Len(agenda[w]) \in Nat
  BY DEF AgendaInv, Threads
<1>. QED  BY <1>1, <1>2 DEF Rest

LEMMA PlainOp ==
    ASSUME NEW op \in Operations, op[1] \in PlainKinds
    PROVE  op = <<op[1]>>
<1>1. op \in {<<k>> : k \in PlainKinds} => op = <<op[1]>>
  OBVIOUS
<1>2. op \notin {<<k>> : k \in PlainKinds} => FALSE
  BY DEF Operations, NodeKinds, QueueKinds, PlainKinds
<1>. QED  BY <1>1, <1>2

LEMMA NodeOp ==
    ASSUME NEW op \in Operations, op[1] \in NodeKinds
    PROVE  op = <<op[1], op[2]>> /\ op[2] \in Nodes
<1>1. op \in NodeKinds \X Nodes => op = <<op[1], op[2]>> /\ op[2] \in Nodes
  OBVIOUS
<1>2. op \notin NodeKinds \X Nodes => FALSE
  BY DEF Operations, NodeKinds, QueueKinds, PlainKinds
<1>. QED  BY <1>1, <1>2

\* Behind Process and behind Finalize there is only OnTaskFinished.
LEMMA RunLast ==
    ASSUME AgendaInv, NEW w \in Workers, NEW k \in {"Process", "Finalize"}, At(w, k)
    PROVE  Rest(agenda[w]) = {<<"Finished">>}
<1>. DEFINE a == agenda[w]
<1>0. w \in Threads
  BY DEF Threads
<1>1. a \in Seq(Operations) /\ Len(a) > 0 /\ a[1][1] = k
  BY <1>0, AtFacts
<1>2. WorkerForm(a, cur[w]) /\ Len(a) \in Nat
  BY <1>1 DEF AgendaInv
<1>. HIDE DEF a
<1>3. 1 \in 1..Len(a)
  BY <1>1, <1>2
<1>4. 1 >= Len(a) - 1
  BY <1>1, <1>2, <1>3 DEF WorkerForm
<1>5. HasIn(a, Runs)
  BY <1>1, <1>3 DEF HasIn, Runs
<1>6. PICK i \in 1..Len(a) : a[i][1] = "Finished"
  BY <1>2, <1>5 DEF WorkerForm, HasIn
<1>7. i = Len(a) /\ i # 1
  BY <1>1, <1>2, <1>6 DEF WorkerForm
<1>8. Len(a) = 2 /\ i = 2
  BY <1>2, <1>4, <1>6, <1>7
<1>9. a[2] \in Operations /\ a[2][1] = "Finished"
  BY <1>1, <1>6, <1>8
<1>10. a[2] = <<"Finished">>
  <2>1. a[2][1] \in PlainKinds
    BY <1>9 DEF PlainKinds
  <2>2. a[2] = <<a[2][1]>>
    BY <1>9, <2>1, PlainOp
  <2>. QED  BY <1>9, <2>2, Zenon
<1>11. Rest(a) = {a[2]}
  BY <1>8 DEF Rest
<1>. QED  BY <1>10, <1>11 DEF a

-----------------------------------------------------------------------------
(* Every packet of a node is attended to.                                  *)

\* w is inside RunNode.
Working(w) == <<"Finished">> \in Ops(agenda[w])

\* A worker inside RunNode will take a packet of n, or call AddNode for it.
Guards == {"Process", "Finalize", "Reschedule", "AddNode"}
Guarded(n) ==
    \E w \in Workers : Working(w) /\ \E k \in Guards : <<k, n>> \in Ops(agenda[w])

Attended(n) == queue[n] > 0 \/ Guarded(n)
Excused(n) == n \in failed \/ QueueOf[n] \in cleaned

HasPackets(n) == \E e \in Ports(n) \ FedByApps : len[e] > 0

PacketsAttended == \A n \in Consumers : HasPackets(n) => Attended(n) \/ Excused(n)

\* The operations that bring packets to an edge no graph input feeds.
Delivery(op) == op[1] = "PostProcess" \/ (op[1] = "AddPackets" /\ op[2] \notin FedByApps)

DeliveredInTasks ==
    \A t \in Threads : \A op \in Ops(agenda[t]) : Delivery(op) => t \in Workers /\ Working(t)

\* DecrementPending, at which a node ceases to be at its limit, is followed by
\* a look at the node's inputs.
NoneAfter(a, K, L) == \A i, j \in 1..Len(a) : i < j /\ a[i][1] \in K => a[j][1] \notin L

LookedAtAfter ==
    \A w \in Workers :
        /\ NoneAfter(agenda[w], {"Reschedule"}, {"Decrement"})
        /\ \A n \in Consumers :
              <<"Decrement", n>> \in Ops(agenda[w]) =>
                  n \in failed \/ <<"Reschedule", n>> \in Ops(agenda[w])

\* Before Start nothing runs: the application fills and closes graph inputs.
EarlyKinds == {"AddNode", "AddPackets", "SetDone", "CloseManager", "IncClosed", "Enter",
               "Begin", "CheckIdle", "Idle", "Leave"}
NothingRuns ==
    state = "NotStarted" =>
        /\ \A q \in Queues : tasks[q] = 0
        /\ \A w \in Workers : agenda[w] = <<>>
        /\ \A t \in Threads : \A op \in Ops(agenda[t]) : op[1] \in EarlyKinds
        /\ \A e \in Edges \ FedByApps : len[e] = 0

DrainInv == NothingRuns /\ DeliveredInTasks /\ LookedAtAfter /\ PacketsAttended

LEMMA NoneAfterKept ==
    ASSUME NEW a, NEW r, NEW b, NEW K, NEW L, Replaces(b, r, a),
           NoneAfter(a, K, L), NoneAfter(r, K, L), HasIn(r, K) => ~ RestHas(a, L)
    PROVE  NoneAfter(b, K, L)
<1>1. /\ Len(a) \in Nat /\ Len(a) > 0 /\ Len(r) \in Nat
      /\ Len(b) = Len(r) + Len(a) - 1
      /\ \A i \in 1..Len(r) : b[i] = r[i]
      /\ \A i \in (Len(r) + 1)..Len(b) : b[i] = a[i - Len(r) + 1]
  BY DEF Replaces
<1>2. SUFFICES ASSUME NEW i \in 1..Len(b), NEW j \in 1..Len(b), i < j, b[i][1] \in K,
                      b[j][1] \in L
               PROVE  FALSE
  BY DEF NoneAfter
<1>3. CASE j <= Len(r)
  <2>1. i \in 1..Len(r) /\ j \in 1..Len(r)
    BY <1>1, <1>2, <1>3
  <2>. QED  BY <1>1, <1>2, <2>1 DEF NoneAfter
<1>4. CASE j > Len(r)
  <2>1. j \in (Len(r) + 1)..Len(b) /\ j - Len(r) + 1 \in 2..Len(a)
    BY <1>1, <1>4
  <2>2. a[j - Len(r) + 1][1] \in L
    BY <1>1, <1>2, <2>1
  <2>3. CASE i <= Len(r)
    <3>1. i \in 1..Len(r)
      BY <1>1, <2>3
    <3>2. HasIn(r, K)
      BY <1>1, <1>2, <3>1 DEF HasIn
    <3>. QED  BY <2>1, <2>2, <3>2 DEF RestHas
  <2>4. CASE i > Len(r)
    <3>1. /\ i \in (Len(r) + 1)..Len(b)
          /\ i - Len(r) + 1 \in 1..Len(a) /\ j - Len(r) + 1 \in 1..Len(a)
          /\ i - Len(r) + 1 < j - Len(r) + 1
      BY <1>1, <1>2, <2>1, <2>4
    <3>2. a[i - Len(r) + 1][1] \in K
      BY <1>1, <1>2, <3>1
    <3>. QED  BY <2>2, <3>1, <3>2 DEF NoneAfter
  <2>. QED  BY <1>1, <2>3, <2>4
<1>. QED  BY <1>1, <1>3, <1>4

LEMMA NoneAfterNone ==
    ASSUME NEW a, NEW K, NEW L, ~ HasIn(a, K) \/ ~ HasIn(a, L)
    PROVE  NoneAfter(a, K, L)
BY DEF NoneAfter, HasIn

\* A worker inside RunNode stays there until OnTaskFinished.
LEMMA WorkingKept ==
    ASSUME AgendaInv, NEW t \in Threads, NEW k, At(t, k), NEW r \in Seq(Operations), Then(t, r)
    PROVE  /\ \A u \in Threads : Working(u) => Working(u)' \/ (u = t /\ k = "Finished")
           /\ k = "Finished" /\ t \in Workers => Rest(agenda[t]) = {}
<1>1. /\ Ops(agenda'[t]) = Ops(r) \cup Rest(agenda[t])
      /\ Ops(agenda[t]) = {Head(agenda[t])} \cup Rest(agenda[t])
      /\ Head(agenda[t])[1] = k
      /\ \A u \in Threads : u # t => agenda'[u] = agenda[u]
  BY OpsStep
<1>2. <<"Finished">>[1] = "Finished"
  OBVIOUS
<1>. QED  BY <1>1, <1>2, FinishedLast DEF Working

LEMMA DeliveredKept ==
    ASSUME AgendaInv, DeliveredInTasks, NEW t \in Threads, NEW k, At(t, k),
           NEW r \in Seq(Operations), Then(t, r),
           \A op \in Ops(r) : Delivery(op) => t \in Workers /\ Working(t) /\ k # "Finished"
    PROVE  DeliveredInTasks'
<1>1. /\ Ops(agenda'[t]) = Ops(r) \cup Rest(agenda[t])
      /\ Ops(agenda[t]) = {Head(agenda[t])} \cup Rest(agenda[t])
      /\ \A u \in Threads : u # t => agenda'[u] = agenda[u]
  BY OpsStep
<1>2. /\ \A u \in Threads : Working(u) => Working(u)' \/ (u = t /\ k = "Finished")
      /\ k = "Finished" /\ t \in Workers => Rest(agenda[t]) = {}
  BY WorkingKept
<1>3. SUFFICES ASSUME NEW u \in Threads, NEW op \in Ops(agenda'[u]), Delivery(op)
               PROVE  u \in Workers /\ Working(u)'
  BY DEF DeliveredInTasks, Delivery
<1>4. CASE u # t \/ op \in Rest(agenda[t])
  <2>1. op \in Ops(agenda[u])
    BY <1>1, <1>3, <1>4
  <2>2. u \in Workers /\ Working(u)
    BY <1>3, <2>1 DEF DeliveredInTasks
  <2>. QED  BY <1>2, <1>4, <2>2
<1>5. CASE u = t /\ op \in Ops(r)
  BY <1>2, <1>3, <1>5
<1>. QED  BY <1>1, <1>3, <1>4, <1>5

LEMMA LookedAtKept ==
    ASSUME AgendaInv, LookedAtAfter, NEW t \in Threads, NEW k, At(t, k),
           NEW r \in Seq(Operations), Then(t, r), failed \subseteq failed',
           \A op \in Ops(r) : op[1] \notin {"Decrement", "Reschedule"}
    PROVE  LookedAtAfter'
<1>1. /\ Ops(agenda'[t]) = Ops(r) \cup Rest(agenda[t])
      /\ Ops(agenda[t]) = {Head(agenda[t])} \cup Rest(agenda[t])
      /\ Head(agenda[t])[1] = k /\ Head(agenda[t]) = agenda[t][1]
      /\ Replaces(agenda'[t], r, agenda[t])
      /\ \A u \in Threads : u # t => agenda'[u] = agenda[u]
  BY OpsStep
<1>2. ~ HasIn(r, {"Reschedule"})
  BY HasOps
<1>3. \A n : <<"Decrement", n>>[1] = "Decrement" /\ <<"Reschedule", n>>[1] = "Reschedule"
  OBVIOUS
<1>4. \A n : <<"Decrement", n>> \notin Ops(r)
  BY <1>3
<1>5. ASSUME NEW w \in Workers, w = t
      PROVE  /\ NoneAfter(agenda'[w], {"Reschedule"}, {"Decrement"})
             /\ \A n \in Consumers :
                    <<"Decrement", n>> \in Ops(agenda'[w]) =>
                        n \in failed' \/ <<"Reschedule", n>> \in Ops(agenda'[w])
  <2>1. NoneAfter(agenda[w], {"Reschedule"}, {"Decrement"})
    BY DEF LookedAtAfter
  <2>2. NoneAfter(agenda'[w], {"Reschedule"}, {"Decrement"})
    BY <1>1, <1>2, <1>5, <2>1, NoneAfterNone, NoneAfterKept
  <2>3. ASSUME NEW n \in Consumers, <<"Decrement", n>> \in Ops(agenda'[w])
        PROVE  n \in failed' \/ <<"Reschedule", n>> \in Ops(agenda'[w])
    <3>1. <<"Decrement", n>> \in Rest(agenda[w])
      BY <1>1, <1>4, <1>5, <2>3
    <3>2. n \in failed \/ <<"Reschedule", n>> \in Ops(agenda[w])
      BY <1>1, <1>5, <3>1 DEF LookedAtAfter
    <3>3. ASSUME k = "Reschedule" PROVE FALSE
      <4>1. PICK j \in 2..Len(agenda[w]) : agenda[w][j] = <<"Decrement", n>>
        BY <3>1 DEF Rest
      <4>2. /\ 1 \in 1..Len(agenda[w]) /\ j \in 1..Len(agenda[w]) /\ 1 < j
        BY <1>1, <1>5 DEF Replaces
      <4>3. agenda[w][1][1] \in {"Reschedule"} /\ agenda[w][j][1] \in {"Decrement"}
        BY <1>1, <1>3, <1>5, <3>3, <4>1
      <4>. QED  BY <2>1, <4>2, <4>3 DEF NoneAfter
    <3>4. <<"Reschedule", n>> \in Ops(agenda[w]) => <<"Reschedule", n>> \in Rest(agenda[w])
      BY <1>1, <1>3, <1>5, <3>3
    <3>. QED  BY <1>1, <1>5, <3>2, <3>4
  <2>. QED  BY <2>2, <2>3
<1>6. ASSUME NEW w \in Workers, w # t
      PROVE  /\ NoneAfter(agenda'[w], {"Reschedule"}, {"Decrement"})
             /\ \A n \in Consumers :
                    <<"Decrement", n>> \in Ops(agenda'[w]) =>
                        n \in failed' \/ <<"Reschedule", n>> \in Ops(agenda'[w])
  <2>1. agenda'[w] = agenda[w]
    BY <1>1, <1>6 DEF Threads
  <2>. QED  BY <2>1 DEF LookedAtAfter
<1>. QED  BY <1>5, <1>6 DEF LookedAtAfter

\* A guard is given up only when it is executed, and r may bring others.
LEMMA GuardsKept ==
    ASSUME AgendaInv, NEW t \in Threads, NEW k, At(t, k), NEW r \in Seq(Operations), Then(t, r)
    PROVE  /\ \A n : Guarded(n) =>
                 \/ Guarded(n)'
                 \/ k \in Guards /\ Head(agenda[t]) = <<k, n>> /\ t \in Workers /\ Working(t)
           /\ \A n, w : \A g \in Guards \ {k} :
                 w \in Workers /\ Working(w) /\ <<g, n>> \in Ops(agenda[w]) => Guarded(n)'
           /\ \A n : \A g \in Guards :
                 <<g, n>> \in Ops(r) /\ t \in Workers /\ Working(t) /\ k # "Finished" => Guarded(n)'
           /\ \A n : \A g \in Guards :
                 <<g, n>> \in Ops(r) /\ t \in Workers /\ <<"Finished">> \in Ops(r) => Guarded(n)'
<1>1. /\ Ops(agenda'[t]) = Ops(r) \cup Rest(agenda[t])
      /\ Ops(agenda[t]) = {Head(agenda[t])} \cup Rest(agenda[t])
      /\ Head(agenda[t])[1] = k
      /\ \A u \in Threads : u # t => agenda'[u] = agenda[u]
  BY OpsStep
<1>2. /\ \A u \in Threads : Working(u) => Working(u)' \/ (u = t /\ k = "Finished")
      /\ k = "Finished" /\ t \in Workers => Rest(agenda[t]) = {}
  BY WorkingKept
<1>3. Workers \subseteq Threads
  BY DEF Threads
<1>4. ASSUME NEW n, NEW w \in Workers, Working(w), NEW g \in Guards, <<g, n>> \in Ops(agenda[w]),
             ~ (w = t /\ Head(agenda[t]) = <<g, n>>)
      PROVE  Guarded(n)'
  <2>1. CASE w # t
    <3>1. agenda'[w] = agenda[w]
      BY <1>1, <1>3, <2>1
    <3>. QED  BY <1>4, <3>1 DEF Guarded, Working
  <2>2. CASE w = t
    <3>1. <<g, n>> \in Rest(agenda[t])
      BY <1>1, <1>4, <2>2
    <3>2. k # "Finished"
      BY <1>2, <2>2, <3>1
    <3>3. Working(w)'
      BY <1>2, <1>3, <1>4, <3>2
    <3>. QED  BY <1>1, <2>2, <3>1, <3>3 DEF Guarded
  <2>. QED  BY <2>1, <2>2
<1>5. ASSUME NEW n, NEW g \in Guards, <<g, n>> \in Ops(r), t \in Workers,
             (Working(t) /\ k # "Finished") \/ <<"Finished">> \in Ops(r)
      PROVE  Guarded(n)'
  <2>1. Working(t)'
    BY <1>1, <1>2, <1>5 DEF Working
  <2>. QED  BY <1>1, <1>5, <2>1 DEF Guarded
<1>6. \A g, n : <<g, n>>[1] = g
  OBVIOUS
<1>7. ASSUME NEW n, Guarded(n)
      PROVE  \/ Guarded(n)'
             \/ k \in Guards /\ Head(agenda[t]) = <<k, n>> /\ t \in Workers /\ Working(t)
  <2>1. PICK w \in Workers : Working(w) /\ \E g \in Guards : <<g, n>> \in Ops(agenda[w])
    BY <1>7 DEF Guarded
  <2>2. PICK g \in Guards : <<g, n>> \in Ops(agenda[w])
    BY <2>1
  <2>. QED  BY <1>1, <1>4, <1>6, <2>1, <2>2
<1>8. ASSUME NEW n, NEW w \in Workers, NEW g \in Guards \ {k}, Working(w),
             <<g, n>> \in Ops(agenda[w])
      PROVE  Guarded(n)'
  <2>1. Head(agenda[t]) # <<g, n>>
    BY <1>1, <1>6
  <2>. QED  BY <1>4, <1>8, <2>1
<1>. QED  BY <1>5, <1>7, <1>8

-----------------------------------------------------------------------------
(* What the operations put in front of an agenda.                          *)

OfKinds(L) == {op \in Operations : op[1] \in L}

\* t executes its next operation and puts operations of the kinds L in front.
Puts(t, L) == \E r \in Seq(OfKinds(L)) : Then(t, r)

LEMMA KindOps ==
    ASSUME NEW L
    PROVE  /\ \A k \in NodeKinds, n \in Nodes : k \in L => <<k, n>> \in OfKinds(L)
           /\ \A k \in QueueKinds, q \in Queues : k \in L => <<k, q>> \in OfKinds(L)
           /\ \A k \in {"SourceStopped", "OpenSource"}, n \in Sources :
                 k \in L => <<k, n>> \in OfKinds(L)
           /\ \A q \in Queues, b \in BOOLEAN :
                 "SetRunning" \in L => <<"SetRunning", q, b>> \in OfKinds(L)
           /\ \A k \in {"PopQueueHead", "SetDone"}, e \in Edges :
                 k \in L => <<k, e>> \in OfKinds(L)
           /\ \A e \in Edges, i \in Nat :
                 "AddPackets" \in L => <<"AddPackets", e, i>> \in OfKinds(L)
           /\ \A p \in Producers, i \in Nat :
                 "PostProcess" \in L => <<"PostProcess", p, i>> \in OfKinds(L)
           /\ \A k \in {"BoundDone", "CloseManager"}, p \in Producers :
                 k \in L => <<k, p>> \in OfKinds(L)
           /\ \A g \in GraphInputs : "IncClosed" \in L => <<"IncClosed", g>> \in OfKinds(L)
           /\ \A s \in LaterStates : "SetState" \in L => <<"SetState", s>> \in OfKinds(L)
           /\ \A k \in {"Enter", "Idle"}, b \in BOOLEAN : k \in L => <<k, b>> \in OfKinds(L)
           /\ \A i \in 1..Len(AllQueues), b \in BOOLEAN :
                 "CheckIdle" \in L => <<"CheckIdle", i, b>> \in OfKinds(L)
           /\ \A i \in 1..Len(AllNodes), b \in BOOLEAN :
                 "Scan" \in L => <<"Scan", i, b>> \in OfKinds(L)
           /\ \A i \in 1..Len(AllNodes) :
                 "FindUnfinalized" \in L => <<"FindUnfinalized", i>> \in OfKinds(L)
           /\ \A b, c \in BOOLEAN : "Judge" \in L => <<"Judge", b, c>> \in OfKinds(L)
           /\ \A k \in PlainKinds : k \in L => <<k>> \in OfKinds(L)
BY OpsMade DEF OfKinds

LEMMA OfKindsOps ==
    ASSUME NEW L, NEW r \in Seq(OfKinds(L))
    PROVE  /\ r \in Seq(Operations)
           /\ \A op \in Ops(r) : op \in Operations /\ op[1] \in L
<1>1. OfKinds(L) \subseteq Operations
  BY DEF OfKinds
<1>2. Ops(r) \subseteq OfKinds(L)
  BY OpsType
<1>3. r \in Seq(Operations)
  BY <1>1
<1>. QED  BY <1>2, <1>3 DEF OfKinds

LEMMA Wider ==
    ASSUME NEW L, NEW M, L \subseteq M
    PROVE  /\ Seq(OfKinds(L)) \subseteq Seq(OfKinds(M))
           /\ \A t : Puts(t, L) => Puts(t, M)
<1>1. OfKinds(L) \subseteq OfKinds(M)
  BY DEF OfKinds
<1>2. Seq(OfKinds(L)) \subseteq Seq(OfKinds(M))
  BY <1>1
<1>. QED  BY <1>2 DEF Puts

LEMMA NoneKinds ==
    ASSUME NEW L
    PROVE  <<>> \in Seq(OfKinds(L)) /\ \A t : Then(t, <<>>) => Puts(t, L)
<1>1. <<>> \in Seq(OfKinds(L))
  OBVIOUS
<1>. QED  BY <1>1, Zenon DEF Puts

LEMMA AddNodeKinds ==
    ASSUME NEW n \in Nodes, NEW L, "AddNode" \in L
    PROVE  AddNodeOp(n) \in Seq(OfKinds(L))
<1>1. <<"AddNode", n>> \in OfKinds(L)
  BY KindOps DEF NodeKinds
<1>. QED  BY <1>1 DEF AddNodeOp

LEMMA SubmitKinds ==
    ASSUME NEW q \in Queues, NEW L, "Count" \in L, "Send" \in L
    PROVE  SubmitOps(q) \in Seq(OfKinds(L))
<1>1. <<"Count", q>> \in OfKinds(L) /\ <<"Send", q>> \in OfKinds(L)
  BY KindOps DEF QueueKinds
<1>2. << <<"Count", q>>, <<"Send", q>> >> \in Seq(OfKinds(L))
  BY <1>1
<1>. QED  BY <1>2, IfType DEF SubmitOps

LEMMA CloseOutputKinds ==
    ASSUME NEW p \in Producers, NEW L, "BoundDone" \in L, "CloseManager" \in L
    PROVE  CloseOutputOps(p) \in Seq(OfKinds(L))
<1>1. <<"BoundDone", p>> \in OfKinds(L) /\ <<"CloseManager", p>> \in OfKinds(L)
  BY KindOps
<1>. QED  BY <1>1 DEF CloseOutputOps

LEMMA SetDoneKinds ==
    ASSUME NEW p \in Producers, NEW L, "SetDone" \in L
    PROVE  Each("SetDone", Mirrors[p]) \in Seq(OfKinds(L))
<1>1. Mirrors[p] \in Seq(Edges)
  BY GraphAssumption
<1>2. \A e \in Edges : <<"SetDone", e>> \in OfKinds(L)
  BY KindOps
<1>. QED  BY <1>1, <1>2, EachType

\* The producer propagates only to its mirrors.
LEMMA PropagateKinds ==
    ASSUME NEW p \in Producers, NEW k \in Nat,
           NEW T, \A i \in 1..Len(Mirrors[p]) :
                     /\ k > 0 => <<"AddPackets", Mirrors[p][i], k>> \in T
                     /\ p \in outDone => <<"SetDone", Mirrors[p][i]>> \in T
    PROVE  PropagateOps(p, k) \in Seq(T)
<1>. DEFINE add(i) == If(k > 0, << <<"AddPackets", Mirrors[p][i], k>> >>)
            bound(i) == If(p \in outDone, << <<"SetDone", Mirrors[p][i]>> >>)
            q == [i \in 1..Len(Mirrors[p]) |-> add(i) \o bound(i)]
<1>1. Mirrors[p] \in Seq(Edges) /\ Len(Mirrors[p]) \in Nat
  BY GraphAssumption
<1>2. ASSUME NEW i \in 1..Len(Mirrors[p]) PROVE add(i) \o bound(i) \in Seq(T)
  <2>1. add(i) \in Seq(T)
    <3>1. CASE k > 0
      <4>0. <<"AddPackets", Mirrors[p][i], k>> \in T
        BY <3>1, Zenon
      <4>1. << <<"AddPackets", Mirrors[p][i], k>> >> \in Seq(T)
        BY <4>0
      <4>2. add(i) = << <<"AddPackets", Mirrors[p][i], k>> >>
        BY <3>1, Zenon DEF If
      <4>. HIDE DEF add
      <4>. QED  BY <4>1, <4>2, Zenon
    <3>2. CASE ~ (k > 0)
      <4>1. add(i) = <<>>
        BY <3>2, Zenon DEF If
      <4>2. <<>> \in Seq(T)
        OBVIOUS
      <4>. HIDE DEF add
      <4>. QED  BY <4>1, <4>2, Zenon
    <3>. QED  BY <3>1, <3>2, Zenon
  <2>2. bound(i) \in Seq(T)
    <3>1. CASE p \in outDone
      <4>0. <<"SetDone", Mirrors[p][i]>> \in T
        BY <3>1, Zenon
      <4>1. << <<"SetDone", Mirrors[p][i]>> >> \in Seq(T)
        BY <4>0
      <4>2. bound(i) = << <<"SetDone", Mirrors[p][i]>> >>
        BY <3>1, Zenon DEF If
      <4>. HIDE DEF bound
      <4>. QED  BY <4>1, <4>2, Zenon
    <3>2. CASE p \notin outDone
      <4>1. bound(i) = <<>>
        BY <3>2, Zenon DEF If
      <4>2. <<>> \in Seq(T)
        OBVIOUS
      <4>. HIDE DEF bound
      <4>. QED  BY <4>1, <4>2, Zenon
    <3>. QED  BY <3>1, <3>2, Zenon
  <2>. HIDE DEF add, bound
  <2>. QED  BY <2>1, <2>2
<1>3. q \in Seq(Seq(T))
  <2>. HIDE DEF add, bound
  <2>. QED  BY <1>1, <1>2
<1>. HIDE DEF q
<1>4. FlattenSeq(q) \in Seq(T)
  BY <1>3, FlattenType
<1>5. PropagateOps(p, k) = FlattenSeq(q)
  BY DEF PropagateOps, q
<1>. QED  BY <1>4, <1>5

LEMMA QueueMakes ==
    ASSUME AgendaInv, NEW t \in Threads, QueueStep(t)
    PROVE  \E k \in {"AddNode", "Count", "Send", "SetRunning", "SubmitWaiting", "Cleanup"} :
              At(t, k) /\ Puts(t, Submits)
<1>. DEFINE Does(q) == Then(t, <<>>) \/ \E c : Then(t, If(c, SubmitOps(q)))
<1>1. ASSUME NEW q \in Queues, Does(q) PROVE Puts(t, Submits)
  <2>1. \A c : If(c, SubmitOps(q)) \in Seq(OfKinds(Submits))
    BY SubmitKinds, IfType DEF Submits
  <2>2. <<>> \in Seq(OfKinds(Submits))
    OBVIOUS
  <2>. QED  BY <1>1, <2>1, <2>2, Zenon DEF Puts
<1>2. CASE AddNode(t)
  <2>1. At(t, "AddNode") /\ Does(QueueOf[Arg(t, 2)])
    BY <1>2 DEF AddNode
  <2>2. Arg(t, 2) \in Nodes
    BY <2>1, ArgFacts DEF NodeKinds
  <2>3. QueueOf[Arg(t, 2)] \in Queues
    BY <2>2, QueueOfAssumption
  <2>. QED  BY <1>1, <2>1, <2>3
<1>3. CASE SubmitToExecutor(t)
  <2>1. PICK k \in {"Count", "Send"} : At(t, k) /\ Then(t, <<>>)
    BY <1>3 DEF SubmitToExecutor
  <2>. QED  BY <2>1, NoneKinds
<1>4. CASE SetRunning(t)
  <2>1. At(t, "SetRunning") /\ Does(Arg(t, 2))
    BY <1>4 DEF SetRunning
  <2>2. Arg(t, 2) \in Queues
    BY <2>1, ArgFacts
  <2>. QED  BY <1>1, <2>1, <2>2
<1>5. CASE SubmitWaiting(t)
  <2>1. At(t, "SubmitWaiting") /\ Does(Arg(t, 2))
    BY <1>5 DEF SubmitWaiting
  <2>2. Arg(t, 2) \in Queues
    BY <2>1, ArgFacts DEF QueueKinds
  <2>. QED  BY <1>1, <2>1, <2>2
<1>6. CASE Cleanup(t)
  <2>1. At(t, "Cleanup") /\ Then(t, <<>>)
    BY <1>6 DEF Cleanup
  <2>. QED  BY <2>1, NoneKinds
<1>. QED  BY <1>2, <1>3, <1>4, <1>5, <1>6 DEF QueueStep

\* Operations that may go on with AddNode of a node.
LEMMA AddNodeMade ==
    ASSUME NEW t, NEW n \in Nodes, NEW c, Then(t, If(c, AddNodeOp(n)))
    PROVE  Puts(t, {"AddNode"})
<1>1. If(c, AddNodeOp(n)) \in Seq(OfKinds({"AddNode"}))
  BY AddNodeKinds, IfType
<1>. QED  BY <1>1, Zenon DEF Puts

LEMMA StreamMakes ==
    ASSUME AgendaInv, NEW t \in Threads, StreamStep(t)
    PROVE  \/ At(t, "AddPackets") /\ Puts(t, {"AddNode"})
           \/ At(t, "SetDone") /\ Puts(t, {"AddNode"})
           \/ At(t, "PostProcess") /\ Puts(t, {"AddPackets", "SetDone"})
           \/ At(t, "BoundDone") /\ Puts(t, {"SetDone"})
           \/ At(t, "CloseManager") /\ Puts(t, {"SetDone"})
<1>1. CASE AddPackets(t)
  <2>1. At(t, "AddPackets") /\ \E c : Then(t, If(c, AddNodeOp(Consumer[Arg(t, 2)])))
    BY <1>1 DEF AddPackets
  <2>2. Consumer[Arg(t, 2)] \in Nodes
    BY <2>1, ArgFacts, GraphAssumption
  <2>. QED  BY <2>1, <2>2, AddNodeMade
<1>2. CASE SetDone(t)
  <2>1. At(t, "SetDone") /\ \E c : Then(t, If(c, AddNodeOp(Consumer[Arg(t, 2)])))
    BY <1>2 DEF SetDone
  <2>2. Consumer[Arg(t, 2)] \in Nodes
    BY <2>1, ArgFacts, GraphAssumption
  <2>. QED  BY <2>1, <2>2, AddNodeMade
<1>3. CASE PostProcess(t)
  <2>. DEFINE p == Arg(t, 2)
              k == Arg(t, 3)
              T == OfKinds({"AddPackets", "SetDone"})
  <2>1. At(t, "PostProcess") /\ \E c : Then(t, If(c, PropagateOps(p, k)))
    BY <1>3 DEF PostProcess
  <2>2. p \in Producers /\ k \in Nat
    BY <2>1, ArgFacts
  <2>3. \A e \in Edges : <<"AddPackets", e, k>> \in T /\ <<"SetDone", e>> \in T
    BY <2>2, KindOps
  <2>4. Mirrors[p] \in Seq(Edges)
    BY <2>2, GraphAssumption
  <2>5. \A i \in 1..Len(Mirrors[p]) : Mirrors[p][i] \in Edges
    BY <2>4
  <2>. HIDE DEF p, k, T
  <2>6. PropagateOps(p, k) \in Seq(T)
    BY <2>2, <2>3, <2>5, PropagateKinds
  <2>7. \A c : If(c, PropagateOps(p, k)) \in Seq(T)
    BY <2>6, IfType
  <2>. QED  BY <2>1, <2>7, Zenon DEF Puts, T
<1>4. CASE BoundDone(t)
  <2>1. At(t, "BoundDone") /\ Then(t, Each("SetDone", Mirrors[Arg(t, 2)]))
    BY <1>4 DEF BoundDone
  <2>2. Arg(t, 2) \in Producers
    BY <2>1, ArgFacts
  <2>3. Each("SetDone", Mirrors[Arg(t, 2)]) \in Seq(OfKinds({"SetDone"}))
    BY <2>2, SetDoneKinds
  <2>. QED  BY <2>1, <2>3, Zenon DEF Puts
<1>5. CASE CloseManager(t)
  <2>1. At(t, "CloseManager") /\ \E c : Then(t, If(c, Each("SetDone", Mirrors[Arg(t, 2)])))
    BY <1>5 DEF CloseManager
  <2>2. Arg(t, 2) \in Producers
    BY <2>1, ArgFacts
  <2>3. \A c : If(c, Each("SetDone", Mirrors[Arg(t, 2)])) \in Seq(OfKinds({"SetDone"}))
    BY <2>2, SetDoneKinds, IfType
  <2>. QED  BY <2>1, <2>3, Zenon DEF Puts
<1>. QED  BY <1>1, <1>2, <1>3, <1>4, <1>5 DEF StreamStep

\* What HandleIdle goes on with.
IdleKinds == {"Begin", "CheckIdle", "Idle", "Scan", "FindUnfinalized", "Judge", "Leave",
              "Cleanup", "Terminate", "DrainNode", "CloseNode", "AddNode"}

LEMMA IdleOps ==
    /\ LeaveOp \in Seq(OfKinds(IdleKinds))
    /\ << <<"Terminate">> >> \in Seq(OfKinds(IdleKinds))
    /\ \A r \in Seq(OfKinds(IdleKinds)) : r \o LeaveOp \in Seq(OfKinds(IdleKinds))
    /\ \A k \in {"DrainNode", "CloseNode"} : Each(k, AllNodes) \in Seq(OfKinds(IdleKinds))
    /\ Each("Cleanup", AllQueues) \in Seq(OfKinds(IdleKinds))
    /\ \A R : EachIn("AddNode", AllNodes, R) \in Seq(OfKinds(IdleKinds))
<1>1. <<"Leave">> \in OfKinds(IdleKinds) /\ <<"Terminate">> \in OfKinds(IdleKinds)
  BY KindOps DEF IdleKinds, PlainKinds
<1>2. LeaveOp \in Seq(OfKinds(IdleKinds)) /\ << <<"Terminate">> >> \in Seq(OfKinds(IdleKinds))
  BY <1>1 DEF LeaveOp
<1>3. AllNodes \in Seq(Nodes) /\ AllQueues \in Seq(Queues)
  BY GraphAssumption
<1>4. \A k \in {"DrainNode", "CloseNode", "AddNode"} :
         \A n \in Nodes : <<k, n>> \in OfKinds(IdleKinds)
  BY KindOps DEF IdleKinds, NodeKinds
<1>5. \A q \in Queues : <<"Cleanup", q>> \in OfKinds(IdleKinds)
  BY KindOps DEF IdleKinds, QueueKinds
<1>6. \A k \in {"DrainNode", "CloseNode"} : Each(k, AllNodes) \in Seq(OfKinds(IdleKinds))
  BY <1>3, <1>4, EachType
<1>7. Each("Cleanup", AllQueues) \in Seq(OfKinds(IdleKinds))
  BY <1>3, <1>5, EachType
<1>8. \A R : EachIn("AddNode", AllNodes, R) \in Seq(OfKinds(IdleKinds))
  BY <1>3, <1>4, EachInType
<1>9. \A r \in Seq(OfKinds(IdleKinds)) : r \o LeaveOp \in Seq(OfKinds(IdleKinds))
  BY <1>2, Joined
<1>. QED  BY <1>2, <1>6, <1>7, <1>8, <1>9

\* The operations of HandleIdle, the thread's next one of kind k.
IdleAt == Inside \cup {"Enter", "DrainNode", "CloseNode", "Terminate"}

LEMMA IdleMakes ==
    ASSUME AgendaInv, NEW t \in Threads, IdleStep(t)
    PROVE  \E k \in IdleAt : At(t, k) /\ Puts(t, IdleKinds)
<1>0. ASSUME NEW k, k \in IdleAt, At(t, k), NEW r \in Seq(OfKinds(IdleKinds)), Then(t, r)
      PROVE  \E l \in IdleAt : At(t, l) /\ Puts(t, IdleKinds)
  BY <1>0, Zenon DEF Puts
<1>. USE DEF IdleAt, Inside
<1>1. CASE Enter(t)
  <2>. DEFINE r == IF handlingIdle > 0 THEN LeaveOp ELSE << <<"Begin">> >>
  <2>1. At(t, "Enter") /\ Then(t, r)
    BY <1>1 DEF Enter
  <2>2. <<"Begin">> \in OfKinds(IdleKinds)
    BY KindOps DEF IdleKinds, PlainKinds
  <2>3. << <<"Begin">> >> \in Seq(OfKinds(IdleKinds))
    BY <2>2
  <2>4. r \in Seq(OfKinds(IdleKinds))
    BY <2>3, IdleOps
  <2>. HIDE DEF r
  <2>. QED  BY <1>0, <2>1, <2>4
<1>2. CASE Leave(t)
  <2>1. At(t, "Leave") /\ Then(t, <<>>)
    BY <1>2 DEF Leave
  <2>. QED  BY <1>0, <2>1, NoneKinds
<1>3. CASE Begin(t)
  <2>. DEFINE q == Each("Cleanup", AllQueues) \o << <<"Terminate">> >> \o LeaveOp
              c == << <<"CheckIdle", 1, InputsRemaining>> >>
              r == IF state = "Cancelling" /\ hasError THEN q ELSE c
  <2>1. At(t, "Begin") /\ Then(t, r)
    BY <1>3 DEF Begin
  <2>2. q \in Seq(OfKinds(IdleKinds))
    BY IdleOps, Joined
  <2>3. <<"CheckIdle", 1, InputsRemaining>> \in OfKinds(IdleKinds)
    BY NotEmptyGraph, KindOps DEF InputsRemaining, IdleKinds
  <2>4. c \in Seq(OfKinds(IdleKinds))
    BY <2>3
  <2>. HIDE DEF q, c
  <2>5. r \in Seq(OfKinds(IdleKinds))
    BY <2>2, <2>4
  <2>. HIDE DEF r
  <2>. QED  BY <1>0, <2>1, <2>5
<1>4. CASE CheckIdle(t)
  <2>1. PICK i \in 1..Len(AllQueues), rem \in BOOLEAN : i = Arg(t, 2) /\ rem = Arg(t, 3)
    BY <1>4, ArgFacts DEF CheckIdle
  <2>. DEFINE c == << <<"CheckIdle", i + 1, rem>> >>
              d == << <<"Idle", rem>> >>
              r == IF ~ IsIdle(AllQueues[i]) THEN LeaveOp
                   ELSE IF i < Len(AllQueues) THEN c ELSE d
  <2>2. At(t, "CheckIdle") /\ Then(t, r)
    BY <1>4, <2>1 DEF CheckIdle
  <2>3. ASSUME i < Len(AllQueues) PROVE c \in Seq(OfKinds(IdleKinds))
    <3>1. i + 1 \in 1..Len(AllQueues)
      BY <2>3, NotEmptyGraph
    <3>2. <<"CheckIdle", i + 1, rem>> \in OfKinds(IdleKinds)
      BY <3>1, KindOps DEF IdleKinds
    <3>. QED  BY <3>2
  <2>4. <<"Idle", rem>> \in OfKinds(IdleKinds)
    BY KindOps DEF IdleKinds
  <2>5. d \in Seq(OfKinds(IdleKinds))
    BY <2>4
  <2>. HIDE DEF c, d
  <2>6. r \in Seq(OfKinds(IdleKinds))
    BY <2>3, <2>5, IdleOps
  <2>. HIDE DEF r
  <2>. QED  BY <1>0, <2>2, <2>6
<1>5. CASE Idle(t)
  <2>1. PICK rem \in BOOLEAN : rem = Arg(t, 2)
    BY <1>5, ArgFacts DEF Idle
  <2>. DEFINE noMore == activeSources' = {}
              s == << <<"Scan", 1, FALSE>> >>
              j == << <<"Judge", noMore, rem>> >>
  <2>2. <<"Scan", 1, FALSE>> \in OfKinds(IdleKinds) /\ <<"Judge", noMore, rem>> \in OfKinds(IdleKinds)
    BY NotEmptyGraph, KindOps DEF IdleKinds
  <2>3. s \in Seq(OfKinds(IdleKinds)) /\ j \in Seq(OfKinds(IdleKinds))
    BY <2>2
  <2>. HIDE DEF s, j
  <2>4. Then(t, LeaveOp) \/ Then(t, s) \/ Then(t, j)
    BY <1>5, <2>1 DEF Idle, s, j
  <2>5. At(t, "Idle")
    BY <1>5 DEF Idle
  <2>. QED  BY <1>0, <2>3, <2>4, <2>5, IdleOps
<1>6. CASE Scan(t)
  <2>1. PICK i \in 1..Len(AllNodes), b \in BOOLEAN : i = Arg(t, 2) /\ b = Arg(t, 3)
    BY <1>6, ArgFacts DEF Scan
  <2>. DEFINE nonempty == b \/ HasPendingInput(AllNodes[i])
              s == << <<"Scan", i + 1, nonempty>> >>
              d == Each("DrainNode", AllNodes) \o LeaveOp
              f == << <<"FindUnfinalized", 1>> >>
              r == IF i < Len(AllNodes) THEN s ELSE IF nonempty THEN d ELSE f
  <2>2. At(t, "Scan") /\ Then(t, r)
    BY <1>6, <2>1 DEF Scan
  <2>3. ASSUME i < Len(AllNodes) PROVE s \in Seq(OfKinds(IdleKinds))
    <3>1. i + 1 \in 1..Len(AllNodes)
      BY <2>3, NotEmptyGraph
    <3>2. nonempty \in BOOLEAN
      BY DEF HasPendingInput
    <3>. HIDE DEF nonempty
    <3>3. <<"Scan", i + 1, nonempty>> \in OfKinds(IdleKinds)
      BY <3>1, <3>2, KindOps DEF IdleKinds
    <3>. QED  BY <3>3
  <2>4. d \in Seq(OfKinds(IdleKinds))
    BY IdleOps
  <2>5. <<"FindUnfinalized", 1>> \in OfKinds(IdleKinds)
    BY NotEmptyGraph, KindOps DEF IdleKinds
  <2>6. f \in Seq(OfKinds(IdleKinds))
    BY <2>5
  <2>. HIDE DEF s, d, f, nonempty
  <2>7. r \in Seq(OfKinds(IdleKinds))
    BY <2>3, <2>4, <2>6
  <2>. HIDE DEF r
  <2>. QED  BY <1>0, <2>2, <2>7
<1>7. CASE DrainNode(t)
  <2>1. At(t, "DrainNode") /\ \E c : Then(t, If(c, AddNodeOp(Arg(t, 2))))
    BY <1>7 DEF DrainNode
  <2>2. Arg(t, 2) \in Nodes
    BY <2>1, ArgFacts DEF NodeKinds
  <2>3. \A c : If(c, AddNodeOp(Arg(t, 2))) \in Seq(OfKinds(IdleKinds))
    BY <2>2, AddNodeKinds, IfType DEF IdleKinds
  <2>. QED  BY <1>0, <2>1, <2>3
<1>8. CASE FindUnfinalized(t)
  <2>1. PICK i \in 1..Len(AllNodes) : i = Arg(t, 2)
    BY <1>8, ArgFacts DEF FindUnfinalized
  <2>2. PICK n \in Nodes : n = AllNodes[i]
    BY NotEmptyGraph
  <2>. DEFINE found == AllInputsDone(n) /\ n \notin finalized
              s == AddNodeOp(n) \o LeaveOp
              f == << <<"FindUnfinalized", i + 1>> >>
              j == << <<"Judge", TRUE, FALSE>> >>
              r == IF found THEN s ELSE IF i < Len(AllNodes) THEN f ELSE j
  <2>3. At(t, "FindUnfinalized") /\ Then(t, r)
    BY <1>8, <2>1, <2>2 DEF FindUnfinalized
  <2>4. s \in Seq(OfKinds(IdleKinds))
    BY AddNodeKinds, IdleOps DEF IdleKinds
  <2>5. ASSUME i < Len(AllNodes) PROVE f \in Seq(OfKinds(IdleKinds))
    <3>1. i + 1 \in 1..Len(AllNodes)
      BY <2>5, NotEmptyGraph
    <3>2. <<"FindUnfinalized", i + 1>> \in OfKinds(IdleKinds)
      BY <3>1, KindOps DEF IdleKinds
    <3>. QED  BY <3>2
  <2>6. <<"Judge", TRUE, FALSE>> \in OfKinds(IdleKinds)
    BY KindOps DEF IdleKinds
  <2>7. j \in Seq(OfKinds(IdleKinds))
    BY <2>6
  <2>. HIDE DEF s, f, j, found
  <2>8. r \in Seq(OfKinds(IdleKinds))
    BY <2>4, <2>5, <2>7
  <2>. HIDE DEF r
  <2>. QED  BY <1>0, <2>3, <2>8
<1>9. CASE Judge(t)
  <2>. DEFINE c == Each("CloseNode", AllNodes) \o << <<"Terminate">> >> \o LeaveOp
              s == EachIn("AddNode", AllNodes, activeSources) \o LeaveOp
  <2>1. c \in Seq(OfKinds(IdleKinds)) /\ s \in Seq(OfKinds(IdleKinds))
    BY IdleOps, Joined
  <2>. HIDE DEF c, s
  <2>2. At(t, "Judge") /\ (Then(t, c) \/ Then(t, s))
    BY <1>9 DEF Judge, c, s
  <2>. QED  BY <1>0, <2>1, <2>2
<1>10. CASE CloseNode(t)
  <2>1. At(t, "CloseNode") /\ Then(t, <<>>)
    BY <1>10 DEF CloseNode
  <2>. QED  BY <1>0, <2>1, NoneKinds
<1>11. CASE Terminate(t)
  <2>1. At(t, "Terminate") /\ Then(t, <<>>)
    BY <1>11 DEF Terminate
  <2>. QED  BY <1>0, <2>1, NoneKinds
<1>. HIDE DEF IdleAt, Inside
<1>. QED  BY <1>1, <1>2, <1>3, <1>4, <1>5, <1>6, <1>7, <1>8, <1>9, <1>10, <1>11 DEF IdleStep

LEMMA WorkerMakes ==
    ASSUME AgendaInv, NEW w \in Workers,
           \/ PopQueueHead(w) \/ Decrement(w) \/ Reschedule(w) \/ SafetyNet(w)
           \/ SourceStopped(w) \/ ErrorCallback(w)
    PROVE  \/ \E k \in {"PopQueueHead", "Decrement", "SourceStopped", "ErrorCallback"} :
                 At(w, k) /\ Then(w, <<>>) /\ Puts(w, {})
           \/ \E k \in {"Reschedule", "SafetyNet"} : At(w, k) /\ Puts(w, {"AddNode"})
<1>. w \in Threads
  BY DEF Threads
<1>1. CASE PopQueueHead(w) \/ Decrement(w) \/ SourceStopped(w) \/ ErrorCallback(w)
  <2>1. \E k \in {"PopQueueHead", "Decrement", "SourceStopped", "ErrorCallback"} :
           At(w, k) /\ Then(w, <<>>)
    BY <1>1 DEF PopQueueHead, Decrement, SourceStopped, ErrorCallback
  <2>2. Then(w, <<>>) => Puts(w, {})
    BY NoneKinds
  <2>. QED  BY <2>1, <2>2
<1>2. CASE Reschedule(w) \/ SafetyNet(w)
  <2>1. \E k \in {"Reschedule", "SafetyNet"} :
           At(w, k) /\ \E c : Then(w, If(c, AddNodeOp(Arg(w, 2))))
    BY <1>2 DEF Reschedule, SafetyNet
  <2>2. Arg(w, 2) \in Nodes
    BY <2>1, ArgFacts DEF NodeKinds
  <2>. QED  BY <2>1, <2>2, AddNodeMade
<1>. QED  BY <1>1, <1>2

LEMMA FinishedMakes ==
    ASSUME AgendaInv, NEW w \in Workers, OnTaskFinished(w)
    PROVE  \E k \in {"Finished", "NoItem"} : At(w, k) /\ Puts(w, {"Count", "Send", "Enter"})
<1>. DEFINE T == OfKinds({"Count", "Send", "Enter"})
            q == WorkerQueue[w]
<1>1. q \in Queues
  BY ThreadsAssumption
<1>2. <<"Enter", TRUE>> \in T
  BY KindOps
<1>3. IdleCallbackOps \in Seq(T)
  BY <1>2 DEF IdleCallbackOps
<1>4. \A c : If(c, SubmitOps(q)) \in Seq(T)
  BY <1>1, SubmitKinds, IfType
<1>. HIDE DEF T
<1>5. \A c : If(c, SubmitOps(q)) \o IdleCallbackOps \in Seq(T)
  BY <1>3, <1>4, Joined
<1>6. \/ At(w, "Finished") /\ \E c : Then(w, If(c, SubmitOps(q)) \o IdleCallbackOps)
      \/ At(w, "NoItem") /\ Then(w, IdleCallbackOps)
  BY DEF OnTaskFinished
<1>. QED  BY <1>3, <1>5, <1>6, Zenon DEF Puts, T

LEMMA NoneAfterJoined ==
    ASSUME NEW T, NEW r \in Seq(T), NEW s \in Seq(T), NEW K, NEW L,
           NoneAfter(r, K, L), NoneAfter(s, K, L), ~ HasIn(r, K) \/ ~ HasIn(s, L)
    PROVE  NoneAfter(r \o s, K, L)
<1>1. /\ Len(r) \in Nat /\ Len(s) \in Nat /\ Len(r \o s) = Len(r) + Len(s)
      /\ \A i \in 1..Len(r) : (r \o s)[i] = r[i]
      /\ \A i \in (Len(r) + 1)..(Len(r) + Len(s)) : (r \o s)[i] = s[i - Len(r)]
  BY ConcatProperties
<1>. DEFINE q == r \o s
<1>. HIDE DEF q
<1>2. /\ Len(q) = Len(r) + Len(s)
      /\ \A i \in 1..Len(r) : q[i] = r[i]
      /\ \A i \in (Len(r) + 1)..(Len(r) + Len(s)) : q[i] = s[i - Len(r)]
  BY <1>1 DEF q
<1>3. ASSUME NEW i \in 1..Len(q), NEW j \in 1..Len(q), i < j, q[i][1] \in K, q[j][1] \in L
      PROVE  FALSE
  <2>1. CASE j <= Len(r)
    <3>1. i \in 1..Len(r) /\ j \in 1..Len(r)
      BY <1>1, <1>3, <2>1
    <3>. QED  BY <1>2, <1>3, <3>1 DEF NoneAfter
  <2>2. CASE i > Len(r)
    <3>1. /\ i \in (Len(r) + 1)..(Len(r) + Len(s)) /\ j \in (Len(r) + 1)..(Len(r) + Len(s))
          /\ i - Len(r) \in 1..Len(s) /\ j - Len(r) \in 1..Len(s) /\ i - Len(r) < j - Len(r)
      BY <1>1, <1>2, <1>3, <2>2
    <3>. QED  BY <1>2, <1>3, <3>1 DEF NoneAfter
  <2>3. CASE i <= Len(r) /\ j > Len(r)
    <3>1. /\ i \in 1..Len(r) /\ j \in (Len(r) + 1)..(Len(r) + Len(s))
          /\ j - Len(r) \in 1..Len(s)
      BY <1>1, <1>2, <1>3, <2>3
    <3>2. HasIn(r, K) /\ HasIn(s, L)
      BY <1>2, <1>3, <3>1 DEF HasIn
    <3>. QED  BY <3>2
  <2>. QED  BY <1>1, <2>1, <2>2, <2>3
<1>. QED  BY <1>3 DEF NoneAfter, q

\* DecrementPending, then Reschedule, with what comes between and after.
LEMMA DecrementFirst ==
    ASSUME NEW L, NEW M, "Reschedule" \notin L, "Decrement" \notin M,
           NEW x \in Seq(OfKinds(L)), NEW y \in Seq(OfKinds(M))
    PROVE  /\ x \o y \in Seq(OfKinds(L \cup M))
           /\ Ops(x \o y) = Ops(x) \cup Ops(y)
           /\ NoneAfter(x \o y, {"Reschedule"}, {"Decrement"})
<1>1. x \in Seq(OfKinds(L \cup M)) /\ y \in Seq(OfKinds(L \cup M))
  BY Wider
<1>2. ~ HasIn(x, {"Reschedule"}) /\ ~ HasIn(y, {"Decrement"})
  BY OfKindsOps, HasOps
<1>. HIDE DEF OfKinds
<1>3. NoneAfter(x \o y, {"Reschedule"}, {"Decrement"})
  BY <1>1, <1>2, NoneAfterNone, NoneAfterJoined
<1>. QED  BY <1>1, <1>3, OpsJoined, Joined

ProcessKinds == {"PostProcess", "Finalize", "BoundDone", "CloseManager", "Decrement",
                 "ErrorCallback", "SourceStopped", "Reschedule", "Enter"}

\* What RunNode goes on with after Process.
LEMMA ProcessMakes ==
    ASSUME AgendaInv, NEW w \in Workers, Process(w)
    PROVE  LET n == cur[w] IN
           /\ At(w, "Process") /\ Arg(w, 2) = n /\ n \in Nodes
           /\ Head(agenda[w]) = <<"Process", n>>
           /\ \E r \in Seq(OfKinds(ProcessKinds)) :
                 /\ Then(w, r)
                 /\ NoneAfter(r, {"Reschedule"}, {"Decrement"})
                 /\ \A m : <<"Decrement", m>> \in Ops(r) => m = n
                 /\ \/ /\ <<"Finalize", n>> \in Ops(r)
                       /\ \A op \in Ops(r) : op[1] # "Decrement"
                    \/ n \in failed'
                    \/ n \in Consumers => <<"Reschedule", n>> \in Ops(r)
<1>0. w \in Threads
  BY DEF Threads
<1>. DEFINE n == cur[w]
<1>1. At(w, "Process") /\ Arg(w, 2) = n /\ n \in Nodes
  BY RunsCur DEF Process, Runs
<1>2. Head(agenda[w]) = <<"Process", n>>
  <2>1. Head(agenda[w]) \in Operations /\ Head(agenda[w])[1] = "Process"
    BY <1>0, <1>1, AtFacts
  <2>2. Head(agenda[w]) = <<Head(agenda[w])[1], Head(agenda[w])[2]>>
    BY <2>1, NodeOp DEF NodeKinds
  <2>. QED  BY <1>1, <2>1, <2>2 DEF Arg
<1>. HIDE DEF n
<1>3. /\ n \in Producers
      /\ \A m \in {"Decrement", "Finalize", "ErrorCallback", "Reschedule"} :
            \A L : m \in L => <<m, n>> \in OfKinds(L)
      /\ \A L : \A k \in Nat : "PostProcess" \in L => <<"PostProcess", n, k>> \in OfKinds(L)
  BY <1>1, KindOps DEF Producers, NodeKinds
<1>4. CASE ProcessOk(w)
  <2>1. PICK k \in Nat : k = Emitted(w, n)
    BY DEF Emitted
  <2>. DEFINE L == {"PostProcess", "Finalize"}
              x == <<"PostProcess", n, k>>
              y == <<"Finalize", n>>
              r == <<x, y>>
  <2>2. Then(w, r)
    BY <1>1, <1>4, <2>1 DEF ProcessOk
  <2>3. x \in OfKinds(L) /\ y \in OfKinds(L)
    BY <1>3
  <2>. HIDE DEF x, y
  <2>4. r \in Seq(OfKinds(L)) /\ Ops(r) = {x, y}
    BY <2>3 DEF Ops
  <2>5. \A op \in Ops(r) : op[1] \in L
    BY <2>4, OfKindsOps
  <2>6. ~ HasIn(r, {"Decrement"})
    BY <2>5, HasOps
  <2>7. r \in Seq(OfKinds(ProcessKinds))
    <3>1. L \subseteq ProcessKinds
      BY DEF ProcessKinds
    <3>. HIDE DEF L, r
    <3>. QED  BY <2>4, <3>1, Wider
  <2>8. NoneAfter(r, {"Reschedule"}, {"Decrement"})
    BY <2>6, NoneAfterNone
  <2>9. \A m : <<"Decrement", m>>[1] = "Decrement"
    OBVIOUS
  <2>. HIDE DEF r
  <2>10. \A m : <<"Decrement", m>> \notin Ops(r)
    BY <2>5, <2>9
  <2>. QED  BY <1>1, <1>2, <2>2, <2>4, <2>5, <2>7, <2>8, <2>10 DEF n, y
<1>5. CASE ProcessError(w)
  <2>1. PICK k \in Nat :
           Then(w, << <<"PostProcess", n, k>>, <<"Decrement", n>>, <<"ErrorCallback", n>> >>)
    BY <1>1, <1>5 DEF ProcessError
  <2>2. n \in failed'
    BY <1>1, <1>5 DEF ProcessError
  <2>. DEFINE L == {"PostProcess", "Decrement", "ErrorCallback"}
              x == <<"PostProcess", n, k>>
              y == <<"Decrement", n>>
              z == <<"ErrorCallback", n>>
              r == <<x, y, z>>
  <2>3. x \in OfKinds(L) /\ y \in OfKinds(L) /\ z \in OfKinds(L)
    BY <1>3
  <2>4. \A m : <<"Decrement", m>> \in {x, y, z} => m = n
    OBVIOUS
  <2>5. Then(w, r)
    BY <2>1
  <2>. HIDE DEF x, y, z
  <2>6. r \in Seq(OfKinds(L)) /\ Ops(r) = {x, y, z}
    BY <2>3 DEF Ops
  <2>7. ~ HasIn(r, {"Reschedule"})
    <3>1. \A op \in Ops(r) : op[1] \in L
      BY <2>6, OfKindsOps
    <3>. QED  BY <3>1, HasOps
  <2>8. r \in Seq(OfKinds(ProcessKinds))
    <3>1. L \subseteq ProcessKinds
      BY DEF ProcessKinds
    <3>. HIDE DEF L, r
    <3>. QED  BY <2>6, <3>1, Wider
  <2>9. NoneAfter(r, {"Reschedule"}, {"Decrement"})
    BY <2>7, NoneAfterNone
  <2>. HIDE DEF r
  <2>10. \A m : <<"Decrement", m>> \in Ops(r) => m = n
    BY <2>4, <2>6
  <2>. QED  BY <1>1, <1>2, <2>2, <2>5, <2>8, <2>9, <2>10 DEF n
<1>6. CASE ProcessStop(w)
  <2>. DEFINE L == {"PostProcess", "BoundDone", "CloseManager", "Decrement"}
              M == {"SourceStopped", "Reschedule", "Enter"}
              a == << <<"PostProcess", n, 0>> >>
              c == CloseOutputOps(n)
              d == <<"Decrement", n>>
              e == IF n \in Sources THEN << <<"SourceStopped", n>> >>
                   ELSE << <<"Reschedule", n>> >>
              f == << <<"Enter", TRUE>> >>
              x == a \o c \o <<d>>
              y == e \o f
  <2>1. Then(w, ((x \o e) \o f))
    BY <1>1, <1>6 DEF ProcessStop, IdleCallbackOps
  <2>2. /\ <<"PostProcess", n, 0>> \in OfKinds(L) /\ d \in OfKinds(L)
        /\ n \in Sources => <<"SourceStopped", n>> \in OfKinds(M)
        /\ <<"Reschedule", n>> \in OfKinds(M)
        /\ <<"Enter", TRUE>> \in OfKinds(M)
    BY <1>1, <1>3, KindOps
  <2>3. /\ a \in Seq(OfKinds(L)) /\ <<d>> \in Seq(OfKinds(L)) /\ f \in Seq(OfKinds(M))
        /\ n \in Sources => << <<"SourceStopped", n>> >> \in Seq(OfKinds(M))
        /\ << <<"Reschedule", n>> >> \in Seq(OfKinds(M))
    BY <2>2
  <2>4. c \in Seq(OfKinds(L))
    BY <1>3, CloseOutputKinds
  <2>5. e \in Seq(OfKinds(M))
    BY <2>3
  <2>6. n \in Consumers => e = << <<"Reschedule", n>> >>
    BY DEF Consumers
  <2>7. n \in Consumers => <<"Reschedule", n>> \in Ops(e)
    BY <2>6, OpsOne
  <2>8. Ops(a) = {<<"PostProcess", n, 0>>} /\ Ops(<<d>>) = {d}
    BY OpsOne
  <2>9. Ops(c) = {<<"BoundDone", n>>, <<"CloseManager", n>>}
    BY DEF CloseOutputOps, Ops
  <2>10. \A m : <<"Decrement", m>> \in Ops(a) \cup Ops(c) \cup Ops(<<d>>) => m = n
    BY <2>8, <2>9
  <2>. HIDE DEF L, M, a, c, d, e, f
  <2>11. a \o c \in Seq(OfKinds(L)) /\ Ops(a \o c) = Ops(a) \cup Ops(c)
    BY <2>3, <2>4, Joined, OpsJoined
  <2>12. x \in Seq(OfKinds(L)) /\ Ops(x) = Ops(a) \cup Ops(c) \cup Ops(<<d>>)
    <3>. DEFINE u == a \o c
    <3>1. u \in Seq(OfKinds(L)) /\ Ops(u) = Ops(a) \cup Ops(c)
      BY <2>11
    <3>. HIDE DEF u
    <3>2. u \o <<d>> \in Seq(OfKinds(L)) /\ Ops(u \o <<d>>) = Ops(u) \cup Ops(<<d>>)
      BY <2>3, <3>1, Joined, OpsJoined
    <3>. QED  BY <3>1, <3>2 DEF u
  <2>13. y \in Seq(OfKinds(M)) /\ Ops(y) = Ops(e) \cup Ops(f)
    BY <2>3, <2>5, Joined, OpsJoined
  <2>14. (x \o e) \o f = x \o y
    <3>1. x \in Seq(Operations) /\ e \in Seq(Operations) /\ f \in Seq(Operations)
      BY <2>3, <2>5, <2>12, OfKindsOps
    <3>. HIDE DEF x
    <3>. QED  BY <3>1, Assoc
  <2>. HIDE DEF x, y
  <2>15. "Reschedule" \notin L /\ "Decrement" \notin M /\ L \cup M \subseteq ProcessKinds
    BY DEF L, M, ProcessKinds
  <2>16. /\ x \o y \in Seq(OfKinds(L \cup M))
         /\ Ops(x \o y) = Ops(x) \cup Ops(y)
         /\ NoneAfter(x \o y, {"Reschedule"}, {"Decrement"})
    BY <2>12, <2>13, <2>15, DecrementFirst
  <2>17. \A m : <<"Decrement", m>> \notin Ops(y)
    <3>1. \A op \in Ops(y) : op[1] # "Decrement"
      BY <2>13, <2>15, OfKindsOps
    <3>. QED  BY <3>1
  <2>. DEFINE r == x \o y
  <2>18. r \in Seq(OfKinds(ProcessKinds)) /\ Then(w, r)
    BY <2>1, <2>14, <2>15, <2>16, Wider
  <2>19. /\ \A m : <<"Decrement", m>> \in Ops(r) => m = n
         /\ n \in Consumers => <<"Reschedule", n>> \in Ops(r)
    BY <2>7, <2>10, <2>12, <2>13, <2>16, <2>17
  <2>20. NoneAfter(r, {"Reschedule"}, {"Decrement"})
    BY <2>16
  <2>. HIDE DEF r
  <2>. QED  BY <1>1, <1>2, <2>18, <2>19, <2>20 DEF n
<1>. QED  BY <1>4, <1>5, <1>6 DEF Process

FinalizeKinds == {"Decrement", "BoundDone", "CloseManager", "AddNode", "Reschedule", "SafetyNet"}

\* What RunNode goes on with after it decided how to finalize.
LEMMA FinalizeMakes ==
    ASSUME AgendaInv, NEW w \in Workers, Finalize(w)
    PROVE  LET n == cur[w] IN
           /\ At(w, "Finalize") /\ Arg(w, 2) = n /\ n \in Nodes
           /\ Head(agenda[w]) = <<"Finalize", n>>
           /\ \E r \in Seq(OfKinds(FinalizeKinds)) :
                 /\ Then(w, r)
                 /\ NoneAfter(r, {"Reschedule"}, {"Decrement"})
                 /\ \A m : <<"Decrement", m>> \in Ops(r) => m = n
                 /\ n \in Consumers => <<"Reschedule", n>> \in Ops(r)
<1>0. w \in Threads
  BY DEF Threads
<1>. DEFINE n == cur[w]
<1>1. At(w, "Finalize") /\ Arg(w, 2) = n /\ n \in Nodes
  BY RunsCur DEF Finalize, Runs
<1>2. Head(agenda[w]) = <<"Finalize", n>>
  <2>1. Head(agenda[w]) \in Operations /\ Head(agenda[w])[1] = "Finalize"
    BY <1>0, <1>1, AtFacts
  <2>2. Head(agenda[w]) = <<Head(agenda[w])[1], Head(agenda[w])[2]>>
    BY <2>1, NodeOp DEF NodeKinds
  <2>. QED  BY <1>1, <2>1, <2>2 DEF Arg
<1>3. PICK action \in {"None", "Schedule", "Close"} : Then(w, AfterFinalize(n, action))
  BY <1>1 DEF Finalize
<1>. HIDE DEF n
<1>. DEFINE L == {"Decrement", "BoundDone", "CloseManager", "AddNode"}
            M == {"Reschedule", "SafetyNet", "AddNode"}
            d == <<"Decrement", n>>
            c == CASE action = "Close"    -> CloseOutputOps(n)
                   [] action = "Schedule" -> AddNodeOp(n)
                   [] action = "None"     -> <<>>
            e == IF n \in Sources THEN AddNodeOp(n) ELSE << <<"Reschedule", n>> >>
            g == If(n \notin Sources /\ action # "Schedule", << <<"SafetyNet", n>> >>)
            x == <<d>> \o c
            y == e \o g
<1>4. AfterFinalize(n, action) = (x \o e) \o g
  BY DEF AfterFinalize
<1>5. n \in Producers
  BY <1>1 DEF Producers
<1>6. /\ d \in OfKinds(L)
      /\ <<"Reschedule", n>> \in OfKinds(M) /\ <<"SafetyNet", n>> \in OfKinds(M)
  BY <1>1, KindOps DEF NodeKinds
<1>7. /\ <<d>> \in Seq(OfKinds(L))
      /\ << <<"Reschedule", n>> >> \in Seq(OfKinds(M))
      /\ << <<"SafetyNet", n>> >> \in Seq(OfKinds(M))
  BY <1>6
<1>8. /\ CloseOutputOps(n) \in Seq(OfKinds(L)) /\ <<>> \in Seq(OfKinds(L))
      /\ AddNodeOp(n) \in Seq(OfKinds(L)) /\ AddNodeOp(n) \in Seq(OfKinds(M))
  BY <1>1, <1>5, CloseOutputKinds, AddNodeKinds, NoneKinds
<1>9. c \in Seq(OfKinds(L)) /\ e \in Seq(OfKinds(M))
  BY <1>7, <1>8
<1>10. g \in Seq(OfKinds(M))
  BY <1>7, IfType
<1>11. n \in Consumers => <<"Reschedule", n>> \in Ops(e)
  <2>1. n \in Consumers => e = << <<"Reschedule", n>> >>
    BY DEF Consumers
  <2>. QED  BY <2>1, OpsOne
<1>12. \A m : <<"Decrement", m>> \in Ops(<<d>>) \cup Ops(c) => m = n
  <2>1. /\ Ops(<<d>>) = {d} /\ Ops(AddNodeOp(n)) = {<<"AddNode", n>>} /\ Ops(<<>>) = {}
    BY OpsOne, OpsEmpty DEF AddNodeOp
  <2>2. Ops(CloseOutputOps(n)) = {<<"BoundDone", n>>, <<"CloseManager", n>>}
    BY DEF CloseOutputOps, Ops
  <2>3. \A m : <<"Decrement", m>> \notin Ops(c)
    <3>1. c = CloseOutputOps(n) \/ c = AddNodeOp(n) \/ c = <<>>
      OBVIOUS
    <3>. HIDE DEF c
    <3>. QED  BY <2>1, <2>2, <3>1
  <2>. HIDE DEF c
  <2>. QED  BY <2>1, <2>3
<1>. HIDE DEF d, c, e, g
<1>13. x \in Seq(OfKinds(L)) /\ Ops(x) = Ops(<<d>>) \cup Ops(c)
  <2>. HIDE DEF L
  <2>. QED  BY <1>7, <1>9, Joined, OpsJoined
<1>14. y \in Seq(OfKinds(M)) /\ Ops(y) = Ops(e) \cup Ops(g)
  <2>. HIDE DEF M
  <2>. QED  BY <1>9, <1>10, Joined, OpsJoined
<1>15. (x \o e) \o g = x \o y
  <2>1. x \in Seq(Operations) /\ e \in Seq(Operations) /\ g \in Seq(Operations)
    BY <1>9, <1>10, <1>13, OfKindsOps
  <2>. HIDE DEF x
  <2>. QED  BY <2>1, Assoc
<1>16. "Reschedule" \notin L /\ "Decrement" \notin M /\ L \cup M \subseteq FinalizeKinds
  BY DEF FinalizeKinds
<1>. HIDE DEF x, y, L, M
<1>17. /\ x \o y \in Seq(OfKinds(L \cup M))
       /\ Ops(x \o y) = Ops(x) \cup Ops(y)
       /\ NoneAfter(x \o y, {"Reschedule"}, {"Decrement"})
  BY <1>13, <1>14, <1>16, DecrementFirst
<1>18. \A m : <<"Decrement", m>> \notin Ops(y)
  <2>1. \A op \in Ops(y) : op[1] # "Decrement"
    BY <1>14, <1>16, OfKindsOps
  <2>. QED  BY <2>1
<1>. DEFINE r == x \o y
<1>19. r \in Seq(OfKinds(FinalizeKinds)) /\ Then(w, r)
  BY <1>3, <1>4, <1>15, <1>16, <1>17, Wider
<1>20. /\ \A m : <<"Decrement", m>> \in Ops(r) => m = n
       /\ n \in Consumers => <<"Reschedule", n>> \in Ops(r)
  BY <1>11, <1>12, <1>13, <1>14, <1>17, <1>18
<1>21. NoneAfter(r, {"Reschedule"}, {"Decrement"})
  BY <1>17
<1>. HIDE DEF r
<1>. QED  BY <1>1, <1>2, <1>19, <1>20, <1>21 DEF n

\* A worker pops an item and runs the node, or finds the queue empty.
LEMMA TryPopMakes ==
    ASSUME AgendaInv, NEW w \in Workers, TryPop(w)
    PROVE  /\ At(w, "TryPop")
           /\ \/ \E n \in NodesOf(WorkerQueue[w]) :
                    /\ PopItem(n) /\ cur' = [cur EXCEPT ![w] = n]
                    /\ \E r \in Seq(OfKinds({"PopQueueHead", "Process", "Finished"})) :
                          /\ Then(w, r)
                          /\ <<"Process", n>> \in Ops(r) /\ <<"Finished">> \in Ops(r)
              \/ /\ Then(w, << <<"NoItem">> >>) /\ Puts(w, {"NoItem"})
                 /\ UNCHANGED <<queueVars, cur>>
<1>. DEFINE L == {"PopQueueHead", "Process", "Finished"}
<1>1. ASSUME NEW n \in NodesOf(WorkerQueue[w]),
             Then(w, Each("PopQueueHead", InputPorts[n]) \o << <<"Process", n>>, <<"Finished">> >>)
      PROVE  \E r \in Seq(OfKinds(L)) :
                /\ Then(w, r)
                /\ <<"Process", n>> \in Ops(r) /\ <<"Finished">> \in Ops(r)
  <2>. DEFINE x == Each("PopQueueHead", InputPorts[n])
              y == << <<"Process", n>>, <<"Finished">> >>
  <2>1. n \in Nodes
    BY DEF NodesOf
  <2>2. x \in Seq(OfKinds(L))
    <3>1. InputPorts[n] \in Seq(Edges)
      BY <2>1, GraphAssumption
    <3>2. \A e \in Edges : <<"PopQueueHead", e>> \in OfKinds(L)
      BY KindOps
    <3>. QED  BY <3>1, <3>2, EachType
  <2>3. <<"Process", n>> \in OfKinds(L) /\ <<"Finished">> \in OfKinds(L)
    BY <2>1, KindOps DEF NodeKinds, PlainKinds
  <2>4. y \in Seq(OfKinds(L))
    BY <2>3
  <2>5. Ops(y) = {<<"Process", n>>, <<"Finished">>}
    BY DEF Ops
  <2>. HIDE DEF x, y, L
  <2>6. x \o y \in Seq(OfKinds(L)) /\ Ops(x \o y) = Ops(x) \cup Ops(y)
    BY <2>2, <2>4, Joined, OpsJoined
  <2>7. Then(w, x \o y)
    BY <1>1 DEF x, y
  <2>. QED  BY <2>5, <2>6, <2>7
<1>2. ASSUME Then(w, << <<"NoItem">> >>) PROVE Puts(w, {"NoItem"})
  <2>1. <<"NoItem">> \in OfKinds({"NoItem"})
    BY KindOps DEF PlainKinds
  <2>2. << <<"NoItem">> >> \in Seq(OfKinds({"NoItem"}))
    BY <2>1
  <2>. QED  BY <1>2, <2>2, Zenon DEF Puts
<1>3. /\ At(w, "TryPop")
      /\ \/ \E n \in NodesOf(WorkerQueue[w]) :
               /\ PopItem(n) /\ cur' = [cur EXCEPT ![w] = n]
               /\ Then(w, Each("PopQueueHead", InputPorts[n])
                            \o << <<"Process", n>>, <<"Finished">> >>)
         \/ /\ Then(w, << <<"NoItem">> >>)
            /\ UNCHANGED <<queueVars, cur>>
  BY DEF TryPop
<1>. QED  BY <1>1, <1>2, <1>3

\* What an application thread does inside its calls.
LEMMA AppMakes ==
    ASSUME AgendaInv, NEW a \in Apps,
           \/ OpenSource(a) \/ IncClosedGraphInputStreams(a) \/ SetState(a)
           \/ Notify(a) \/ Wait(a) \/ Block(a)
    PROVE  \/ At(a, "OpenSource") /\ Puts(a, {"AddNode"})
           \/ At(a, "Wait") /\ Puts(a, {"Block", "Wait"})
           \/ \E k \in {"IncClosed", "SetState", "Notify", "Block"} : At(a, k) /\ Puts(a, {})
<1>. a \in Threads
  BY DEF Threads
<1>1. CASE OpenSource(a)
  <2>1. At(a, "OpenSource") /\ Then(a, AddNodeOp(Arg(a, 2)))
    BY <1>1 DEF OpenSource
  <2>2. Arg(a, 2) \in Nodes
    BY <2>1, ArgFacts, SourcesAssumption
  <2>3. AddNodeOp(Arg(a, 2)) \in Seq(OfKinds({"AddNode"}))
    BY <2>2, AddNodeKinds
  <2>. QED  BY <2>1, <2>3, Zenon DEF Puts
<1>2. CASE Wait(a)
  <2>1. At(a, "Wait") /\ \E c : Then(a, If(c, << <<"Block">>, <<"Wait">> >>))
    BY <1>2 DEF Wait
  <2>2. <<"Block">> \in OfKinds({"Block", "Wait"}) /\ <<"Wait">> \in OfKinds({"Block", "Wait"})
    BY KindOps DEF PlainKinds
  <2>3. << <<"Block">>, <<"Wait">> >> \in Seq(OfKinds({"Block", "Wait"}))
    BY <2>2
  <2>4. \A c : If(c, << <<"Block">>, <<"Wait">> >>) \in Seq(OfKinds({"Block", "Wait"}))
    BY <2>3, IfType
  <2>. QED  BY <2>1, <2>4, Zenon DEF Puts
<1>3. CASE IncClosedGraphInputStreams(a) \/ SetState(a) \/ Notify(a) \/ Block(a)
  <2>1. \E k \in {"IncClosed", "SetState", "Notify", "Block"} : At(a, k) /\ Then(a, <<>>)
    BY <1>3 DEF IncClosedGraphInputStreams, SetState, Notify, Block
  <2>. QED  BY <2>1, NoneKinds
<1>. QED  BY <1>1, <1>2, <1>3

CallKinds == {"OpenSource", "SetRunning", "Enter", "SetState", "AddPackets", "SetDone",
              "CloseManager", "IncClosed", "SubmitWaiting", "Cleanup", "Notify", "Wait"}

\* The calls that take state_ back to what HandleIdle acts on.
Controls == {"Cancel", "Pause", "Resume"}

\* The calls that fill or close a graph input.
Feeding == {"AddPacket", "CloseInput"}

\* What a call begins with: no packet for an edge that a node feeds; what call
\* c begins with; and what a call before Start begins with.
FromCalls == {op \in OfKinds(CallKinds) : ~ Delivery(op)}
FromCall(c) ==
    {op \in FromCalls :
        /\ op[1] = "SetState" => op[2] = "Terminated" \/ c \in Controls
        /\ op[1] \in {"AddPackets", "SetDone", "CloseManager"} => c \in Feeding}
EarlyCalls == {op \in FromCalls : op[1] \in EarlyKinds}

LEMMA CallOpsMade ==
    ASSUME NEW c
    PROVE  /\ FromCall(c) \subseteq FromCalls
           /\ c \in Feeding => EarlyCalls \subseteq FromCall(c)
           /\ \A n \in Sources : <<"OpenSource", n>> \in FromCall(c)
           /\ \A q \in Queues : /\ <<"SubmitWaiting", q>> \in FromCall(c)
                               /\ <<"Cleanup", q>> \in FromCall(c)
           /\ \A q \in Queues, b \in BOOLEAN : <<"SetRunning", q, b>> \in FromCall(c)
           /\ \A e \in Edges : <<"SetDone", e>> \in EarlyCalls
           /\ \A e \in Edges \cap FedByApps, i \in Nat : <<"AddPackets", e, i>> \in EarlyCalls
           /\ \A g \in GraphInputs : /\ <<"CloseManager", g>> \in EarlyCalls
                                     /\ <<"IncClosed", g>> \in EarlyCalls
           /\ <<"Enter", FALSE>> \in EarlyCalls /\ <<"Enter", FALSE>> \in FromCall(c)
           /\ \A s \in LaterStates :
                 s = "Terminated" \/ c \in Controls => <<"SetState", s>> \in FromCall(c)
           /\ <<"Notify">> \in FromCall(c) /\ <<"Wait">> \in FromCall(c)
BY KindOps DEF FromCalls, FromCall, Feeding, EarlyCalls, CallKinds, EarlyKinds, Delivery, PlainKinds,
               QueueKinds, Producers

LEMMA FedByInput ==
    ASSUME NEW g \in GraphInputs
    PROVE  \A i \in 1..Len(Mirrors[g]) : Mirrors[g][i] \in Edges \cap FedByApps
<1>1. Mirrors[g] \in Seq(Edges)
  BY GraphAssumption DEF Producers
<1>2. \A i \in 1..Len(Mirrors[g]) : Mirrors[g][i] \in Edges
  BY <1>1
<1>. QED  BY <1>2 DEF FedByApps

LEMMA EnterLast ==
    ASSUME NEW T, <<"Enter", FALSE>> \in T, NEW r \in Seq(T)
    PROVE  \A c : If(c, r \o HandleIdleOps) \in Seq(T)
<1>1. HandleIdleOps \in Seq(T)
  BY DEF HandleIdleOps
<1>2. r \o HandleIdleOps \in Seq(T)
  BY <1>1, Joined
<1>. QED  BY <1>2, IfType

\* An application thread makes a call.
LEMMA CallMakes ==
    ASSUME script \in [Apps -> Seq(CallsOfApps)], NEW a \in Apps, CallStep(a)
    PROVE  \E r \in Seq(FromCalls) :
              /\ agenda[a] = <<>> /\ agenda' = [agenda EXCEPT ![a] = r]
              /\ r \in Seq(FromCall(Head(script[a])[1]))
              /\ state' = "NotStarted" => r \in Seq(EarlyCalls) /\ state = "NotStarted"
              /\ UNCHANGED <<queueVars, blocked, cur, seen, streamVars, finalVars, historyVars>>
<1>. DEFINE Goal == \E r \in Seq(FromCalls) :
              /\ agenda[a] = <<>> /\ agenda' = [agenda EXCEPT ![a] = r]
              /\ r \in Seq(FromCall(Head(script[a])[1]))
              /\ state' = "NotStarted" => r \in Seq(EarlyCalls) /\ state = "NotStarted"
              /\ UNCHANGED <<queueVars, blocked, cur, seen, streamVars, finalVars, historyVars>>
            call == Head(script[a])[1]
            T == FromCall(call)
<1>0. /\ Seq(T) \subseteq Seq(FromCalls)
      /\ call \in Feeding => Seq(EarlyCalls) \subseteq Seq(T)
  <2>1. T \subseteq FromCalls /\ (call \in Feeding => EarlyCalls \subseteq T)
    BY CallOpsMade
  <2>. HIDE DEF T
  <2>. QED  BY <2>1
<1>1. ASSUME NEW c, Calls(a, c), NEW ops \in Seq(T), Making(a, ops),
             c \notin {"AddPacket", "CloseInput"},
             c = "Start" => state' # "NotStarted",
             state' # "NotStarted" \/ state' = state
      PROVE  Goal
  <2>1. state' # "NotStarted"
    BY <1>1 DEF Calls
  <2>2. ops \in Seq(FromCalls)
    BY <1>0, <1>1
  <2>. QED  BY <1>1, <2>1, <2>2 DEF Calls, Making
<1>2. ASSUME NEW c \in Feeding, Calls(a, c), NEW ops \in Seq(EarlyCalls), Making(a, ops),
             state' = state
      PROVE  Goal
  <2>1. ops \in Seq(T) /\ ops \in Seq(FromCalls)
    <3>1. call \in Feeding
      BY <1>2 DEF Calls
    <3>. QED  BY <1>0, <1>2, <3>1
  <2>. QED  BY <1>2, <2>1 DEF Calls, Making
<1>3. \A c : Calls(a, c) => call = c
  BY DEF Calls
<1>4. <<"Enter", FALSE>> \in EarlyCalls /\ <<"Enter", FALSE>> \in T
  BY CallOpsMade
<1>. DEFINE Plain == /\ \A n \in Sources : <<"OpenSource", n>> \in T
                     /\ \A q \in Queues : /\ <<"SubmitWaiting", q>> \in T
                                         /\ <<"Cleanup", q>> \in T
                     /\ <<"Notify">> \in T /\ <<"Wait">> \in T
<1>4a. Plain
  BY CallOpsMade
<1>5. \A b \in BOOLEAN : SetAll(b) \in Seq(T)
  <2>1. TAKE b \in BOOLEAN
  <2>2. \A q \in Queues : <<"SetRunning", q, b>> \in T
    BY CallOpsMade
  <2>. DEFINE op(i) == <<"SetRunning", AllQueues[i], b>>
  <2>3. \A i \in 1..Len(AllQueues) : op(i) \in T
    BY <2>2, NotEmptyGraph
  <2>4. SetAll(b) = [i \in 1..Len(AllQueues) |-> op(i)] /\ Len(AllQueues) \in Nat
    BY NotEmptyGraph DEF SetAll
  <2>. HIDE DEF op
  <2>. QED  BY <2>3, <2>4
<1>6. ASSUME NEW s \in LaterStates, s = "Terminated" \/ call \in Controls
      PROVE  << <<"SetState", s>> >> \in Seq(T)
  <2>1. <<"SetState", s>> \in T
    BY <1>6, CallOpsMade
  <2>. QED  BY <2>1
<1>7. AllQueues \in Seq(Queues)
  BY GraphAssumption
<1>. SUFFICES Goal
  OBVIOUS
<1>. HIDE DEF Goal, T, call
<1>8. CASE Start(a)
  <2>. DEFINE failing == {i \in 1..Len(AllNodes) : AllNodes[i] \in Head(script[a])[2]}
              first == CHOOSE i \in failing : \A j \in failing : i <= j
              opened == IF failing = {} THEN AllNodes ELSE SubSeq(AllNodes, 1, first - 1)
              open == EachIn("OpenSource", opened, Sources)
              stop == << <<"SetState", "Terminated">> >>
              rest == IF failing = {} THEN SetAll(TRUE) \o HandleIdleOps ELSE stop
  <2>1. Calls(a, "Start") /\ Making(a, open \o rest) /\ state' = "Running"
    BY <1>8 DEF Start
  <2>2. opened \in Seq(Nodes)
    <3>1. AllNodes \in Seq(Nodes) /\ Len(AllNodes) \in Nat
      BY GraphAssumption
    <3>2. CASE failing = {}
      BY <3>1, <3>2
    <3>3. CASE failing # {}
      <4>1. failing \in SUBSET Nat
        BY <3>1
      <4>2. \E i \in failing : \A j \in failing : i <= j
        BY <3>3, <4>1, LeastNat
      <4>3. first \in failing
        BY <4>2
      <4>4. first \in 1..Len(AllNodes)
        BY <4>3
      <4>. HIDE DEF first
      <4>5. SubSeq(AllNodes, 1, first - 1) \in Seq(Nodes)
        BY <3>1, <4>4, SubSeqProperties
      <4>. QED  BY <3>3, <4>5
    <3>. QED  BY <3>2, <3>3
  <2>3. open \in Seq(T)
    <3>1. \A n \in Nodes \cap Sources : <<"OpenSource", n>> \in T
      BY <1>4a
    <3>. HIDE DEF opened
    <3>. QED  BY <2>2, <3>1, EachInType
  <2>4. HandleIdleOps \in Seq(T)
    BY <1>4 DEF HandleIdleOps
  <2>5. SetAll(TRUE) \o HandleIdleOps \in Seq(T)
    <3>1. SetAll(TRUE) \in Seq(T)
      BY <1>5
    <3>. QED  BY <2>4, <3>1, Joined
  <2>6. stop \in Seq(T)
    BY <1>3, <1>6, <2>1 DEF LaterStates, States, Controls
  <2>. HIDE DEF open, stop, failing
  <2>7. rest \in Seq(T)
    BY <2>5, <2>6
  <2>. HIDE DEF rest
  <2>8. open \o rest \in Seq(T)
    BY <2>3, <2>7, Joined
  <2>9. state' # "NotStarted"
    BY <2>1
  <2>. DEFINE ops == open \o rest
  <2>. HIDE DEF ops
  <2>10. ops \in Seq(T) /\ Making(a, ops)
    BY <2>1, <2>8 DEF ops
  <2>. QED  BY <1>1, <2>1, <2>9, <2>10
<1>9. CASE AddPacketToInputStream(a)
  <2>. DEFINE s == Head(script[a])[2]
  <2>1. /\ Calls(a, "AddPacket") /\ state' = state
        /\ \E c : Making(a, If(c, PropagateOps(s, 1) \o HandleIdleOps))
    BY <1>9 DEF AddPacketToInputStream, schedVars
  <2>2. s \in GraphInputs /\ s \in Producers
    BY <2>1, CallArgs DEF Producers
  <2>. HIDE DEF s
  <2>3. \A i \in 1..Len(Mirrors[s]) : /\ <<"AddPackets", Mirrors[s][i], 1>> \in EarlyCalls
                                      /\ <<"SetDone", Mirrors[s][i]>> \in EarlyCalls
    BY <2>2, FedByInput, CallOpsMade
  <2>4. PropagateOps(s, 1) \in Seq(EarlyCalls)
    BY <2>2, <2>3, PropagateKinds
  <2>5. \A c : If(c, PropagateOps(s, 1) \o HandleIdleOps) \in Seq(EarlyCalls)
    BY <1>4, <2>4, EnterLast
  <2>. QED  BY <1>2, <2>1, <2>5 DEF Feeding
<1>10. CASE CloseInputStream(a)
  <2>. DEFINE s == Head(script[a])[2]
              close == << <<"CloseManager", s>>, <<"IncClosed", s>> >>
  <2>1. /\ Calls(a, "CloseInput") /\ state' = state
        /\ \E c : Making(a, If(c, close \o HandleIdleOps))
    BY <1>10 DEF CloseInputStream, schedVars
  <2>2. s \in GraphInputs
    BY <2>1, CallArgs
  <2>. HIDE DEF s
  <2>3. <<"CloseManager", s>> \in EarlyCalls /\ <<"IncClosed", s>> \in EarlyCalls
    BY <2>2, CallOpsMade
  <2>4. close \in Seq(EarlyCalls)
    BY <2>3
  <2>. HIDE DEF close
  <2>5. \A c : If(c, close \o HandleIdleOps) \in Seq(EarlyCalls)
    BY <1>4, <2>4, EnterLast
  <2>. QED  BY <1>2, <2>1, <2>5 DEF Feeding
<1>11. CASE Cancel(a)
  <2>. DEFINE one == << <<"SetState", "Cancelling">> >>
  <2>1. /\ Calls(a, "Cancel") /\ state' = state
        /\ \E c : Making(a, If(c, one \o HandleIdleOps))
    BY <1>11 DEF Cancel
  <2>2. one \in Seq(T)
    BY <1>3, <1>6, <2>1 DEF LaterStates, States, Controls
  <2>. HIDE DEF one
  <2>3. \A c : If(c, one \o HandleIdleOps) \in Seq(T)
    BY <1>4, <2>2, EnterLast
  <2>. QED  BY <1>1, <2>1, <2>3
<1>12. CASE Pause(a)
  <2>. DEFINE one == << <<"SetState", "Paused">> >>
              both == one \o SetAll(FALSE)
  <2>1. /\ Calls(a, "Pause") /\ state' = state
        /\ \E c : Making(a, If(c, both))
    BY <1>12 DEF Pause, schedVars
  <2>2. one \in Seq(T) /\ SetAll(FALSE) \in Seq(T)
    BY <1>3, <1>5, <1>6, <2>1 DEF LaterStates, States, Controls
  <2>. HIDE DEF one
  <2>3. both \in Seq(T)
    BY <2>2, Joined
  <2>. HIDE DEF both
  <2>4. \A c : If(c, both) \in Seq(T)
    BY <2>3, IfType
  <2>. QED  BY <1>1, <2>1, <2>4
<1>13. CASE Resume(a)
  <2>. DEFINE one == << <<"SetState", "Running">> >>
              again == Each("SubmitWaiting", AllQueues)
              ops == one \o SetAll(TRUE) \o again
  <2>1. /\ Calls(a, "Resume") /\ state' = state
        /\ \E c : Making(a, If(c, ops \o HandleIdleOps))
    BY <1>13 DEF Resume, schedVars
  <2>2. one \in Seq(T) /\ SetAll(TRUE) \in Seq(T)
    BY <1>3, <1>5, <1>6, <2>1 DEF LaterStates, States, Controls
  <2>3. again \in Seq(T)
    BY <1>7, <1>4a, EachType
  <2>. HIDE DEF one, again
  <2>4. one \o SetAll(TRUE) \in Seq(T)
    BY <2>2, Joined
  <2>5. ops \in Seq(T)
    BY <2>3, <2>4, Joined
  <2>. HIDE DEF ops
  <2>6. \A c : If(c, ops \o HandleIdleOps) \in Seq(T)
    BY <1>4, <2>5, EnterLast
  <2>. QED  BY <1>1, <2>1, <2>6
<1>14. CASE Shutdown(a)
  <2>. DEFINE clean == Each("Cleanup", AllQueues)
              one == << <<"Notify">> >>
              ops == clean \o one
  <2>1. Calls(a, "Shutdown") /\ state' = "Terminated" /\ Making(a, ops)
    BY <1>14 DEF Shutdown
  <2>2. clean \in Seq(T)
    BY <1>7, <1>4a, EachType
  <2>3. one \in Seq(T)
    BY <1>4a
  <2>. HIDE DEF clean, one
  <2>4. ops \in Seq(T)
    BY <2>2, <2>3, Joined
  <2>. HIDE DEF ops
  <2>. QED  BY <1>1, <2>1, <2>4
<1>15. CASE WaitUntilDone(a)
  <2>. DEFINE ops == << <<"Wait">> >>
  <2>1. Calls(a, "Wait") /\ state' = state /\ Making(a, ops)
    BY <1>15 DEF WaitUntilDone, schedVars
  <2>2. ops \in Seq(T)
    BY <1>4a
  <2>. HIDE DEF ops
  <2>. QED  BY <1>1, <2>1, <2>2
<1>. QED  BY <1>8, <1>9, <1>10, <1>11, <1>12, <1>13, <1>14, <1>15 DEF CallStep

-----------------------------------------------------------------------------
(* Every operation leaves the packets attended to.                         *)

\* What the steps below use of the rest of the invariant.
Drained == DeliveredInTasks /\ LookedAtAfter /\ PacketsAttended
Counted ==
    /\ queue \in [Nodes -> Nat]
    /\ len \in [Edges -> Nat]

\* t goes on with r: only node n, whose guard it executes, remains to be seen to.
LEMMA CalmDrain ==
    ASSUME AgendaInv, Drained, NEW t \in Threads, NEW k, At(t, k),
           NEW L, NEW r \in Seq(OfKinds(L)), Then(t, r),
           "Decrement" \notin L, "Reschedule" \notin L,
           \A op \in Ops(r) : Delivery(op) => t \in Workers /\ Working(t) /\ k # "Finished",
           failed \subseteq failed', cleaned \subseteq cleaned',
           \A n \in Consumers : queue[n] > 0 => Attended(n)' \/ Excused(n)'
    PROVE  /\ DeliveredInTasks' /\ LookedAtAfter'
           /\ \A n \in Consumers : Attended(n) \/ Excused(n) =>
                 \/ Attended(n)' \/ Excused(n)'
                 \/ k \in Guards /\ Head(agenda[t]) = <<k, n>> /\ t \in Workers /\ Working(t)
<1>1. r \in Seq(Operations) /\ \A op \in Ops(r) : op[1] \in L
  BY OfKindsOps
<1>2. DeliveredInTasks'
  BY <1>1, DeliveredKept DEF Drained
<1>3. LookedAtAfter'
  <2>1. \A op \in Ops(r) : op[1] \notin {"Decrement", "Reschedule"}
    BY <1>1
  <2>. QED  BY <1>1, <2>1, LookedAtKept DEF Drained
<1>4. ASSUME NEW n \in Consumers, Attended(n) \/ Excused(n)
      PROVE  \/ Attended(n)' \/ Excused(n)'
             \/ k \in Guards /\ Head(agenda[t]) = <<k, n>> /\ t \in Workers /\ Working(t)
  <2>1. CASE Excused(n)
    BY <2>1 DEF Excused
  <2>2. CASE queue[n] > 0
    BY <2>2
  <2>3. CASE Guarded(n)
    <3>1. \/ Guarded(n)'
          \/ k \in Guards /\ Head(agenda[t]) = <<k, n>> /\ t \in Workers /\ Working(t)
      BY <1>1, <2>3, GuardsKept
    <3>. QED  BY <3>1 DEF Attended
  <2>. QED  BY <1>4, <2>1, <2>2, <2>3 DEF Attended
<1>. QED  BY <1>2, <1>3, <1>4

LEMMA FewerPackets ==
    ASSUME \A e \in Edges : len'[e] > 0 => len[e] > 0
    PROVE  \A n \in Consumers : HasPackets(n)' => HasPackets(n)
<1>1. \A n \in Nodes : Ports(n) \subseteq Edges
  <2>1. \A n \in Nodes : InputPorts[n] \in Seq(Edges)
    BY GraphAssumption
  <2>. QED  BY <2>1 DEF Ports
<1>. QED  BY <1>1 DEF HasPackets, Consumers

\* The operations that neither look at an input nor change one.
LEMMA CalmStep ==
    ASSUME AgendaInv, Drained, NEW t \in Threads, NEW k, At(t, k), k \notin Guards,
           NEW L, Puts(t, L),
           "Decrement" \notin L, "Reschedule" \notin L, "AddPackets" \notin L,
           "PostProcess" \notin L,
           failed' = failed, cleaned \subseteq cleaned',
           \A n \in Consumers : queue[n] > 0 => Attended(n)' \/ Excused(n)',
           \A e \in Edges : len'[e] > 0 => len[e] > 0
    PROVE  Drained'
<1>1. PICK r \in Seq(OfKinds(L)) : Then(t, r)
  BY DEF Puts
<1>2. \A op \in Ops(r) : ~ Delivery(op)
  <2>1. \A op \in Ops(r) : op[1] \in L
    BY OfKindsOps
  <2>. QED  BY <2>1 DEF Delivery
<1>3. /\ DeliveredInTasks' /\ LookedAtAfter'
      /\ \A n \in Consumers : Attended(n) \/ Excused(n) => Attended(n)' \/ Excused(n)'
  BY <1>1, <1>2, CalmDrain
<1>4. PacketsAttended'
  BY <1>3, FewerPackets DEF Drained, PacketsAttended, Consumers
<1>. QED  BY <1>3, <1>4 DEF Drained

LEMMA QueueSame ==
    ASSUME queue' = queue
    PROVE  \A n \in Consumers : queue[n] > 0 => Attended(n)' \/ Excused(n)'
BY DEF Attended

\* A thread with nothing to do gets a new agenda.
LEMMA FreshDrain ==
    ASSUME AgendaInv, Drained, NEW t \in Threads, agenda[t] = <<>>, NEW r \in Seq(Operations),
           agenda' = [agenda EXCEPT ![t] = r],
           \A op \in Ops(r) : ~ Delivery(op),
           t \in Workers => \A op \in Ops(r) : op[1] \notin {"Decrement", "Reschedule"},
           UNCHANGED <<queue, len, failed, cleaned>>
    PROVE  Drained'
<1>1. /\ Ops(agenda[t]) = {} /\ agenda'[t] = r
      /\ \A u \in Threads : u # t => agenda'[u] = agenda[u]
  BY OpsFresh
<1>2. \A u \in Threads : Working(u) => u # t /\ Working(u)'
  BY <1>1 DEF Working
<1>3. DeliveredInTasks'
  <2>1. SUFFICES ASSUME NEW u \in Threads, NEW op \in Ops(agenda'[u]), Delivery(op)
                 PROVE  u \in Workers /\ Working(u)'
    BY DEF DeliveredInTasks, Delivery
  <2>. QED  BY <1>1, <1>2, <2>1 DEF DeliveredInTasks, Drained
<1>4. LookedAtAfter'
  <2>1. \A n : <<"Decrement", n>>[1] = "Decrement"
    OBVIOUS
  <2>2. ASSUME NEW w \in Workers
        PROVE  /\ NoneAfter(agenda'[w], {"Reschedule"}, {"Decrement"})
               /\ \A n \in Consumers :
                      <<"Decrement", n>> \in Ops(agenda'[w]) =>
                          n \in failed' \/ <<"Reschedule", n>> \in Ops(agenda'[w])
    <3>1. CASE w = t
      <4>1. \A op \in Ops(r) : op[1] \notin {"Decrement", "Reschedule"}
        BY <3>1
      <4>2. ~ HasIn(r, {"Reschedule"})
        BY <4>1, HasOps
      <4>. QED  BY <1>1, <2>1, <3>1, <4>1, <4>2, NoneAfterNone
    <3>2. CASE w # t
      <4>1. agenda'[w] = agenda[w]
        BY <1>1, <3>2 DEF Threads
      <4>. QED  BY <4>1 DEF LookedAtAfter, Drained
    <3>. QED  BY <3>1, <3>2
  <2>. QED  BY <2>2 DEF LookedAtAfter
<1>5. \A n : Guarded(n) => Guarded(n)'
  <2>1. SUFFICES ASSUME NEW n, Guarded(n) PROVE Guarded(n)'
    OBVIOUS
  <2>2. PICK w \in Workers : Working(w) /\ \E g \in Guards : <<g, n>> \in Ops(agenda[w])
    BY <2>1 DEF Guarded
  <2>3. Working(w)' /\ agenda'[w] = agenda[w]
    BY <1>1, <1>2, <2>2 DEF Threads
  <2>. QED  BY <2>2, <2>3 DEF Guarded
<1>6. PacketsAttended'
  <2>1. \A n \in Consumers : Attended(n) \/ Excused(n) => Attended(n)' \/ Excused(n)'
    BY <1>5 DEF Attended, Excused
  <2>2. \A n \in Consumers : HasPackets(n)' => HasPackets(n)
    BY DEF HasPackets
  <2>. QED  BY <2>1, <2>2 DEF PacketsAttended, Drained, Consumers
<1>. QED  BY <1>3, <1>4, <1>6 DEF Drained

LEMMA AddNodeDrain ==
    ASSUME AgendaInv, Counted, Drained, NothingRuns, SQ!PendingAccounted,
           \A n \in Nodes : IsFiniteSet(SQ!InFlight(n)),
           NEW t \in Threads, AddNode(t)
    PROVE  Drained'
<1>0. PICK m \in Nodes : m = Arg(t, 2)
  BY ArgFacts DEF AddNode, NodeKinds
<1>1. At(t, "AddNode")
  BY DEF AddNode
<1>2. Puts(t, Submits)
  <2>1. \A k \in {"Count", "Send", "SetRunning", "SubmitWaiting", "Cleanup"} : k # "AddNode"
    OBVIOUS
  <2>2. \A k : At(t, k) => k = "AddNode"
    BY <1>1 DEF At
  <2>. QED  BY <2>1, <2>2, QueueMakes DEF QueueStep
<1>3. Head(agenda[t]) = <<"AddNode", m>>
  <2>1. Head(agenda[t]) \in Operations /\ Head(agenda[t])[1] = "AddNode"
    BY <1>1, AtFacts
  <2>2. Head(agenda[t]) = <<Head(agenda[t])[1], Head(agenda[t])[2]>>
    BY <2>1, NodeOp DEF NodeKinds
  <2>. QED  BY <1>0, <2>1, <2>2 DEF Arg
<1>4. UNCHANGED <<len, failed, cleaned>>
  BY DEF AddNode, streamVars, historyVars
<1>5. \A n \in Nodes : queue[n] > 0 => queue'[n] > 0
  BY <1>0 DEF AddNode, PushItem, queueVars, Counted
<1>6. PICK r \in Seq(OfKinds(Submits)) : Then(t, r)
  BY <1>2 DEF Puts
<1>7. "Decrement" \notin Submits /\ "Reschedule" \notin Submits
      /\ \A op \in Ops(r) : ~ Delivery(op)
  <2>1. \A op \in Ops(r) : op[1] \in Submits
    BY OfKindsOps
  <2>. QED  BY <2>1 DEF Submits, Delivery
<1>8. \A n \in Consumers : queue[n] > 0 => Attended(n)' \/ Excused(n)'
  BY <1>5 DEF Attended, Consumers
<1>9. /\ DeliveredInTasks' /\ LookedAtAfter'
      /\ \A n \in Consumers : Attended(n) \/ Excused(n) =>
            \/ Attended(n)' \/ Excused(n)'
            \/ Head(agenda[t]) = <<"AddNode", n>>
  <2>. HIDE DEF Submits
  <2>. QED  BY <1>1, <1>4, <1>6, <1>7, <1>8, CalmDrain
<1>10. \A n \in Consumers : HasPackets(n)' => HasPackets(n)
  BY <1>4, FewerPackets
<1>11. ASSUME m \in Consumers, HasPackets(m) PROVE Attended(m)' \/ Excused(m)'
  <2>1. state # "NotStarted"
    <3>1. PICK e \in Ports(m) \ FedByApps : len[e] > 0
      BY <1>11 DEF HasPackets
    <3>2. e \in Edges \ FedByApps
      <4>1. InputPorts[m] \in Seq(Edges)
        BY <1>1, GraphAssumption
      <4>. QED  BY <3>1, <4>1 DEF Ports
    <3>. QED  BY <3>1, <3>2 DEF NothingRuns
  <2>2. CASE PushItem(m)
    <3>1. queue'[m] = queue[m] + 1
      BY <1>1, <2>2 DEF PushItem, Counted
    <3>2. queue[m] \in Nat
      BY <1>1 DEF Counted
    <3>. QED  BY <3>1, <3>2 DEF Attended
  <2>3. CASE AtLimit(m) /\ UNCHANGED queueVars
    <3>1. CASE QueueOf[m] \in cleaned
      BY <1>4, <3>1 DEF Excused
    <3>2. CASE queue[m] > 0
      BY <2>3, <3>2 DEF Attended, queueVars
    <3>3. CASE QueueOf[m] \notin cleaned /\ ~ (queue[m] > 0)
      <4>1. queue[m] = 0
        BY <1>1, <3>3 DEF Counted
      <4>2. pendingCount[m] = queue[m] + Cardinality(SQ!InFlight(m))
        BY <1>1, <3>3 DEF SQ!PendingAccounted, SQ!Cardinality, Cardinality
      <4>3. Cardinality(SQ!InFlight(m)) \in Nat /\ Cardinality(SQ!InFlight(m)) > 0
        <5>1. Cardinality(SQ!InFlight(m)) \in Nat
          BY <1>1, FS_CardinalityType
        <5>2. MaxInFlight[m] \in Nat /\ MaxInFlight[m] >= 1
          BY <1>1, MaxInFlightAssumption
        <5>. QED  BY <2>3, <4>1, <4>2, <5>1, <5>2 DEF AtLimit
      <4>4. SQ!InFlight(m) # {}
        BY <4>3, FS_EmptySet
      <4>5. PICK w \in Workers : pc[w] = "run" /\ cur[w] = m
        BY <4>4 DEF SQ!InFlight
      <4>6. PointOf(agenda[w]) = "run"
        BY <4>5, BarIs
      <4>7. HasIn(agenda[w], {"Finished"}) /\ HasIn(agenda[w], Runs)
        BY <4>6 DEF PointOf
      <4>8. Ops(agenda[w]) \subseteq Operations /\ w \in Threads
        <5>1. w \in Threads /\ agenda[w] \in Seq(Operations)
          BY DEF AgendaInv, Threads
        <5>. QED  BY <5>1, OpsType
      <4>9. Working(w)
        <5>1. PICK op \in Ops(agenda[w]) : op[1] \in {"Finished"}
          BY <4>7, HasOps
        <5>2. op = <<"Finished">>
          <6>1. op[1] = "Finished" /\ op \in Operations
            BY <4>8, <5>1
          <6>2. op = <<op[1]>>
            BY <6>1, PlainOp DEF PlainKinds
          <6>. QED  BY <6>1, <6>2, Zenon
        <5>. QED  BY <5>1, <5>2 DEF Working
      <4>10. PICK op \in Ops(agenda[w]) : op[1] \in Runs
        BY <4>7, HasOps
      <4>11. op = <<op[1], m>>
        <5>1. op \in Operations /\ op[1] \in NodeKinds
          BY <4>8, <4>10 DEF Runs, NodeKinds
        <5>2. op[2] = m
          <6>1. WorkerForm(agenda[w], m)
            BY <4>5 DEF AgendaInv
          <6>. QED  BY <4>10, <6>1 DEF WorkerForm, Ops
        <5>3. op = <<op[1], op[2]>>
          BY <5>1, NodeOp
        <5>. QED  BY <5>2, <5>3
      <4>12. \A g \in Guards \ {"AddNode"} : <<g, m>> \in Ops(agenda[w]) => Guarded(m)'
        <5>1. r \in Seq(Operations)
          BY OfKindsOps
        <5>. QED  BY <1>1, <1>6, <4>9, <5>1, GuardsKept
      <4>13. CASE op[1] \in {"Process", "Finalize"}
        BY <4>10, <4>11, <4>12, <4>13 DEF Attended, Guards
      <4>14. CASE op[1] = "Decrement"
        <5>1. m \in failed \/ <<"Reschedule", m>> \in Ops(agenda[w])
          BY <1>11, <4>10, <4>11, <4>14 DEF LookedAtAfter, Drained
        <5>2. "Reschedule" \in Guards \ {"AddNode"}
          BY DEF Guards
        <5>. QED  BY <1>4, <4>12, <5>1, <5>2 DEF Attended, Excused
      <4>. QED  BY <4>10, <4>13, <4>14 DEF Runs
    <3>. QED  BY <3>1, <3>2, <3>3
  <2>. QED  BY <1>0, <2>1, <2>2, <2>3 DEF AddNode
<1>12. \A n \in Consumers : <<"AddNode", m>> = <<"AddNode", n>> => m = n
  OBVIOUS
<1>13. PacketsAttended'
  BY <1>3, <1>9, <1>10, <1>11, <1>12 DEF PacketsAttended, Drained, Consumers
<1>. QED  BY <1>9, <1>13 DEF Drained

LEMMA QueueDrain ==
    ASSUME AgendaInv, Drained, NEW t \in Threads, QueueStep(t), ~ AddNode(t)
    PROVE  Drained'
<1>1. PICK k \in {"AddNode", "Count", "Send", "SetRunning", "SubmitWaiting", "Cleanup"} :
         At(t, k) /\ Puts(t, Submits)
  BY QueueMakes
<1>2. k \notin Guards
  <2>1. k # "AddNode"
    BY <1>1 DEF QueueStep, At, AddNode, SubmitToExecutor, SetRunning, SubmitWaiting, Cleanup
  <2>. QED  BY <2>1 DEF Guards
<1>3. len' = len /\ failed' = failed /\ cleaned \subseteq cleaned'
  BY DEF QueueStep, SubmitToExecutor, SetRunning, SubmitWaiting, Cleanup, streamVars, historyVars
<1>4. \A n \in Consumers : queue[n] > 0 => Attended(n)' \/ Excused(n)'
  <2>1. CASE queue' = queue
    BY <2>1, QueueSame
  <2>2. CASE Cleanup(t)
    <3>1. PICK q \in Queues : q = Arg(t, 2)
      BY <2>2, ArgFacts DEF Cleanup, QueueKinds
    <3>2. /\ queue' = [n \in Nodes |-> IF QueueOf[n] = q THEN 0 ELSE queue[n]]
          /\ cleaned' = cleaned \cup {q}
      BY <2>2, <3>1 DEF Cleanup, CleanupAfterRun
    <3>. QED  BY <3>2 DEF Attended, Excused, Consumers
  <2>3. queue' = queue \/ Cleanup(t)
    BY DEF QueueStep, SubmitToExecutor, SetRunning, SubmitWaiting, CountTask, ScheduleTask,
           AssignRunning, queueVars
  <2>. QED  BY <2>1, <2>2, <2>3
<1>. QED  BY <1>1, <1>2, <1>3, <1>4, CalmStep DEF Submits

LEMMA HeadIs ==
    ASSUME AgendaInv, NEW t \in Threads, NEW k, At(t, k)
    PROVE  /\ Head(agenda[t]) \in Ops(agenda[t]) /\ Head(agenda[t])[1] = k
           /\ k \in NodeKinds => Head(agenda[t]) = <<k, Arg(t, 2)>>
<1>1. /\ agenda[t] \in Seq(Operations) /\ Len(agenda[t]) > 0 /\ Head(agenda[t]) = agenda[t][1]
      /\ Head(agenda[t]) \in Operations /\ Head(agenda[t])[1] = k
  BY AtFacts
<1>2. Head(agenda[t]) \in Ops(agenda[t])
  <2>1. Len(agenda[t]) \in Nat
    BY <1>1
  <2>. QED  BY <1>1, <2>1 DEF Ops
<1>3. k \in NodeKinds => Head(agenda[t]) = <<Head(agenda[t])[1], Head(agenda[t])[2]>>
  BY <1>1, NodeOp
<1>. QED  BY <1>1, <1>2, <1>3 DEF Arg

LEMMA StreamDrain ==
    ASSUME AgendaInv, Counted, Drained, NEW t \in Threads, StreamStep(t)
    PROVE  Drained'
<1>1. queue' = queue /\ failed' = failed /\ cleaned' = cleaned
  BY DEF StreamStep, AddPackets, SetDone, PostProcess, BoundDone, CloseManager, queueVars,
         historyVars
<1>2. \A n \in Consumers : queue[n] > 0 => Attended(n)' \/ Excused(n)'
  BY <1>1, QueueSame
<1>3. CASE SetDone(t) \/ BoundDone(t) \/ CloseManager(t)
  <2>1. len' = len
    BY <1>3 DEF SetDone, BoundDone, CloseManager
  <2>2. PICK k \in {"SetDone", "BoundDone", "CloseManager"} : At(t, k)
    BY <1>3 DEF SetDone, BoundDone, CloseManager
  <2>3. Puts(t, {"AddNode"}) \/ Puts(t, {"SetDone"})
    BY <2>2, StreamMakes DEF At
  <2>4. k \notin Guards
    BY DEF Guards
  <2>. QED  BY <1>1, <1>2, <2>1, <2>2, <2>3, <2>4, CalmStep
<1>4. CASE PostProcess(t)
  <2>1. len' = len /\ At(t, "PostProcess")
    BY <1>4 DEF PostProcess, streamVars
  <2>2. PICK r \in Seq(OfKinds({"AddPackets", "SetDone"})) : Then(t, r)
    BY <2>1, StreamMakes DEF At, Puts
  <2>3. t \in Workers /\ Working(t)
    <3>1. Delivery(Head(agenda[t])) /\ Head(agenda[t]) \in Ops(agenda[t])
      BY <2>1, HeadIs DEF Delivery
    <3>. QED  BY <3>1 DEF Drained, DeliveredInTasks
  <2>4. /\ DeliveredInTasks' /\ LookedAtAfter'
        /\ \A n \in Consumers : Attended(n) \/ Excused(n) => Attended(n)' \/ Excused(n)'
    <3>1. "PostProcess" \notin Guards
      BY DEF Guards
    <3>. QED  BY <1>1, <1>2, <2>1, <2>2, <2>3, <3>1, CalmDrain
  <2>5. PacketsAttended'
    BY <2>1, <2>4, FewerPackets DEF Drained, PacketsAttended, Consumers
  <2>. QED  BY <2>4, <2>5 DEF Drained
<1>5. CASE AddPackets(t)
  <2>1. PICK e \in Edges, k \in Nat : e = Arg(t, 2) /\ k = Arg(t, 3)
    BY <1>5, ArgFacts DEF AddPackets
  <2>2. /\ At(t, "AddPackets")
        /\ len' = [len EXCEPT ![e] = @ + k]
        /\ Then(t, If(len[e] = 0, AddNodeOp(Consumer[e])))
    BY <1>5, <2>1 DEF AddPackets
  <2>3. Consumer[e] \in Nodes
    BY GraphAssumption
  <2>. DEFINE r == If(len[e] = 0, AddNodeOp(Consumer[e]))
  <2>4. r \in Seq(OfKinds({"AddNode"}))
    BY <2>3, AddNodeKinds, IfType
  <2>5. len[e] = 0 => <<"AddNode", Consumer[e]>> \in Ops(r)
    <3>1. ASSUME len[e] = 0 PROVE r = << <<"AddNode", Consumer[e]>> >>
      BY <3>1, Zenon DEF If, AddNodeOp
    <3>2. Ops(<< <<"AddNode", Consumer[e]>> >>) = {<<"AddNode", Consumer[e]>>}
      BY OpsOne
    <3>. HIDE DEF r
    <3>. QED  BY <3>1, <3>2
  <2>. HIDE DEF r
  <2>6. Then(t, r)
    BY <2>2 DEF r
  <2>7. /\ DeliveredInTasks' /\ LookedAtAfter'
        /\ \A n \in Consumers : Attended(n) \/ Excused(n) => Attended(n)' \/ Excused(n)'
    <3>1. "AddPackets" \notin Guards
      BY DEF Guards
    <3>2. \A op \in Ops(r) : ~ Delivery(op)
      <4>1. \A op \in Ops(r) : op[1] = "AddNode"
        BY <2>4, OfKindsOps
      <4>. QED  BY <4>1 DEF Delivery
    <3>. QED  BY <1>1, <1>2, <2>2, <2>4, <2>6, <3>1, <3>2, CalmDrain
  <2>8. e \notin FedByApps => t \in Workers /\ Working(t)
    <3>1. Head(agenda[t]) \in Ops(agenda[t]) /\ Head(agenda[t])[1] = "AddPackets"
      BY <2>2, HeadIs
    <3>2. Head(agenda[t])[2] = e
      BY <2>1 DEF Arg
    <3>. QED  BY <3>1, <3>2 DEF Drained, DeliveredInTasks, Delivery
  <2>9. ASSUME NEW n \in Consumers, HasPackets(n)', ~ HasPackets(n)
        PROVE  n = Consumer[e] /\ e \notin FedByApps /\ len[e] = 0
    <3>0. n \in Nodes
      BY DEF Consumers
    <3>1. PICK f \in Ports(n) \ FedByApps : len'[f] > 0
      BY <2>9 DEF HasPackets
    <3>2. ~ (len[f] > 0)
      BY <2>9, <3>1 DEF HasPackets
    <3>3. PICK i \in 1..Len(InputPorts[n]) : f = InputPorts[n][i]
      BY <3>1 DEF Ports
    <3>4. f \in Edges /\ Consumer[f] = n
      <4>1. InputPorts[n] \in Seq(Edges)
        BY <3>0, GraphAssumption
      <4>2. f \in Edges
        BY <3>3, <4>1
      <4>3. \A m \in Nodes : \A j \in 1..Len(InputPorts[m]) : Consumer[InputPorts[m][j]] = m
        BY GraphAssumption
      <4>4. Consumer[InputPorts[n][i]] = n
        BY <3>0, <3>3, <4>3
      <4>. QED  BY <3>3, <4>2, <4>4
    <3>5. f = e
      BY <2>2, <3>1, <3>2, <3>4 DEF Counted
    <3>6. len[e] \in Nat
      BY DEF Counted
    <3>. QED  BY <3>1, <3>2, <3>4, <3>5, <3>6
  <2>10. ASSUME e \notin FedByApps, len[e] = 0 PROVE Guarded(Consumer[e])'
    <3>1. r \in Seq(Operations) /\ "AddNode" \in Guards /\ "AddPackets" # "Finished"
      BY <2>4, OfKindsOps DEF Guards
    <3>2. <<"AddNode", Consumer[e]>> \in Ops(r) /\ t \in Workers /\ Working(t)
      BY <2>5, <2>8, <2>10
    <3>3. \A n : <<"AddNode", n>> \in Ops(r) => Guarded(n)'
      BY <2>2, <2>6, <3>1, <3>2, GuardsKept
    <3>. QED  BY <3>2, <3>3
  <2>11. PacketsAttended'
    <3>1. ASSUME NEW n \in Consumers, HasPackets(n)' PROVE Attended(n)' \/ Excused(n)'
      <4>1. CASE HasPackets(n)
        BY <2>7, <4>1 DEF Drained, PacketsAttended
      <4>2. CASE ~ HasPackets(n)
        <5>1. n = Consumer[e] /\ e \notin FedByApps /\ len[e] = 0
          BY <2>9, <3>1, <4>2
        <5>2. Guarded(n)'
          BY <2>10, <5>1
        <5>. QED  BY <5>2 DEF Attended
      <4>. QED  BY <4>1, <4>2
    <3>. QED  BY <3>1 DEF PacketsAttended, Consumers
  <2>. QED  BY <2>7, <2>11 DEF Drained
<1>. QED  BY <1>3, <1>4, <1>5 DEF StreamStep

LEMMA IdleDrain ==
    ASSUME AgendaInv, Drained, NEW t \in Threads, IdleStep(t)
    PROVE  Drained'
<1>1. PICK k \in IdleAt : At(t, k) /\ Puts(t, IdleKinds)
  BY IdleMakes
<1>2. UNCHANGED <<queue, len, failed, cleaned>>
  BY DEF IdleStep, Enter, Leave, Begin, CheckIdle, Idle, Scan, DrainNode, FindUnfinalized,
         Judge, CloseNode, Terminate, queueVars, streamVars, historyVars
<1>3. k \notin Guards
  BY DEF Guards, IdleAt, Inside
<1>4. /\ "Decrement" \notin IdleKinds /\ "Reschedule" \notin IdleKinds
      /\ "AddPackets" \notin IdleKinds /\ "PostProcess" \notin IdleKinds
  BY DEF IdleKinds
<1>5. \A n \in Consumers : queue[n] > 0 => Attended(n)' \/ Excused(n)'
  BY <1>2, QueueSame
<1>. QED  BY <1>1, <1>2, <1>3, <1>4, <1>5, CalmStep

LEMMA AppDrain ==
    ASSUME AgendaInv, Drained, script \in [Apps -> Seq(CallsOfApps)], NEW a \in Apps, AppStep(a)
    PROVE  Drained'
<1>1. a \in Threads /\ a \notin Workers
  BY ThreadsAssumption DEF Threads
<1>2. CASE CallStep(a)
  <2>1. PICK r \in Seq(FromCalls) :
           /\ agenda[a] = <<>> /\ agenda' = [agenda EXCEPT ![a] = r]
           /\ UNCHANGED <<queueVars, blocked, cur, seen, streamVars, finalVars, historyVars>>
    BY <1>2, CallMakes
  <2>2. UNCHANGED <<queue, len, failed, cleaned>>
    BY <2>1 DEF queueVars, streamVars, historyVars
  <2>3. FromCalls \subseteq Operations
    BY DEF FromCalls, OfKinds
  <2>4. r \in Seq(Operations)
    BY <2>3
  <2>5. \A op \in Ops(r) : ~ Delivery(op)
    <3>1. Ops(r) \subseteq FromCalls
      BY OpsType
    <3>. QED  BY <3>1 DEF FromCalls
  <2>. QED  BY <1>1, <2>1, <2>2, <2>4, <2>5, FreshDrain
<1>3. CASE ~ CallStep(a)
  <2>1. \/ OpenSource(a) \/ IncClosedGraphInputStreams(a) \/ SetState(a)
        \/ Notify(a) \/ Wait(a) \/ Block(a)
    BY <1>3 DEF AppStep
  <2>2. UNCHANGED <<queue, len, failed, cleaned>>
    BY <2>1 DEF OpenSource, IncClosedGraphInputStreams, SetState, Notify, Wait, Block,
                queueVars, streamVars, historyVars
  <2>3. PICK k \in {"OpenSource", "Wait", "IncClosed", "SetState", "Notify", "Block"},
             L \in {{"AddNode"}, {"Block", "Wait"}, {}} : At(a, k) /\ Puts(a, L)
    BY <2>1, AppMakes
  <2>4. k \notin Guards
    BY DEF Guards
  <2>5. \A n \in Consumers : queue[n] > 0 => Attended(n)' \/ Excused(n)'
    BY <2>2, QueueSame
  <2>6. /\ "Decrement" \notin L /\ "Reschedule" \notin L
        /\ "AddPackets" \notin L /\ "PostProcess" \notin L
    BY <2>3
  <2>. QED  BY <1>1, <2>2, <2>3, <2>4, <2>5, <2>6, CalmStep
<1>. QED  BY <1>2, <1>3

\* Process and Finalize give up their node's guard for others.
LEMMA RunDrain ==
    ASSUME AgendaInv, Drained, NEW w \in Workers, NEW k \in {"Process", "Finalize"}, At(w, k),
           NEW n \in Nodes, Head(agenda[w]) = <<k, n>>,
           NEW r \in Seq(Operations), Then(w, r),
           NoneAfter(r, {"Reschedule"}, {"Decrement"}),
           \A m : <<"Decrement", m>> \in Ops(r) => m = n,
           \/ <<"Finalize", n>> \in Ops(r) /\ \A op \in Ops(r) : op[1] # "Decrement"
           \/ n \in failed'
           \/ n \in Consumers => <<"Reschedule", n>> \in Ops(r),
           UNCHANGED <<queue, len, cleaned>>, failed \subseteq failed'
    PROVE  Drained'
<1>. w \in Threads
  BY DEF Threads
<1>1. /\ Ops(agenda'[w]) = Ops(r) \cup Rest(agenda[w])
      /\ Ops(agenda[w]) = {Head(agenda[w])} \cup Rest(agenda[w])
      /\ \A u \in Threads : u # w => agenda'[u] = agenda[u]
      /\ Replaces(agenda'[w], r, agenda[w])
  BY OpsStep
<1>2. Rest(agenda[w]) = {<<"Finished">>}
  BY RunLast
<1>3. Working(w)
  BY <1>1, <1>2 DEF Working
<1>4. k # "Finished"
  OBVIOUS
<1>5. DeliveredInTasks'
  BY <1>3, <1>4, DeliveredKept DEF Drained
<1>6. ASSUME NEW v \in Workers
      PROVE  /\ NoneAfter(agenda'[v], {"Reschedule"}, {"Decrement"})
             /\ \A m \in Consumers :
                    <<"Decrement", m>> \in Ops(agenda'[v]) =>
                        m \in failed' \/ <<"Reschedule", m>> \in Ops(agenda'[v])
  <2>1. CASE v # w
    <3>1. agenda'[v] = agenda[v]
      BY <1>1, <2>1 DEF Threads
    <3>. QED  BY <3>1 DEF LookedAtAfter, Drained
  <2>2. CASE v = w
    <3>1. ~ RestHas(agenda[w], {"Decrement"})
      <4>1. \A i \in 2..Len(agenda[w]) : agenda[w][i] = <<"Finished">>
        BY <1>2 DEF Rest
      <4>2. <<"Finished">>[1] # "Decrement"
        OBVIOUS
      <4>. QED  BY <4>1, <4>2 DEF RestHas
    <3>2. NoneAfter(agenda[w], {"Reschedule"}, {"Decrement"})
      BY DEF LookedAtAfter, Drained
    <3>3. NoneAfter(agenda'[w], {"Reschedule"}, {"Decrement"})
      BY <1>1, <3>1, <3>2, NoneAfterKept
    <3>4. ASSUME NEW m \in Consumers, <<"Decrement", m>> \in Ops(agenda'[w])
          PROVE  m \in failed' \/ <<"Reschedule", m>> \in Ops(agenda'[w])
      <4>1. <<"Decrement", m>>[1] = "Decrement" /\ <<"Finished">>[1] = "Finished"
        OBVIOUS
      <4>2. <<"Decrement", m>> \in Ops(r)
        BY <1>1, <1>2, <3>4, <4>1
      <4>. QED  BY <1>1, <4>1, <4>2
    <3>. QED  BY <2>2, <3>3, <3>4
  <2>. QED  BY <2>1, <2>2
<1>7. LookedAtAfter'
  BY <1>6 DEF LookedAtAfter
<1>8. \A m : Guarded(m) => Guarded(m)' \/ <<k, n>> = <<k, m>>
  BY GuardsKept
<1>9. n \in Consumers => Attended(n)' \/ Excused(n)'
  <2>1. \A g \in Guards : <<g, n>> \in Ops(r) => Guarded(n)'
    BY <1>3, <1>4, GuardsKept
  <2>2. "Finalize" \in Guards /\ "Reschedule" \in Guards
    BY DEF Guards
  <2>. QED  BY <2>1, <2>2 DEF Attended, Excused
<1>10. \A m \in Consumers : HasPackets(m)' => HasPackets(m)
  BY FewerPackets
<1>11. PacketsAttended'
  <2>1. ASSUME NEW m \in Consumers, HasPackets(m)' PROVE Attended(m)' \/ Excused(m)'
    <3>1. Attended(m) \/ Excused(m)
      BY <1>10, <2>1 DEF Drained, PacketsAttended
    <3>2. CASE m = n
      BY <1>9, <3>2
    <3>3. CASE m # n
      <4>1. <<k, n>> # <<k, m>>
        BY <3>3
      <4>2. Guarded(m) => Guarded(m)'
        BY <1>8, <4>1
      <4>. QED  BY <3>1, <4>2 DEF Attended, Excused
    <3>. QED  BY <3>2, <3>3
  <2>. QED  BY <2>1 DEF PacketsAttended, Consumers
<1>. QED  BY <1>5, <1>7, <1>11 DEF Drained

LEMMA WorkerDrain ==
    ASSUME AgendaInv, Counted, Drained, NEW w \in Workers, WorkerStep(w)
    PROVE  Drained'
<1>. w \in Threads
  BY DEF Threads
<1>1. CASE TakeTask(w)
  <2>. DEFINE r == << <<"TryPop">> >>
  <2>1. agenda[w] = <<>> /\ agenda' = [agenda EXCEPT ![w] = r]
    BY <1>1 DEF TakeTask
  <2>2. UNCHANGED <<queue, len, failed, cleaned>>
    BY <1>1 DEF TakeTask, DequeueTask, streamVars, historyVars
  <2>3. <<"TryPop">> \in Operations
    BY OpsMade DEF PlainKinds
  <2>4. r \in Seq(Operations) /\ Ops(r) = {<<"TryPop">>}
    BY <2>3, OpsOne
  <2>. HIDE DEF r
  <2>5. \A op \in Ops(r) : ~ Delivery(op) /\ op[1] \notin {"Decrement", "Reschedule"}
    BY <2>4 DEF Delivery
  <2>. QED  BY <2>1, <2>2, <2>4, <2>5, FreshDrain
<1>2. CASE TryPop(w)
  <2>0. At(w, "TryPop") /\ "TryPop" \notin Guards
    BY <1>2 DEF TryPop, Guards
  <2>1. UNCHANGED <<len, failed, cleaned>>
    BY <1>2 DEF TryPop, streamVars, historyVars
  <2>2. ASSUME NEW n \in NodesOf(WorkerQueue[w]), PopItem(n),
               NEW r \in Seq(OfKinds({"PopQueueHead", "Process", "Finished"})), Then(w, r),
               <<"Process", n>> \in Ops(r), <<"Finished">> \in Ops(r)
        PROVE  Drained'
    <3>1. r \in Seq(Operations) /\ \A op \in Ops(r) : op[1] \in {"PopQueueHead", "Process", "Finished"}
      BY OfKindsOps
    <3>2. \A op \in Ops(r) : ~ Delivery(op)
      BY <3>1 DEF Delivery
    <3>3. Guarded(n)'
      <4>1. "Process" \in Guards
        BY DEF Guards
      <4>. QED  BY <2>0, <2>2, <3>1, <4>1, GuardsKept
    <3>4. \A m \in Consumers : queue[m] > 0 => Attended(m)' \/ Excused(m)'
      <4>1. n \in Nodes
        BY DEF NodesOf
      <4>2. queue' = [queue EXCEPT ![n] = @ - 1]
        BY <2>2 DEF PopItem
      <4>. QED  BY <3>3, <4>1, <4>2 DEF Attended, Consumers, Counted
    <3>5. /\ DeliveredInTasks' /\ LookedAtAfter'
          /\ \A m \in Consumers : Attended(m) \/ Excused(m) => Attended(m)' \/ Excused(m)'
      BY <2>0, <2>1, <2>2, <3>2, <3>4, CalmDrain
    <3>6. PacketsAttended'
      BY <2>1, <3>5, FewerPackets DEF Drained, PacketsAttended, Consumers
    <3>. QED  BY <3>5, <3>6 DEF Drained
  <2>3. ASSUME Puts(w, {"NoItem"}), UNCHANGED <<queueVars, cur>> PROVE Drained'
    <3>1. queue' = queue
      BY <2>3 DEF queueVars
    <3>2. \A n \in Consumers : queue[n] > 0 => Attended(n)' \/ Excused(n)'
      BY <3>1, QueueSame
    <3>. QED  BY <2>0, <2>1, <2>3, <3>2, CalmStep
  <2>. QED  BY <1>2, <2>2, <2>3, TryPopMakes
<1>3. CASE Process(w)
  <2>1. PICK n \in Nodes : n = cur[w]
    BY <1>3, ProcessMakes
  <2>2. PICK r \in Seq(OfKinds(ProcessKinds)) :
                 /\ Then(w, r)
                 /\ NoneAfter(r, {"Reschedule"}, {"Decrement"})
                 /\ \A m : <<"Decrement", m>> \in Ops(r) => m = n
                 /\ \/ /\ <<"Finalize", n>> \in Ops(r)
                       /\ \A op \in Ops(r) : op[1] # "Decrement"
                    \/ cur[w] \in failed'
                    \/ n \in Consumers => <<"Reschedule", n>> \in Ops(r)
    BY <1>3, <2>1, ProcessMakes
  <2>3. At(w, "Process") /\ Head(agenda[w]) = <<"Process", n>>
    BY <1>3, <2>1, ProcessMakes
  <2>4. UNCHANGED <<queue, len, cleaned>>
    BY <1>3 DEF Process, queueVars
  <2>5. failed \subseteq failed'
    BY <1>3 DEF Process, ProcessOk, ProcessStop, ProcessError
  <2>6. r \in Seq(Operations)
    BY OfKindsOps
  <2>7. cur[w] \in failed' => n \in failed'
    BY <2>1
  <2>. QED  BY <2>2, <2>3, <2>4, <2>5, <2>6, <2>7, RunDrain
<1>4. CASE Finalize(w)
  <2>1. PICK n \in Nodes : n = cur[w]
    BY <1>4, FinalizeMakes
  <2>2. PICK r \in Seq(OfKinds(FinalizeKinds)) :
                 /\ Then(w, r)
                 /\ NoneAfter(r, {"Reschedule"}, {"Decrement"})
                 /\ \A m : <<"Decrement", m>> \in Ops(r) => m = n
                 /\ n \in Consumers => <<"Reschedule", n>> \in Ops(r)
    BY <1>4, <2>1, FinalizeMakes
  <2>3. At(w, "Finalize") /\ Head(agenda[w]) = <<"Finalize", n>>
    BY <1>4, <2>1, FinalizeMakes
  <2>4. UNCHANGED <<queue, len, cleaned, failed>>
    BY <1>4 DEF Finalize, queueVars, streamVars, historyVars
  <2>5. r \in Seq(Operations)
    BY OfKindsOps
  <2>. QED  BY <2>2, <2>3, <2>4, <2>5, RunDrain
<1>5. CASE OnTaskFinished(w)
  <2>1. PICK k \in {"Finished", "NoItem"} : At(w, k) /\ Puts(w, {"Count", "Send", "Enter"})
    BY <1>5, FinishedMakes
  <2>2. UNCHANGED <<queue, len, failed, cleaned>>
    BY <1>5 DEF OnTaskFinished, UncountTask, streamVars, historyVars
  <2>3. k \notin Guards
    BY DEF Guards
  <2>4. \A n \in Consumers : queue[n] > 0 => Attended(n)' \/ Excused(n)'
    BY <2>2, QueueSame
  <2>. QED  BY <2>1, <2>2, <2>3, <2>4, CalmStep
<1>6. CASE PopQueueHead(w) \/ Decrement(w) \/ SafetyNet(w) \/ SourceStopped(w) \/ ErrorCallback(w)
  <2>1. UNCHANGED <<queue, failed, cleaned>>
    BY <1>6 DEF PopQueueHead, Decrement, SafetyNet, SourceStopped, ErrorCallback,
                DecrementPending, queueVars, historyVars
  <2>2. \A e \in Edges : len'[e] > 0 => len[e] > 0
    <3>1. CASE PopQueueHead(w)
      <4>1. PICK f \in Edges : f = Arg(w, 2)
        BY <3>1, ArgFacts DEF PopQueueHead
      <4>2. (len' = [len EXCEPT ![f] = @ - 1] /\ len[f] > 0) \/ len' = len
        BY <3>1, <4>1 DEF PopQueueHead
      <4>. QED  BY <4>2 DEF Counted
    <3>2. CASE len' = len
      BY <3>2
    <3>. QED  BY <1>6, <3>1, <3>2 DEF Decrement, SafetyNet, SourceStopped, ErrorCallback,
                                    streamVars
  <2>3. PICK k \in {"PopQueueHead", "Decrement", "SourceStopped", "ErrorCallback", "SafetyNet"},
             L \in {{"AddNode"}, {}} : At(w, k) /\ Puts(w, L)
    <3>1. ~ At(w, "Reschedule")
      BY <1>6 DEF At, PopQueueHead, Decrement, SafetyNet, SourceStopped, ErrorCallback
    <3>. QED  BY <1>6, <3>1, WorkerMakes
  <2>4. k \notin Guards
    BY DEF Guards
  <2>5. \A n \in Consumers : queue[n] > 0 => Attended(n)' \/ Excused(n)'
    BY <2>1, QueueSame
  <2>6. /\ "Decrement" \notin L /\ "Reschedule" \notin L
        /\ "AddPackets" \notin L /\ "PostProcess" \notin L
    BY <2>3
  <2>. QED  BY <2>1, <2>2, <2>3, <2>4, <2>5, <2>6, CalmStep
<1>7. CASE Reschedule(w)
  <2>1. PICK n \in Nodes : n = Arg(w, 2)
    BY <1>7, ArgFacts DEF Reschedule, NodeKinds
  <2>2. /\ At(w, "Reschedule")
        /\ Then(w, If(HasPendingInput(n), AddNodeOp(n)))
        /\ UNCHANGED <<queue, len, failed, cleaned>>
    BY <1>7, <2>1 DEF Reschedule, queueVars, streamVars, historyVars
  <2>. DEFINE r == If(HasPendingInput(n), AddNodeOp(n))
  <2>3. r \in Seq(OfKinds({"AddNode"}))
    BY AddNodeKinds, IfType
  <2>4. HasPendingInput(n) => <<"AddNode", n>> \in Ops(r)
    <3>1. ASSUME HasPendingInput(n) PROVE r = << <<"AddNode", n>> >>
      BY <3>1, Zenon DEF If, AddNodeOp
    <3>2. Ops(<< <<"AddNode", n>> >>) = {<<"AddNode", n>>}
      BY OpsOne
    <3>. HIDE DEF r
    <3>. QED  BY <3>1, <3>2
  <2>. HIDE DEF r
  <2>5. Then(w, r)
    BY <2>2 DEF r
  <2>6. \A op \in Ops(r) : ~ Delivery(op)
    <3>1. \A op \in Ops(r) : op[1] = "AddNode"
      BY <2>3, OfKindsOps
    <3>. QED  BY <3>1 DEF Delivery
  <2>7. \A m \in Consumers : queue[m] > 0 => Attended(m)' \/ Excused(m)'
    BY <2>2, QueueSame
  <2>8. /\ DeliveredInTasks' /\ LookedAtAfter'
        /\ \A m \in Consumers : Attended(m) \/ Excused(m) =>
              \/ Attended(m)' \/ Excused(m)'
              \/ Head(agenda[w]) = <<"Reschedule", m>> /\ Working(w)
    BY <2>2, <2>3, <2>5, <2>6, <2>7, CalmDrain
  <2>9. \A m \in Consumers : HasPackets(m)' => HasPackets(m)
    BY <2>2, FewerPackets
  <2>10. ASSUME HasPackets(n), Working(w) PROVE Guarded(n)'
    <3>1. HasPendingInput(n)
      BY <2>10 DEF HasPackets, HasPendingInput
    <3>2. r \in Seq(Operations) /\ "AddNode" \in Guards /\ "Reschedule" # "Finished"
      BY <2>3, OfKindsOps DEF Guards
    <3>3. \A m : <<"AddNode", m>> \in Ops(r) => Guarded(m)'
      BY <2>2, <2>5, <2>10, <3>2, GuardsKept
    <3>. QED  BY <2>4, <3>1, <3>3
  <2>11. Head(agenda[w]) = <<"Reschedule", n>>
    BY <2>1, <2>2, HeadIs DEF NodeKinds
  <2>12. PacketsAttended'
    <3>1. ASSUME NEW m \in Consumers, HasPackets(m)' PROVE Attended(m)' \/ Excused(m)'
      <4>1. HasPackets(m) /\ (Attended(m) \/ Excused(m))
        BY <2>9, <3>1 DEF Drained, PacketsAttended
      <4>2. CASE Head(agenda[w]) = <<"Reschedule", m>> /\ Working(w)
        <5>1. m = n
          BY <2>11, <4>2
        <5>. QED  BY <2>10, <4>1, <4>2, <5>1 DEF Attended
      <4>. QED  BY <2>8, <4>1, <4>2
    <3>. QED  BY <3>1 DEF PacketsAttended, Consumers
  <2>. QED  BY <2>8, <2>12 DEF Drained
<1>. QED  BY <1>1, <1>2, <1>3, <1>4, <1>5, <1>6, <1>7 DEF WorkerStep

-----------------------------------------------------------------------------
(* Before Start nothing runs.                                              *)

\* HandleIdle gives up before Start.
LEMMA EarlyIdle ==
    ASSUME AgendaInv, NEW t \in Threads, state = "NotStarted",
           Enter(t) \/ Leave(t) \/ Begin(t) \/ CheckIdle(t) \/ Idle(t)
    PROVE  Puts(t, EarlyKinds)
<1>1. /\ <<"Leave">> \in OfKinds(EarlyKinds) /\ <<"Begin">> \in OfKinds(EarlyKinds)
      /\ <<"CheckIdle", 1, InputsRemaining>> \in OfKinds(EarlyKinds)
      /\ \A i \in 1..Len(AllQueues), b \in BOOLEAN :
            <<"CheckIdle", i, b>> \in OfKinds(EarlyKinds)
      /\ \A b \in BOOLEAN : <<"Idle", b>> \in OfKinds(EarlyKinds)
  BY KindOps, NotEmptyGraph DEF EarlyKinds, PlainKinds, InputsRemaining
<1>2. ASSUME NEW x \in OfKinds(EarlyKinds), Then(t, <<x>>) PROVE Puts(t, EarlyKinds)
  <2>1. <<x>> \in Seq(OfKinds(EarlyKinds))
    OBVIOUS
  <2>. QED  BY <1>2, <2>1, Zenon DEF Puts
<1>3. CASE Enter(t)
  <2>1. Then(t, << <<"Leave">> >>) \/ Then(t, << <<"Begin">> >>)
    BY <1>3 DEF Enter, LeaveOp
  <2>. QED  BY <1>1, <1>2, <2>1
<1>4. CASE Leave(t)
  BY <1>4, NoneKinds DEF Leave
<1>5. CASE Begin(t)
  <2>1. Then(t, << <<"CheckIdle", 1, InputsRemaining>> >>)
    BY <1>5 DEF Begin
  <2>. QED  BY <1>1, <1>2, <2>1
<1>6. CASE CheckIdle(t)
  <2>1. PICK i \in 1..Len(AllQueues), rem \in BOOLEAN : i = Arg(t, 2) /\ rem = Arg(t, 3)
    BY <1>6, ArgFacts DEF CheckIdle
  <2>2. \/ Then(t, << <<"Leave">> >>)
        \/ i < Len(AllQueues) /\ Then(t, << <<"CheckIdle", i + 1, rem>> >>)
        \/ Then(t, << <<"Idle", rem>> >>)
    BY <1>6, <2>1 DEF CheckIdle, LeaveOp
  <2>3. i < Len(AllQueues) => i + 1 \in 1..Len(AllQueues)
    BY NotEmptyGraph
  <2>. QED  BY <1>1, <1>2, <2>2, <2>3
<1>7. CASE Idle(t)
  <2>1. Then(t, << <<"Leave">> >>)
    BY <1>7 DEF Idle, LeaveOp
  <2>. QED  BY <1>1, <1>2, <2>1
<1>. QED  BY <1>3, <1>4, <1>5, <1>6, <1>7

\* What NothingRuns says of one thread, and what it makes of a step.
LEMMA EarlyHead ==
    ASSUME AgendaInv, NothingRuns, state = "NotStarted", NEW t \in Threads, NEW k, At(t, k)
    PROVE  k \in EarlyKinds /\ t \notin Workers
<1>1. Head(agenda[t]) \in Ops(agenda[t]) /\ Head(agenda[t])[1] = k
  BY HeadIs
<1>2. agenda[t] # <<>>
  BY DEF At
<1>. QED  BY <1>1, <1>2 DEF NothingRuns

LEMMA EarlyStep ==
    ASSUME AgendaInv, NothingRuns, state = "NotStarted", NEW t \in Threads, NEW k, At(t, k),
           NEW L, L \subseteq EarlyKinds, Puts(t, L), tasks' = tasks,
           \A e \in Edges \ FedByApps : len'[e] = len[e]
    PROVE  NothingRuns'
<1>1. PICK r \in Seq(OfKinds(L)) : Then(t, r)
  BY DEF Puts
<1>2. r \in Seq(Operations) /\ \A op \in Ops(r) : op[1] \in EarlyKinds
  BY OfKindsOps
<1>3. /\ Ops(agenda'[t]) = Ops(r) \cup Rest(agenda[t])
      /\ Ops(agenda[t]) = {Head(agenda[t])} \cup Rest(agenda[t])
      /\ \A u \in Threads : u # t => agenda'[u] = agenda[u]
  BY <1>1, <1>2, OpsStep
<1>4. t \notin Workers
  BY EarlyHead
<1>5. \A w \in Workers : agenda'[w] = <<>>
  BY <1>3, <1>4 DEF NothingRuns, Threads
<1>6. \A u \in Threads : \A op \in Ops(agenda'[u]) : op[1] \in EarlyKinds
  BY <1>2, <1>3 DEF NothingRuns
<1>. QED  BY <1>5, <1>6 DEF NothingRuns

LEMMA NothingRunsStep ==
    ASSUME AgendaInv, Counted, script \in [Apps -> Seq(CallsOfApps)],
           NothingRuns, DeliveredInTasks, Next
    PROVE  NothingRuns'
<1>. SUFFICES ASSUME state' = "NotStarted" PROVE NothingRuns'
  BY DEF NothingRuns
<1>1. ASSUME NEW t \in Threads, CommonStep(t) PROVE NothingRuns'
  <2>1. CASE QueueStep(t)
    <3>1. state = "NotStarted"
      BY <2>1 DEF QueueStep, AddNode, SubmitToExecutor, SetRunning, SubmitWaiting, Cleanup,
                  schedVars
    <3>2. PICK k \in {"AddNode", "Count", "Send", "SetRunning", "SubmitWaiting", "Cleanup"} :
             At(t, k)
      BY <2>1, QueueMakes
    <3>3. k = "AddNode"
      BY <3>1, <3>2, EarlyHead DEF EarlyKinds
    <3>4. AddNode(t)
      BY <2>1, <3>2, <3>3 DEF QueueStep, At, SubmitToExecutor, SetRunning, SubmitWaiting,
                              Cleanup
    <3>5. Then(t, <<>>) /\ UNCHANGED <<tasks, len>>
      BY <3>1, <3>4 DEF AddNode, queueVars, streamVars
    <3>6. Puts(t, {})
      BY <3>5, NoneKinds
    <3>. QED  BY <3>1, <3>2, <3>5, <3>6, EarlyStep
  <2>2. CASE StreamStep(t)
    <3>1. state = "NotStarted" /\ tasks' = tasks
      BY <2>2 DEF StreamStep, AddPackets, SetDone, PostProcess, BoundDone, CloseManager,
                  schedVars, queueVars
    <3>2. ASSUME NEW k, At(t, k) PROVE k \in EarlyKinds
      BY <3>1, <3>2, EarlyHead
    <3>3. \E k \in {"AddPackets", "SetDone", "CloseManager"} :
             At(t, k) /\ (Puts(t, {"AddNode"}) \/ Puts(t, {"SetDone"}))
      BY <2>2, <3>2, StreamMakes DEF EarlyKinds
    <3>4. CASE ~ AddPackets(t)
      <4>1. len' = len
        BY <2>2, <3>4 DEF StreamStep, SetDone, PostProcess, BoundDone, CloseManager, streamVars
      <4>2. {"AddNode"} \subseteq EarlyKinds /\ {"SetDone"} \subseteq EarlyKinds
        BY DEF EarlyKinds
      <4>. QED  BY <3>1, <3>3, <4>1, <4>2, EarlyStep
    <3>5. CASE AddPackets(t)
      <4>1. At(t, "AddPackets")
        BY <3>5 DEF AddPackets
      <4>2. PICK e \in Edges : e = Arg(t, 2)
        BY <4>1, ArgFacts
      <4>3. len' = [len EXCEPT ![e] = @ + Arg(t, 3)]
        BY <3>5, <4>2 DEF AddPackets
      <4>4. e \in FedByApps
        <5>1. Head(agenda[t]) \in Ops(agenda[t]) /\ Head(agenda[t])[1] = "AddPackets"
          BY <4>1, HeadIs
        <5>2. Head(agenda[t])[2] = e
          BY <4>2 DEF Arg
        <5>3. t \notin Workers
          BY <3>1, <4>1, EarlyHead
        <5>. QED  BY <5>1, <5>2, <5>3 DEF DeliveredInTasks, Delivery
      <4>5. \A f \in Edges \ FedByApps : len'[f] = len[f]
        BY <4>3, <4>4 DEF Counted
      <4>6. {"AddNode"} \subseteq EarlyKinds /\ {"SetDone"} \subseteq EarlyKinds
        BY DEF EarlyKinds
      <4>. QED  BY <3>1, <3>3, <4>5, <4>6, EarlyStep
    <3>. QED  BY <3>4, <3>5
  <2>3. CASE IdleStep(t)
    <3>1. tasks' = tasks /\ len' = len
      BY <2>3 DEF IdleStep, Enter, Leave, Begin, CheckIdle, Idle, Scan, DrainNode,
                  FindUnfinalized, Judge, CloseNode, Terminate, queueVars, streamVars
    <3>2. state = "NotStarted"
      BY <2>3 DEF IdleStep, Enter, Leave, Begin, CheckIdle, Idle, Scan, DrainNode,
                  FindUnfinalized, Judge, CloseNode, Terminate, schedVars
    <3>3. PICK k \in IdleAt : At(t, k)
      BY <2>3, IdleMakes
    <3>4. k \in {"Enter", "Leave", "Begin", "CheckIdle", "Idle"}
      BY <3>2, <3>3, EarlyHead DEF EarlyKinds, IdleAt, Inside
    <3>5. Enter(t) \/ Leave(t) \/ Begin(t) \/ CheckIdle(t) \/ Idle(t)
      BY <2>3, <3>3, <3>4 DEF IdleStep, At, Scan, DrainNode, FindUnfinalized, Judge, CloseNode,
                              Terminate
    <3>6. Puts(t, EarlyKinds)
      BY <3>2, <3>5, EarlyIdle
    <3>. QED  BY <3>1, <3>2, <3>3, <3>6, EarlyStep
  <2>. QED  BY <1>1, <2>1, <2>2, <2>3 DEF CommonStep
<1>2. ASSUME NEW w \in Workers, WorkerStep(w) PROVE NothingRuns'
  <2>0. w \in Threads
    BY DEF Threads
  <2>1. state = "NotStarted"
    BY <1>2 DEF WorkerStep, TakeTask, TryPop, PopQueueHead, Process, Finalize, Decrement,
                Reschedule, SafetyNet, SourceStopped, ErrorCallback, OnTaskFinished, schedVars
  <2>2. agenda[w] = <<>>
    BY <2>1 DEF NothingRuns
  <2>3. TakeTask(w)
    BY <1>2, <2>2 DEF WorkerStep, TryPop, PopQueueHead, Process, Finalize, Decrement,
                      Reschedule, SafetyNet, SourceStopped, ErrorCallback, OnTaskFinished, At
  <2>4. WorkerQueue[w] \in Queues
    BY ThreadsAssumption
  <2>5. tasks[WorkerQueue[w]] = 0
    BY <2>1, <2>4 DEF NothingRuns
  <2>6. tasks[WorkerQueue[w]] > 0
    BY <2>3 DEF TakeTask, DequeueTask
  <2>. QED  BY <2>5, <2>6
<1>3. ASSUME NEW a \in Apps, AppStep(a) PROVE NothingRuns'
  <2>0. a \in Threads /\ a \notin Workers
    BY ThreadsAssumption DEF Threads
  <2>1. CASE CallStep(a)
    <3>1. PICK r \in Seq(FromCalls) :
             /\ agenda[a] = <<>> /\ agenda' = [agenda EXCEPT ![a] = r]
             /\ r \in Seq(EarlyCalls) /\ state = "NotStarted"
             /\ UNCHANGED <<queueVars, streamVars>>
      BY <2>1, CallMakes
    <3>2. Ops(r) \subseteq EarlyCalls
      BY <3>1, OpsType
    <3>3. /\ agenda'[a] = r
          /\ \A u \in Threads : u # a => agenda'[u] = agenda[u]
      BY <2>0, <3>1, OpsFresh
    <3>4. \A w \in Workers : agenda'[w] = <<>>
      BY <2>0, <3>1, <3>3 DEF NothingRuns, Threads
    <3>5. \A u \in Threads : \A op \in Ops(agenda'[u]) : op[1] \in EarlyKinds
      BY <3>1, <3>2, <3>3 DEF NothingRuns, EarlyCalls
    <3>6. UNCHANGED <<tasks, len>>
      BY <3>1 DEF queueVars, streamVars
    <3>. QED  BY <3>1, <3>4, <3>5, <3>6 DEF NothingRuns
  <2>2. CASE ~ CallStep(a)
    <3>1. \/ OpenSource(a) \/ IncClosedGraphInputStreams(a) \/ SetState(a)
          \/ Notify(a) \/ Wait(a) \/ Block(a)
      BY <1>3, <2>2 DEF AppStep
    <3>2. state = "NotStarted"
      <4>1. CASE SetState(a)
        <5>1. state' \in LaterStates
          BY <2>0, <4>1, ArgFacts DEF SetState
        <5>. QED  BY <5>1 DEF LaterStates
      <4>2. CASE ~ SetState(a)
        BY <3>1, <4>2 DEF OpenSource, IncClosedGraphInputStreams, Notify, Wait, Block, schedVars
      <4>. QED  BY <4>1, <4>2
    <3>3. UNCHANGED <<tasks, len>>
      BY <3>1 DEF OpenSource, IncClosedGraphInputStreams, SetState, Notify, Wait, Block,
                  queueVars, streamVars
    <3>4. \A k : At(a, k) => k \in EarlyKinds
      BY <2>0, <3>2, EarlyHead
    <3>5. \E k : At(a, k) /\ Puts(a, {})
      BY <3>1, <3>4, AppMakes DEF EarlyKinds
    <3>. QED  BY <2>0, <3>2, <3>3, <3>5, EarlyStep
  <2>. QED  BY <2>1, <2>2
<1>. QED  BY <1>1, <1>2, <1>3 DEF Next

-----------------------------------------------------------------------------
(* No packet is left behind.                                               *)

LEMMA DrainInit == Init => DrainInv
<1>. SUFFICES ASSUME Init PROVE DrainInv
  OBVIOUS
<1>1. /\ \A t \in Threads : agenda[t] = <<>>
      /\ \A e \in Edges : len[e] = 0
      /\ \A q \in Queues : tasks[q] = 0
  BY DEF Init, QueueInit
<1>2. \A t \in Threads : Ops(agenda[t]) = {}
  BY <1>1, OpsEmpty
<1>3. NothingRuns
  BY <1>1, <1>2 DEF NothingRuns, Threads
<1>4. DeliveredInTasks
  BY <1>2 DEF DeliveredInTasks
<1>5. LookedAtAfter
  <2>1. \A w \in Workers : w \in Threads
    BY DEF Threads
  <2>2. \A w \in Workers : NoneAfter(agenda[w], {"Reschedule"}, {"Decrement"})
    BY <1>1, <2>1 DEF NoneAfter
  <2>. QED  BY <1>2, <2>1, <2>2 DEF LookedAtAfter
<1>6. \A n \in Consumers : ~ HasPackets(n)
  <2>1. SUFFICES ASSUME NEW n \in Nodes, NEW e \in Ports(n) PROVE ~ (len[e] > 0)
    BY DEF HasPackets, Consumers
  <2>2. InputPorts[n] \in Seq(Edges)
    BY GraphAssumption
  <2>3. e \in Edges
    BY <2>2 DEF Ports
  <2>4. len[e] = 0
    BY <1>1, <2>3
  <2>. QED  BY <2>4
<1>. QED  BY <1>3, <1>4, <1>5, <1>6 DEF DrainInv, PacketsAttended

LEMMA DrainStep ==
    ThreadsInv /\ DataTyped /\ QueueTypeOK /\ SQP!IndInv /\ DrainInv /\ [Next]_vars => DrainInv'
<1>. SUFFICES ASSUME ThreadsInv, DataTyped, QueueTypeOK, SQP!IndInv, DrainInv, [Next]_vars
              PROVE  DrainInv'
  OBVIOUS
<1>0. /\ AgendaInv /\ script \in [Apps -> Seq(CallsOfApps)]
      /\ Counted /\ Drained /\ NothingRuns
  BY DEF ThreadsInv, DataTyped, QueueTypeOK, DrainInv, Drained, Counted
<1>1. CASE UNCHANGED vars
  <2>1. UNCHANGED <<agenda, queue, tasks, len, state, failed, cleaned>>
    BY <1>1 DEF vars, threadVars, streamVars, historyVars, queueVars, schedVars
  <2>2. NothingRuns'
    BY <2>1 DEF DrainInv, NothingRuns
  <2>3. DeliveredInTasks' /\ LookedAtAfter'
    BY <2>1 DEF DrainInv, DeliveredInTasks, LookedAtAfter, Working
  <2>4. PacketsAttended'
    BY <2>1 DEF DrainInv, PacketsAttended, HasPackets, Attended, Excused, Guarded, Working
  <2>. QED  BY <2>2, <2>3, <2>4 DEF DrainInv
<1>2. CASE Next
  <2>1. SQ!PendingAccounted
    BY SameState DEF SQP!IndInv, SQP!PendingAccounted, SQ!PendingAccounted, SQP!Cardinality,
                     SQ!Cardinality
  <2>2. \A n \in Nodes : IsFiniteSet(SQ!InFlight(n))
    <3>1. \A n \in Nodes : SQ!InFlight(n) \subseteq Workers
      BY DEF SQ!InFlight
    <3>. QED  BY <3>1, ThreadsAssumption, FS_Subset
  <2>3. NothingRuns'
    BY <1>0, <1>2, NothingRunsStep DEF Drained
  <2>4. ASSUME NEW t \in Threads, CommonStep(t) PROVE Drained'
    <3>1. CASE AddNode(t)
      BY <1>0, <2>1, <2>2, <3>1, AddNodeDrain
    <3>2. CASE QueueStep(t) /\ ~ AddNode(t)
      BY <1>0, <3>2, QueueDrain
    <3>3. CASE StreamStep(t)
      BY <1>0, <3>3, StreamDrain
    <3>4. CASE IdleStep(t)
      BY <1>0, <3>4, IdleDrain
    <3>. QED  BY <2>4, <3>1, <3>2, <3>3, <3>4 DEF CommonStep
  <2>5. ASSUME NEW w \in Workers, WorkerStep(w) PROVE Drained'
    BY <1>0, <2>5, WorkerDrain
  <2>6. ASSUME NEW a \in Apps, AppStep(a) PROVE Drained'
    BY <1>0, <2>6, AppDrain
  <2>7. Drained'
    BY <1>2, <2>4, <2>5, <2>6 DEF Next
  <2>. QED  BY <2>3, <2>7 DEF DrainInv, Drained
<1>. QED  BY <1>1, <1>2

LEMMA DrainCorrect == Spec => [](DataTyped /\ DrainInv)
<1>1. Spec => []DataTyped
  BY DataInit, DataStep, ThreadsCorrect, PTL DEF Spec
<1>2. Spec => []DrainInv
  BY <1>1, DrainInit, DrainStep, ThreadsCorrect, QueuesTyped, QueuesCorrect, PTL DEF Spec
<1>. QED  BY <1>1, <1>2, PTL

\* When IsIdle holds of every queue, no packet a node has emitted is left in
\* an input stream, although AddPackets calls its callback only on an empty
\* stream and AddNode drops a node at its limit: RunNode looks again after
\* DecrementPending.
THEOREM GraphIdleMeansDrained == Spec => []IdleMeansDrained
<1>1. ThreadsInv /\ DataTyped /\ QueueTypeOK /\ DrainInv /\ SQ!IdleMeansQuiescent
         => IdleMeansDrained
  <2>. SUFFICES ASSUME ThreadsInv, DataTyped, QueueTypeOK, DrainInv, SQ!IdleMeansQuiescent,
                       \A q \in Queues : IsIdle(q), failed = {}, cleaned = {},
                       NEW n \in Consumers, NEW e \in Ports(n) \ FedByApps, len[e] # 0
                PROVE  FALSE
    BY DEF IdleMeansDrained
  <2>1. n \in Nodes /\ QueueOf[n] \in Queues
    BY QueueOfAssumption DEF Consumers
  <2>2. e \in Edges
    <3>1. InputPorts[n] \in Seq(Edges)
      BY <2>1, GraphAssumption
    <3>. QED  BY <3>1 DEF Ports
  <2>3. HasPackets(n)
    BY <2>2 DEF DataTyped, HasPackets
  <2>4. queue[n] > 0 \/ Guarded(n)
    BY <2>3 DEF DrainInv, PacketsAttended, Attended, Excused
  <2>5. ASSUME NEW w \in Workers, Working(w) PROVE w \in SQ!Holding(WorkerQueue[w])
    <3>1. Has(w, "Finished")
      BY <2>5 DEF Working, Ops, Has
    <3>2. agenda[w] # <<>>
      BY <3>1 DEF Has
    <3>3. pc[w] \notin {"wait", "idle"}
      BY <3>1, <3>2 DEF pc, Point
    <3>4. pc[w] \in {"pop", "empty", "run", "post"}
      BY <3>1, <3>2 DEF pc, Point
    <3>. QED  BY <3>4 DEF SQ!Holding
  <2>6. \A w \in Workers : ~ Working(w)
    <3>1. \A w \in Workers : WorkerQueue[w] \in Queues
      BY ThreadsAssumption
    <3>2. \A q \in Queues : SQ!IsIdle(q) /\ SQ!Holding(q) = {}
      BY DEF SQ!IdleMeansQuiescent, SQ!IsIdle, IsIdle, SQ!Queued, Queued, SQ!NodesOf, NodesOf
    <3>. QED  BY <2>5, <3>1, <3>2
  <2>7. ~ (queue[n] > 0)
    BY <2>1 DEF IsIdle, Queued, NodesOf
  <2>. QED  BY <2>4, <2>6, <2>7 DEF Guarded
<1>. QED  BY <1>1, DrainCorrect, ThreadsCorrect, QueuesTyped, GraphIdleMeansQuiescent, PTL

-----------------------------------------------------------------------------
(* Nodes are closed once.                                                  *)

StartsAt(s, a, i) == i \in 1..Len(s[a]) /\ s[a][i][1] = "Start"

\* No such call, and Start is called at most once.
StraightScript(s) ==
    /\ \A a \in Apps : \A i \in 1..Len(s[a]) : s[a][i][1] \notin Controls
    /\ \A a, b \in Apps : \A i, j \in Nat :
          StartsAt(s, a, i) /\ StartsAt(s, b, j) => a = b /\ i = j

\* all_nodes_ lists a node once, and the application runs the graph once,
\* without pausing or cancelling it.
StraightRun ==
    /\ \A i, j \in 1..Len(AllNodes) : AllNodes[i] = AllNodes[j] => i = j
    /\ \A s \in Scripts : StraightScript(s)

\* state_ never returns from kTerminated to kRunning.
StraightAhead ==
    /\ StraightScript(script)
    /\ (\E a \in Apps : \E i \in Nat : StartsAt(script, a, i)) => state = "NotStarted"
    /\ state \in {"NotStarted", "Running", "Terminated"}
    /\ \A t \in Threads : \A op \in Ops(agenda[t]) :
          op[1] = "SetState" => op[2] = "Terminated"

Searching == Inside \ {"Leave"}
Closings == {"CloseNode", "Terminate"}
Judging == {"Scan", "FindUnfinalized", "Judge"}

\* A thread that looks for the end of the graph is not yet closing its nodes;
\* one that closes them closes each once and then sets state_.
CloseForm(a) ==
    /\ HasIn(a, Searching) => ~ HasIn(a, Closings)
    /\ \A i \in 1..Len(a) :
          a[i][1] = "CloseNode" => \E j \in i..Len(a) : a[j][1] = "Terminate"
    /\ \A i, j \in 1..Len(a) : a[i][1] = "CloseNode" /\ a[i] = a[j] => i = j

NoneClosed == \A n \in Nodes : closes[n] = 0

Closing ==
    /\ closes \in [Nodes -> 0..1]
    /\ \A t \in Threads : CloseForm(agenda[t])
    /\ \A t \in Threads : HasIn(agenda[t], Judging) => NoneClosed
    /\ \A t \in Threads : \A n \in Nodes :
          <<"CloseNode", n>> \in Ops(agenda[t]) => closes[n] = 0
    /\ \/ NoneClosed
       \/ state = "Terminated"
       \/ \E t \in Threads : HasIn(agenda[t], {"Terminate"})

CloseInv == StraightAhead /\ Closing

LEMMA CloseFormKept ==
    ASSUME NEW a, NEW r, NEW b, Replaces(b, r, a), CloseForm(a), CloseForm(r),
           HasIn(r, Deciding) => ~ RestHas(a, Deciding)
    PROVE  CloseForm(b)
<1>0. /\ Len(a) \in Nat /\ Len(a) > 0 /\ Len(r) \in Nat /\ Len(b) \in Nat
      /\ Len(b) = Len(r) + Len(a) - 1
      /\ \A i \in 1..Len(r) : b[i] = r[i]
      /\ \A i \in 2..Len(a) : b[i + Len(r) - 1] = a[i]
      /\ \A i \in (Len(r) + 1)..Len(b) : b[i] = a[i - Len(r) + 1]
  BY DEF Replaces
<1>. DEFINE k(i) == i - Len(r) + 1
<1>1. ASSUME NEW i \in 1..Len(b)
      PROVE  \/ i \in 1..Len(r) /\ b[i] = r[i]
             \/ k(i) \in 2..Len(a) /\ b[i] = a[k(i)]
  <2>1. CASE i <= Len(r)
    BY <1>0, <2>1
  <2>2. CASE i > Len(r)
    <3>1. i \in (Len(r) + 1)..Len(b) /\ k(i) \in 2..Len(a)
      BY <1>0, <2>2
    <3>. QED  BY <1>0, <3>1
  <2>. QED  BY <1>0, <2>1, <2>2
<1>2. \A K : \A i \in 1..Len(r) : r[i][1] \in K => HasIn(r, K)
  BY DEF HasIn
<1>3. \A K : \A i \in 2..Len(a) : a[i][1] \in K => RestHas(a, K)
  BY DEF RestHas
<1>4. "CloseNode" \in Deciding
  BY DEF Deciding
<1>5. HasIn(b, Searching) => ~ HasIn(b, Closings)
  <2>0. Searching \subseteq Deciding /\ Closings \subseteq Deciding
    BY DEF Searching, Closings, Deciding
  <2>1. \A K : K \subseteq Deciding =>
           (HasIn(r, K) => HasIn(r, Deciding)) /\ (RestHas(a, K) => RestHas(a, Deciding))
    BY DEF HasIn, RestHas
  <2>2. \A K : (HasIn(b, K) <=> HasIn(r, K) \/ RestHas(a, K)) /\ (RestHas(a, K) => HasIn(a, K))
    BY HasReplaced
  <2>. QED  BY <2>0, <2>1, <2>2, Zenon DEF CloseForm
<1>6. ASSUME NEW i \in 1..Len(b), b[i][1] = "CloseNode"
      PROVE  \E j \in i..Len(b) : b[j][1] = "Terminate"
  <2>1. CASE i \in 1..Len(r) /\ b[i] = r[i]
    <3>1. PICK j \in i..Len(r) : r[j][1] = "Terminate"
      BY <1>6, <2>1 DEF CloseForm
    <3>2. j \in i..Len(b) /\ b[j] = r[j]
      BY <1>0, <2>1
    <3>. QED  BY <3>1, <3>2
  <2>2. CASE k(i) \in 2..Len(a) /\ b[i] = a[k(i)]
    <3>1. PICK j \in k(i)..Len(a) : a[j][1] = "Terminate"
      BY <1>0, <1>6, <2>2 DEF CloseForm
    <3>2. j \in 2..Len(a) /\ j + Len(r) - 1 \in i..Len(b)
      BY <1>0, <2>2
    <3>3. b[j + Len(r) - 1] = a[j]
      BY <1>0, <3>2
    <3>. QED  BY <3>1, <3>2, <3>3
  <2>. QED  BY <1>1, <2>1, <2>2
<1>7. ASSUME NEW i \in 1..Len(b), NEW j \in 1..Len(b), b[i][1] = "CloseNode", b[i] = b[j]
      PROVE  i = j
  <2>1. CASE i \in 1..Len(r) /\ b[i] = r[i] /\ j \in 1..Len(r) /\ b[j] = r[j]
    BY <1>7, <2>1 DEF CloseForm
  <2>2. CASE k(i) \in 2..Len(a) /\ b[i] = a[k(i)] /\ k(j) \in 2..Len(a) /\ b[j] = a[k(j)]
    <3>1. k(i) \in 1..Len(a) /\ k(j) \in 1..Len(a)
      BY <1>0, <2>2
    <3>2. k(i) = k(j)
      BY <1>7, <2>2, <3>1 DEF CloseForm
    <3>. QED  BY <1>0, <3>2
  <2>3. ASSUME NEW x \in 1..Len(r), NEW y \in 2..Len(a), r[x][1] = "CloseNode",
               a[y][1] = "CloseNode"
        PROVE  FALSE
    <3>1. HasIn(r, Deciding) /\ RestHas(a, Deciding)
      BY <1>2, <1>3, <1>4, <2>3
    <3>. QED  BY <3>1
  <2>. QED  BY <1>1, <1>7, <2>1, <2>2, <2>3
<1>. QED  BY <1>5, <1>6, <1>7 DEF CloseForm

LEMMA NoClosings ==
    ASSUME NEW r, ~ HasIn(r, Closings)
    PROVE  CloseForm(r)
BY DEF CloseForm, HasIn, Closings

\* Thread t executes an operation other than CloseNode.
LEMMA CloseKept ==
    ASSUME AgendaInv, Closing, NEW t \in Threads, NEW k, At(t, k), NEW r \in Seq(Operations),
           Then(t, r), CloseForm(r), HasIn(r, Deciding) => k \in Idles,
           HasIn(r, Judging) \/ HasIn(r, {"CloseNode"}) => NoneClosed,
           closes' = closes, k = "Terminate" \/ state = "Terminated" => state' = "Terminated"
    PROVE  Closing'
<1>. DEFINE a == agenda[t]
            b == agenda'[t]
<1>1. /\ Replaces(b, r, a) /\ a[1][1] = k
      /\ Ops(b) = Ops(r) \cup Rest(a) /\ Rest(a) \subseteq Ops(a)
      /\ \A u \in Threads : u # t => agenda'[u] = agenda[u]
  BY OpsStep
<1>2. IdleForm(a) /\ CloseForm(a)
  BY DEF AgendaInv, Closing
<1>. HIDE DEF a, b
<1>3. k \in Idles => ~ RestHas(a, Deciding)
  BY <1>1, <1>2, RestNotIdle DEF HeadIn
<1>4. CloseForm(b)
  BY <1>1, <1>2, <1>3, CloseFormKept
<1>5. \A K : /\ HasIn(b, K) <=> HasIn(r, K) \/ RestHas(a, K)
             /\ HasIn(a, K) <=> a[1][1] \in K \/ RestHas(a, K)
  BY <1>1, HasReplaced
<1>6. \A u \in Threads : CloseForm(agenda'[u])
  BY <1>1, <1>4, Zenon DEF Closing, b
<1>7. NoneClosed' <=> NoneClosed
  BY DEF NoneClosed
<1>8. \A u \in Threads : HasIn(agenda'[u], Judging) => NoneClosed'
  <2>1. HasIn(b, Judging) => NoneClosed
    BY <1>5, Zenon DEF Closing, a
  <2>. QED  BY <1>1, <1>7, <2>1, Zenon DEF Closing, b
<1>9. ASSUME NEW u \in Threads, NEW n \in Nodes, <<"CloseNode", n>> \in Ops(agenda'[u])
      PROVE  closes'[n] = 0
  <2>1. CASE u = t
    <3>1. CASE <<"CloseNode", n>> \in Ops(r)
      <4>1. <<"CloseNode", n>>[1] = "CloseNode"
        OBVIOUS
      <4>2. HasIn(r, {"CloseNode"})
        BY <3>1, <4>1, HasOps
      <4>. QED  BY <4>2 DEF NoneClosed
    <3>2. CASE <<"CloseNode", n>> \in Rest(a)
      <4>1. <<"CloseNode", n>> \in Ops(agenda[t])
        BY <1>1, <3>2 DEF a
      <4>. QED  BY <4>1 DEF Closing
    <3>. QED  BY <1>1, <1>9, <2>1, <3>1, <3>2 DEF b
  <2>2. CASE u # t
    BY <1>1, <1>9, <2>2 DEF Closing
  <2>. QED  BY <2>1, <2>2
<1>10. \/ NoneClosed'
       \/ state' = "Terminated"
       \/ \E u \in Threads : HasIn(agenda'[u], {"Terminate"})
  <2>1. CASE NoneClosed \/ state = "Terminated"
    BY <1>7, <2>1
  <2>2. ASSUME NEW u \in Threads, HasIn(agenda[u], {"Terminate"})
        PROVE  state' = "Terminated" \/ HasIn(agenda'[u], {"Terminate"})
    <3>1. CASE u = t
      <4>1. a[1][1] \in {"Terminate"} \/ RestHas(a, {"Terminate"})
        BY <1>5, <2>2, <3>1, Zenon DEF a
      <4>2. CASE RestHas(a, {"Terminate"})
        BY <1>5, <3>1, <4>2, Zenon DEF b
      <4>3. CASE a[1][1] = "Terminate"
        BY <1>1, <4>3
      <4>. QED  BY <4>1, <4>2, <4>3
    <3>. QED  BY <1>1, <2>2, <3>1
  <2>. QED  BY <2>1, <2>2 DEF Closing
<1>. QED  BY <1>6, <1>8, <1>9, <1>10 DEF Closing

\* Thread t has nothing to do and begins something that is not in HandleIdle.
LEMMA FreshClosing ==
    ASSUME AgendaInv, Closing, NEW t \in Threads, agenda[t] = <<>>, NEW r,
           agenda' = [agenda EXCEPT ![t] = r], ~ HasIn(r, Deciding),
           closes' = closes, state = "Terminated" => state' = "Terminated"
    PROVE  Closing'
<1>1. /\ agenda'[t] = r
      /\ \A u \in Threads : u # t => agenda'[u] = agenda[u]
  BY OpsFresh
<1>2. \A K : K \subseteq Deciding => ~ HasIn(r, K)
  BY DEF HasIn
<1>3. /\ ~ HasIn(r, Closings) /\ ~ HasIn(r, Judging) /\ ~ HasIn(r, {"CloseNode"})
  <2>1. /\ Closings \subseteq Deciding /\ Judging \subseteq Deciding
        /\ {"CloseNode"} \subseteq Deciding
    BY DEF Closings, Judging, Deciding, Inside
  <2>. QED  BY <1>2, <2>1
<1>4. CloseForm(r)
  BY <1>3, NoClosings
<1>5. \A K : ~ HasIn(agenda[t], K)
  BY DEF HasIn
<1>6. NoneClosed' <=> NoneClosed
  BY DEF NoneClosed
<1>7. \A u \in Threads : CloseForm(agenda'[u])
  BY <1>1, <1>4 DEF Closing
<1>8. \A u \in Threads : HasIn(agenda'[u], Judging) => NoneClosed'
  BY <1>1, <1>3, <1>6 DEF Closing
<1>9. ASSUME NEW u \in Threads, NEW n \in Nodes, <<"CloseNode", n>> \in Ops(agenda'[u])
      PROVE  closes'[n] = 0
  <2>1. <<"CloseNode", n>>[1] = "CloseNode"
    OBVIOUS
  <2>2. u # t
    BY <1>1, <1>3, <1>9, <2>1, HasOps
  <2>. QED  BY <1>1, <1>9, <2>2 DEF Closing
<1>10. \/ NoneClosed'
       \/ state' = "Terminated"
       \/ \E u \in Threads : HasIn(agenda'[u], {"Terminate"})
  BY <1>1, <1>5, <1>6 DEF Closing
<1>. QED  BY <1>7, <1>8, <1>9, <1>10 DEF Closing

LEMMA CloseNodeKept ==
    ASSUME AgendaInv, Closing, NEW t \in Threads, CloseNode(t)
    PROVE  Closing'
<1>. DEFINE a == agenda[t]
            b == agenda'[t]
<1>0. At(t, "CloseNode") /\ Then(t, <<>>) /\ <<>> \in Seq(Operations)
  BY DEF CloseNode
<1>1. /\ Replaces(b, <<>>, a) /\ a[1][1] = "CloseNode" /\ a[1] = Head(a)
      /\ Ops(b) = Ops(<<>>) \cup Rest(a) /\ Rest(a) \subseteq Ops(a)
      /\ \A u \in Threads : u # t => agenda'[u] = agenda[u]
  BY <1>0, OpsStep
<1>2. PICK n \in Nodes : n = Arg(t, 2)
  BY <1>0, ArgFacts DEF NodeKinds
<1>3. a[1] = <<"CloseNode", n>> /\ a[1] \in Ops(a)
  <2>1. Head(agenda[t]) = <<"CloseNode", Arg(t, 2)>>
    BY <1>0, HeadIs DEF NodeKinds
  <2>2. Head(agenda[t]) \in Ops(agenda[t])
    BY <1>0, HeadIs
  <2>. QED  BY <1>1, <1>2, <2>1, <2>2
<1>4. closes' = [closes EXCEPT ![n] = @ + 1] /\ state' = state
  BY <1>2 DEF CloseNode, schedVars
<1>5. CloseForm(a)
  BY DEF Closing
<1>6. closes[n] = 0 /\ closes \in [Nodes -> 0..1]
  BY <1>3 DEF Closing
<1>7. closes' \in [Nodes -> 0..1] /\ \A m \in Nodes : m # n => closes'[m] = closes[m]
  BY <1>4, <1>6
<1>. HIDE DEF a, b
<1>9. "CloseNode" \in Deciding /\ Judging \subseteq Deciding /\ {"CloseNode"} \subseteq Deciding
  BY DEF Judging, Deciding, Inside
<1>10. HasIn(a, Deciding) /\ HasIn(a, Closings)
  <2>1. 1 \in 1..Len(a)
    BY <1>1 DEF Replaces
  <2>. QED  BY <1>1, <1>9, <2>1 DEF HasIn, Closings
<1>11. \A u \in Threads : u # t => ~ HasIn(agenda[u], Deciding)
  BY <1>10 DEF AgendaInv, OneDecider, a
<1>12. \A u \in Threads : ~ HasIn(agenda[u], Judging)
  <2>1. \A c : HasIn(c, Judging) => HasIn(c, Deciding) /\ HasIn(c, Searching)
    BY DEF HasIn, Judging, Deciding, Searching, Inside
  <2>. QED  BY <1>5, <1>10, <1>11, <2>1 DEF CloseForm, a
<1>13. \A K : /\ HasIn(b, K) <=> HasIn(<<>>, K) \/ RestHas(a, K)
              /\ HasIn(a, K) <=> a[1][1] \in K \/ RestHas(a, K)
  BY <1>1, HasReplaced
<1>14. \A K : ~ HasIn(<<>>, K)
  BY DEF HasIn
<1>15. \A u \in Threads : HasIn(agenda'[u], Judging) => NoneClosed'
  <2>1. HasIn(b, Judging) => HasIn(a, Judging)
    BY <1>13, <1>14, Zenon
  <2>. QED  BY <1>1, <1>12, <2>1 DEF a, b
<1>16. \A u \in Threads : CloseForm(agenda'[u])
  <2>1. CloseForm(<<>>)
    BY <1>14, NoClosings
  <2>2. CloseForm(b)
    BY <1>1, <1>5, <1>14, <2>1, CloseFormKept
  <2>. QED  BY <1>1, <2>2 DEF Closing, b
<1>17. ASSUME NEW u \in Threads, NEW m \in Nodes, <<"CloseNode", m>> \in Ops(agenda'[u])
       PROVE  closes'[m] = 0
  <2>0. <<"CloseNode", m>>[1] = "CloseNode"
    OBVIOUS
  <2>1. u = t
    <3>1. SUFFICES ASSUME u # t PROVE FALSE
      OBVIOUS
    <3>2. HasIn(agenda[u], Deciding)
      BY <1>1, <1>9, <1>17, <2>0, <3>1, HasOps
    <3>. QED  BY <1>11, <3>1, <3>2
  <2>2. <<"CloseNode", m>> \in Rest(a)
    BY <1>1, <1>17, <2>1, OpsEmpty DEF b
  <2>3. m # n
    <3>1. PICK i \in 2..Len(a) : a[i] = <<"CloseNode", m>>
      BY <2>2 DEF Rest
    <3>2. i \in 1..Len(a) /\ 1 \in 1..Len(a) /\ i # 1
      BY <1>1 DEF Replaces
    <3>. QED  BY <1>1, <1>3, <1>5, <3>1, <3>2 DEF CloseForm
  <2>4. closes[m] = 0
    BY <1>1, <2>2 DEF Closing, a
  <2>. QED  BY <1>7, <2>3, <2>4
<1>18. HasIn(agenda'[t], {"Terminate"})
  <2>1. PICK j \in 1..Len(a) : a[j][1] = "Terminate"
    <3>1. 1 \in 1..Len(a)
      BY <1>1 DEF Replaces
    <3>. QED  BY <1>1, <1>5, <3>1 DEF CloseForm
  <2>2. HasIn(a, {"Terminate"})
    BY <2>1 DEF HasIn
  <2>3. RestHas(a, {"Terminate"})
    BY <1>1, <1>13, <2>2
  <2>. QED  BY <1>13, <2>3 DEF b
<1>. QED  BY <1>7, <1>15, <1>16, <1>17, <1>18 DEF Closing

\* The same, by the kinds of what t puts in front.
LEMMA KindsClosing ==
    ASSUME AgendaInv, Closing, NEW t \in Threads, NEW k, At(t, k), NEW L, Puts(t, L),
           L \cap Closings = {}, L \cap Deciding = {} \/ k \in Idles,
           L \cap Judging = {} \/ NoneClosed, k # "CloseNode",
           closes' = closes, k = "Terminate" \/ state = "Terminated" => state' = "Terminated"
    PROVE  Closing'
<1>1. PICK r \in Seq(OfKinds(L)) : Then(t, r)
  BY DEF Puts
<1>2. r \in Seq(Operations) /\ \A op \in Ops(r) : op[1] \in L
  BY OfKindsOps
<1>3. \A K : HasIn(r, K) => L \cap K # {}
  BY <1>2, HasOps
<1>4. CloseForm(r)
  BY <1>3, NoClosings
<1>5. ~ HasIn(r, {"CloseNode"})
  <2>1. L \cap {"CloseNode"} = {}
    BY DEF Closings
  <2>. QED  BY <1>3, <2>1
<1>. QED  BY <1>1, <1>2, <1>3, <1>4, <1>5, CloseKept

LEMMA OnePuts ==
    ASSUME NEW t, NEW L, NEW x \in OfKinds(L), Then(t, <<x>>)
    PROVE  Puts(t, L)
<1>1. <<x>> \in Seq(OfKinds(L))
  OBVIOUS
<1>. QED  BY <1>1, Zenon DEF Puts

LEMMA ThenLeaves ==
    ASSUME NEW L, "Leave" \in L, NEW t, NEW r \in Seq(OfKinds(L))
    PROVE  /\ Then(t, r \o LeaveOp) => Puts(t, L)
           /\ Then(t, LeaveOp) => Puts(t, L)
<1>1. <<"Leave">> \in OfKinds(L)
  BY KindOps DEF PlainKinds
<1>2. LeaveOp \in Seq(OfKinds(L))
  BY <1>1 DEF LeaveOp
<1>3. r \o LeaveOp \in Seq(OfKinds(L))
  BY <1>2, Joined
<1>. QED  BY <1>2, <1>3, Zenon DEF Puts

\* What HandleIdle goes on with, closing the nodes apart.
LEMMA SearchMakes ==
    ASSUME AgendaInv, NEW t \in Threads
    PROVE  /\ Enter(t) => At(t, "Enter") /\ Puts(t, {"Leave", "Begin"})
           /\ Leave(t) => At(t, "Leave") /\ Puts(t, {})
           /\ Begin(t) => /\ At(t, "Begin")
                          /\ Puts(t, {"CheckIdle"}) \/ state = "Cancelling"
           /\ CheckIdle(t) => At(t, "CheckIdle") /\ Puts(t, {"CheckIdle", "Idle", "Leave"})
           /\ Idle(t) => /\ At(t, "Idle")
                         /\ \/ Puts(t, {"Leave"})
                            \/ /\ state \in {"Running", "Cancelling"}
                               /\ Puts(t, {"Scan", "Judge"})
           /\ Scan(t) => /\ At(t, "Scan")
                         /\ Puts(t, {"Scan", "DrainNode", "Leave", "FindUnfinalized"})
           /\ FindUnfinalized(t) =>
                 /\ At(t, "FindUnfinalized")
                 /\ Puts(t, {"AddNode", "Leave", "FindUnfinalized", "Judge"})
           /\ DrainNode(t) => At(t, "DrainNode") /\ Puts(t, {"AddNode"})
           /\ Terminate(t) => At(t, "Terminate") /\ Puts(t, {})
           /\ Judge(t) =>
                 /\ At(t, "Judge")
                 /\ \/ Puts(t, {"AddNode", "Leave"})
                    \/ Then(t, Each("CloseNode", AllNodes) \o << <<"Terminate">> >> \o LeaveOp)
<1>0. /\ AllNodes \in Seq(Nodes) /\ \A i \in 1..Len(AllNodes) : AllNodes[i] \in Nodes
      /\ 1 \in 1..Len(AllNodes) /\ 1 \in 1..Len(AllQueues)
      /\ Len(AllNodes) \in Nat /\ Len(AllQueues) \in Nat
  BY NotEmptyGraph, GraphAssumption
<1>1. Enter(t) => At(t, "Enter") /\ Puts(t, {"Leave", "Begin"})
  <2>1. <<"Begin">> \in OfKinds({"Leave", "Begin"}) /\ <<"Leave">> \in OfKinds({"Leave", "Begin"})
    BY KindOps DEF PlainKinds
  <2>2. Enter(t) => /\ At(t, "Enter")
                    /\ Then(t, << <<"Leave">> >>) \/ Then(t, << <<"Begin">> >>)
    BY DEF Enter, LeaveOp
  <2>. QED  BY <2>1, <2>2, OnePuts
<1>2. /\ Leave(t) => At(t, "Leave") /\ Puts(t, {})
      /\ Terminate(t) => At(t, "Terminate") /\ Puts(t, {})
  BY NoneKinds DEF Leave, Terminate
<1>3. ASSUME Begin(t) PROVE At(t, "Begin") /\ (Puts(t, {"CheckIdle"}) \/ state = "Cancelling")
  <2>1. <<"CheckIdle", 1, InputsRemaining>> \in OfKinds({"CheckIdle"})
    BY <1>0, KindOps DEF InputsRemaining
  <2>2. /\ At(t, "Begin")
        /\ Then(t, << <<"CheckIdle", 1, InputsRemaining>> >>) \/ state = "Cancelling"
    BY <1>3 DEF Begin
  <2>. QED  BY <2>1, <2>2, OnePuts
<1>4. ASSUME CheckIdle(t) PROVE At(t, "CheckIdle") /\ Puts(t, {"CheckIdle", "Idle", "Leave"})
  <2>1. PICK i \in 1..Len(AllQueues), rem \in BOOLEAN : i = Arg(t, 2) /\ rem = Arg(t, 3)
    BY <1>4, ArgFacts DEF CheckIdle
  <2>2. \/ Then(t, << <<"Leave">> >>)
        \/ i < Len(AllQueues) /\ Then(t, << <<"CheckIdle", i + 1, rem>> >>)
        \/ Then(t, << <<"Idle", rem>> >>)
    BY <1>4, <2>1 DEF CheckIdle, LeaveOp
  <2>3. i < Len(AllQueues) => i + 1 \in 1..Len(AllQueues)
    BY <1>0
  <2>. DEFINE L == {"CheckIdle", "Idle", "Leave"}
  <2>4. /\ <<"Leave">> \in OfKinds(L) /\ <<"Idle", rem>> \in OfKinds(L)
        /\ i < Len(AllQueues) => <<"CheckIdle", i + 1, rem>> \in OfKinds(L)
    BY <2>3, KindOps DEF PlainKinds
  <2>5. At(t, "CheckIdle")
    BY <1>4 DEF CheckIdle
  <2>. QED  BY <2>2, <2>4, <2>5, OnePuts
<1>5. ASSUME Idle(t)
      PROVE  /\ At(t, "Idle")
             /\ \/ Puts(t, {"Leave"})
                \/ state \in {"Running", "Cancelling"} /\ Puts(t, {"Scan", "Judge"})
  <2>1. PICK rem \in BOOLEAN : rem = Arg(t, 2)
    BY <1>5, ArgFacts DEF Idle
  <2>2. /\ At(t, "Idle")
        /\ \/ Then(t, << <<"Leave">> >>)
           \/ /\ state \in {"Running", "Cancelling"}
              /\ \/ Then(t, << <<"Scan", 1, FALSE>> >>)
                 \/ Then(t, << <<"Judge", activeSources' = {}, rem>> >>)
    BY <1>5, <2>1 DEF Idle, LeaveOp
  <2>. DEFINE L == {"Scan", "Judge"}
  <2>3. /\ <<"Leave">> \in OfKinds({"Leave"}) /\ <<"Scan", 1, FALSE>> \in OfKinds(L)
        /\ <<"Judge", activeSources' = {}, rem>> \in OfKinds(L)
    BY <1>0, KindOps DEF PlainKinds
  <2>. QED  BY <2>2, <2>3, OnePuts
<1>6. ASSUME Scan(t)
      PROVE  At(t, "Scan") /\ Puts(t, {"Scan", "DrainNode", "Leave", "FindUnfinalized"})
  <2>. DEFINE L == {"Scan", "DrainNode", "Leave", "FindUnfinalized"}
              d == Each("DrainNode", AllNodes)
  <2>1. PICK i \in 1..Len(AllNodes), b \in BOOLEAN : i = Arg(t, 2) /\ b = Arg(t, 3)
    BY <1>6, ArgFacts DEF Scan
  <2>2. PICK c \in BOOLEAN : c = (b \/ HasPendingInput(AllNodes[i]))
    BY DEF HasPendingInput
  <2>3. /\ At(t, "Scan")
        /\ \/ i < Len(AllNodes) /\ Then(t, << <<"Scan", i + 1, c>> >>)
           \/ Then(t, d \o LeaveOp)
           \/ Then(t, << <<"FindUnfinalized", 1>> >>)
    BY <1>6, <2>1, <2>2 DEF Scan
  <2>4. i < Len(AllNodes) => i + 1 \in 1..Len(AllNodes)
    BY <1>0
  <2>5. /\ i < Len(AllNodes) => <<"Scan", i + 1, c>> \in OfKinds(L)
        /\ <<"FindUnfinalized", 1>> \in OfKinds(L)
        /\ \A n \in Nodes : <<"DrainNode", n>> \in OfKinds(L)
    BY <1>0, <2>4, KindOps DEF NodeKinds
  <2>6. d \in Seq(OfKinds(L))
    BY <1>0, <2>5, EachType
  <2>. HIDE DEF d
  <2>. QED  BY <2>3, <2>5, <2>6, OnePuts, ThenLeaves
<1>7. ASSUME FindUnfinalized(t)
      PROVE  /\ At(t, "FindUnfinalized")
             /\ Puts(t, {"AddNode", "Leave", "FindUnfinalized", "Judge"})
  <2>. DEFINE L == {"AddNode", "Leave", "FindUnfinalized", "Judge"}
  <2>1. PICK i \in 1..Len(AllNodes) : i = Arg(t, 2)
    BY <1>7, ArgFacts DEF FindUnfinalized
  <2>2. /\ At(t, "FindUnfinalized")
        /\ \/ Then(t, AddNodeOp(AllNodes[i]) \o LeaveOp)
           \/ i < Len(AllNodes) /\ Then(t, << <<"FindUnfinalized", i + 1>> >>)
           \/ Then(t, << <<"Judge", TRUE, FALSE>> >>)
    BY <1>7, <2>1 DEF FindUnfinalized
  <2>3. i < Len(AllNodes) => i + 1 \in 1..Len(AllNodes)
    BY <1>0
  <2>4. /\ i < Len(AllNodes) => <<"FindUnfinalized", i + 1>> \in OfKinds(L)
        /\ <<"Judge", TRUE, FALSE>> \in OfKinds(L)
    BY <2>3, KindOps
  <2>5. AddNodeOp(AllNodes[i]) \in Seq(OfKinds(L))
    BY <1>0, AddNodeKinds
  <2>. QED  BY <2>2, <2>4, <2>5, OnePuts, ThenLeaves
<1>8. ASSUME DrainNode(t) PROVE At(t, "DrainNode") /\ Puts(t, {"AddNode"})
  <2>1. At(t, "DrainNode") /\ \E c : Then(t, If(c, AddNodeOp(Arg(t, 2))))
    BY <1>8 DEF DrainNode
  <2>2. Arg(t, 2) \in Nodes
    BY <2>1, ArgFacts DEF NodeKinds
  <2>. QED  BY <2>1, <2>2, AddNodeMade
<1>9. ASSUME Judge(t)
      PROVE  /\ At(t, "Judge")
             /\ \/ Puts(t, {"AddNode", "Leave"})
                \/ Then(t, Each("CloseNode", AllNodes) \o << <<"Terminate">> >> \o LeaveOp)
  <2>. DEFINE L == {"AddNode", "Leave"}
              s == EachIn("AddNode", AllNodes, activeSources)
              c == Each("CloseNode", AllNodes) \o << <<"Terminate">> >>
  <2>1. At(t, "Judge") /\ (Then(t, c \o LeaveOp) \/ Then(t, s \o LeaveOp))
    BY <1>9 DEF Judge
  <2>2. \A n \in Nodes : <<"AddNode", n>> \in OfKinds(L)
    BY KindOps DEF NodeKinds
  <2>3. s \in Seq(OfKinds(L))
    BY <1>0, <2>2, EachInType
  <2>. HIDE DEF s
  <2>. QED  BY <2>1, <2>3, ThenLeaves
<1>. QED  BY <1>1, <1>2, <1>3, <1>4, <1>5, <1>6, <1>7, <1>8, <1>9

\* The list with which Judge closes every node.
LEMMA ClosingList ==
    ASSUME \A i, j \in 1..Len(AllNodes) : AllNodes[i] = AllNodes[j] => i = j
    PROVE  LET r == Each("CloseNode", AllNodes) \o << <<"Terminate">> >> \o LeaveOp IN
           r \in Seq(Operations) /\ CloseForm(r)
<1>. DEFINE c == Each("CloseNode", AllNodes)
            d == c \o << <<"Terminate">> >>
            r == d \o LeaveOp
            m == Len(AllNodes)
<1>1. /\ AllNodes \in Seq(Nodes) /\ m \in Nat
      /\ \A i \in 1..m : AllNodes[i] \in Nodes
  BY NotEmptyGraph, GraphAssumption
<1>2. c \in Seq(Operations) /\ Len(c) = m /\ \A i \in 1..m : c[i] = <<"CloseNode", AllNodes[i]>>
  <2>1. \A n \in Nodes : <<"CloseNode", n>> \in Operations
    BY OpsMade DEF NodeKinds
  <2>2. c \in Seq(Operations)
    BY <1>1, <2>1, EachType
  <2>. QED  BY <1>1, <2>2 DEF Each
<1>3. <<"Terminate">> \in Operations /\ <<"Leave">> \in Operations
  BY OpsMade DEF PlainKinds
<1>4. << <<"Terminate">> >> \in Seq(Operations) /\ LeaveOp \in Seq(Operations)
  BY <1>3 DEF LeaveOp
<1>. HIDE DEF c
<1>5. /\ d \in Seq(Operations) /\ Len(d) = m + 1 /\ d[m + 1] = <<"Terminate">>
      /\ \A i \in 1..m : d[i] = c[i]
  BY <1>1, <1>2, <1>4
<1>. HIDE DEF d
<1>6. /\ r \in Seq(Operations) /\ Len(r) = m + 2 /\ r[m + 2] = <<"Leave">>
      /\ \A i \in 1..(m + 1) : r[i] = d[i]
  BY <1>1, <1>4, <1>5 DEF LeaveOp
<1>. HIDE DEF r
<1>7. /\ \A i \in 1..m : r[i] = <<"CloseNode", AllNodes[i]>>
      /\ r[m + 1] = <<"Terminate">>
  <2>1. \A i \in 1..m : i \in 1..(m + 1)
    BY <1>1
  <2>2. m + 1 \in 1..(m + 1)
    BY <1>1
  <2>. QED  BY <1>2, <1>5, <1>6, <2>1, <2>2
<1>8. \A i \in 1..m : r[i][1] = "CloseNode" /\ r[i][2] = AllNodes[i]
  BY <1>7
<1>9. r[m + 1][1] = "Terminate" /\ r[m + 2][1] = "Leave"
  BY <1>6, <1>7
<1>10. \A i \in 1..Len(r) : i \in 1..m \/ i = m + 1 \/ i = m + 2
  BY <1>1, <1>6
<1>11. ~ HasIn(r, Searching)
  BY <1>8, <1>9, <1>10 DEF HasIn, Searching, Inside
<1>12. ASSUME NEW i \in 1..Len(r), r[i][1] = "CloseNode"
       PROVE  i \in 1..m /\ \E j \in i..Len(r) : r[j][1] = "Terminate"
  <2>1. i \in 1..m
    BY <1>9, <1>10, <1>12
  <2>2. m + 1 \in i..Len(r)
    BY <1>1, <1>6, <2>1
  <2>. QED  BY <1>9, <2>1, <2>2
<1>13. ASSUME NEW i \in 1..Len(r), NEW j \in 1..Len(r), r[i][1] = "CloseNode", r[i] = r[j]
       PROVE  i = j
  <2>1. i \in 1..m /\ j \in 1..m
    BY <1>12, <1>13
  <2>. QED  BY <1>8, <1>13, <2>1
<1>14. CloseForm(r)
  BY <1>11, <1>12, <1>13 DEF CloseForm
<1>. QED  BY <1>6, <1>14 DEF r, d, c

LEMMA IdleClosing ==
    ASSUME AgendaInv, CloseInv, NEW t \in Threads, IdleStep(t),
           \A i, j \in 1..Len(AllNodes) : AllNodes[i] = AllNodes[j] => i = j
    PROVE  Closing'
<1>0. Closing /\ state \in {"NotStarted", "Running", "Terminated"}
  BY DEF CloseInv, StraightAhead
<1>. USE DEF Closings, Deciding, Inside, Judging, Idles
<1>1. CASE Enter(t) \/ Leave(t) \/ Begin(t) \/ CheckIdle(t)
  <2>1. closes' = closes /\ state' = state
    BY <1>1 DEF Enter, Leave, Begin, CheckIdle, historyVars, schedVars
  <2>2. CASE Enter(t)
    BY <1>0, <2>1, <2>2, SearchMakes, KindsClosing
  <2>3. CASE Leave(t)
    BY <1>0, <2>1, <2>3, SearchMakes, KindsClosing
  <2>4. CASE Begin(t)
    BY <1>0, <2>1, <2>4, SearchMakes, KindsClosing
  <2>5. CASE CheckIdle(t)
    BY <1>0, <2>1, <2>5, SearchMakes, KindsClosing
  <2>. QED  BY <1>1, <2>2, <2>3, <2>4, <2>5
<1>2. CASE Idle(t)
  <2>1. closes' = closes /\ state' = state
    BY <1>2 DEF Idle, historyVars
  <2>2. At(t, "Idle")
    BY <1>2, SearchMakes
  <2>3. CASE Puts(t, {"Leave"})
    BY <1>0, <2>1, <2>2, <2>3, KindsClosing
  <2>4. CASE state \in {"Running", "Cancelling"} /\ Puts(t, {"Scan", "Judge"})
    <3>1. HasIn(agenda[t], Searching) /\ HasIn(agenda[t], Deciding)
      <4>1. /\ Head(agenda[t]) \in Ops(agenda[t]) /\ Head(agenda[t])[1] = "Idle"
        BY <2>2, HeadIs
      <4>2. "Idle" \in Searching /\ "Idle" \in Deciding
        BY DEF Searching
      <4>. QED  BY <4>1, <4>2, HasOps
    <3>2. \A u \in Threads : ~ HasIn(agenda[u], {"Terminate"})
      <4>1. \A c : HasIn(c, {"Terminate"}) => HasIn(c, Deciding) /\ HasIn(c, Closings)
        BY DEF HasIn
      <4>2. \A u \in Threads : HasIn(agenda[u], Deciding) => u = t
        BY <3>1 DEF AgendaInv, OneDecider
      <4>3. ~ HasIn(agenda[t], Closings)
        BY <1>0, <3>1 DEF Closing, CloseForm
      <4>. QED  BY <4>1, <4>2, <4>3
    <3>3. NoneClosed
      BY <1>0, <2>4, <3>2 DEF Closing
    <3>. QED  BY <1>0, <2>1, <2>2, <2>4, <3>3, KindsClosing
  <2>. QED  BY <1>2, <2>3, <2>4, SearchMakes
<1>3. ASSUME NEW k \in Judging, At(t, k) PROVE NoneClosed
  <2>1. /\ Head(agenda[t]) \in Ops(agenda[t]) /\ Head(agenda[t])[1] = k
    BY <1>3, HeadIs
  <2>2. HasIn(agenda[t], Judging)
    BY <2>1, HasOps
  <2>. QED  BY <1>0, <2>2 DEF Closing
<1>4. CASE Scan(t) \/ FindUnfinalized(t) \/ DrainNode(t)
  <2>1. closes' = closes /\ state' = state
    BY <1>4 DEF Scan, FindUnfinalized, DrainNode, historyVars, schedVars
  <2>2. CASE Scan(t)
    BY <1>0, <1>3, <2>1, <2>2, SearchMakes, KindsClosing
  <2>3. CASE FindUnfinalized(t)
    BY <1>0, <1>3, <2>1, <2>3, SearchMakes, KindsClosing
  <2>4. CASE DrainNode(t)
    BY <1>0, <2>1, <2>4, SearchMakes, KindsClosing
  <2>. QED  BY <1>4, <2>2, <2>3, <2>4
<1>5. CASE Judge(t)
  <2>1. closes' = closes /\ state' = state
    BY <1>5 DEF Judge, historyVars, schedVars
  <2>2. At(t, "Judge") /\ NoneClosed
    BY <1>3, <1>5, SearchMakes
  <2>3. CASE Puts(t, {"AddNode", "Leave"})
    BY <1>0, <2>1, <2>2, <2>3, KindsClosing
  <2>4. CASE Then(t, Each("CloseNode", AllNodes) \o << <<"Terminate">> >> \o LeaveOp)
    <3>. DEFINE r == Each("CloseNode", AllNodes) \o << <<"Terminate">> >> \o LeaveOp
    <3>1. r \in Seq(Operations) /\ CloseForm(r)
      BY ClosingList
    <3>2. Then(t, r)
      BY <2>4
    <3>. HIDE DEF r
    <3>. QED  BY <1>0, <2>1, <2>2, <3>1, <3>2, CloseKept
  <2>. QED  BY <1>5, <2>3, <2>4, SearchMakes
<1>6. CASE CloseNode(t)
  BY <1>0, <1>6, CloseNodeKept
<1>7. CASE Terminate(t)
  <2>1. closes' = closes /\ state' = "Terminated"
    BY <1>7 DEF Terminate, historyVars
  <2>. QED  BY <1>0, <1>7, <2>1, SearchMakes, KindsClosing
<1>. QED  BY <1>1, <1>2, <1>4, <1>5, <1>6, <1>7 DEF IdleStep

\* The operations outside HandleIdle.
LEMMA StraightKept ==
    ASSUME AgendaInv, StraightAhead, NEW t \in Threads, NEW k, At(t, k),
           NEW L, Puts(t, L), "SetState" \notin L, script' = script,
           state' = state \/ (state' = "Terminated" /\ state # "NotStarted")
    PROVE  StraightAhead'
<1>1. PICK r \in Seq(OfKinds(L)) : Then(t, r)
  BY DEF Puts
<1>2. r \in Seq(Operations) /\ \A op \in Ops(r) : op[1] \in L
  BY OfKindsOps
<1>3. /\ Ops(agenda'[t]) = Ops(r) \cup Rest(agenda[t])
      /\ Rest(agenda[t]) \subseteq Ops(agenda[t])
      /\ \A u \in Threads : u # t => agenda'[u] = agenda[u]
  BY <1>1, <1>2, OpsStep
<1>4. \A u \in Threads : \A op \in Ops(agenda'[u]) : op[1] = "SetState" => op[2] = "Terminated"
  BY <1>2, <1>3 DEF StraightAhead
<1>5. /\ StraightScript(script)'
      /\ (\E a \in Apps : \E i \in Nat : StartsAt(script, a, i)') =>
            \E a \in Apps : \E i \in Nat : StartsAt(script, a, i)
  BY DEF StraightScript, StraightAhead, StartsAt
<1>. QED  BY <1>4, <1>5 DEF StraightAhead

LEMMA OrdinaryKept ==
    ASSUME AgendaInv, CloseInv, NEW t \in Threads, NEW k, At(t, k), NEW L, Puts(t, L),
           L \cap (Deciding \cup {"SetState"}) = {}, k \notin Closings, closes' = closes,
           script' = script, state' = state \/ (state' = "Terminated" /\ state # "NotStarted")
    PROVE  CloseInv'
<1>1. StraightAhead /\ Closing
  BY DEF CloseInv
<1>2. L \cap Deciding = {} /\ "SetState" \notin L /\ L \cap Closings = {} /\ L \cap Judging = {}
  BY DEF Deciding, Closings, Judging, Inside
<1>3. k # "CloseNode" /\ k # "Terminate"
  BY DEF Closings
<1>4. Closing'
  BY <1>1, <1>2, <1>3, KindsClosing
<1>5. StraightAhead'
  BY <1>1, <1>2, StraightKept
<1>. QED  BY <1>4, <1>5 DEF CloseInv

LEMMA CommonClose ==
    ASSUME AgendaInv, NothingRuns, CloseInv, StraightRun, NEW t \in Threads, CommonStep(t)
    PROVE  CloseInv'
<1>. USE DEF Deciding, Inside, Closings
<1>1. CASE QueueStep(t)
  <2>1. closes' = closes /\ script' = script /\ state' = state
    BY <1>1 DEF QueueStep, AddNode, SubmitToExecutor, SetRunning, SubmitWaiting, Cleanup,
                historyVars, schedVars
  <2>2. PICK k \in {"AddNode", "Count", "Send", "SetRunning", "SubmitWaiting", "Cleanup"} :
           At(t, k) /\ Puts(t, Submits)
    BY <1>1, QueueMakes
  <2>. QED  BY <2>1, <2>2, OrdinaryKept DEF Submits
<1>2. CASE StreamStep(t)
  <2>1. closes' = closes /\ script' = script /\ state' = state
    BY <1>2 DEF StreamStep, AddPackets, SetDone, PostProcess, BoundDone, CloseManager,
                historyVars, schedVars
  <2>2. PICK k \in {"AddPackets", "SetDone", "PostProcess", "BoundDone", "CloseManager"},
             L \in {{"AddNode"}, {"AddPackets", "SetDone"}, {"SetDone"}} :
           At(t, k) /\ Puts(t, L)
    BY <1>2, StreamMakes
  <2>. QED  BY <2>1, <2>2, OrdinaryKept
<1>3. CASE IdleStep(t)
  <2>1. Closing'
    BY <1>3, IdleClosing DEF StraightRun
  <2>2. script' = script
    BY <1>3 DEF IdleStep, Enter, Leave, Begin, CheckIdle, Idle, Scan, DrainNode,
                FindUnfinalized, Judge, CloseNode, Terminate
  <2>3. state' = state \/ (Terminate(t) /\ state' = "Terminated")
    BY <1>3 DEF IdleStep, Enter, Leave, Begin, CheckIdle, Idle, Scan, DrainNode,
                FindUnfinalized, Judge, CloseNode, Terminate, schedVars
  <2>4. ASSUME Terminate(t) PROVE state # "NotStarted"
    <3>1. At(t, "Terminate")
      BY <2>4 DEF Terminate
    <3>. QED  BY <3>1, EarlyHead DEF EarlyKinds
  <2>5. PICK k \in IdleAt : At(t, k) /\ Puts(t, IdleKinds)
    BY <1>3, IdleMakes
  <2>6. "SetState" \notin IdleKinds
    BY DEF IdleKinds
  <2>7. StraightAhead'
    BY <2>2, <2>3, <2>4, <2>5, <2>6, StraightKept DEF CloseInv
  <2>. QED  BY <2>1, <2>7 DEF CloseInv
<1>. QED  BY <1>1, <1>2, <1>3 DEF CommonStep

LEMMA FreshStraight ==
    ASSUME AgendaInv, StraightAhead, NEW t \in Threads, agenda[t] = <<>>, NEW r,
           agenda' = [agenda EXCEPT ![t] = r],
           \A op \in Ops(r) : op[1] = "SetState" => op[2] = "Terminated"
    PROVE  \A u \in Threads : \A op \in Ops(agenda'[u]) :
              op[1] = "SetState" => op[2] = "Terminated"
<1>1. /\ agenda'[t] = r
      /\ \A u \in Threads : u # t => agenda'[u] = agenda[u]
  BY OpsFresh
<1>. QED  BY <1>1 DEF StraightAhead

LEMMA WorkerClose ==
    ASSUME AgendaInv, CloseInv, NEW w \in Workers, WorkerStep(w)
    PROVE  CloseInv'
<1>0. w \in Threads
  BY DEF Threads
<1>1. closes' = closes /\ script' = script /\ state' = state
  BY DEF WorkerStep, TakeTask, TryPop, PopQueueHead, Process, Finalize, Decrement, Reschedule,
         SafetyNet, SourceStopped, ErrorCallback, OnTaskFinished, historyVars, schedVars
<1>. USE DEF Deciding, Inside, Closings
<1>2. CASE TakeTask(w)
  <2>. DEFINE r == << <<"TryPop">> >>
  <2>1. agenda[w] = <<>> /\ agenda' = [agenda EXCEPT ![w] = r]
    BY <1>2 DEF TakeTask
  <2>2. \A op \in Ops(r) : op[1] = "TryPop"
    <3>1. Ops(r) = {<<"TryPop">>} /\ <<"TryPop">>[1] = "TryPop"
      BY OpsOne
    <3>. QED  BY <3>1
  <2>. HIDE DEF r
  <2>3. ~ HasIn(r, Deciding)
    BY <2>2, HasOps
  <2>4. Closing'
    BY <1>0, <1>1, <2>1, <2>3, FreshClosing DEF CloseInv
  <2>5. \A u \in Threads : \A op \in Ops(agenda'[u]) : op[1] = "SetState" => op[2] = "Terminated"
    BY <1>0, <2>1, <2>2, FreshStraight DEF CloseInv
  <2>6. /\ StraightScript(script)'
        /\ (\E a \in Apps : \E i \in Nat : StartsAt(script, a, i)') =>
              \E a \in Apps : \E i \in Nat : StartsAt(script, a, i)
    BY <1>1 DEF StraightScript, CloseInv, StraightAhead, StartsAt
  <2>. QED  BY <1>1, <2>4, <2>5, <2>6 DEF CloseInv, StraightAhead
<1>3. CASE \/ PopQueueHead(w) \/ Decrement(w) \/ Reschedule(w) \/ SafetyNet(w)
           \/ SourceStopped(w) \/ ErrorCallback(w)
  <2>1. PICK k \in {"PopQueueHead", "Decrement", "SourceStopped", "ErrorCallback", "Reschedule",
                    "SafetyNet"}, L \in {{}, {"AddNode"}} : At(w, k) /\ Puts(w, L)
    BY <1>3, WorkerMakes
  <2>. QED  BY <1>0, <1>1, <2>1, OrdinaryKept
<1>4. CASE TryPop(w)
  <2>1. PICK L \in {{"PopQueueHead", "Process", "Finished"}, {"NoItem"}} :
           At(w, "TryPop") /\ Puts(w, L)
    BY <1>4, TryPopMakes DEF Puts
  <2>. QED  BY <1>0, <1>1, <2>1, OrdinaryKept
<1>5. CASE Process(w)
  <2>1. At(w, "Process") /\ Puts(w, ProcessKinds)
    BY <1>5, ProcessMakes DEF Puts
  <2>. QED  BY <1>0, <1>1, <2>1, OrdinaryKept DEF ProcessKinds
<1>6. CASE Finalize(w)
  <2>1. At(w, "Finalize") /\ Puts(w, FinalizeKinds)
    BY <1>6, FinalizeMakes DEF Puts
  <2>. QED  BY <1>0, <1>1, <2>1, OrdinaryKept DEF FinalizeKinds
<1>7. CASE OnTaskFinished(w)
  <2>1. PICK k \in {"Finished", "NoItem"} : At(w, k) /\ Puts(w, {"Count", "Send", "Enter"})
    BY <1>7, FinishedMakes
  <2>. QED  BY <1>0, <1>1, <2>1, OrdinaryKept
<1>. QED  BY <1>2, <1>3, <1>4, <1>5, <1>6, <1>7 DEF WorkerStep

LEMMA AppClose ==
    ASSUME AgendaInv, script \in [Apps -> Seq(CallsOfApps)], NothingRuns, CloseInv,
           NEW a \in Apps, AppStep(a)
    PROVE  CloseInv'
<1>0. a \in Threads /\ StraightAhead
  BY DEF Threads, CloseInv
<1>. USE DEF Deciding, Inside, Closings
<1>1. CASE CallStep(a)
  <2>. DEFINE c == Head(script[a])[1]
  <2>1. PICK r \in Seq(FromCalls) :
           /\ agenda[a] = <<>> /\ agenda' = [agenda EXCEPT ![a] = r]
           /\ r \in Seq(FromCall(c))
           /\ UNCHANGED historyVars
    BY <1>1, CallMakes
  <2>2. /\ Calls(a, c) /\ script' = [script EXCEPT ![a] = Tail(@)]
        /\ \/ c = "Start" /\ state' = "Running"
           \/ c = "Shutdown" /\ state' = "Terminated"
           \/ c \notin {"Start", "Shutdown"} /\ state' = state
    BY <1>1 DEF CallStep, Start, AddPacketToInputStream, CloseInputStream, Cancel, Pause,
                Resume, Shutdown, WaitUntilDone, Calls, Making, schedVars
  <2>3. /\ script[a] \in Seq(CallsOfApps) /\ script[a] # <<>> /\ Len(script[a]) \in Nat
        /\ 1 \in 1..Len(script[a]) /\ script[a][1][1] = c
        /\ Len(Tail(script[a])) = Len(script[a]) - 1
        /\ \A i \in 1..(Len(script[a]) - 1) : Tail(script[a])[i] = script[a][i + 1]
    <3>1. script[a] \in Seq(CallsOfApps) /\ script[a] # <<>>
      BY <2>2 DEF Calls
    <3>2. Len(script[a]) \in Nat /\ Len(script[a]) > 0
      BY <3>1, NonEmpty
    <3>. QED  BY <3>1, <3>2
  <2>4. c \notin Controls
    BY <1>0, <2>3 DEF StraightAhead, StraightScript
  <2>5. state = "NotStarted" => c # "Shutdown"
    BY <2>2 DEF Calls
  <2>. HIDE DEF c
  <2>6. \A op \in Ops(r) : /\ op[1] = "SetState" => op[2] = "Terminated"
                           /\ op[1] \notin Deciding
    <3>1. Ops(r) \subseteq FromCall(c)
      BY <2>1, OpsType
    <3>2. CallKinds \cap Deciding = {}
      BY DEF CallKinds
    <3>. QED  BY <2>4, <3>1, <3>2 DEF FromCall, FromCalls, OfKinds
  <2>7. ~ HasIn(r, Deciding)
    BY <2>6, HasOps
  <2>8. \A u \in Threads : \A op \in Ops(agenda'[u]) : op[1] = "SetState" => op[2] = "Terminated"
    BY <1>0, <2>1, <2>6, FreshStraight
  <2>9. ASSUME NEW b \in Apps, NEW i \in Nat, StartsAt(script', b, i)
        PROVE  /\ script'[b][i] = script[b][IF b = a THEN i + 1 ELSE i]
               /\ StartsAt(script, b, IF b = a THEN i + 1 ELSE i)
    <3>1. CASE b = a
      <4>1. script'[b] = Tail(script[a])
        BY <2>2, <3>1
      <4>2. i \in 1..(Len(script[a]) - 1)
        BY <2>3, <2>9, <4>1 DEF StartsAt
      <4>3. i + 1 \in 1..Len(script[a])
        BY <2>3, <4>2
      <4>. QED  BY <2>3, <2>9, <3>1, <4>1, <4>2, <4>3 DEF StartsAt
    <3>2. CASE b # a
      <4>1. script'[b] = script[b]
        BY <2>2, <3>2
      <4>. QED  BY <2>9, <3>2, <4>1 DEF StartsAt
    <3>. QED  BY <3>1, <3>2
  <2>10. StraightScript(script')
    <3>1. ASSUME NEW b \in Apps, NEW i \in 1..Len(script'[b]) PROVE script'[b][i][1] \notin Controls
      <4>1. CASE b = a
        <5>1. script'[b] = Tail(script[a])
          BY <2>2, <4>1
        <5>2. i \in 1..(Len(script[a]) - 1) /\ i + 1 \in 1..Len(script[a])
          BY <2>3, <3>1, <5>1
        <5>3. script'[b][i] = script[a][i + 1]
          BY <2>3, <5>1, <5>2
        <5>. QED  BY <1>0, <5>2, <5>3 DEF StraightAhead, StraightScript
      <4>2. CASE b # a
        <5>1. script'[b] = script[b]
          BY <2>2, <4>2
        <5>. QED  BY <1>0, <3>1, <5>1 DEF StraightAhead, StraightScript
      <4>. QED  BY <4>1, <4>2
    <3>2. ASSUME NEW b \in Apps, NEW d \in Apps, NEW i \in Nat, NEW j \in Nat,
                 StartsAt(script', b, i), StartsAt(script', d, j)
          PROVE  b = d /\ i = j
      <4>. DEFINE x == IF b = a THEN i + 1 ELSE i
                  y == IF d = a THEN j + 1 ELSE j
      <4>1. StartsAt(script, b, x) /\ StartsAt(script, d, y) /\ x \in Nat /\ y \in Nat
        BY <2>9, <3>2
      <4>2. b = d /\ x = y
        BY <1>0, <4>1 DEF StraightAhead, StraightScript
      <4>. QED  BY <4>2
    <3>. QED  BY <3>1, <3>2 DEF StraightScript
  <2>11. ASSUME NEW b \in Apps, NEW i \in Nat, StartsAt(script', b, i) PROVE state' = "NotStarted"
    <3>. DEFINE x == IF b = a THEN i + 1 ELSE i
    <3>1. StartsAt(script, b, x) /\ x \in Nat
      BY <2>9, <2>11
    <3>2. state = "NotStarted"
      BY <1>0, <3>1 DEF StraightAhead
    <3>3. c # "Start"
      <4>1. SUFFICES ASSUME c = "Start" PROVE FALSE
        OBVIOUS
      <4>2. StartsAt(script, a, 1)
        BY <2>3, <4>1 DEF StartsAt
      <4>3. b = a /\ x = 1
        BY <1>0, <3>1, <4>2 DEF StraightAhead, StraightScript
      <4>4. i \in 1..Len(script'[b])
        BY <2>11 DEF StartsAt
      <4>. QED  BY <4>3, <4>4
    <3>. QED  BY <2>2, <2>5, <3>2, <3>3
  <2>12. state' \in {"NotStarted", "Running", "Terminated"}
    BY <1>0, <2>2 DEF StraightAhead
  <2>13. state = "Terminated" => state' = "Terminated"
    <3>1. c = "Start" => state = "NotStarted"
      <4>1. c = "Start" => StartsAt(script, a, 1)
        BY <2>3 DEF StartsAt
      <4>. QED  BY <1>0, <4>1 DEF StraightAhead
    <3>. QED  BY <2>2, <3>1
  <2>14. Closing'
    BY <1>0, <2>1, <2>7, <2>13, FreshClosing DEF CloseInv, historyVars
  <2>. QED  BY <2>8, <2>10, <2>11, <2>12, <2>14 DEF CloseInv, StraightAhead
<1>2. CASE ~ CallStep(a)
  <2>1. \/ OpenSource(a) \/ IncClosedGraphInputStreams(a) \/ SetState(a)
        \/ Notify(a) \/ Wait(a) \/ Block(a)
    BY <1>2 DEF AppStep
  <2>2. PICK k \in {"OpenSource", "Wait", "IncClosed", "SetState", "Notify", "Block"},
             L \in {{}, {"AddNode"}, {"Block", "Wait"}} : At(a, k) /\ Puts(a, L)
    BY <2>1, AppMakes
  <2>3. closes' = closes /\ script' = script
    BY <2>1 DEF OpenSource, IncClosedGraphInputStreams, SetState, Notify, Wait, Block,
                historyVars
  <2>4. state' = state \/ (state' = "Terminated" /\ state # "NotStarted")
    <3>1. CASE SetState(a)
      <4>1. At(a, "SetState") /\ state' = Arg(a, 2)
        BY <3>1 DEF SetState
      <4>2. Head(agenda[a]) \in Ops(agenda[a]) /\ Head(agenda[a])[1] = "SetState"
        BY <1>0, <4>1, HeadIs
      <4>3. Arg(a, 2) = "Terminated"
        BY <1>0, <4>2 DEF StraightAhead, Arg
      <4>4. state # "NotStarted"
        BY <1>0, <4>1, EarlyHead DEF EarlyKinds
      <4>. QED  BY <4>1, <4>3, <4>4
    <3>2. CASE ~ SetState(a)
      BY <2>1, <3>2 DEF OpenSource, IncClosedGraphInputStreams, Notify, Wait, Block, schedVars
    <3>. QED  BY <3>1, <3>2
  <2>. QED  BY <1>0, <2>2, <2>3, <2>4, OrdinaryKept
<1>. QED  BY <1>1, <1>2

LEMMA CloseInit == StraightRun /\ Init => CloseInv
<1>. SUFFICES ASSUME StraightRun, Init PROVE CloseInv
  OBVIOUS
<1>1. /\ \A t \in Threads : agenda[t] = <<>>
      /\ closes = [n \in Nodes |-> 0] /\ state = "NotStarted" /\ script \in Scripts
  BY DEF Init
<1>2. \A t \in Threads : Ops(agenda[t]) = {}
  BY <1>1, OpsEmpty
<1>3. \A t \in Threads : \A K : ~ HasIn(agenda[t], K)
  BY <1>1 DEF HasIn
<1>4. \A t \in Threads : CloseForm(agenda[t])
  BY <1>3, NoClosings
<1>5. Closing
  BY <1>1, <1>2, <1>3, <1>4 DEF Closing, NoneClosed
<1>6. StraightAhead
  BY <1>1, <1>2 DEF StraightRun, StraightAhead
<1>. QED  BY <1>5, <1>6 DEF CloseInv

LEMMA CloseStep ==
    ThreadsInv /\ NothingRuns /\ StraightRun /\ CloseInv /\ [Next]_vars => CloseInv'
<1>. SUFFICES ASSUME ThreadsInv, NothingRuns, StraightRun, CloseInv, [Next]_vars
              PROVE  CloseInv'
  OBVIOUS
<1>0. AgendaInv /\ script \in [Apps -> Seq(CallsOfApps)]
  BY DEF ThreadsInv
<1>1. CASE UNCHANGED vars
  <2>1. UNCHANGED <<agenda, script, state, closes>>
    BY <1>1 DEF vars, threadVars, historyVars, schedVars
  <2>2. StraightAhead'
    BY <2>1 DEF CloseInv, StraightAhead, StraightScript, StartsAt
  <2>3. Closing'
    BY <2>1 DEF CloseInv, Closing, NoneClosed
  <2>. QED  BY <2>2, <2>3 DEF CloseInv
<1>2. CASE Next
  BY <1>0, <1>2, CommonClose, WorkerClose, AppClose DEF Next
<1>. QED  BY <1>1, <1>2

\* When the application starts the graph once and neither pauses nor cancels
\* it, CloseAllNodes closes each node at most once, although every thread may
\* reach the termination check: what one thread found in it cannot be found
\* again once state_ is kTerminated, and nothing takes state_ back.
THEOREM NodesClosedOnce == ASSUME StraightRun PROVE Spec => []ClosedAtMostOnce
<1>1. CloseInv => ClosedAtMostOnce
  BY DEF CloseInv, Closing, ClosedAtMostOnce
<1>2. Init => CloseInv
  BY CloseInit
<1>3. ThreadsInv /\ DrainInv /\ CloseInv /\ [Next]_vars => CloseInv'
  BY CloseStep DEF DrainInv
<1>. QED  BY <1>1, <1>2, <1>3, ThreadsCorrect, DrainCorrect, PTL DEF Spec

-----------------------------------------------------------------------------
(* Done travels behind the data.                                           *)

MirrorsOf(p) == {Mirrors[p][i] : i \in 1..Len(Mirrors[p])}

\* Application thread a may fill or close graph input g.
FeedsIn(s, a, g) == \E i \in 1..Len(s[a]) : s[a][i][1] \in Feeding /\ s[a][i][2] = g
Feeds(a, g) == \E s \in Scripts : FeedsIn(s, a, g)

\* Every node runs one invocation at a time and neither stops early nor fails;
\* an input stream has one producer, as output_by_stream of Initialize makes
\* sure; a graph input belongs to one thread.
OrderlyRun ==
    /\ Nodes \cap GraphInputs = {}
    /\ \A n \in Nodes : MaxInFlight[n] = 1
    /\ MayStop = {} /\ MayFail = {}
    /\ \A p, q \in Producers : p # q => MirrorsOf(p) \cap MirrorsOf(q) = {}
    /\ \A a, b \in Apps, g \in GraphInputs : Feeds(a, g) /\ Feeds(b, g) => a = b

\* Operation op brings packets of producer p to its mirrors; closes its output.
Emits(op, p) ==
    \/ op[1] = "PostProcess" /\ op[2] = p /\ op[3] # 0
    \/ op[1] = "AddPackets" /\ op[2] \in MirrorsOf(p)
Closers == {"BoundDone", "CloseManager"}
Shuts(op, p) == op[1] \in Closers /\ op[2] = p

Emitting(p) == \E t \in Threads : \E op \in Ops(agenda[t]) : Emits(op, p)
Shutting(p) == p \in outDone \/ \E t \in Threads : \E op \in Ops(agenda[t]) : Shuts(op, p)

\* Producer p has nothing more to emit.
Spent(p) == (p \in Consumers => p \in finalized) /\ (p \in Sources => supply[p] = 0)

OpFits(t, op) ==
    /\ op[1] \in {"PostProcess", "BoundDone"} => op[2] \in Nodes
    /\ op[1] \in Closers =>
          Spent(op[2]) /\ (op[2] \in GraphInputs => t \in Apps /\ Feeds(t, op[2]))
    /\ op[1] = "SetDone" => \A p \in Producers : op[2] \in MirrorsOf(p) => p \in outDone
    /\ op[1] = "AddPackets" => \E p \in Producers : op[2] \in MirrorsOf(p)

\* Thread t may emit for p.
EmitsAs(t, p) ==
    IF p \in Nodes THEN t \in Workers /\ <<"Finalize", p>> \in Ops(agenda[t])
    ELSE t \in Apps /\ Feeds(t, p)

DoneBehind ==
    /\ \A p \in Producers : \A e \in MirrorsOf(p) : done[e] => p \in outDone
    /\ \A p \in outDone : Spent(p) /\ (p \in GraphInputs => p \in outClosed)

ScriptFeeds == \A a \in Apps, g \in GraphInputs : FeedsIn(script, a, g) => Feeds(a, g)
OpsFit == \A t \in Threads : \A op \in Ops(agenda[t]) : OpFits(t, op)
EmittersFit ==
    \A t \in Threads : \A op \in Ops(agenda[t]) : \A p \in Producers :
        Emits(op, p) => EmitsAs(t, p)
NotBoth == \A p \in Producers : ~ (Emitting(p) /\ Shutting(p))

Observed == closePending \cup finalized

\* An invocation of n has popped, or will pop, each of its inputs.
PopsFit(w, n) ==
    /\ \A e \in Edges : <<"PopQueueHead", e>> \in Ops(agenda[w]) => e \in Ports(n)
    /\ seen[w].done \subseteq Ports(n)
    /\ n \in Observed =>
          /\ seen[w].packets = {}
          /\ \A e \in Ports(n) :
                e \in seen[w].done \/ <<"PopQueueHead", e>> \in Ops(agenda[w])

SeenOf(w) ==
    /\ HasIn(agenda[w], {"PopQueueHead"}) \/ seen[w] # NoneSeen => HasIn(agenda[w], {"Process"})
    /\ \A n \in Nodes : <<"Process", n>> \in Ops(agenda[w]) => PopsFit(w, n)

SeenFits == \A w \in Workers : SeenOf(w)

ObservedFit ==
    /\ doneRuns \in [Nodes -> 0..2]
    /\ supply \in [Sources -> Nat]
    /\ \A n \in Observed : AllInputsDone(n)
    /\ \A n \in finalized : doneRuns[n] # 0
    /\ \A w \in Workers : \A n \in closePending :
          <<"Finalize", n>> \in Ops(agenda[w]) => doneRuns[n] # 0

FlowInv ==
    /\ DoneBehind /\ ScriptFeeds /\ OpsFit /\ EmittersFit /\ NotBoth /\ SeenFits /\ ObservedFit

\* Every operation of t that is not in R was there before; the other threads
\* keep theirs.
Adds(t, R) ==
    /\ \A u \in Threads : u # t => agenda'[u] = agenda[u]
    /\ Ops(agenda'[t]) \subseteq R \cup Ops(agenda[t])

LEMMA ThenAdds ==
    ASSUME AgendaInv, NEW t \in Threads, NEW k, At(t, k), NEW r \in Seq(Operations), Then(t, r)
    PROVE  /\ Adds(t, Ops(r))
           /\ Ops(r) \subseteq Ops(agenda'[t])
           /\ \A op \in Ops(agenda[t]) : op[1] # k => op \in Ops(agenda'[t])
<1>1. /\ Ops(agenda'[t]) = Ops(r) \cup Rest(agenda[t])
      /\ Ops(agenda[t]) = {Head(agenda[t])} \cup Rest(agenda[t])
      /\ Head(agenda[t])[1] = k
      /\ \A u \in Threads : u # t => agenda'[u] = agenda[u]
  BY OpsStep
<1>. QED  BY <1>1 DEF Adds

LEMMA FreshAdds ==
    ASSUME AgendaInv, NEW t \in Threads, agenda[t] = <<>>, NEW r,
           agenda' = [agenda EXCEPT ![t] = r]
    PROVE  /\ Adds(t, Ops(r)) /\ Ops(agenda'[t]) = Ops(r) /\ Ops(agenda[t]) = {}
BY OpsFresh DEF Adds

\* What is spent stays spent.
Grows ==
    /\ outDone \subseteq outDone'
    /\ finalized \subseteq finalized'
    /\ \A s \in Sources : supply[s] = 0 => supply'[s] = 0

LEMMA OpsFitKept ==
    ASSUME OpsFit, NEW t \in Threads, NEW R, Adds(t, R), Grows,
           \A op \in R : OpFits(t, op)'
    PROVE  OpsFit'
<1>1. \A p : Spent(p) => Spent(p)'
  BY DEF Spent, Grows
<1>2. \A u, op : OpFits(u, op) => OpFits(u, op)'
  BY <1>1 DEF OpFits, Grows
<1>3. ASSUME NEW u \in Threads, NEW op \in Ops(agenda'[u]) PROVE OpFits(u, op)'
  <2>1. CASE u # t
    BY <1>2, <1>3, <2>1 DEF Adds, OpsFit
  <2>2. CASE u = t
    BY <1>2, <1>3, <2>2 DEF Adds, OpsFit
  <2>. QED  BY <2>1, <2>2
<1>. QED  BY <1>3 DEF OpsFit

LEMMA EmittersKept ==
    ASSUME EmittersFit, NEW t \in Threads, NEW R, Adds(t, R),
           \A op \in Ops(agenda'[t]) : \A p \in Producers : Emits(op, p) => EmitsAs(t, p)'
    PROVE  EmittersFit'
<1>1. ASSUME NEW u \in Threads, NEW op \in Ops(agenda'[u]), NEW p \in Producers, Emits(op, p)
      PROVE  EmitsAs(u, p)'
  <2>1. CASE u # t
    <3>1. agenda'[u] = agenda[u]
      BY <2>1 DEF Adds
    <3>2. EmitsAs(u, p)
      BY <1>1, <3>1 DEF EmittersFit
    <3>. QED  BY <3>1, <3>2 DEF EmitsAs
  <2>2. CASE u = t
    BY <1>1, <2>2
  <2>. QED  BY <2>1, <2>2
<1>. QED  BY <1>1 DEF EmittersFit, Emits

\* A thread begins to emit for p only when nobody closes its output, and to
\* close it only when nobody emits.
LEMMA NotBothKept ==
    ASSUME NotBoth, NEW t \in Threads, NEW R, Adds(t, R),
           \A p \in Producers : p \in outDone' => Shutting(p),
           \A op \in R : \A p \in Producers :
              /\ Emits(op, p) => Emitting(p) \/ (~ Shutting(p) /\ \A x \in R : ~ Shuts(x, p))
              /\ Shuts(op, p) => Shutting(p) \/ ~ Emitting(p)
    PROVE  NotBoth'
<1>. SUFFICES ASSUME NEW p \in Producers, Emitting(p)', Shutting(p)'
              PROVE  FALSE
  BY DEF NotBoth
<1>1. Emitting(p) \/ \E op \in R : Emits(op, p)
  <2>1. PICK u \in Threads : \E op \in Ops(agenda'[u]) : Emits(op, p)
    BY DEF Emitting, Emits
  <2>2. PICK op \in Ops(agenda'[u]) : Emits(op, p)
    BY <2>1
  <2>3. op \in Ops(agenda[u]) \/ op \in R
    BY <2>2 DEF Adds
  <2>. QED  BY <2>2, <2>3 DEF Emitting
<1>2. Shutting(p) \/ \E op \in R : Shuts(op, p)
  <2>1. CASE p \in outDone'
    BY <2>1
  <2>2. CASE p \notin outDone'
    <3>1. PICK u \in Threads : \E op \in Ops(agenda'[u]) : Shuts(op, p)
      BY <2>2 DEF Shutting, Shuts
    <3>2. PICK op \in Ops(agenda'[u]) : Shuts(op, p)
      BY <3>1
    <3>3. op \in Ops(agenda[u]) \/ op \in R
      BY <3>2 DEF Adds
    <3>. QED  BY <3>2, <3>3 DEF Shutting
  <2>. QED  BY <2>1, <2>2
<1>3. ~ (Emitting(p) /\ Shutting(p))
  BY DEF NotBoth
<1>. QED  BY <1>1, <1>2, <1>3

\* Nothing is popped, and no invocation begins or ends.
LEMMA SeenKept ==
    ASSUME AgendaInv, SeenFits, seen' = seen,
           \A w \in Workers : \A op : op[1] \in {"Process", "PopQueueHead"} =>
              (op \in Ops(agenda'[w]) <=> op \in Ops(agenda[w])),
           \A n \in Observed' \ Observed : \A w \in Workers :
              <<"Process", n>> \notin Ops(agenda[w])
    PROVE  SeenFits'
<1>. SUFFICES ASSUME NEW w \in Workers
              PROVE  /\ HasIn(agenda'[w], {"PopQueueHead"}) \/ seen[w] # NoneSeen =>
                            HasIn(agenda'[w], {"Process"})
                     /\ \A n \in Nodes : <<"Process", n>> \in Ops(agenda'[w]) => PopsFit(w, n)'
  BY DEF SeenFits, SeenOf
<1>1. \A K : K \subseteq {"Process", "PopQueueHead"} =>
          (HasIn(agenda'[w], K) <=> HasIn(agenda[w], K))
  BY HasOps
<1>2. \A x : /\ <<"Process", x>> \in Ops(agenda'[w]) <=> <<"Process", x>> \in Ops(agenda[w])
             /\ <<"PopQueueHead", x>> \in Ops(agenda'[w]) <=> <<"PopQueueHead", x>> \in Ops(agenda[w])
  <2>1. \A x : <<"Process", x>>[1] = "Process" /\ <<"PopQueueHead", x>>[1] = "PopQueueHead"
    OBVIOUS
  <2>. QED  BY <2>1
<1>3. ASSUME NEW n \in Nodes, <<"Process", n>> \in Ops(agenda'[w]) PROVE PopsFit(w, n)'
  <2>1. PopsFit(w, n) /\ (n \in Observed' => n \in Observed)
    BY <1>2, <1>3 DEF SeenFits, SeenOf
  <2>. QED  BY <1>2, <2>1 DEF PopsFit
<1>. QED  BY <1>1, <1>3 DEF SeenFits, SeenOf

\* The finalizing of the nodes stands still.
LEMMA ObservedKept ==
    ASSUME ObservedFit, DataTyped, UNCHANGED <<closePending, finalized, doneRuns, supply>>,
           \A e \in Edges : IsDone(e) => IsDone(e)',
           \A w \in Workers : \A n \in Nodes :
              <<"Finalize", n>> \in Ops(agenda'[w]) => <<"Finalize", n>> \in Ops(agenda[w])
    PROVE  ObservedFit'
<1>1. ASSUME NEW n \in Nodes, AllInputsDone(n) PROVE AllInputsDone(n)'
  <2>1. Ports(n) \subseteq Edges
    <3>1. InputPorts[n] \in Seq(Edges)
      BY GraphAssumption
    <3>. QED  BY <3>1 DEF Ports
  <2>. QED  BY <1>1, <2>1 DEF AllInputsDone
<1>2. Observed \subseteq Nodes /\ closePending \subseteq Nodes
  BY DEF DataTyped, Observed
<1>. QED  BY <1>1, <1>2 DEF ObservedFit, Observed

Flowing == {"PostProcess", "AddPackets", "SetDone", "BoundDone", "CloseManager"}
Moving == Flowing \cup {"Process", "PopQueueHead", "Finalize"}

LEMMA StillFits ==
    ASSUME NEW t, NEW op, op[1] \notin Flowing
    PROVE  OpFits(t, op)' /\ \A p : ~ Emits(op, p) /\ ~ Shuts(op, p)
BY DEF OpFits, Emits, Shuts, Closers, Flowing

DoneKept == \A e \in Edges : IsDone(e) => IsDone(e)'
Flow == OpsFit /\ EmittersFit /\ NotBoth /\ SeenFits /\ ObservedFit /\ DoneBehind

\* A step that neither emits nor closes, pops or runs a node.
LEMMA CalmFlow ==
    ASSUME AgendaInv, DataTyped, Flow, NEW t \in Threads, NEW R, Adds(t, R),
           \A op \in R : op[1] \notin Moving,
           \A op \in Ops(agenda[t]) : op[1] \in Moving => op \in Ops(agenda'[t]),
           UNCHANGED <<seen, len, done, outDone, outClosed, supply, closePending, finalized,
                       doneRuns>>
    PROVE  Flow' /\ DoneKept
<1>1. \A op \in R : OpFits(t, op)' /\ \A p : ~ Emits(op, p) /\ ~ Shuts(op, p)
  BY StillFits DEF Moving, Flowing
<1>2. OpsFit'
  <2>1. Grows
    BY DEF Grows
  <2>. QED  BY <1>1, <2>1, OpsFitKept DEF Flow
<1>3. \A x : <<"Finalize", x>>[1] = "Finalize" /\ <<"Process", x>>[1] = "Process"
  OBVIOUS
<1>4. EmittersFit'
  <2>1. ASSUME NEW op \in Ops(agenda'[t]), NEW p \in Producers, Emits(op, p)
        PROVE  EmitsAs(t, p)'
    <3>1. op \in Ops(agenda[t])
      BY <1>1, <2>1 DEF Adds
    <3>2. EmitsAs(t, p)
      BY <2>1, <3>1 DEF Flow, EmittersFit
    <3>3. "Finalize" \in Moving
      BY DEF Moving, Flowing
    <3>. QED  BY <1>3, <3>2, <3>3 DEF EmitsAs
  <2>. QED  BY <2>1, EmittersKept DEF Flow
<1>5. NotBoth'
  BY <1>1, NotBothKept DEF Flow, Shutting
<1>6. \A u \in Threads : \A op : op[1] \in Moving =>
          (op \in Ops(agenda'[u]) <=> op \in Ops(agenda[u]))
  BY DEF Adds
<1>7. SeenFits'
  <2>1. Observed' = Observed /\ {"Process", "PopQueueHead"} \subseteq Moving
    BY DEF Observed, Moving, Flowing
  <2>2. \A w \in Workers : \A op : op[1] \in {"Process", "PopQueueHead"} =>
              (op \in Ops(agenda'[w]) <=> op \in Ops(agenda[w]))
    BY <1>6, <2>1 DEF Threads
  <2>. QED  BY <2>1, <2>2, SeenKept DEF Flow
<1>8. DoneKept
  BY DEF DoneKept, IsDone
<1>9. ObservedFit'
  <2>1. \A w \in Workers : \A n \in Nodes :
              <<"Finalize", n>> \in Ops(agenda'[w]) => <<"Finalize", n>> \in Ops(agenda[w])
    BY <1>3, <1>6 DEF Moving, Flowing, Threads
  <2>. QED  BY <1>8, <2>1, ObservedKept DEF Flow, DoneKept
<1>10. DoneBehind'
  BY DEF Flow, DoneBehind, Spent
<1>. QED  BY <1>2, <1>4, <1>5, <1>7, <1>8, <1>9, <1>10 DEF Flow

LEMMA CalmPuts ==
    ASSUME AgendaInv, DataTyped, Flow, NEW t \in Threads, NEW k, At(t, k), k \notin Moving,
           NEW L, Puts(t, L), L \cap Moving = {},
           UNCHANGED <<seen, len, done, outDone, outClosed, supply, closePending, finalized,
                       doneRuns>>
    PROVE  Flow' /\ DoneKept
<1>1. PICK r \in Seq(OfKinds(L)) : Then(t, r)
  BY DEF Puts
<1>2. r \in Seq(Operations) /\ \A op \in Ops(r) : op[1] \in L
  BY OfKindsOps
<1>3. /\ Adds(t, Ops(r))
      /\ \A op \in Ops(agenda[t]) : op[1] # k => op \in Ops(agenda'[t])
  BY <1>1, <1>2, ThenAdds
<1>4. \A op \in Ops(r) : op[1] \notin Moving
  BY <1>2
<1>5. \A op \in Ops(agenda[t]) : op[1] \in Moving => op \in Ops(agenda'[t])
  BY <1>3
<1>. QED  BY <1>3, <1>4, <1>5, CalmFlow

LEMMA QueueIdleFlow ==
    ASSUME AgendaInv, DataTyped, Flow, NEW t \in Threads, QueueStep(t) \/ IdleStep(t)
    PROVE  Flow' /\ DoneKept
<1>1. UNCHANGED <<seen, len, done, outDone, outClosed, supply, closePending, finalized, doneRuns>>
  BY DEF QueueStep, AddNode, SubmitToExecutor, SetRunning, SubmitWaiting, Cleanup,
         IdleStep, Enter, Leave, Begin, CheckIdle, Idle, Scan, DrainNode, FindUnfinalized,
         Judge, CloseNode, Terminate, streamVars, finalVars, historyVars
<1>2. CASE QueueStep(t)
  <2>1. PICK k \in {"AddNode", "Count", "Send", "SetRunning", "SubmitWaiting", "Cleanup"} :
           At(t, k) /\ Puts(t, Submits)
    BY <1>2, QueueMakes
  <2>2. k \notin Moving /\ Submits \cap Moving = {}
    BY DEF Moving, Flowing, Submits
  <2>. QED  BY <1>1, <2>1, <2>2, CalmPuts
<1>3. CASE IdleStep(t)
  <2>1. PICK k \in IdleAt : At(t, k) /\ Puts(t, IdleKinds)
    BY <1>3, IdleMakes
  <2>2. k \notin Moving /\ IdleKinds \cap Moving = {}
    BY DEF Moving, Flowing, IdleKinds, IdleAt, Inside
  <2>. QED  BY <1>1, <2>1, <2>2, CalmPuts
<1>. QED  BY <1>2, <1>3

\* A worker that neither pops, nor runs a node, nor decides how it ends.
LEMMA WorkerCalm ==
    ASSUME AgendaInv, DataTyped, Flow, NEW w \in Workers,
           \/ TakeTask(w) \/ Decrement(w) \/ Reschedule(w) \/ SafetyNet(w)
           \/ SourceStopped(w) \/ ErrorCallback(w) \/ OnTaskFinished(w)
    PROVE  Flow' /\ DoneKept
<1>. w \in Threads
  BY DEF Threads
<1>1. UNCHANGED <<seen, len, done, outDone, outClosed, supply, closePending, finalized, doneRuns>>
  BY DEF TakeTask, Decrement, Reschedule, SafetyNet, SourceStopped, ErrorCallback,
         OnTaskFinished, streamVars, finalVars, historyVars
<1>2. CASE TakeTask(w)
  <2>. DEFINE r == << <<"TryPop">> >>
  <2>1. agenda[w] = <<>> /\ agenda' = [agenda EXCEPT ![w] = r]
    BY <1>2 DEF TakeTask
  <2>2. Ops(r) = {<<"TryPop">>}
    BY OpsOne
  <2>3. <<"TryPop">>[1] \notin Moving
    BY DEF Moving, Flowing
  <2>. HIDE DEF r
  <2>4. Adds(w, Ops(r)) /\ Ops(agenda[w]) = {}
    BY <2>1, FreshAdds
  <2>. QED  BY <1>1, <2>2, <2>3, <2>4, CalmFlow
<1>3. CASE OnTaskFinished(w)
  <2>1. PICK k \in {"Finished", "NoItem"} : At(w, k) /\ Puts(w, {"Count", "Send", "Enter"})
    BY <1>3, FinishedMakes
  <2>2. k \notin Moving /\ {"Count", "Send", "Enter"} \cap Moving = {}
    BY DEF Moving, Flowing
  <2>. QED  BY <1>1, <2>1, <2>2, CalmPuts
<1>4. CASE ~ TakeTask(w) /\ ~ OnTaskFinished(w)
  <2>1. PICK k \in {"Decrement", "SourceStopped", "ErrorCallback", "Reschedule", "SafetyNet",
                    "PopQueueHead"},
             L \in {{}, {"AddNode"}} : At(w, k) /\ Puts(w, L)
    BY <1>4, WorkerMakes
  <2>2. k # "PopQueueHead"
    BY <1>4, <2>1 DEF At, Decrement, Reschedule, SafetyNet, SourceStopped, ErrorCallback
  <2>3. k \notin Moving /\ L \cap Moving = {}
    BY <2>2 DEF Moving, Flowing
  <2>. QED  BY <1>1, <2>1, <2>3, CalmPuts
<1>. QED  BY <1>2, <1>3, <1>4

LEMMA AppCalm ==
    ASSUME AgendaInv, DataTyped, Flow, NEW a \in Apps,
           \/ OpenSource(a) \/ IncClosedGraphInputStreams(a) \/ SetState(a)
           \/ Notify(a) \/ Wait(a) \/ Block(a)
    PROVE  Flow' /\ DoneKept
<1>. a \in Threads
  BY DEF Threads
<1>1. UNCHANGED <<seen, len, done, outDone, outClosed, supply, closePending, finalized, doneRuns>>
  BY DEF OpenSource, IncClosedGraphInputStreams, SetState, Notify, Wait, Block, streamVars,
         finalVars, historyVars
<1>2. PICK k \in {"OpenSource", "Wait", "IncClosed", "SetState", "Notify", "Block"},
           L \in {{"AddNode"}, {"Block", "Wait"}, {}} : At(a, k) /\ Puts(a, L)
  BY AppMakes
<1>3. k \notin Moving /\ L \cap Moving = {}
  BY DEF Moving, Flowing
<1>. QED  BY <1>1, <1>2, <1>3, CalmPuts

-----------------------------------------------------------------------------
(* The streams.                                                            *)

\* A step of the streams: no node is run, and what a thread does of that kind
\* stays in its agenda.
LEMMA StreamKept ==
    ASSUME AgendaInv, DataTyped, Flow, NEW t \in Threads,
           NEW k \in {"PostProcess", "AddPackets", "SetDone", "BoundDone", "CloseManager"},
           At(t, k), NEW L \in {{"AddNode"}, {"SetDone"}, {"AddPackets", "SetDone"}},
           NEW r \in Seq(OfKinds(L)), Then(t, r),
           UNCHANGED <<seen, supply, closePending, finalized, doneRuns>>, DoneKept
    PROVE  SeenFits' /\ ObservedFit'
<1>1. r \in Seq(Operations) /\ \A op \in Ops(r) : op[1] \in L
  BY OfKindsOps
<1>2. /\ Adds(t, Ops(r))
      /\ \A op \in Ops(agenda[t]) : op[1] # k => op \in Ops(agenda'[t])
  BY <1>1, ThenAdds
<1>3. \A u \in Threads : \A op : op[1] \in {"Process", "PopQueueHead", "Finalize"} =>
          (op \in Ops(agenda'[u]) <=> op \in Ops(agenda[u]))
  BY <1>1, <1>2 DEF Adds
<1>4. SeenFits'
  <2>1. Observed' = Observed
    BY DEF Observed
  <2>2. \A w \in Workers : \A op : op[1] \in {"Process", "PopQueueHead"} =>
              (op \in Ops(agenda'[w]) <=> op \in Ops(agenda[w]))
    BY <1>3 DEF Threads
  <2>. QED  BY <2>1, <2>2, SeenKept DEF Flow
<1>5. ObservedFit'
  <2>1. \A x : <<"Finalize", x>>[1] = "Finalize"
    OBVIOUS
  <2>2. \A w \in Workers : \A n \in Nodes :
              <<"Finalize", n>> \in Ops(agenda'[w]) => <<"Finalize", n>> \in Ops(agenda[w])
    BY <1>3, <2>1 DEF Threads
  <2>. QED  BY <2>2, ObservedKept DEF Flow, DoneKept
<1>. QED  BY <1>4, <1>5

\* An emission in an agenda stays one while the thread is not at Finalize.
LEMMA EmitsOn ==
    ASSUME AgendaInv, Flow, NEW t \in Threads, NEW k, At(t, k), k # "Finalize",
           NEW r \in Seq(Operations), Then(t, r),
           \A op \in Ops(r) : \A p \in Producers : Emits(op, p) => EmitsAs(t, p)
    PROVE  EmittersFit'
<1>1. /\ Adds(t, Ops(r))
      /\ \A op \in Ops(agenda[t]) : op[1] # k => op \in Ops(agenda'[t])
  BY ThenAdds
<1>2. ASSUME NEW op \in Ops(agenda'[t]), NEW p \in Producers, Emits(op, p)
      PROVE  EmitsAs(t, p)'
  <2>1. EmitsAs(t, p)
    BY <1>1, <1>2 DEF Adds, Flow, EmittersFit
  <2>2. <<"Finalize", p>>[1] # k
    OBVIOUS
  <2>. QED  BY <1>1, <2>1, <2>2 DEF EmitsAs
<1>. QED  BY <1>1, <1>2, EmittersKept DEF Flow

LEMMA MirrorEdges ==
    ASSUME NEW p \in Producers
    PROVE  /\ Mirrors[p] \in Seq(Edges) /\ MirrorsOf(p) \subseteq Edges
           /\ \A i \in 1..Len(Mirrors[p]) : Mirrors[p][i] \in Edges \cap MirrorsOf(p)
<1>1. Mirrors[p] \in Seq(Edges)
  BY GraphAssumption
<1>. QED  BY <1>1 DEF MirrorsOf

\* What PropagateUpdatesToMirrors goes on with.
LEMMA PropagateMakes ==
    ASSUME NEW p \in Producers, NEW k \in Nat
    PROVE  LET L == {"AddPackets", "SetDone"}
               r == PropagateOps(p, k)
           IN  /\ r \in Seq(OfKinds(L))
               /\ \A op \in Ops(r) :
                     /\ op[1] \in L /\ op[2] \in MirrorsOf(p)
                     /\ op[1] = "AddPackets" => k > 0
                     /\ op[1] = "SetDone" => p \in outDone
<1>. DEFINE L == {"AddPackets", "SetDone"}
            T == {op \in OfKinds(L) : /\ op[1] \in L /\ op[2] \in MirrorsOf(p)
                                      /\ op[1] = "AddPackets" => k > 0
                                      /\ op[1] = "SetDone" => p \in outDone}
            r == PropagateOps(p, k)
<1>1. \A i \in 1..Len(Mirrors[p]) :
         /\ <<"AddPackets", Mirrors[p][i], k>> \in OfKinds(L)
         /\ <<"SetDone", Mirrors[p][i]>> \in OfKinds(L)
  BY MirrorEdges, KindOps
<1>2. \A i \in 1..Len(Mirrors[p]) :
         /\ k > 0 => <<"AddPackets", Mirrors[p][i], k>> \in T
         /\ p \in outDone => <<"SetDone", Mirrors[p][i]>> \in T
  BY <1>1, MirrorEdges
<1>3. T \subseteq OfKinds(L)
  OBVIOUS
<1>4. \A op \in T : /\ op[1] \in L /\ op[2] \in MirrorsOf(p)
                    /\ op[1] = "AddPackets" => k > 0
                    /\ op[1] = "SetDone" => p \in outDone
  OBVIOUS
<1>. HIDE DEF T, L
<1>5. r \in Seq(T)
  BY <1>2, PropagateKinds
<1>. HIDE DEF r
<1>6. Ops(r) \subseteq T /\ r \in Seq(OfKinds(L))
  BY <1>3, <1>5, OpsType
<1>. QED  BY <1>4, <1>6 DEF r, L

LEMMA EachSetDone ==
    ASSUME NEW p \in Producers
    PROVE  LET r == Each("SetDone", Mirrors[p]) IN
           /\ r \in Seq(OfKinds({"SetDone"}))
           /\ \A op \in Ops(r) : op[1] = "SetDone" /\ op[2] \in MirrorsOf(p)
<1>. DEFINE r == Each("SetDone", Mirrors[p])
<1>1. r \in Seq(OfKinds({"SetDone"}))
  BY SetDoneKinds
<1>2. Len(Mirrors[p]) \in Nat
  BY MirrorEdges
<1>3. Len(r) = Len(Mirrors[p]) /\ \A i \in 1..Len(r) : r[i] = <<"SetDone", Mirrors[p][i]>>
  BY <1>2 DEF Each
<1>4. ASSUME NEW op \in Ops(r) PROVE op[1] = "SetDone" /\ op[2] \in MirrorsOf(p)
  <2>1. PICK i \in 1..Len(r) : op = r[i]
    BY <1>4 DEF Ops
  <2>2. op = <<"SetDone", Mirrors[p][i]>>
    BY <1>3, <2>1
  <2>. QED  BY <1>3, <2>1, <2>2 DEF MirrorsOf
<1>. QED  BY <1>1, <1>4

LEMMA HeadFits ==
    ASSUME AgendaInv, Flow, NEW t \in Threads, NEW k, At(t, k)
    PROVE  /\ Head(agenda[t]) \in Ops(agenda[t]) /\ Head(agenda[t])[1] = k
           /\ OpFits(t, Head(agenda[t]))
           /\ \A p \in Producers : /\ Emits(Head(agenda[t]), p) => Emitting(p) /\ EmitsAs(t, p)
                                   /\ Shuts(Head(agenda[t]), p) => Shutting(p)
BY HeadIs DEF Flow, OpsFit, EmittersFit, Emitting, Shutting

\* Packets and Done reach an edge: nothing arrives after Done.
LEMMA EdgeFlow ==
    ASSUME AgendaInv, DataTyped, Flow, NEW t \in Threads, AddPackets(t) \/ SetDone(t)
    PROVE  Flow' /\ DoneKept
<1>1. PICK k \in {"AddPackets", "SetDone"} :
         At(t, k) /\ (k = "AddPackets" <=> AddPackets(t)) /\ (k = "SetDone" <=> SetDone(t))
  BY DEF AddPackets, SetDone, At
<1>2. PICK e \in Edges : e = Arg(t, 2)
  BY <1>1, ArgFacts
<1>3. Head(agenda[t])[2] = e
  BY <1>2 DEF Arg
<1>4. PICK r \in Seq(OfKinds({"AddNode"})) : Then(t, r)
  BY <1>1, StreamMakes DEF StreamStep, Puts, At
<1>5. r \in Seq(Operations) /\ \A op \in Ops(r) : op[1] \notin Moving
  <2>1. r \in Seq(Operations) /\ \A op \in Ops(r) : op[1] = "AddNode"
    BY OfKindsOps
  <2>. QED  BY <2>1 DEF Moving, Flowing
<1>6. UNCHANGED <<seen, outDone, outClosed, supply, closePending, finalized, doneRuns>>
  BY DEF AddPackets, SetDone, finalVars, historyVars
<1>7. \A op \in Ops(r) : OpFits(t, op)' /\ \A p : ~ Emits(op, p) /\ ~ Shuts(op, p)
  BY <1>5, StillFits DEF Moving, Flowing
<1>8. Adds(t, Ops(r))
  BY <1>1, <1>4, <1>5, ThenAdds
<1>9. OpsFit'
  <2>1. Grows
    BY <1>6 DEF Grows
  <2>. QED  BY <1>7, <1>8, <2>1, OpsFitKept DEF Flow
<1>10. EmittersFit'
  <2>1. k # "Finalize"
    OBVIOUS
  <2>. QED  BY <1>1, <1>4, <1>5, <1>7, <2>1, EmitsOn
<1>11. NotBoth'
  BY <1>6, <1>7, <1>8, NotBothKept DEF Flow, Shutting
<1>12. DoneKept /\ DoneBehind'
  <2>1. CASE AddPackets(t)
    <3>1. done' = [done EXCEPT ![e] = FALSE] /\ \A f \in Edges : f # e => len'[f] = len[f]
      BY <1>2, <2>1 DEF AddPackets, DataTyped
    <3>2. ~ done[e]
      <4>1. Head(agenda[t])[1] = "AddPackets" /\ OpFits(t, Head(agenda[t]))
        BY <1>1, <2>1, HeadFits
      <4>2. PICK p \in Producers : e \in MirrorsOf(p)
        BY <1>3, <4>1 DEF OpFits
      <4>3. Emits(Head(agenda[t]), p)
        BY <1>3, <4>1, <4>2 DEF Emits
      <4>4. ~ Shutting(p)
        BY <1>1, <4>3, HeadFits DEF Flow, NotBoth
      <4>. QED  BY <4>2, <4>4 DEF Flow, DoneBehind, Shutting
    <3>3. DoneKept
      BY <3>1, <3>2 DEF DoneKept, IsDone, DataTyped
    <3>4. \A f \in Edges : done'[f] => done[f]
      BY <3>1 DEF DataTyped
    <3>. QED  BY <1>6, <3>3, <3>4, MirrorEdges DEF Flow, DoneBehind, Spent
  <2>2. CASE SetDone(t)
    <3>1. done' = [done EXCEPT ![e] = TRUE] /\ len' = len
      BY <1>2, <2>2 DEF SetDone
    <3>2. \A p \in Producers : e \in MirrorsOf(p) => p \in outDone
      <4>1. Head(agenda[t])[1] = "SetDone" /\ OpFits(t, Head(agenda[t]))
        BY <1>1, <2>2, HeadFits
      <4>. QED  BY <1>3, <4>1 DEF OpFits
    <3>3. DoneKept
      BY <3>1 DEF DoneKept, IsDone, DataTyped
    <3>4. \A f \in Edges : done'[f] => done[f] \/ f = e
      BY <3>1 DEF DataTyped
    <3>. QED  BY <1>6, <3>2, <3>3, <3>4, MirrorEdges DEF Flow, DoneBehind, Spent
  <2>. QED  BY <2>1, <2>2
<1>13. SeenFits' /\ ObservedFit'
  BY <1>1, <1>4, <1>6, <1>12, StreamKept
<1>. QED  BY <1>9, <1>10, <1>11, <1>12, <1>13 DEF Flow

LEMMA PostProcessFlow ==
    ASSUME AgendaInv, DataTyped, Flow, OrderlyRun, NEW t \in Threads, PostProcess(t)
    PROVE  Flow' /\ DoneKept
<1>1. At(t, "PostProcess")
  BY DEF PostProcess
<1>2. PICK p \in Producers, k \in Nat : p = Arg(t, 2) /\ k = Arg(t, 3)
  BY <1>1, ArgFacts
<1>. DEFINE L == {"AddPackets", "SetDone"}
            r == If(p \notin outClosed, PropagateOps(p, k))
<1>3. Then(t, r)
  BY <1>2 DEF PostProcess
<1>4. /\ r \in Seq(OfKinds(L))
      /\ \A op \in Ops(r) : /\ op[1] \in L /\ op[2] \in MirrorsOf(p)
                            /\ op[1] = "AddPackets" => k > 0
                            /\ op[1] = "SetDone" => p \in outDone
  <2>1. r = PropagateOps(p, k) \/ r = <<>>
    BY Zenon DEF If
  <2>2. Ops(<<>>) = {} /\ <<>> \in Seq(OfKinds(L))
    BY OpsEmpty
  <2>. HIDE DEF r
  <2>. QED  BY <2>1, <2>2, PropagateMakes
<1>. HIDE DEF r
<1>5. r \in Seq(Operations) /\ Adds(t, Ops(r))
  BY <1>1, <1>3, <1>4, OfKindsOps, ThenAdds
<1>6. UNCHANGED <<seen, len, done, outDone, outClosed, supply, closePending, finalized, doneRuns>>
  BY DEF PostProcess, streamVars, finalVars, historyVars
<1>7. \A q \in Producers : \A e \in MirrorsOf(p) : e \in MirrorsOf(q) => q = p
  BY DEF OrderlyRun
<1>8. /\ Head(agenda[t])[1] = "PostProcess"
      /\ Head(agenda[t])[2] = p /\ Head(agenda[t])[3] = k
  BY <1>1, <1>2, HeadIs DEF Arg
<1>9. ASSUME NEW op \in Ops(r), NEW q \in Producers, Emits(op, q)
      PROVE  EmitsAs(t, q) /\ Emitting(q)
  <2>1. op[1] = "AddPackets" /\ op[2] \in MirrorsOf(q)
    BY <1>4, <1>9 DEF Emits
  <2>2. q = p /\ k > 0
    BY <1>4, <1>7, <2>1
  <2>3. Emits(Head(agenda[t]), q)
    BY <1>8, <2>2 DEF Emits
  <2>. QED  BY <1>1, <2>3, HeadFits
<1>10. OpsFit'
  <2>1. Grows
    BY <1>6 DEF Grows
  <2>2. \A op \in Ops(r) : OpFits(t, op)'
    BY <1>4, <1>6, <1>7 DEF OpFits, Closers
  <2>. QED  BY <1>5, <2>1, <2>2, OpsFitKept DEF Flow
<1>11. EmittersFit'
  BY <1>1, <1>3, <1>5, <1>9, EmitsOn
<1>12. NotBoth'
  <2>1. \A op \in Ops(r) : \A q : ~ Shuts(op, q)
    BY <1>4 DEF Shuts, Closers
  <2>. QED  BY <1>5, <1>6, <1>9, <2>1, NotBothKept DEF Flow, Shutting
<1>13. DoneKept /\ DoneBehind'
  BY <1>6 DEF DoneKept, IsDone, Flow, DoneBehind, Spent
<1>14. SeenFits' /\ ObservedFit'
  BY <1>1, <1>3, <1>4, <1>6, <1>13, StreamKept
<1>. QED  BY <1>10, <1>11, <1>12, <1>13, <1>14 DEF Flow

LEMMA ClosingFlow ==
    ASSUME AgendaInv, DataTyped, Flow, OrderlyRun, NEW t \in Threads,
           BoundDone(t) \/ CloseManager(t)
    PROVE  Flow' /\ DoneKept
<1>1. PICK k \in Closers :
         At(t, k) /\ (k = "BoundDone" <=> BoundDone(t)) /\ (k = "CloseManager" <=> CloseManager(t))
  BY DEF BoundDone, CloseManager, At, Closers
<1>2. PICK p \in Producers : p = Arg(t, 2)
  BY <1>1, ArgFacts DEF Closers
<1>3. PICK r : /\ Then(t, r)
               /\ r = Each("SetDone", Mirrors[p]) \/ r = <<>>
  BY <1>1, <1>2, Zenon DEF BoundDone, CloseManager, If
<1>4. /\ r \in Seq(OfKinds({"SetDone"}))
      /\ \A op \in Ops(r) : op[1] = "SetDone" /\ op[2] \in MirrorsOf(p)
  BY <1>3, EachSetDone, OpsEmpty, NoneKinds
<1>5. r \in Seq(Operations) /\ Adds(t, Ops(r))
  BY <1>1, <1>3, <1>4, OfKindsOps, ThenAdds
<1>6. /\ UNCHANGED <<seen, len, done, supply, closePending, finalized, doneRuns>>
      /\ outDone' = outDone \cup {p}
      /\ outClosed \subseteq outClosed'
      /\ k = "CloseManager" => p \in outClosed'
  BY <1>1, <1>2 DEF BoundDone, CloseManager, finalVars, historyVars, Closers
<1>7. \A q \in Producers : \A e \in MirrorsOf(p) : e \in MirrorsOf(q) => q = p
  BY DEF OrderlyRun
<1>8. Head(agenda[t])[1] = k /\ Head(agenda[t])[2] = p /\ OpFits(t, Head(agenda[t]))
  BY <1>1, <1>2, HeadFits DEF Arg
<1>9. Shutting(p) /\ Spent(p) /\ (p \in GraphInputs => p \in outClosed')
  <2>1. Shuts(Head(agenda[t]), p)
    BY <1>8 DEF Shuts
  <2>2. Spent(p) /\ (k = "BoundDone" => p \in Nodes)
    BY <1>8 DEF OpFits
  <2>3. p \in Nodes => p \notin GraphInputs
    BY DEF OrderlyRun
  <2>. QED  BY <1>1, <1>6, <2>1, <2>2, <2>3, HeadFits DEF Closers
<1>10. \A op \in Ops(r) : \A q : ~ Emits(op, q) /\ ~ Shuts(op, q)
  BY <1>4 DEF Emits, Shuts, Closers
<1>11. OpsFit'
  <2>1. Grows
    BY <1>6 DEF Grows
  <2>2. \A op \in Ops(r) : OpFits(t, op)'
    BY <1>4, <1>6, <1>7 DEF OpFits, Closers
  <2>. QED  BY <1>5, <2>1, <2>2, OpsFitKept DEF Flow
<1>12. EmittersFit'
  <2>1. k # "Finalize"
    BY DEF Closers
  <2>. QED  BY <1>1, <1>3, <1>5, <1>10, <2>1, EmitsOn
<1>13. NotBoth'
  <2>1. \A q \in Producers : q \in outDone' => Shutting(q)
    BY <1>6, <1>9 DEF Shutting
  <2>. QED  BY <1>5, <1>10, <2>1, NotBothKept DEF Flow
<1>14. DoneKept /\ DoneBehind'
  BY <1>6, <1>9 DEF DoneKept, IsDone, Flow, DoneBehind, Spent
<1>15. SeenFits' /\ ObservedFit'
  <2>1. {"SetDone"} \in {{"AddNode"}, {"SetDone"}, {"AddPackets", "SetDone"}}
    OBVIOUS
  <2>. QED  BY <1>1, <1>3, <1>4, <1>6, <1>14, <2>1, StreamKept DEF Closers
<1>. QED  BY <1>11, <1>12, <1>13, <1>14, <1>15 DEF Flow

LEMMA CommonFlow ==
    ASSUME AgendaInv, DataTyped, Flow, OrderlyRun, NEW t \in Threads, CommonStep(t)
    PROVE  Flow' /\ DoneKept
BY QueueIdleFlow, EdgeFlow, PostProcessFlow, ClosingFlow DEF CommonStep, StreamStep

-----------------------------------------------------------------------------
(* One invocation of a node at a time.                                     *)

\* Two operations of RunNode for the same node are one operation.
LEMMA RunsOnce ==
    ASSUME AgendaInv, SQ!MaxInFlightRespected, OrderlyRun, NEW w \in Workers, NEW u \in Workers,
           NEW n \in Nodes, NEW k \in Runs, NEW l \in Runs,
           <<k, n>> \in Ops(agenda[w]), <<l, n>> \in Ops(agenda[u])
    PROVE  w = u /\ k = l
<1>1. ASSUME NEW v \in Workers, NEW m \in Runs, <<m, n>> \in Ops(agenda[v])
      PROVE  v \in SQ!InFlight(n)
  <2>1. PICK i \in 1..Len(agenda[v]) : agenda[v][i] = <<m, n>>
    BY <1>1 DEF Ops
  <2>2. WorkerForm(agenda[v], cur[v]) /\ agenda[v] \in Seq(Operations) /\ v \in Threads
    BY DEF AgendaInv, Threads
  <2>3. agenda[v][i][1] = m /\ agenda[v][i][2] = n
    BY <2>1
  <2>4. HasIn(agenda[v], Runs)
    BY <2>3 DEF HasIn
  <2>5. cur[v] = n /\ HasIn(agenda[v], {"Finished"})
    BY <2>2, <2>3, <2>4 DEF WorkerForm
  <2>6. Len(agenda[v]) > 0 /\ Len(agenda[v]) \in Nat
    BY <2>1, <2>2
  <2>7. agenda[v][1][1] \notin Starts
    <3>1. ASSUME agenda[v][1][1] \in Starts PROVE FALSE
      <4>1. 1 \in 1..Len(agenda[v])
        BY <2>6
      <4>2. ~ (Len(agenda[v]) > 1)
        BY <2>2, <3>1, <4>1 DEF WorkerForm
      <4>3. i = 1
        BY <2>1, <2>6, <4>2
      <4>. QED  BY <2>3, <3>1, <4>3 DEF Starts, Runs
    <3>. QED  BY <3>1
  <2>8. PointOf(agenda[v]) = "run"
    BY <2>4, <2>5, <2>6, <2>7 DEF PointOf, Starts
  <2>9. pc[v] = "run"
    BY <2>8, BarIs
  <2>. QED  BY <2>5, <2>9 DEF SQ!InFlight
<1>2. w = u
  <2>. DEFINE S == SQ!InFlight(n)
  <2>1. IsFiniteSet(S)
    <3>1. S \subseteq Workers
      BY DEF SQ!InFlight
    <3>. QED  BY <3>1, ThreadsAssumption, FS_Subset
  <2>2. Cardinality(S) <= 1
    BY DEF SQ!MaxInFlightRespected, OrderlyRun, SQ!Cardinality, Cardinality
  <2>3. w \in S /\ u \in S
    BY <1>1
  <2>. HIDE DEF S
  <2>4. Cardinality(S) \in Nat /\ (Cardinality(S) = 0 => S = {})
    BY <2>1, FS_CardinalityType, FS_EmptySet
  <2>5. Cardinality(S) = 1
    BY <2>2, <2>3, <2>4
  <2>6. PICK x : S = {x}
    BY <2>1, <2>5, FS_Singleton
  <2>. QED  BY <2>3, <2>6
<1>3. k = l
  <2>1. PICK i \in 1..Len(agenda[w]) : agenda[w][i] = <<k, n>>
    BY DEF Ops
  <2>2. PICK j \in 1..Len(agenda[w]) : agenda[w][j] = <<l, n>>
    BY <1>2 DEF Ops
  <2>3. agenda[w][i][1] = k /\ agenda[w][j][1] = l
    BY <2>1, <2>2
  <2>4. AtMostOne(agenda[w], Runs)
    BY DEF AgendaInv, WorkerForm
  <2>5. i = j
    BY <2>3, <2>4 DEF AtMostOne
  <2>. QED  BY <2>3, <2>5
<1>. QED  BY <1>2, <1>3

\* A step at which worker w begins, pops for or ends an invocation.
LEMMA SeenStep ==
    ASSUME SeenFits, NEW w \in Workers, NEW R, Adds(w, R),
           \A u \in Workers : u # w => seen'[u] = seen[u],
           \A n \in Observed' \ Observed : \A u \in Workers :
              <<"Process", n>> \notin Ops(agenda[u]),
           SeenOf(w)'
    PROVE  SeenFits'
<1>1. ASSUME NEW u \in Workers, u # w PROVE SeenOf(u)'
  <2>1. agenda'[u] = agenda[u] /\ seen'[u] = seen[u]
    BY <1>1 DEF Adds, Threads
  <2>2. ASSUME NEW n \in Nodes, <<"Process", n>> \in Ops(agenda[u]) PROVE PopsFit(u, n)'
    <3>1. PopsFit(u, n) /\ (n \in Observed' => n \in Observed)
      BY <2>2 DEF SeenFits, SeenOf
    <3>. QED  BY <2>1, <3>1 DEF PopsFit
  <2>3. SeenOf(u)
    BY DEF SeenFits
  <2>. QED  BY <2>1, <2>2, <2>3 DEF SeenOf
<1>. QED  BY <1>1 DEF SeenFits

LEMMA EachOps ==
    ASSUME NEW S, NEW args \in Seq(S), NEW op
    PROVE  Ops(Each(op, args)) = {<<op, args[i]>> : i \in 1..Len(args)}
<1>1. Len(args) \in Nat
  OBVIOUS
<1>2. Len(Each(op, args)) = Len(args)
  BY <1>1 DEF Each
<1>. QED  BY <1>2 DEF Ops, Each

\* A worker pops an item: it has to pop each input of the node.
LEMMA PoppedOps ==
    ASSUME NEW n \in Nodes
    PROVE  LET r == Each("PopQueueHead", InputPorts[n]) \o << <<"Process", n>>, <<"Finished">> >> IN
           /\ r \in Seq(Operations)
           /\ Ops(r) = {<<"PopQueueHead", e>> : e \in Ports(n)}
                       \cup {<<"Process", n>>, <<"Finished">>}
<1>. DEFINE x == Each("PopQueueHead", InputPorts[n])
            y == << <<"Process", n>>, <<"Finished">> >>
<1>1. InputPorts[n] \in Seq(Edges)
  BY GraphAssumption
<1>2. x \in Seq(Operations)
  <2>1. \A e \in Edges : <<"PopQueueHead", e>> \in Operations
    BY OpsMade
  <2>. QED  BY <1>1, <2>1, EachType
<1>3. Ops(x) = {<<"PopQueueHead", e>> : e \in Ports(n)}
  BY <1>1, EachOps DEF Ports
<1>4. <<"Process", n>> \in Operations /\ <<"Finished">> \in Operations
  BY OpsMade DEF NodeKinds, PlainKinds
<1>5. y \in Seq(Operations)
  BY <1>4
<1>6. Ops(y) = {<<"Process", n>>, <<"Finished">>}
  BY DEF Ops
<1>. HIDE DEF x, y
<1>7. x \o y \in Seq(Operations) /\ Ops(x \o y) = Ops(x) \cup Ops(y)
  BY <1>2, <1>5, Joined, OpsJoined
<1>. QED  BY <1>3, <1>6, <1>7 DEF x, y

\* The data and the invocations of a step that touches neither streams nor
\* the finalizing.
LEMMA StandStill ==
    ASSUME DataTyped, Flow, NEW t \in Threads, NEW R, Adds(t, R),
           \A op \in R : op[1] \notin Moving \ {"Process", "PopQueueHead"},
           UNCHANGED <<done, outDone, outClosed, supply, closePending, finalized, doneRuns>>,
           DoneKept
    PROVE  OpsFit' /\ NotBoth' /\ ObservedFit' /\ DoneBehind'
<1>1. \A op \in R : OpFits(t, op)' /\ \A p : ~ Emits(op, p) /\ ~ Shuts(op, p)
  BY StillFits DEF Moving, Flowing
<1>2. OpsFit'
  <2>1. Grows
    BY DEF Grows
  <2>. QED  BY <1>1, <2>1, OpsFitKept DEF Flow
<1>3. NotBoth'
  BY <1>1, NotBothKept DEF Flow, Shutting
<1>4. ObservedFit'
  <2>1. \A x : <<"Finalize", x>>[1] = "Finalize"
    OBVIOUS
  <2>2. ASSUME NEW w \in Workers, NEW n \in Nodes, <<"Finalize", n>> \in Ops(agenda'[w])
        PROVE  <<"Finalize", n>> \in Ops(agenda[w])
    <3>1. "Finalize" \in Moving \ {"Process", "PopQueueHead"}
      BY DEF Moving
    <3>. QED  BY <2>1, <2>2, <3>1 DEF Adds, Threads
  <2>. QED  BY <2>2, ObservedKept DEF Flow, DoneKept
<1>5. DoneBehind'
  BY DEF Flow, DoneBehind, Spent
<1>. QED  BY <1>2, <1>3, <1>4, <1>5

LEMMA TryPopFlow ==
    ASSUME AgendaInv, DataTyped, Flow, NEW w \in Workers, TryPop(w)
    PROVE  Flow' /\ DoneKept
<1>. w \in Threads
  BY DEF Threads
<1>1. UNCHANGED <<seen, len, done, outDone, outClosed, supply, closePending, finalized, doneRuns>>
  BY DEF TryPop, streamVars, finalVars, historyVars
<1>2. CASE Puts(w, {"NoItem"})
  <2>1. At(w, "TryPop") /\ "TryPop" \notin Moving /\ {"NoItem"} \cap Moving = {}
    BY DEF TryPop, Moving, Flowing
  <2>. QED  BY <1>1, <1>2, <2>1, CalmPuts
<1>3. ASSUME NEW n \in Nodes,
             Then(w, Each("PopQueueHead", InputPorts[n]) \o << <<"Process", n>>, <<"Finished">> >>)
      PROVE  Flow' /\ DoneKept
  <2>. DEFINE r == Each("PopQueueHead", InputPorts[n]) \o << <<"Process", n>>, <<"Finished">> >>
  <2>1. /\ r \in Seq(Operations)
        /\ Ops(r) = {<<"PopQueueHead", e>> : e \in Ports(n)} \cup {<<"Process", n>>, <<"Finished">>}
    BY PoppedOps
  <2>2. Then(w, r)
    BY <1>3
  <2>. HIDE DEF r
  <2>3. At(w, "TryPop")
    BY DEF TryPop
  <2>4. agenda' = [agenda EXCEPT ![w] = r] /\ Len(agenda[w]) > 0 /\ ~ (Len(agenda[w]) > 1)
    BY <2>1, <2>2, <2>3, Alone DEF Starts
  <2>5. agenda'[w] = r
    BY <2>4 DEF AgendaInv
  <2>6. Adds(w, Ops(r))
    BY <2>1, <2>2, <2>3, ThenAdds
  <2>7. seen[w] = NoneSeen
    <3>1. agenda[w] \in Seq(Operations) /\ agenda[w][1][1] = "TryPop"
      BY <2>3, AtFacts
    <3>2. \A i \in 1..Len(agenda[w]) : i = 1
      BY <2>4, <3>1
    <3>3. ~ HasIn(agenda[w], {"Process"})
      BY <3>1, <3>2 DEF HasIn
    <3>. QED  BY <3>3 DEF Flow, SeenFits, SeenOf
  <2>8. DoneKept
    BY <1>1 DEF DoneKept, IsDone
  <2>9. OpsFit' /\ NotBoth' /\ ObservedFit' /\ DoneBehind'
    <3>1. \A op \in Ops(r) : op[1] \in {"PopQueueHead", "Process", "Finished"}
      BY <2>1
    <3>2. \A op \in Ops(r) : op[1] \notin Moving \ {"Process", "PopQueueHead"}
      BY <3>1 DEF Moving, Flowing
    <3>. QED  BY <1>1, <2>6, <2>8, <3>2, StandStill
  <2>10. EmittersFit'
    <3>1. \A op \in Ops(r) : \A p : ~ Emits(op, p)
      BY <2>1 DEF Emits
    <3>. QED  BY <2>1, <2>2, <2>3, <3>1, EmitsOn
  <2>11. SeenOf(w)'
    <3>1. HasIn(agenda'[w], {"Process"})
      <4>1. <<"Process", n>> \in Ops(agenda'[w]) /\ <<"Process", n>>[1] \in {"Process"}
        BY <2>1, <2>5
      <4>. QED  BY <4>1, HasOps
    <3>2. ASSUME NEW m \in Nodes, <<"Process", m>> \in Ops(agenda'[w]) PROVE PopsFit(w, m)'
      <4>1. <<"Process", m>> = <<"Process", n>> /\ \A e : <<"PopQueueHead", e>> # <<"Process", n>>
        BY <2>1, <2>5, <3>2
      <4>2. m = n
        BY <4>1
      <4>3. \A e : <<"PopQueueHead", e>> \in Ops(agenda'[w]) <=> e \in Ports(n)
        BY <2>1, <2>5
      <4>4. seen'[w].packets = {} /\ seen'[w].done = {}
        BY <1>1, <2>7 DEF NoneSeen
      <4>. QED  BY <4>2, <4>3, <4>4 DEF PopsFit
    <3>. QED  BY <3>1, <3>2 DEF SeenOf
  <2>12. SeenFits'
    <3>1. Observed' = Observed
      BY <1>1 DEF Observed
    <3>. QED  BY <1>1, <2>6, <2>11, <3>1, SeenStep DEF Flow
  <2>. QED  BY <2>8, <2>9, <2>10, <2>12 DEF Flow
<1>4. \/ \E n \in NodesOf(WorkerQueue[w]) :
            Then(w, Each("PopQueueHead", InputPorts[n]) \o << <<"Process", n>>, <<"Finished">> >>)
      \/ Puts(w, {"NoItem"})
  <2>1. Then(w, << <<"NoItem">> >>) => Puts(w, {"NoItem"})
    BY KindOps, OnePuts DEF PlainKinds
  <2>. QED  BY <2>1 DEF TryPop
<1>. QED  BY <1>2, <1>3, <1>4 DEF NodesOf

LEMMA PopFlow ==
    ASSUME AgendaInv, DataTyped, Flow, NEW w \in Workers, PopQueueHead(w)
    PROVE  Flow' /\ DoneKept
<1>. w \in Threads
  BY DEF Threads
<1>1. At(w, "PopQueueHead") /\ Then(w, <<>>)
  BY DEF PopQueueHead
<1>2. PICK e \in Edges : e = Arg(w, 2)
  BY <1>1, ArgFacts
<1>3. UNCHANGED <<done, outDone, outClosed, supply, closePending, finalized, doneRuns>>
  BY DEF PopQueueHead, finalVars
<1>4. /\ Head(agenda[w]) = <<"PopQueueHead", e>>
      /\ Ops(agenda[w]) = {Head(agenda[w])} \cup Rest(agenda[w])
      /\ Ops(agenda'[w]) = Rest(agenda[w])
  <2>0. <<>> \in Seq(Operations)
    OBVIOUS
  <2>1. /\ Ops(agenda'[w]) = Ops(<<>>) \cup Rest(agenda[w])
        /\ Ops(agenda[w]) = {Head(agenda[w])} \cup Rest(agenda[w])
        /\ Head(agenda[w]) \in Operations /\ Head(agenda[w])[1] = "PopQueueHead"
    BY <1>1, <2>0, OpsStep
  <2>2. Head(agenda[w]) = <<Head(agenda[w])[1], Head(agenda[w])[2]>>
    <3>1. PICK op \in Operations : op = Head(agenda[w])
      BY <2>1
    <3>2. op \in {"PopQueueHead", "SetDone"} \X Edges
      BY <2>1, <3>1 DEF Operations, NodeKinds, QueueKinds, PlainKinds
    <3>3. op = <<op[1], op[2]>>
      BY <3>2
    <3>. QED  BY <3>1, <3>3
  <2>. QED  BY <1>2, <2>1, <2>2, OpsEmpty DEF Arg
<1>5. <<>> \in Seq(Operations) /\ Adds(w, {})
  <2>1. <<>> \in Seq(Operations)
    OBVIOUS
  <2>. QED  BY <1>1, <2>1, OpsEmpty, ThenAdds
<1>6. /\ len[e] \in Nat /\ done[e] \in BOOLEAN
      /\ seen[w] \in [packets : SUBSET Edges, done : SUBSET Edges]
  BY DEF DataTyped
<1>7. DoneKept
  <2>1. len' = len \/ (len[e] > 0 /\ \A f \in Edges : f # e => len'[f] = len[f])
    BY <1>2 DEF PopQueueHead, DataTyped
  <2>. QED  BY <1>3, <1>6, <2>1 DEF DoneKept, IsDone
<1>8. OpsFit' /\ NotBoth' /\ ObservedFit' /\ DoneBehind'
  BY <1>3, <1>5, <1>7, StandStill
<1>9. EmittersFit'
  BY <1>1, <1>5, OpsEmpty, EmitsOn
<1>10. SeenOf(w)'
  <2>1. HasIn(agenda'[w], {"Process"})
    <3>1. HasIn(agenda[w], {"PopQueueHead"})
      <4>1. <<"PopQueueHead", e>>[1] \in {"PopQueueHead"}
        OBVIOUS
      <4>. QED  BY <1>4, <4>1, HasOps
    <3>2. PICK op \in Ops(agenda[w]) : op[1] \in {"Process"}
      BY <3>1, HasOps DEF Flow, SeenFits, SeenOf
    <3>3. op \in Ops(agenda'[w])
      BY <1>4, <3>2
    <3>. QED  BY <3>2, <3>3, HasOps
  <2>2. ASSUME NEW n \in Nodes, <<"Process", n>> \in Ops(agenda'[w]) PROVE PopsFit(w, n)'
    <3>1. PopsFit(w, n)
      BY <1>4, <2>2 DEF Flow, SeenFits, SeenOf
    <3>2. e \in Ports(n)
      BY <1>4, <3>1 DEF PopsFit
    <3>3. seen'[w].done \subseteq seen[w].done \cup {e}
      BY <1>2, <1>6 DEF PopQueueHead, DataTyped
    <3>4. ASSUME n \in Observed'
          PROVE  /\ seen'[w].packets = {}
                 /\ \A f \in Ports(n) :
                       f \in seen'[w].done \/ <<"PopQueueHead", f>> \in Ops(agenda'[w])
      <4>1. n \in Observed
        BY <1>3, <3>4 DEF Observed
      <4>2. len[e] = 0 /\ done[e]
        <5>1. AllInputsDone(n)
          BY <4>1 DEF Flow, ObservedFit
        <5>. QED  BY <3>2, <5>1 DEF AllInputsDone, IsDone
      <4>3. seen'[w].packets = seen[w].packets /\ seen'[w].done = seen[w].done \cup {e}
        BY <1>2, <1>6, <4>2 DEF PopQueueHead, DataTyped
      <4>4. ASSUME NEW f \in Ports(n)
            PROVE  f \in seen'[w].done \/ <<"PopQueueHead", f>> \in Ops(agenda'[w])
        <5>1. f \in seen[w].done \/ <<"PopQueueHead", f>> \in Ops(agenda[w])
          BY <3>1, <4>1 DEF PopsFit
        <5>2. <<"PopQueueHead", f>> = <<"PopQueueHead", e>> => f = e
          OBVIOUS
        <5>. QED  BY <1>4, <4>3, <5>1, <5>2
      <4>. QED  BY <3>1, <4>1, <4>3, <4>4 DEF PopsFit
    <3>5. \A f \in Edges : <<"PopQueueHead", f>> \in Ops(agenda'[w]) => f \in Ports(n)
      BY <1>4, <3>1 DEF PopsFit
    <3>6. seen'[w].done \subseteq Ports(n)
      BY <3>1, <3>2, <3>3 DEF PopsFit
    <3>. QED  BY <3>4, <3>5, <3>6 DEF PopsFit
  <2>. QED  BY <2>1, <2>2 DEF SeenOf
<1>11. SeenFits'
  <2>1. Observed' = Observed
    BY <1>3 DEF Observed
  <2>2. \A u \in Workers : u # w => seen'[u] = seen[u]
    BY DEF PopQueueHead, DataTyped
  <2>. QED  BY <1>5, <1>10, <2>1, <2>2, SeenStep DEF Flow
<1>. QED  BY <1>7, <1>8, <1>9, <1>11 DEF Flow

\* A worker at Process or Finalize: it runs node n alone.
LEMMA RunHead ==
    ASSUME AgendaInv, SQ!MaxInFlightRespected, OrderlyRun, NEW w \in Workers,
           NEW k \in {"Process", "Finalize"}, At(w, k)
    PROVE  LET n == cur[w] IN
           /\ n \in Nodes /\ Arg(w, 2) = n
           /\ Ops(agenda[w]) = {<<k, n>>, <<"Finished">>}
           /\ \A u \in Workers, l \in {"Process", "Finalize"} :
                 <<l, n>> \in Ops(agenda[u]) => u = w /\ l = k
           /\ \A r \in Seq(Operations) : Then(w, r) =>
                 Ops(agenda'[w]) = Ops(r) \cup {<<"Finished">>}
<1>. w \in Threads
  BY DEF Threads
<1>1. Arg(w, 2) = cur[w] /\ cur[w] \in Nodes
  BY RunsCur DEF Runs
<1>2. Head(agenda[w]) = <<k, cur[w]>>
  BY <1>1, HeadIs DEF NodeKinds
<1>3. Rest(agenda[w]) = {<<"Finished">>}
  BY RunLast
<1>4. \A r \in Seq(Operations) : Then(w, r) =>
         /\ Ops(agenda'[w]) = Ops(r) \cup Rest(agenda[w])
         /\ Ops(agenda[w]) = {Head(agenda[w])} \cup Rest(agenda[w])
  BY OpsStep
<1>5. Ops(agenda[w]) = {<<k, cur[w]>>, <<"Finished">>}
  <2>. DEFINE a == agenda[w]
  <2>1. a \in Seq(Operations) /\ Len(a) > 0 /\ a[1] = <<k, cur[w]>>
    BY <1>2, AtFacts
  <2>2. Len(a) \in Nat
    BY <2>1
  <2>. HIDE DEF a
  <2>3. Ops(a) = {a[1]} \cup Rest(a)
    <3>1. 1 \in 1..Len(a) /\ \A i : i \in 1..Len(a) <=> (i = 1 \/ i \in 2..Len(a))
      BY <2>1, <2>2
    <3>2. \A op : op \in Ops(a) <=> op = a[1] \/ \E i \in 2..Len(a) : op = a[i]
      BY <3>1 DEF Ops
    <3>. QED  BY <3>2 DEF Rest
  <2>. QED  BY <1>3, <2>1, <2>3 DEF a
<1>6. \A u \in Workers, l \in {"Process", "Finalize"} :
         <<l, cur[w]>> \in Ops(agenda[u]) => u = w /\ l = k
  <2>1. TAKE u \in Workers, l \in {"Process", "Finalize"}
  <2>2. <<k, cur[w]>> \in Ops(agenda[w]) /\ k \in Runs /\ l \in Runs
    BY <1>5 DEF Runs
  <2>. QED  BY <1>1, <2>2, RunsOnce
<1>. QED  BY <1>1, <1>3, <1>4, <1>5, <1>6

LEMMA SpentWhenShutting ==
    ASSUME Flow, NEW p \in Producers, Shutting(p)
    PROVE  Spent(p)
BY DEF Flow, DoneBehind, OpsFit, OpFits, Shutting, Shuts

\* The worker that runs n and is past its emissions is the only one that
\* could emit for n.
LEMMA NotEmitting ==
    ASSUME AgendaInv, SQ!MaxInFlightRespected, OrderlyRun, Flow, NEW w \in Workers,
           NEW k \in {"Process", "Finalize"}, At(w, k)
    PROVE  ~ Emitting(cur[w])
<1>. DEFINE n == cur[w]
<1>1. /\ n \in Nodes
      /\ Ops(agenda[w]) = {<<k, n>>, <<"Finished">>}
      /\ \A u \in Workers, l \in {"Process", "Finalize"} :
            <<l, n>> \in Ops(agenda[u]) => u = w
  BY RunHead
<1>. HIDE DEF n
<1>2. ASSUME NEW t \in Threads, NEW op \in Ops(agenda[t]), Emits(op, n) PROVE FALSE
  <2>1. t \in Workers /\ <<"Finalize", n>> \in Ops(agenda[t])
    BY <1>1, <1>2 DEF Flow, EmittersFit, EmitsAs, Producers
  <2>2. t = w
    BY <1>1, <2>1
  <2>3. op = <<k, n>> \/ op = <<"Finished">>
    BY <1>1, <1>2, <2>2
  <2>. QED  BY <1>2, <2>3 DEF Emits
<1>. QED  BY <1>2 DEF Emitting, n

\* What an invocation of Process has seen.
LEMMA ProcessSees ==
    ASSUME AgendaInv, SQ!MaxInFlightRespected, OrderlyRun, DataTyped, Flow,
           NEW w \in Workers, At(w, "Process")
    PROVE  LET n == cur[w] IN
           /\ n \in Observed => /\ seen[w].packets = {} /\ ObservesDone(w, n)
                                /\ n \notin Sources
<1>. DEFINE n == cur[w]
<1>1. n \in Nodes /\ Ops(agenda[w]) = {<<"Process", n>>, <<"Finished">>}
  BY RunHead
<1>. HIDE DEF n
<1>2. PopsFit(w, n)
  BY <1>1 DEF Flow, SeenFits, SeenOf
<1>3. \A e : <<"PopQueueHead", e>> \notin Ops(agenda[w])
  BY <1>1
<1>4. ASSUME n \in Observed
      PROVE  seen[w].packets = {} /\ ObservesDone(w, n) /\ n \notin Sources
  <2>1. n \notin Sources
    BY <1>4 DEF Flow, ObservedFit, AllInputsDone
  <2>2. seen[w].packets = {} /\ seen[w].done = Ports(n)
    BY <1>2, <1>3, <1>4 DEF PopsFit
  <2>. QED  BY <2>1, <2>2 DEF ObservesDone
<1>. QED  BY <1>4 DEF n

\* What every invocation of Process does, whatever it returns.
LEMMA ProcessRuns ==
    ASSUME AgendaInv, SQ!MaxInFlightRespected, OrderlyRun, DataTyped, Flow,
           NEW w \in Workers, Process(w), NEW r \in Seq(Operations), Then(w, r),
           \A op \in Ops(r) : op[1] \notin {"Process", "PopQueueHead"},
           \A m \in Nodes : <<"Finalize", m>> \in Ops(r) => m = cur[w],
           supply' \in [Sources -> Nat]
    PROVE  SeenFits' /\ ObservedFit' /\ DoneKept
<1>. w \in Threads
  BY DEF Threads
<1>. DEFINE n == cur[w]
<1>1. At(w, "Process")
  BY DEF Process
<1>2. n \in Nodes /\ Arg(w, 2) = n /\ Ops(agenda'[w]) = Ops(r) \cup {<<"Finished">>}
  BY <1>1, RunHead
<1>3. UNCHANGED <<len, done, outDone, outClosed, closePending, finalized>>
  BY DEF Process, finalVars
<1>4. Adds(w, Ops(r))
  BY <1>1, ThenAdds
<1>5. DoneKept
  BY <1>3 DEF DoneKept, IsDone
<1>6. SeenFits'
  <2>1. ~ HasIn(agenda'[w], {"Process", "PopQueueHead"})
    BY <1>2, HasOps
  <2>2. ~ HasIn(agenda'[w], {"Process"}) /\ ~ HasIn(agenda'[w], {"PopQueueHead"})
    BY <2>1 DEF HasIn
  <2>3. \A m : <<"Process", m>> \notin Ops(agenda'[w])
    <3>1. \A m : <<"Process", m>>[1] \in {"Process"}
      OBVIOUS
    <3>. QED  BY <2>2, <3>1, HasOps
  <2>4. seen'[w] = NoneSeen /\ \A u \in Workers : u # w => seen'[u] = seen[u]
    BY DEF Process, DataTyped
  <2>5. SeenOf(w)'
    BY <2>2, <2>3, <2>4 DEF SeenOf
  <2>6. Observed' = Observed
    BY <1>3 DEF Observed
  <2>. QED  BY <1>4, <2>4, <2>5, <2>6, SeenStep DEF Flow
<1>7. /\ doneRuns' \in [Nodes -> 0..2]
      /\ \A m \in Nodes : doneRuns[m] # 0 => doneRuns'[m] # 0
      /\ n \in Observed => doneRuns'[n] # 0
  <2>1. doneRuns' = [doneRuns EXCEPT ![n] = IF ObservesDone(w, n) /\ @ < 2 THEN @ + 1 ELSE @]
    BY <1>2 DEF Process
  <2>2. doneRuns \in [Nodes -> 0..2]
    BY DEF Flow, ObservedFit
  <2>3. n \in Observed => ObservesDone(w, n)
    BY <1>1, ProcessSees
  <2>. HIDE DEF n
  <2>4. PICK c \in 0..2 : doneRuns[n] = c
    BY <1>2, <2>2
  <2>5. doneRuns' = [doneRuns EXCEPT ![n] = IF ObservesDone(w, n) /\ c < 2 THEN c + 1 ELSE c]
    BY <2>1, <2>4
  <2>6. (IF ObservesDone(w, n) /\ c < 2 THEN c + 1 ELSE c) \in 0..2
    BY <2>4
  <2>7. doneRuns' \in [Nodes -> 0..2]
    BY <2>2, <2>5, <2>6
  <2>8. /\ doneRuns'[n] = IF ObservesDone(w, n) /\ c < 2 THEN c + 1 ELSE c
        /\ \A m \in Nodes : m # n => doneRuns'[m] = doneRuns[m]
    BY <1>2, <2>2, <2>5
  <2>. QED  BY <2>3, <2>4, <2>7, <2>8
<1>8. ObservedFit'
  <2>1. \A m \in Observed' : AllInputsDone(m)'
    BY <1>3 DEF Observed, Flow, ObservedFit, AllInputsDone, IsDone
  <2>2. \A m \in finalized' : doneRuns'[m] # 0
    BY <1>3, <1>7 DEF Flow, ObservedFit, DataTyped
  <2>3. ASSUME NEW u \in Workers, NEW m \in closePending', <<"Finalize", m>> \in Ops(agenda'[u])
        PROVE  doneRuns'[m] # 0
    <3>1. m \in closePending /\ m \in Nodes
      BY <1>3 DEF DataTyped
    <3>2. CASE m = n
      BY <1>7, <3>1, <3>2 DEF Observed
    <3>3. CASE m # n
      <4>1. <<"Finalize", m>> # <<"Finished">>
        OBVIOUS
      <4>2. u # w
        BY <1>2, <2>3, <3>1, <3>3, <4>1
      <4>3. <<"Finalize", m>> \in Ops(agenda[u])
        BY <1>4, <2>3, <4>2 DEF Adds, Threads
      <4>. QED  BY <1>7, <3>1, <4>3 DEF Flow, ObservedFit
    <3>. QED  BY <3>2, <3>3
  <2>. QED  BY <1>7, <2>1, <2>2, <2>3 DEF ObservedFit
<1>. QED  BY <1>5, <1>6, <1>8

LEMMA ProcessOkFlow ==
    ASSUME AgendaInv, SQ!MaxInFlightRespected, OrderlyRun, DataTyped, Flow,
           NEW w \in Workers, Process(w), ProcessOk(w)
    PROVE  Flow' /\ DoneKept
<1>. w \in Threads
  BY DEF Threads
<1>. DEFINE n == cur[w]
<1>1. At(w, "Process")
  BY DEF Process
<1>2. /\ n \in Nodes /\ Arg(w, 2) = n
      /\ \A r \in Seq(Operations) : Then(w, r) => Ops(agenda'[w]) = Ops(r) \cup {<<"Finished">>}
  BY <1>1, RunHead
<1>3. UNCHANGED <<outDone, outClosed, finalized, done>>
  BY DEF Process, finalVars
<1>4. n \in Observed => seen[w].packets = {}
  BY <1>1, ProcessSees
<1>4a. ~ Emitting(n)
  BY <1>1, NotEmitting
<1>. HIDE DEF n
<1>5. PICK k \in 0..1 : k = Emitted(w, n)
  BY DEF Emitted
<1>. DEFINE x == <<"PostProcess", n, k>>
            y == <<"Finalize", n>>
            r == <<x, y>>
<1>6. Then(w, r)
  BY <1>2, <1>5 DEF ProcessOk
<1>7. x \in Operations /\ y \in Operations
  BY <1>2, OpsMade DEF Producers, NodeKinds
<1>8. r \in Seq(Operations) /\ Ops(r) = {x, y}
  <2>. HIDE DEF x, y
  <2>. QED  BY <1>7 DEF Ops
<1>. HIDE DEF r
<1>9. Adds(w, Ops(r)) /\ Ops(r) \subseteq Ops(agenda'[w])
  BY <1>1, <1>6, <1>8, ThenAdds
<1>10. /\ n \in Sources => supply[n] > 0
       /\ supply' = IF n \in Sources THEN [supply EXCEPT ![n] = @ - 1] ELSE supply
  BY <1>2 DEF ProcessOk
<1>11. supply \in [Sources -> Nat]
  BY DEF Flow, ObservedFit
<1>12. supply' \in [Sources -> Nat] /\ Grows
  <2>1. n \in Sources => supply[n] \in Nat /\ supply[n] - 1 \in Nat
    BY <1>10, <1>11
  <2>. QED  BY <1>3, <1>10, <1>11, <2>1 DEF Grows
<1>13. SeenFits' /\ ObservedFit' /\ DoneKept
  <2>1. \A op \in Ops(r) : op[1] \notin {"Process", "PopQueueHead"}
    BY <1>8
  <2>2. \A m \in Nodes : <<"Finalize", m>> \in Ops(r) => m = cur[w]
    BY <1>8 DEF n
  <2>. QED  BY <1>6, <1>8, <1>12, <2>1, <2>2, ProcessRuns
<1>14. OpsFit'
  <2>1. \A op \in Ops(r) : OpFits(w, op)'
    BY <1>2, <1>8 DEF OpFits, Closers
  <2>. QED  BY <1>9, <1>12, <2>1, OpsFitKept DEF Flow
<1>15. \A op \in Ops(r) : \A p \in Producers : Emits(op, p) => p = n /\ k # 0
  BY <1>8 DEF Emits
<1>16. EmittersFit'
  <2>1. ASSUME NEW op \in Ops(agenda'[w]), NEW p \in Producers, Emits(op, p)
        PROVE  EmitsAs(w, p)'
    <3>1. op \in Ops(r)
      BY <1>2, <1>6, <1>8, <2>1 DEF Emits
    <3>2. p = n
      BY <1>15, <2>1, <3>1
    <3>. QED  BY <1>2, <1>8, <1>9, <3>2 DEF EmitsAs
  <2>. QED  BY <1>9, <2>1, EmittersKept DEF Flow
<1>17. k # 0 => ~ Shutting(n)
  <2>. SUFFICES ASSUME k # 0, Shutting(n) PROVE FALSE
    OBVIOUS
  <2>1. Spent(n)
    BY <1>2, SpentWhenShutting DEF Producers
  <2>2. n \notin Sources
    BY <1>10, <1>11, <2>1 DEF Spent
  <2>3. n \in finalized
    BY <1>2, <2>1, <2>2 DEF Spent, Consumers
  <2>4. seen[w].packets = {} /\ doneRuns[n] # 0
    BY <1>4, <2>3 DEF Flow, ObservedFit, Observed
  <2>. QED  BY <1>5, <2>2, <2>4 DEF Emitted
<1>18. NotBoth'
  <2>1. \A op \in Ops(r) : \A p : ~ Shuts(op, p)
    BY <1>8 DEF Shuts, Closers
  <2>. QED  BY <1>3, <1>9, <1>15, <1>17, <2>1, NotBothKept DEF Flow, Shutting
<1>19. DoneBehind'
  <2>1. \A p : Spent(p) => Spent(p)'
    BY <1>12 DEF Spent, Grows
  <2>. QED  BY <1>3, <2>1 DEF Flow, DoneBehind
<1>. QED  BY <1>13, <1>14, <1>16, <1>18, <1>19 DEF Flow

\* A source that stops closes its outputs: it has nothing left to emit.
StopOps(n) == {<<"PostProcess", n, 0>>, <<"BoundDone", n>>, <<"CloseManager", n>>,
               <<"Decrement", n>>, <<"SourceStopped", n>>, <<"Enter", TRUE>>}

LEMMA StopOpsAre ==
    ASSUME NEW n, NEW op \in StopOps(n)
    PROVE  /\ op[1] \in {"PostProcess", "BoundDone", "CloseManager", "Decrement",
                         "SourceStopped", "Enter"}
           /\ op[1] \in {"PostProcess", "BoundDone", "CloseManager"} => op[2] = n
           /\ op[1] = "PostProcess" => op[3] = 0
<1>1. CASE op = <<"PostProcess", n, 0>>
  BY <1>1
<1>2. CASE op \in {<<"BoundDone", n>>, <<"CloseManager", n>>}
  BY <1>2
<1>3. CASE op \in {<<"Decrement", n>>, <<"SourceStopped", n>>}
  BY <1>3
<1>4. CASE op = <<"Enter", TRUE>>
  <2>1. op[1] = "Enter"
    BY <1>4
  <2>. QED  BY <2>1
<1>. QED  BY <1>1, <1>2, <1>3, <1>4 DEF StopOps

LEMMA StopMakes ==
    ASSUME NEW n \in Sources
    PROVE  LET r == << <<"PostProcess", n, 0>> >> \o CloseOutputOps(n)
                      \o << <<"Decrement", n>> >> \o << <<"SourceStopped", n>> >>
                      \o IdleCallbackOps
           IN  r \in Seq(Operations) /\ Ops(r) \subseteq StopOps(n)
<1>. DEFINE T == StopOps(n)
            a == << <<"PostProcess", n, 0>> >>
            b == CloseOutputOps(n)
            c == << <<"Decrement", n>> >>
            d == << <<"SourceStopped", n>> >>
            e == IdleCallbackOps
<1>1. n \in Nodes /\ n \in Producers
  BY SourcesAssumption DEF Producers
<1>2. T \subseteq Operations
  BY <1>1, OpsMade DEF StopOps, NodeKinds
<1>3. a \in Seq(T) /\ b \in Seq(T) /\ c \in Seq(T) /\ d \in Seq(T) /\ e \in Seq(T)
  <2>1. /\ <<"PostProcess", n, 0>> \in T /\ <<"BoundDone", n>> \in T
        /\ <<"CloseManager", n>> \in T /\ <<"Decrement", n>> \in T
        /\ <<"SourceStopped", n>> \in T /\ <<"Enter", TRUE>> \in T
    BY DEF StopOps
  <2>. HIDE DEF T
  <2>. QED  BY <2>1 DEF CloseOutputOps, IdleCallbackOps
<1>. DEFINE r == a \o b \o c \o d \o e
<1>. HIDE DEF T, a, b, c, d, e
<1>4. a \o b \in Seq(T)
  BY <1>3, Joined
<1>5. a \o b \o c \in Seq(T)
  BY <1>3, <1>4, Joined
<1>6. a \o b \o c \o d \in Seq(T)
  BY <1>3, <1>5, Joined
<1>7. r \in Seq(T)
  BY <1>3, <1>6, Joined
<1>8. r \in Seq(Operations) /\ Ops(r) \subseteq T
  <2>. HIDE DEF r
  <2>. QED  BY <1>2, <1>7, OpsType
<1>. QED  BY <1>8 DEF T, r, a, b, c, d, e

LEMMA ProcessStopFlow ==
    ASSUME AgendaInv, SQ!MaxInFlightRespected, OrderlyRun, DataTyped, Flow,
           NEW w \in Workers, Process(w), ProcessStop(w)
    PROVE  Flow' /\ DoneKept
<1>. w \in Threads
  BY DEF Threads
<1>1. At(w, "Process")
  BY DEF Process
<1>2a. /\ cur[w] \in Nodes /\ Arg(w, 2) = cur[w]
       /\ \A r \in Seq(Operations) : Then(w, r) => Ops(agenda'[w]) = Ops(r) \cup {<<"Finished">>}
  BY <1>1, RunHead
<1>2b. PICK n \in Nodes : n = cur[w]
  BY <1>2a
<1>2. /\ n \in Nodes /\ Arg(w, 2) = n
      /\ \A r \in Seq(Operations) : Then(w, r) => Ops(agenda'[w]) = Ops(r) \cup {<<"Finished">>}
  BY <1>2a, <1>2b
<1>3. UNCHANGED <<outDone, outClosed, finalized, done, supply>>
  BY DEF Process, ProcessStop, finalVars
<1>4. ~ Emitting(n)
  BY <1>1, <1>2b, NotEmitting
<1>5. n \in Sources /\ supply[n] = 0
  BY <1>2 DEF ProcessStop, OrderlyRun
<1>6. PICK r : /\ Then(w, r)
               /\ r = << <<"PostProcess", n, 0>> >> \o CloseOutputOps(n)
                      \o << <<"Decrement", n>> >> \o << <<"SourceStopped", n>> >>
                      \o IdleCallbackOps
  BY <1>2, <1>5 DEF ProcessStop
<1>7. r \in Seq(Operations) /\ Ops(r) \subseteq StopOps(n)
  BY <1>5, <1>6, StopMakes
<1>8. Adds(w, Ops(r)) /\ Ops(r) \subseteq Ops(agenda'[w])
  BY <1>1, <1>6, <1>7, ThenAdds
<1>9. SeenFits' /\ ObservedFit' /\ DoneKept
  <2>1. \A op \in Ops(r) : op[1] \notin {"Process", "PopQueueHead"}
    BY <1>7, StopOpsAre
  <2>2. \A m \in Nodes : <<"Finalize", m>> \notin Ops(r)
    <3>1. \A m : <<"Finalize", m>>[1] = "Finalize"
      OBVIOUS
    <3>. QED  BY <1>7, <3>1, StopOpsAre
  <2>3. supply' \in [Sources -> Nat]
    BY <1>3 DEF Flow, ObservedFit
  <2>. QED  BY <1>6, <1>7, <2>1, <2>2, <2>3, ProcessRuns
<1>10. OpsFit'
  <2>1. Spent(n)'
    <3>1. n \in Sources' /\ n \notin Consumers' /\ supply'[n] = 0
      BY <1>3, <1>5 DEF Consumers
    <3>. QED  BY <3>1 DEF Spent
  <2>2. n \notin GraphInputs
    BY <1>2 DEF OrderlyRun
  <2>3. ASSUME NEW op \in Ops(r) PROVE OpFits(w, op)'
    <3>1. op \in StopOps(n)
      BY <1>7
    <3>2. CASE op[1] \in Closers \cup {"PostProcess"}
      <4>1. op[2] = n /\ op[1] \notin {"SetDone", "AddPackets"}
        BY <3>1, <3>2, StopOpsAre DEF Closers
      <4>. QED  BY <1>2, <2>1, <2>2, <4>1 DEF OpFits
    <3>3. CASE op[1] \notin Closers \cup {"PostProcess"}
      <4>1. op[1] \notin {"SetDone", "AddPackets", "PostProcess", "BoundDone"}
        BY <3>1, <3>3, StopOpsAre DEF Closers
      <4>. QED  BY <3>3, <4>1 DEF OpFits
    <3>. QED  BY <3>2, <3>3
  <2>4. Grows
    BY <1>3 DEF Grows
  <2>. QED  BY <1>8, <2>3, <2>4, OpsFitKept DEF Flow
<1>11. \A op \in Ops(r) : \A p : ~ Emits(op, p) /\ (Shuts(op, p) => p = n)
  BY <1>7, StopOpsAre DEF Emits, Shuts, Closers
<1>12. EmittersFit'
  <2>1. ASSUME NEW op \in Ops(agenda'[w]), NEW p \in Producers, Emits(op, p)
        PROVE  FALSE
    <3>1. op \in Ops(r) \/ op = <<"Finished">>
      <4>1. Ops(agenda'[w]) = Ops(r) \cup {<<"Finished">>}
        BY <1>2, <1>6, <1>7
      <4>. QED  BY <2>1, <4>1
    <3>2. ~ Emits(<<"Finished">>, p)
      BY DEF Emits
    <3>. QED  BY <1>11, <2>1, <3>1, <3>2
  <2>. QED  BY <1>8, <2>1, EmittersKept DEF Flow
<1>13. NotBoth'
  BY <1>3, <1>4, <1>8, <1>11, NotBothKept DEF Flow, Shutting
<1>14. DoneBehind'
  BY <1>3 DEF Flow, DoneBehind, Spent
<1>. QED  BY <1>9, <1>10, <1>12, <1>13, <1>14 DEF Flow

LEMMA ProcessFlow ==
    ASSUME AgendaInv, SQ!MaxInFlightRespected, OrderlyRun, DataTyped, Flow,
           NEW w \in Workers, Process(w)
    PROVE  Flow' /\ DoneKept
<1>1. ~ ProcessError(w)
  BY DEF ProcessError, OrderlyRun
<1>. QED  BY <1>1, ProcessOkFlow, ProcessStopFlow DEF Process

\* A node that has observed its inputs done a second time closes its outputs.
FinalOps(n, action) ==
    {<<"Decrement", n>>, <<"AddNode", n>>, <<"Reschedule", n>>, <<"SafetyNet", n>>}
    \cup {op \in {<<"BoundDone", n>>, <<"CloseManager", n>>} : action = "Close"}

LEMMA FinalOpsAre ==
    ASSUME NEW n, NEW action, NEW op \in FinalOps(n, action)
    PROVE  /\ op[1] \in {"Decrement", "AddNode", "Reschedule", "SafetyNet", "BoundDone",
                         "CloseManager"}
           /\ op[1] \in Closers => op[2] = n /\ action = "Close"
<1>1. CASE op \in {<<"Decrement", n>>, <<"AddNode", n>>, <<"Reschedule", n>>, <<"SafetyNet", n>>}
  BY <1>1 DEF Closers
<1>2. CASE op \in {<<"BoundDone", n>>, <<"CloseManager", n>>} /\ action = "Close"
  BY <1>2
<1>. QED  BY <1>1, <1>2 DEF FinalOps

LEMMA FinalMakes ==
    ASSUME NEW n \in Nodes, NEW action \in {"None", "Schedule", "Close"}
    PROVE  LET r == AfterFinalize(n, action) IN
           r \in Seq(Operations) /\ Ops(r) \subseteq FinalOps(n, action)
<1>. DEFINE T == FinalOps(n, action)
            c == CASE action = "Close"    -> CloseOutputOps(n)
                   [] action = "Schedule" -> AddNodeOp(n)
                   [] action = "None"     -> <<>>
            d == << <<"Decrement", n>> >>
            e == IF n \in Sources THEN AddNodeOp(n) ELSE << <<"Reschedule", n>> >>
            g == If(n \notin Sources /\ action # "Schedule", << <<"SafetyNet", n>> >>)
            r == ((d \o c) \o e) \o g
<1>1. T \subseteq Operations
  BY OpsMade DEF FinalOps, NodeKinds, Producers
<1>2. /\ <<"Decrement", n>> \in T /\ <<"AddNode", n>> \in T
      /\ <<"Reschedule", n>> \in T /\ <<"SafetyNet", n>> \in T
      /\ action = "Close" => <<"BoundDone", n>> \in T /\ <<"CloseManager", n>> \in T
  BY DEF FinalOps
<1>3. AfterFinalize(n, action) = r
  BY DEF AfterFinalize
<1>. HIDE DEF T
<1>4. /\ d \in Seq(T) /\ AddNodeOp(n) \in Seq(T) /\ << <<"Reschedule", n>> >> \in Seq(T)
      /\ << <<"SafetyNet", n>> >> \in Seq(T) /\ <<>> \in Seq(T)
      /\ action = "Close" => CloseOutputOps(n) \in Seq(T)
  BY <1>2 DEF AddNodeOp, CloseOutputOps
<1>5. c \in Seq(T) /\ e \in Seq(T)
  BY <1>4
<1>6. g \in Seq(T)
  BY <1>4, IfType
<1>. HIDE DEF c, d, e, g
<1>7. d \o c \in Seq(T)
  BY <1>4, <1>5, Joined
<1>8. (d \o c) \o e \in Seq(T)
  BY <1>5, <1>7, Joined
<1>9. r \in Seq(T)
  BY <1>6, <1>8, Joined
<1>. HIDE DEF r
<1>10. r \in Seq(Operations) /\ Ops(r) \subseteq T
  BY <1>1, <1>9, OpsType
<1>. QED  BY <1>3, <1>10 DEF T

LEMMA FinalizeFlow ==
    ASSUME AgendaInv, SQ!MaxInFlightRespected, OrderlyRun, DataTyped, Flow,
           NEW w \in Workers, Finalize(w)
    PROVE  Flow' /\ DoneKept
<1>. w \in Threads
  BY DEF Threads
<1>1. At(w, "Finalize")
  BY DEF Finalize
<1>2. PICK n \in Nodes : n = cur[w]
  BY <1>1, RunHead
<1>3. /\ Arg(w, 2) = n
      /\ Ops(agenda[w]) = {<<"Finalize", n>>, <<"Finished">>}
      /\ \A u \in Workers, l \in {"Process", "Finalize"} :
            <<l, n>> \in Ops(agenda[u]) => u = w /\ l = "Finalize"
      /\ \A r \in Seq(Operations) : Then(w, r) => Ops(agenda'[w]) = Ops(r) \cup {<<"Finished">>}
  BY <1>1, <1>2, RunHead
<1>4. ~ Emitting(n)
  BY <1>1, <1>2, NotEmitting
<1>5. UNCHANGED <<seen, len, done, outDone, outClosed, supply, doneRuns>>
  BY DEF Finalize, streamVars, historyVars
<1>6. PICK action \in {"None", "Schedule", "Close"} :
         /\ Then(w, AfterFinalize(n, action))
         /\ finalized \subseteq finalized' /\ finalized' \subseteq finalized \cup {n}
         /\ closePending' \subseteq closePending \cup {n}
         /\ n \in Observed' \ Observed => AllInputsDone(n)
         /\ n \in finalized' \ finalized => n \in closePending
         /\ action = "Close" => n \in finalized' /\ n \notin Sources
  <2>. DEFINE observe == AllInputsDone(n) /\ n \notin finalized
              F(a) == /\ Then(w, AfterFinalize(n, a))
                      /\ finalized \subseteq finalized' /\ finalized' \subseteq finalized \cup {n}
                      /\ closePending' \subseteq closePending \cup {n}
                      /\ n \in Observed' \ Observed => AllInputsDone(n)
                      /\ n \in finalized' \ finalized => n \in closePending
                      /\ a = "Close" => n \in finalized' /\ n \notin Sources
  <2>1. \/ /\ Then(w, AfterFinalize(n, "None"))
           /\ UNCHANGED finalVars
        \/ /\ observe /\ n \notin closePending
           /\ closePending' = closePending \cup {n}
           /\ Then(w, AfterFinalize(n, "Schedule"))
           /\ UNCHANGED finalized
        \/ /\ observe /\ n \in closePending
           /\ closePending' = closePending \ {n}
           /\ finalized' = finalized \cup {n}
           /\ Then(w, AfterFinalize(n, "Close"))
    BY <1>3 DEF Finalize
  <2>2. CASE Then(w, AfterFinalize(n, "None")) /\ UNCHANGED finalVars
    <3>1. F("None")
      BY <2>2 DEF finalVars, Observed
    <3>. QED  BY <3>1
  <2>3. CASE /\ observe /\ n \notin closePending
             /\ closePending' = closePending \cup {n}
             /\ Then(w, AfterFinalize(n, "Schedule"))
             /\ UNCHANGED finalized
    <3>1. F("Schedule")
      BY <2>3
    <3>. QED  BY <3>1
  <2>4. CASE /\ observe /\ n \in closePending
             /\ closePending' = closePending \ {n}
             /\ finalized' = finalized \cup {n}
             /\ Then(w, AfterFinalize(n, "Close"))
    <3>1. F("Close")
      BY <2>4 DEF AllInputsDone
    <3>. QED  BY <3>1
  <2>. QED  BY <2>1, <2>2, <2>3, <2>4
<1>7. PICK r : r = AfterFinalize(n, action)
  OBVIOUS
<1>8. Then(w, r) /\ r \in Seq(Operations) /\ Ops(r) \subseteq FinalOps(n, action)
  BY <1>6, <1>7, FinalMakes
<1>9. Adds(w, Ops(r)) /\ Ops(agenda'[w]) = Ops(r) \cup {<<"Finished">>}
  BY <1>1, <1>3, <1>8, ThenAdds
<1>10. DoneKept /\ Grows
  BY <1>5, <1>6 DEF DoneKept, IsDone, Grows
<1>11. OpsFit'
  <2>1. ASSUME NEW op \in Ops(r) PROVE OpFits(w, op)'
    <3>1. op[1] \notin {"PostProcess", "SetDone", "AddPackets"}
      BY <1>8, <2>1, FinalOpsAre
    <3>2. op[1] \in Closers => op[2] = n /\ action = "Close"
      BY <1>8, <2>1, FinalOpsAre
    <3>3. action = "Close" => Spent(n)'
      <4>1. action = "Close" => n \in finalized' /\ n \notin Sources'
        BY <1>6
      <4>. QED  BY <4>1 DEF Spent
    <3>4. n \notin GraphInputs
      BY DEF OrderlyRun
    <3>. QED  BY <3>1, <3>2, <3>3, <3>4 DEF OpFits, Closers
  <2>. QED  BY <1>9, <1>10, <2>1, OpsFitKept DEF Flow
<1>12. \A op \in Ops(agenda'[w]) : \A p : ~ Emits(op, p)
  <2>1. \A op \in Ops(r) : \A p : ~ Emits(op, p)
    BY <1>8, FinalOpsAre DEF Emits
  <2>2. \A p : ~ Emits(<<"Finished">>, p)
    BY DEF Emits
  <2>. QED  BY <1>9, <2>1, <2>2
<1>13. EmittersFit'
  BY <1>9, <1>12, EmittersKept DEF Flow
<1>14. NotBoth'
  <2>1. \A op \in Ops(r) : \A p : ~ Emits(op, p) /\ (Shuts(op, p) => p = n)
    BY <1>8, <1>9, <1>12, FinalOpsAre DEF Shuts
  <2>2. \A p \in Producers : p \in outDone' => Shutting(p)
    BY <1>5 DEF Shutting
  <2>. QED  BY <1>4, <1>9, <2>1, <2>2, NotBothKept DEF Flow
<1>15. \A op \in Ops(agenda'[w]) : op[1] \notin {"Process", "PopQueueHead", "Finalize"}
  <2>1. \A op \in Ops(r) : op[1] \notin {"Process", "PopQueueHead", "Finalize"}
    BY <1>8, FinalOpsAre
  <2>2. <<"Finished">>[1] = "Finished"
    OBVIOUS
  <2>. QED  BY <1>9, <2>1, <2>2
<1>16. SeenFits'
  <2>1. ~ HasIn(agenda'[w], {"Process"}) /\ ~ HasIn(agenda'[w], {"PopQueueHead"})
    BY <1>15, HasOps
  <2>2. \A m : <<"Process", m>> \notin Ops(agenda'[w])
    <3>1. \A m : <<"Process", m>>[1] = "Process"
      OBVIOUS
    <3>. QED  BY <1>15, <3>1
  <2>3. seen'[w] = NoneSeen
    <3>1. \A op \in Ops(agenda[w]) : op[1] # "Process"
      BY <1>3
    <3>2. ~ HasIn(agenda[w], {"Process"})
      BY <3>1, HasOps
    <3>. QED  BY <1>5, <3>2 DEF Flow, SeenFits, SeenOf
  <2>4. SeenOf(w)'
    BY <2>1, <2>2, <2>3 DEF SeenOf
  <2>5. ASSUME NEW m \in Observed' \ Observed, NEW u \in Workers
        PROVE  <<"Process", m>> \notin Ops(agenda[u])
    <3>1. m = n
      BY <1>6, <2>5 DEF Observed
    <3>2. "Process" # "Finalize"
      OBVIOUS
    <3>. QED  BY <1>3, <3>1, <3>2
  <2>. QED  BY <1>5, <1>9, <2>4, <2>5, SeenStep DEF Flow
<1>17. ObservedFit'
  <2>1. ASSUME NEW m \in Observed' PROVE AllInputsDone(m)'
    <3>1. AllInputsDone(m)
      BY <1>6, <2>1 DEF Flow, ObservedFit, Observed
    <3>. QED  BY <1>5, <3>1 DEF AllInputsDone, IsDone
  <2>2. <<"Finalize", n>> \in Ops(agenda[w])
    BY <1>3
  <2>3. ASSUME NEW m \in finalized' PROVE doneRuns'[m] # 0
    BY <1>5, <1>6, <2>2, <2>3 DEF Flow, ObservedFit
  <2>4. ASSUME NEW u \in Workers, NEW m \in closePending', <<"Finalize", m>> \in Ops(agenda'[u])
        PROVE  doneRuns'[m] # 0
    <3>1. u # w
      <4>1. <<"Finalize", m>>[1] = "Finalize"
        OBVIOUS
      <4>. QED  BY <1>15, <2>4, <4>1
    <3>2. <<"Finalize", m>> \in Ops(agenda[u])
      BY <1>9, <2>4, <3>1 DEF Adds, Threads
    <3>3. m # n
      BY <1>3, <3>1, <3>2
    <3>. QED  BY <1>5, <1>6, <2>4, <3>2, <3>3 DEF Flow, ObservedFit
  <2>. QED  BY <1>5, <2>1, <2>3, <2>4 DEF Flow, ObservedFit
<1>18. DoneBehind'
  BY <1>5, <1>10 DEF Flow, DoneBehind, Spent, Grows
<1>. QED  BY <1>10, <1>11, <1>13, <1>14, <1>16, <1>17, <1>18 DEF Flow

\* A worker runs, or does what does not touch the streams.
LEMMA WorkerFlow ==
    ASSUME AgendaInv, SQ!MaxInFlightRespected, OrderlyRun, DataTyped, Flow,
           NEW w \in Workers, WorkerStep(w)
    PROVE  Flow' /\ DoneKept
<1>1. CASE TryPop(w)
  BY <1>1, TryPopFlow
<1>2. CASE PopQueueHead(w)
  BY <1>2, PopFlow
<1>3. CASE Process(w)
  BY <1>3, ProcessFlow
<1>4. CASE Finalize(w)
  BY <1>4, FinalizeFlow
<1>5. CASE \/ TakeTask(w) \/ Decrement(w) \/ Reschedule(w) \/ SafetyNet(w)
           \/ SourceStopped(w) \/ ErrorCallback(w) \/ OnTaskFinished(w)
  BY <1>5, WorkerCalm
<1>. QED  BY <1>1, <1>2, <1>3, <1>4, <1>5 DEF WorkerStep

\* An application thread begins to fill or to close its graph inputs.
LEMMA FreshFlow ==
    ASSUME AgendaInv, DataTyped, Flow, NEW a \in Apps, agenda[a] = <<>>,
           NEW r, agenda' = [agenda EXCEPT ![a] = r],
           UNCHANGED <<seen, len, done, outDone, outClosed, supply, closePending, finalized,
                       doneRuns>>,
           \A op \in Ops(r) :
              /\ OpFits(a, op)'
              /\ \A p \in Producers :
                    /\ Emits(op, p) => /\ EmitsAs(a, p)' /\ ~ Shutting(p)
                                       /\ \A x \in Ops(r) : ~ Shuts(x, p)
                    /\ Shuts(op, p) => ~ Emitting(p)
    PROVE  Flow' /\ DoneKept
<1>1. a \in Threads /\ a \notin Workers
  BY ThreadsAssumption DEF Threads
<1>2. Adds(a, Ops(r)) /\ Ops(agenda'[a]) = Ops(r)
  BY <1>1, FreshAdds
<1>3. \A w \in Workers : agenda'[w] = agenda[w]
  BY <1>1, <1>2 DEF Adds, Threads
<1>4. Grows /\ DoneKept
  BY DEF Grows, DoneKept, IsDone
<1>5. OpsFit'
  BY <1>1, <1>2, <1>4, OpsFitKept DEF Flow
<1>6. EmittersFit'
  BY <1>1, <1>2, EmittersKept DEF Flow
<1>7. NotBoth'
  BY <1>1, <1>2, NotBothKept DEF Flow, Shutting
<1>8. SeenFits'
  <2>1. Observed' = Observed
    BY DEF Observed
  <2>. QED  BY <1>3, <2>1, SeenKept DEF Flow
<1>9. ObservedFit'
  BY <1>3, <1>4, ObservedKept DEF Flow, DoneKept
<1>10. DoneBehind'
  BY DEF Flow, DoneBehind, Spent
<1>. QED  BY <1>4, <1>5, <1>6, <1>7, <1>8, <1>9, <1>10 DEF Flow

\* A graph input belongs to one thread, which does one thing at a time.
LEMMA OwnInput ==
    ASSUME AgendaInv, OrderlyRun, Flow, NEW a \in Apps, agenda[a] = <<>>,
           NEW g \in GraphInputs, Feeds(a, g)
    PROVE  ~ Emitting(g) /\ (Shutting(g) => g \in outDone)
<1>1. Ops(agenda[a]) = {} /\ g \notin Nodes /\ g \in Producers
  BY OpsEmpty DEF OrderlyRun, Producers
<1>2. \A t \in Apps : Feeds(t, g) => t = a
  BY DEF OrderlyRun
<1>3. ASSUME NEW t \in Threads, NEW op \in Ops(agenda[t]), Emits(op, g) PROVE FALSE
  <2>1. t \in Apps /\ Feeds(t, g)
    BY <1>1, <1>3 DEF Flow, EmittersFit, EmitsAs
  <2>. QED  BY <1>1, <1>2, <1>3, <2>1
<1>4. ASSUME NEW t \in Threads, NEW op \in Ops(agenda[t]), Shuts(op, g) PROVE FALSE
  <2>1. t \in Apps /\ Feeds(t, g)
    BY <1>4 DEF Flow, OpsFit, OpFits, Shuts
  <2>. QED  BY <1>1, <1>2, <1>4, <2>1
<1>. QED  BY <1>3, <1>4 DEF Emitting, Shutting

LEMMA IdleAfter ==
    ASSUME NEW x \in Seq(Operations)
    PROVE  Ops(x \o HandleIdleOps) = Ops(x) \cup {<<"Enter", FALSE>>}
<1>. DEFINE op == <<"Enter", FALSE>>
            h == <<op>>
<1>1. op \in Operations
  BY OpsMade
<1>. HIDE DEF op
<1>2. h \in Seq(Operations)
  BY <1>1
<1>3. Ops(h) = {op}
  BY OpsOne
<1>4. HandleIdleOps = h
  BY DEF HandleIdleOps, op
<1>. HIDE DEF h
<1>5. Ops(x \o h) = Ops(x) \cup Ops(h)
  BY <1>2, OpsJoined
<1>. QED  BY <1>3, <1>4, <1>5 DEF op

LEMMA AddPacketFlow ==
    ASSUME AgendaInv, script \in [Apps -> Seq(CallsOfApps)], OrderlyRun, DataTyped, Flow,
           ScriptFeeds, NEW a \in Apps, AddPacketToInputStream(a)
    PROVE  Flow' /\ DoneKept
<1>1. Calls(a, "AddPacket")
  BY DEF AddPacketToInputStream
<1>2. PICK g \in GraphInputs : g = Head(script[a])[2]
  BY <1>1, CallArgs
<1>3. g \in Producers /\ g \notin Nodes
  BY DEF Producers, OrderlyRun
<1>4. Feeds(a, g)
  <2>1. script[a] \in Seq(CallsOfApps) /\ script[a] # <<>> /\ Head(script[a])[1] = "AddPacket"
    BY <1>1 DEF Calls
  <2>2. 1 \in 1..Len(script[a]) /\ Head(script[a]) = script[a][1]
    BY <2>1
  <2>3. FeedsIn(script, a, g)
    BY <1>2, <2>1, <2>2 DEF FeedsIn, Feeding
  <2>. QED  BY <2>3 DEF ScriptFeeds
<1>5. PICK r : /\ agenda' = [agenda EXCEPT ![a] = r]
               /\ r = If(g \notin outClosed, PropagateOps(g, 1) \o HandleIdleOps)
  BY <1>2 DEF AddPacketToInputStream, Making
<1>6. /\ agenda[a] = <<>>
      /\ UNCHANGED <<seen, len, done, outDone, outClosed, supply, closePending, finalized,
                     doneRuns>>
  BY <1>1 DEF Calls, AddPacketToInputStream, Making, streamVars, finalVars, historyVars
<1>7. CASE g \in outClosed
  <2>1. r = <<>>
    BY <1>5, <1>7 DEF If
  <2>. QED  BY <1>5, <1>6, <2>1, OpsEmpty, FreshFlow
<1>8. CASE g \notin outClosed
  <2>. DEFINE x == PropagateOps(g, 1)
  <2>1. r = x \o HandleIdleOps
    BY <1>5, <1>8 DEF If
  <2>2. /\ x \in Seq(Operations)
        /\ \A op \in Ops(x) : /\ op[1] \in {"AddPackets", "SetDone"} /\ op[2] \in MirrorsOf(g)
                              /\ op[1] = "SetDone" => g \in outDone
    BY <1>3, PropagateMakes, OfKindsOps
  <2>. HIDE DEF x
  <2>4. Ops(r) = Ops(x) \cup {<<"Enter", FALSE>>}
    BY <2>1, <2>2, IdleAfter
  <2>5. \A p \in Producers : \A e \in MirrorsOf(g) : e \in MirrorsOf(p) => p = g
    BY <1>3 DEF OrderlyRun
  <2>6. ASSUME NEW op \in Ops(r)
        PROVE  /\ OpFits(a, op)'
               /\ \A p \in Producers : Emits(op, p) => p = g
               /\ \A p : ~ Shuts(op, p)
    <3>1. CASE op \in Ops(x)
      BY <1>3, <1>6, <2>2, <2>5, <3>1 DEF OpFits, Emits, Shuts, Closers
    <3>2. CASE op = <<"Enter", FALSE>>
      <4>1. op[1] \notin Flowing
        BY <3>2 DEF Flowing
      <4>. QED  BY <4>1, StillFits
    <3>. QED  BY <2>4, <2>6, <3>1, <3>2
  <2>7. EmitsAs(a, g)' /\ ~ Shutting(g)
    <3>1. g \notin outDone
      BY <1>8 DEF Flow, DoneBehind
    <3>. QED  BY <1>3, <1>4, <1>6, <3>1, OwnInput DEF EmitsAs
  <2>. QED  BY <1>5, <1>6, <2>6, <2>7, FreshFlow
<1>. QED  BY <1>7, <1>8

LEMMA CloseInputFlow ==
    ASSUME AgendaInv, script \in [Apps -> Seq(CallsOfApps)], OrderlyRun, DataTyped, Flow,
           ScriptFeeds, NEW a \in Apps, CloseInputStream(a)
    PROVE  Flow' /\ DoneKept
<1>1. Calls(a, "CloseInput")
  BY DEF CloseInputStream
<1>2. PICK g \in GraphInputs : g = Head(script[a])[2]
  BY <1>1, CallArgs
<1>3. g \in Producers /\ g \notin Nodes
  BY DEF Producers, OrderlyRun
<1>4. Feeds(a, g)
  <2>1. script[a] \in Seq(CallsOfApps) /\ script[a] # <<>> /\ Head(script[a])[1] = "CloseInput"
    BY <1>1 DEF Calls
  <2>2. 1 \in 1..Len(script[a]) /\ Head(script[a]) = script[a][1]
    BY <2>1
  <2>3. FeedsIn(script, a, g)
    BY <1>2, <2>1, <2>2 DEF FeedsIn, Feeding
  <2>. QED  BY <2>3 DEF ScriptFeeds
<1>. DEFINE x == << <<"CloseManager", g>>, <<"IncClosed", g>> >>
<1>5. PICK r : /\ agenda' = [agenda EXCEPT ![a] = r]
               /\ r = If(g \notin closedInputs, x \o HandleIdleOps)
  BY <1>2 DEF CloseInputStream, Making
<1>6. /\ agenda[a] = <<>>
      /\ UNCHANGED <<seen, len, done, outDone, outClosed, supply, closePending, finalized,
                     doneRuns>>
  BY <1>1 DEF Calls, CloseInputStream, Making, streamVars, finalVars, historyVars
<1>7. x \in Seq(Operations) /\ Ops(x) = {<<"CloseManager", g>>, <<"IncClosed", g>>}
  <2>1. <<"CloseManager", g>> \in Operations /\ <<"IncClosed", g>> \in Operations
    BY <1>3, OpsMade
  <2>. QED  BY <2>1 DEF Ops
<1>. HIDE DEF x
<1>8. Ops(r) \subseteq Ops(x) \cup {<<"Enter", FALSE>>}
  <2>1. Ops(x \o HandleIdleOps) = Ops(x) \cup {<<"Enter", FALSE>>}
    BY <1>7, IdleAfter
  <2>2. r = x \o HandleIdleOps \/ r = <<>>
    BY <1>5, Zenon DEF If
  <2>. QED  BY <2>1, <2>2, OpsEmpty
<1>9. Spent(g)'
  <2>1. g \notin Consumers' /\ g \notin Sources'
    BY <1>3, SourcesAssumption DEF Consumers
  <2>. QED  BY <2>1 DEF Spent
<1>10. ASSUME NEW op \in Ops(r)
       PROVE  /\ OpFits(a, op)'
              /\ \A p : ~ Emits(op, p) /\ (Shuts(op, p) => p = g)
  <2>1. CASE op = <<"CloseManager", g>>
    <3>1. op[1] = "CloseManager" /\ op[2] = g
      BY <2>1
    <3>. QED  BY <1>4, <1>9, <3>1 DEF OpFits, Emits, Shuts, Closers
  <2>2. CASE op \in {<<"IncClosed", g>>, <<"Enter", FALSE>>}
    <3>1. op[1] \in {"IncClosed", "Enter"}
      <4>1. <<"IncClosed", g>>[1] = "IncClosed" /\ <<"Enter", FALSE>>[1] = "Enter"
        OBVIOUS
      <4>. QED  BY <2>2, <4>1
    <3>2. op[1] \notin Flowing
      BY <3>1 DEF Flowing
    <3>. QED  BY <3>2, StillFits
  <2>. QED  BY <1>7, <1>8, <1>10, <2>1, <2>2
<1>11. ~ Emitting(g)
  BY <1>4, <1>6, OwnInput
<1>. QED  BY <1>5, <1>6, <1>10, <1>11, FreshFlow

\* A call that neither fills nor closes a graph input leaves the streams alone.
LEMMA CallFlow ==
    ASSUME AgendaInv, script \in [Apps -> Seq(CallsOfApps)], OrderlyRun, DataTyped, Flow,
           ScriptFeeds, NEW a \in Apps, CallStep(a)
    PROVE  Flow' /\ DoneKept
<1>1. CASE AddPacketToInputStream(a)
  BY <1>1, AddPacketFlow
<1>2. CASE CloseInputStream(a)
  BY <1>2, CloseInputFlow
<1>3. CASE ~ AddPacketToInputStream(a) /\ ~ CloseInputStream(a)
  <2>. DEFINE c == Head(script[a])[1]
  <2>1. PICK r \in Seq(FromCalls) :
           /\ agenda[a] = <<>> /\ agenda' = [agenda EXCEPT ![a] = r]
           /\ r \in Seq(FromCall(c))
           /\ UNCHANGED <<queueVars, blocked, cur, seen, streamVars, finalVars, historyVars>>
    BY CallMakes
  <2>2. c \notin Feeding
    BY <1>3 DEF CallStep, Start, Cancel, Pause, Resume, Shutdown, WaitUntilDone, Calls, Feeding
  <2>. HIDE DEF c
  <2>3. \A op \in Ops(r) : op[1] \notin Moving
    <3>1. Ops(r) \subseteq FromCall(c)
      BY <2>1, OpsType
    <3>. QED  BY <2>2, <3>1 DEF FromCall, FromCalls, OfKinds, CallKinds, Moving, Flowing
  <2>4. a \in Threads
    BY DEF Threads
  <2>5. Adds(a, Ops(r)) /\ Ops(agenda[a]) = {}
    BY <2>1, <2>4, FreshAdds
  <2>6. UNCHANGED <<seen, len, done, outDone, outClosed, supply, closePending, finalized,
                    doneRuns>>
    BY <2>1 DEF streamVars, finalVars, historyVars
  <2>. QED  BY <2>3, <2>4, <2>5, <2>6, CalmFlow
<1>. QED  BY <1>1, <1>2, <1>3

\* A thread only gets on with its script.
LEMMA ScriptFeedsKept ==
    ASSUME script \in [Apps -> Seq(CallsOfApps)], ScriptFeeds, Next
    PROVE  ScriptFeeds'
<1>1. CASE script' = script
  BY <1>1 DEF ScriptFeeds, FeedsIn
<1>2. CASE \E a \in Apps : CallStep(a)
  <2>1. PICK a \in Apps : CallStep(a)
    BY <1>2
  <2>2. script[a] # <<>> /\ script' = [script EXCEPT ![a] = Tail(@)]
    BY <2>1 DEF CallStep, Start, AddPacketToInputStream, CloseInputStream, Cancel, Pause,
                Resume, Shutdown, WaitUntilDone, Calls, Making
  <2>3. /\ Len(script[a]) \in Nat /\ Len(Tail(script[a])) = Len(script[a]) - 1
        /\ \A i \in 1..(Len(script[a]) - 1) : Tail(script[a])[i] = script[a][i + 1]
    <3>1. script[a] \in Seq(CallsOfApps)
      OBVIOUS
    <3>. QED  BY <2>2, <3>1
  <2>4. ASSUME NEW b \in Apps, NEW g \in GraphInputs, FeedsIn(script', b, g)
        PROVE  FeedsIn(script, b, g)
    <3>1. CASE b = a
      <4>1. script'[b] = Tail(script[a])
        BY <2>2, <3>1
      <4>2. PICK i \in 1..Len(script'[b]) : script'[b][i][1] \in Feeding /\ script'[b][i][2] = g
        BY <2>4 DEF FeedsIn
      <4>3. i \in 1..(Len(script[a]) - 1) /\ i + 1 \in 1..Len(script[a])
        BY <2>3, <4>1, <4>2
      <4>4. script'[b][i] = script[a][i + 1]
        BY <2>3, <4>1, <4>3
      <4>. QED  BY <3>1, <4>2, <4>3, <4>4 DEF FeedsIn
    <3>2. CASE b # a
      <4>1. script'[b] = script[b]
        BY <2>2, <3>2
      <4>. QED  BY <2>4, <4>1 DEF FeedsIn
    <3>. QED  BY <3>1, <3>2
  <2>. QED  BY <2>4 DEF ScriptFeeds
<1>3. ASSUME ~ \E a \in Apps : CallStep(a) PROVE script' = script
  <2>1. ASSUME NEW t \in Threads, CommonStep(t) PROVE script' = script
    BY <2>1 DEF CommonStep, QueueStep, AddNode, SubmitToExecutor, SetRunning, SubmitWaiting,
                Cleanup, StreamStep, AddPackets, SetDone, PostProcess, BoundDone, CloseManager,
                IdleStep, Enter, Leave, Begin, CheckIdle, Idle, Scan, DrainNode,
                FindUnfinalized, Judge, CloseNode, Terminate
  <2>2. ASSUME NEW w \in Workers, WorkerStep(w) PROVE script' = script
    BY <2>2 DEF WorkerStep, TakeTask, TryPop, PopQueueHead, Process, Finalize, Decrement,
                Reschedule, SafetyNet, SourceStopped, ErrorCallback, OnTaskFinished
  <2>3. ASSUME NEW a \in Apps, AppStep(a) PROVE script' = script
    BY <1>3, <2>3 DEF AppStep, OpenSource, IncClosedGraphInputStreams, SetState, Notify, Wait,
                      Block
  <2>. QED  BY <2>1, <2>2, <2>3 DEF Next
<1>. QED  BY <1>1, <1>2, <1>3

LEMMA FlowInit == OrderlyRun /\ Init => FlowInv
<1>. SUFFICES ASSUME OrderlyRun, Init PROVE FlowInv
  OBVIOUS
<1>1. /\ \A t \in Threads : agenda[t] = <<>>
      /\ script \in Scripts /\ outDone = {} /\ outClosed = {}
      /\ done = [e \in Edges |-> FALSE] /\ seen = [w \in Workers |-> NoneSeen]
      /\ supply = Supply /\ closePending = {} /\ finalized = {}
      /\ doneRuns = [n \in Nodes |-> 0]
  BY DEF Init
<1>2. \A t \in Threads : Ops(agenda[t]) = {}
  BY <1>1, OpsEmpty
<1>3. DoneBehind
  BY <1>1, MirrorEdges DEF DoneBehind
<1>4. ScriptFeeds
  BY <1>1 DEF ScriptFeeds, Feeds
<1>5. OpsFit /\ EmittersFit /\ NotBoth
  BY <1>2 DEF OpsFit, EmittersFit, NotBoth, Emitting
<1>6. SeenFits
  <2>1. ASSUME NEW w \in Workers PROVE SeenOf(w)
    <3>1. Ops(agenda[w]) = {} /\ ~ HasIn(agenda[w], {"PopQueueHead"}) /\ seen[w] = NoneSeen
      <4>1. Ops(agenda[w]) = {}
        BY <1>2 DEF Threads
      <4>. QED  BY <1>1, <4>1, HasOps
    <3>. QED  BY <3>1 DEF SeenOf
  <2>. QED  BY <2>1 DEF SeenFits
<1>7. ObservedFit
  <2>1. Supply \in [Sources -> Nat]
    BY GraphAssumption
  <2>2. doneRuns \in [Nodes -> 0..2]
    BY <1>1
  <2>. QED  BY <1>1, <2>1, <2>2 DEF ObservedFit, Observed
<1>. QED  BY <1>3, <1>4, <1>5, <1>6, <1>7 DEF FlowInv

LEMMA FlowStep ==
    ThreadsInv /\ DataTyped /\ SQ!MaxInFlightRespected /\ OrderlyRun /\ FlowInv /\ [Next]_vars
        => FlowInv' /\ DoneKept
<1>. SUFFICES ASSUME ThreadsInv, DataTyped, SQ!MaxInFlightRespected, OrderlyRun, FlowInv,
                     [Next]_vars
              PROVE  FlowInv' /\ DoneKept
  OBVIOUS
<1>0. AgendaInv /\ script \in [Apps -> Seq(CallsOfApps)] /\ Flow /\ ScriptFeeds
  BY DEF ThreadsInv, FlowInv, Flow
<1>1. CASE UNCHANGED vars
  <2>1. UNCHANGED <<agenda, script, seen, len, done, outDone, outClosed, supply, closePending,
                    finalized, doneRuns>>
    BY <1>1 DEF vars, threadVars, streamVars, finalVars, historyVars
  <2>2. DoneBehind' /\ ScriptFeeds' /\ ObservedFit' /\ DoneKept
    BY <2>1 DEF FlowInv, DoneBehind, Spent, ScriptFeeds, FeedsIn, ObservedFit, Observed,
                AllInputsDone, IsDone, DoneKept
  <2>3. OpsFit' /\ EmittersFit' /\ NotBoth'
    BY <2>1 DEF FlowInv, OpsFit, OpFits, Spent, EmittersFit, EmitsAs, NotBoth, Emitting,
                Shutting
  <2>4. SeenFits'
    BY <2>1 DEF FlowInv, SeenFits, SeenOf, PopsFit, Observed
  <2>. QED  BY <2>2, <2>3, <2>4 DEF FlowInv
<1>2. CASE Next
  <2>1. ASSUME NEW t \in Threads, CommonStep(t) PROVE Flow' /\ DoneKept
    BY <1>0, <2>1, CommonFlow
  <2>2. ASSUME NEW w \in Workers, WorkerStep(w) PROVE Flow' /\ DoneKept
    BY <1>0, <2>2, WorkerFlow
  <2>3. ASSUME NEW a \in Apps, AppStep(a) PROVE Flow' /\ DoneKept
    BY <1>0, <2>3, CallFlow, AppCalm DEF AppStep
  <2>4. Flow' /\ DoneKept
    BY <1>2, <2>1, <2>2, <2>3 DEF Next
  <2>5. ScriptFeeds'
    BY <1>0, <1>2, ScriptFeedsKept
  <2>. QED  BY <2>4, <2>5 DEF Flow, FlowInv
<1>. QED  BY <1>1, <1>2

LEMMA FlowCorrect == ASSUME OrderlyRun PROVE Spec => []FlowInv /\ [][DoneKept]_vars
<1>1. Init => FlowInv
  BY FlowInit
<1>2. ThreadsInv /\ DataTyped /\ SQ!MaxInFlightRespected /\ FlowInv /\ [Next]_vars
          => FlowInv' /\ DoneKept
  BY FlowStep
<1>. QED  BY <1>1, <1>2, ThreadsCorrect, DrainCorrect, GraphRespectsMaxInFlight, PTL DEF Spec

\* Done travels downstream behind the data: when no node runs twice at once,
\* stops early or fails, and no two threads share a graph input, a consumer's
\* outputs are Done only once its inputs are done and drained and RunNode has
\* finalized it, whichever threads carry the Done there.
THEOREM DoneBehindInputs == ASSUME OrderlyRun PROVE Spec => []DoneFollowsInputs
<1>1. ASSUME FlowInv PROVE DoneFollowsInputs
  <2>1. SUFFICES ASSUME NEW n \in Consumers, NEW i \in 1..Len(Mirrors[n]), done[Mirrors[n][i]]
                 PROVE  AllInputsDone(n) /\ n \in finalized
    BY DEF DoneFollowsInputs
  <2>2. n \in Producers /\ Mirrors[n][i] \in MirrorsOf(n)
    BY <2>1 DEF Consumers, Producers, MirrorsOf
  <2>3. n \in outDone
    BY <1>1, <2>1, <2>2 DEF FlowInv, DoneBehind
  <2>4. n \in finalized
    BY <1>1, <2>1, <2>3 DEF FlowInv, DoneBehind, Spent
  <2>. QED  BY <1>1, <2>4 DEF FlowInv, ObservedFit, Observed
<1>2. FlowInv => DoneFollowsInputs
  BY <1>1
<1>. QED  BY <1>2, FlowCorrect, PTL

\* Under the same conditions an input that is done and drained stays so:
\* AddPackets, which takes a stream out of Done, never comes after SetDone.
THEOREM NothingAfterDone == ASSUME OrderlyRun PROVE Spec => DoneIsFinal
BY FlowCorrect, PTL DEF DoneIsFinal, DoneKept

\* Under the same conditions PostProcess never finds the output of its node
\* closed: the packets of the finalize invocation are sent before the
\* outputs are closed.
THEOREM OutputsReachMirrors == ASSUME OrderlyRun PROVE Spec => []NoOutputDropped
<1>1. ASSUME FlowInv, AgendaInv, TypeOK PROVE NoOutputDropped
  <2>1. SUFFICES ASSUME NEW t \in Threads, At(t, "PostProcess"), Arg(t, 3) > 0,
                        Arg(t, 2) \in outClosed
                 PROVE  FALSE
    BY DEF NoOutputDropped
  <2>. DEFINE p == Arg(t, 2)
  <2>2. p \in Producers /\ Flow
    BY <1>1, <2>1, ArgFacts DEF FlowInv, Flow
  <2>3. Emits(Head(agenda[t]), p)
    BY <1>1, <2>1, HeadIs DEF Emits, Arg
  <2>4. Emitting(p)
    BY <1>1, <2>1, <2>2, <2>3, HeadFits
  <2>5. p \in outDone
    BY <1>1, <2>1 DEF TypeOK
  <2>. QED  BY <2>2, <2>4, <2>5 DEF Flow, NotBoth, Shutting
<1>2. FlowInv /\ ThreadsInv /\ TypeOK => NoOutputDropped
  BY <1>1 DEF ThreadsInv
<1>. QED  BY <1>2, FlowCorrect, ThreadsCorrect, TypeCorrect, PTL
=============================================================================
