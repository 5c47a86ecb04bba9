--------------------------- MODULE StreamsProofs ---------------------------
(***************************************************************************)
(* The streams keep their promises for any graph, any number of producers, *)
(* consumers and mirrors, any queue limits, offsets and behaviours of the  *)
(* nodes, and any width of the timestamps: no packet is lost, duplicated   *)
(* or reordered, bounds never recede behind a handler that waits for them, *)
(* input sets are settled and consumers are closed only at the end.        *)
(***************************************************************************)
EXTENDS Streams, InductionLemmas, FiniteSetTheorems

-----------------------------------------------------------------------------
(* Timestamps and one InputStreamManager, at every width of the integers:  *)
(* the order of the special values, the steps from one timestamp to the    *)
(* next, and which operations can move a bound back.                       *)

USE TimestampAssumption

\* What the named constructors stand for.
LEMMA NamedTimestamps ==
    /\ {Unset, Unstarted, PreStream, MinTime, MaxTime, PostStream, OneOverPostStream, Done}
           \subseteq Timestamps
    /\ Unset < Unstarted /\ Unstarted < PreStream /\ PreStream < MinTime
    /\ MinTime < MaxTime
    /\ MaxTime < PostStream /\ PostStream < OneOverPostStream /\ OneOverPostStream < Done
  BY DEF Timestamps, Unset, Unstarted, PreStream, MinTime, MaxTime, PostStream,
         OneOverPostStream, Done

\* CheckTimestamp accepts every value of the type: the range it means to check
\* and the special values together leave nothing out, so AddPackets and
\* MovePackets never refuse a packet for its timestamp.
THEOREM CheckTimestampNeverFails ==
    ASSUME NEW t \in Timestamps
    PROVE  CheckTimestamp(t)
  BY DEF CheckTimestamp, IsAllowedInStream, IsSpecialValue, Timestamps,
         PreStream, MinTime, MaxTime, PostStream

\* NextAllowedInStream is a timestamp that a bound may have, later than every
\* timestamp a packet may have up to t, and it keeps the order.
LEMMA NextStep ==
    ASSUME NEW t \in Timestamps, NEW u \in Timestamps
    PROVE  /\ NextAllowedInStream(t) \in Timestamps
           /\ IsAllowedInStream(t) => NextAllowedInStream(t) > t
           /\ t < u /\ IsAllowedInStream(u) => NextAllowedInStream(t) <= u
           /\ t <= u => NextAllowedInStream(t) <= NextAllowedInStream(u)
  BY DEF NextAllowedInStream, IsAllowedInStream, Timestamps, PreStream, PostStream,
         OneOverPostStream

\* On the timestamps of packets, NextAllowedInStream and
\* PreviousAllowedInStream undo each other, at both ends too.
THEOREM NextAndPrevious ==
    ASSUME NEW t \in Timestamps, IsAllowedInStream(t)
    PROVE  /\ PreviousAllowedInStream(NextAllowedInStream(t)) = t
           /\ NextAllowedInStream(PreviousAllowedInStream(t)) = t
  BY DEF NextAllowedInStream, PreviousAllowedInStream, IsAllowedInStream, Timestamps, Unstarted,
         PreStream, PostStream, OneOverPostStream

\* A sum that wraps round is a timestamp, and one in the range does not.
LEMMA WrapStep ==
    ASSUME NEW x \in Int
    PROVE  Wrap(x) \in Timestamps /\ (x \in Timestamps => Wrap(x) = x)
<1>. DEFINE K == INT64_MAX - INT64_MIN + 1
            y == x - INT64_MIN
<1>1. K \in Nat \ {0} /\ y \in Int /\ INT64_MIN \in Int /\ INT64_MAX \in Int
  BY TimestampAssumption
<1>2. y % K \in 0..(K - 1) /\ (y \in 0..(K - 1) => y % K = y)
  <2>. HIDE DEF K, y
  <2>. QED  BY <1>1
<1>3. Wrap(x) = INT64_MIN + (y % K)
  BY DEF Wrap
<1>4. x \in Timestamps => y \in 0..(K - 1) /\ INT64_MIN + y = x
  BY <1>1 DEF Timestamps
<1>5. \A z \in 0..(K - 1) : INT64_MIN + z \in Timestamps
  BY <1>1 DEF Timestamps
<1>. HIDE DEF K, y
<1>. QED  BY <1>2, <1>3, <1>4, <1>5

\* The sum of a timestamp and an offset is a timestamp, whatever overflows.
LEMMA PlusType ==
    ASSUME NEW t \in Int, NEW d \in Int
    PROVE  Plus(t, d) \in Timestamps
<1>1. Wrap(t + d) \in Timestamps
  BY WrapStep
<1>. QED  BY <1>1, TimestampAssumption DEF Plus, Timestamps, MaxTime

-----------------------------------------------------------------------------
\* The operations of a manager lead from managers to managers.
LEMMA ManagerTypes ==
    ASSUME NEW m \in Managers, NEW t \in Timestamps,
           NEW ts \in Seq(Timestamps), ts # <<>>
    PROVE  /\ AddPackets(m, ts) \in Managers
           /\ SetNextTimestampBound(m, t) \in Managers
           /\ Close(m) \in Managers
           /\ PopPacketAtTimestamp(m, t).mgr \in Managers
           /\ PopQueueHead(m).mgr \in Managers
<1>1. Len(ts) \in Nat /\ ts[Len(ts)] \in Timestamps
  BY EmptySeq, SMT
<1>2. NextAllowedInStream(ts[Len(ts)]) \in Timestamps /\ NextAllowedInStream(t) \in Timestamps
  BY <1>1, NextStep
<1>3. m.queue \o ts \in Seq(Timestamps) /\ (m.queue # <<>> => Tail(m.queue) \in Seq(Timestamps))
  BY DEF Managers
<1>4. Done \in Timestamps
  BY NamedTimestamps
<1>5. AddPackets(m, ts) \in Managers
  BY <1>2, <1>3 DEF AddPackets, Managers
<1>6. SetNextTimestampBound(m, t) \in Managers
  BY DEF SetNextTimestampBound, Managers
<1>7. Close(m) \in Managers
  BY <1>4 DEF Close, Managers
<1>8. PopPacketAtTimestamp(m, t).mgr \in Managers
  BY <1>2, <1>3 DEF PopPacketAtTimestamp, Managers
<1>9. PopQueueHead(m).mgr \in Managers
  BY <1>3 DEF PopQueueHead, Managers
<1> QED BY <1>5, <1>6, <1>7, <1>8, <1>9

\* Whoever reads a manager never sees its bound go back, unless packets are
\* added whose last one is older than the bound: no operation but AddPackets
\* assigns a smaller bound, and AddPackets does not for a list that keeps the
\* promise the bound made (SetNextTimestampBound, Close, PopPacketAtTimestamp,
\* PopQueueHead, AddPackets, MovePackets).
THEOREM BoundOnlyRises ==
    ASSUME NEW m \in Managers, NEW t \in Timestamps,
           NEW ts \in Seq(Timestamps), ts # <<>>
    PROVE  /\ SetNextTimestampBound(m, t).bound >= m.bound
           /\ Close(m).bound >= m.bound
           /\ IsAllowedInStream(t) => PopPacketAtTimestamp(m, t).mgr.bound >= m.bound
           /\ PopQueueHead(m).mgr.bound = m.bound
           /\ IsAllowedInStream(ts[Len(ts)]) /\ m.bound <= ts[Len(ts)]
                 => AddPackets(m, ts).bound >= m.bound
<1>1. Len(ts) \in Nat /\ ts[Len(ts)] \in Timestamps
  BY EmptySeq, SMT
<1>2. m.bound \in Timestamps /\ m.bound <= m.bound /\ m.bound <= Done
  BY NamedTimestamps DEF Managers, Timestamps, Done
<1>3. SetNextTimestampBound(m, t).bound >= m.bound
  BY <1>2 DEF SetNextTimestampBound, Managers, Timestamps
<1>4. Close(m).bound >= m.bound
  BY <1>2 DEF Close, Managers, Timestamps
<1>5. IsAllowedInStream(t) => PopPacketAtTimestamp(m, t).mgr.bound >= m.bound
  <2>1. IsAllowedInStream(t) => NextAllowedInStream(t) > t
    BY NextStep
  <2>2. PopPacketAtTimestamp(m, t).mgr.bound =
            IF m.bound <= t THEN NextAllowedInStream(t) ELSE m.bound
    BY DEF PopPacketAtTimestamp, Managers
  <2> QED BY <1>2, <2>1, <2>2, NextStep DEF Timestamps
<1>6. PopQueueHead(m).mgr.bound = m.bound
  BY DEF PopQueueHead, Managers
<1>7. IsAllowedInStream(ts[Len(ts)]) /\ m.bound <= ts[Len(ts)]
         => AddPackets(m, ts).bound >= m.bound
  <2>1. IsAllowedInStream(ts[Len(ts)]) =>
            NextAllowedInStream(ts[Len(ts)]) > ts[Len(ts)]
    BY <1>1, NextStep
  <2>2. AddPackets(m, ts).bound =
            IF m.closed THEN m.bound ELSE NextAllowedInStream(ts[Len(ts)])
    BY DEF AddPackets, Managers
  <2>3. NextAllowedInStream(ts[Len(ts)]) \in Timestamps
    BY <1>1, NextStep
  <2> QED BY <1>1, <1>2, <2>1, <2>2, <2>3 DEF Timestamps
<1> QED BY <1>3, <1>4, <1>5, <1>6, <1>7

\* What a reader was told stays true: once PopPacketAtTimestamp has answered
\* for timestamp t, the bound is past t, so that a producer that keeps the
\* bound can send nothing the reader has already passed over.
THEOREM PoppedIsSettled ==
    ASSUME NEW m \in Managers, NEW t \in Timestamps, IsAllowedInStream(t)
    PROVE  /\ PopPacketAtTimestamp(m, t).mgr.bound > t
           /\ PopPacketAtTimestamp(m, t).mgr.select = t
<1>1. NextAllowedInStream(t) > t /\ NextAllowedInStream(t) \in Timestamps
  BY NextStep
<1>2. PopPacketAtTimestamp(m, t).mgr.bound =
          IF m.bound <= t THEN NextAllowedInStream(t) ELSE m.bound
  BY DEF PopPacketAtTimestamp, Managers
<1>3. PopPacketAtTimestamp(m, t).mgr.select = t
  BY DEF PopPacketAtTimestamp, Managers
<1> QED BY <1>1, <1>2, <1>3 DEF Managers, Timestamps

HIDE TimestampAssumption

-----------------------------------------------------------------------------
(* The inductive invariant.                                                *)

Increasing(s) == \A i, j \in 1..Len(s) : i < j => s[i] < s[j]

MirrorsOf(p) == {graph.mirrors[p][i] : i \in 1..Len(graph.mirrors[p])}
OpsOf(a) == {a[i] : i \in 1..Len(a)}

\* What a producer whose bound is b has still to tell its mirrors, it has
\* promised already: the packets are in order and before b, and no bound is
\* past it.
UpdateKept(b, op) ==
    /\ op[3] \in Seq(Timestamps) /\ Increasing(op[3])
    /\ \A i \in 1..Len(op[3]) : IsAllowedInStream(op[3][i]) /\ op[3][i] < b
    /\ op[4] \in Timestamps /\ op[4] <= b

\* In agenda a, the packets for a mirror come before the bound.
PacketsFirst(a) ==
    \A m, n \in 1..Len(a) :
        m < n /\ a[m][1] = "Update" /\ a[n][1] = "Update" /\ a[m][2] = a[n][2] => a[n][3] = <<>>

ProducerOp(p, op) ==
    /\ p \in DOMAIN graph.mirrors /\ op[2] \in MirrorsOf(p)
    /\ op[1] \in {"Update", "Full", "Arrival"}
    /\ op[1] = "Update" => UpdateKept(out[p].bound, op)
    /\ op[1] = "Arrival" => ConsumerOf(op[2]) \in graph.driven

ProducerInv(p) ==
    /\ \A op \in OpsOf(agenda[p]) : ProducerOp(p, op)
    /\ PacketsFirst(agenda[p])

PolicyOf(e) == graph.policy[ConsumerOf(e)]

\* The packets that the update op brings to manager m come after those in its
\* queue and, where the reader waits for bounds, do not break its bound.
UpdateNews(policy, m, op) ==
    \A i \in 1..Len(op[3]) :
        /\ \A j \in 1..Len(m.queue) : m.queue[j] < op[3][i]
        /\ policy = "default" => op[3][i] >= m.bound

\* What a manager m holds whose producer's bound is b.
ManagerOk(policy, m, b) ==
    /\ Increasing(m.queue)
    /\ \A j \in 1..Len(m.queue) : IsAllowedInStream(m.queue[j]) /\ m.queue[j] < b
    /\ policy = "default" =>
          /\ m.closed \/ m.bound <= Later(b, PreStream)
          /\ m.select < m.bound
          /\ \A j \in 1..Len(m.queue) : m.select < m.queue[j] /\ m.queue[j] < m.bound

EdgeInv(e) ==
    /\ ManagerOk(PolicyOf(e), in[e], out[ProducerOf(e)].bound)
    /\ \A op \in OpsOf(agenda[ProducerOf(e)]) :
          op[1] = "Update" /\ op[2] = e => UpdateNews(PolicyOf(e), in[e], op)
    /\ in[e].closed => ConsumerOf(e) \in stopped

\* A pop at t from manager m, one of n, is after its first packet, or no packet
\* up to t is left or comes.
PopOk(policy, n, m, t) ==
    /\ policy = "default" =>
          /\ IsAllowedInStream(t) /\ t < m.bound
          /\ \A j \in 1..Len(m.queue) : t <= m.queue[j]
    /\ policy # "default" /\ n = 1 => m.queue # <<>> /\ Head(m.queue) = t

\* What was read of manager m is still so, or its bound has advanced.
ReadingOk(m, x) ==
    /\ x.empty => /\ x.ts <= m.bound
                  /\ \A j \in 1..Len(m.queue) : x.ts <= m.queue[j]
    /\ ~ x.empty => m.queue # <<>> /\ Head(m.queue) = x.ts

ConsumerOp(c, op) ==
    /\ c \in DOMAIN graph.ports
    /\ op[1] \in {"IsFull", "Read", "Pop", "NotFull", "Close", "PopQueueHead"}
    /\ op[1] # "NotFull" => op[2] \in 1..Len(graph.ports[c])
    /\ op[1] = "NotFull" => op[2] \in PortEdges(c)
    /\ c \in graph.driven <=> op[1] # "PopQueueHead"
    /\ op[1] = "Read" => op[2] = Len(view[c]) + 1 /\ op[3] \in Nat
    /\ op[1] = "Pop" =>
          /\ view[c] = <<>> /\ op[3] \in Timestamps
          /\ PopOk(graph.policy[c], Len(graph.ports[c]), in[graph.ports[c][op[2]]], op[3])
    /\ op[1] = "Close" => c \in stopped

\* In agenda a, a Read is the last operation and a port is popped once.
ReadsLast(a) ==
    \A m, n \in 1..Len(a) :
        /\ a[m][1] = "Read" => m = Len(a)
        /\ a[m][1] = "Pop" /\ a[n][1] = "Pop" /\ a[m][2] = a[n][2] => m = n

ViewOk(c) ==
    /\ agenda[c] # <<>> /\ agenda[c][Len(agenda[c])][1] = "Read"
    /\ \A i \in 1..Len(view[c]) :
          graph.policy[c] = "default" => ReadingOk(in[graph.ports[c][i]], view[c][i])

ConsumerInv(c) ==
    /\ \A op \in OpsOf(agenda[c]) : ConsumerOp(c, op)
    /\ ReadsLast(agenda[c])
    /\ view[c] # <<>> => ViewOk(c)

\* A consumer that was told to close has nothing to come.
StoppedInv(c) ==
    /\ graph.policy[c] = "default"
    /\ \A e \in PortEdges(c) :
          /\ in[e].queue = <<>> /\ out[ProducerOf(e)].bound >= OneOverPostStream
          /\ \A op \in OpsOf(agenda[ProducerOf(e)]) : op[1] = "Update" /\ op[2] = e => op[3] = <<>>

StreamsInv ==
    /\ TypeOK
    /\ \A p \in Producers : ProducerInv(p)
    /\ \A c \in Consumers : ConsumerInv(c)
    /\ \A e \in Edges : EdgeInv(e)
    /\ \A c \in stopped : StoppedInv(c)
    /\ Lossless
    /\ FullIsRecorded

-----------------------------------------------------------------------------
(* The graph.                                                              *)

\* Every edge has one producer and one consumer, and its place with each.
LEMMA GraphFacts ==
    ASSUME graph \in Graphs
    PROVE  /\ DOMAIN graph.mirrors \subseteq Producers
           /\ DOMAIN graph.ports \subseteq Consumers
           /\ graph.driven \subseteq DOMAIN graph.ports
           /\ \A c \in DOMAIN graph.ports :
                 /\ graph.ports[c] \in Seq(Edges) /\ Len(graph.ports[c]) \in Nat /\ Len(graph.ports[c]) > 0
                 /\ graph.policy[c] \in {"default", "immediate", "fixed_size"}
                 /\ \A i \in 1..Len(graph.ports[c]) : graph.ports[c][i] \in PortEdges(c)
                 /\ \A e \in PortEdges(c) : e \in Edges /\ ConsumerOf(e) = c
                 /\ \A i, j \in 1..Len(graph.ports[c]) : graph.ports[c][i] = graph.ports[c][j] => i = j
           /\ \A p \in DOMAIN graph.mirrors :
                 /\ graph.mirrors[p] \in Seq(Edges) /\ Len(graph.mirrors[p]) \in Nat
                 /\ \A i \in 1..Len(graph.mirrors[p]) : graph.mirrors[p][i] \in MirrorsOf(p)
                 /\ \A e \in MirrorsOf(p) : e \in Edges /\ ProducerOf(e) = p
                 /\ \A i, j \in 1..Len(graph.mirrors[p]) : graph.mirrors[p][i] = graph.mirrors[p][j] => i = j
           /\ \A e \in Edges : /\ ConsumerOf(e) \in DOMAIN graph.ports /\ e \in PortEdges(ConsumerOf(e))
                               /\ ProducerOf(e) \in DOMAIN graph.mirrors /\ e \in MirrorsOf(ProducerOf(e))
<1>. DEFINE P == graph.ports
            M == graph.mirrors
<1>1. /\ DOMAIN M \subseteq Producers /\ DOMAIN P \subseteq Consumers
      /\ EdgesOf(M) = Edges
      /\ EachOnce(M) /\ EachOnce(P)
      /\ \A p \in DOMAIN M : M[p] \in Seq(Edges)
      /\ \A c \in DOMAIN P : P[c] \in Seq(Edges) \ {<<>>}
      /\ graph.policy \in [DOMAIN P -> {"default", "immediate", "fixed_size"}]
      /\ graph.driven \subseteq DOMAIN P
  BY StreamsAssumption DEF Edges
<1>. HIDE DEF P, M
<1>2. ASSUME NEW c \in DOMAIN P
      PROVE  /\ P[c] \in Seq(Edges) /\ Len(P[c]) \in Nat /\ Len(P[c]) > 0
             /\ graph.policy[c] \in {"default", "immediate", "fixed_size"}
             /\ \A i \in 1..Len(P[c]) : P[c][i] \in PortEdges(c)
             /\ \A e \in PortEdges(c) : e \in Edges /\ ConsumerOf(e) = c
             /\ \A i, j \in 1..Len(P[c]) : P[c][i] = P[c][j] => i = j
  <2>1. P[c] \in Seq(Edges) /\ Len(P[c]) \in Nat /\ Len(P[c]) > 0
    <3>1. P[c] \in Seq(Edges) /\ P[c] # <<>>
      BY <1>1
    <3>. QED  BY <3>1, EmptySeq
  <2>2. graph.policy[c] \in {"default", "immediate", "fixed_size"}
    BY <1>1
  <2>3. \A i \in 1..Len(P[c]) : P[c][i] \in PortEdges(c)
    BY DEF PortEdges, P
  <2>4. \A i, j \in 1..Len(P[c]) : P[c][i] = P[c][j] => i = j
    BY <1>1 DEF EachOnce
  <2>5. ASSUME NEW e \in PortEdges(c) PROVE e \in Edges /\ ConsumerOf(e) = c
    <3>1. PICK i \in 1..Len(P[c]) : e = P[c][i]
      BY DEF PortEdges, P
    <3>2. e \in Edges
      BY <2>1, <3>1
    <3>3. ASSUME NEW d \in DOMAIN P, e \in PortEdges(d) PROVE d = c
      <4>1. PICK j \in 1..Len(P[d]) : e = P[d][j]
        BY <3>3 DEF PortEdges, P
      <4>. QED  BY <1>1, <3>1, <4>1 DEF EachOnce
    <3>4. ConsumerOf(e) = c
      BY <3>3 DEF ConsumerOf, P
    <3>. QED  BY <3>2, <3>4
  <2>. QED  BY <2>1, <2>2, <2>3, <2>4, <2>5
<1>3. ASSUME NEW p \in DOMAIN M
      PROVE  /\ M[p] \in Seq(Edges) /\ Len(M[p]) \in Nat
             /\ \A i \in 1..Len(M[p]) : M[p][i] \in MirrorsOf(p)
             /\ \A e \in MirrorsOf(p) : e \in Edges /\ ProducerOf(e) = p
             /\ \A i, j \in 1..Len(M[p]) : M[p][i] = M[p][j] => i = j
  <2>1. M[p] \in Seq(Edges) /\ Len(M[p]) \in Nat
    BY <1>1
  <2>3. \A i \in 1..Len(M[p]) : M[p][i] \in MirrorsOf(p)
    BY DEF MirrorsOf, M
  <2>4. \A i, j \in 1..Len(M[p]) : M[p][i] = M[p][j] => i = j
    BY <1>1 DEF EachOnce
  <2>5. ASSUME NEW e \in MirrorsOf(p) PROVE e \in Edges /\ ProducerOf(e) = p
    <3>1. PICK i \in 1..Len(M[p]) : e = M[p][i]
      BY DEF MirrorsOf, M
    <3>2. e \in Edges
      BY <2>1, <3>1
    <3>3. ASSUME NEW q \in DOMAIN M, NEW j \in 1..Len(M[q]), M[q][j] = e PROVE q = p
      BY <1>1, <3>1, <3>3 DEF EachOnce
    <3>4. ProducerOf(e) = CHOOSE q \in DOMAIN M : \E j \in 1..Len(M[q]) : M[q][j] = e
      BY DEF ProducerOf, M
    <3>5. ProducerOf(e) \in DOMAIN M /\ \E j \in 1..Len(M[ProducerOf(e)]) : M[ProducerOf(e)][j] = e
      BY <3>1, <3>4
    <3>. QED  BY <3>2, <3>3, <3>5
  <2>. QED  BY <2>1, <2>3, <2>4, <2>5
<1>4. ASSUME NEW e \in Edges
      PROVE  /\ ConsumerOf(e) \in DOMAIN P /\ e \in PortEdges(ConsumerOf(e))
             /\ ProducerOf(e) \in DOMAIN M /\ e \in MirrorsOf(ProducerOf(e))
  <2>1. PICK c \in DOMAIN P : e \in PortEdges(c)
    BY DEF Edges, EdgesOf, PortEdges, P
  <2>2. PICK p \in DOMAIN M : e \in MirrorsOf(p)
    BY <1>1 DEF EdgesOf, MirrorsOf, M
  <2>3. ConsumerOf(e) = c
    BY <1>2, <2>1
  <2>4. ProducerOf(e) = p
    BY <1>3, <2>2
  <2>. QED  BY <2>1, <2>2, <2>3, <2>4
<1>. QED  BY <1>1, <1>2, <1>3, <1>4 DEF P, M

-----------------------------------------------------------------------------
(* Sequences.                                                              *)

\* Concatenation is associative.
LEMMA ConcatTimestamps ==
    \A q1, q2, q3 \in Seq(Timestamps) : (q1 \o q2) \o q3 = q1 \o (q2 \o q3)
BY ConcatAssociative

\* Flattening sequences all but one of which are empty.
LEMMA FlattenOne ==
    ASSUME NEW S, NEW q \in Seq(Seq(S)), NEW r \in Seq(S),
           NEW k \in Nat, k = 0 => r = <<>>, k \in 1..Len(q) => q[k] = r, k <= Len(q),
           \A i \in 1..Len(q) : i # k => q[i] = <<>>
    PROVE  FlattenSeq(q) = r
<1>1. CASE q = <<>>
  BY <1>1 DEF FlattenSeq
<1>2. CASE q # <<>>
  <2>1. Len(q) \in Nat \ {0}
    BY <1>2, FlattenDef
  <2>2. PICK F : IsFlat(F, q) /\ FlattenSeq(q) = F[Len(q)]
    BY <1>2, FlattenDef
  <2>. DEFINE P == {n \in Nat : n + 1 <= Len(q) => F[n + 1] = IF n + 1 < k THEN <<>> ELSE r}
  <2>3. 0 \in P
    BY <2>1, <2>2 DEF IsFlat
  <2>4. ASSUME NEW n \in Nat, n \in P PROVE n + 1 \in P
    <3>. SUFFICES ASSUME n + 2 <= Len(q) PROVE F[n + 2] = IF n + 2 < k THEN <<>> ELSE r
      OBVIOUS
    <3>1. F[n + 2] = F[n + 1] \o q[n + 2]
      <4>1. n + 2 \in 1..Len(q) /\ n + 2 # 1 /\ (n + 2) - 1 = n + 1
        BY SMTT(30), <2>1
      <4>2. \A i \in 1..Len(q) : F[i] = IF i = 1 THEN q[i] ELSE F[i - 1] \o q[i]
        BY <2>2 DEF IsFlat
      <4>. QED  BY <4>1, <4>2
    <3>2. F[n + 1] = IF n + 1 < k THEN <<>> ELSE r
      BY <2>4
    <3>3. n + 2 \in 1..Len(q) /\ q[n + 2] = IF n + 2 = k THEN r ELSE <<>>
      BY <2>1
    <3>4. r \o <<>> = r /\ <<>> \o r = r /\ <<>> \o <<>> = <<>>
      BY ConcatEmptySeq
    <3>5. CASE n + 1 < k
      BY <3>1, <3>2, <3>3, <3>4, <3>5
    <3>6. CASE ~ (n + 1 < k)
      <4>1. ~ (n + 2 < k) /\ n + 2 # k
        BY <3>6
      <4>2. F[n + 2] = r \o <<>>
        BY <3>1, <3>2, <3>3, <3>6, <4>1
      <4>. QED  BY <3>4, <4>1, <4>2
    <3>. QED  BY <3>5, <3>6
  <2>5. Nat \subseteq P
    <3>. HIDE DEF P
    <3>. QED  BY <2>3, <2>4, NatSet
  <2>6. Len(q) - 1 \in P
    BY SMTT(40), <2>1, <2>5
  <2>. QED  BY <2>1, <2>2, <2>6
<1>. QED  BY <1>1, <1>2

\* The packets that agenda a has for edge e, and the one operation with them.
OnWay(a, e) == FlattenSeq([i \in 1..Len(a) |-> If(a[i][1] = "Update" /\ a[i][2] = e, a[i][3])])

Carries(a, e, k, ts) ==
    /\ k \in 0..Len(a) /\ ts \in Seq(Timestamps)
    /\ k = 0 => ts = <<>>
    /\ k # 0 => a[k][1] = "Update" /\ a[k][2] = e /\ a[k][3] = ts
    /\ \A i \in 1..Len(a) : i # k /\ a[i][1] = "Update" /\ a[i][2] = e => a[i][3] = <<>>

LEMMA CarriesIs ==
    ASSUME NEW a, Len(a) \in Nat, NEW e, NEW k, NEW ts, Carries(a, e, k, ts)
    PROVE  OnWay(a, e) = ts
<1>. DEFINE q == [i \in 1..Len(a) |-> If(a[i][1] = "Update" /\ a[i][2] = e, a[i][3])]
<1>1. \A i \in 1..Len(a) : q[i] = IF i = k THEN ts ELSE <<>>
  BY DEF Carries, If
<1>2. ts \in Seq(Timestamps) /\ <<>> \in Seq(Timestamps) /\ k \in Nat
  BY DEF Carries
<1>3. q \in Seq(Seq(Timestamps)) /\ Len(q) = Len(a)
  <2>1. \A i \in 1..Len(a) : q[i] \in Seq(Timestamps)
    <3>. HIDE DEF q
    <3>. QED  BY <1>1, <1>2
  <2>2. q \in [1..Len(a) -> Seq(Timestamps)]
    BY <2>1
  <2>. HIDE DEF q
  <2>. QED  BY <2>2
<1>. HIDE DEF q
<1>4. /\ k = 0 => ts = <<>>
      /\ k \in 1..Len(q) => q[k] = ts
      /\ k <= Len(q)
      /\ \A i \in 1..Len(q) : i # k => q[i] = <<>>
  BY <1>1, <1>3 DEF Carries
<1>5. FlattenSeq(q) = ts
  BY <1>2, <1>3, <1>4, FlattenOne
<1>. QED  BY <1>5 DEF OnWay, q

LEMMA CarriesSome ==
    ASSUME NEW a, Len(a) \in Nat, NEW e,
           \A i \in 1..Len(a) : a[i][1] = "Update" /\ a[i][2] = e => a[i][3] \in Seq(Timestamps),
           \A m, n \in 1..Len(a) : m < n /\ a[m][1] = "Update" /\ a[n][1] = "Update" /\ a[m][2] = a[n][2]
                                      => a[n][3] = <<>>
    PROVE  \E k, ts : Carries(a, e, k, ts)
<1>. DEFINE T == {i \in 1..Len(a) : a[i][1] = "Update" /\ a[i][2] = e}
<1>1. CASE T = {}
  <2>1. Carries(a, e, 0, <<>>)
    BY <1>1 DEF Carries
  <2>. QED  BY <2>1
<1>2. CASE T # {}
  <2>1. T \in SUBSET Nat
    OBVIOUS
  <2>2. PICK k \in T : \A y \in T : k <= y
    BY <1>2, <2>1, LeastNat
  <2>3. \A i \in 1..Len(a) : i # k /\ a[i][1] = "Update" /\ a[i][2] = e => a[i][3] = <<>>
    BY <2>2
  <2>4. Carries(a, e, k, a[k][3])
    BY <2>2, <2>3 DEF Carries
  <2>. QED  BY <2>4
<1>. QED  BY <1>1, <1>2

LEMMA OnTheWayIs ==
    ASSUME NEW e PROVE OnTheWay(e) = OnWay(agenda[ProducerOf(e)], e)
BY DEF OnTheWay, OnWay

-----------------------------------------------------------------------------
(* Timestamps.                                                             *)

LEMMA TimestampsInt ==
    /\ \A t \in Timestamps : t \in Int /\ Unset <= t /\ t <= Done
    /\ \A t \in Int : Unset <= t /\ t <= Done => t \in Timestamps
    /\ Unset \in Int /\ Done \in Int /\ PreStream \in Int /\ OneOverPostStream \in Int /\ PostStream \in Int
    /\ Unset < PreStream /\ PreStream < OneOverPostStream /\ OneOverPostStream < Done
    /\ \A t : IsAllowedInStream(t) <=> PreStream <= t /\ t <= PostStream
    /\ PostStream + 1 = OneOverPostStream
BY TimestampAssumption
   DEF Timestamps, Unset, Done, PreStream, PostStream, OneOverPostStream, IsAllowedInStream

\* The minimum of some timestamps.
LEMMA MinOfFacts ==
    ASSUME NEW S \in SUBSET Timestamps
    PROVE  /\ MinOf(S) \in Timestamps
           /\ \A u \in S : MinOf(S) <= u
           /\ S # {} => MinOf(S) \in S
           /\ S = {} => MinOf(S) = Done
<1>1. CASE S = {}
  BY <1>1, NamedTimestamps DEF MinOf
<1>2. CASE S # {}
  <2>. DEFINE T == {n \in Nat : Unset + n \in S}
  <2>1. \A u \in S : u - Unset \in T /\ Unset + (u - Unset) = u
    BY TimestampsInt
  <2>2. PICK n \in T : \A m \in T : n <= m
    <3>1. T # {} /\ T \in SUBSET Nat
      BY <1>2, <2>1
    <3>. QED  BY <3>1, LeastNat
  <2>3. Unset + n \in S /\ \A u \in S : Unset + n <= u
    <3>1. Unset + n \in S
      BY <2>2
    <3>2. ASSUME NEW u \in S PROVE Unset + n <= u
      <4>1. u - Unset \in T /\ u \in Int /\ Unset \in Int
        BY <2>1, TimestampsInt
      <4>2. n <= u - Unset /\ n \in Nat
        BY <2>2, <4>1
      <4>. QED  BY <4>1, <4>2
    <3>. QED  BY <3>1, <3>2
  <2>4. MinOf(S) \in S /\ \A u \in S : MinOf(S) <= u
    BY <1>2, <2>3 DEF MinOf
  <2>. QED  BY <1>2, <2>4
<1>. QED  BY <1>1, <1>2

\* What a shard may hold, with packets from bound lo on.
Shards == [queue : Seq(Timestamps), updated : Timestamps, closed : BOOLEAN]

ShardOk(s, lo) ==
    /\ s \in Shards /\ Increasing(s.queue)
    /\ \A i \in 1..Len(s.queue) : IsAllowedInStream(s.queue[i]) /\ lo <= s.queue[i]

\* The recursion of FoldLeft over the calls of b.
IsFold(F, base, b) ==
    F = [s \in SUBSET DOMAIN b |-> IF s = {} THEN base ELSE ShardCall(F[s \ {Max(s)}], b[Max(s)])]

LEMMA MaxIn ==
    ASSUME NEW n \in Nat, NEW s \in SUBSET (1..n), s # {}
    PROVE  /\ Max(s) \in s /\ \A y \in s : y <= Max(s)
           /\ IsFiniteSet(s) /\ Cardinality(s) \in Nat \ {0} /\ Cardinality(s \ {Max(s)}) = Cardinality(s) - 1
<1>1. PICK x \in s : \A y \in s : y <= x
  <2>1. s \in SUBSET Nat /\ \A y \in s : y <= n
    OBVIOUS
  <2>. QED  BY <2>1, GreatestNat
<1>2. Max(s) \in s /\ \A y \in s : y <= Max(s)
  <2>1. \A y \in s : x >= y
    BY <1>1
  <2>2. \A y \in s : Max(s) >= y /\ Max(s) \in s
    BY <1>1, <2>1 DEF Max
  <2>. QED  BY <1>1, <2>2
<1>3. IsFiniteSet(s)
  <2>1. IsFiniteSet(1..n)
    BY FS_Interval
  <2>. QED  BY <2>1, FS_Subset
<1>4. Cardinality(s) \in Nat /\ Cardinality(s) # 0
  BY <1>3, FS_CardinalityType, FS_EmptySet
<1>. QED  BY <1>2, <1>3, <1>4, FS_RemoveElement

LEMMA FoldDef ==
    ASSUME NEW S, NEW b \in Seq(S), NEW base
    PROVE  \E F : IsFold(F, base, b) /\ FoldLeft(ShardCall, base, b) = F[DOMAIN b]
<1>. DEFINE N == Len(b)
            D == 1..N
            Upto(n) == {s \in SUBSET D : Cardinality(s) <= n}
            Term(F, s) == IF s = {} THEN base ELSE ShardCall(F[s \ {Max(s)}], b[Max(s)])
            P == {n \in Nat : \E F : F = [s \in Upto(n) |-> Term(F, s)]}
<1>0. N \in Nat /\ DOMAIN b = D /\ IsFiniteSet(D)
  BY FS_Interval
<1>1. \A s \in SUBSET D : Cardinality(s) \in Nat /\ (Cardinality(s) = 0 => s = {})
  BY <1>0, FS_Subset, FS_CardinalityType, FS_EmptySet
<1>2. 0 \in P
  <2>. DEFINE F == [s \in Upto(0) |-> base]
  <2>1. \A s \in Upto(0) : s = {}
    BY <1>1
  <2>2. F = [s \in Upto(0) |-> Term(F, s)]
    BY <2>1
  <2>. QED  BY <2>2
<1>3. ASSUME NEW n \in Nat, n \in P PROVE n + 1 \in P
  <2>1. PICK F : F = [s \in Upto(n) |-> Term(F, s)]
    BY <1>3
  <2>. DEFINE G == [s \in Upto(n + 1) |-> Term(F, s)]
  <2>2. ASSUME NEW s \in Upto(n) PROVE s \in Upto(n + 1) /\ F[s] = G[s]
    <3>1. s \in Upto(n + 1)
      BY <1>1
    <3>. HIDE DEF Upto, Term
    <3>2. F[s] = Term(F, s)
      BY <2>1
    <3>. QED  BY <3>1, <3>2
  <2>3. ASSUME NEW s \in Upto(n + 1), s # {} PROVE s \ {Max(s)} \in Upto(n)
    <3>1. Cardinality(s) \in Nat /\ Cardinality(s \ {Max(s)}) = Cardinality(s) - 1
      BY <1>0, <2>3, MaxIn
    <3>2. Cardinality(s) <= n + 1 /\ s \ {Max(s)} \in SUBSET D
      OBVIOUS
    <3>3. Cardinality(s \ {Max(s)}) <= n
      BY <3>1, <3>2
    <3>. QED  BY <3>2, <3>3
  <2>4. ASSUME NEW s \in Upto(n + 1) PROVE Term(F, s) = Term(G, s)
    <3>. HIDE DEF G
    <3>1. CASE s = {}
      BY <3>1
    <3>2. CASE s # {}
      <4>1. F[s \ {Max(s)}] = G[s \ {Max(s)}]
        BY <2>2, <2>3, <3>2
      <4>. QED  BY <3>2, <4>1
    <3>. QED  BY <3>1, <3>2
  <2>5. G = [s \in Upto(n + 1) |-> Term(G, s)]
    <3>. HIDE DEF Term, Upto
    <3>. QED  BY <2>4
  <2>. HIDE DEF G, Upto, Term
  <2>. QED  BY <2>5
<1>4. Cardinality(D) \in P
  <2>. HIDE DEF P
  <2>1. Nat \subseteq P
    BY <1>2, <1>3, NatSet
  <2>. QED  BY <1>0, <2>1, FS_CardinalityType
<1>5. Upto(Cardinality(D)) = SUBSET D
  BY <1>0, FS_Subset
<1>6. \E F : IsFold(F, base, b)
  BY <1>0, <1>4, <1>5 DEF IsFold
<1>7. PICK F : F = CHOOSE G : IsFold(G, base, b)
  OBVIOUS
<1>8. FoldLeft(ShardCall, base, b) = F[DOMAIN b]
  BY <1>7 DEF FoldLeft, MapThenFoldSet, IsFold
<1>. QED  BY <1>6, <1>7, <1>8

\* What one call leaves in a shard whose packets are older than it.
LEMMA ShardCallOk ==
    ASSUME NEW s, NEW lo \in Timestamps, ShardOk(s, lo), NEW call \in ShardCalls, lo <= call[2],
           \A i \in 1..Len(s.queue) : s.queue[i] < call[2]
    PROVE  /\ ShardOk(ShardCall(s, call), lo)
           /\ \A i \in 1..Len(ShardCall(s, call).queue) : ShardCall(s, call).queue[i] <= call[2]
<1>. DEFINE t == call[2]
            r == ShardCall(s, call)
<1>1. /\ call[1] \in {"Packet", "Empty", "Bound", "Close"} /\ t \in Timestamps
      /\ call[1] = "Packet" => IsAllowedInStream(t)
  BY DEF ShardCalls
<1>2. NextAllowedInStream(t) \in Timestamps /\ Done \in Timestamps /\ t \in Int /\ lo \in Int
  BY <1>1, NextStep, NamedTimestamps, TimestampsInt
<1>3. /\ s \in Shards /\ s.queue \in Seq(Timestamps) /\ s.updated \in Timestamps /\ s.closed \in BOOLEAN
      /\ Increasing(s.queue)
      /\ \A i \in 1..Len(s.queue) : IsAllowedInStream(s.queue[i]) /\ lo <= s.queue[i] /\ s.queue[i] \in Timestamps
  BY DEF ShardOk, Shards
<1>4. ASSUME NEW i \in 1..Len(s.queue) PROVE s.queue[i] <= t
  <2>1. s.queue[i] \in Int /\ s.queue[i] < t
    BY <1>3, TimestampsInt
  <2>. QED  BY <1>2, <2>1
<1>. HIDE DEF t
<1>5. CASE call[1] = "Packet" /\ ~ s.closed
  <2>1. r = [s EXCEPT !.queue = Append(@, t), !.updated = NextAllowedInStream(t)]
    BY <1>5 DEF ShardCall, t
  <2>. HIDE DEF r
  <2>2. r \in Shards /\ r.queue = Append(s.queue, t)
    <3>1. Append(s.queue, t) \in Seq(Timestamps)
      BY <1>1, <1>3 DEF t
    <3>2. r = [queue |-> Append(s.queue, t), updated |-> NextAllowedInStream(t), closed |-> s.closed]
      BY <1>3, <2>1 DEF Shards
    <3>. QED  BY <1>2, <1>3, <3>1, <3>2 DEF Shards
  <2>3. /\ Len(r.queue) = Len(s.queue) + 1 /\ Len(s.queue) \in Nat /\ r.queue[Len(s.queue) + 1] = t
        /\ \A i \in 1..Len(s.queue) : r.queue[i] = s.queue[i]
    BY <1>1, <1>3, <2>2
  <2>4. ASSUME NEW i \in 1..Len(r.queue)
        PROVE  /\ IsAllowedInStream(r.queue[i]) /\ lo <= r.queue[i] /\ r.queue[i] <= t
               /\ i \notin 1..Len(s.queue) => i = Len(s.queue) + 1
    <3>1. CASE i \in 1..Len(s.queue)
      BY <1>3, <1>4, <2>3, <3>1
    <3>2. CASE i \notin 1..Len(s.queue)
      <4>1. i = Len(s.queue) + 1
        BY <2>3, <3>2
      <4>. QED  BY <1>1, <1>2, <1>5, <2>3, <4>1 DEF t
    <3>. QED  BY <3>1, <3>2
  <2>5. Increasing(r.queue)
    <3>. SUFFICES ASSUME NEW i \in 1..Len(r.queue), NEW j \in 1..Len(r.queue), i < j
                  PROVE  r.queue[i] < r.queue[j]
      BY DEF Increasing
    <3>1. i \in 1..Len(s.queue)
      BY <2>3
    <3>2. CASE j \in 1..Len(s.queue)
      BY <1>3, <2>3, <3>1, <3>2 DEF Increasing
    <3>3. CASE j \notin 1..Len(s.queue)
      BY <2>3, <2>4, <3>1, <3>3 DEF t
    <3>. QED  BY <3>2, <3>3
  <2>. QED  BY <2>2, <2>4, <2>5 DEF ShardOk, r, t
<1>6. CASE ~ (call[1] = "Packet" /\ ~ s.closed)
  <2>1. r \in {s, [s EXCEPT !.updated = NextAllowedInStream(t)], [s EXCEPT !.updated = t],
               [s EXCEPT !.updated = Done, !.closed = TRUE]}
    BY <1>1, <1>6 DEF ShardCall, t
  <2>. HIDE DEF r
  <2>2. r \in Shards /\ r.queue = s.queue
    BY <1>1, <1>2, <1>3, <2>1 DEF Shards
  <2>. QED  BY <1>3, <1>4, <2>2 DEF ShardOk, r, t
<1>. QED  BY <1>5, <1>6

\* What the calls of one Process leave in an empty shard.
LEMMA ShardFold ==
    ASSUME NEW b \in Seq(ShardCalls), NEW lo \in Timestamps, NEW base \in Shards, base.queue = <<>>,
           \A i \in 1..Len(b) : b[i][2] >= lo,
           \A i \in 1..(Len(b) - 1) : b[i][2] < b[i + 1][2]
    PROVE  ShardOk(FoldLeft(ShardCall, base, b), lo)
<1>1. Len(b) \in Nat /\ DOMAIN b = 1..Len(b)
  OBVIOUS
<1>2. PICK F : IsFold(F, base, b) /\ FoldLeft(ShardCall, base, b) = F[1..Len(b)]
  BY <1>1, FoldDef
<1>3. \A i \in 1..Len(b) : b[i] \in ShardCalls /\ b[i][2] \in Int
  BY TimestampsInt DEF ShardCalls
<1>. DEFINE P == {n \in Nat : n <= Len(b) =>
                    /\ ShardOk(F[1..n], lo)
                    /\ n = 0 => F[1..n].queue = <<>>
                    /\ n # 0 => \A i \in 1..Len(F[1..n].queue) : F[1..n].queue[i] <= b[n][2]}
<1>4. 0 \in P
  <2>1. 1..0 = {} /\ F[{}] = base
    BY <1>2 DEF IsFold
  <2>2. ShardOk(base, lo)
    BY DEF ShardOk, Increasing
  <2>. QED  BY <2>1, <2>2
<1>5. ASSUME NEW n \in Nat, n \in P PROVE n + 1 \in P
  <2>. SUFFICES ASSUME n + 1 <= Len(b)
                PROVE  /\ ShardOk(F[1..(n + 1)], lo)
                       /\ \A i \in 1..Len(F[1..(n + 1)].queue) : F[1..(n + 1)].queue[i] <= b[n + 1][2]
    OBVIOUS
  <2>. DEFINE s == F[1..n]
              call == b[n + 1]
  <2>1. /\ ShardOk(s, lo) /\ (n = 0 => s.queue = <<>>)
        /\ n # 0 => \A i \in 1..Len(s.queue) : s.queue[i] <= b[n][2]
    BY <1>1, <1>5
  <2>2. Max(1..(n + 1)) = n + 1
    <3>. DEFINE m == n + 1
                D == 1..m
    <3>1. m \in Nat /\ D \in SUBSET (1..m) /\ m \in D
      OBVIOUS
    <3>2. Max(D) \in D /\ \A y \in D : y <= Max(D)
      <4>. HIDE DEF m
      <4>. QED  BY <3>1, MaxIn
    <3>3. m <= Max(D) /\ Max(D) <= m /\ Max(D) \in Int
      BY <3>1, <3>2
    <3>. QED  BY <3>1, <3>3
  <2>3. F[1..(n + 1)] = ShardCall(s, call)
    <3>1. (1..(n + 1)) \in SUBSET DOMAIN b /\ 1..(n + 1) # {} /\ (1..(n + 1)) \ {n + 1} = 1..n
      <4>1. \A i \in 1..(n + 1) : i \in 1..Len(b)
        BY <1>1
      <4>2. n + 1 \in 1..(n + 1)
        OBVIOUS
      <4>3. \A i : i \in (1..(n + 1)) \ {n + 1} <=> i \in 1..n
        OBVIOUS
      <4>. QED  BY <1>1, <4>1, <4>2, <4>3
    <3>2. F[1..(n + 1)] = ShardCall(F[(1..(n + 1)) \ {Max(1..(n + 1))}], b[Max(1..(n + 1))])
      BY <1>2, <3>1 DEF IsFold
    <3>. QED  BY <2>2, <3>1, <3>2
  <2>4. call \in ShardCalls /\ lo <= call[2]
    BY <1>1, <1>3, TimestampsInt
  <2>5. \A i \in 1..Len(s.queue) : s.queue[i] < call[2]
    <3>1. CASE n = 0
      BY <2>1, <3>1
    <3>2. CASE n # 0
      <4>1. b[n][2] < b[n + 1][2] /\ b[n][2] \in Int /\ b[n + 1][2] \in Int
        BY <1>1, <1>3, <3>2
      <4>2. \A i \in 1..Len(s.queue) : s.queue[i] \in Int /\ s.queue[i] <= b[n][2]
        BY <2>1, <3>2, TimestampsInt DEF ShardOk, Shards
      <4>. HIDE DEF s
      <4>. QED  BY <4>1, <4>2
    <3>. QED  BY <3>1, <3>2
  <2>. HIDE DEF s, call
  <2>6. /\ ShardOk(ShardCall(s, call), lo)
        /\ \A i \in 1..Len(ShardCall(s, call).queue) : ShardCall(s, call).queue[i] <= call[2]
    BY <2>1, <2>4, <2>5, ShardCallOk
  <2>. QED  BY <2>3, <2>6 DEF call
<1>6. Nat \subseteq P
  <2>. HIDE DEF P
  <2>. QED  BY <1>4, <1>5, NatSet
<1>. QED  BY <1>1, <1>2, <1>6

\* The bound of a producer after shard s.
LEMMA NextBound ==
    ASSUME NEW p \in Producers, out[p].bound \in Timestamps, NEW s, ShardOk(s, out[p].bound),
           NEW t \in Int, t >= MinTime
    PROVE  LET next == ComputeOutputTimestampBound(p, s, t)
           IN  /\ next \in Timestamps /\ next >= out[p].bound
               /\ \A i \in 1..Len(s.queue) : s.queue[i] < next
<1>. DEFINE fromInput == IF Offset[p] = NoOffset THEN Unset
                         ELSE IF Offset[p] > 0 THEN Plus(t, Offset[p])
                         ELSE NextAllowedInStream(t)
            fromPackets == IF s.queue = <<>> THEN Unset
                           ELSE NextAllowedInStream(LastAddedPacketTimestamp(s))
            next == ComputeOutputTimestampBound(p, s, t)
<1>1. fromInput \in Timestamps
  <2>1. Offset[p] # NoOffset => Offset[p] \in Int
    BY StreamsAssumption
  <2>2. Offset[p] # NoOffset /\ Offset[p] > 0 => Plus(t, Offset[p]) \in Timestamps
    BY <2>1, PlusType
  <2>3. NextAllowedInStream(t) \in Timestamps
    BY TimestampAssumption DEF NextAllowedInStream, Timestamps, MinTime, PostStream, OneOverPostStream
  <2>. QED  BY <2>2, <2>3, NamedTimestamps
<1>2. s.queue \in Seq(Timestamps) /\ s.updated \in Timestamps /\ Len(s.queue) \in Nat
  BY DEF ShardOk, Shards
<1>3. /\ fromPackets \in Timestamps
      /\ \A i \in 1..Len(s.queue) : s.queue[i] < fromPackets
  <2>1. CASE s.queue = <<>>
    BY <2>1, NamedTimestamps
  <2>2. CASE s.queue # <<>>
    <3>. DEFINE last == s.queue[Len(s.queue)]
    <3>1. Len(s.queue) > 0 /\ last \in Timestamps /\ IsAllowedInStream(last)
      BY <1>2, <2>2, EmptySeq DEF ShardOk
    <3>2. NextAllowedInStream(last) \in Timestamps /\ NextAllowedInStream(last) > last
      BY <3>1, NextStep
    <3>3. fromPackets = NextAllowedInStream(last)
      BY <2>2 DEF LastAddedPacketTimestamp
    <3>4. ASSUME NEW i \in 1..Len(s.queue) PROVE s.queue[i] <= last /\ s.queue[i] \in Timestamps
      <4>1. s.queue[i] \in Timestamps /\ s.queue[i] \in Int
        BY <1>2, TimestampsInt
      <4>2. CASE i = Len(s.queue)
        BY <4>1, <4>2
      <4>3. CASE i # Len(s.queue)
        <5>1. i < Len(s.queue) /\ Len(s.queue) \in 1..Len(s.queue)
          BY <1>2, <3>1, <4>3
        <5>2. s.queue[i] < last
          BY <5>1 DEF ShardOk, Increasing
        <5>. QED  BY SMTT(40), <3>1, <4>1, <5>2, TimestampsInt
      <4>. QED  BY <4>2, <4>3
    <3>. HIDE DEF fromPackets, last
    <3>. QED  BY <3>1, <3>2, <3>3, <3>4, TimestampsInt
  <2>. QED  BY <2>1, <2>2
<1>4. next = Later(Later(out[p].bound, fromInput), Later(fromPackets, s.updated))
  BY DEF ComputeOutputTimestampBound
<1>. HIDE DEF fromInput, fromPackets, next
<1>5. next \in Timestamps /\ next >= out[p].bound /\ next >= fromPackets
  BY <1>1, <1>2, <1>3, <1>4, TimestampsInt DEF Later
<1>6. \A i \in 1..Len(s.queue) : s.queue[i] < next
  BY SMTT(40), <1>2, <1>3, <1>5, TimestampsInt
<1>. QED  BY <1>5, <1>6 DEF next

-----------------------------------------------------------------------------
(* Readiness.                                                              *)

Readings == [empty : BOOLEAN, ts : Timestamps]

\* SyncSet::GetReadiness answers for a timestamp before every bound and not
\* after any packet, or tells that every stream is at its end.
LEMMA GetReadinessOk ==
    ASSUME NEW v \in Seq(Readings), v # <<>>,
           \A i \in 1..Len(v) : ~ v[i].empty => IsAllowedInStream(v[i].ts)
    PROVE  LET r == GetReadiness(v)
           IN  /\ r.ts \in Timestamps /\ r.ready \in {"Process", "Close", "NotReady"}
               /\ r.ready = "Process" =>
                     /\ IsAllowedInStream(r.ts)
                     /\ \A i \in 1..Len(v) : /\ r.ts <= v[i].ts
                                             /\ v[i].empty => r.ts < v[i].ts
               /\ r.ready = "Close" => \A i \in 1..Len(v) : v[i].empty /\ v[i].ts >= OneOverPostStream
<1>. DEFINE B == {v[i].ts : i \in {j \in 1..Len(v) : v[j].empty}}
            K == {v[i].ts : i \in {j \in 1..Len(v) : ~ v[j].empty}}
            min == Earlier(MinOf(B), MinOf(K))
            r == GetReadiness(v)
<1>1. /\ r.ts = min
      /\ r.ready = IF min >= OneOverPostStream THEN "Close"
                   ELSE IF B = {} \/ MinOf(B) > MinOf(K) THEN "Process" ELSE "NotReady"
  BY DEF GetReadiness
<1>2. \A i \in 1..Len(v) : v[i] \in Readings /\ v[i].ts \in Timestamps /\ v[i].empty \in BOOLEAN
  <2>1. \A i \in 1..Len(v) : v[i] \in Readings
    OBVIOUS
  <2>. QED  BY <2>1 DEF Readings
<1>3. B \in SUBSET Timestamps /\ K \in SUBSET Timestamps
  BY <1>2
<1>4. /\ \A i \in 1..Len(v) : v[i].empty => v[i].ts \in B
      /\ \A i \in 1..Len(v) : ~ v[i].empty => v[i].ts \in K
      /\ \A t \in K : IsAllowedInStream(t)
      /\ B = {} => K # {}
  <2>1. 1 \in 1..Len(v)
    BY EmptySeq
  <2>. QED  BY <2>1
<1>. HIDE DEF B, K, min, r
<1>5. /\ MinOf(B) \in Timestamps /\ MinOf(K) \in Timestamps
      /\ \A u \in B : MinOf(B) <= u
      /\ \A u \in K : MinOf(K) <= u
      /\ B = {} => MinOf(B) = Done
      /\ K # {} => MinOf(K) \in K
      /\ K = {} => MinOf(K) = Done
  BY <1>3, MinOfFacts
<1>6. min \in Timestamps /\ min <= MinOf(B) /\ min <= MinOf(K) /\ (min = MinOf(B) \/ min = MinOf(K))
  BY <1>5, TimestampsInt DEF min, Earlier
<1>7. ASSUME r.ready = "Process"
      PROVE  /\ IsAllowedInStream(min)
             /\ \A i \in 1..Len(v) : min <= v[i].ts /\ (v[i].empty => min < v[i].ts)
  <2>1. min < OneOverPostStream /\ (B = {} \/ MinOf(B) > MinOf(K))
    BY <1>1, <1>6, <1>7, TimestampsInt
  <2>2. MinOf(K) < OneOverPostStream /\ min = MinOf(K)
    BY <1>5, <1>6, <2>1, TimestampsInt
  <2>3. K # {} /\ IsAllowedInStream(min)
    BY <1>4, <1>5, <2>2, TimestampsInt
  <2>4. ASSUME NEW i \in 1..Len(v), v[i].empty PROVE min < v[i].ts
    <3>1. v[i].ts \in B /\ B # {}
      BY <1>4, <2>4
    <3>2. MinOf(B) <= v[i].ts /\ MinOf(B) > min
      BY <1>5, <2>1, <2>2, <3>1
    <3>. QED  BY <1>2, <1>5, <1>6, <3>2, TimestampsInt
  <2>5. ASSUME NEW i \in 1..Len(v), ~ v[i].empty PROVE min <= v[i].ts
    BY <1>4, <1>5, <2>2, <2>5
  <2>. QED  BY <1>2, <1>6, <2>3, <2>4, <2>5, TimestampsInt
<1>8. ASSUME r.ready = "Close", NEW i \in 1..Len(v)
      PROVE  v[i].empty /\ v[i].ts >= OneOverPostStream
  <2>1. min >= OneOverPostStream
    BY <1>1, <1>8
  <2>2. v[i].ts >= min
    BY <1>2, <1>4, <1>5, <1>6, TimestampsInt
  <2>3. v[i].ts >= OneOverPostStream
    BY <1>2, <1>6, <2>1, <2>2, TimestampsInt
  <2>. QED  BY <1>2, <2>3, TimestampsInt
<1>. QED  BY <1>1, <1>6, <1>7, <1>8 DEF r

\* The other two handlers.
LEMMA OtherReadinessOk ==
    ASSUME NEW v \in Seq(Readings), v # <<>>, NEW r, r = ImmediateReadiness(v) \/ r = FixedSizeReadiness(v)
    PROVE  /\ r.ts \in Timestamps /\ r.ready \in {"Process", "NotReady"}
           /\ r.ready = "Process" /\ Len(v) = 1 => ~ v[1].empty /\ r.ts = v[1].ts
<1>. DEFINE T == {v[i].ts : i \in 1..Len(v)}
<1>1. \A i \in 1..Len(v) : v[i] \in Readings /\ v[i].ts \in Timestamps /\ v[i].empty \in BOOLEAN
  <2>1. \A i \in 1..Len(v) : v[i] \in Readings
    OBVIOUS
  <2>. QED  BY <2>1 DEF Readings
<1>2. T \in SUBSET Timestamps
  BY <1>1
<1>3. r.ts = MinOf(T)
  BY DEF ImmediateReadiness, FixedSizeReadiness
<1>4. /\ r.ready \in {"Process", "NotReady"}
      /\ r.ready = "Process" /\ Len(v) = 1 => ~ v[1].empty
  BY DEF ImmediateReadiness, FixedSizeReadiness
<1>5. Len(v) = 1 => T = {v[1].ts}
  OBVIOUS
<1>. HIDE DEF T
<1>6. MinOf(T) \in Timestamps /\ (T # {} => MinOf(T) \in T)
  BY <1>2, MinOfFacts
<1>. QED  BY <1>3, <1>4, <1>5, <1>6

-----------------------------------------------------------------------------
(* What a step leaves alone.                                               *)

LEMMA GraphKept ==
    ASSUME graph' = graph
    PROVE  /\ Edges' = Edges /\ Operations' = Operations
           /\ \A c : PortEdges(c)' = PortEdges(c)
           /\ \A p : MirrorsOf(p)' = MirrorsOf(p)
           /\ \A e : /\ ConsumerOf(e)' = ConsumerOf(e) /\ ProducerOf(e)' = ProducerOf(e)
                     /\ PolicyOf(e)' = PolicyOf(e) /\ DropsNothing(e)' = DropsNothing(e)
<1>1. Edges' = Edges
  BY DEF Edges
<1>2. Operations' = Operations
  BY <1>1 DEF Operations
<1>3. \A c : PortEdges(c)' = PortEdges(c)
  BY DEF PortEdges
<1>4. \A p : MirrorsOf(p)' = MirrorsOf(p)
  BY DEF MirrorsOf
<1>5. ASSUME NEW e PROVE ConsumerOf(e)' = ConsumerOf(e) /\ ProducerOf(e)' = ProducerOf(e)
  BY <1>3 DEF ConsumerOf, ProducerOf
<1>6. ASSUME NEW e PROVE PolicyOf(e)' = PolicyOf(e) /\ DropsNothing(e)' = DropsNothing(e)
  BY <1>5 DEF PolicyOf, DropsNothing
<1>. QED  BY <1>1, <1>2, <1>3, <1>4, <1>5, <1>6

LEMMA ProducerFrame ==
    ASSUME graph' = graph, NEW p, ProducerInv(p), agenda'[p] = agenda[p], out'[p] = out[p]
    PROVE  ProducerInv(p)'
<1>1. ASSUME NEW op \in OpsOf(agenda[p]) PROVE ProducerOp(p, op)'
  <2>1. ProducerOp(p, op)
    BY DEF ProducerInv
  <2>. QED  BY <2>1, GraphKept DEF ProducerOp
<1>. QED  BY <1>1 DEF ProducerInv

\* A reader in the middle of its ports.
LEMMA ViewedPorts ==
    ASSUME graph \in Graphs, NEW c, ConsumerInv(c), ViewOk(c), Len(view[c]) \in Nat, NEW S, agenda[c] \in Seq(S)
    PROVE  /\ c \in DOMAIN graph.ports /\ c \in graph.driven
           /\ Len(view[c]) < Len(graph.ports[c])
           /\ \A i \in 1..Len(view[c]) : graph.ports[c][i] \in PortEdges(c)
<1>. DEFINE op == agenda[c][Len(agenda[c])]
<1>1. op \in OpsOf(agenda[c]) /\ op[1] = "Read"
  <2>1. Len(agenda[c]) \in Nat /\ Len(agenda[c]) > 0 /\ op[1] = "Read"
    BY EmptySeq DEF ViewOk
  <2>. QED  BY <2>1 DEF OpsOf
<1>2. /\ c \in DOMAIN graph.ports /\ c \in graph.driven
      /\ Len(view[c]) + 1 \in 1..Len(graph.ports[c])
  BY <1>1 DEF ConsumerInv, ConsumerOp
<1>3. Len(graph.ports[c]) \in Nat /\ \A i \in 1..Len(graph.ports[c]) : graph.ports[c][i] \in PortEdges(c)
  BY <1>2, GraphFacts
<1>4. Len(view[c]) < Len(graph.ports[c])
  BY <1>2, <1>3
<1>. QED  BY <1>2, <1>3, <1>4

\* The reader of some managers is not disturbed by what keeps their readings.
ReaderKept(policy, n, old, new) ==
    /\ \A t \in Timestamps : PopOk(policy, n, old, t) => PopOk(policy, n, new, t)
    /\ \A x \in Readings : policy = "default" /\ ReadingOk(old, x) => ReadingOk(new, x)

LEMMA ConsumerFrame ==
    ASSUME graph' = graph, graph \in Graphs, NEW c, ConsumerInv(c), agenda'[c] = agenda[c], view'[c] = view[c],
           view[c] \in Seq(Readings), NEW S, agenda[c] \in Seq(S),
           c \in stopped => c \in stopped',
           c \in DOMAIN graph.ports => \A e \in PortEdges(c) :
              ReaderKept(graph.policy[c], Len(graph.ports[c]), in[e], in'[e])
    PROVE  ConsumerInv(c)'
<1>1. ASSUME NEW op \in OpsOf(agenda[c]) PROVE ConsumerOp(c, op)'
  <2>1. ConsumerOp(c, op)
    BY DEF ConsumerInv
  <2>2. c \in DOMAIN graph.ports
    BY <2>1 DEF ConsumerOp
  <2>3. op[1] # "NotFull" => graph.ports[c][op[2]] \in PortEdges(c)
    BY <2>1, <2>2, GraphFacts DEF ConsumerOp
  <2>. QED  BY <2>1, <2>2, <2>3, GraphKept DEF ConsumerOp, ReaderKept
<1>2. ASSUME view[c] # <<>> PROVE ViewOk(c)'
  <2>1. ViewOk(c)
    BY <1>2 DEF ConsumerInv
  <2>2. c \in DOMAIN graph.ports /\ \A i \in 1..Len(view[c]) : graph.ports[c][i] \in PortEdges(c)
    <3>1. Len(view[c]) \in Nat
      OBVIOUS
    <3>. QED  BY <2>1, <3>1, ViewedPorts
  <2>3. \A i \in 1..Len(view[c]) : view[c][i] \in Readings
    OBVIOUS
  <2>. QED  BY <2>1, <2>2, <2>3 DEF ViewOk, ReaderKept
<1>. QED  BY <1>1, <1>2 DEF ConsumerInv

\* Edge e is disturbed by its producer's step or by its consumer's.
LEMMA EdgeFrame ==
    ASSUME graph' = graph, NEW e, EdgeInv(e), in'[e] = in[e], stopped \subseteq stopped',
           agenda'[ProducerOf(e)] = agenda[ProducerOf(e)], out'[ProducerOf(e)] = out[ProducerOf(e)]
    PROVE  EdgeInv(e)'
BY GraphKept DEF EdgeInv

LEMMA StoppedFrame ==
    ASSUME graph' = graph, NEW c, StoppedInv(c),
           \A e \in PortEdges(c) : /\ in[e].queue = <<>> => in'[e].queue = <<>>
                                   /\ agenda'[ProducerOf(e)] = agenda[ProducerOf(e)]
                                   /\ out'[ProducerOf(e)] = out[ProducerOf(e)]
    PROVE  StoppedInv(c)'
BY GraphKept DEF StoppedInv

-----------------------------------------------------------------------------
(* Agendas.                                                                *)

\* Agenda b is agenda a with its first operation replaced by ops.
Replaced(a, ops, b) ==
    /\ Len(a) \in Nat /\ Len(a) > 0 /\ Len(ops) \in Nat /\ Len(b) \in Nat
    /\ Len(b) = Len(ops) + (Len(a) - 1)
    /\ a[1] = Head(a) /\ a[1] \in OpsOf(a)
    /\ \A i \in 1..Len(ops) : ops[i] \in OpsOf(b)
    /\ \A i \in 2..Len(a) : /\ Len(ops) + (i - 1) \in 1..Len(b) /\ b[Len(ops) + (i - 1)] = a[i]
                            /\ a[i] \in OpsOf(b)
    /\ \A i \in 1..Len(b) : /\ i <= Len(ops) => b[i] = ops[i] /\ b[i] \in OpsOf(ops)
                            /\ i > Len(ops) => /\ i - Len(ops) + 1 \in 2..Len(a)
                                               /\ b[i] = a[i - Len(ops) + 1]
    /\ \A op \in OpsOf(b) : op \in OpsOf(ops) \/ op \in OpsOf(a)

LEMMA ThenOps ==
    ASSUME NEW S, NEW a \in Seq(S), a # <<>>, NEW ops \in Seq(S), NEW b, b = ops \o Tail(a)
    PROVE  b \in Seq(S) /\ Head(a) \in S /\ Replaced(a, ops, b)
<1>1. Len(a) \in Nat /\ Len(a) > 0 /\ Len(ops) \in Nat /\ Tail(a) \in Seq(S) /\ Len(Tail(a)) = Len(a) - 1
  BY EmptySeq
<1>2. b \in Seq(S) /\ Len(b) = Len(ops) + (Len(a) - 1)
  BY <1>1
<1>3. \A i \in 1..Len(ops) : i \in 1..Len(b) /\ b[i] = ops[i]
  BY <1>1, <1>2
<1>4. \A j \in 1..Len(Tail(a)) : Tail(a)[j] = a[j + 1]
  BY <1>1
<1>5. ASSUME NEW i \in 1..Len(b), i > Len(ops)
      PROVE  i - Len(ops) + 1 \in 2..Len(a) /\ b[i] = a[i - Len(ops) + 1]
  <2>1. i - Len(ops) \in 1..Len(Tail(a)) /\ b[i] = Tail(a)[i - Len(ops)]
    BY <1>1, <1>2, <1>5
  <2>. QED  BY <1>1, <1>4, <2>1
<1>6. ASSUME NEW i \in 2..Len(a)
      PROVE  Len(ops) + (i - 1) \in 1..Len(b) /\ b[Len(ops) + (i - 1)] = a[i]
  <2>1. Len(ops) + (i - 1) \in 1..Len(b) /\ Len(ops) + (i - 1) > Len(ops)
        /\ (Len(ops) + (i - 1)) - Len(ops) + 1 = i
    BY <1>1, <1>2
  <2>. QED  BY <1>5, <2>1
<1>7. a[1] = Head(a) /\ Head(a) \in OpsOf(a) /\ Head(a) \in S
  BY <1>1 DEF OpsOf
<1>8. ASSUME NEW op \in OpsOf(b) PROVE op \in OpsOf(ops) \/ op \in OpsOf(a)
  <2>1. PICK i \in 1..Len(b) : op = b[i]
    BY DEF OpsOf
  <2>2. CASE i <= Len(ops)
    BY <1>1, <1>2, <1>3, <2>1, <2>2 DEF OpsOf
  <2>3. CASE i > Len(ops)
    <3>1. i - Len(ops) + 1 \in 1..Len(a) /\ op = a[i - Len(ops) + 1]
      BY <1>1, <1>5, <2>1, <2>3
    <3>. QED  BY <3>1 DEF OpsOf
  <2>. QED  BY <1>1, <1>2, <2>2, <2>3
<1>9. \A i \in 1..Len(ops) : ops[i] \in OpsOf(b)
  BY <1>3 DEF OpsOf
<1>10. ASSUME NEW i \in 1..Len(b), i <= Len(ops) PROVE b[i] = ops[i] /\ b[i] \in OpsOf(ops)
  <2>1. i \in 1..Len(ops)
    BY <1>1, <1>2, <1>10
  <2>. QED  BY <1>3, <2>1 DEF OpsOf
<1>11. \A i \in 2..Len(a) : a[i] \in OpsOf(b)
  <2>1. ASSUME NEW i \in 2..Len(a) PROVE \E j \in 1..Len(b) : a[i] = b[j]
    BY <1>6
  <2>. QED  BY <2>1 DEF OpsOf
<1>12. Len(b) \in Nat
  BY <1>2
<1>. QED  BY <1>1, <1>2, <1>5, <1>6, <1>7, <1>8, <1>9, <1>10, <1>11, <1>12 DEF Replaced

\* The packets for e on the way, when the first operation does not bring any.
LEMMA OnWayKept ==
    ASSUME NEW a, NEW ops, NEW b, Replaced(a, ops, b), NEW e,
           \A i \in 1..Len(a) : a[i][1] = "Update" /\ a[i][2] = e => a[i][3] \in Seq(Timestamps),
           PacketsFirst(a),
           a[1][1] = "Update" /\ a[1][2] = e => a[1][3] = <<>>,
           \A i \in 1..Len(ops) : ops[i][1] = "Update" /\ ops[i][2] = e => ops[i][3] = <<>>
    PROVE  OnWay(b, e) = OnWay(a, e)
<1>1. PICK k, ts : Carries(a, e, k, ts)
  <2>1. Len(a) \in Nat
    BY DEF Replaced
  <2>. QED  BY <2>1, CarriesSome DEF PacketsFirst
<1>. DEFINE n == Len(ops)
            j == IF k <= 1 THEN 0 ELSE n + (k - 1)
<1>2. /\ Len(a) \in Nat /\ Len(a) > 0 /\ n \in Nat /\ Len(b) = n + (Len(a) - 1) /\ Len(b) \in Nat
      /\ \A i \in 1..Len(b) : i <= n => b[i] = ops[i]
      /\ \A i \in 2..Len(a) : n + (i - 1) \in 1..Len(b) /\ b[n + (i - 1)] = a[i]
      /\ \A i \in 1..Len(b) : i > n => i - n + 1 \in 2..Len(a) /\ b[i] = a[i - n + 1]
  BY DEF Replaced
<1>. HIDE DEF n
<1>3. k \in 0..Len(a) /\ k \in Nat /\ ts \in Seq(Timestamps)
  BY <1>1, <1>2 DEF Carries
<1>4. k <= 1 => ts = <<>>
  BY <1>1, <1>2, <1>3 DEF Carries
<1>5. k > 1 => j \in 1..Len(b) /\ b[j] = a[k]
  BY <1>2, <1>3
<1>6. ASSUME NEW i \in 1..Len(b), i # j, b[i][1] = "Update", b[i][2] = e PROVE b[i][3] = <<>>
  <2>1. CASE i <= n
    <3>1. b[i] = ops[i] /\ i \in 1..Len(ops)
      BY <1>2, <2>1 DEF n
    <3>. QED  BY <1>6, <3>1
  <2>2. CASE i > n
    <3>1. i - n + 1 \in 2..Len(a) /\ b[i] = a[i - n + 1]
      BY <1>2, <2>2
    <3>2. i - n + 1 # k
      BY <1>2, <1>3, <1>6, <2>2
    <3>. QED  BY <1>1, <1>2, <1>6, <3>1, <3>2 DEF Carries
  <2>. QED  BY <1>2, <2>1, <2>2
<1>7. Carries(b, e, j, ts)
  <2>1. CASE k <= 1
    BY <1>2, <1>3, <1>4, <1>6, <2>1 DEF Carries
  <2>2. CASE k > 1
    <3>. HIDE DEF j
    <3>1. j # 0 /\ j \in 0..Len(b) /\ b[j] = a[k] /\ k # 0
      BY <1>2, <1>3, <1>5, <2>2
    <3>. QED  BY <1>1, <1>3, <1>6, <3>1 DEF Carries
  <2>. QED  BY <1>3, <2>1, <2>2
<1>8. Len(b) \in Nat
  BY <1>2
<1>. HIDE DEF j
<1>9. OnWay(a, e) = ts
  BY <1>1, <1>2, CarriesIs
<1>10. OnWay(b, e) = ts
  BY <1>7, <1>8, CarriesIs
<1>. QED  BY <1>9, <1>10

LEMMA ToMirrorsOps ==
    ASSUME graph \in Graphs, NEW p \in DOMAIN graph.mirrors, NEW ts \in Seq(Timestamps), NEW b \in Timestamps
    PROVE  /\ ToMirrors(p, ts, b) \in Seq(Operations)
           /\ Len(ToMirrors(p, ts, b)) \in {0, Len(graph.mirrors[p])}
           /\ ts # <<>> => Len(ToMirrors(p, ts, b)) = Len(graph.mirrors[p])
           /\ \A i \in 1..Len(ToMirrors(p, ts, b)) :
                 ToMirrors(p, ts, b)[i] = <<"Update", graph.mirrors[p][i], ts, b>>
<1>. DEFINE M == graph.mirrors[p]
            U == [i \in 1..Len(M) |-> <<"Update", M[i], ts, b>>]
<1>1. M \in Seq(Edges) /\ Len(M) \in Nat
  BY GraphFacts
<1>2. ASSUME NEW i \in 1..Len(M) PROVE <<"Update", M[i], ts, b>> \in Operations
  <2>1. M[i] \in Edges
    BY <1>1
  <2>. HIDE DEF M
  <2>. QED  BY <2>1 DEF Operations
<1>3. U \in [1..Len(M) -> Operations]
  BY <1>2
<1>4. U \in Seq(Operations) /\ Len(U) = Len(M)
  <2>. HIDE DEF U, M
  <2>. QED  BY <1>1, <1>3
<1>5. \A i \in 1..Len(M) : U[i] = <<"Update", M[i], ts, b>>
  OBVIOUS
<1>6. ToMirrors(p, ts, b) = IF ts # <<>> \/ b # Unset THEN U ELSE <<>>
  BY DEF ToMirrors, If
<1>. HIDE DEF U
<1>7. CASE ts # <<>> \/ b # Unset
  BY <1>4, <1>5, <1>6, <1>7
<1>8. CASE ~ (ts # <<>> \/ b # Unset)
  BY <1>6, <1>8
<1>. QED  BY <1>7, <1>8

\* What an idle producer puts on its agenda: the packets and the bound for
\* each mirror and then, if it closes the stream, Done for each.
Sending(p, ts, b, done, a) ==
    /\ a \in Seq(Operations)
    /\ \A op \in OpsOf(a) : /\ op[1] = "Update" /\ op[2] \in MirrorsOf(p) /\ op[3] \in {ts, <<>>}
                            /\ op[4] = b \/ (op[4] = Done /\ done # <<>>)
    /\ PacketsFirst(a)
    /\ \A e \in MirrorsOf(p) : OnWay(a, e) = ts

LEMMA SendOps ==
    ASSUME graph \in Graphs, NEW p \in DOMAIN graph.mirrors, NEW ts \in Seq(Timestamps), NEW b \in Timestamps,
           NEW done, done \in {<<>>, ToMirrors(p, <<>>, Done)},
           NEW a, a = ToMirrors(p, ts, b) \o done
    PROVE  Sending(p, ts, b, done, a)
<1>. DEFINE M == graph.mirrors[p]
            U == ToMirrors(p, ts, b)
<1>0. <<>> \in Seq(Timestamps) /\ Done \in Timestamps /\ Len(M) \in Nat
  BY NamedTimestamps, GraphFacts
<1>1. /\ U \in Seq(Operations) /\ Len(U) \in Nat /\ Len(U) <= Len(M)
      /\ ts # <<>> => Len(U) = Len(M)
      /\ \A i \in 1..Len(U) : U[i] = <<"Update", M[i], ts, b>>
  BY <1>0, ToMirrorsOps
<1>2. /\ done \in Seq(Operations) /\ Len(done) \in Nat /\ Len(done) <= Len(M)
      /\ \A i \in 1..Len(done) : done[i] = <<"Update", M[i], <<>>, Done>>
  <2>1. CASE done = <<>>
    BY <1>0, <2>1
  <2>2. CASE done = ToMirrors(p, <<>>, Done)
    <3>. DEFINE D == ToMirrors(p, <<>>, Done)
    <3>1. /\ D \in Seq(Operations) /\ Len(D) \in {0, Len(M)}
          /\ \A i \in 1..Len(D) : D[i] = <<"Update", M[i], <<>>, Done>>
      BY <1>0, ToMirrorsOps
    <3>. HIDE DEF D
    <3>2. done = D
      BY <2>2 DEF D
    <3>. QED  BY <1>0, <3>1, <3>2
  <2>. QED  BY <2>1, <2>2
<1>. HIDE DEF U, M
<1>2a. /\ \A i \in 1..Len(M) : M[i] \in MirrorsOf(p)
       /\ \A i, j \in 1..Len(M) : M[i] = M[j] => i = j
       /\ \A e \in MirrorsOf(p) : \E i \in 1..Len(M) : e = M[i]
  BY GraphFacts DEF M, MirrorsOf
<1>3. a \in Seq(Operations) /\ Len(a) = Len(U) + Len(done) /\ Len(a) \in Nat
  BY <1>1, <1>2 DEF U
<1>4. \A i \in 1..Len(U) : i \in 1..Len(M) /\ a[i] = <<"Update", M[i], ts, b>>
  <2>1. ASSUME NEW i \in 1..Len(U) PROVE i \in 1..Len(M) /\ a[i] = U[i]
    BY <1>0, <1>1, <1>2 DEF U
  <2>. QED  BY <1>1, <2>1
<1>4a. ASSUME NEW i \in 1..Len(a), i <= Len(U)
       PROVE  i \in 1..Len(U) /\ i \in 1..Len(M) /\ a[i] = <<"Update", M[i], ts, b>> /\ a[i][2] = M[i]
  <2>1. i \in 1..Len(U)
    BY <1>1, <1>3, <1>4a
  <2>2. i \in 1..Len(M) /\ a[i] = <<"Update", M[i], ts, b>>
    BY <1>4, <2>1
  <2>. QED  BY <2>1, <2>2
<1>5. ASSUME NEW i \in 1..Len(a), i > Len(U)
      PROVE  /\ i - Len(U) \in 1..Len(M) /\ a[i] = <<"Update", M[i - Len(U)], <<>>, Done>>
             /\ done # <<>>
  <2>1. i - Len(U) \in 1..Len(done) /\ a[i] = done[i - Len(U)]
    BY <1>1, <1>2, <1>3, <1>5 DEF U
  <2>2. i - Len(U) \in 1..Len(M) /\ done # <<>>
    BY <1>0, <1>2, <2>1
  <2>. QED  BY <1>2, <2>1, <2>2
<1>6. ASSUME NEW op \in OpsOf(a)
      PROVE  /\ op[1] = "Update" /\ op[2] \in MirrorsOf(p) /\ op[3] \in {ts, <<>>}
             /\ op[4] = b \/ (op[4] = Done /\ done # <<>>)
  <2>1. PICK i \in 1..Len(a) : op = a[i]
    BY DEF OpsOf
  <2>2. CASE i <= Len(U)
    <3>1. i \in 1..Len(M) /\ op = <<"Update", M[i], ts, b>>
      BY <1>4a, <2>1, <2>2
    <3>2. M[i] \in MirrorsOf(p)
      BY <3>1, <1>2a
    <3>. QED  BY <3>1, <3>2
  <2>3. CASE i > Len(U)
    <3>1. i - Len(U) \in 1..Len(M) /\ op = <<"Update", M[i - Len(U)], <<>>, Done>> /\ done # <<>>
      BY <1>5, <2>1, <2>3
    <3>2. M[i - Len(U)] \in MirrorsOf(p)
      BY <3>1, <1>2a
    <3>. QED  BY <3>1, <3>2
  <2>. QED  BY <1>1, <1>3, <2>2, <2>3
<1>7. ASSUME NEW m \in 1..Len(a), NEW n \in 1..Len(a), m < n, a[m][2] = a[n][2], a[n][3] # <<>>
      PROVE  FALSE
  <2>1. n <= Len(U)
    <3>1. n > Len(U) => a[n][3] = <<>>
      BY <1>5
    <3>. QED  BY <1>1, <1>3, <1>7, <3>1
  <2>2. m \in 1..Len(U) /\ n \in 1..Len(U)
    BY <1>1, <1>3, <1>7, <2>1
  <2>3. a[m][2] = M[m] /\ a[n][2] = M[n] /\ m \in 1..Len(M) /\ n \in 1..Len(M)
    <3>1. m <= Len(U) /\ n <= Len(U)
      BY <1>1, <2>2
    <3>. QED  BY <1>4a, <3>1
  <2>4. m = n
    BY <1>7, <2>3, <1>2a
  <2>. QED  BY <1>3, <1>7, <2>4
<1>8. PacketsFirst(a)
  BY <1>7 DEF PacketsFirst
<1>9. ASSUME NEW e \in MirrorsOf(p) PROVE OnWay(a, e) = ts
  <2>1. CASE ts = <<>>
    <3>1. \A i \in 1..Len(a) : a[i][3] = <<>>
      BY <1>6, <2>1 DEF OpsOf
    <3>2. Carries(a, e, 0, ts)
      BY <1>3, <2>1, <3>1 DEF Carries
    <3>. QED  BY <1>3, <3>2, CarriesIs
  <2>2. CASE ts # <<>>
    <3>1. PICK k \in 1..Len(M) : e = M[k]
      BY <1>2a
    <3>2. k \in 1..Len(U) /\ k \in 1..Len(a) /\ a[k] = <<"Update", e, ts, b>>
      <4>1. k \in 1..Len(U)
        BY <1>1, <2>2
      <4>2. k \in 1..Len(a)
        BY <1>1, <1>2, <1>3, <4>1
      <4>. QED  BY <1>4, <3>1, <4>1, <4>2
    <3>3. ASSUME NEW i \in 1..Len(a), i # k, a[i][2] = e PROVE a[i][3] = <<>>
      <4>1. CASE i <= Len(U)
        <5>1. i \in 1..Len(M) /\ a[i][2] = M[i]
          BY <1>4a, <4>1
        <5>. QED  BY <3>1, <3>3, <5>1, <1>2a
      <4>2. CASE i > Len(U)
        BY <1>5, <4>2
      <4>. QED  BY <1>1, <1>3, <4>1, <4>2
    <3>4. k # 0 /\ k \in 0..Len(a) /\ a[k][1] = "Update" /\ a[k][2] = e /\ a[k][3] = ts
      BY <1>3, <3>2
    <3>5. Carries(a, e, k, ts)
      BY <3>3, <3>4 DEF Carries
    <3>. QED  BY <1>3, <3>5, CarriesIs
  <2>. QED  BY <2>1, <2>2
<1>. QED  BY <1>3, <1>6, <1>8, <1>9 DEF Sending

-----------------------------------------------------------------------------
(* A producer's step.                                                      *)

LEMMA TypeFacts ==
    ASSUME TypeOK
    PROVE  /\ graph \in Graphs
           /\ \A p \in Producers : /\ agenda[p] \in Seq(Operations) /\ sent[p] \in Seq(Timestamps)
                                   /\ out[p].bound \in Timestamps /\ out[p].bound \in Int
           /\ \A c \in Consumers : /\ agenda[c] \in Seq(Operations) /\ Len(view[c]) \in Nat
                                   /\ view[c] \in Seq(Readings)
           /\ \A e \in Edges : /\ in[e] \in Managers /\ given[e] \in Seq(Timestamps)
                               /\ in[e].queue \in Seq(Timestamps) /\ Len(in[e].queue) \in Nat
                               /\ in[e].bound \in Int /\ in[e].select \in Int
                               /\ ProducerOf(e) \in Producers /\ ConsumerOf(e) \in Consumers
<1>1. graph \in Graphs
  BY DEF TypeOK
<1>2. ASSUME NEW p \in Producers
      PROVE  /\ agenda[p] \in Seq(Operations) /\ sent[p] \in Seq(Timestamps)
             /\ out[p].bound \in Timestamps /\ out[p].bound \in Int
  BY TimestampsInt DEF TypeOK, Threads
<1>3. ASSUME NEW c \in Consumers
      PROVE  agenda[c] \in Seq(Operations) /\ Len(view[c]) \in Nat /\ view[c] \in Seq(Readings)
  <2>1. agenda[c] \in Seq(Operations)
    BY DEF TypeOK, Threads
  <2>2. view[c] \in Seq(Readings)
    BY DEF TypeOK, Readings
  <2>. QED  BY <2>1, <2>2
<1>4. ASSUME NEW e \in Edges
      PROVE  /\ in[e] \in Managers /\ given[e] \in Seq(Timestamps)
             /\ in[e].queue \in Seq(Timestamps) /\ Len(in[e].queue) \in Nat
             /\ in[e].bound \in Int /\ in[e].select \in Int
             /\ ProducerOf(e) \in Producers /\ ConsumerOf(e) \in Consumers
  <2>1. in[e] \in Managers /\ given[e] \in Seq(Timestamps)
    BY DEF TypeOK
  <2>2. /\ in[e].queue \in Seq(Timestamps) /\ Len(in[e].queue) \in Nat
        /\ in[e].bound \in Int /\ in[e].select \in Int
    BY <2>1, TimestampsInt DEF Managers
  <2>3. ProducerOf(e) \in Producers /\ ConsumerOf(e) \in Consumers
    BY <1>1, GraphFacts
  <2>. QED  BY <2>1, <2>2, <2>3
<1>. QED  BY <1>1, <1>2, <1>3, <1>4

\* The consumers that a producer's step does not concern.
LEMMA ProducerDisjoint ==
    ASSUME NEW p \in Producers, NEW c \in Consumers PROVE c # p
BY StreamsAssumption

\* Lossless and FullIsRecorded, edge by edge.
LEMMA LosslessNext ==
    ASSUME graph' = graph,
           \A e \in Edges : DropsNothing(e) =>
              sent'[ProducerOf(e)] = given'[e] \o in'[e].queue \o OnWay(agenda'[ProducerOf(e)], e)
    PROVE  Lossless'
<1>. SUFFICES ASSUME NEW e \in Edges, DropsNothing(e)
              PROVE  sent'[ProducerOf(e)'] = given'[e] \o in'[e].queue \o OnTheWay(e)'
  BY GraphKept DEF Lossless
<1>1. ProducerOf(e)' = ProducerOf(e)
  BY GraphKept
<1>2. OnTheWay(e)' = OnWay(agenda'[ProducerOf(e)], e)
  BY <1>1 DEF OnTheWay, OnWay
<1>. QED  BY <1>1, <1>2

LEMMA RecordedNext ==
    ASSUME graph' = graph,
           \A e \in Edges : /\ ConsumerOf(e) \notin graph.driven /\ IsFull(in'[e])
                            /\ <<"Full", e>> \notin OpsOf(agenda'[ProducerOf(e)])
                            => e \in full'
    PROVE  FullIsRecorded'
<1>. SUFFICES ASSUME NEW e \in Edges',
                     (/\ ConsumerOf(e) \notin graph.driven
                      /\ IsFull(in[e])
                      /\ ~ \E i \in 1..Len(agenda[ProducerOf(e)]) :
                             agenda[ProducerOf(e)][i] = <<"Full", e>>)'
              PROVE  e \in full'
  BY DEF FullIsRecorded
<1>1. e \in Edges /\ ConsumerOf(e)' = ConsumerOf(e) /\ ProducerOf(e)' = ProducerOf(e)
  BY GraphKept
<1>2. <<"Full", e>> \notin OpsOf(agenda'[ProducerOf(e)])
  BY <1>1 DEF OpsOf
<1>3. IsFull(in'[e])
  OBVIOUS
<1>. QED  BY <1>1, <1>2, <1>3

LEMMA RecordedNow ==
    ASSUME StreamsInv, NEW e \in Edges, ConsumerOf(e) \notin graph.driven, IsFull(in[e]),
           <<"Full", e>> \notin OpsOf(agenda[ProducerOf(e)])
    PROVE  e \in full
BY DEF StreamsInv, FullIsRecorded, OpsOf

\* An idle producer sends the packets ts and the bound b1, raises its bound to
\* b2 and may close its stream.
LEMMA Sends ==
    ASSUME StreamsInv, NEW p \in DOMAIN graph.mirrors, agenda[p] = <<>>,
           NEW ts \in Seq(Timestamps), NEW b1 \in Timestamps, NEW b2 \in Timestamps, NEW closed \in BOOLEAN,
           NEW done, done \in {<<>>, ToMirrors(p, <<>>, Done)}, done # <<>> => b2 = Done,
           Increasing(ts), b1 <= b2, out[p].bound <= b2,
           \A i \in 1..Len(ts) : IsAllowedInStream(ts[i]) /\ out[p].bound <= ts[i] /\ ts[i] < b2,
           agenda' = [agenda EXCEPT ![p] = ToMirrors(p, ts, b1) \o done],
           out' = [out EXCEPT ![p] = [bound |-> b2, closed |-> closed]],
           sent' = [sent EXCEPT ![p] = @ \o ts],
           calls' \in [Producers -> Nat], \A q \in Producers : calls'[q] <= MaxInvocations[q],
           UNCHANGED <<graph, in, view, notified, stopped, full, given>>
    PROVE  StreamsInv'
<1>0. TypeOK /\ graph \in Graphs /\ graph' = graph /\ p \in Producers /\ in' = in /\ stopped' = stopped
  BY GraphFacts DEF StreamsInv, TypeOK
<1>1. PICK a : a = ToMirrors(p, ts, b1) \o done
  OBVIOUS
<1>2. /\ a \in Seq(Operations)
      /\ \A op \in OpsOf(a) : /\ op[1] = "Update" /\ op[2] \in MirrorsOf(p) /\ op[3] \in {ts, <<>>}
                              /\ op[4] = b1 \/ (op[4] = Done /\ done # <<>>)
      /\ PacketsFirst(a)
      /\ \A e \in MirrorsOf(p) : OnWay(a, e) = ts
  <2>1. Sending(p, ts, b1, done, a)
    BY <1>0, <1>1, SendOps
  <2>. QED  BY <2>1 DEF Sending
<1>3. /\ agenda' = [agenda EXCEPT ![p] = a] /\ agenda'[p] = a
      /\ \A t \in Threads \ {p} : agenda'[t] = agenda[t]
      /\ out'[p].bound = b2
      /\ \A q \in Producers \ {p} : out'[q] = out[q] /\ sent'[q] = sent[q]
      /\ sent'[p] = sent[p] \o ts
  BY <1>0, <1>1 DEF TypeOK, Threads
<1>4. b1 \in Int /\ b2 \in Int /\ out[p].bound \in Int /\ \A i \in 1..Len(ts) : ts[i] \in Int
  BY <1>0, TypeFacts, TimestampsInt
<1>5. TypeOK'
  <2>1. agenda' \in [Threads -> Seq(Operations')]
    BY <1>0, <1>2, <1>3, GraphKept DEF TypeOK
  <2>2. out' \in [Producers -> [bound : Timestamps, closed : BOOLEAN]]
    BY <1>0 DEF TypeOK
  <2>3. sent' \in [Producers -> Seq(Timestamps)]
    BY <1>0 DEF TypeOK
  <2>. QED  BY <1>0, <2>1, <2>2, <2>3, GraphKept DEF TypeOK
<1>6. ASSUME NEW q \in Producers PROVE ProducerInv(q)'
  <2>0. ProducerInv(q)
    BY DEF StreamsInv
  <2>1. CASE q # p
    BY <1>0, <1>3, <2>0, <2>1, ProducerFrame DEF Threads
  <2>2. CASE q = p
    <3>1. ASSUME NEW op \in OpsOf(a) PROVE ProducerOp(p, op)'
      <4>1. op[1] = "Update" /\ op[2] \in MirrorsOf(p)
        BY <1>2
      <4>2. op[3] \in Seq(Timestamps) /\ Increasing(op[3])
            /\ \A i \in 1..Len(op[3]) : IsAllowedInStream(op[3][i]) /\ op[3][i] < b2
        <5>1. CASE op[3] = ts
          BY <5>1
        <5>2. CASE op[3] = <<>>
          BY <5>2 DEF Increasing
        <5>. QED  BY <1>2, <5>1, <5>2
      <4>3. op[4] \in Timestamps /\ op[4] <= b2
        BY <1>2, <1>4, NamedTimestamps
      <4>4. UpdateKept(b2, op)
        BY <4>2, <4>3 DEF UpdateKept
      <4>. QED  BY <1>0, <1>3, <4>1, <4>4, GraphKept DEF ProducerOp
    <3>. QED  BY <1>2, <1>3, <2>2, <3>1 DEF ProducerInv
  <2>. QED  BY <2>1, <2>2
<1>7. ASSUME NEW c \in Consumers PROVE ConsumerInv(c)'
  <2>1. ConsumerInv(c) /\ agenda'[c] = agenda[c]
    BY <1>0, <1>3, ProducerDisjoint DEF StreamsInv, Threads
  <2>2. view[c] \in Seq(Readings) /\ agenda[c] \in Seq(Operations)
    BY <1>0, TypeFacts
  <2>. QED  BY <1>0, <2>1, <2>2, ConsumerFrame DEF ReaderKept
\* A stream that was told to stop has had its last packet.
<1>8. ASSUME NEW e \in MirrorsOf(p), ConsumerOf(e) \in stopped PROVE ts = <<>>
  <2>1. e \in Edges /\ ProducerOf(e) = p /\ e \in PortEdges(ConsumerOf(e))
    BY <1>0, GraphFacts
  <2>2. out[p].bound >= OneOverPostStream
    BY <1>8, <2>1 DEF StreamsInv, StoppedInv
  <2>3. ts # <<>> => 1 \in 1..Len(ts)
    BY EmptySeq
  <2>. QED  BY <1>4, <2>2, <2>3, TimestampsInt
<1>9. ASSUME NEW e \in Edges PROVE EdgeInv(e)'
  <2>0. EdgeInv(e) /\ ProducerOf(e) \in Producers
    BY <1>0, TypeFacts DEF StreamsInv
  <2>1. CASE ProducerOf(e) # p
    BY <1>0, <1>3, <2>0, <2>1, EdgeFrame DEF Threads
  <2>2. CASE ProducerOf(e) = p
    <3>1. e \in MirrorsOf(p)
      BY <1>0, <2>2, GraphFacts
    <3>2. PICK m : m = in[e]
      OBVIOUS
    <3>3. /\ m.queue \in Seq(Timestamps) /\ m.bound \in Int
          /\ \A j \in 1..Len(m.queue) : m.queue[j] \in Int
      BY <1>0, <3>2, TypeFacts, TimestampsInt
    <3>4. ManagerOk(PolicyOf(e), m, out[p].bound)
      BY <2>0, <2>2, <3>2 DEF EdgeInv
    <3>5. ManagerOk(PolicyOf(e), m, b2)
      <4>1. m.bound <= Later(out[p].bound, PreStream) => m.bound <= Later(b2, PreStream)
        BY <1>4, <3>3, TimestampsInt DEF Later
      <4>2. \A j \in 1..Len(m.queue) : m.queue[j] < b2
        BY <1>4, <3>3, <3>4 DEF ManagerOk
      <4>. QED  BY <3>4, <4>1, <4>2 DEF ManagerOk
    <3>6. m.closed => ConsumerOf(e) \in stopped
      BY <2>0, <3>2 DEF EdgeInv
    <3>7. ASSUME NEW op \in OpsOf(a) PROVE UpdateNews(PolicyOf(e), m, op)
      <4>1. CASE op[3] = <<>>
        BY <4>1 DEF UpdateNews
      <4>2. CASE op[3] # <<>>
        <5>1. op[3] = ts /\ ts # <<>> /\ ~ m.closed
          BY <1>2, <1>8, <3>1, <3>6, <4>2
        <5>2. ASSUME NEW i \in 1..Len(ts), NEW j \in 1..Len(m.queue) PROVE m.queue[j] < ts[i]
          <6>1. m.queue[j] < out[p].bound /\ out[p].bound <= ts[i]
            BY <3>4 DEF ManagerOk
          <6>. QED  BY <1>4, <3>3, <6>1
        <5>3. ASSUME PolicyOf(e) = "default", NEW i \in 1..Len(ts) PROVE ts[i] >= m.bound
          <6>1. m.bound <= Later(out[p].bound, PreStream)
            BY <3>4, <5>1, <5>3 DEF ManagerOk
          <6>2. out[p].bound <= ts[i] /\ PreStream <= ts[i]
            BY TimestampsInt
          <6>. QED  BY <1>4, <3>3, <6>1, <6>2, TimestampsInt DEF Later
        <5>. QED  BY <5>1, <5>2, <5>3 DEF UpdateNews
      <4>. QED  BY <4>1, <4>2
    <3>8. /\ ProducerOf(e)' = p /\ ConsumerOf(e)' = ConsumerOf(e) /\ PolicyOf(e)' = PolicyOf(e)
          /\ in'[e] = m /\ out'[p].bound = b2 /\ agenda'[p] = a /\ stopped' = stopped
      BY <1>0, <1>3, <2>2, <3>2, GraphKept
    <3>. QED  BY <3>5, <3>6, <3>7, <3>8 DEF EdgeInv
  <2>. QED  BY <2>1, <2>2
<1>10. ASSUME NEW c \in stopped PROVE StoppedInv(c)'
  <2>0. StoppedInv(c) /\ c \in DOMAIN graph.ports
    BY <1>0, GraphFacts DEF StreamsInv, TypeOK
  <2>1. ASSUME NEW e \in PortEdges(c)
        PROVE  /\ out'[ProducerOf(e)].bound >= OneOverPostStream
               /\ \A op \in OpsOf(agenda'[ProducerOf(e)]) : op[1] = "Update" /\ op[2] = e => op[3] = <<>>
    <3>0. e \in Edges /\ ConsumerOf(e) = c /\ ProducerOf(e) \in Producers
      BY <1>0, <2>0, GraphFacts
    <3>1. CASE ProducerOf(e) # p
      BY <1>3, <2>0, <3>0, <3>1 DEF StoppedInv, Threads
    <3>2. CASE ProducerOf(e) = p
      <4>1. e \in MirrorsOf(p)
        BY <1>0, <3>0, <3>2, GraphFacts
      <4>2. ts = <<>>
        BY <1>8, <3>0, <4>1
      <4>3. out[p].bound >= OneOverPostStream
        BY <2>0, <3>2 DEF StoppedInv
      <4>4. b2 >= OneOverPostStream
        BY <1>4, <4>3, TimestampsInt
      <4>5. \A op \in OpsOf(a) : op[3] = <<>>
        BY <1>2, <4>2
      <4>. QED  BY <1>3, <3>2, <4>4, <4>5
    <3>. QED  BY <3>1, <3>2
  <2>. QED  BY <1>0, <2>0, <2>1, GraphKept DEF StoppedInv
<1>11. Lossless'
  <2>1. ASSUME NEW e \in Edges, DropsNothing(e)
        PROVE  sent'[ProducerOf(e)] = given'[e] \o in'[e].queue \o OnWay(agenda'[ProducerOf(e)], e)
    <3>1. sent[ProducerOf(e)] = given[e] \o in[e].queue \o OnWay(agenda[ProducerOf(e)], e)
      BY <2>1, OnTheWayIs DEF StreamsInv, Lossless
    <3>2. ProducerOf(e) \in Producers /\ given[e] \in Seq(Timestamps) /\ in[e].queue \in Seq(Timestamps)
      BY <1>0, TypeFacts
    <3>3. CASE ProducerOf(e) # p
      BY <1>3, <3>1, <3>2, <3>3 DEF Threads
    <3>4. CASE ProducerOf(e) = p
      <4>1. OnWay(a, e) = ts
        BY <1>0, <1>2, <3>4, GraphFacts
      <4>2. OnWay(agenda[p], e) = <<>>
        <5>1. Carries(<<>>, e, 0, <<>>) /\ Len(<<>>) = 0
          BY DEF Carries
        <5>. QED  BY <5>1, CarriesIs
      <4>3. given[e] \o in[e].queue \in Seq(Timestamps)
        BY <3>2
      <4>4. sent[p] = given[e] \o in[e].queue
        BY <3>1, <3>4, <4>2, <4>3, ConcatEmptySeq
      <4>5. sent'[p] = (given[e] \o in[e].queue) \o ts
        BY <1>3, <4>4
      <4>. QED  BY <1>0, <1>3, <3>4, <4>1, <4>5
    <3>. QED  BY <3>3, <3>4
  <2>. QED  BY <1>0, <2>1, LosslessNext
<1>12. FullIsRecorded'
  <2>1. ASSUME NEW e \in Edges, ConsumerOf(e) \notin graph.driven, IsFull(in'[e]),
               <<"Full", e>> \notin OpsOf(agenda'[ProducerOf(e)])
        PROVE  e \in full'
    <3>0. ProducerOf(e) \in Producers
      BY <1>0, TypeFacts
    <3>1. <<"Full", e>> \notin OpsOf(agenda[ProducerOf(e)])
      <4>1. CASE ProducerOf(e) # p
        BY <1>3, <2>1, <3>0, <4>1 DEF Threads
      <4>2. CASE ProducerOf(e) = p
        BY <4>2 DEF OpsOf
      <4>. QED  BY <4>1, <4>2
    <3>. QED  BY <1>0, <2>1, <3>1, RecordedNow
  <2>. QED  BY <1>0, <2>1, RecordedNext
<1>. QED  BY <1>0, <1>5, <1>6, <1>7, <1>9, <1>10, <1>11, <1>12, GraphKept DEF StreamsInv

\* The packets of a shard are propagated with a bound past them.
LEMMA Propagates ==
    ASSUME StreamsInv, NEW p \in DOMAIN graph.mirrors, agenda[p] = <<>>, ~ out[p].closed,
           NEW s, ShardOk(s, out[p].bound), NEW t \in Int, t >= MinTime, Propagate(p, s, t),
           calls[p] < MaxInvocations[p], calls' = [calls EXCEPT ![p] = @ + 1],
           UNCHANGED <<graph, in, view, notified, stopped, full, given>>
    PROVE  StreamsInv'
<1>0. TypeOK /\ graph \in Graphs /\ p \in Producers /\ out[p].bound \in Timestamps
  BY GraphFacts DEF StreamsInv, TypeOK
<1>1. PICK next : next = ComputeOutputTimestampBound(p, s, t)
  OBVIOUS
<1>2. next \in Timestamps /\ next >= out[p].bound /\ \A i \in 1..Len(s.queue) : s.queue[i] < next
  BY <1>0, <1>1, NextBound
<1>3. /\ s.queue \in Seq(Timestamps) /\ s.closed \in BOOLEAN /\ Increasing(s.queue)
      /\ \A i \in 1..Len(s.queue) : /\ IsAllowedInStream(s.queue[i]) /\ out[p].bound <= s.queue[i]
                                    /\ s.queue[i] \in Int
  BY TimestampsInt DEF ShardOk, Shards
<1>. DEFINE implied == s.queue # <<>> /\ NextAllowedInStream(LastAddedPacketTimestamp(s)) = next
            b1 == IF implied THEN Unset ELSE next
            b2 == IF s.closed THEN Done ELSE next
            done == IF s.closed THEN ToMirrors(p, <<>>, Done) ELSE <<>>
<1>4. /\ b1 \in Timestamps /\ b2 \in Timestamps /\ b1 <= b2 /\ out[p].bound <= b2
      /\ \A i \in 1..Len(s.queue) : s.queue[i] < b2
  <2>1. Done \in Timestamps /\ Unset \in Timestamps /\ next \in Int /\ Unset <= next /\ next <= Done
        /\ out[p].bound \in Int
    BY <1>0, <1>2, TimestampsInt, NamedTimestamps
  <2>2. b1 \in {Unset, next} /\ b2 \in {Done, next}
    OBVIOUS
  <2>. HIDE DEF b1, b2
  <2>. QED  BY <1>2, <1>3, <2>1, <2>2, TimestampsInt
<1>5. done \in {<<>>, ToMirrors(p, <<>>, Done)} /\ (done # <<>> => b2 = Done)
  OBVIOUS
<1>6. agenda' = [agenda EXCEPT ![p] = ToMirrors(p, s.queue, b1) \o done]
  BY <1>1 DEF Propagate, PropagateToMirrors, CloseOps, If
<1>7. /\ out' = [out EXCEPT ![p] = [bound |-> b2, closed |-> s.closed]]
      /\ sent' = [sent EXCEPT ![p] = @ \o s.queue]
  BY <1>1 DEF Propagate
<1>8. calls' \in [Producers -> Nat] /\ \A q \in Producers : calls'[q] <= MaxInvocations[q]
  BY <1>0, StreamsAssumption DEF TypeOK
<1>. HIDE DEF b1, b2, done
<1>. QED  BY <1>2, <1>3, <1>4, <1>5, <1>6, <1>7, <1>8, Sends

\* A fresh shard, and what lawful calls leave in it.
LEMMA LawfulShard ==
    ASSUME TypeOK, NEW p \in Producers, NEW b \in Behaviours[p], Lawful(p, b)
    PROVE  ShardOk(FoldLeft(ShardCall, ShardReset(p), b), out[p].bound)
<1>1. b \in Seq(ShardCalls)
  BY StreamsAssumption
<1>2. out[p].bound \in Timestamps /\ out[p].closed \in BOOLEAN
  BY DEF TypeOK
<1>3. ShardReset(p) \in Shards /\ ShardReset(p).queue = <<>>
  <2>1. ShardReset(p) = [queue |-> <<>>, updated |-> Unset, closed |-> (p \notin GraphInputs /\ out[p].closed)]
    BY DEF ShardReset
  <2>2. Unset \in Timestamps /\ (p \notin GraphInputs /\ out[p].closed) \in BOOLEAN
    BY NamedTimestamps
  <2>. QED  BY <2>1, <2>2 DEF Shards
<1>. QED  BY <1>1, <1>2, <1>3, ShardFold DEF Lawful

LEMMA ProcessStep ==
    ASSUME StreamsInv, NEW p \in Producers, Process(p) PROVE StreamsInv'
<1>1. PICK b \in Behaviours[p] : /\ Lawful(p, b)
                                 /\ Propagate(p, FoldLeft(ShardCall, ShardReset(p), b), MinTime + calls[p])
  BY DEF Process
<1>2. ShardOk(FoldLeft(ShardCall, ShardReset(p), b), out[p].bound)
  BY <1>1, LawfulShard DEF StreamsInv
<1>3. MinTime + calls[p] \in Int /\ MinTime + calls[p] >= MinTime
  BY TimestampAssumption DEF StreamsInv, TypeOK, MinTime
<1>. QED  BY <1>1, <1>2, <1>3, Propagates DEF Process

LEMMA AddPacketStep ==
    ASSUME StreamsInv, NEW p \in Producers, AddPacketToInputStream(p) PROVE StreamsInv'
<1>1. PICK b \in Behaviours[p] : /\ Lawful(p, b)
                                 /\ Propagate(p, FoldLeft(ShardCall, ShardReset(p), b), MinTime)
  BY DEF AddPacketToInputStream
<1>2. ShardOk(FoldLeft(ShardCall, ShardReset(p), b), out[p].bound)
  BY <1>1, LawfulShard DEF StreamsInv
<1>3. MinTime \in Int /\ MinTime >= MinTime
  BY TimestampAssumption DEF MinTime
<1>. QED  BY <1>1, <1>2, <1>3, Propagates DEF AddPacketToInputStream

\* A step that sends no packet.
LEMMA SendsBound ==
    ASSUME StreamsInv, NEW p \in DOMAIN graph.mirrors, agenda[p] = <<>>,
           NEW b1 \in Timestamps, NEW b2 \in Timestamps, NEW closed \in BOOLEAN,
           NEW done, done \in {<<>>, ToMirrors(p, <<>>, Done)}, done # <<>> => b2 = Done,
           b1 <= b2, out[p].bound <= b2,
           agenda' = [agenda EXCEPT ![p] = ToMirrors(p, <<>>, b1) \o done],
           out' = [out EXCEPT ![p] = [bound |-> b2, closed |-> closed]],
           UNCHANGED <<graph, in, calls, view, notified, stopped, full, sent, given>>
    PROVE  StreamsInv'
<1>0. TypeOK /\ p \in Producers /\ sent[p] \in Seq(Timestamps)
  BY GraphFacts, TypeFacts DEF StreamsInv
<1>1. PICK ts \in Seq(Timestamps) : ts = <<>>
  <2>1. <<>> \in Seq(Timestamps)
    OBVIOUS
  <2>. QED  BY <2>1
<1>2. sent' = [sent EXCEPT ![p] = @ \o ts]
  <2>1. sent[p] \o ts = sent[p]
    BY <1>0, <1>1, ConcatEmptySeq
  <2>2. sent \in [Producers -> Seq(Timestamps)] /\ sent' = sent
    BY <1>0 DEF TypeOK
  <2>. QED  BY <2>1, <2>2
<1>3. Increasing(ts) /\ \A i \in 1..Len(ts) : IsAllowedInStream(ts[i]) /\ out[p].bound <= ts[i] /\ ts[i] < b2
  BY <1>1 DEF Increasing
<1>4. calls' \in [Producers -> Nat] /\ \A q \in Producers : calls'[q] <= MaxInvocations[q]
  BY <1>0 DEF TypeOK
<1>5. agenda' = [agenda EXCEPT ![p] = ToMirrors(p, ts, b1) \o done]
  BY <1>1
<1>. QED  BY <1>2, <1>3, <1>4, <1>5, Sends

\* A stream with an offset is given a bound past the one it has.
LEMMA UpdatedBound ==
    ASSUME TypeOK, NEW p \in Producers, UpdateTaskTimestampBound(p)
    PROVE  Plus(MinTime + calls[p], Offset[p]) \in Timestamps
<1>. DEFINE input == MinTime + calls[p]
<1>1. Offset[p] # NoOffset /\ Plus(input, Offset[p]) > out[p].bound /\ out[p].bound \in Timestamps
  BY DEF UpdateTaskTimestampBound, TypeOK
<1>2. input \in Int /\ Offset[p] \in Int
  BY <1>1, TimestampAssumption, StreamsAssumption DEF TypeOK, MinTime
<1>. HIDE DEF input
<1>3. Plus(input, Offset[p]) \in Timestamps
  BY <1>1, <1>2, PlusType
<1>. QED  BY <1>3 DEF input

LEMMA UpdateBoundStep ==
    ASSUME StreamsInv, NEW p \in Producers, UpdateTaskTimestampBound(p) PROVE StreamsInv'
<1>1. PICK next : next = Plus(MinTime + calls[p], Offset[p])
  OBVIOUS
<1>2. /\ TypeOK /\ out[p].bound \in Timestamps /\ out[p].closed \in BOOLEAN
      /\ p \in DOMAIN graph.mirrors /\ agenda[p] = <<>>
      /\ next > out[p].bound
      /\ agenda' = [agenda EXCEPT ![p] = PropagateToMirrors(p, next, ShardReset(p))]
      /\ out' = [out EXCEPT ![p].bound = next]
      /\ UNCHANGED <<graph, in, calls, view, notified, stopped, full, sent, given>>
  BY <1>1 DEF UpdateTaskTimestampBound, StreamsInv, TypeOK
<1>3. next \in Timestamps
  BY <1>1, <1>2, UpdatedBound
<1>4. PropagateToMirrors(p, next, ShardReset(p)) = ToMirrors(p, <<>>, next) \o <<>>
  <2>1. PropagateToMirrors(p, next, ShardReset(p)) = ToMirrors(p, <<>>, next)
    BY DEF PropagateToMirrors, ShardReset
  <2>2. ToMirrors(p, <<>>, next) \in Seq(Operations)
    <3>1. graph \in Graphs /\ <<>> \in Seq(Timestamps)
      BY <1>2 DEF TypeOK
    <3>. QED  BY <1>2, <1>3, <3>1, ToMirrorsOps
  <2>. QED  BY <2>1, <2>2, ConcatEmptySeq
<1>5. out' = [out EXCEPT ![p] = [bound |-> next, closed |-> out[p].closed]]
  <2>1. out[p] \in [bound : Timestamps, closed : BOOLEAN]
    BY <1>2 DEF TypeOK
  <2>2. [out[p] EXCEPT !.bound = next] = [bound |-> next, closed |-> out[p].closed]
    BY <2>1
  <2>. QED  BY <1>2, <2>2
<1>6. next <= next /\ out[p].bound <= next
  BY <1>2, <1>3, TimestampsInt
<1>. QED  BY <1>2, <1>3, <1>4, <1>5, <1>6, SendsBound

LEMMA CloseOutputStep ==
    ASSUME StreamsInv, NEW p \in Producers, CloseOutput(p) PROVE StreamsInv'
<1>1. /\ TypeOK /\ graph \in Graphs /\ out[p].bound \in Timestamps
      /\ p \in DOMAIN graph.mirrors /\ agenda[p] = <<>> /\ ~ out[p].closed
      /\ agenda' = [agenda EXCEPT ![p] =
                      If(p \notin GraphInputs, PropagateToMirrors(p, Done, ShardReset(p))) \o CloseOps(p)]
      /\ out' = [out EXCEPT ![p] = [bound |-> Done, closed |-> TRUE]]
      /\ UNCHANGED <<graph, in, calls, view, notified, stopped, full, sent, given>>
  BY DEF CloseOutput, StreamsInv, TypeOK
<1>2. Done \in Timestamps /\ Unset \in Timestamps /\ Unset <= Done /\ Done <= Done /\ out[p].bound <= Done
  BY <1>1, TimestampsInt, NamedTimestamps
<1>3. CloseOps(p) = ToMirrors(p, <<>>, Done)
  BY <1>1 DEF CloseOps, If
<1>4. If(p \notin GraphInputs, PropagateToMirrors(p, Done, ShardReset(p)))
        = ToMirrors(p, <<>>, IF p \notin GraphInputs THEN Done ELSE Unset)
  BY DEF If, PropagateToMirrors, ShardReset, ToMirrors
<1>5. PICK b \in {Done, Unset} : agenda' = [agenda EXCEPT ![p] = ToMirrors(p, <<>>, b) \o ToMirrors(p, <<>>, Done)]
  BY <1>1, <1>3, <1>4
<1>. QED  BY <1>1, <1>2, <1>5, SendsBound

-----------------------------------------------------------------------------
(* A delivery: producer p goes on to its next operation, which concerns    *)
(* edge e and leaves manager m there.                                      *)

\* The packets that operation op brings.
PacketsOf(op) == IF op[1] = "Update" THEN op[3] ELSE <<>>

Delivery(p, e, ops, m) ==
    /\ agenda[p] # <<>> /\ e = Head(agenda[p])[2]
    /\ ops \in Seq(Operations) /\ m \in Managers
    /\ \A op \in OpsOf(ops) :
          /\ ProducerOp(p, op) /\ op[2] = e
          /\ op[1] = "Update" => op[3] = <<>> /\ Head(agenda[p])[1] = "Update"
    /\ m.queue = in[e].queue \o PacketsOf(Head(agenda[p]))
    /\ m.closed = in[e].closed
    /\ Head(agenda[p])[1] # "Update" => m = in[e]
    /\ ManagerOk(PolicyOf(e), m, out[p].bound)
    /\ ReaderKept(graph.policy[ConsumerOf(e)], Len(graph.ports[ConsumerOf(e)]), in[e], m)
    /\ IsFull(m) /\ ~ IsFull(in[e]) => <<"Full", e>> \in OpsOf(ops)

LEMMA Delivers ==
    ASSUME StreamsInv, NEW p \in Producers, NEW e, NEW ops, NEW m, Delivery(p, e, ops, m),
           agenda' = [agenda EXCEPT ![p] = ops \o Tail(@)],
           in' = [in EXCEPT ![e] = m],
           full \subseteq full', full' \subseteq Edges,
           Head(agenda[p])[1] = "Full" => e \in full',
           notified' \subseteq graph.driven,
           UNCHANGED <<graph, out, calls, view, stopped, sent, given>>
    PROVE  StreamsInv'
<1>0. /\ TypeOK /\ graph \in Graphs /\ graph' = graph /\ out' = out /\ view' = view /\ stopped' = stopped
      /\ sent' = sent /\ given' = given /\ ProducerInv(p)
  BY DEF StreamsInv, TypeOK
<1>1. PICK a : a = agenda[p]
  OBVIOUS
<1>2. PICK b : b = ops \o Tail(a)
  OBVIOUS
<1>3. PICK ts : ts = PacketsOf(a[1])
  OBVIOUS
<1>4. a \in Seq(Operations) /\ a # <<>> /\ ops \in Seq(Operations) /\ m \in Managers
  BY <1>0, <1>1, TypeFacts DEF Delivery
<1>5. /\ b \in Seq(Operations) /\ Replaced(a, ops, b)
      /\ Len(a) \in Nat /\ Len(a) > 0 /\ Len(ops) \in Nat /\ Len(b) \in Nat
      /\ a[1] = Head(a) /\ a[1] \in OpsOf(a)
      /\ \A i \in 1..Len(ops) : ops[i] \in OpsOf(b)
      /\ \A i \in 2..Len(a) : a[i] \in OpsOf(b)
      /\ \A i \in 1..Len(b) : /\ i <= Len(ops) => b[i] \in OpsOf(ops)
                              /\ i > Len(ops) => i - Len(ops) + 1 \in 2..Len(a) /\ b[i] = a[i - Len(ops) + 1]
      /\ \A op \in OpsOf(b) : op \in OpsOf(ops) \/ op \in OpsOf(a)
  <2>1. b \in Seq(Operations) /\ Replaced(a, ops, b)
    BY <1>2, <1>4, ThenOps
  <2>. QED  BY <2>1 DEF Replaced
<1>6. /\ e = a[1][2] /\ m.queue = in[e].queue \o ts /\ m.closed = in[e].closed
      /\ a[1][1] # "Update" => m = in[e]
      /\ ManagerOk(PolicyOf(e), m, out[p].bound)
      /\ \A op \in OpsOf(ops) : /\ ProducerOp(p, op) /\ op[2] = e
                                /\ op[1] = "Update" => op[3] = <<>> /\ a[1][1] = "Update"
      /\ IsFull(m) /\ ~ IsFull(in[e]) => <<"Full", e>> \in OpsOf(ops)
      /\ a[1][1] = "Full" => e \in full'
  BY <1>1, <1>3, <1>5 DEF Delivery
<1>7. /\ \A op \in OpsOf(a) : ProducerOp(p, op)
      /\ PacketsFirst(a)
      /\ \A op \in OpsOf(a) : op[1] = "Update" => op[3] \in Seq(Timestamps)
  BY <1>0, <1>1 DEF ProducerInv, ProducerOp, UpdateKept
<1>8. /\ p \in DOMAIN graph.mirrors /\ e \in MirrorsOf(p) /\ e \in Edges /\ ProducerOf(e) = p
      /\ ts \in Seq(Timestamps)
  <2>1. ProducerOp(p, a[1])
    BY <1>5, <1>7
  <2>2. p \in DOMAIN graph.mirrors /\ e \in MirrorsOf(p)
    BY <1>6, <2>1 DEF ProducerOp
  <2>3. ts \in Seq(Timestamps)
    BY <1>3, <1>5, <1>7 DEF PacketsOf
  <2>. QED  BY <1>0, <2>2, <2>3, GraphFacts
<1>9. /\ agenda' = [agenda EXCEPT ![p] = b] /\ agenda'[p] = b
      /\ \A t \in Threads \ {p} : agenda'[t] = agenda[t]
      /\ in'[e] = m /\ \A x \in Edges \ {e} : in'[x] = in[x]
  BY <1>0, <1>1, <1>2, <1>8 DEF TypeOK, Threads
<1>10. TypeOK'
  <2>1. agenda' \in [Threads -> Seq(Operations')]
    BY <1>0, <1>5, <1>9, GraphKept DEF TypeOK
  <2>2. in' \in [Edges' -> Managers]
    BY <1>0, <1>4, GraphKept DEF TypeOK
  <2>. QED  BY <1>0, <2>1, <2>2, GraphKept DEF TypeOK
<1>11. PacketsFirst(b)
  <2>. SUFFICES ASSUME NEW i \in 1..Len(b), NEW j \in 1..Len(b), i < j, b[i][1] = "Update", b[j][1] = "Update",
                       b[i][2] = b[j][2]
                PROVE  b[j][3] = <<>>
    BY DEF PacketsFirst
  <2>1. CASE j <= Len(ops)
    <3>1. b[j] \in OpsOf(ops)
      BY <1>5, <2>1
    <3>. QED  BY <1>6, <3>1
  <2>2. CASE j > Len(ops)
    <3>1. j - Len(ops) + 1 \in 2..Len(a) /\ b[j] = a[j - Len(ops) + 1]
      BY <1>5, <2>2
    <3>2. PICK n \in 2..Len(a) : n = j - Len(ops) + 1 /\ b[j] = a[n]
      BY <3>1
    <3>3. CASE i <= Len(ops)
      <4>1. b[i] \in OpsOf(ops)
        BY <1>5, <3>3
      <4>2. a[1][1] = "Update" /\ a[1][2] = b[j][2]
        BY <1>6, <4>1
      <4>3. 1 \in 1..Len(a) /\ n \in 1..Len(a) /\ 1 < n
        BY <1>5
      <4>. QED  BY <1>7, <3>2, <4>2, <4>3 DEF PacketsFirst
    <3>4. CASE i > Len(ops)
      <4>1. i - Len(ops) + 1 \in 2..Len(a) /\ b[i] = a[i - Len(ops) + 1]
        BY <1>5, <3>4
      <4>2. PICK k \in 2..Len(a) : k = i - Len(ops) + 1 /\ b[i] = a[k]
        BY <4>1
      <4>3. k \in 1..Len(a) /\ n \in 1..Len(a) /\ k < n
        BY SMTT(40), <1>5, <3>2, <4>2
      <4>. QED  BY <1>7, <3>2, <4>2, <4>3 DEF PacketsFirst
    <3>. QED  BY <1>5, <3>3, <3>4
  <2>. QED  BY <1>5, <2>1, <2>2
<1>12. ASSUME NEW q \in Producers PROVE ProducerInv(q)'
  <2>0. ProducerInv(q)
    BY DEF StreamsInv
  <2>1. CASE q # p
    BY <1>0, <1>9, <2>0, <2>1, ProducerFrame DEF Threads
  <2>2. CASE q = p
    <3>1. ASSUME NEW op \in OpsOf(b) PROVE ProducerOp(p, op)'
      <4>1. ProducerOp(p, op)
        BY <1>5, <1>6, <1>7
      <4>. QED  BY <1>0, <4>1, GraphKept DEF ProducerOp
    <3>. QED  BY <1>9, <1>11, <2>2, <3>1 DEF ProducerInv
  <2>. QED  BY <2>1, <2>2
<1>13. ASSUME NEW c \in Consumers PROVE ConsumerInv(c)'
  <2>1. ConsumerInv(c) /\ agenda'[c] = agenda[c]
    BY <1>0, <1>9, ProducerDisjoint DEF StreamsInv, Threads
  <2>2. view[c] \in Seq(Readings) /\ agenda[c] \in Seq(Operations)
    BY <1>0, TypeFacts
  <2>3. ASSUME c \in DOMAIN graph.ports, NEW x \in PortEdges(c)
        PROVE  ReaderKept(graph.policy[c], Len(graph.ports[c]), in[x], in'[x])
    <3>1. x \in Edges /\ ConsumerOf(x) = c /\ Len(graph.ports[c]) \in Nat
      BY <1>0, <2>3, GraphFacts
    <3>2. CASE x # e
      BY <1>9, <3>1, <3>2 DEF ReaderKept
    <3>3. CASE x = e
      BY <1>9, <3>1, <3>3 DEF Delivery
    <3>. QED  BY <3>2, <3>3
  <2>. QED  BY <1>0, <2>1, <2>2, <2>3, ConsumerFrame
\* Nothing but bounds comes to edge e after the operation.
<1>14. ASSUME NEW op \in OpsOf(b), op[1] = "Update", op[2] = e, a[1][1] = "Update" PROVE op[3] = <<>>
  <2>1. PICK i \in 1..Len(b) : op = b[i]
    BY DEF OpsOf
  <2>2. CASE i <= Len(ops)
    <3>1. op \in OpsOf(ops)
      BY <1>5, <2>1, <2>2
    <3>. QED  BY <1>6, <1>14, <3>1
  <2>3. CASE i > Len(ops)
    <3>1. PICK n \in 2..Len(a) : op = a[n]
      BY <1>5, <2>1, <2>3
    <3>2. 1 \in 1..Len(a) /\ n \in 1..Len(a) /\ 1 < n
      BY <1>5
    <3>. QED  BY <1>6, <1>7, <1>14, <3>1, <3>2 DEF PacketsFirst
  <2>. QED  BY <1>5, <2>2, <2>3
<1>15. ASSUME NEW op \in OpsOf(b), op[1] = "Update", op[2] # e PROVE op \in OpsOf(a)
  BY <1>5, <1>6, <1>15
<1>16. ASSUME NEW x \in Edges PROVE EdgeInv(x)'
  <2>0. EdgeInv(x) /\ ProducerOf(x) \in Producers
    BY <1>0, TypeFacts DEF StreamsInv
  <2>1. CASE ProducerOf(x) # p
    <3>1. x # e
      BY <1>8, <2>1
    <3>. QED  BY <1>0, <1>9, <2>0, <2>1, <3>1, EdgeFrame DEF Threads
  <2>2. CASE ProducerOf(x) = p
    <3>1. /\ ProducerOf(x)' = p /\ ConsumerOf(x)' = ConsumerOf(x) /\ PolicyOf(x)' = PolicyOf(x)
          /\ out'[p] = out[p] /\ agenda'[p] = b /\ stopped' = stopped
      BY <1>0, <1>9, <2>2, GraphKept
    <3>2. /\ ManagerOk(PolicyOf(x), in[x], out[p].bound)
          /\ \A op \in OpsOf(a) : op[1] = "Update" /\ op[2] = x => UpdateNews(PolicyOf(x), in[x], op)
          /\ in[x].closed => ConsumerOf(x) \in stopped
      BY <1>1, <2>0, <2>2 DEF EdgeInv
    <3>3. CASE x # e
      <4>1. in'[x] = in[x]
        BY <1>9, <3>3
      <4>2. \A op \in OpsOf(b) : op[1] = "Update" /\ op[2] = x => UpdateNews(PolicyOf(x), in[x], op)
        BY <1>15, <3>2, <3>3
      <4>. QED  BY <3>1, <3>2, <4>1, <4>2 DEF EdgeInv
    <3>4. CASE x = e
      <4>1. \A op \in OpsOf(b) : op[1] = "Update" /\ op[2] = e => UpdateNews(PolicyOf(e), m, op)
        <5>1. CASE a[1][1] = "Update"
          BY <1>14, <5>1 DEF UpdateNews
        <5>2. CASE a[1][1] # "Update"
          <6>1. m = in[e] /\ \A op \in OpsOf(b) : op[1] = "Update" => op \in OpsOf(a)
            BY <1>5, <1>6, <5>2
          <6>. QED  BY <3>2, <3>4, <6>1
        <5>. QED  BY <5>1, <5>2
      <4>2. in'[x] = m /\ ManagerOk(PolicyOf(x), m, out[p].bound) /\ (m.closed => ConsumerOf(x) \in stopped)
        BY <1>6, <1>9, <3>2, <3>4
      <4>. QED  BY <3>1, <3>4, <4>1, <4>2 DEF EdgeInv
    <3>. QED  BY <3>3, <3>4
  <2>. QED  BY <2>1, <2>2
<1>17. ASSUME NEW c \in stopped PROVE StoppedInv(c)'
  <2>0. StoppedInv(c) /\ c \in DOMAIN graph.ports
    BY <1>0, GraphFacts DEF StreamsInv, TypeOK
  <2>1. ASSUME NEW x \in PortEdges(c)
        PROVE  /\ in'[x].queue = <<>>
               /\ \A op \in OpsOf(agenda'[ProducerOf(x)]) : op[1] = "Update" /\ op[2] = x => op[3] = <<>>
    <3>0. x \in Edges /\ ConsumerOf(x) = c /\ ProducerOf(x) \in Producers
      BY <1>0, <2>0, GraphFacts
    <3>1. /\ in[x].queue = <<>>
          /\ \A op \in OpsOf(agenda[ProducerOf(x)]) : op[1] = "Update" /\ op[2] = x => op[3] = <<>>
      BY <2>0 DEF StoppedInv
    <3>2. CASE x # e
      <4>1. in'[x].queue = <<>>
        BY <1>9, <3>0, <3>1, <3>2
      <4>2. CASE ProducerOf(x) # p
        BY <1>9, <3>0, <3>1, <4>1, <4>2 DEF Threads
      <4>3. CASE ProducerOf(x) = p
        BY <1>1, <1>9, <1>15, <3>1, <3>2, <4>1, <4>3
      <4>. QED  BY <4>2, <4>3
    <3>3. CASE x = e
      <4>1. \A op \in OpsOf(a) : op[1] = "Update" /\ op[2] = e => op[3] = <<>>
        BY <1>1, <1>8, <3>1, <3>3
      <4>2. ts = <<>>
        BY <1>3, <1>5, <1>6, <4>1 DEF PacketsOf
      <4>3. in'[x].queue = <<>>
        BY <1>6, <1>9, <3>1, <3>3, <4>2
      <4>4. ASSUME NEW op \in OpsOf(b), op[1] = "Update", op[2] = e PROVE op[3] = <<>>
        BY <1>5, <1>6, <4>1, <4>4
      <4>. QED  BY <1>8, <1>9, <3>3, <4>3, <4>4
    <3>. QED  BY <3>2, <3>3
  <2>. QED  BY <1>0, <2>0, <2>1, GraphKept DEF StoppedInv
<1>18. Lossless'
  <2>1. ASSUME NEW x \in Edges, DropsNothing(x)
        PROVE  sent'[ProducerOf(x)] = given'[x] \o in'[x].queue \o OnWay(agenda'[ProducerOf(x)], x)
    <3>1. sent[ProducerOf(x)] = given[x] \o in[x].queue \o OnWay(agenda[ProducerOf(x)], x)
      BY <2>1, OnTheWayIs DEF StreamsInv, Lossless
    <3>2. ProducerOf(x) \in Producers /\ given[x] \in Seq(Timestamps) /\ in[x].queue \in Seq(Timestamps)
      BY <1>0, TypeFacts
    <3>3. CASE ProducerOf(x) # p
      <4>1. x # e
        BY <1>8, <3>3
      <4>. QED  BY <1>0, <1>9, <3>1, <3>2, <3>3, <4>1 DEF Threads
    <3>4. ASSUME ProducerOf(x) = p, x # e \/ a[1][1] # "Update" PROVE OnWay(b, x) = OnWay(a, x)
      <4>1. \A i \in 1..Len(a) : a[i][1] = "Update" /\ a[i][2] = x => a[i][3] \in Seq(Timestamps)
        BY <1>7 DEF OpsOf
      <4>2. a[1][1] = "Update" /\ a[1][2] = x => a[1][3] = <<>>
        BY <1>6, <3>4
      <4>3. \A i \in 1..Len(ops) : ops[i][1] = "Update" /\ ops[i][2] = x => ops[i][3] = <<>>
        BY <1>6 DEF OpsOf
      <4>. QED  BY <1>5, <1>7, <4>1, <4>2, <4>3, OnWayKept
    <3>5. CASE ProducerOf(x) = p /\ x # e
      BY <1>0, <1>1, <1>9, <3>1, <3>4, <3>5
    <3>6. CASE x = e /\ a[1][1] # "Update"
      BY <1>0, <1>1, <1>6, <1>8, <1>9, <3>1, <3>4, <3>6
    <3>7. CASE x = e /\ a[1][1] = "Update"
      <4>1. OnWay(a, e) = ts
        <5>1. ASSUME NEW i \in 1..Len(a), i # 1, a[i][1] = "Update", a[i][2] = e PROVE a[i][3] = <<>>
          <6>1. 1 \in 1..Len(a) /\ 1 < i
            BY <1>5, <5>1
          <6>. QED  BY <1>6, <1>7, <3>7, <5>1, <6>1 DEF PacketsFirst
        <5>2. 1 \in 0..Len(a) /\ a[1][1] = "Update" /\ a[1][2] = e /\ a[1][3] = ts
          BY <1>3, <1>5, <1>6, <3>7 DEF PacketsOf
        <5>3. Carries(a, e, 1, ts)
          BY <1>8, <5>1, <5>2 DEF Carries
        <5>. QED  BY <1>5, <5>3, CarriesIs
      <4>2. OnWay(b, e) = <<>>
        <5>1. \A i \in 1..Len(b) : b[i][1] = "Update" /\ b[i][2] = e => b[i][3] = <<>>
          BY <1>14, <3>7 DEF OpsOf
        <5>2. Len(b) \in Nat
          BY <1>5
        <5>3. Carries(b, e, 0, <<>>)
          BY <5>1, <5>2 DEF Carries
        <5>. QED  BY <5>2, <5>3, CarriesIs
      <4>3. sent[p] = given[e] \o in[e].queue \o ts
        BY <1>1, <1>8, <3>1, <3>7, <4>1
      <4>4. given[e] \o (in[e].queue \o ts) = given[e] \o in[e].queue \o ts
        <5>1. given[e] \in Seq(Timestamps) /\ in[e].queue \in Seq(Timestamps)
          BY <3>2, <3>7
        <5>2. \A q1, q2, q3 \in Seq(Timestamps) : (q1 \o q2) \o q3 = q1 \o (q2 \o q3)
          BY ZenonT(30), ConcatTimestamps
        <5>. QED  BY <1>8, <5>1, <5>2
      <4>5. given[e] \o in[e].queue \o ts \in Seq(Timestamps)
        BY <1>8, <3>2, <3>7
      <4>6. (given[e] \o (in[e].queue \o ts)) \o <<>> = given[e] \o (in[e].queue \o ts)
        BY <4>4, <4>5, ConcatEmptySeq
      <4>7. sent'[p] = given'[e] \o in'[e].queue \o OnWay(agenda'[p], e)
        BY <1>0, <1>6, <1>9, <4>2, <4>3, <4>4, <4>6
      <4>. QED  BY <1>8, <3>7, <4>7
    <3>. QED  BY <1>8, <3>3, <3>5, <3>6, <3>7
  <2>. QED  BY <1>0, <2>1, LosslessNext
<1>19. FullIsRecorded'
  <2>1. ASSUME NEW x \in Edges, ConsumerOf(x) \notin graph.driven, IsFull(in'[x]),
               <<"Full", x>> \notin OpsOf(agenda'[ProducerOf(x)])
        PROVE  x \in full'
    <3>0. ProducerOf(x) \in Producers
      BY <1>0, TypeFacts
    <3>1. CASE ProducerOf(x) # p
      <4>1. x # e
        BY <1>8, <3>1
      <4>2. IsFull(in[x]) /\ <<"Full", x>> \notin OpsOf(agenda[ProducerOf(x)])
        BY <1>9, <2>1, <3>0, <3>1, <4>1 DEF Threads
      <4>. QED  BY <2>1, <4>2, RecordedNow
    <3>2. CASE ProducerOf(x) = p
      <4>1. IsFull(in[x])
        <5>1. CASE x # e
          BY <1>9, <2>1, <5>1
        <5>2. CASE x = e
          <6>1. <<"Full", e>> \notin OpsOf(ops)
            <7>1. ASSUME NEW op \in OpsOf(ops) PROVE op \in OpsOf(b)
              <8>1. PICK i \in 1..Len(ops) : op = ops[i]
                BY DEF OpsOf
              <8>. QED  BY <1>5, <8>1
            <7>. QED  BY <1>9, <2>1, <3>2, <5>2, <7>1
          <6>. QED  BY <1>6, <1>9, <2>1, <5>2, <6>1
        <5>. QED  BY <5>1, <5>2
      <4>2. CASE <<"Full", x>> \notin OpsOf(a)
        BY <1>1, <2>1, <3>2, <4>1, <4>2, RecordedNow
      <4>3. CASE <<"Full", x>> \in OpsOf(a)
        <5>1. PICK i \in 1..Len(a) : a[i] = <<"Full", x>>
          BY <4>3 DEF OpsOf
        <5>2. i = 1
          <6>1. i \notin 2..Len(a)
            BY ZenonT(60), <1>5, <1>9, <2>1, <3>2, <5>1
          <6>. QED  BY <1>5, <6>1
        <5>. QED  BY <1>6, <5>1, <5>2
      <4>. QED  BY <4>2, <4>3
    <3>. QED  BY <3>1, <3>2
  <2>. QED  BY <1>0, <2>1, RecordedNext
<1>. QED  BY <1>0, <1>10, <1>12, <1>13, <1>16, <1>17, <1>18, <1>19, GraphKept DEF StreamsInv

\* What an update does to a manager.
Updated(m, ts, b) == IF ts # <<>> THEN AddPackets(m, ts) ELSE SetNextTimestampBound(m, b)

UpdateOk(policy, n, B, m, ts, u) ==
    /\ u \in Managers /\ u.queue = m.queue \o ts /\ u.closed = m.closed /\ u.max = m.max
    /\ ManagerOk(policy, u, B)
    /\ ReaderKept(policy, n, m, u)
    /\ policy = "default" => u.bound >= m.bound

LEMMA UpdateManager ==
    ASSUME NEW m \in Managers, NEW policy, NEW n, NEW B \in Timestamps,
           ManagerOk(policy, m, B),
           NEW op, UpdateKept(B, op), UpdateNews(policy, m, op), m.closed => op[3] = <<>>,
           NEW u, u = Updated(m, op[3], op[4])
    PROVE  UpdateOk(policy, n, B, m, op[3], u)
<1>1. PICK ts : ts = op[3]
  OBVIOUS
<1>2. PICK b : b = op[4]
  OBVIOUS
<1>3. /\ ts \in Seq(Timestamps) /\ Len(ts) \in Nat /\ b \in Timestamps /\ b \in Int /\ B \in Int /\ b <= B
      /\ Increasing(ts)
      /\ \A i \in 1..Len(ts) : /\ ts[i] \in Timestamps /\ ts[i] \in Int /\ IsAllowedInStream(ts[i]) /\ ts[i] < B
                               /\ \A j \in 1..Len(m.queue) : m.queue[j] < ts[i]
                               /\ policy = "default" => ts[i] >= m.bound
  BY SMTT(40), <1>1, <1>2, TimestampsInt DEF UpdateKept, UpdateNews
<1>4. /\ m.queue \in Seq(Timestamps) /\ Len(m.queue) \in Nat /\ m.bound \in Timestamps /\ m.bound \in Int
      /\ m.select \in Int /\ \A j \in 1..Len(m.queue) : m.queue[j] \in Int
  BY TimestampsInt DEF Managers
<1>5. CASE ts = <<>>
  <2>1. u = SetNextTimestampBound(m, b)
    BY <1>1, <1>2, <1>5 DEF Updated
  <2>2. u \in Managers /\ u.queue = m.queue /\ u.closed = m.closed /\ u.max = m.max /\ u.select = m.select
        /\ u.bound \in {b, m.bound} /\ u.bound >= m.bound /\ u.bound \in Int
    BY SMTT(40), <1>3, <1>4, <2>1 DEF SetNextTimestampBound, Managers
  <2>3. u.queue = m.queue \o op[3]
    BY <1>1, <1>4, <1>5, <2>2, ConcatEmptySeq
  <2>4. ManagerOk(policy, u, B)
    <3>1. policy = "default" => /\ u.closed \/ u.bound <= Later(B, PreStream)
               /\ u.select < u.bound
               /\ \A j \in 1..Len(u.queue) : u.select < u.queue[j] /\ u.queue[j] < u.bound
      BY SMTT(40), <1>3, <1>4, <2>2, TimestampsInt DEF ManagerOk, Later
    <3>. QED  BY <2>2, <3>1 DEF ManagerOk
  <2>5. ASSUME NEW t \in Timestamps, PopOk(policy, n, m, t) PROVE PopOk(policy, n, u, t)
    <3>1. t \in Int /\ (t < m.bound => t < u.bound)
      BY <1>4, <2>2, TimestampsInt
    <3>. QED  BY <2>2, <2>5, <3>1 DEF PopOk
  <2>6. ASSUME NEW x \in Readings, ReadingOk(m, x) PROVE ReadingOk(u, x)
    <3>1. x.ts \in Int
      BY TimestampsInt DEF Readings
    <3>2. x.ts <= m.bound => x.ts <= u.bound
      BY <1>4, <2>2, <3>1
    <3>. QED  BY <2>2, <2>6, <3>2 DEF ReadingOk
  <2>. QED  BY <2>2, <2>3, <2>4, <2>5, <2>6 DEF ReaderKept, UpdateOk
<1>6. CASE ts # <<>>
  <2>1. u = [m EXCEPT !.queue = @ \o ts, !.bound = NextAllowedInStream(ts[Len(ts)])]
    BY <1>1, <1>2, <1>6 DEF Updated, AddPackets
  <2>2. PICK last : last = ts[Len(ts)]
    OBVIOUS
  <2>3. Len(ts) > 0 /\ Len(ts) \in 1..Len(ts)
    BY <1>3, <1>6, EmptySeq
  <2>4. /\ last \in Timestamps /\ last \in Int /\ IsAllowedInStream(last) /\ last < B
        /\ policy = "default" => last >= m.bound
        /\ \A j \in 1..Len(m.queue) : m.queue[j] < last
    BY <1>3, <2>2, <2>3
  <2>5. NextAllowedInStream(last) \in Timestamps /\ NextAllowedInStream(last) > last
        /\ NextAllowedInStream(last) <= B /\ NextAllowedInStream(last) \in Int
    <3>1. NextAllowedInStream(last) \in Timestamps /\ NextAllowedInStream(last) > last
      BY <2>4, NextStep
    <3>2. NextAllowedInStream(last) <= B
      BY <1>3, <2>4, TimestampsInt DEF NextAllowedInStream
    <3>. QED  BY <3>1, <3>2, TimestampsInt
  <2>6. ASSUME NEW i \in 1..Len(ts) PROVE ts[i] <= last
    <3>1. CASE i = Len(ts)
      BY <1>3, <2>2, <2>4, <3>1
    <3>2. CASE i # Len(ts)
      <4>1. i < Len(ts)
        BY <1>3, <3>2
      <4>2. ts[i] < last
        BY <1>3, <2>2, <2>3, <4>1 DEF Increasing
      <4>. QED  BY <1>3, <2>4, <4>2
    <3>. QED  BY <3>1, <3>2
  <2>7. m.queue \o ts \in Seq(Timestamps)
    BY <1>3, <1>4
  <2>8. u = [queue |-> m.queue \o ts, bound |-> NextAllowedInStream(last), select |-> m.select,
             closed |-> m.closed, max |-> m.max]
    BY <2>1, <2>2 DEF Managers
  <2>9. /\ u \in Managers /\ u.queue = m.queue \o ts /\ u.closed = m.closed /\ u.max = m.max
        /\ u.select = m.select /\ u.bound = NextAllowedInStream(last)
    BY <2>5, <2>7, <2>8 DEF Managers
  <2>10. /\ Len(u.queue) = Len(m.queue) + Len(ts)
         /\ \A i \in 1..Len(u.queue) : /\ i <= Len(m.queue) => i \in 1..Len(m.queue) /\ u.queue[i] = m.queue[i]
                                       /\ i > Len(m.queue) => /\ i - Len(m.queue) \in 1..Len(ts)
                                                              /\ u.queue[i] = ts[i - Len(m.queue)]
    BY SMTT(40), <1>3, <1>4, <2>9
  <2>11. ASSUME NEW i \in 1..Len(u.queue)
         PROVE  /\ u.queue[i] \in Int /\ IsAllowedInStream(u.queue[i]) /\ u.queue[i] < B
                /\ u.queue[i] <= last
                /\ policy = "default" => m.select < u.queue[i] /\ u.queue[i] < u.bound
                /\ \A t \in Int : t <= m.bound /\ policy = "default" /\ (\A j \in 1..Len(m.queue) : t <= m.queue[j])
                                    => t <= u.queue[i]
    <3>1. CASE i <= Len(m.queue)
      <4>1. i \in 1..Len(m.queue) /\ u.queue[i] = m.queue[i]
        BY <2>10, <3>1
      <4>2. /\ m.queue[i] \in Int /\ IsAllowedInStream(m.queue[i]) /\ m.queue[i] < B
            /\ m.queue[i] < last /\ (policy = "default" => m.select < m.queue[i])
        BY <1>4, <2>4, <4>1 DEF ManagerOk
      <4>. QED  BY <2>4, <2>5, <2>9, <4>1, <4>2
    <3>2. CASE i > Len(m.queue)
      <4>1. PICK k \in 1..Len(ts) : u.queue[i] = ts[k]
        BY <2>10, <3>2
      <4>2. /\ ts[k] \in Int /\ IsAllowedInStream(ts[k]) /\ ts[k] < B /\ ts[k] <= last
            /\ policy = "default" => ts[k] >= m.bound
        BY <1>3, <2>6, <4>1
      <4>3. policy = "default" => m.select < m.bound
        BY DEF ManagerOk
      <4>4. policy = "default" => m.select < ts[k] /\ ts[k] < u.bound
        BY <1>4, <2>4, <2>5, <2>9, <4>2, <4>3
      <4>5. ASSUME NEW t \in Int, t <= m.bound, policy = "default" PROVE t <= ts[k]
        BY <1>4, <4>2, <4>5
      <4>. QED  BY <4>1, <4>2, <4>4, <4>5
    <3>. QED  BY <1>4, <2>10, <3>1, <3>2
  <2>12. Increasing(u.queue)
    <3>. SUFFICES ASSUME NEW i \in 1..Len(u.queue), NEW j \in 1..Len(u.queue), i < j
                  PROVE  u.queue[i] < u.queue[j]
      BY DEF Increasing
    <3>1. CASE j <= Len(m.queue)
      <4>1. i \in 1..Len(m.queue) /\ j \in 1..Len(m.queue) /\ u.queue[i] = m.queue[i] /\ u.queue[j] = m.queue[j]
        <5>1. i <= Len(m.queue)
          BY <1>4, <2>10, <3>1
        <5>. QED  BY <2>10, <3>1, <5>1
      <4>. QED  BY <4>1 DEF ManagerOk, Increasing
    <3>2. CASE j > Len(m.queue)
      <4>1. j - Len(m.queue) \in 1..Len(ts) /\ u.queue[j] = ts[j - Len(m.queue)]
        BY <2>10, <3>2
      <4>2. CASE i <= Len(m.queue)
        BY <1>3, <2>10, <4>1, <4>2
      <4>3. CASE i > Len(m.queue)
        <5>1. i - Len(m.queue) \in 1..Len(ts) /\ u.queue[i] = ts[i - Len(m.queue)]
          BY <2>10, <4>3
        <5>2. i - Len(m.queue) < j - Len(m.queue)
          BY <1>4, <2>10
        <5>. QED  BY <1>3, <4>1, <5>1, <5>2 DEF Increasing
      <4>. QED  BY <1>4, <2>10, <4>2, <4>3
    <3>. QED  BY <1>4, <2>10, <3>1, <3>2
  <2>13. policy = "default" => u.bound >= m.bound /\ m.select < u.bound
    BY <1>4, <2>4, <2>5, <2>9 DEF ManagerOk
  <2>14. ManagerOk(policy, u, B)
    <3>1. u.bound <= Later(B, PreStream)
      BY <1>3, <2>5, <2>9, TimestampsInt DEF Later
    <3>. QED  BY <2>9, <2>11, <2>12, <2>13, <3>1 DEF ManagerOk
  <2>15. m.queue # <<>> => u.queue # <<>> /\ Head(u.queue) = Head(m.queue)
    <3>1. m.queue # <<>> => Len(m.queue) > 0
      BY <1>4, EmptySeq
    <3>2. ASSUME Len(m.queue) > 0 PROVE Len(u.queue) > 0 /\ u.queue[1] = m.queue[1] /\ u.queue \in Seq(Timestamps)
      BY <1>3, <1>4, <2>7, <2>9, <2>10, <3>2
    <3>. QED  BY <1>4, <3>1, <3>2
  <2>16. ASSUME NEW t \in Timestamps, PopOk(policy, n, m, t) PROVE PopOk(policy, n, u, t)
    <3>1. ASSUME policy = "default"
          PROVE  IsAllowedInStream(t) /\ t < u.bound /\ \A j \in 1..Len(u.queue) : t <= u.queue[j]
      <4>1. t \in Int /\ IsAllowedInStream(t) /\ t < m.bound /\ \A j \in 1..Len(m.queue) : t <= m.queue[j]
        BY <2>16, <3>1, TimestampsInt DEF PopOk
      <4>2. t <= m.bound /\ t < u.bound
        BY <1>4, <2>5, <2>9, <2>13, <3>1, <4>1
      <4>. QED  BY <2>11, <3>1, <4>1, <4>2
    <3>2. policy # "default" /\ n = 1 => u.queue # <<>> /\ Head(u.queue) = t
      BY <2>15, <2>16 DEF PopOk
    <3>. QED  BY <3>1, <3>2 DEF PopOk
  <2>17. ASSUME NEW x \in Readings, policy = "default", ReadingOk(m, x) PROVE ReadingOk(u, x)
    <3>1. x.ts \in Int
      BY TimestampsInt DEF Readings
    <3>2. ASSUME x.empty PROVE x.ts <= u.bound /\ \A j \in 1..Len(u.queue) : x.ts <= u.queue[j]
      <4>1. x.ts <= m.bound /\ \A j \in 1..Len(m.queue) : x.ts <= m.queue[j]
        BY <2>17, <3>2 DEF ReadingOk
      <4>2. x.ts <= u.bound
        BY <1>4, <2>5, <2>9, <2>13, <2>17, <3>1, <4>1
      <4>. QED  BY <2>11, <2>17, <3>1, <4>1, <4>2
    <3>3. ~ x.empty => u.queue # <<>> /\ Head(u.queue) = x.ts
      BY <2>15, <2>17 DEF ReadingOk
    <3>. QED  BY <3>2, <3>3 DEF ReadingOk
  <2>. QED  BY <1>1, <2>9, <2>13, <2>14, <2>16, <2>17 DEF ReaderKept, UpdateOk
<1>. QED  BY <1>5, <1>6

LEMMA OneOp ==
    ASSUME NEW S, NEW g \in BOOLEAN, NEW o, g => o \in S
    PROVE  /\ If(g, <<o>>) \in Seq(S)
           /\ \A x : x \in OpsOf(If(g, <<o>>)) <=> g /\ x = o
<1>1. CASE g
  <2>1. If(g, <<o>>) = <<o>> /\ <<o>> \in Seq(S)
    BY <1>1 DEF If
  <2>2. \A x : x \in OpsOf(<<o>>) <=> x = o
    BY DEF OpsOf
  <2>. QED  BY <1>1, <2>1, <2>2
<1>2. CASE ~ g
  BY <1>2 DEF If, OpsOf
<1>. QED  BY <1>1, <1>2

LEMMA BothOps ==
    ASSUME NEW S, NEW a \in Seq(S), NEW b \in Seq(S)
    PROVE  /\ a \o b \in Seq(S)
           /\ \A x : x \in OpsOf(a \o b) <=> x \in OpsOf(a) \/ x \in OpsOf(b)
<1>1. /\ a \o b \in Seq(S) /\ Len(a \o b) = Len(a) + Len(b) /\ Len(a) \in Nat /\ Len(b) \in Nat
      /\ \A i \in 1..Len(a) : i \in 1..Len(a \o b) /\ (a \o b)[i] = a[i]
      /\ \A i \in 1..Len(b) : Len(a) + i \in 1..Len(a \o b) /\ (a \o b)[Len(a) + i] = b[i]
      /\ \A i \in 1..Len(a \o b) : i > Len(a) => i - Len(a) \in 1..Len(b) /\ (a \o b)[i] = b[i - Len(a)]
  OBVIOUS
<1>2. PICK s : s = a \o b
  OBVIOUS
<1>3. ASSUME NEW x \in OpsOf(s) PROVE x \in OpsOf(a) \/ x \in OpsOf(b)
  <2>1. PICK i \in 1..Len(s) : x = s[i]
    BY DEF OpsOf
  <2>2. CASE i <= Len(a)
    <3>1. i \in 1..Len(a) /\ x = a[i]
      BY <1>1, <1>2, <2>1, <2>2
    <3>. QED  BY <3>1 DEF OpsOf
  <2>3. CASE i > Len(a)
    <3>1. i - Len(a) \in 1..Len(b) /\ x = b[i - Len(a)]
      BY <1>1, <1>2, <2>1, <2>3
    <3>. QED  BY <3>1 DEF OpsOf
  <2>. QED  BY <1>1, <1>2, <2>2, <2>3
<1>4. ASSUME NEW x \in OpsOf(a) PROVE x \in OpsOf(s)
  <2>1. PICK i \in 1..Len(a) : x = a[i]
    BY DEF OpsOf
  <2>2. i \in 1..Len(s) /\ x = s[i]
    BY <1>1, <1>2, <2>1
  <2>. QED  BY <2>2 DEF OpsOf
<1>5. ASSUME NEW x \in OpsOf(b) PROVE x \in OpsOf(s)
  <2>1. PICK i \in 1..Len(b) : x = b[i]
    BY DEF OpsOf
  <2>2. Len(a) + i \in 1..Len(s) /\ x = s[Len(a) + i]
    BY <1>1, <1>2, <2>1
  <2>. QED  BY <2>2 DEF OpsOf
<1>. QED  BY <1>1, <1>2, <1>3, <1>4, <1>5

\* The next operation of producer p.
LEMMA NextOperation ==
    ASSUME StreamsInv, NEW p \in Producers, agenda[p] # <<>>, NEW op, op = Head(agenda[p])
    PROVE  /\ op \in OpsOf(agenda[p]) /\ op \in Operations /\ ProducerOp(p, op)
           /\ op[2] \in MirrorsOf(p) /\ op[2] \in Edges /\ ProducerOf(op[2]) = p
           /\ in[op[2]] \in Managers /\ EdgeInv(op[2])
           /\ ManagerOk(PolicyOf(op[2]), in[op[2]], out[p].bound)
           /\ out[p].bound \in Timestamps
           /\ op[1] = "Update" => /\ UpdateKept(out[p].bound, op)
                                  /\ UpdateNews(PolicyOf(op[2]), in[op[2]], op)
                                  /\ in[op[2]].closed => op[3] = <<>>
<1>0. TypeOK /\ graph \in Graphs /\ ProducerInv(p)
  BY DEF StreamsInv, TypeOK
<1>1. op \in OpsOf(agenda[p]) /\ op \in Operations
  <2>1. agenda[p] \in Seq(Operations)
    BY <1>0, TypeFacts
  <2>2. Len(agenda[p]) \in Nat /\ Len(agenda[p]) > 0 /\ op = agenda[p][1]
    BY <2>1, EmptySeq
  <2>3. 1 \in 1..Len(agenda[p])
    BY <2>2
  <2>. QED  BY <2>1, <2>2, <2>3 DEF OpsOf
<1>2. ProducerOp(p, op) /\ p \in DOMAIN graph.mirrors /\ op[2] \in MirrorsOf(p)
  BY <1>0, <1>1 DEF ProducerInv, ProducerOp
<1>3. op[2] \in Edges /\ ProducerOf(op[2]) = p
  BY <1>0, <1>2, GraphFacts
<1>4. in[op[2]] \in Managers /\ out[p].bound \in Timestamps
  BY <1>0, <1>3, TypeFacts
<1>5. EdgeInv(op[2]) /\ ManagerOk(PolicyOf(op[2]), in[op[2]], out[p].bound)
  BY <1>3 DEF StreamsInv, EdgeInv
<1>6. ASSUME op[1] = "Update"
      PROVE  /\ UpdateKept(out[p].bound, op) /\ UpdateNews(PolicyOf(op[2]), in[op[2]], op)
             /\ in[op[2]].closed => op[3] = <<>>
  <2>1. UpdateKept(out[p].bound, op)
    BY <1>2, <1>6 DEF ProducerOp
  <2>2. UpdateNews(PolicyOf(op[2]), in[op[2]], op)
    BY <1>1, <1>3, <1>5, <1>6 DEF EdgeInv
  <2>3. ASSUME in[op[2]].closed PROVE op[3] = <<>>
    <3>1. ConsumerOf(op[2]) \in stopped /\ op[2] \in PortEdges(ConsumerOf(op[2]))
      BY <1>0, <1>3, <1>5, <2>3, GraphFacts DEF EdgeInv
    <3>2. StoppedInv(ConsumerOf(op[2]))
      BY <3>1 DEF StreamsInv
    <3>. QED  BY <1>1, <1>3, <1>6, <3>1, <3>2 DEF StoppedInv
  <2>. QED  BY <2>1, <2>2, <2>3
<1>. QED  BY <1>1, <1>2, <1>3, <1>4, <1>5, <1>6

LEMMA MirrorStep ==
    ASSUME StreamsInv, NEW p \in Producers, Mirror(p) PROVE StreamsInv'
<1>0. TypeOK /\ graph \in Graphs
  BY DEF StreamsInv, TypeOK
<1>1. PICK op : op = Head(agenda[p])
  OBVIOUS
<1>2. PICK e : e = op[2]
  OBVIOUS
<1>3. PICK m : m = Updated(in[e], op[3], op[4])
  OBVIOUS
<1>4. PICK ops : ops = Callbacks(e, in[e], m)
                         \o If(op[3] # <<>> /\ op[4] # Unset, << <<"Update", e, <<>>, op[4]>> >>)
  OBVIOUS
<1>5. /\ agenda[p] # <<>> /\ op[1] = "Update"
      /\ in' = [in EXCEPT ![e] = m]
      /\ agenda' = [agenda EXCEPT ![p] = ops \o Tail(@)]
      /\ UNCHANGED <<graph, out, calls, view, notified, stopped, full, sent, given>>
  BY <1>1, <1>2, <1>3, <1>4 DEF Mirror, At, Arg, Then, Updated
<1>6. /\ op \in OpsOf(agenda[p]) /\ op \in Operations /\ ProducerOp(p, op)
      /\ e \in MirrorsOf(p) /\ e \in Edges
      /\ in[e] \in Managers /\ ManagerOk(PolicyOf(e), in[e], out[p].bound)
      /\ out[p].bound \in Timestamps /\ UpdateKept(out[p].bound, op) /\ UpdateNews(PolicyOf(e), in[e], op)
      /\ in[e].closed => op[3] = <<>>
  BY <1>1, <1>2, <1>5, NextOperation
<1>7. /\ m \in Managers /\ m.queue = in[e].queue \o op[3] /\ m.closed = in[e].closed /\ m.max = in[e].max
      /\ ManagerOk(PolicyOf(e), m, out[p].bound)
      /\ ReaderKept(graph.policy[ConsumerOf(e)], Len(graph.ports[ConsumerOf(e)]), in[e], m)
  <2>1. UpdateOk(PolicyOf(e), Len(graph.ports[ConsumerOf(e)]), out[p].bound, in[e], op[3], m)
    BY <1>3, <1>6, UpdateManager
  <2>. QED  BY <2>1 DEF UpdateOk, PolicyOf
\* The callbacks, and the bound that follows the packets.
<1>. DEFINE full1 == BecomesFull(in[e], m)
            arrives == ConsumerOf(e) \in graph.driven
                         /\ (BecomesNonEmpty(in[e], m) \/ (in[e].queue = m.queue /\ BoundAdvances(in[e], m)))
            follows == op[3] # <<>> /\ op[4] # Unset
            o1 == <<"Full", e>>
            o2 == <<"Arrival", e>>
            o3 == <<"Update", e, <<>>, op[4]>>
<1>8. ops = (If(full1, <<o1>>) \o If(arrives, <<o2>>)) \o If(follows, <<o3>>)
  BY <1>4 DEF Callbacks
<1>9. full1 \in BOOLEAN /\ arrives \in BOOLEAN /\ follows \in BOOLEAN
  BY DEF BecomesFull, IsFull
<1>10. o1 \in Operations /\ o2 \in Operations /\ o3 \in Operations
  <2>1. op[4] \in Timestamps /\ <<>> \in Seq(Timestamps)
    BY <1>6 DEF UpdateKept
  <2>2. o1 \in {"Full", "Arrival", "NotFull"} \X Edges /\ o2 \in {"Full", "Arrival", "NotFull"} \X Edges
    BY <1>6
  <2>3. o3 \in {"Update"} \X Edges \X Seq(Timestamps) \X Timestamps
    BY <1>6, <2>1
  <2>. QED  BY <2>2, <2>3 DEF Operations
<1>11. o1[1] = "Full" /\ o1[2] = e /\ o2[1] = "Arrival" /\ o2[2] = e
       /\ o3[1] = "Update" /\ o3[2] = e /\ o3[3] = <<>> /\ o3[4] = op[4]
  OBVIOUS
<1>12. arrives => ConsumerOf(e) \in graph.driven
  OBVIOUS
<1>13. full1 <=> ~ IsFull(in[e]) /\ IsFull(m)
  BY DEF BecomesFull
<1>. HIDE DEF full1, arrives, follows, o1, o2, o3
<1>14. /\ ops \in Seq(Operations)
       /\ \A x \in OpsOf(ops) : (full1 /\ x = o1) \/ (arrives /\ x = o2) \/ (follows /\ x = o3)
       /\ full1 => o1 \in OpsOf(ops)
  <2>1. PICK s1 : s1 = If(full1, <<o1>>)
    OBVIOUS
  <2>2. PICK s2 : s2 = If(arrives, <<o2>>)
    OBVIOUS
  <2>3. PICK s3 : s3 = If(follows, <<o3>>)
    OBVIOUS
  <2>4. s1 \in Seq(Operations) /\ \A x : x \in OpsOf(s1) <=> full1 /\ x = o1
    BY <1>9, <1>10, <2>1, OneOp
  <2>5. s2 \in Seq(Operations) /\ \A x : x \in OpsOf(s2) <=> arrives /\ x = o2
    BY <1>9, <1>10, <2>2, OneOp
  <2>6. s3 \in Seq(Operations) /\ \A x : x \in OpsOf(s3) <=> follows /\ x = o3
    BY <1>9, <1>10, <2>3, OneOp
  <2>7. PICK s12 : s12 = s1 \o s2
    OBVIOUS
  <2>8. s12 \in Seq(Operations) /\ \A x : x \in OpsOf(s12) <=> x \in OpsOf(s1) \/ x \in OpsOf(s2)
    BY <2>4, <2>5, <2>7, BothOps
  <2>9. ops = s12 \o s3
    BY <1>8, <2>1, <2>2, <2>3, <2>7
  <2>10. ops \in Seq(Operations) /\ \A x : x \in OpsOf(ops) <=> x \in OpsOf(s12) \/ x \in OpsOf(s3)
    BY <2>6, <2>8, <2>9, BothOps
  <2>. QED  BY <2>4, <2>5, <2>6, <2>8, <2>10
<1>15. ASSUME NEW x \in OpsOf(ops)
       PROVE  /\ ProducerOp(p, x) /\ x[2] = e
              /\ x[1] = "Update" => x[3] = <<>> /\ op[1] = "Update"
  <2>1. p \in DOMAIN graph.mirrors
    BY <1>6 DEF ProducerOp
  <2>2. CASE x = o1
    BY <1>6, <1>11, <2>1, <2>2 DEF ProducerOp
  <2>3. CASE arrives /\ x = o2
    BY <1>6, <1>11, <1>12, <2>1, <2>3 DEF ProducerOp
  <2>4. CASE x = o3
    <3>1. UpdateKept(out[p].bound, x)
      <4>1. x[3] = <<>> /\ x[4] = op[4] /\ op[4] \in Timestamps /\ op[4] <= out[p].bound /\ <<>> \in Seq(Timestamps)
        BY <1>6, <1>11, <2>4 DEF UpdateKept
      <4>. QED  BY <4>1 DEF UpdateKept, Increasing
    <3>. QED  BY <1>5, <1>6, <1>11, <2>1, <2>4, <3>1 DEF ProducerOp
  <2>. QED  BY <1>14, <2>2, <2>3, <2>4
<1>16. Delivery(p, e, ops, m)
  <2>1. PacketsOf(op) = op[3]
    BY <1>5 DEF PacketsOf
  <2>2. IsFull(m) /\ ~ IsFull(in[e]) => <<"Full", e>> \in OpsOf(ops)
    BY <1>13, <1>14 DEF o1
  <2>. QED  BY <1>1, <1>2, <1>5, <1>7, <1>14, <1>15, <2>1, <2>2 DEF Delivery
<1>17. full \subseteq full' /\ full' \subseteq Edges /\ notified' \subseteq graph.driven
  BY <1>0, <1>5 DEF TypeOK
<1>18. Head(agenda[p])[1] = "Full" => e \in full'
  BY <1>1, <1>5
<1>. QED  BY <1>5, <1>16, <1>17, <1>18, Delivers

\* The steps that only record a callback.
LEMMA CallbackStep ==
    ASSUME StreamsInv, NEW p \in Producers, OnInputStreamFull(p) \/ NotifyPacketArrival(p) PROVE StreamsInv'
<1>0. TypeOK /\ graph \in Graphs
  BY DEF StreamsInv, TypeOK
<1>1. PICK op : op = Head(agenda[p])
  OBVIOUS
<1>2. PICK e : e = op[2]
  OBVIOUS
<1>3. /\ agenda[p] # <<>> /\ op[1] \in {"Full", "Arrival"}
      /\ agenda' = [agenda EXCEPT ![p] = <<>> \o Tail(@)]
      /\ full' = (IF op[1] = "Full" THEN full \cup {e} ELSE full)
      /\ notified' = (IF op[1] = "Arrival" THEN notified \cup {ConsumerOf(e)} ELSE notified)
      /\ UNCHANGED <<graph, in, out, calls, view, stopped, sent, given>>
  <2>1. CASE OnInputStreamFull(p)
    BY <1>1, <1>2, <2>1 DEF OnInputStreamFull, At, Arg, Then
  <2>2. CASE NotifyPacketArrival(p)
    BY <1>1, <1>2, <2>2 DEF NotifyPacketArrival, At, Arg, Then
  <2>. QED  BY <2>1, <2>2
<1>4. /\ ProducerOp(p, op) /\ e \in Edges /\ in[e] \in Managers /\ ManagerOk(PolicyOf(e), in[e], out[p].bound)
  BY <1>1, <1>2, <1>3, NextOperation
<1>5. Delivery(p, e, <<>>, in[e])
  <2>1. PacketsOf(op) = <<>> /\ op[1] # "Update"
    BY <1>3 DEF PacketsOf
  <2>2. in[e].queue \o <<>> = in[e].queue
    <3>1. in[e].queue \in Seq(Timestamps)
      BY <1>4 DEF Managers
    <3>. QED  BY <3>1, ConcatEmptySeq
  <2>3. <<>> \in Seq(Operations) /\ \A x : x \notin OpsOf(<<>>)
    BY DEF OpsOf
  <2>. QED  BY <1>1, <1>2, <1>3, <1>4, <2>1, <2>2, <2>3 DEF Delivery, ReaderKept
<1>6. in' = [in EXCEPT ![e] = in[e]]
  BY <1>0, <1>3, <1>4 DEF TypeOK
<1>7. full \subseteq full' /\ full' \subseteq Edges /\ notified' \subseteq graph.driven
      /\ (Head(agenda[p])[1] = "Full" => e \in full')
  <2>1. op[1] = "Arrival" => ConsumerOf(e) \in graph.driven
    BY <1>2, <1>4 DEF ProducerOp
  <2>. QED  BY <1>0, <1>1, <1>3, <1>4, <2>1 DEF TypeOK
<1>. QED  BY <1>3, <1>5, <1>6, <1>7, Delivers

-----------------------------------------------------------------------------
(* A consumer's step.  Consumer c, whose agenda becomes a, changes nothing *)
(* but its own ports.                                                      *)

Consumption(c, a) ==
    /\ a \in Seq(Operations) /\ agenda' = [agenda EXCEPT ![c] = a]
    /\ view' \in [Consumers -> Seq(Readings)] /\ \A d \in Consumers \ {c} : view'[d] = view[d]
    /\ in' \in [Edges -> Managers] /\ given' \in [Edges -> Seq(Timestamps)]
    /\ notified' \subseteq graph.driven
    /\ stopped \subseteq stopped' /\ stopped' \subseteq graph.driven
    /\ full' \subseteq Edges
    /\ \A e \in Edges : ConsumerOf(e) \notin graph.driven /\ e \in full => e \in full'
    /\ UNCHANGED <<graph, out, calls, sent>>

PortKept(c, e) ==
    /\ EdgeInv(e)'
    /\ in[e].queue = <<>> => in'[e].queue = <<>>
    /\ DropsNothing(e) => given'[e] \o in'[e].queue = given[e] \o in[e].queue
    /\ c \notin graph.driven /\ IsFull(in'[e]) => IsFull(in[e])

LEMMA Consumes ==
    ASSUME StreamsInv, NEW c \in Consumers, NEW a, Consumption(c, a), ConsumerInv(c)',
           \A e \in Edges : ConsumerOf(e) # c => in'[e] = in[e] /\ given'[e] = given[e],
           \A e \in Edges : ConsumerOf(e) = c => PortKept(c, e),
           \A d \in stopped' : d \notin stopped => StoppedInv(d)'
    PROVE  StreamsInv'
<1>0. /\ TypeOK /\ graph \in Graphs /\ graph' = graph /\ out' = out /\ sent' = sent
      /\ stopped \subseteq stopped'
  BY DEF StreamsInv, TypeOK, Consumption
<1>1. /\ a \in Seq(Operations) /\ agenda'[c] = a
      /\ \A t \in Threads \ {c} : agenda'[t] = agenda[t]
      /\ \A p \in Producers : agenda'[p] = agenda[p]
      /\ \A d \in Consumers \ {c} : agenda'[d] = agenda[d] /\ view'[d] = view[d]
  <2>1. c \in Threads /\ \A p \in Producers : p \in Threads \ {c}
    BY ProducerDisjoint DEF Threads
  <2>2. a \in Seq(Operations) /\ agenda'[c] = a /\ \A t \in Threads \ {c} : agenda'[t] = agenda[t]
    BY <1>0, <2>1 DEF Consumption, TypeOK
  <2>. QED  BY <2>1, <2>2 DEF Consumption, Threads
<1>2. TypeOK'
  <2>1. agenda' \in [Threads -> Seq(Operations')]
    BY <1>0, <1>1, GraphKept DEF TypeOK, Consumption
  <2>2. view' \in [Consumers -> Seq([empty : BOOLEAN, ts : Timestamps])]
    BY DEF Consumption, Readings
  <2>3. in' \in [Edges' -> Managers] /\ given' \in [Edges' -> Seq(Timestamps)] /\ full' \subseteq Edges'
    BY <1>0, GraphKept DEF Consumption
  <2>4. notified' \subseteq graph'.driven /\ stopped' \subseteq graph'.driven /\ calls' = calls
    BY <1>0 DEF Consumption
  <2>. QED  BY <1>0, <2>1, <2>2, <2>3, <2>4 DEF TypeOK
<1>3. ASSUME NEW p \in Producers PROVE ProducerInv(p)'
  <2>1. ProducerInv(p)
    BY DEF StreamsInv
  <2>. QED  BY <1>0, <1>1, <2>1, ProducerFrame
<1>4. ASSUME NEW d \in Consumers PROVE ConsumerInv(d)'
  <2>1. CASE d = c
    BY <2>1
  <2>2. CASE d # c
    <3>1. ConsumerInv(d) /\ agenda'[d] = agenda[d] /\ view'[d] = view[d] /\ (d \in stopped => d \in stopped')
      BY <1>0, <1>1, <2>2 DEF StreamsInv
    <3>2. view[d] \in Seq(Readings) /\ agenda[d] \in Seq(Operations)
      BY <1>0, TypeFacts
    <3>3. ASSUME d \in DOMAIN graph.ports, NEW x \in PortEdges(d)
          PROVE  ReaderKept(graph.policy[d], Len(graph.ports[d]), in[x], in'[x])
      <4>1. x \in Edges /\ ConsumerOf(x) = d
        BY <1>0, <3>3, GraphFacts
      <4>. QED  BY <2>2, <4>1 DEF ReaderKept
    <3>. QED  BY <1>0, <3>1, <3>2, <3>3, ConsumerFrame
  <2>. QED  BY <2>1, <2>2
<1>5. ASSUME NEW e \in Edges PROVE EdgeInv(e)'
  <2>1. CASE ConsumerOf(e) = c
    BY <2>1 DEF PortKept
  <2>2. CASE ConsumerOf(e) # c
    <3>1. EdgeInv(e) /\ ProducerOf(e) \in Producers /\ in'[e] = in[e]
      BY <1>0, <2>2, TypeFacts DEF StreamsInv
    <3>. QED  BY <1>0, <1>1, <3>1, EdgeFrame
  <2>. QED  BY <2>1, <2>2
<1>6. ASSUME NEW d \in stopped' PROVE StoppedInv(d)'
  <2>1. CASE d \notin stopped
    BY <2>1
  <2>2. CASE d \in stopped
    <3>1. StoppedInv(d) /\ d \in DOMAIN graph.ports
      BY <1>0, <2>2, GraphFacts DEF StreamsInv, TypeOK
    <3>2. ASSUME NEW e \in PortEdges(d)
          PROVE  /\ in[e].queue = <<>> => in'[e].queue = <<>>
                 /\ agenda'[ProducerOf(e)] = agenda[ProducerOf(e)]
                 /\ out'[ProducerOf(e)] = out[ProducerOf(e)]
      <4>1. e \in Edges /\ ProducerOf(e) \in Producers
        BY <1>0, <3>1, GraphFacts
      <4>. QED  BY <1>0, <1>1, <4>1 DEF PortKept
    <3>. QED  BY <1>0, <3>1, <3>2, StoppedFrame
  <2>. QED  BY <2>1, <2>2
<1>7. Lossless'
  <2>1. ASSUME NEW e \in Edges, DropsNothing(e)
        PROVE  sent'[ProducerOf(e)] = given'[e] \o in'[e].queue \o OnWay(agenda'[ProducerOf(e)], e)
    <3>1. sent[ProducerOf(e)] = given[e] \o in[e].queue \o OnWay(agenda[ProducerOf(e)], e)
      BY <2>1, OnTheWayIs DEF StreamsInv, Lossless
    <3>2. given'[e] \o in'[e].queue = given[e] \o in[e].queue
      BY <2>1 DEF PortKept
    <3>3. agenda'[ProducerOf(e)] = agenda[ProducerOf(e)]
      BY <1>0, <1>1, TypeFacts
    <3>. QED  BY <1>0, <3>1, <3>2, <3>3
  <2>. QED  BY <1>0, <2>1, LosslessNext
<1>8. FullIsRecorded'
  <2>1. ASSUME NEW e \in Edges, ConsumerOf(e) \notin graph.driven, IsFull(in'[e]),
               <<"Full", e>> \notin OpsOf(agenda'[ProducerOf(e)])
        PROVE  e \in full'
    <3>1. agenda'[ProducerOf(e)] = agenda[ProducerOf(e)]
      BY <1>0, <1>1, TypeFacts
    <3>2. IsFull(in[e])
      BY <2>1 DEF PortKept
    <3>3. e \in full
      BY <2>1, <3>1, <3>2, RecordedNow
    <3>. QED  BY <2>1, <3>3 DEF Consumption
  <2>. QED  BY <1>0, <2>1, RecordedNext
<1>. QED  BY <1>0, <1>2, <1>3, <1>4, <1>5, <1>6, <1>7, <1>8, GraphKept DEF StreamsInv

\* A step that leaves the managers alone.
LEMMA Reads ==
    ASSUME StreamsInv, NEW c \in Consumers, NEW a, Consumption(c, a), ConsumerInv(c)', in' = in, given' = given,
           \A d \in stopped' : d \notin stopped => StoppedInv(d)'
    PROVE  StreamsInv'
<1>0. TypeOK /\ graph' = graph /\ out' = out /\ stopped \subseteq stopped'
  BY DEF StreamsInv, Consumption
<1>1. \A p \in Producers : agenda'[p] = agenda[p]
  <2>1. \A p \in Producers : p \in Threads /\ p # c
    BY ProducerDisjoint DEF Threads
  <2>. QED  BY <1>0, <2>1 DEF Consumption, TypeOK
<1>2. ASSUME NEW e \in Edges PROVE PortKept(c, e)
  <2>1. EdgeInv(e) /\ ProducerOf(e) \in Producers
    BY <1>0, TypeFacts DEF StreamsInv
  <2>2. EdgeInv(e)'
    BY <1>0, <1>1, <2>1, EdgeFrame
  <2>. QED  BY <2>2 DEF PortKept
<1>. QED  BY <1>2, Consumes

-----------------------------------------------------------------------------
(* The operations of a consumer.                                           *)

LEMMA ConsumerOps ==
    ASSUME NEW i \in Nat, NEW k \in Nat
    PROVE  /\ {<<"IsFull", i>>, <<"Close", i>>, <<"PopQueueHead", i>>, <<"Read", i, k>>} \subseteq Operations
           /\ \A t \in Timestamps : <<"Pop", i, t>> \in Operations
           /\ \A e \in Edges : <<"NotFull", e>> \in Operations
BY DEF Operations

\* The next operation of consumer c.
LEMMA NextConsumerOperation ==
    ASSUME StreamsInv, NEW c \in Consumers, agenda[c] # <<>>, NEW op, op = Head(agenda[c])
    PROVE  /\ op = agenda[c][1] /\ op \in OpsOf(agenda[c]) /\ ConsumerOp(c, op) /\ c \in DOMAIN graph.ports
           /\ Len(agenda[c]) \in Nat /\ Len(agenda[c]) > 0
           /\ op[1] # "NotFull" => /\ op[2] \in 1..Len(graph.ports[c]) /\ op[2] \in Nat
                                   /\ graph.ports[c][op[2]] \in PortEdges(c)
                                   /\ graph.ports[c][op[2]] \in Edges
<1>0. TypeOK /\ graph \in Graphs /\ ConsumerInv(c)
  BY DEF StreamsInv, TypeOK
<1>1. Len(agenda[c]) \in Nat /\ Len(agenda[c]) > 0 /\ op = agenda[c][1]
  <2>1. agenda[c] \in Seq(Operations)
    BY <1>0, TypeFacts
  <2>. QED  BY <2>1, EmptySeq
<1>2. op \in OpsOf(agenda[c])
  <2>1. 1 \in 1..Len(agenda[c])
    BY <1>1
  <2>. QED  BY <1>1, <2>1 DEF OpsOf
<1>3. ConsumerOp(c, op) /\ c \in DOMAIN graph.ports
  BY <1>0, <1>2 DEF ConsumerInv, ConsumerOp
<1>4. ASSUME op[1] # "NotFull"
      PROVE  /\ op[2] \in 1..Len(graph.ports[c]) /\ op[2] \in Nat
             /\ graph.ports[c][op[2]] \in PortEdges(c) /\ graph.ports[c][op[2]] \in Edges
  <2>1. op[2] \in 1..Len(graph.ports[c])
    BY <1>3, <1>4 DEF ConsumerOp
  <2>. QED  BY <1>0, <1>3, <2>1, GraphFacts
<1>. QED  BY <1>1, <1>2, <1>3, <1>4

\* After an operation that is not a Read the rest of the agenda follows, perhaps
\* after a callback.
LEMMA ThenInv ==
    ASSUME StreamsInv, graph' = graph, NEW c \in Consumers, NEW a, a = agenda[c], a # <<>>, a[1][1] # "Read",
           NEW ops \in Seq(Operations), agenda'[c] = ops \o Tail(a), view'[c] = view[c],
           \A op \in OpsOf(ops) : op[1] = "NotFull" /\ op[2] \in PortEdges(c),
           ops # <<>> => c \in graph.driven,
           c \in stopped => c \in stopped',
           \A i \in 2..Len(a) : a[i][1] = "Pop" =>
              PopOk(graph.policy[c], Len(graph.ports[c]), in'[graph.ports[c][a[i][2]]], a[i][3]),
           \A i \in 1..Len(view[c]) :
              graph.policy[c] = "default" => ReadingOk(in'[graph.ports[c][i]], view[c][i])
    PROVE  ConsumerInv(c)' /\ agenda'[c] \in Seq(Operations)
<1>0. TypeOK /\ graph \in Graphs /\ ConsumerInv(c) /\ a \in Seq(Operations)
  BY TypeFacts DEF StreamsInv, TypeOK
<1>1. PICK b : b = agenda'[c]
  OBVIOUS
<1>2. b \in Seq(Operations) /\ Replaced(a, ops, b)
  BY <1>0, <1>1, ThenOps
<1>3. /\ Len(a) \in Nat /\ Len(a) > 0 /\ Len(ops) \in Nat /\ Len(b) \in Nat /\ Len(b) = Len(ops) + (Len(a) - 1)
      /\ a[1] \in OpsOf(a)
      /\ \A i \in 2..Len(a) : Len(ops) + (i - 1) \in 1..Len(b) /\ b[Len(ops) + (i - 1)] = a[i]
      /\ \A i \in 1..Len(b) : /\ i <= Len(ops) => b[i] \in OpsOf(ops)
                              /\ i > Len(ops) => i - Len(ops) + 1 \in 2..Len(a) /\ b[i] = a[i - Len(ops) + 1]
  BY <1>2 DEF Replaced
<1>4. c \in DOMAIN graph.ports
  BY <1>0, <1>3 DEF ConsumerInv, ConsumerOp
<1>5. ASSUME NEW op \in OpsOf(b) PROVE ConsumerOp(c, op)'
  <2>1. PICK i \in 1..Len(b) : op = b[i]
    BY DEF OpsOf
  <2>2. CASE i <= Len(ops)
    <3>1. op[1] = "NotFull" /\ op[2] \in PortEdges(c) /\ c \in graph.driven
      <4>1. op \in OpsOf(ops) /\ ops # <<>>
        BY <1>3, <2>1, <2>2 DEF OpsOf
      <4>. QED  BY <4>1
    <3>. QED  BY <1>4, <3>1, GraphKept DEF ConsumerOp
  <2>3. CASE i > Len(ops)
    <3>1. PICK j \in 2..Len(a) : op = a[j]
      BY <1>3, <2>1, <2>3
    <3>2. op \in OpsOf(a)
      BY <1>3, <3>1 DEF OpsOf
    <3>3. ConsumerOp(c, op)
      BY <1>0, <3>2 DEF ConsumerInv
    <3>4. op[1] = "Pop" => PopOk(graph.policy[c], Len(graph.ports[c]), in'[graph.ports[c][op[2]]], op[3])
      BY <3>1
    <3>. QED  BY <3>3, <3>4, GraphKept DEF ConsumerOp
  <2>. QED  BY <1>3, <2>2, <2>3
<1>6. ReadsLast(b)
  <2>0. ReadsLast(a)
    BY <1>0 DEF ConsumerInv
  <2>1. ASSUME NEW i \in 1..Len(b), b[i][1] = "Read" \/ b[i][1] = "Pop"
        PROVE  i > Len(ops) /\ i - Len(ops) + 1 \in 1..Len(a) /\ b[i] = a[i - Len(ops) + 1]
    <3>1. ~ (i <= Len(ops))
      BY <1>3, <2>1
    <3>2. i > Len(ops)
      BY <1>3, <3>1
    <3>. QED  BY <1>3, <3>2
  <2>2. ASSUME NEW i \in 1..Len(b), b[i][1] = "Read" PROVE i = Len(b)
    <3>1. i > Len(ops) /\ i - Len(ops) + 1 \in 1..Len(a) /\ b[i] = a[i - Len(ops) + 1]
      BY <2>1, <2>2
    <3>2. i - Len(ops) + 1 = Len(a)
      BY <2>0, <2>2, <3>1 DEF ReadsLast
    <3>. QED  BY <1>3, <3>2
  <2>3. ASSUME NEW i \in 1..Len(b), NEW j \in 1..Len(b), b[i][1] = "Pop", b[j][1] = "Pop", b[i][2] = b[j][2]
        PROVE  i = j
    <3>1. i - Len(ops) + 1 \in 1..Len(a) /\ b[i] = a[i - Len(ops) + 1]
      BY <2>1, <2>3
    <3>2. j - Len(ops) + 1 \in 1..Len(a) /\ b[j] = a[j - Len(ops) + 1]
      BY <2>1, <2>3
    <3>3. i - Len(ops) + 1 = j - Len(ops) + 1
      BY <2>0, <2>3, <3>1, <3>2 DEF ReadsLast
    <3>. QED  BY <1>3, <3>3
  <2>. QED  BY <2>2, <2>3 DEF ReadsLast
<1>7. ASSUME view[c] # <<>> PROVE ViewOk(c)'
  <2>1. ViewOk(c)
    BY <1>0, <1>7 DEF ConsumerInv
  <2>2. a[Len(a)][1] = "Read"
    BY <2>1 DEF ViewOk
  <2>3. Len(a) \in 2..Len(a)
    BY <1>3, <2>2
  <2>4. Len(b) \in 1..Len(b) /\ b[Len(b)] = a[Len(a)]
    BY <1>3, <2>3
  <2>5. b # <<>>
    BY <1>2, <2>4
  <2>. QED  BY <1>1, <2>2, <2>4, <2>5 DEF ViewOk
<1>. QED  BY <1>1, <1>2, <1>5, <1>6, <1>7 DEF ConsumerInv

\* The agenda of a handler that goes on to read port i.
ReadAgenda(s, i, k) ==
    /\ s \in Seq(Operations) /\ s # <<>> /\ Len(s) \in {1, 2} /\ s[Len(s)] = <<"Read", i, k>>
    /\ Len(s) = 2 => s[1] = <<"IsFull", i>>

LEMMA EvaluateOps ==
    ASSUME NEW c, NEW i \in Nat, NEW k \in Nat
    PROVE  ReadAgenda(EvaluateFrom(c, i, k), i, k)
<1>0. PICK s : s = EvaluateFrom(c, i, k)
  OBVIOUS
<1>1. CASE graph.policy[c] = "fixed_size"
  <2>1. s = << <<"IsFull", i>> >> \o << <<"Read", i, k>> >>
    BY <1>0, <1>1 DEF EvaluateFrom, If
  <2>2. <<"IsFull", i>> \in Operations /\ <<"Read", i, k>> \in Operations
    BY ConsumerOps
  <2>. QED  BY <1>0, <2>1, <2>2 DEF ReadAgenda
<1>2. CASE graph.policy[c] # "fixed_size"
  <2>1. s = <<>> \o << <<"Read", i, k>> >>
    BY <1>0, <1>2 DEF EvaluateFrom, If
  <2>2. <<"Read", i, k>> \in Operations
    BY ConsumerOps
  <2>3. <<>> \o << <<"Read", i, k>> >> = << <<"Read", i, k>> >>
    BY <2>2, ConcatEmptySeq
  <2>. QED  BY <1>0, <2>1, <2>2, <2>3 DEF ReadAgenda
<1>. QED  BY <1>1, <1>2

\* It has the readings v so far.
LEMMA EvaluateInv ==
    ASSUME StreamsInv, graph' = graph, NEW c \in graph.driven, NEW v \in Seq(Readings), view'[c] = v,
           NEW i, i = Len(v) + 1, i \in 1..Len(graph.ports[c]), NEW k \in Nat, agenda'[c] = EvaluateFrom(c, i, k),
           \A j \in 1..Len(v) : graph.policy[c] = "default" => ReadingOk(in'[graph.ports[c][j]], v[j])
    PROVE  ConsumerInv(c)'
<1>0. graph \in Graphs /\ c \in DOMAIN graph.ports /\ i \in Nat
  BY GraphFacts DEF StreamsInv, TypeOK
<1>1. PICK s : s = agenda'[c]
  OBVIOUS
<1>2. /\ s \in Seq(Operations) /\ s # <<>> /\ Len(s) \in {1, 2} /\ s[Len(s)] = <<"Read", i, k>>
      /\ Len(s) = 2 => s[1] = <<"IsFull", i>>
  <2>1. ReadAgenda(EvaluateFrom(c, i, k), i, k)
    BY <1>0, EvaluateOps
  <2>2. ReadAgenda(s, i, k)
    BY <1>1, <2>1
  <2>. QED  BY <2>2 DEF ReadAgenda
<1>3. ASSUME NEW j \in 1..Len(s)
      PROVE  (s[j] = <<"Read", i, k>> /\ j = Len(s)) \/ s[j] = <<"IsFull", i>>
  BY <1>2
<1>4. ASSUME NEW op \in OpsOf(s) PROVE ConsumerOp(c, op)'
  <2>1. op = <<"Read", i, k>> \/ op = <<"IsFull", i>>
    BY <1>3 DEF OpsOf
  <2>2. CASE op = <<"Read", i, k>>
    <3>1. op[1] = "Read" /\ op[2] = i /\ op[3] = k
      BY <2>2
    <3>. QED  BY <1>0, <3>1 DEF ConsumerOp
  <2>3. CASE op = <<"IsFull", i>>
    <3>1. op[1] = "IsFull" /\ op[2] = i
      BY <2>3
    <3>. QED  BY <1>0, <3>1 DEF ConsumerOp
  <2>. QED  BY <2>1, <2>2, <2>3
<1>5. ReadsLast(s)
  BY <1>3 DEF ReadsLast
<1>6. ViewOk(c)'
  <2>1. s[Len(s)][1] = "Read"
    BY <1>2
  <2>. QED  BY <1>1, <1>2, <2>1 DEF ViewOk
<1>. QED  BY <1>1, <1>4, <1>5, <1>6 DEF ConsumerInv

\* What a step of consumer c that leaves the managers alone has to show.
LEMMA ReadsOnly ==
    ASSUME StreamsInv, NEW c \in Consumers, NEW a \in Seq(Operations), agenda' = [agenda EXCEPT ![c] = a],
           NEW v \in Seq(Readings), view' = [view EXCEPT ![c] = v],
           notified' \subseteq graph.driven, stopped \subseteq stopped', stopped' \subseteq graph.driven,
           full' \subseteq full, \A e \in full \ full' : ConsumerOf(e) \in graph.driven,
           UNCHANGED <<graph, in, out, calls, sent, given>>,
           ConsumerInv(c)', \A d \in stopped' : d \notin stopped => StoppedInv(d)'
    PROVE  StreamsInv'
<1>0. TypeOK
  BY DEF StreamsInv
<1>1. view' \in [Consumers -> Seq(Readings)] /\ \A d \in Consumers \ {c} : view'[d] = view[d]
  BY <1>0 DEF TypeOK, Readings
<1>2. in' \in [Edges -> Managers] /\ given' \in [Edges -> Seq(Timestamps)] /\ full' \subseteq Edges
  BY <1>0 DEF TypeOK
<1>3. Consumption(c, a)
  BY <1>1, <1>2 DEF Consumption
<1>. QED  BY <1>3, Reads

\* An idle consumer has no readings.
LEMMA IdleView ==
    ASSUME StreamsInv, NEW c \in Consumers, agenda[c] = <<>> \/ c \notin graph.driven PROVE view[c] = <<>>
<1>0. graph \in Graphs /\ TypeOK /\ ConsumerInv(c)
  BY DEF StreamsInv, TypeOK
<1>1. Len(view[c]) \in Nat /\ agenda[c] \in Seq(Operations)
  BY <1>0, TypeFacts
<1>2. ASSUME view[c] # <<>> PROVE FALSE
  <2>1. ViewOk(c)
    BY <1>0, <1>2 DEF ConsumerInv
  <2>2. c \in graph.driven
    BY <1>0, <1>1, <2>1, ViewedPorts
  <2>. QED  BY <2>1, <2>2 DEF ViewOk
<1>. QED  BY <1>2

LEMMA ScheduleStep ==
    ASSUME StreamsInv, NEW c \in Consumers, ScheduleInvocations(c) PROVE StreamsInv'
<1>0. /\ TypeOK /\ graph \in Graphs /\ c \in graph.driven /\ agenda[c] = <<>>
      /\ notified' = notified \ {c}
      /\ agenda' = [agenda EXCEPT ![c] = EvaluateFrom(c, 1, MaxAllowance)]
      /\ UNCHANGED <<graph, in, out, calls, view, stopped, full, sent, given>>
  BY DEF StreamsInv, TypeOK, ScheduleInvocations
<1>1. MaxAllowance \in Nat /\ 1 \in Nat
  BY StreamsAssumption
<1>2. PICK a : a = EvaluateFrom(c, 1, MaxAllowance)
  OBVIOUS
<1>3. a \in Seq(Operations)
  <2>1. ReadAgenda(EvaluateFrom(c, 1, MaxAllowance), 1, MaxAllowance)
    BY <1>1, EvaluateOps
  <2>. QED  BY <1>2, <2>1 DEF ReadAgenda
<1>4. agenda'[c] = EvaluateFrom(c, 1, MaxAllowance)
  BY <1>0 DEF TypeOK, Threads
<1>5. view[c] = <<>>
  BY <1>0, IdleView
<1>6. PICK v : v = view[c]
  OBVIOUS
<1>7. /\ v \in Seq(Readings) /\ view'[c] = v /\ Len(v) + 1 = 1 /\ 1..Len(v) = {}
      /\ view' = [view EXCEPT ![c] = v]
  <2>1. v = <<>> /\ <<>> \in Seq(Readings)
    BY <1>5, <1>6
  <2>2. Len(v) = 0
    BY <2>1
  <2>3. view \in [Consumers -> Seq(Readings)] /\ view' = view
    BY <1>0 DEF TypeOK, Readings
  <2>4. view' = [view EXCEPT ![c] = v] /\ view'[c] = v
    BY <1>6, <2>3
  <2>. QED  BY <2>1, <2>2, <2>4
<1>8. 1 \in 1..Len(graph.ports[c])
  BY <1>0, GraphFacts
<1>9. ConsumerInv(c)'
  BY <1>0, <1>1, <1>4, <1>7, <1>8, EvaluateInv
<1>10. notified' \subseteq graph.driven /\ stopped \subseteq stopped' /\ stopped' \subseteq graph.driven
       /\ stopped' = stopped /\ full' = full
  BY <1>0 DEF TypeOK
<1>. QED  BY <1>0, <1>2, <1>3, <1>7, <1>9, <1>10, ReadsOnly

\* The rest of an agenda, when nothing else changes.
LEMMA RestInv ==
    ASSUME StreamsInv, graph' = graph, in' = in, NEW c \in Consumers, agenda[c] # <<>>,
           Head(agenda[c])[1] # "Read", agenda'[c] = <<>> \o Tail(agenda[c]), view'[c] = view[c],
           c \in stopped => c \in stopped'
    PROVE  ConsumerInv(c)' /\ agenda'[c] \in Seq(Operations)
<1>0. TypeOK /\ graph \in Graphs /\ ConsumerInv(c)
  BY DEF StreamsInv, TypeOK
<1>1. PICK a : a = agenda[c]
  OBVIOUS
<1>2. a # <<>> /\ a[1][1] # "Read"
  BY <1>1, NextConsumerOperation
<1>3. <<>> \in Seq(Operations) /\ \A op : op \notin OpsOf(<<>>)
  BY DEF OpsOf
<1>4. ASSUME NEW i \in 2..Len(a), a[i][1] = "Pop"
      PROVE  PopOk(graph.policy[c], Len(graph.ports[c]), in'[graph.ports[c][a[i][2]]], a[i][3])
  <2>1. a[i] \in OpsOf(agenda[c])
    BY <1>1 DEF OpsOf
  <2>. QED  BY <1>0, <1>4, <2>1 DEF ConsumerInv, ConsumerOp
<1>5. ASSUME NEW i \in 1..Len(view[c]), graph.policy[c] = "default"
      PROVE  ReadingOk(in'[graph.ports[c][i]], view[c][i])
  <2>1. view[c] # <<>>
    BY <1>5
  <2>. QED  BY <1>0, <1>5, <2>1 DEF ConsumerInv, ViewOk
<1>. QED  BY <1>1, <1>2, <1>3, <1>4, <1>5, ThenInv

LEMMA IsFullStep ==
    ASSUME StreamsInv, NEW c \in Consumers, IsFullPort(c) PROVE StreamsInv'
<1>0. /\ TypeOK /\ graph \in Graphs /\ agenda[c] # <<>> /\ Head(agenda[c])[1] = "IsFull" /\ view \in [Consumers -> Seq(Readings)]
      /\ UNCHANGED <<graph, in, out, calls, notified, stopped, full, sent, given>>
      /\ notified \subseteq graph.driven /\ stopped \subseteq graph.driven
  BY DEF StreamsInv, TypeOK, IsFullPort, At, Readings
<1>1. CASE agenda' = [agenda EXCEPT ![c] = <<>>] /\ view' = [view EXCEPT ![c] = <<>>]
  <2>1. agenda'[c] = <<>> /\ view'[c] = <<>> /\ <<>> \in Seq(Operations) /\ <<>> \in Seq(Readings)
    BY <1>0, <1>1 DEF TypeOK, Threads
  <2>2. ConsumerInv(c)'
    BY <2>1 DEF ConsumerInv, OpsOf, ReadsLast
  <2>. QED  BY <1>0, <1>1, <2>1, <2>2, ReadsOnly
<1>2. CASE Then(c, <<>>) /\ view' = view
  <2>1. PICK b : b = <<>> \o Tail(agenda[c])
    OBVIOUS
  <2>2. agenda' = [agenda EXCEPT ![c] = b] /\ agenda'[c] = b
    BY <1>0, <1>2, <2>1 DEF Then, TypeOK, Threads
  <2>3. ConsumerInv(c)' /\ agenda'[c] \in Seq(Operations)
    BY <1>0, <1>2, <2>1, <2>2, RestInv
  <2>4. view' = [view EXCEPT ![c] = view[c]] /\ view[c] \in Seq(Readings)
    BY <1>0, <1>2
  <2>. QED  BY <1>0, <2>2, <2>3, <2>4, ReadsOnly
<1>. QED  BY <1>1, <1>2 DEF IsFullPort

LEMMA NotFullStep ==
    ASSUME StreamsInv, NEW c \in Consumers, OnInputStreamNotFull(c) PROVE StreamsInv'
<1>0. /\ TypeOK /\ graph \in Graphs /\ agenda[c] # <<>> /\ Head(agenda[c])[1] = "NotFull" /\ view \in [Consumers -> Seq(Readings)]
      /\ full' = full \ {Head(agenda[c])[2]} /\ Then(c, <<>>)
      /\ UNCHANGED <<graph, in, out, calls, view, notified, stopped, sent, given>>
      /\ notified \subseteq graph.driven /\ stopped \subseteq graph.driven
  BY DEF StreamsInv, TypeOK, OnInputStreamNotFull, At, Arg, Readings
<1>1. PICK b : b = <<>> \o Tail(agenda[c])
  OBVIOUS
<1>2. agenda' = [agenda EXCEPT ![c] = b] /\ agenda'[c] = b
  BY <1>0, <1>1 DEF Then, TypeOK, Threads
<1>3. ConsumerInv(c)' /\ agenda'[c] \in Seq(Operations)
  BY <1>0, <1>1, <1>2, RestInv
<1>4. view' = [view EXCEPT ![c] = view[c]] /\ view[c] \in Seq(Readings)
  BY <1>0
<1>5. ASSUME NEW e \in full \ full' PROVE ConsumerOf(e) \in graph.driven
  <2>1. e = Head(agenda[c])[2]
    BY <1>0
  <2>2. ConsumerOp(c, Head(agenda[c])) /\ c \in DOMAIN graph.ports
    BY <1>0, NextConsumerOperation
  <2>3. e \in PortEdges(c) /\ c \in graph.driven
    BY <1>0, <2>1, <2>2 DEF ConsumerOp
  <2>. QED  BY <1>0, <2>2, <2>3, GraphFacts
<1>. QED  BY <1>0, <1>2, <1>3, <1>4, <1>5, ReadsOnly

LEMMA RunNodeStep ==
    ASSUME StreamsInv, NEW c \in Consumers, RunNode(c) PROVE StreamsInv'
<1>. DEFINE s == [i \in 1..Len(graph.ports[c]) |-> <<"PopQueueHead", i>>]
<1>0. /\ TypeOK /\ graph \in Graphs /\ c \in DOMAIN graph.ports /\ c \notin graph.driven
      /\ agenda' = [agenda EXCEPT ![c] = s] /\ view \in [Consumers -> Seq(Readings)]
      /\ UNCHANGED <<graph, in, out, calls, view, notified, stopped, full, sent, given>>
      /\ notified \subseteq graph.driven /\ stopped \subseteq graph.driven
  BY DEF StreamsInv, TypeOK, RunNode, Readings
<1>1. s \in Seq(Operations) /\ Len(s) = Len(graph.ports[c])
      /\ \A i \in 1..Len(s) : s[i] = <<"PopQueueHead", i>>
  <2>1. Len(graph.ports[c]) \in Nat
    BY <1>0, GraphFacts
  <2>2. ASSUME NEW i \in 1..Len(graph.ports[c]) PROVE <<"PopQueueHead", i>> \in Operations
    <3>1. i \in Nat /\ 0 \in Nat
      BY <2>1
    <3>2. {<<"IsFull", i>>, <<"Close", i>>, <<"PopQueueHead", i>>, <<"Read", i, 0>>} \subseteq Operations
      BY <3>1, ConsumerOps
    <3>. QED  BY <3>2
  <2>3. s \in [1..Len(graph.ports[c]) -> Operations]
    BY <2>2
  <2>. QED  BY <2>1, <2>3
<1>2. agenda'[c] = s
  BY <1>0 DEF TypeOK, Threads
<1>. HIDE DEF s
<1>3. view[c] = <<>> /\ view' = [view EXCEPT ![c] = view[c]] /\ view[c] \in Seq(Readings)
  BY <1>0, IdleView
<1>4. ConsumerInv(c)'
  <2>1. ASSUME NEW op \in OpsOf(s) PROVE ConsumerOp(c, op)'
    <3>1. PICK i \in 1..Len(graph.ports[c]) : op = <<"PopQueueHead", i>>
      BY <1>1 DEF OpsOf
    <3>2. op[1] = "PopQueueHead" /\ op[2] = i
      BY <3>1
    <3>. QED  BY <1>0, <3>2 DEF ConsumerOp
  <2>2. ReadsLast(s)
    <3>1. \A i \in 1..Len(s) : s[i][1] = "PopQueueHead"
      BY <1>1
    <3>. QED  BY <3>1 DEF ReadsLast
  <2>. QED  BY <1>0, <1>2, <1>3, <2>1, <2>2 DEF ConsumerInv
<1>. QED  BY <1>0, <1>1, <1>3, <1>4, ReadsOnly

-----------------------------------------------------------------------------
(* Reading a port.                                                         *)

\* A Read is the last operation of its consumer, and of the next port.
LEMMA NextRead ==
    ASSUME StreamsInv, NEW c \in Consumers, agenda[c] # <<>>, NEW op, op = Head(agenda[c]), op[1] = "Read"
    PROVE  /\ c \in graph.driven /\ c \in DOMAIN graph.ports /\ Tail(agenda[c]) = <<>>
           /\ op[2] = Len(view[c]) + 1 /\ op[2] \in 1..Len(graph.ports[c]) /\ op[3] \in Nat
<1>0. TypeOK /\ graph \in Graphs /\ ConsumerInv(c) /\ agenda[c] \in Seq(Operations)
  BY TypeFacts DEF StreamsInv, TypeOK
<1>1. /\ op = agenda[c][1] /\ ConsumerOp(c, op) /\ Len(agenda[c]) \in Nat /\ Len(agenda[c]) > 0
      /\ op[2] \in 1..Len(graph.ports[c]) /\ c \in DOMAIN graph.ports
  BY NextConsumerOperation
<1>2. 1 = Len(agenda[c])
  <2>1. ReadsLast(agenda[c]) /\ 1 \in 1..Len(agenda[c]) /\ agenda[c][1][1] = "Read"
    BY <1>0, <1>1 DEF ConsumerInv
  <2>. QED  BY <2>1 DEF ReadsLast
<1>3. Tail(agenda[c]) = <<>>
  <2>1. Tail(agenda[c]) \in Seq(Operations) /\ Len(Tail(agenda[c])) = 0
    BY <1>0, <1>2
  <2>. QED  BY <2>1, EmptySeq
<1>. QED  BY <1>1, <1>3 DEF ConsumerOp

\* What handler c has read when it has the readings v.
ReadingsOk(c, v) ==
    /\ v \in Seq(Readings) /\ v # <<>> /\ Len(v) \in 1..Len(graph.ports[c])
    /\ v[Len(v)] = MinTimestampOrBound(in[graph.ports[c][Len(v)]])
    /\ graph.policy[c] = "default" => \A j \in 1..Len(v) : ReadingOk(in[graph.ports[c][j]], v[j])

LEMMA NewReading ==
    ASSUME StreamsInv, NEW c \in Consumers, agenda[c] # <<>>, NEW op, op = Head(agenda[c]), op[1] = "Read",
           NEW v, v = Append(view[c], MinTimestampOrBound(in[graph.ports[c][op[2]]]))
    PROVE  ReadingsOk(c, v) /\ Len(v) = op[2]
<1>0. TypeOK /\ graph \in Graphs /\ ConsumerInv(c) /\ view[c] \in Seq(Readings) /\ Len(view[c]) \in Nat
  BY TypeFacts DEF StreamsInv, TypeOK
<1>1. c \in DOMAIN graph.ports /\ op[2] = Len(view[c]) + 1 /\ op[2] \in 1..Len(graph.ports[c])
  BY NextRead
<1>2. PICK m : m = in[graph.ports[c][op[2]]]
  OBVIOUS
<1>3. m \in Managers /\ m.queue \in Seq(Timestamps) /\ m.bound \in Timestamps /\ Increasing(m.queue)
  <2>1. graph.ports[c][op[2]] \in Edges
    BY SMTT(40), <1>0, <1>1, GraphFacts
  <2>2. in[graph.ports[c][op[2]]] \in Managers /\ EdgeInv(graph.ports[c][op[2]])
    BY <1>0, <2>1, TypeFacts DEF StreamsInv
  <2>3. Increasing(m.queue)
    BY <1>2, <2>2 DEF EdgeInv, ManagerOk
  <2>. QED  BY <1>2, <2>2, <2>3 DEF Managers
<1>4. PICK x : x = MinTimestampOrBound(m)
  OBVIOUS
<1>5. x \in Readings /\ ReadingOk(m, x)
  <2>1. CASE m.queue = <<>>
    <3>1. x = [empty |-> TRUE, ts |-> m.bound]
      BY <1>4, <2>1 DEF MinTimestampOrBound
    <3>2. x.ts <= m.bound /\ Len(m.queue) = 0
      BY <1>3, <2>1, <3>1, TimestampsInt
    <3>. QED  BY <1>3, <3>1, <3>2 DEF Readings, ReadingOk
  <2>2. CASE m.queue # <<>>
    <3>1. x = [empty |-> FALSE, ts |-> Head(m.queue)]
      BY <1>4, <2>2 DEF MinTimestampOrBound
    <3>2. Head(m.queue) \in Timestamps
      BY <1>3, <2>2, EmptySeq
    <3>. QED  BY <2>2, <3>1, <3>2 DEF Readings, ReadingOk
  <2>. QED  BY <2>1, <2>2
<1>6. v = Append(view[c], x) /\ v \in Seq(Readings) /\ Len(v) = Len(view[c]) + 1 /\ v[Len(v)] = x
      /\ \A j \in 1..Len(view[c]) : v[j] = view[c][j]
  <2>1. PICK w : w = view[c]
    OBVIOUS
  <2>2. w \in Seq(Readings) /\ v = Append(w, x) /\ x \in Readings
    BY <1>0, <1>2, <1>4, <1>5, <2>1
  <2>3. v \in Seq(Readings) /\ Len(v) = Len(w) + 1 /\ \A j \in 1..Len(w) : v[j] = w[j]
    BY <2>2
  <2>4. v[Len(w) + 1] = x
    BY <2>2
  <2>. QED  BY <2>1, <2>2, <2>3, <2>4
<1>7. ASSUME graph.policy[c] = "default", NEW j \in 1..Len(v) PROVE ReadingOk(in[graph.ports[c][j]], v[j])
  <2>1. CASE j = Len(v)
    BY <1>1, <1>2, <1>5, <1>6, <2>1
  <2>2. CASE j # Len(v)
    <3>1. j \in 1..Len(view[c]) /\ view[c] # <<>>
      BY <1>0, <1>6, <2>2
    <3>2. ReadingOk(in[graph.ports[c][j]], view[c][j])
      BY <1>0, <1>7, <3>1 DEF ConsumerInv, ViewOk
    <3>. QED  BY <1>6, <3>1, <3>2
  <2>. QED  BY <2>1, <2>2
<1>8. v # <<>>
  BY <1>0, <1>6
<1>. QED  BY <1>1, <1>2, <1>4, <1>6, <1>7, <1>8 DEF ReadingsOk

\* The default handler's readings tell what its managers have.
LEMMA DefaultReadings ==
    ASSUME StreamsInv, NEW c \in DOMAIN graph.ports, graph.policy[c] = "default", NEW v, ReadingsOk(c, v)
    PROVE  \A j \in 1..Len(v) :
              /\ v[j] \in Readings /\ graph.ports[c][j] \in Edges
              /\ ReadingOk(in[graph.ports[c][j]], v[j])
              /\ ManagerOk("default", in[graph.ports[c][j]], out[ProducerOf(graph.ports[c][j])].bound)
              /\ ~ v[j].empty => IsAllowedInStream(v[j].ts)
<1>. SUFFICES ASSUME NEW j \in 1..Len(v)
              PROVE  /\ v[j] \in Readings /\ graph.ports[c][j] \in Edges
                     /\ ReadingOk(in[graph.ports[c][j]], v[j])
                     /\ ManagerOk("default", in[graph.ports[c][j]], out[ProducerOf(graph.ports[c][j])].bound)
                     /\ ~ v[j].empty => IsAllowedInStream(v[j].ts)
  OBVIOUS
<1>0. TypeOK /\ graph \in Graphs
  BY DEF StreamsInv, TypeOK
<1>1. PICK e : e = graph.ports[c][j]
  OBVIOUS
<1>2. v[j] \in Readings /\ ReadingOk(in[e], v[j])
  BY <1>1 DEF ReadingsOk
<1>3. e \in Edges /\ ConsumerOf(e) = c
  <2>1. j \in 1..Len(graph.ports[c])
    BY <1>0, GraphFacts DEF ReadingsOk
  <2>. QED  BY <1>0, <1>1, <2>1, GraphFacts
<1>4. PolicyOf(e) = "default"
  BY <1>3 DEF PolicyOf
<1>5. ManagerOk("default", in[e], out[ProducerOf(e)].bound)
  BY <1>3, <1>4 DEF StreamsInv, EdgeInv
<1>6. ASSUME ~ v[j].empty PROVE IsAllowedInStream(v[j].ts)
  <2>1. in[e].queue # <<>> /\ Head(in[e].queue) = v[j].ts
    BY <1>2, <1>6 DEF ReadingOk
  <2>2. in[e].queue \in Seq(Timestamps)
    BY <1>0, <1>3, TypeFacts
  <2>3. 1 \in 1..Len(in[e].queue) /\ Head(in[e].queue) = in[e].queue[1]
    BY <2>1, <2>2, EmptySeq
  <2>. QED  BY <1>5, <2>1, <2>3 DEF ManagerOk
<1>. QED  BY <1>1, <1>2, <1>3, <1>5, <1>6

\* An invocation is scheduled for a timestamp that may be popped at every port.
LEMMA ReadyToPop ==
    ASSUME StreamsInv, NEW c \in DOMAIN graph.ports, NEW v, ReadingsOk(c, v),
           NEW r, r = GetNodeReadiness(c, v), r.ready = "Process",
           graph.policy[c] = "default" => Len(v) = Len(graph.ports[c])
    PROVE  /\ r.ts \in Timestamps
           /\ \A i \in 1..Len(graph.ports[c]) :
                 PopOk(graph.policy[c], Len(graph.ports[c]), in[graph.ports[c][i]], r.ts)
<1>0. /\ TypeOK /\ graph \in Graphs /\ v \in Seq(Readings) /\ v # <<>> /\ Len(v) \in 1..Len(graph.ports[c])
      /\ v[Len(v)] = MinTimestampOrBound(in[graph.ports[c][Len(v)]])
  BY DEF StreamsInv, TypeOK, ReadingsOk
<1>1. CASE graph.policy[c] = "default"
  <2>1. r = GetReadiness(v)
    BY <1>1 DEF GetNodeReadiness
  <2>2. \A j \in 1..Len(v) :
              /\ v[j] \in Readings /\ graph.ports[c][j] \in Edges
              /\ ReadingOk(in[graph.ports[c][j]], v[j])
              /\ ManagerOk("default", in[graph.ports[c][j]], out[ProducerOf(graph.ports[c][j])].bound)
              /\ ~ v[j].empty => IsAllowedInStream(v[j].ts)
    BY <1>1, DefaultReadings
  <2>3. /\ r.ts \in Timestamps /\ IsAllowedInStream(r.ts)
        /\ \A i \in 1..Len(v) : r.ts <= v[i].ts /\ (v[i].empty => r.ts < v[i].ts)
    BY <1>0, <2>1, <2>2, GetReadinessOk
  <2>4. ASSUME NEW i \in 1..Len(graph.ports[c])
        PROVE  PopOk(graph.policy[c], Len(graph.ports[c]), in[graph.ports[c][i]], r.ts)
    <3>1. PICK m : m = in[graph.ports[c][i]]
      OBVIOUS
    <3>2. /\ v[i] \in Readings /\ graph.ports[c][i] \in Edges /\ ReadingOk(m, v[i])
          /\ r.ts <= v[i].ts /\ (v[i].empty => r.ts < v[i].ts)
          /\ Increasing(m.queue) /\ \A j \in 1..Len(m.queue) : m.queue[j] < m.bound
      BY <1>1, <2>2, <2>3, <3>1 DEF ManagerOk
    <3>3. m.queue \in Seq(Timestamps) /\ m.bound \in Int /\ v[i].ts \in Int /\ r.ts \in Int
          /\ \A j \in 1..Len(m.queue) : m.queue[j] \in Int
      <4>1. m.queue \in Seq(Timestamps) /\ m.bound \in Timestamps /\ v[i].ts \in Timestamps
        BY <1>0, <3>1, <3>2, TypeFacts DEF Managers, Readings
      <4>2. \A j \in 1..Len(m.queue) : m.queue[j] \in Timestamps
        BY <4>1
      <4>. QED  BY <2>3, <4>1, <4>2, TimestampsInt
    <3>4. CASE v[i].empty
      <4>1. v[i].ts <= m.bound /\ \A j \in 1..Len(m.queue) : v[i].ts <= m.queue[j]
        BY <3>2, <3>4 DEF ReadingOk
      <4>2. r.ts < m.bound /\ \A j \in 1..Len(m.queue) : r.ts <= m.queue[j]
        BY SMTT(40), <3>2, <3>3, <3>4, <4>1
      <4>. QED  BY <1>1, <2>3, <3>1, <4>2 DEF PopOk
    <3>5. CASE ~ v[i].empty
      <4>1. m.queue # <<>> /\ Head(m.queue) = v[i].ts
        BY <3>2, <3>5 DEF ReadingOk
      <4>2. 1 \in 1..Len(m.queue) /\ m.queue[1] = v[i].ts /\ Len(m.queue) \in Nat
        BY <3>3, <4>1, EmptySeq
      <4>3. \A j \in 1..Len(m.queue) : m.queue[1] <= m.queue[j]
        BY <3>2, <3>3, <4>2 DEF Increasing
      <4>4. r.ts < m.bound /\ \A j \in 1..Len(m.queue) : r.ts <= m.queue[j]
        BY <3>2, <3>3, <4>2, <4>3
      <4>. QED  BY <1>1, <2>3, <3>1, <4>4 DEF PopOk
    <3>. QED  BY <3>4, <3>5
  <2>. QED  BY <2>3, <2>4
<1>2. CASE graph.policy[c] # "default"
  <2>1. r = ImmediateReadiness(v) \/ r = FixedSizeReadiness(v)
    <3>1. graph.policy[c] = "immediate" \/ graph.policy[c] = "fixed_size"
      BY <1>0, <1>2, GraphFacts
    <3>. QED  BY <3>1 DEF GetNodeReadiness
  <2>2. r.ts \in Timestamps /\ (Len(v) = 1 => ~ v[1].empty /\ r.ts = v[1].ts)
    BY <1>0, <2>1, OtherReadinessOk
  <2>3. ASSUME Len(graph.ports[c]) = 1
        PROVE  in[graph.ports[c][1]].queue # <<>> /\ Head(in[graph.ports[c][1]].queue) = r.ts
    <3>1. Len(v) = 1
      BY <1>0, <2>3
    <3>2. PICK m : m = in[graph.ports[c][1]]
      OBVIOUS
    <3>3. v[1] = [empty |-> m.queue = <<>>, ts |-> IF m.queue = <<>> THEN m.bound ELSE Head(m.queue)]
      BY <1>0, <3>1, <3>2 DEF MinTimestampOrBound
    <3>4. v[1].empty = (m.queue = <<>>) /\ v[1].ts = IF m.queue = <<>> THEN m.bound ELSE Head(m.queue)
      BY <3>3
    <3>. QED  BY <2>2, <3>1, <3>2, <3>4
  <2>4. ASSUME NEW i \in 1..Len(graph.ports[c])
        PROVE  PopOk(graph.policy[c], Len(graph.ports[c]), in[graph.ports[c][i]], r.ts)
    <3>1. Len(graph.ports[c]) = 1 => i = 1
      OBVIOUS
    <3>. QED  BY <1>2, <2>3, <3>1 DEF PopOk
  <2>. QED  BY <2>2, <2>4
<1>. QED  BY <1>1, <1>2

\* The agenda of an invocation at t.
FillAgenda(b, n, t) ==
    /\ b \in Seq(Operations)
    /\ \A j \in 1..Len(b) :
          \/ j \in 1..n /\ b[j] = <<"Pop", j, t>>
          \/ b[j] = <<"IsFull", 1>>
          \/ j = Len(b) /\ \E k \in Nat : b[j] = <<"Read", 1, k>>

LEMMA FillOps ==
    ASSUME NEW c, Len(graph.ports[c]) \in Nat, NEW t \in Timestamps, NEW k \in Nat
    PROVE  FillAgenda(FillInputSet(c, t, k), Len(graph.ports[c]), t)
<1>. DEFINE n == Len(graph.ports[c])
            s == [i \in 1..n |-> <<"Pop", i, t>>]
<1>1. PICK w : w = If(k > 1, EvaluateFrom(c, 1, k - 1))
  OBVIOUS
<1>2. PICK b : b = s \o w
  OBVIOUS
<1>3. FillInputSet(c, t, k) = b
  BY <1>1, <1>2 DEF FillInputSet
<1>4. s \in Seq(Operations) /\ Len(s) = n /\ \A i \in 1..n : s[i] = <<"Pop", i, t>>
  <2>1. ASSUME NEW i \in 1..n PROVE <<"Pop", i, t>> \in Operations
    <3>1. i \in Nat /\ 0 \in Nat
      OBVIOUS
    <3>. QED  BY <3>1, ConsumerOps
  <2>2. s \in [1..n -> Operations]
    BY <2>1
  <2>. QED  BY <2>2
<1>5. w = <<>> \/ \E x \in Nat : ReadAgenda(w, 1, x)
  <2>1. CASE k > 1
    <3>1. k - 1 \in Nat /\ 1 \in Nat
      BY <2>1
    <3>2. ReadAgenda(EvaluateFrom(c, 1, k - 1), 1, k - 1)
      BY <3>1, EvaluateOps
    <3>. QED  BY <1>1, <2>1, <3>1, <3>2 DEF If
  <2>2. CASE ~ (k > 1)
    BY <1>1, <2>2 DEF If
  <2>. QED  BY <2>1, <2>2
<1>. HIDE DEF s, n
<1>6. CASE w = <<>>
  <2>1. b = s
    BY <1>2, <1>4, <1>6, ConcatEmptySeq
  <2>2. \A j \in 1..Len(b) : j \in 1..n /\ b[j] = <<"Pop", j, t>>
    BY <1>4, <2>1
  <2>. QED  BY <1>3, <1>4, <2>1, <2>2 DEF FillAgenda, n
<1>7. CASE \E x \in Nat : ReadAgenda(w, 1, x)
  <2>1. PICK x \in Nat : ReadAgenda(w, 1, x)
    BY <1>7
  <2>2. /\ w \in Seq(Operations) /\ Len(w) \in {1, 2} /\ w[Len(w)] = <<"Read", 1, x>>
        /\ Len(w) = 2 => w[1] = <<"IsFull", 1>>
    BY <2>1 DEF ReadAgenda
  <2>3. b \in Seq(Operations) /\ Len(b) = Len(s) + Len(w) /\ Len(s) \in Nat
        /\ \A j \in 1..Len(b) : b[j] = IF j <= Len(s) THEN s[j] ELSE w[j - Len(s)]
    <3>1. s \in Seq(Operations) /\ w \in Seq(Operations) /\ Len(s) \in Nat
      BY <1>4, <2>2
    <3>. QED  BY <1>2, <3>1, ConcatProperties
  <2>4. ASSUME NEW j \in 1..Len(b)
        PROVE  \/ j \in 1..n /\ b[j] = <<"Pop", j, t>>
               \/ b[j] = <<"IsFull", 1>>
               \/ j = Len(b) /\ b[j] = <<"Read", 1, x>>
    <3>1. CASE j <= Len(s)
      <4>1. j \in 1..n /\ b[j] = s[j]
        BY <1>4, <2>3, <3>1
      <4>. QED  BY <1>4, <4>1
    <3>2. CASE ~ (j <= Len(s))
      <4>1. b[j] = w[j - Len(s)] /\ j - Len(s) \in 1..Len(w)
        BY <2>2, <2>3, <3>2
      <4>2. CASE j - Len(s) = Len(w)
        BY <2>2, <2>3, <4>1, <4>2
      <4>3. CASE j - Len(s) # Len(w)
        <5>1. Len(w) = 2 /\ j - Len(s) = 1
          BY <2>2, <4>1, <4>3
        <5>. QED  BY <2>2, <4>1, <5>1
      <4>. QED  BY <4>2, <4>3
    <3>. QED  BY <3>1, <3>2
  <2>. QED  BY <1>3, <2>3, <2>4 DEF FillAgenda, n
<1>. QED  BY <1>5, <1>6, <1>7

LEMMA FillInv ==
    ASSUME StreamsInv, graph' = graph, NEW c \in graph.driven, view'[c] = <<>>,
           NEW t \in Timestamps, NEW n, n = Len(graph.ports[c]), FillAgenda(agenda'[c], n, t),
           \A i \in 1..n : PopOk(graph.policy[c], n, in'[graph.ports[c][i]], t)
    PROVE  ConsumerInv(c)'
<1>0. graph \in Graphs /\ c \in DOMAIN graph.ports /\ n \in Nat /\ 1 \in 1..n
  BY GraphFacts DEF StreamsInv, TypeOK
<1>1. PICK b : b = agenda'[c]
  OBVIOUS
<1>2. \A j \in 1..Len(b) : \/ j \in 1..n /\ b[j] = <<"Pop", j, t>>
                           \/ b[j] = <<"IsFull", 1>>
                           \/ j = Len(b) /\ \E k \in Nat : b[j] = <<"Read", 1, k>>
  BY <1>1 DEF FillAgenda
<1>3. ASSUME NEW op \in OpsOf(b) PROVE ConsumerOp(c, op)'
  <2>1. PICK j \in 1..Len(b) : op = b[j]
    BY DEF OpsOf
  <2>2. CASE j \in 1..n /\ op = <<"Pop", j, t>>
    <3>1. op[1] = "Pop" /\ op[2] = j /\ op[3] = t
      BY <2>2
    <3>. QED  BY <1>0, <2>2, <3>1 DEF ConsumerOp
  <2>3. CASE op = <<"IsFull", 1>>
    <3>1. op[1] = "IsFull" /\ op[2] = 1
      BY <2>3
    <3>. QED  BY <1>0, <3>1 DEF ConsumerOp
  <2>4. CASE \E k \in Nat : op = <<"Read", 1, k>>
    <3>1. op[1] = "Read" /\ op[2] = 1 /\ op[3] \in Nat /\ Len(view'[c]) = 0
      BY <2>4
    <3>. QED  BY <1>0, <3>1 DEF ConsumerOp
  <2>. QED  BY <1>2, <2>1, <2>2, <2>3, <2>4
<1>4. ReadsLast(b)
  <2>1. ASSUME NEW j \in 1..Len(b)
        PROVE  /\ b[j][1] = "Read" => j = Len(b)
               /\ b[j][1] = "Pop" => b[j][2] = j
    <3>1. CASE b[j] = <<"Pop", j, t>>
      BY <3>1
    <3>2. CASE b[j] = <<"IsFull", 1>>
      BY <3>2
    <3>3. CASE j = Len(b) /\ \E k \in Nat : b[j] = <<"Read", 1, k>>
      BY <3>3
    <3>. QED  BY <1>2, <3>1, <3>2, <3>3
  <2>. QED  BY <2>1 DEF ReadsLast
<1>. QED  BY <1>1, <1>3, <1>4 DEF ConsumerInv

\* The agenda of InputStreamHandler::Close.
LEMMA CloseOpsInv ==
    ASSUME StreamsInv, graph' = graph, NEW c \in graph.driven, view'[c] = <<>>, c \in stopped',
           agenda'[c] = [j \in 1..Len(graph.ports[c]) |-> <<"Close", j>>]
    PROVE  ConsumerInv(c)' /\ agenda'[c] \in Seq(Operations)
<1>0. graph \in Graphs /\ c \in DOMAIN graph.ports /\ Len(graph.ports[c]) \in Nat
  BY GraphFacts DEF StreamsInv, TypeOK
<1>1. PICK b : b = agenda'[c]
  OBVIOUS
<1>2. b \in Seq(Operations) /\ Len(b) = Len(graph.ports[c]) /\ \A j \in 1..Len(b) : b[j] = <<"Close", j>>
  <2>1. ASSUME NEW j \in 1..Len(graph.ports[c]) PROVE <<"Close", j>> \in Operations
    <3>1. j \in Nat /\ 0 \in Nat
      BY <1>0
    <3>2. {<<"IsFull", j>>, <<"Close", j>>, <<"PopQueueHead", j>>, <<"Read", j, 0>>} \subseteq Operations
      BY <3>1, ConsumerOps
    <3>. QED  BY <3>2
  <2>2. b \in [1..Len(graph.ports[c]) -> Operations]
    BY <1>1, <2>1
  <2>3. b \in Seq(Operations) /\ Len(b) = Len(graph.ports[c])
    BY SMTT(40), <1>0, <2>2
  <2>. QED  BY <1>1, <2>3
<1>3. ASSUME NEW op \in OpsOf(b) PROVE ConsumerOp(c, op)'
  <2>1. PICK i \in 1..Len(graph.ports[c]) : op = <<"Close", i>>
    BY <1>2 DEF OpsOf
  <2>2. op[1] = "Close" /\ op[2] = i
    BY <2>1
  <2>. QED  BY <1>0, <2>2 DEF ConsumerOp
<1>4. ReadsLast(b)
  <2>1. \A i \in 1..Len(b) : b[i][1] = "Close"
    BY <1>2
  <2>. QED  BY <2>1 DEF ReadsLast
<1>. QED  BY <1>1, <1>2, <1>3, <1>4 DEF ConsumerInv

\* kReadyForClose: nothing is left and nothing comes.
LEMMA ReadyToClose ==
    ASSUME StreamsInv, NEW c \in DOMAIN graph.ports, c \notin stopped, NEW v, ReadingsOk(c, v),
           GetNodeReadiness(c, v).ready = "Close",
           graph.policy[c] = "default" => Len(v) = Len(graph.ports[c])
    PROVE  StoppedInv(c)
<1>0. TypeOK /\ graph \in Graphs /\ v \in Seq(Readings) /\ v # <<>>
  BY DEF StreamsInv, TypeOK, ReadingsOk
<1>1. graph.policy[c] = "default"
  <2>1. PICK r : r = GetNodeReadiness(c, v)
    OBVIOUS
  <2>2. ASSUME graph.policy[c] # "default" PROVE FALSE
    <3>1. graph.policy[c] = "immediate" \/ graph.policy[c] = "fixed_size"
      BY <1>0, <2>2, GraphFacts
    <3>2. r = ImmediateReadiness(v) \/ r = FixedSizeReadiness(v)
      BY <2>1, <3>1 DEF GetNodeReadiness
    <3>3. r.ready \in {"Process", "NotReady"}
      BY <1>0, <3>2, OtherReadinessOk
    <3>. QED  BY <2>1, <3>3
  <2>. QED  BY <2>2
<1>2. \A j \in 1..Len(v) :
              /\ v[j] \in Readings /\ graph.ports[c][j] \in Edges
              /\ ReadingOk(in[graph.ports[c][j]], v[j])
              /\ ManagerOk("default", in[graph.ports[c][j]], out[ProducerOf(graph.ports[c][j])].bound)
              /\ ~ v[j].empty => IsAllowedInStream(v[j].ts)
  BY <1>1, DefaultReadings
<1>3. GetReadiness(v).ready = "Close"
  BY <1>1 DEF GetNodeReadiness
<1>4. \A i \in 1..Len(v) : v[i].empty /\ v[i].ts >= OneOverPostStream
  BY <1>0, <1>2, <1>3, GetReadinessOk
<1>5. ASSUME NEW e \in PortEdges(c)
      PROVE  /\ in[e].queue = <<>> /\ out[ProducerOf(e)].bound >= OneOverPostStream
             /\ \A op \in OpsOf(agenda[ProducerOf(e)]) : op[1] = "Update" /\ op[2] = e => op[3] = <<>>
  <2>1. PICK i \in 1..Len(v) : e = graph.ports[c][i]
    BY <1>1 DEF PortEdges
  <2>2. PICK m : m = in[e]
    OBVIOUS
  <2>3. PICK b : b = out[ProducerOf(e)].bound
    OBVIOUS
  <2>4. e \in Edges /\ ConsumerOf(e) = c /\ ProducerOf(e) \in Producers /\ PolicyOf(e) = "default"
    BY <1>0, <1>1, GraphFacts DEF PolicyOf
  <2>5. m.queue \in Seq(Timestamps) /\ m.bound \in Int /\ b \in Int /\ v[i].ts \in Int
        /\ \A j \in 1..Len(m.queue) : m.queue[j] \in Int
    <3>1. m.queue \in Seq(Timestamps) /\ m.bound \in Timestamps /\ v[i].ts \in Timestamps /\ b \in Timestamps
      BY <1>0, <1>2, <2>2, <2>3, <2>4, TypeFacts DEF Managers, Readings
    <3>2. \A j \in 1..Len(m.queue) : m.queue[j] \in Timestamps
      BY <3>1
    <3>. QED  BY <3>1, <3>2, TimestampsInt
  <2>6. v[i].ts <= m.bound /\ \A j \in 1..Len(m.queue) : v[i].ts <= m.queue[j]
    BY <1>2, <1>4, <2>1, <2>2 DEF ReadingOk
  <2>7. EdgeInv(e)
    BY <2>4 DEF StreamsInv
  <2>8. /\ m.closed \/ m.bound <= Later(b, PreStream)
        /\ \A j \in 1..Len(m.queue) : IsAllowedInStream(m.queue[j])
        /\ \A op \in OpsOf(agenda[ProducerOf(e)]) :
              op[1] = "Update" /\ op[2] = e => \A j \in 1..Len(op[3]) : op[3][j] >= m.bound
        /\ ~ m.closed
    BY <2>2, <2>3, <2>4, <2>7 DEF EdgeInv, ManagerOk, UpdateNews
  <2>9. m.queue = <<>>
    <3>1. ASSUME NEW j \in 1..Len(m.queue) PROVE FALSE
      <4>1. m.queue[j] \in Int /\ v[i].ts <= m.queue[j] /\ IsAllowedInStream(m.queue[j])
        BY <2>5, <2>6, <2>8
      <4>2. m.queue[j] <= PostStream /\ v[i].ts >= OneOverPostStream
        BY <1>4, <4>1, TimestampsInt
      <4>3. PostStream \in Int /\ OneOverPostStream \in Int /\ PostStream + 1 = OneOverPostStream
        BY TimestampsInt
      <4>. QED  BY <2>5, <4>1, <4>2, <4>3
    <3>. QED  BY <2>5, <3>1, EmptySeq
  <2>10. b >= OneOverPostStream
    BY <1>4, <2>5, <2>6, <2>8, TimestampsInt DEF Later
  <2>11. ASSUME NEW op \in OpsOf(agenda[ProducerOf(e)]), op[1] = "Update", op[2] = e PROVE op[3] = <<>>
    <3>1. UpdateKept(b, op)
      BY <2>3, <2>4, <2>11 DEF StreamsInv, ProducerInv, ProducerOp
    <3>2. op[3] \in Seq(Timestamps) /\ \A j \in 1..Len(op[3]) : IsAllowedInStream(op[3][j]) /\ op[3][j] >= m.bound
      BY <2>8, <2>11, <3>1 DEF UpdateKept
    <3>3. ASSUME NEW j \in 1..Len(op[3]) PROVE FALSE
      <4>1. op[3][j] \in Int /\ op[3][j] >= m.bound /\ IsAllowedInStream(op[3][j])
        BY <3>2, TimestampsInt
      <4>2. op[3][j] <= PostStream /\ v[i].ts >= OneOverPostStream
        BY <1>4, <4>1, TimestampsInt
      <4>3. PostStream \in Int /\ OneOverPostStream \in Int /\ PostStream + 1 = OneOverPostStream
        BY TimestampsInt
      <4>. QED  BY <2>5, <2>6, <4>1, <4>2, <4>3
    <3>. QED  BY <3>2, <3>3, EmptySeq
  <2>. QED  BY <2>2, <2>3, <2>9, <2>10, <2>11
<1>. QED  BY <1>1, <1>5 DEF StoppedInv

LEMMA ReadStep ==
    ASSUME StreamsInv, NEW c \in Consumers, ReadPort(c) PROVE StreamsInv'
<1>. DEFINE n == Len(graph.ports[c])
<1>0. /\ TypeOK /\ graph \in Graphs /\ agenda[c] # <<>> /\ Head(agenda[c])[1] = "Read"
      /\ view \in [Consumers -> Seq(Readings)]
      /\ UNCHANGED <<graph, in, out, calls, full, sent, given>>
      /\ notified \subseteq graph.driven /\ stopped \subseteq graph.driven
  BY DEF StreamsInv, TypeOK, ReadPort, At, Readings
<1>1. PICK op : op = Head(agenda[c])
  OBVIOUS
<1>2. PICK v : v = Append(view[c], MinTimestampOrBound(in[graph.ports[c][op[2]]]))
  OBVIOUS
<1>3. PICK r : r = GetNodeReadiness(c, v)
  OBVIOUS
<1>4. /\ c \in graph.driven /\ c \in DOMAIN graph.ports /\ Tail(agenda[c]) = <<>>
      /\ op[2] \in 1..n /\ op[3] \in Nat /\ n \in Nat
  BY <1>0, <1>1, NextRead, GraphFacts
<1>5. ReadingsOk(c, v) /\ Len(v) = op[2]
  BY <1>0, <1>1, <1>2, NewReading
<1>6. PICK last \in BOOLEAN : last = (op[2] = n \/ (graph.policy[c] = "immediate" /\ ~ v[op[2]].empty))
  OBVIOUS
<1>7. /\ ~ last => /\ view' = [view EXCEPT ![c] = v] /\ Then(c, EvaluateFrom(c, op[2] + 1, op[3]))
                   /\ notified' = notified /\ stopped' = stopped
      /\ last => /\ view' = [view EXCEPT ![c] = <<>>]
                 /\ \/ /\ r.ready = "Process" /\ Then(c, FillInputSet(c, r.ts, op[3]))
                       /\ notified' = notified \cup {c} /\ stopped' = stopped
                    \/ /\ r.ready = "Close" /\ Then(c, [j \in 1..n |-> <<"Close", j>>])
                       /\ stopped' = stopped \cup {c} /\ notified' = notified
                    \/ /\ r.ready = "NotReady" /\ Then(c, <<>>)
                       /\ notified' = notified /\ stopped' = stopped
  BY <1>1, <1>2, <1>3, <1>6 DEF ReadPort, Arg
<1>8. ASSUME NEW ops \in Seq(Operations), Then(c, ops)
      PROVE  agenda' = [agenda EXCEPT ![c] = ops] /\ agenda'[c] = ops
  <2>1. ops \o Tail(agenda[c]) = ops
    BY <1>4, ConcatEmptySeq
  <2>. QED  BY <1>0, <1>8, <2>1 DEF Then, TypeOK, Threads
<1>9. c \in Consumers /\ <<>> \in Seq(Readings) /\ <<>> \in Seq(Operations)
  OBVIOUS
<1>10. last => (graph.policy[c] = "default" => Len(v) = n)
  BY <1>5, <1>6
<1>. HIDE DEF n
<1>11. CASE ~ last
  <2>1. PICK a : a = EvaluateFrom(c, op[2] + 1, op[3])
    OBVIOUS
  <2>2. op[2] + 1 \in 1..n /\ op[2] + 1 \in Nat
    <3>1. op[2] # n
      BY <1>6, <1>11
    <3>. QED  BY <1>4, <3>1
  <2>3. a \in Seq(Operations)
    <3>1. ReadAgenda(EvaluateFrom(c, op[2] + 1, op[3]), op[2] + 1, op[3])
      BY <1>4, <2>2, EvaluateOps
    <3>. QED  BY <2>1, <3>1 DEF ReadAgenda
  <2>4. agenda' = [agenda EXCEPT ![c] = a] /\ agenda'[c] = a
    BY <1>7, <1>8, <1>11, <2>1, <2>3
  <2>5. v \in Seq(Readings) /\ view' = [view EXCEPT ![c] = v] /\ view'[c] = v
    BY <1>0, <1>5, <1>7, <1>11 DEF ReadingsOk
  <2>6. \A j \in 1..Len(v) : graph.policy[c] = "default" => ReadingOk(in'[graph.ports[c][j]], v[j])
    BY <1>0, <1>5 DEF ReadingsOk
  <2>7. ConsumerInv(c)'
    <3>1. PICK i : i = op[2] + 1
      OBVIOUS
    <3>2. i = Len(v) + 1 /\ i \in 1..Len(graph.ports[c]) /\ agenda'[c] = EvaluateFrom(c, i, op[3])
      BY <1>5, <2>1, <2>2, <2>4, <3>1 DEF n
    <3>. QED  BY <1>0, <1>4, <2>5, <2>6, <3>2, EvaluateInv
  <2>8. notified' = notified /\ stopped' = stopped
    BY <1>7, <1>11
  <2>. QED  BY <1>0, <2>3, <2>4, <2>5, <2>7, <2>8, ReadsOnly
<1>12. CASE last
  <2>1. view' = [view EXCEPT ![c] = <<>>] /\ view'[c] = <<>>
    BY <1>0, <1>7, <1>12
  <2>2. CASE /\ r.ready = "Process" /\ Then(c, FillInputSet(c, r.ts, op[3]))
             /\ notified' = notified \cup {c} /\ stopped' = stopped
    <3>1. /\ r.ts \in Timestamps
          /\ \A i \in 1..n : PopOk(graph.policy[c], n, in[graph.ports[c][i]], r.ts)
      BY <1>3, <1>4, <1>5, <1>10, <1>12, <2>2, ReadyToPop DEF n
    <3>2. PICK a : a = FillInputSet(c, r.ts, op[3])
      OBVIOUS
    <3>3. FillAgenda(a, n, r.ts) /\ a \in Seq(Operations)
      <4>1. FillAgenda(FillInputSet(c, r.ts, op[3]), n, r.ts)
        BY <1>4, <3>1, FillOps DEF n
      <4>. QED  BY <3>2, <4>1 DEF FillAgenda
    <3>4. agenda' = [agenda EXCEPT ![c] = a] /\ agenda'[c] = a
      BY <1>8, <2>2, <3>2, <3>3
    <3>5. \A i \in 1..n : PopOk(graph.policy[c], n, in'[graph.ports[c][i]], r.ts)
      BY <1>0, <3>1
    <3>6. ConsumerInv(c)'
      BY <1>0, <1>4, <2>1, <3>1, <3>3, <3>4, <3>5, FillInv DEF n
    <3>7. notified' \subseteq graph.driven
      BY <1>0, <1>4, <2>2
    <3>. QED  BY <1>0, <1>9, <2>1, <2>2, <3>3, <3>4, <3>6, <3>7, ReadsOnly
  <2>3. CASE /\ r.ready = "Close" /\ Then(c, [j \in 1..n |-> <<"Close", j>>])
             /\ stopped' = stopped \cup {c} /\ notified' = notified
    <3>1. PICK a : a = [j \in 1..n |-> <<"Close", j>>]
      OBVIOUS
    <3>2. agenda' = [agenda EXCEPT ![c] = a \o Tail(agenda[c])]
      BY <2>3, <3>1 DEF Then
    <3>3. a \o Tail(agenda[c]) = a
      <4>1. a \in [1..n -> Range(a)]
        BY <3>1 DEF Range
      <4>2. a \in Seq(Range(a))
        BY <1>4, <4>1
      <4>. QED  BY <1>4, <4>2, ConcatEmptySeq
    <3>4. agenda' = [agenda EXCEPT ![c] = a] /\ agenda'[c] = a
      BY <1>0, <3>2, <3>3 DEF TypeOK, Threads
    <3>5. ConsumerInv(c)' /\ agenda'[c] \in Seq(Operations)
      BY <1>0, <1>4, <2>1, <2>3, <3>1, <3>4, CloseOpsInv DEF n
    <3>6. ASSUME NEW d \in stopped', d \notin stopped PROVE StoppedInv(d)'
      <4>1. d = c /\ c \notin stopped
        BY <2>3, <3>6
      <4>2. StoppedInv(c)
        BY <1>3, <1>4, <1>5, <1>10, <1>12, <2>3, <4>1, ReadyToClose DEF n
      <4>3. ASSUME NEW e \in PortEdges(c) PROVE agenda'[ProducerOf(e)] = agenda[ProducerOf(e)]
        <5>1. ProducerOf(e) \in Producers
          BY <1>0, <1>4, GraphFacts
        <5>2. ProducerOf(e) \in Threads /\ ProducerOf(e) # c
          BY <5>1, ProducerDisjoint DEF Threads
        <5>. QED  BY <1>0, <3>4, <5>2 DEF TypeOK
      <4>. QED  BY <1>0, <4>1, <4>2, <4>3, StoppedFrame
    <3>7. notified' \subseteq graph.driven /\ stopped \subseteq stopped' /\ stopped' \subseteq graph.driven
      BY <1>0, <1>4, <2>3
    <3>. QED  BY <1>0, <1>9, <2>1, <3>4, <3>5, <3>6, <3>7, ReadsOnly
  <2>4. CASE r.ready = "NotReady" /\ Then(c, <<>>) /\ notified' = notified /\ stopped' = stopped
    <3>1. agenda' = [agenda EXCEPT ![c] = <<>>] /\ agenda'[c] = <<>>
      BY <1>8, <1>9, <2>4
    <3>2. ConsumerInv(c)'
      BY <2>1, <3>1 DEF ConsumerInv, OpsOf, ReadsLast
    <3>. QED  BY <1>0, <1>9, <2>1, <2>4, <3>1, <3>2, ReadsOnly
  <2>. QED  BY <1>7, <1>12, <2>2, <2>3, <2>4
<1>. QED  BY <1>11, <1>12

-----------------------------------------------------------------------------
(* Taking a packet from a port, and closing it.                            *)

\* Manager m and history g replace those of edge e, a port of c.
PortNews(c, e, m, g) ==
    /\ m \in Managers /\ g \in Seq(Timestamps)
    /\ ManagerOk(PolicyOf(e), m, out[ProducerOf(e)].bound)
    /\ \A op \in OpsOf(agenda[ProducerOf(e)]) :
          op[1] = "Update" /\ op[2] = e => UpdateNews(PolicyOf(e), m, op)
    /\ m.closed => c \in stopped
    /\ in[e].queue = <<>> => m.queue = <<>>
    /\ DropsNothing(e) => g \o m.queue = given[e] \o in[e].queue
    /\ IsFull(m) => IsFull(in[e])

\* Places in a list.
LEMMA SingleOp ==
    /\ \A x \in OpsOf(<<>>) : FALSE
    /\ \A S : <<>> \in Seq(S)
    /\ \A S : \A y \in S : <<y>> \in Seq(S) /\ \A x \in OpsOf(<<y>>) : x = y
BY DEF OpsOf

LEMMA LaterPlace ==
    ASSUME NEW a, Len(a) \in Nat, NEW i \in 2..Len(a)
    PROVE  a[i] \in OpsOf(a) /\ i \in 1..Len(a) /\ 1 \in 1..Len(a) /\ i # 1
BY DEF OpsOf

LEMMA SomePlace ==
    ASSUME NEW S, NEW q \in Seq(S), NEW i \in 1..Len(q)
    PROVE  q # <<>> /\ q[i] \in S
OBVIOUS

LEMMA BelowLess ==
    ASSUME NEW k \in Nat, NEW n \in Nat, k < n, NEW i \in 1..k
    PROVE  i \in 1..n
OBVIOUS

LEMMA Takes ==
    ASSUME StreamsInv, NEW c \in Consumers, agenda[c] # <<>>, NEW op, op = Head(agenda[c]),
           op[1] \in {"Pop", "PopQueueHead", "Close"},
           NEW e, e = graph.ports[c][op[2]], NEW m, NEW g, PortNews(c, e, m, g),
           NEW ops, ops \in {<<>>, << <<"NotFull", e>> >>}, ops # <<>> => c \in graph.driven,
           Then(c, ops), in' = [in EXCEPT ![e] = m], given' = [given EXCEPT ![e] = g],
           UNCHANGED <<graph, out, calls, view, notified, stopped, full, sent>>,
           op[1] = "Close" => ReaderKept(graph.policy[c], Len(graph.ports[c]), in[e], m)
    PROVE  StreamsInv'
<1>. DEFINE n == Len(graph.ports[c])
<1>0. /\ TypeOK /\ graph \in Graphs /\ ConsumerInv(c) /\ agenda[c] \in Seq(Operations)
      /\ view[c] \in Seq(Readings) /\ Len(view[c]) \in Nat
  BY TypeFacts DEF StreamsInv, TypeOK
<1>1. PICK a : a = agenda[c]
  OBVIOUS
<1>2. /\ op = a[1] /\ op \in OpsOf(a) /\ ConsumerOp(c, op) /\ c \in DOMAIN graph.ports
      /\ Len(a) \in Nat /\ Len(a) > 0
      /\ op[2] \in 1..n /\ e \in PortEdges(c) /\ e \in Edges
  BY <1>1, NextConsumerOperation
<1>3. n \in Nat /\ ConsumerOf(e) = c
      /\ \A i \in 1..n : /\ graph.ports[c][i] \in Edges
                         /\ graph.ports[c][i] = e => i = op[2]
  BY <1>0, <1>2, GraphFacts
<1>4. in'[e] = m /\ \A x \in Edges : x # e => in'[x] = in[x] /\ given'[x] = given[x]
  BY <1>0, <1>2 DEF TypeOK
<1>5. given'[e] = g
  BY <1>0, <1>2 DEF TypeOK
<1>. HIDE DEF n
<1>6. ops \in Seq(Operations) /\ \A x \in OpsOf(ops) : x[1] = "NotFull" /\ x[2] \in PortEdges(c)
  <2>1. CASE ops = <<>>
    BY ZenonT(30), <2>1, SingleOp
  <2>2. CASE ops = << <<"NotFull", e>> >>
    <3>1. PICK y : y = <<"NotFull", e>>
      OBVIOUS
    <3>2. y \in Operations /\ y[1] = "NotFull" /\ y[2] = e /\ ops = <<y>>
      <4>1. 0 \in Nat
        OBVIOUS
      <4>2. <<"NotFull", e>> \in Operations
        BY <1>2, <4>1, ConsumerOps
      <4>. QED  BY <2>2, <3>1, <4>2
    <3>3. ops \in Seq(Operations)
      BY ZenonT(30), <3>2, SingleOp
    <3>4. \A x \in OpsOf(ops) : x = y
      BY ZenonT(30), <3>2, SingleOp
    <3>. QED  BY <1>2, <3>2, <3>3, <3>4
  <2>. QED  BY <2>1, <2>2
<1>7. PICK b : b = ops \o Tail(a)
  OBVIOUS
<1>8. agenda' = [agenda EXCEPT ![c] = b] /\ agenda'[c] = ops \o Tail(a)
  BY <1>0, <1>1, <1>7 DEF Then, TypeOK, Threads
<1>9. ASSUME NEW i \in 2..Len(a), a[i][1] = "Pop"
      PROVE  PopOk(graph.policy[c], n, in'[graph.ports[c][a[i][2]]], a[i][3])
  <2>1. a[i] \in OpsOf(agenda[c]) /\ i \in 1..Len(a) /\ 1 \in 1..Len(a) /\ i # 1
    BY ZenonT(30), <1>1, <1>2, LaterPlace
  <2>2. ConsumerOp(c, a[i])
    BY <1>0, <2>1 DEF ConsumerInv
  <2>3. /\ c \in graph.driven /\ a[i][2] \in 1..n /\ a[i][3] \in Timestamps
        /\ PopOk(graph.policy[c], n, in[graph.ports[c][a[i][2]]], a[i][3])
    BY <1>9, <2>2 DEF ConsumerOp, n
  <2>4. CASE graph.ports[c][a[i][2]] # e
    BY <1>3, <1>4, <2>3, <2>4
  <2>5. CASE graph.ports[c][a[i][2]] = e
    <3>1. a[i][2] = op[2]
      BY <1>3, <2>3, <2>5
    <3>2. op[1] # "PopQueueHead"
      BY <1>2, <2>3 DEF ConsumerOp
    <3>3. op[1] # "Pop"
      <4>1. ReadsLast(a)
        BY <1>0, <1>1 DEF ConsumerInv
      <4>. QED  BY <1>2, <1>9, <2>1, <3>1, <4>1 DEF ReadsLast
    <3>4. ReaderKept(graph.policy[c], n, in[e], m)
      BY <3>2, <3>3 DEF n
    <3>. QED  BY <1>4, <2>3, <2>5, <3>4 DEF ReaderKept
  <2>. QED  BY <2>4, <2>5
<1>10. ASSUME NEW i \in 1..Len(view[c]), graph.policy[c] = "default"
       PROVE  ReadingOk(in'[graph.ports[c][i]], view[c][i])
  <2>1. view[c] # <<>>
    BY ZenonT(30), <1>0, SomePlace
  <2>2. op[1] # "Pop" /\ op[1] # "PopQueueHead"
    <3>1. c \in graph.driven
      BY <2>1, IdleView
    <3>. QED  BY <1>2, <2>1, <3>1 DEF ConsumerOp
  <2>3. ReaderKept(graph.policy[c], n, in[e], m)
    BY <2>2 DEF n
  <2>4. ViewOk(c)
    BY <1>0, <2>1 DEF ConsumerInv
  <2>5. ReadingOk(in[graph.ports[c][i]], view[c][i]) /\ view[c][i] \in Readings
    <3>1. ReadingOk(in[graph.ports[c][i]], view[c][i])
      BY ZenonT(30), <1>10, <2>4 DEF ViewOk
    <3>2. view[c][i] \in Readings
      BY ZenonT(30), <1>0, SomePlace
    <3>. QED  BY ZenonT(30), <3>1, <3>2
  <2>6. i \in 1..n
    <3>1. Len(view[c]) < n
      BY <1>0, <2>4, ViewedPorts DEF n
    <3>2. Len(view[c]) \in Nat /\ n \in Nat
      BY <1>0, <1>3
    <3>. QED  BY ZenonT(30), <3>1, <3>2, BelowLess
  <2>7. CASE graph.ports[c][i] # e
    BY <1>3, <1>4, <2>5, <2>6, <2>7
  <2>8. CASE graph.ports[c][i] = e
    BY <1>4, <1>10, <2>3, <2>5, <2>8 DEF ReaderKept
  <2>. QED  BY <2>7, <2>8
<1>11. ConsumerInv(c)' /\ agenda'[c] \in Seq(Operations)
  <2>1. a # <<>> /\ a[1][1] # "Read"
    BY <1>1, <1>2
  <2>. QED  BY <1>1, <1>6, <1>8, <1>9, <1>10, <2>1, ThenInv DEF n
<1>12. Consumption(c, b)
  <2>1. b \in Seq(Operations)
    BY <1>7, <1>8, <1>11
  <2>2. in' \in [Edges -> Managers] /\ given' \in [Edges -> Seq(Timestamps)]
    BY <1>0, <1>2 DEF TypeOK, PortNews
  <2>3. view' \in [Consumers -> Seq(Readings)]
    BY <1>0 DEF TypeOK, Readings
  <2>. QED  BY <1>0, <1>8, <2>1, <2>2, <2>3 DEF Consumption, TypeOK
<1>13. PortKept(c, e)
  <2>1. ProducerOf(e) \in Threads /\ ProducerOf(e) # c
    BY <1>0, <1>2, TypeFacts, ProducerDisjoint DEF Threads
  <2>2. agenda'[ProducerOf(e)] = agenda[ProducerOf(e)]
    BY <1>0, <1>8, <2>1 DEF TypeOK
  <2>3. EdgeInv(e)'
    <3>1. PolicyOf(e)' = PolicyOf(e) /\ ProducerOf(e)' = ProducerOf(e) /\ ConsumerOf(e)' = ConsumerOf(e)
      BY GraphKept
    <3>2. ManagerOk(PolicyOf(e), in'[e], out'[ProducerOf(e)].bound)
      BY <1>4 DEF PortNews
    <3>3. \A x \in OpsOf(agenda'[ProducerOf(e)]) :
             x[1] = "Update" /\ x[2] = e => UpdateNews(PolicyOf(e), in'[e], x)
      BY <1>4, <2>2 DEF PortNews
    <3>4. in'[e].closed => ConsumerOf(e) \in stopped'
      BY <1>3, <1>4 DEF PortNews
    <3>. QED  BY <3>1, <3>2, <3>3, <3>4 DEF EdgeInv
  <2>. QED  BY <1>4, <1>5, <2>3 DEF PortKept, PortNews
<1>14. \A x \in Edges : ConsumerOf(x) # c => in'[x] = in[x] /\ given'[x] = given[x]
  BY <1>3, <1>4
<1>15. ASSUME NEW x \in Edges, ConsumerOf(x) = c PROVE PortKept(c, x)
  <2>1. CASE x = e
    BY <1>13, <2>1
  <2>2. CASE x # e
    <3>1. in'[x] = in[x] /\ given'[x] = given[x] /\ EdgeInv(x)
      BY <1>4, <2>2 DEF StreamsInv
    <3>2. ProducerOf(x) \in Threads /\ ProducerOf(x) # c
      BY <1>0, TypeFacts, ProducerDisjoint DEF Threads
    <3>3. agenda'[ProducerOf(x)] = agenda[ProducerOf(x)]
      BY <1>0, <1>8, <3>2 DEF TypeOK
    <3>4. EdgeInv(x)'
      BY <3>1, <3>3, EdgeFrame
    <3>. QED  BY <3>1, <3>4 DEF PortKept
  <2>. QED  BY <2>1, <2>2
<1>. QED  BY <1>11, <1>12, <1>14, <1>15, Consumes

\* The front packet q[1] of a queue q moves to the history g.
LEMMA Dequeued ==
    ASSUME NEW q \in Seq(Timestamps), q # <<>>, Increasing(q), NEW g \in Seq(Timestamps)
    PROVE  /\ Tail(q) \in Seq(Timestamps) /\ Len(Tail(q)) \in Nat /\ Len(Tail(q)) < Len(q) /\ Len(q) \in Nat
           /\ Increasing(Tail(q))
           /\ Head(q) = q[1] /\ Head(q) \in Timestamps /\ 1 \in 1..Len(q)
           /\ \A j \in 1..Len(Tail(q)) : \E i \in 1..Len(q) : Tail(q)[j] = q[i] /\ q[1] < q[i]
           /\ Append(g, Head(q)) \in Seq(Timestamps) /\ Append(g, Head(q)) \o Tail(q) = g \o q
<1>1. Len(q) \in Nat /\ Len(q) > 0 /\ Head(q) = q[1] /\ Head(q) \in Timestamps /\ 1 \in 1..Len(q)
  BY EmptySeq
<1>2. PICK r : r = Tail(q)
  OBVIOUS
<1>3. r \in Seq(Timestamps) /\ Len(r) \in Nat /\ Len(r) = Len(q) - 1
  BY <1>1, <1>2
<1>4. \A j \in 1..Len(r) : j + 1 \in 1..Len(q) /\ r[j] = q[j + 1]
  BY <1>1, <1>2, <1>3
<1>5. Increasing(r)
  <2>1. ASSUME NEW i \in 1..Len(r), NEW j \in 1..Len(r), i < j PROVE r[i] < r[j]
    <3>1. i + 1 \in 1..Len(q) /\ j + 1 \in 1..Len(q) /\ i + 1 < j + 1
      BY <1>4, <2>1
    <3>. QED  BY <1>4, <3>1 DEF Increasing
  <2>. QED  BY <2>1 DEF Increasing
<1>6. ASSUME NEW j \in 1..Len(r) PROVE r[j] = q[j + 1] /\ j + 1 \in 1..Len(q) /\ q[1] < q[j + 1]
  <2>1. j + 1 \in 1..Len(q) /\ 1 < j + 1
    BY <1>3, <1>4
  <2>. QED  BY <1>1, <1>4, <2>1 DEF Increasing
<1>7. q = <<Head(q)>> \o r /\ <<Head(q)>> \in Seq(Timestamps)
  <2>1. <<Head(q)>> \in Seq(Timestamps) /\ Len(<<Head(q)>>) = 1 /\ <<Head(q)>>[1] = Head(q)
    BY <1>1
  <2>2. PICK w : w = <<Head(q)>> \o r
    OBVIOUS
  <2>3. w \in Seq(Timestamps) /\ Len(w) = 1 + Len(r) /\ w[1] = Head(q)
        /\ \A i \in 2..Len(w) : w[i] = r[i - 1]
    BY <1>3, <2>1, <2>2
  <2>4. Len(w) = Len(q)
    BY <1>1, <1>3, <2>3
  <2>5. ASSUME NEW i \in 1..Len(q) PROVE w[i] = q[i]
    <3>1. CASE i = 1
      BY <1>1, <2>3, <3>1
    <3>2. CASE i # 1
      <4>1. i - 1 \in 1..Len(r) /\ (i - 1) + 1 = i /\ i \in 2..Len(w)
        BY <1>1, <1>3, <2>4, <3>2
      <4>. QED  BY <1>4, <2>3, <4>1
    <3>. QED  BY <3>1, <3>2
  <2>6. w = q
    BY <2>3, <2>4, <2>5, SeqEqual
  <2>. QED  BY <2>1, <2>2, <2>6
<1>8. Append(g, Head(q)) = g \o <<Head(q)>> /\ Append(g, Head(q)) \in Seq(Timestamps)
  BY <1>1, AppendIsConcat
<1>9. \A q1, q2, q3 \in Seq(Timestamps) : (q1 \o q2) \o q3 = q1 \o (q2 \o q3)
  BY ZenonT(30), ConcatTimestamps
<1>10. Append(g, Head(q)) \o r = g \o q
  <2>1. (g \o <<Head(q)>>) \o r = g \o (<<Head(q)>> \o r)
    BY <1>3, <1>7, <1>9
  <2>. QED  BY <1>7, <1>8, <2>1
<1>. QED  BY <1>1, <1>2, <1>3, <1>5, <1>6, <1>8, <1>10

\* A pop takes the front packet of the queue or leaves the queue alone.
LEMMA PopNews ==
    ASSUME StreamsInv, NEW c \in Consumers, NEW e \in Edges, ConsumerOf(e) = c, NEW t, NEW m, NEW g,
           m \in Managers, m.max = in[e].max, m.closed = in[e].closed,
           \/ m.queue = in[e].queue /\ g = given[e]
           \/ in[e].queue # <<>> /\ m.queue = Tail(in[e].queue) /\ g = Append(given[e], Head(in[e].queue))
           \/ /\ in[e].queue # <<>> /\ m.queue = Tail(in[e].queue) /\ g = given[e]
              /\ ~ DropsNothing(e),
           PolicyOf(e) = "default" =>
              /\ m.bound = in[e].bound /\ m.select < m.bound
              /\ \A j \in 1..Len(m.queue) : m.select < m.queue[j]
    PROVE  PortNews(c, e, m, g)
<1>0. TypeOK /\ graph \in Graphs /\ EdgeInv(e)
  BY DEF StreamsInv, TypeOK
<1>1. PICK q : q = in[e].queue
  OBVIOUS
<1>2. PICK h : h = given[e]
  OBVIOUS
<1>3. q \in Seq(Timestamps) /\ Len(q) \in Nat /\ h \in Seq(Timestamps) /\ in[e].max \in Int
  BY <1>0, <1>1, <1>2, TypeFacts DEF Managers
<1>4. PICK b : b = out[ProducerOf(e)].bound
  OBVIOUS
<1>5. /\ Increasing(q) /\ \A j \in 1..Len(q) : IsAllowedInStream(q[j]) /\ q[j] < b
      /\ PolicyOf(e) = "default" =>
            /\ in[e].closed \/ in[e].bound <= Later(b, PreStream)
            /\ \A j \in 1..Len(q) : q[j] < in[e].bound
  BY <1>0, <1>1, <1>4 DEF EdgeInv, ManagerOk
<1>6. m.queue = q \/ (q # <<>> /\ m.queue = Tail(q))
  BY <1>1
<1>7. /\ m.queue \in Seq(Timestamps) /\ Increasing(m.queue) /\ Len(m.queue) \in Nat /\ Len(m.queue) <= Len(q)
      /\ \A j \in 1..Len(m.queue) : \E i \in 1..Len(q) : m.queue[j] = q[i]
  <2>1. CASE m.queue = q
    BY <1>3, <1>5, <2>1
  <2>2. CASE q # <<>> /\ m.queue = Tail(q)
    BY <1>3, <1>5, <2>2, Dequeued
  <2>. QED  BY <1>6, <2>1, <2>2
<1>8. g \in Seq(Timestamps)
  <2>1. CASE g = h
    BY <1>3, <2>1
  <2>2. CASE q # <<>> /\ g = Append(h, Head(q))
    BY <1>3, <1>5, <2>2, Dequeued
  <2>. QED  BY <1>1, <1>2, <2>1, <2>2
<1>9. ManagerOk(PolicyOf(e), m, b)
  BY <1>5, <1>7 DEF ManagerOk
<1>10. ASSUME NEW op \in OpsOf(agenda[ProducerOf(e)]), op[1] = "Update", op[2] = e
       PROVE  UpdateNews(PolicyOf(e), m, op)
  <2>1. UpdateNews(PolicyOf(e), in[e], op)
    BY <1>0, <1>10 DEF EdgeInv
  <2>. QED  BY <1>1, <1>7, <2>1 DEF UpdateNews
<1>11. q = <<>> => m.queue = <<>>
  BY <1>6
<1>12. ASSUME DropsNothing(e) PROVE g \o m.queue = h \o q
  <2>1. CASE m.queue = q /\ g = h
    BY <2>1
  <2>2. CASE q # <<>> /\ m.queue = Tail(q) /\ g = Append(h, Head(q))
    <3>1. Append(h, Head(q)) \o Tail(q) = h \o q
      BY <1>3, <1>5, <2>2, Dequeued
    <3>. QED  BY <2>2, <3>1
  <2>. QED  BY <1>1, <1>2, <1>12, <2>1, <2>2
<1>13. IsFull(m) => IsFull(in[e])
  BY <1>1, <1>3, <1>7 DEF IsFull
<1>14. m.closed => c \in stopped
  BY <1>0 DEF EdgeInv
<1>. QED  BY <1>1, <1>2, <1>4, <1>8, <1>9, <1>10, <1>11, <1>12, <1>13, <1>14 DEF PortNews

\* What a step of Popped does.
LEMMA PoppedStep ==
    ASSUME StreamsInv, NEW c \in Consumers, agenda[c] # <<>>, NEW op, op = Head(agenda[c]),
           op[1] \in {"Pop", "PopQueueHead"}, NEW e, e = graph.ports[c][op[2]], NEW m, NEW x,
           NEW g, g = IF x = NoPacket THEN given[e] ELSE Append(given[e], x), PortNews(c, e, m, g),
           \/ Popped(c, e, [mgr |-> m, packet |-> x], TRUE) /\ op[1] = "Pop"
           \/ Popped(c, e, [mgr |-> m, packet |-> x], FALSE)
    PROVE  StreamsInv'
<1>0. TypeOK /\ ConsumerOp(c, op) /\ e \in Edges
  BY NextConsumerOperation DEF StreamsInv
<1>1. /\ in' = [in EXCEPT ![e] = m] /\ given' = [given EXCEPT ![e] = g]
      /\ UNCHANGED <<graph, out, calls, view, notified, stopped, full, sent>>
  BY <1>0 DEF Popped, TypeOK
<1>2. PICK ops : /\ ops \in {<<>>, << <<"NotFull", e>> >>} /\ Then(c, ops)
                 /\ ops # <<>> => c \in graph.driven
  <2>1. Then(c, <<>>) \/ (Then(c, << <<"NotFull", e>> >>) /\ op[1] = "Pop")
    BY DEF Popped, If
  <2>2. op[1] = "Pop" => c \in graph.driven
    BY <1>0 DEF ConsumerOp
  <2>. QED  BY <2>1, <2>2
<1>. QED  BY <1>1, <1>2, Takes

LEMMA PopStep ==
    ASSUME StreamsInv, NEW c \in Consumers, PopPort(c) PROVE StreamsInv'
<1>0. TypeOK /\ graph \in Graphs /\ agenda[c] # <<>> /\ Head(agenda[c])[1] = "Pop"
  BY DEF StreamsInv, TypeOK, PopPort, At
<1>1. PICK op : op = Head(agenda[c])
  OBVIOUS
<1>2. PICK e : e = graph.ports[c][op[2]]
  OBVIOUS
<1>3. /\ ConsumerOp(c, op) /\ c \in DOMAIN graph.ports /\ op[1] = "Pop"
      /\ op[2] \in 1..Len(graph.ports[c]) /\ e \in PortEdges(c) /\ e \in Edges
  BY <1>0, <1>1, <1>2, NextConsumerOperation
<1>4. ConsumerOf(e) = c /\ PolicyOf(e) = graph.policy[c]
  BY <1>0, <1>3, GraphFacts DEF PolicyOf
<1>5. PICK t : t = op[3]
  OBVIOUS
<1>6. t \in Timestamps /\ c \in graph.driven /\ PopOk(graph.policy[c], Len(graph.ports[c]), in[e], t)
  BY <1>2, <1>3, <1>5 DEF ConsumerOp
<1>7. PICK old : old = in[e]
  OBVIOUS
<1>8. /\ old \in Managers /\ old.queue \in Seq(Timestamps) /\ Len(old.queue) \in Nat
      /\ old.bound \in Timestamps /\ old.select \in Timestamps /\ old.closed \in BOOLEAN /\ old.max \in Int
  BY <1>0, <1>3, <1>7, TypeFacts DEF Managers
<1>9. PICK take \in BOOLEAN : take <=> (old.queue # <<>> /\ Head(old.queue) <= t)
  OBVIOUS
<1>10. PICK q : q = IF take THEN Tail(old.queue) ELSE old.queue
  OBVIOUS
<1>11. PICK b : b = IF old.bound <= t THEN NextAllowedInStream(t) ELSE old.bound
  OBVIOUS
<1>12. PICK x : x = IF take /\ Head(old.queue) = t THEN t ELSE NoPacket
  OBVIOUS
<1>13. PICK m : m = [old EXCEPT !.queue = q, !.select = t, !.bound = b]
  OBVIOUS
<1>14. PopPacketAtTimestamp(old, t) = [mgr |-> m, packet |-> x]
  <2>1. PopPacketAtTimestamp(old, t).mgr = m
    BY <1>9, <1>10, <1>11, <1>13 DEF PopPacketAtTimestamp
  <2>2. PopPacketAtTimestamp(old, t).packet = x
    BY <1>9, <1>12 DEF PopPacketAtTimestamp
  <2>. QED  BY <2>1, <2>2 DEF PopPacketAtTimestamp
<1>15. m.queue = q /\ m.bound = b /\ m.select = t /\ m.closed = old.closed /\ m.max = old.max
  BY <1>8, <1>13 DEF Managers
<1>16. Increasing(old.queue)
       /\ (PolicyOf(e) = "default" => \A j \in 1..Len(old.queue) : old.queue[j] < old.bound)
  BY <1>3, <1>7 DEF StreamsInv, EdgeInv, ManagerOk
<1>17. given[e] \in Seq(Timestamps)
  BY <1>0, <1>3, TypeFacts
<1>18. old.queue # <<>> =>
         /\ Tail(old.queue) \in Seq(Timestamps)
         /\ Head(old.queue) = old.queue[1] /\ Head(old.queue) \in Timestamps /\ 1 \in 1..Len(old.queue)
         /\ \A j \in 1..Len(Tail(old.queue)) :
               \E i \in 1..Len(old.queue) : Tail(old.queue)[j] = old.queue[i] /\ old.queue[1] < old.queue[i]
  BY <1>8, <1>16, <1>17, Dequeued
<1>19. m \in Managers
  <2>1. q \in Seq(Timestamps)
    BY <1>8, <1>9, <1>10, <1>18
  <2>2. b \in Timestamps
    BY <1>6, <1>8, <1>11, NextStep
  <2>. QED  BY <1>6, <1>8, <1>13, <2>1, <2>2 DEF Managers
<1>20. ASSUME PolicyOf(e) = "default"
       PROVE  m.bound = old.bound /\ m.select < m.bound /\ \A j \in 1..Len(m.queue) : m.select < m.queue[j]
  <2>1. t < old.bound /\ \A j \in 1..Len(old.queue) : t <= old.queue[j]
    BY <1>4, <1>6, <1>7, <1>20 DEF PopOk
  <2>2. t \in Int /\ old.bound \in Int /\ \A j \in 1..Len(old.queue) : old.queue[j] \in Int
    <3>1. \A j \in 1..Len(old.queue) : old.queue[j] \in Timestamps
      BY <1>8
    <3>. QED  BY <1>6, <1>8, <3>1, TimestampsInt
  <2>3. b = old.bound
    BY <1>11, <2>1, <2>2
  <2>4. ASSUME NEW j \in 1..Len(q) PROVE t < q[j]
    <3>1. CASE take
      <4>1. old.queue # <<>> /\ q = Tail(old.queue)
        BY <1>9, <1>10, <3>1
      <4>2. PICK i \in 1..Len(old.queue) : q[j] = old.queue[i] /\ old.queue[1] < old.queue[i]
        BY <1>18, <2>4, <4>1
      <4>3. 1 \in 1..Len(old.queue)
        BY <1>18, <4>1
      <4>. QED  BY <2>1, <2>2, <4>2, <4>3
    <3>2. CASE ~ take
      <4>1. q = old.queue /\ j \in 1..Len(old.queue) /\ old.queue # <<>>
        BY <1>10, <3>2
      <4>2. 1 \in 1..Len(old.queue) /\ ~ (old.queue[1] <= t)
        BY <1>9, <1>18, <3>2, <4>1
      <4>3. t < old.queue[1]
        BY <2>2, <4>2
      <4>4. j = 1 \/ old.queue[1] < old.queue[j]
        BY <1>16, <4>1, <4>2 DEF Increasing
      <4>. QED  BY <2>2, <4>1, <4>2, <4>3, <4>4
    <3>. QED  BY <3>1, <3>2
  <2>. QED  BY <1>15, <2>1, <2>3, <2>4
<1>21. PICK g : g = IF x = NoPacket THEN given[e] ELSE Append(given[e], x)
  OBVIOUS
<1>22. \/ m.queue = old.queue /\ g = given[e]
       \/ old.queue # <<>> /\ m.queue = Tail(old.queue) /\ g = Append(given[e], Head(old.queue))
       \/ old.queue # <<>> /\ m.queue = Tail(old.queue) /\ g = given[e] /\ ~ DropsNothing(e)
  <2>1. CASE ~ take
    BY <1>10, <1>12, <1>15, <1>21, <2>1
  <2>2. CASE take /\ Head(old.queue) = t
    <3>1. x = t /\ x # NoPacket
      BY <1>6, <1>12, <2>2, StreamsAssumption
    <3>. QED  BY <1>9, <1>10, <1>15, <1>21, <2>2, <3>1
  <2>3. CASE take /\ Head(old.queue) # t
    <3>1. x = NoPacket /\ old.queue # <<>> /\ m.queue = Tail(old.queue) /\ g = given[e] /\ Head(old.queue) <= t
      BY <1>9, <1>10, <1>12, <1>15, <1>21, <2>3
    <3>2. graph.policy[c] # "default"
      <4>1. ASSUME graph.policy[c] = "default" PROVE FALSE
        <5>1. t <= old.queue[1] /\ old.queue[1] \in Int /\ t \in Int
          BY <1>6, <1>7, <1>18, <3>1, <4>1, TimestampsInt DEF PopOk
        <5>. QED  BY <1>18, <2>3, <3>1, <5>1
      <4>. QED  BY <4>1
    <3>3. Len(graph.ports[c]) # 1
      BY <1>6, <1>7, <2>3, <3>2 DEF PopOk
    <3>4. ~ DropsNothing(e)
      BY <1>4, <1>6, <3>2, <3>3 DEF DropsNothing
    <3>. QED  BY <3>1, <3>4
  <2>. QED  BY <2>1, <2>2, <2>3
<1>23. PortNews(c, e, m, g)
  BY <1>3, <1>4, <1>7, <1>15, <1>19, <1>20, <1>22, PopNews
<1>24. Popped(c, e, [mgr |-> m, packet |-> x], TRUE)
  <2>1. Popped(c, e, PopPacketAtTimestamp(in[e], t), TRUE)
    BY <1>1, <1>2, <1>5 DEF PopPort, Arg
  <2>. QED  BY <1>7, <1>14, <2>1
<1>. QED  BY <1>0, <1>1, <1>2, <1>3, <1>21, <1>23, <1>24, PoppedStep

LEMMA PopHeadStep ==
    ASSUME StreamsInv, NEW c \in Consumers, PopHead(c) PROVE StreamsInv'
<1>0. TypeOK /\ graph \in Graphs /\ agenda[c] # <<>> /\ Head(agenda[c])[1] = "PopQueueHead"
  BY DEF StreamsInv, TypeOK, PopHead, At
<1>1. PICK op : op = Head(agenda[c])
  OBVIOUS
<1>2. PICK e : e = graph.ports[c][op[2]]
  OBVIOUS
<1>3. /\ ConsumerOp(c, op) /\ c \in DOMAIN graph.ports /\ op[1] = "PopQueueHead"
      /\ op[2] \in 1..Len(graph.ports[c]) /\ e \in PortEdges(c) /\ e \in Edges
  BY <1>0, <1>1, <1>2, NextConsumerOperation
<1>4. ConsumerOf(e) = c
  BY <1>0, <1>3, GraphFacts
<1>5. PICK old : old = in[e]
  OBVIOUS
<1>6. /\ old \in Managers /\ old.queue \in Seq(Timestamps)
      /\ old.bound \in Timestamps /\ old.select \in Timestamps /\ old.closed \in BOOLEAN /\ old.max \in Int
      /\ given[e] \in Seq(Timestamps)
  BY <1>0, <1>3, <1>5, TypeFacts DEF Managers
<1>7. /\ Increasing(old.queue)
      /\ PolicyOf(e) = "default" => /\ old.select < old.bound
                                    /\ \A j \in 1..Len(old.queue) : old.select < old.queue[j]
  BY <1>3, <1>5 DEF StreamsInv, EdgeInv, ManagerOk
<1>8. PICK q : q = IF old.queue = <<>> THEN old.queue ELSE Tail(old.queue)
  OBVIOUS
<1>9. PICK x : x = IF old.queue = <<>> THEN NoPacket ELSE Head(old.queue)
  OBVIOUS
<1>10. PICK m : m = [queue |-> q, bound |-> old.bound, select |-> old.select,
                     closed |-> old.closed, max |-> old.max]
  OBVIOUS
<1>11. PICK g : g = IF x = NoPacket THEN given[e] ELSE Append(given[e], x)
  OBVIOUS
<1>12. PopQueueHead(old) = [mgr |-> m, packet |-> x]
  <2>1. old = [queue |-> old.queue, bound |-> old.bound, select |-> old.select,
               closed |-> old.closed, max |-> old.max]
    BY <1>6 DEF Managers
  <2>2. CASE old.queue = <<>>
    <3>1. m = old
      BY <1>8, <1>10, <2>1, <2>2
    <3>. QED  BY <1>9, <2>2, <3>1 DEF PopQueueHead
  <2>3. CASE old.queue # <<>>
    <3>1. m = [old EXCEPT !.queue = q]
      BY <1>6, <1>10 DEF Managers
    <3>2. [old EXCEPT !.queue = q] = [old EXCEPT !.queue = Tail(@)]
      BY <1>8, <2>3
    <3>. QED  BY <1>9, <2>3, <3>1, <3>2 DEF PopQueueHead
  <2>. QED  BY <2>2, <2>3
<1>13. m.queue = q /\ m.bound = old.bound /\ m.select = old.select /\ m.closed = old.closed /\ m.max = old.max
  BY <1>10
<1>14. old.queue # <<>> =>
         /\ Tail(old.queue) \in Seq(Timestamps) /\ Head(old.queue) \in Timestamps
         /\ \A j \in 1..Len(Tail(old.queue)) : \E i \in 1..Len(old.queue) : Tail(old.queue)[j] = old.queue[i]
  BY <1>6, <1>7, Dequeued
<1>15. m \in Managers
  <2>1. q \in Seq(Timestamps)
    BY <1>6, <1>8, <1>14
  <2>. QED  BY <1>6, <1>10, <2>1 DEF Managers
<1>16. PolicyOf(e) = "default" =>
         m.bound = old.bound /\ m.select < m.bound /\ \A j \in 1..Len(m.queue) : m.select < m.queue[j]
  BY <1>7, <1>8, <1>13, <1>14
<1>17. \/ m.queue = old.queue /\ g = given[e]
       \/ old.queue # <<>> /\ m.queue = Tail(old.queue) /\ g = Append(given[e], Head(old.queue))
  <2>1. CASE old.queue = <<>>
    BY <1>8, <1>9, <1>11, <1>13, <2>1
  <2>2. CASE old.queue # <<>>
    <3>1. x = Head(old.queue) /\ x # NoPacket
      BY <1>9, <1>14, <2>2, StreamsAssumption
    <3>. QED  BY <1>8, <1>11, <1>13, <2>2, <3>1
  <2>. QED  BY <2>1, <2>2
<1>18. PortNews(c, e, m, g)
  BY <1>3, <1>4, <1>5, <1>13, <1>15, <1>16, <1>17, PopNews
<1>19. Popped(c, e, [mgr |-> m, packet |-> x], FALSE)
  <2>1. Popped(c, e, PopQueueHead(in[e]), FALSE)
    BY <1>1, <1>2 DEF PopHead, Arg
  <2>. QED  BY <1>5, <1>12, <2>1
<1>. QED  BY <1>0, <1>1, <1>2, <1>3, <1>11, <1>18, <1>19, PoppedStep

LEMMA CloseInputStep ==
    ASSUME StreamsInv, NEW c \in Consumers, CloseInput(c) PROVE StreamsInv'
<1>0. /\ TypeOK /\ graph \in Graphs /\ agenda[c] # <<>> /\ Head(agenda[c])[1] = "Close" /\ Then(c, <<>>)
      /\ UNCHANGED <<graph, out, calls, view, notified, stopped, full, sent, given>>
  BY DEF StreamsInv, TypeOK, CloseInput, At
<1>1. PICK op : op = Head(agenda[c])
  OBVIOUS
<1>2. PICK e : e = graph.ports[c][op[2]]
  OBVIOUS
<1>3. /\ ConsumerOp(c, op) /\ c \in DOMAIN graph.ports /\ op[1] = "Close"
      /\ op[2] \in 1..Len(graph.ports[c]) /\ e \in PortEdges(c) /\ e \in Edges
  BY <1>0, <1>1, <1>2, NextConsumerOperation
<1>4. c \in stopped /\ ConsumerOf(e) = c /\ PolicyOf(e) = graph.policy[c]
  BY <1>0, <1>3, GraphFacts DEF ConsumerOp, PolicyOf
<1>5. PICK old : old = in[e]
  OBVIOUS
<1>6. PICK m : m = Close(old)
  OBVIOUS
<1>7. /\ old \in Managers /\ old.queue \in Seq(Timestamps) /\ old.bound \in Int /\ old.select \in Int
      /\ old.bound <= Done
  <2>1. old \in Managers /\ old.bound \in Timestamps /\ old.select \in Timestamps /\ old.queue \in Seq(Timestamps)
    BY <1>0, <1>3, <1>5, TypeFacts DEF Managers
  <2>. QED  BY <2>1, TimestampsInt
<1>8. /\ m \in Managers /\ m.queue = old.queue /\ m.select = old.select /\ m.max = old.max
      /\ m = old \/ (m.closed /\ m.bound = Done)
  <2>1. CASE old.closed
    BY <1>6, <1>7, <2>1 DEF Close
  <2>2. CASE ~ old.closed
    <3>1. m = [old EXCEPT !.closed = TRUE, !.bound = Done]
      BY <1>6, <2>2 DEF Close
    <3>2. Done \in Timestamps
      BY TimestampsInt
    <3>. QED  BY <1>7, <3>1, <3>2 DEF Managers
  <2>. QED  BY <2>1, <2>2
<1>9. old.queue = <<>> /\ \A x \in OpsOf(agenda[ProducerOf(e)]) : x[1] = "Update" /\ x[2] = e => x[3] = <<>>
  BY <1>3, <1>4, <1>5 DEF StreamsInv, StoppedInv
<1>10. ManagerOk(PolicyOf(e), old, out[ProducerOf(e)].bound)
  BY <1>3, <1>5 DEF StreamsInv, EdgeInv
<1>11. Len(old.queue) = 0 /\ Len(<<>>) = 0
  BY <1>9
<1>12. ManagerOk(PolicyOf(e), m, out[ProducerOf(e)].bound)
  <2>1. CASE m = old
    BY <1>10, <2>1
  <2>2. CASE m.closed /\ m.bound = Done
    <3>1. PolicyOf(e) = "default" => m.select < m.bound
      BY <1>7, <1>8, <1>10, <2>2, TimestampsInt DEF ManagerOk
    <3>. QED  BY <1>8, <1>10, <1>11, <2>2, <3>1 DEF ManagerOk
  <2>. QED  BY <1>8, <2>1, <2>2
<1>13. ASSUME NEW x \in OpsOf(agenda[ProducerOf(e)]), x[1] = "Update", x[2] = e
       PROVE  UpdateNews(PolicyOf(e), m, x)
  BY <1>9, <1>11, <1>13 DEF UpdateNews
<1>14. PICK g : g = given[e]
  OBVIOUS
<1>15. PortNews(c, e, m, g)
  <2>1. IsFull(m) => IsFull(in[e])
    BY <1>5, <1>8 DEF IsFull
  <2>2. g \in Seq(Timestamps) /\ g \o m.queue = given[e] \o in[e].queue
    BY <1>0, <1>3, <1>5, <1>8, <1>14, TypeFacts
  <2>. QED  BY <1>4, <1>5, <1>8, <1>9, <1>12, <1>13, <2>1, <2>2 DEF PortNews
<1>16. ReaderKept(graph.policy[c], Len(graph.ports[c]), in[e], m)
  <2>1. CASE m = old
    BY <1>5, <2>1 DEF ReaderKept
  <2>2. CASE m.closed /\ m.bound = Done
    <3>1. ASSUME NEW t \in Timestamps, PopOk(graph.policy[c], Len(graph.ports[c]), old, t)
          PROVE  PopOk(graph.policy[c], Len(graph.ports[c]), m, t)
      <4>1. IsAllowedInStream(t) => t < Done
        BY TimestampsInt
      <4>. QED  BY <1>8, <2>2, <3>1, <4>1 DEF PopOk
    <3>2. ASSUME NEW x \in Readings, ReadingOk(old, x) PROVE ReadingOk(m, x)
      <4>1. x.ts <= Done
        BY TimestampsInt DEF Readings
      <4>. QED  BY <1>8, <2>2, <3>2, <4>1 DEF ReadingOk
    <3>. QED  BY <1>5, <3>1, <3>2 DEF ReaderKept
  <2>. QED  BY <1>8, <2>1, <2>2
<1>17. in' = [in EXCEPT ![e] = m] /\ given' = [given EXCEPT ![e] = g]
  <2>1. in' = [in EXCEPT ![e] = Close(in[e])]
    BY <1>1, <1>2 DEF CloseInput, Arg
  <2>. QED  BY <1>0, <1>3, <1>5, <1>6, <1>14, <2>1 DEF TypeOK
<1>18. PICK ops : ops = <<>>
  OBVIOUS
<1>19. ops \in {<<>>, << <<"NotFull", e>> >>} /\ Then(c, ops)
  BY <1>0, <1>18
<1>. QED  BY <1>0, <1>1, <1>2, <1>3, <1>15, <1>16, <1>17, <1>18, <1>19, Takes

-----------------------------------------------------------------------------
(* The invariant holds.                                                    *)

LEMMA StreamsInit == Init => StreamsInv
<1>. SUFFICES ASSUME Init PROVE StreamsInv
  OBVIOUS
<1>. USE DEF Init
<1>0. graph \in Graphs /\ agenda \in [Threads -> {<<>>}] /\ stopped = {}
  OBVIOUS
<1>1. ASSUME NEW e \in Edges
      PROVE  /\ in[e] \in Managers /\ in[e].queue = <<>> /\ in[e].bound = PreStream /\ in[e].select = Unstarted
             /\ in[e].closed = FALSE /\ ~ IsFull(in[e])
             /\ ProducerOf(e) \in Producers /\ given[e] = <<>>
  <2>. DEFINE c == ConsumerOf(e)
              max == SetInputStreamManagers(c, graph.policy[c])
  <2>1. c \in Consumers /\ ProducerOf(e) \in Producers
    BY GraphFacts
  <2>2. max \in Int /\ (max = -1 \/ max > 0)
    BY <2>1, StreamsAssumption DEF SetInputStreamManagers
  <2>3. in[e] = PrepareForRun(max)
    OBVIOUS
  <2>. HIDE DEF max, c
  <2>4. PreStream \in Timestamps /\ Unstarted \in Timestamps /\ <<>> \in Seq(Timestamps) /\ Len(<<>>) = 0
    BY NamedTimestamps
  <2>5. in[e] = [queue |-> <<>>, bound |-> PreStream, select |-> Unstarted, closed |-> FALSE, max |-> max]
    BY <2>3 DEF PrepareForRun
  <2>. HIDE DEF Init
  <2>6. in[e] \in Managers
    BY <2>2, <2>4, <2>5 DEF Managers
  <2>7. ~ IsFull(in[e])
    BY <2>2, <2>4, <2>5 DEF IsFull
  <2>8. given[e] = <<>>
    BY DEF Init
  <2>. QED  BY <2>1, <2>5, <2>6, <2>7, <2>8
<1>2. \A p \in Producers : agenda[p] = <<>> /\ out[p].bound = Unset /\ sent[p] = <<>>
  BY DEF Threads
<1>3. \A c \in Consumers : agenda[c] = <<>> /\ view[c] = <<>>
  BY DEF Threads
<1>4. TypeOK
  <2>1. agenda \in [Threads -> Seq(Operations)]
    OBVIOUS
  <2>2. in \in [Edges -> Managers]
    BY <1>1
  <2>3. out \in [Producers -> [bound : Timestamps, closed : BOOLEAN]]
    BY NamedTimestamps
  <2>4. calls \in [Producers -> Nat] /\ \A p \in Producers : calls[p] <= MaxInvocations[p]
    BY StreamsAssumption
  <2>5. view \in [Consumers -> Seq([empty : BOOLEAN, ts : Timestamps])]
    OBVIOUS
  <2>6. sent \in [Producers -> Seq(Timestamps)] /\ given \in [Edges -> Seq(Timestamps)]
    OBVIOUS
  <2>. QED  BY <2>1, <2>2, <2>3, <2>4, <2>5, <2>6 DEF TypeOK
<1>. HIDE DEF Init
<1>5. \A x : x \notin OpsOf(<<>>)
  BY DEF OpsOf
<1>6. ASSUME NEW p \in Producers PROVE ProducerInv(p)
  BY <1>2, <1>5 DEF ProducerInv, PacketsFirst
<1>7. ASSUME NEW c \in Consumers PROVE ConsumerInv(c)
  BY <1>3, <1>5 DEF ConsumerInv, ReadsLast
<1>8. ASSUME NEW e \in Edges PROVE EdgeInv(e)
  <2>0. /\ in[e].queue = <<>> /\ in[e].bound = PreStream /\ in[e].select = Unstarted /\ ~ in[e].closed
        /\ ProducerOf(e) \in Producers
    BY <1>1
  <2>1. PICK m : m = in[e]
    OBVIOUS
  <2>2. PICK b : b = out[ProducerOf(e)].bound
    OBVIOUS
  <2>3. m.queue = <<>> /\ Len(m.queue) = 0 /\ b = Unset
    BY <1>2, <2>0, <2>1, <2>2
  <2>4. PreStream \in Int /\ Unset \in Int /\ Unset < PreStream /\ Unstarted < PreStream
    BY TimestampsInt, NamedTimestamps
  <2>5. m.bound <= Later(b, PreStream) /\ m.select < m.bound
    BY <2>0, <2>1, <2>3, <2>4 DEF Later
  <2>6. ManagerOk(PolicyOf(e), m, b)
    BY <2>3, <2>5 DEF ManagerOk, Increasing
  <2>7. \A op : op \notin OpsOf(agenda[ProducerOf(e)])
    BY <1>2, <1>5, <2>0
  <2>. QED  BY <2>0, <2>1, <2>2, <2>6, <2>7 DEF EdgeInv
<1>9. Lossless
  <2>1. ASSUME NEW e \in Edges PROVE sent[ProducerOf(e)] = given[e] \o in[e].queue \o OnTheWay(e)
    <3>1. OnTheWay(e) = <<>>
      <4>1. agenda[ProducerOf(e)] = <<>>
        BY <1>1, <1>2
      <4>2. OnTheWay(e) = OnWay(<<>>, e)
        BY <4>1, OnTheWayIs
      <4>3. Len(<<>>) \in Nat /\ <<>> \in Seq(Timestamps)
        OBVIOUS
      <4>4. Carries(<<>>, e, 0, <<>>)
        BY <4>3 DEF Carries
      <4>. QED  BY <4>2, <4>3, <4>4, CarriesIs
    <3>2. <<>> \o <<>> = <<>>
      OBVIOUS
    <3>3. sent[ProducerOf(e)] = <<>> /\ given[e] = <<>> /\ in[e].queue = <<>>
      BY <1>1, <1>2
    <3>. QED  BY <3>1, <3>2, <3>3
  <2>. QED  BY <2>1 DEF Lossless
<1>10. FullIsRecorded
  BY <1>1 DEF FullIsRecorded
<1>. QED  BY <1>0, <1>4, <1>6, <1>7, <1>8, <1>9, <1>10 DEF StreamsInv

LEMMA StreamsStutter == StreamsInv /\ UNCHANGED vars => StreamsInv'
<1>. SUFFICES ASSUME StreamsInv, UNCHANGED vars PROVE StreamsInv'
  OBVIOUS
<1>1. UNCHANGED <<agenda, graph, in, out, calls, view, notified, stopped, full, sent, given>>
  BY DEF vars
<1>2. Edges' = Edges /\ Operations' = Operations
      /\ \A e : ConsumerOf(e)' = ConsumerOf(e) /\ ProducerOf(e)' = ProducerOf(e) /\ DropsNothing(e)' = DropsNothing(e)
  BY <1>1, GraphKept
<1>3. TypeOK'
  BY <1>1, <1>2 DEF StreamsInv, TypeOK
<1>4. ASSUME NEW p \in Producers PROVE ProducerInv(p)'
  <2>1. ProducerInv(p)
    BY DEF StreamsInv
  <2>. QED  BY <1>1, <2>1, ProducerFrame
<1>5. ASSUME NEW c \in Consumers PROVE ConsumerInv(c)'
  <2>1. TypeOK /\ graph \in Graphs /\ ConsumerInv(c)
    BY DEF StreamsInv, TypeOK
  <2>2. view[c] \in Seq(Readings) /\ agenda[c] \in Seq(Operations)
    BY <2>1, TypeFacts
  <2>3. \A e : ReaderKept(graph.policy[c], Len(graph.ports[c]), in[e], in'[e])
    BY <1>1 DEF ReaderKept
  <2>. QED  BY <1>1, <2>1, <2>2, <2>3, ConsumerFrame
<1>6. ASSUME NEW e \in Edges PROVE EdgeInv(e)'
  <2>1. EdgeInv(e)
    BY DEF StreamsInv
  <2>. QED  BY <1>1, <2>1, EdgeFrame
<1>7. ASSUME NEW c \in stopped PROVE StoppedInv(c)'
  <2>1. StoppedInv(c)
    BY DEF StreamsInv
  <2>. QED  BY <1>1, <2>1, StoppedFrame
<1>8. Lossless'
  <2>1. ASSUME NEW e \in Edges, DropsNothing(e)
        PROVE  sent'[ProducerOf(e)] = given'[e] \o in'[e].queue \o OnWay(agenda'[ProducerOf(e)], e)
    BY <1>1, <2>1, OnTheWayIs DEF StreamsInv, Lossless
  <2>. QED  BY <1>1, <2>1, LosslessNext
<1>9. FullIsRecorded'
  <2>1. ASSUME NEW e \in Edges, ConsumerOf(e) \notin graph.driven, IsFull(in'[e]),
               <<"Full", e>> \notin OpsOf(agenda'[ProducerOf(e)])
        PROVE  e \in full'
    BY <1>1, <2>1, RecordedNow
  <2>. QED  BY <1>1, <2>1, RecordedNext
<1>. QED  BY <1>1, <1>2, <1>3, <1>4, <1>5, <1>6, <1>7, <1>8, <1>9 DEF StreamsInv

LEMMA StreamsStep == StreamsInv /\ [Next]_vars => StreamsInv'
<1>. SUFFICES ASSUME StreamsInv, [Next]_vars PROVE StreamsInv'
  OBVIOUS
<1>1. CASE UNCHANGED vars
  BY <1>1, StreamsStutter
<1>2. ASSUME NEW p \in Producers,
             \/ Process(p) \/ AddPacketToInputStream(p)
             \/ UpdateTaskTimestampBound(p) \/ CloseOutput(p) \/ Deliver(p)
      PROVE  StreamsInv'
  <2>1. CASE Process(p)
    BY <2>1, ProcessStep
  <2>2. CASE AddPacketToInputStream(p)
    BY <2>2, AddPacketStep
  <2>3. CASE UpdateTaskTimestampBound(p)
    BY <2>3, UpdateBoundStep
  <2>4. CASE CloseOutput(p)
    BY <2>4, CloseOutputStep
  <2>5. CASE Mirror(p)
    BY <2>5, MirrorStep
  <2>6. CASE OnInputStreamFull(p) \/ NotifyPacketArrival(p)
    BY <2>6, CallbackStep
  <2>. QED  BY <1>2, <2>1, <2>2, <2>3, <2>4, <2>5, <2>6 DEF Deliver
<1>3. ASSUME NEW c \in Consumers, Consume(c) PROVE StreamsInv'
  <2>1. CASE ScheduleInvocations(c)
    BY <2>1, ScheduleStep
  <2>2. CASE IsFullPort(c)
    BY <2>2, IsFullStep
  <2>3. CASE ReadPort(c)
    BY <2>3, ReadStep
  <2>4. CASE PopPort(c)
    BY <2>4, PopStep
  <2>5. CASE OnInputStreamNotFull(c)
    BY <2>5, NotFullStep
  <2>6. CASE CloseInput(c)
    BY <2>6, CloseInputStep
  <2>7. CASE RunNode(c)
    BY <2>7, RunNodeStep
  <2>8. CASE PopHead(c)
    BY <2>8, PopHeadStep
  <2>. QED  BY <1>3, <2>1, <2>2, <2>3, <2>4, <2>5, <2>6, <2>7, <2>8 DEF Consume
<1>. QED  BY <1>1, <1>2, <1>3 DEF Next

\* The inductive invariant holds in every reachable state.
THEOREM StreamsInvariance == Spec => []StreamsInv
BY StreamsInit, StreamsStep, PTL DEF Spec

\* Every variable keeps its type: every agenda has only operations of its kind,
\* every manager and every bound are values of the code's types.
THEOREM StreamsTypeCorrect == Spec => []TypeOK
<1>1. StreamsInv => TypeOK
  BY DEF StreamsInv
<1>. QED  BY <1>1, StreamsInvariance, PTL

\* No consumer loses, repeats or reorders a packet, for any graph
\* (PropagateUpdatesToMirrors, AddPackets, PopPacketAtTimestamp, PopQueueHead).
THEOREM StreamsLossless == Spec => []Lossless
<1>1. StreamsInv => Lossless
  BY DEF StreamsInv
<1>. QED  BY <1>1, StreamsInvariance, PTL

\* A full queue that RunNode drains is on record as full (OnInputStreamFull).
THEOREM FullQueuesRecorded == Spec => []FullIsRecorded
<1>1. StreamsInv => FullIsRecorded
  BY DEF StreamsInv
<1>. QED  BY <1>1, StreamsInvariance, PTL

-----------------------------------------------------------------------------
(* What follows.                                                           *)

\* The packets on the way to e are those of one update.
LEMMA OnTheWayFrom ==
    ASSUME StreamsInv, NEW e \in Edges
    PROVE  /\ OnTheWay(e) \in Seq(Timestamps)
           /\ \/ OnTheWay(e) = <<>>
              \/ \E op \in OpsOf(agenda[ProducerOf(e)]) : op[1] = "Update" /\ op[2] = e /\ op[3] = OnTheWay(e)
<1>0. TypeOK /\ graph \in Graphs /\ ProducerOf(e) \in Producers
  BY TypeFacts DEF StreamsInv, TypeOK
<1>1. PICK a : a = agenda[ProducerOf(e)]
  OBVIOUS
<1>2. Len(a) \in Nat /\ PacketsFirst(a)
  <2>1. a \in Seq(Operations)
    BY <1>0, <1>1, TypeFacts
  <2>. QED  BY <1>0, <1>1, <2>1 DEF StreamsInv, ProducerInv
<1>3. ASSUME NEW i \in 1..Len(a), a[i][1] = "Update" PROVE a[i][3] \in Seq(Timestamps)
  <2>1. a[i] \in OpsOf(agenda[ProducerOf(e)])
    BY <1>1 DEF OpsOf
  <2>. QED  BY <1>0, <1>3, <2>1 DEF StreamsInv, ProducerInv, ProducerOp, UpdateKept
<1>4. PICK k, ts : Carries(a, e, k, ts)
  BY <1>2, <1>3, CarriesSome DEF PacketsFirst
<1>5. OnTheWay(e) = ts
  <2>1. OnWay(a, e) = ts
    BY <1>2, <1>4, CarriesIs
  <2>. QED  BY <1>1, <2>1, OnTheWayIs
<1>6. ts \in Seq(Timestamps) /\ (k = 0 => ts = <<>>) /\ k \in 0..Len(a)
      /\ (k # 0 => a[k][1] = "Update" /\ a[k][2] = e /\ a[k][3] = ts)
  BY <1>4 DEF Carries
<1>7. CASE k = 0
  BY <1>5, <1>6, <1>7
<1>8. CASE k # 0
  <2>1. k \in 1..Len(a)
    BY <1>2, <1>6, <1>8
  <2>2. a[k] \in OpsOf(a)
    BY <2>1 DEF OpsOf
  <2>. QED  BY <1>1, <1>5, <1>6, <1>8, <2>2
<1>. QED  BY <1>7, <1>8

\* What was selected is settled: nothing up to the timestamp of an input set is
\* left or comes (SyncSet::GetReadiness).
THEOREM InputSetsAreSettled == Spec => []InputSetsSettled
<1>1. ASSUME StreamsInv PROVE InputSetsSettled
  <2>. SUFFICES ASSUME NEW c \in graph.driven, graph.policy[c] = "default", NEW e \in PortEdges(c),
                       NEW i \in 1..Len(in[e].queue \o OnTheWay(e))
                PROVE  (in[e].queue \o OnTheWay(e))[i] > in[e].select
    BY DEF InputSetsSettled
  <2>0. TypeOK /\ graph \in Graphs /\ c \in DOMAIN graph.ports /\ e \in Edges
        /\ ConsumerOf(e) = c /\ PolicyOf(e) = "default"
    BY <1>1, GraphFacts DEF StreamsInv, TypeOK, PolicyOf
  <2>1. PICK m : m = in[e]
    OBVIOUS
  <2>2. PICK w : w = OnTheWay(e)
    OBVIOUS
  <2>3. /\ m.queue \in Seq(Timestamps) /\ Len(m.queue) \in Nat /\ m.select \in Int /\ m.bound \in Int
        /\ w \in Seq(Timestamps) /\ Len(w) \in Nat
    <3>1. m.queue \in Seq(Timestamps) /\ m.select \in Timestamps /\ m.bound \in Timestamps
      BY <2>0, <2>1, TypeFacts DEF Managers
    <3>2. w \in Seq(Timestamps)
      BY <1>1, <2>0, <2>2, OnTheWayFrom
    <3>. QED  BY <3>1, <3>2, TimestampsInt
  <2>4. m.select < m.bound /\ \A j \in 1..Len(m.queue) : m.select < m.queue[j]
    BY <1>1, <2>0, <2>1 DEF StreamsInv, EdgeInv, ManagerOk
  <2>5. ASSUME NEW j \in 1..Len(w) PROVE m.select < w[j]
    <3>1. w # <<>>
      BY <2>3
    <3>2. PICK op \in OpsOf(agenda[ProducerOf(e)]) : op[1] = "Update" /\ op[2] = e /\ op[3] = w
      BY <1>1, <2>0, <2>2, <3>1, OnTheWayFrom
    <3>3. UpdateNews(PolicyOf(e), m, op)
      BY <1>1, <2>0, <2>1, <3>2 DEF StreamsInv, EdgeInv
    <3>4. w[j] >= m.bound /\ w[j] \in Int
      <4>1. w[j] >= m.bound
        BY <2>0, <3>2, <3>3 DEF UpdateNews
      <4>. QED  BY <2>3, <4>1, TimestampsInt
    <3>. QED  BY <2>3, <2>4, <3>4
  <2>6. \A j \in 1..(Len(m.queue) + Len(w)) :
           (m.queue \o w)[j] = IF j <= Len(m.queue) THEN m.queue[j] ELSE w[j - Len(m.queue)]
    BY <2>3, ConcatProperties
  <2>7. Len(m.queue \o w) = Len(m.queue) + Len(w)
    BY <2>3, ConcatProperties
  <2>8. i \in 1..(Len(m.queue) + Len(w))
    BY <2>1, <2>2, <2>7
  <2>9. PICK x : x = (m.queue \o w)[i]
    OBVIOUS
  <2>10. m.select < x
    <3>1. CASE i <= Len(m.queue)
      <4>1. i \in 1..Len(m.queue) /\ x = m.queue[i]
        BY <2>3, <2>6, <2>8, <2>9, <3>1
      <4>. QED  BY <2>4, <4>1
    <3>2. CASE ~ (i <= Len(m.queue))
      <4>1. i - Len(m.queue) \in 1..Len(w) /\ x = w[i - Len(m.queue)]
        BY <2>3, <2>6, <2>8, <2>9, <3>2
      <4>. QED  BY <2>5, <4>1
    <3>. QED  BY <3>1, <3>2
  <2>11. x \in Int
    <3>1. m.queue \o w \in Seq(Timestamps)
      BY <2>3, ConcatProperties
    <3>2. x \in Timestamps
      BY <2>7, <2>8, <2>9, <3>1
    <3>. QED  BY <3>2, TimestampsInt
  <2>. QED  BY <2>1, <2>2, <2>3, <2>9, <2>10, <2>11
<1>. QED  BY <1>1, StreamsInvariance, PTL

\* A consumer that was told to close has been given every packet of its
\* producers, now and for ever (SyncSet::GetReadiness).
THEOREM ClosedIsExhausted == Spec => []ClosedMeansExhausted
<1>1. ASSUME StreamsInv PROVE ClosedMeansExhausted
  <2>. SUFFICES ASSUME NEW c \in stopped, NEW e \in PortEdges(c) PROVE given[e] = sent[ProducerOf(e)]
    BY DEF ClosedMeansExhausted
  <2>0. TypeOK /\ graph \in Graphs /\ StoppedInv(c) /\ c \in DOMAIN graph.ports
    BY <1>1, GraphFacts DEF StreamsInv, TypeOK
  <2>1. e \in Edges /\ ConsumerOf(e) = c /\ graph.policy[c] = "default"
    BY <2>0, GraphFacts DEF StoppedInv
  <2>2. in[e].queue = <<>>
    BY <2>0 DEF StoppedInv
  <2>3. OnTheWay(e) = <<>>
    <3>1. \A op \in OpsOf(agenda[ProducerOf(e)]) : op[1] = "Update" /\ op[2] = e => op[3] = <<>>
      BY <2>0 DEF StoppedInv
    <3>. QED  BY <1>1, <2>1, <3>1, OnTheWayFrom
  <2>4. DropsNothing(e)
    BY <2>1 DEF DropsNothing
  <2>5. sent[ProducerOf(e)] = given[e] \o in[e].queue \o OnTheWay(e)
    BY <1>1, <2>1, <2>4 DEF StreamsInv, Lossless
  <2>6. given[e] \in Seq(Timestamps)
    BY <2>0, <2>1, TypeFacts
  <2>7. given[e] \o <<>> = given[e]
    BY <2>6, ConcatEmptySeq
  <2>. QED  BY <2>2, <2>3, <2>5, <2>7
<1>. QED  BY <1>1, StreamsInvariance, PTL

-----------------------------------------------------------------------------
(* Bounds never recede.                                                    *)

OutRises == \A p \in Producers : out'[p].bound >= out[p].bound
InRises == \A e \in Edges : graph.policy[ConsumerOf(e)] = "default" => in'[e].bound >= in[e].bound

LEMMA BoundsInt ==
    ASSUME TypeOK
    PROVE  /\ \A p \in Producers : out[p].bound \in Int /\ out[p].bound >= out[p].bound
           /\ \A e \in Edges : in[e].bound \in Int /\ in[e].bound >= in[e].bound
<1>1. ASSUME NEW p \in Producers PROVE out[p].bound \in Int /\ out[p].bound >= out[p].bound
  BY TypeFacts
<1>2. ASSUME NEW e \in Edges PROVE in[e].bound \in Int /\ in[e].bound >= in[e].bound
  <2>1. in[e].bound \in Timestamps
    BY TypeFacts DEF Managers
  <2>. QED  BY <2>1, TimestampsInt
<1>. QED  BY <1>1, <1>2

LEMMA OutOnlyRises ==
    ASSUME StreamsInv, [Next]_vars PROVE OutRises
<1>0. TypeOK /\ out \in [Producers -> [bound : Timestamps, closed : BOOLEAN]]
  BY DEF StreamsInv, TypeOK
<1>1. ASSUME NEW p \in Producers, NEW b \in Timestamps, NEW closed, b >= out[p].bound,
             out' = [out EXCEPT ![p] = [bound |-> b, closed |-> closed]]
      PROVE  OutRises
  <2>1. out'[p].bound = b /\ \A q \in Producers : q # p => out'[q] = out[q]
    BY <1>0, <1>1
  <2>. QED  BY <1>0, <1>1, <2>1, BoundsInt DEF OutRises
<1>2. ASSUME out' = out PROVE OutRises
  BY <1>0, <1>2, BoundsInt DEF OutRises
<1>3. ASSUME NEW p \in Producers, NEW s, ShardOk(s, out[p].bound), NEW t \in Int, t >= MinTime, Propagate(p, s, t)
      PROVE  OutRises
  <2>1. PICK next : next = ComputeOutputTimestampBound(p, s, t)
    OBVIOUS
  <2>2. out[p].bound \in Timestamps
    BY <1>0
  <2>3. next \in Timestamps /\ next >= out[p].bound
    BY <1>3, <2>1, <2>2, NextBound
  <2>4. PICK b : b = IF s.closed THEN Done ELSE next
    OBVIOUS
  <2>5. b \in Timestamps /\ b >= out[p].bound
    <3>1. Done \in Timestamps /\ Done >= out[p].bound
      BY <2>2, TimestampsInt
    <3>. QED  BY <2>3, <2>4, <3>1
  <2>6. out' = [out EXCEPT ![p] = [bound |-> b, closed |-> s.closed]]
    BY <1>3, <2>1, <2>4 DEF Propagate
  <2>. QED  BY <1>1, <2>5, <2>6
<1>4. ASSUME NEW p \in Producers, Process(p) PROVE OutRises
  <2>1. PICK b \in Behaviours[p] : /\ Lawful(p, b)
                                   /\ Propagate(p, FoldLeft(ShardCall, ShardReset(p), b), MinTime + calls[p])
    BY <1>4 DEF Process
  <2>2. ShardOk(FoldLeft(ShardCall, ShardReset(p), b), out[p].bound)
    BY <1>0, <2>1, LawfulShard
  <2>3. MinTime + calls[p] \in Int /\ MinTime + calls[p] >= MinTime
    BY <1>0, TimestampAssumption DEF TypeOK, MinTime
  <2>. QED  BY <1>3, <2>1, <2>2, <2>3
<1>5. ASSUME NEW p \in Producers, AddPacketToInputStream(p) PROVE OutRises
  <2>1. PICK b \in Behaviours[p] : /\ Lawful(p, b)
                                   /\ Propagate(p, FoldLeft(ShardCall, ShardReset(p), b), MinTime)
    BY <1>5 DEF AddPacketToInputStream
  <2>2. ShardOk(FoldLeft(ShardCall, ShardReset(p), b), out[p].bound)
    BY <1>0, <2>1, LawfulShard
  <2>3. MinTime \in Int /\ MinTime >= MinTime
    BY TimestampAssumption DEF MinTime
  <2>. QED  BY <1>3, <2>1, <2>2, <2>3
<1>6. ASSUME NEW p \in Producers, UpdateTaskTimestampBound(p) PROVE OutRises
  <2>1. PICK next : /\ next = Plus(MinTime + calls[p], Offset[p]) /\ next > out[p].bound
                    /\ out' = [out EXCEPT ![p].bound = next]
    BY <1>6 DEF UpdateTaskTimestampBound
  <2>2. out'[p].bound = next /\ \A q \in Producers : q # p => out'[q] = out[q]
    BY <1>0, <2>1
  <2>3. next \in Int
    BY <1>0, <1>6, <2>1, UpdatedBound, TimestampsInt
  <2>4. next >= out[p].bound
    BY <1>0, <2>1, <2>3, BoundsInt
  <2>. QED  BY <1>0, <2>2, <2>4, BoundsInt DEF OutRises
<1>7. ASSUME NEW p \in Producers, CloseOutput(p) PROVE OutRises
  <2>1. out' = [out EXCEPT ![p] = [bound |-> Done, closed |-> TRUE]]
    BY <1>7 DEF CloseOutput
  <2>2. Done \in Timestamps /\ Done >= out[p].bound
    BY <1>0, TimestampsInt
  <2>. QED  BY <1>1, <2>1, <2>2
<1>8. ASSUME NEW p \in Producers, Deliver(p) PROVE OutRises
  <2>1. out' = out
    BY <1>8 DEF Deliver, Mirror, OnInputStreamFull, NotifyPacketArrival
  <2>. QED  BY <1>2, <2>1
<1>9. ASSUME NEW c \in Consumers, Consume(c) PROVE OutRises
  <2>1. out' = out
    BY <1>9 DEF Consume, ScheduleInvocations, IsFullPort, ReadPort, PopPort, OnInputStreamNotFull, CloseInput,
                RunNode, PopHead, Popped
  <2>. QED  BY <1>2, <2>1
<1>10. CASE UNCHANGED vars
  BY <1>2, <1>10 DEF vars
<1>. QED  BY <1>4, <1>5, <1>6, <1>7, <1>8, <1>9, <1>10 DEF Next

LEMMA InOnlyRises ==
    ASSUME StreamsInv, [Next]_vars PROVE InRises
<1>0. TypeOK /\ graph \in Graphs /\ in \in [Edges -> Managers]
  BY DEF StreamsInv, TypeOK
<1>1. ASSUME NEW e \in Edges, NEW m, in' = [in EXCEPT ![e] = m],
             graph.policy[ConsumerOf(e)] = "default" => m.bound >= in[e].bound
      PROVE  InRises
  <2>1. in'[e] = m /\ \A x \in Edges : x # e => in'[x] = in[x]
    BY <1>0, <1>1
  <2>. QED  BY <1>0, <1>1, <2>1, BoundsInt DEF InRises
<1>2. ASSUME in' = in PROVE InRises
  BY <1>0, <1>2, BoundsInt DEF InRises
<1>3. ASSUME NEW p \in Producers, Mirror(p) PROVE InRises
  <2>1. PICK op : op = Head(agenda[p])
    OBVIOUS
  <2>2. PICK e : e = op[2]
    OBVIOUS
  <2>3. PICK m : m = Updated(in[e], op[3], op[4])
    OBVIOUS
  <2>4. agenda[p] # <<>> /\ op[1] = "Update" /\ in' = [in EXCEPT ![e] = m]
    BY <1>3, <2>1, <2>2, <2>3 DEF Mirror, At, Arg, Updated
  <2>5. /\ e \in Edges
        /\ in[e] \in Managers /\ ManagerOk(PolicyOf(e), in[e], out[p].bound)
        /\ out[p].bound \in Timestamps /\ UpdateKept(out[p].bound, op) /\ UpdateNews(PolicyOf(e), in[e], op)
        /\ in[e].closed => op[3] = <<>>
    BY <2>1, <2>2, <2>4, NextOperation
  <2>6. UpdateOk(PolicyOf(e), Len(graph.ports[ConsumerOf(e)]), out[p].bound, in[e], op[3], m)
    BY <2>3, <2>5, UpdateManager
  <2>7. graph.policy[ConsumerOf(e)] = "default" => m.bound >= in[e].bound
    BY <2>6 DEF UpdateOk, PolicyOf
  <2>. QED  BY <1>1, <2>4, <2>5, <2>7
<1>4. ASSUME NEW c \in Consumers, PopPort(c) PROVE InRises
  <2>1. PICK op : op = Head(agenda[c])
    OBVIOUS
  <2>2. PICK e : e = graph.ports[c][op[2]]
    OBVIOUS
  <2>3. PICK m : m = PopPacketAtTimestamp(in[e], op[3]).mgr
    OBVIOUS
  <2>4. agenda[c] # <<>> /\ op[1] = "Pop" /\ in' = [in EXCEPT ![e] = m]
    BY <1>4, <2>1, <2>2, <2>3 DEF PopPort, At, Arg, Popped
  <2>5. ConsumerOp(c, op) /\ e \in Edges /\ c \in DOMAIN graph.ports /\ e \in PortEdges(c)
    BY <2>1, <2>2, <2>4, NextConsumerOperation
  <2>6. ASSUME graph.policy[ConsumerOf(e)] = "default" PROVE m.bound >= in[e].bound
    <3>1. graph.policy[c] = "default"
      BY <1>0, <2>5, <2>6, GraphFacts
    <3>2. op[3] \in Timestamps /\ op[3] < in[e].bound
      BY <2>2, <2>4, <2>5, <3>1 DEF ConsumerOp, PopOk
    <3>3. in[e].bound \in Int /\ op[3] \in Int /\ in[e] \in Managers
      BY <1>0, <2>5, <3>2, BoundsInt, TimestampsInt
    <3>4. ~ (in[e].bound <= op[3])
      BY <3>2, <3>3
    <3>5. m.bound = in[e].bound
      BY <2>3, <3>3, <3>4 DEF PopPacketAtTimestamp, Managers
    <3>. QED  BY <3>3, <3>5
  <2>. QED  BY <1>1, <2>4, <2>5, <2>6
<1>5. ASSUME NEW c \in Consumers, PopHead(c) PROVE InRises
  <2>1. PICK op : op = Head(agenda[c])
    OBVIOUS
  <2>2. PICK e : e = graph.ports[c][op[2]]
    OBVIOUS
  <2>3. PICK m : m = PopQueueHead(in[e]).mgr
    OBVIOUS
  <2>4. agenda[c] # <<>> /\ op[1] = "PopQueueHead" /\ in' = [in EXCEPT ![e] = m]
    BY <1>5, <2>1, <2>2, <2>3 DEF PopHead, At, Arg, Popped
  <2>5. e \in Edges
    BY <2>1, <2>2, <2>4, NextConsumerOperation
  <2>6. in[e] \in Managers /\ in[e].bound \in Int
    BY <1>0, <2>5, BoundsInt
  <2>7. m.bound = in[e].bound
    BY <2>3, <2>6 DEF PopQueueHead, Managers
  <2>8. m.bound >= in[e].bound
    BY <2>6, <2>7
  <2>. QED  BY <1>1, <2>4, <2>5, <2>8
<1>6. ASSUME NEW c \in Consumers, CloseInput(c) PROVE InRises
  <2>1. PICK op : op = Head(agenda[c])
    OBVIOUS
  <2>2. PICK e : e = graph.ports[c][op[2]]
    OBVIOUS
  <2>3. PICK m : m = Close(in[e])
    OBVIOUS
  <2>4. agenda[c] # <<>> /\ op[1] = "Close" /\ in' = [in EXCEPT ![e] = m]
    BY <1>6, <2>1, <2>2, <2>3 DEF CloseInput, At, Arg
  <2>5. e \in Edges
    BY <2>1, <2>2, <2>4, NextConsumerOperation
  <2>6. in[e] \in Managers /\ in[e].bound \in Int /\ in[e].bound <= Done /\ Done \in Int
    <3>1. in[e] \in Managers /\ in[e].bound \in Timestamps
      BY <1>0, <2>5 DEF Managers
    <3>. QED  BY <3>1, TimestampsInt
  <2>7. m.bound = in[e].bound \/ m.bound = Done
    BY <2>3, <2>6 DEF Close, Managers
  <2>8. m.bound >= in[e].bound
    BY <2>6, <2>7
  <2>. QED  BY <1>1, <2>4, <2>5, <2>8
<1>7. ASSUME NEW p \in Producers,
             \/ Process(p) \/ AddPacketToInputStream(p) \/ UpdateTaskTimestampBound(p) \/ CloseOutput(p)
             \/ OnInputStreamFull(p) \/ NotifyPacketArrival(p)
      PROVE  InRises
  <2>1. in' = in
    BY <1>7 DEF Process, AddPacketToInputStream, UpdateTaskTimestampBound, CloseOutput, OnInputStreamFull,
                NotifyPacketArrival
  <2>. QED  BY <1>2, <2>1
<1>8. ASSUME NEW c \in Consumers,
             \/ ScheduleInvocations(c) \/ IsFullPort(c) \/ ReadPort(c) \/ OnInputStreamNotFull(c) \/ RunNode(c)
      PROVE  InRises
  <2>1. in' = in
    BY <1>8 DEF ScheduleInvocations, IsFullPort, ReadPort, OnInputStreamNotFull, RunNode
  <2>. QED  BY <1>2, <2>1
<1>9. CASE UNCHANGED vars
  BY <1>2, <1>9 DEF vars
<1>. QED  BY <1>3, <1>4, <1>5, <1>6, <1>7, <1>8, <1>9 DEF Next, Deliver, Consume

\* No producer's bound and, behind a handler that waits for bounds, no
\* consumer's bound is taken back, in any step of any graph
\* (ComputeOutputTimestampBound, AddPackets, PopPacketAtTimestamp).
THEOREM BoundsOnlyRise == Spec => BoundsNeverRecede
<1>1. ASSUME StreamsInv, [Next]_vars
      PROVE  [/\ \A p \in Producers : out'[p].bound >= out[p].bound
              /\ \A e \in Edges : graph.policy[ConsumerOf(e)] = "default" => in'[e].bound >= in[e].bound]_vars
  <2>1. OutRises /\ InRises
    BY <1>1, OutOnlyRises, InOnlyRises
  <2>. QED  BY <2>1 DEF OutRises, InRises
<1>. QED  BY <1>1, StreamsInvariance, PTL DEF Spec, BoundsNeverRecede
=============================================================================
