------------------------ MODULE GraphSchedulerProofs ------------------------
(***************************************************************************)
(* Theorems about GraphScheduler, for any graph, any queues, workers and   *)
(* application threads, and any scripts: a running graph drives its queues *)
(* only through the calls of SchedulerQueue, so that the theorems of       *)
(* SchedulerQueueProofs hold of it; every variable has its type; and       *)
(* HandleIdle is executed by one thread at a time.                         *)
(***************************************************************************)
EXTENDS GraphScheduler, InductionLemmas, FiniteSetTheorems

-----------------------------------------------------------------------------
(* The inductive invariant: what an agenda can look like.                  *)

NodeKinds == {"AddNode", "Process", "Finalize", "Decrement", "Reschedule", "SafetyNet",
              "ErrorCallback", "DrainNode", "CloseNode"}
QueueKinds == {"Count", "Send", "SubmitWaiting", "Cleanup"}
PlainKinds == {"TryPop", "NoItem", "Finished", "Leave", "Begin", "Terminate", "Notify",
               "Wait", "Block"}

\* What state_ is set to once the graph was started.
LaterStates == States \ {"NotStarted"}

\* The operations with the arguments they may have.
Operations ==
    (NodeKinds \X Nodes)
    \cup (QueueKinds \X Queues)
    \cup ({"SourceStopped", "OpenSource"} \X Sources)
    \cup ({"SetRunning"} \X Queues \X BOOLEAN)
    \cup ({"PopQueueHead", "SetDone"} \X Edges)
    \cup ({"AddPackets"} \X Edges \X Nat)
    \cup ({"PostProcess"} \X Producers \X Nat)
    \cup ({"BoundDone", "CloseManager"} \X Producers)
    \cup ({"IncClosed"} \X GraphInputs)
    \cup ({"SetState"} \X LaterStates)
    \cup ({"Enter", "Idle"} \X BOOLEAN)
    \cup ({"CheckIdle"} \X (1..Len(AllQueues)) \X BOOLEAN)
    \cup ({"Scan"} \X (1..Len(AllNodes)) \X BOOLEAN)
    \cup ({"FindUnfinalized"} \X (1..Len(AllNodes)))
    \cup ({"Judge"} \X BOOLEAN \X BOOLEAN)
    \cup {<<k>> : k \in PlainKinds}

\* Agenda a holds an operation of a kind in K; holds at most one.
HasIn(a, K) == \E i \in 1..Len(a) : a[i][1] \in K
AtMostOne(a, K) == \A i, j \in 1..Len(a) : a[i][1] \in K /\ a[j][1] \in K => i = j

Submits == {"Count", "Send"}
Runs == {"Process", "Finalize", "Decrement"}
Starts == {"TryPop", "NoItem"}

\* What a thread inside HandleIdle has still to do there; of that, what only
\* the thread that won the re-entrance guard does.
Inside == {"Begin", "CheckIdle", "Idle", "Scan", "FindUnfinalized", "Judge", "Leave"}
Deciding == (Inside \ {"Leave"}) \cup {"DrainNode", "CloseNode", "Terminate"}

Idles == {"Enter"} \cup Inside
Lasts == {"Finished"} \cup Starts \cup Idles

\* The kinds that say nothing about where a thread is.
Special == Submits \cup Runs \cup Lasts \cup Deciding

\* SubmitToExecutor is at the front: Count and Send, or Send.
SubmitForm(a) ==
    \A i \in 1..Len(a) :
        /\ a[i][1] = "Count" => i = 1 /\ Len(a) > 1 /\ a[2] = <<"Send", a[1][2]>>
        /\ a[i][1] = "Send" => i = 1 \/ (i = 2 /\ a[1][1] = "Count")

\* HandleIdle is not entered twice by one thread, and it is left at the end.
IdleForm(a) ==
    /\ AtMostOne(a, Idles)
    /\ \A i \in 1..Len(a) :
          a[i][1] \in Deciding => \E j \in i..Len(a) : a[j][1] \in Inside

\* A worker that runs node n: RunNode ends with one DecrementPending and with
\* OnTaskFinished, a worker without a node is in TryPop or the idle callback.
WorkerForm(a, n) ==
    /\ AtMostOne(a, Runs)
    /\ HasIn(a, Runs) => HasIn(a, {"Finished"})
    /\ \A i \in 1..Len(a) :
        /\ a[i][1] \in Runs => a[i][2] = n
        /\ a[i][1] = "Finished" => i = Len(a)
        /\ a[i][1] \in {"Process", "Finalize"} => i >= Len(a) - 1
        /\ a[i][1] \in Starts => ~ (Len(a) > 1)
    /\ Len(a) > 0 => a[Len(a)][1] \in Lasts
    /\ IF HasIn(a, {"Finished"}) THEN n \in Nodes ELSE n = NoNode

InHandleIdle == {t \in Threads : HasIn(agenda[t], Inside)}

\* One thread at a time looks for the end of the graph.
OneDecider ==
    \A t, u \in Threads :
        HasIn(agenda[t], Deciding) /\ HasIn(agenda[u], Deciding) => t = u

AgendaInv ==
    /\ agenda \in [Threads -> Seq(Operations)]
    /\ \A t \in Threads : SubmitForm(agenda[t]) /\ IdleForm(agenda[t])
    /\ \A w \in Workers : WorkerForm(agenda[w], cur[w])
    /\ handlingIdle = Cardinality(InHandleIdle)
    /\ OneDecider

-----------------------------------------------------------------------------
(* Agendas as sequences.                                                   *)

\* Agenda b is agenda a with its first operation replaced by r.
Replaces(b, r, a) ==
    /\ Len(a) \in Nat /\ Len(a) > 0 /\ Len(r) \in Nat /\ Len(b) \in Nat
    /\ Len(b) = Len(r) + Len(a) - 1
    /\ \A i \in 1..Len(r) : b[i] = r[i]
    /\ \A i \in 2..Len(a) : b[i + Len(r) - 1] = a[i]
    /\ \A i \in (Len(r) + 1)..Len(b) : b[i] = a[i - Len(r) + 1]

LEMMA ReplaceHead ==
    ASSUME NEW S, NEW a \in Seq(S), a # <<>>, NEW r \in Seq(S)
    PROVE  /\ r \o Tail(a) \in Seq(S)
           /\ Replaces(r \o Tail(a), r, a)
<1>1. Len(a) \in Nat \ {0} /\ Tail(a) \in Seq(S) /\ Len(Tail(a)) = Len(a) - 1
  BY EmptySeq
<1>2. \A i \in 1..(Len(a) - 1) : Tail(a)[i] = a[i + 1]
  BY <1>1
<1>. DEFINE b == r \o Tail(a)
<1>3. b \in Seq(S) /\ Len(b) = Len(r) + Len(a) - 1 /\ Len(r) \in Nat
  BY <1>1
<1>4. \A i \in 1..Len(r) : b[i] = r[i]
  BY <1>1
<1>5. ASSUME NEW i \in (Len(r) + 1)..Len(b) PROVE b[i] = a[i - Len(r) + 1]
  <2>1. b[i] = Tail(a)[i - Len(r)]
    BY <1>1, <1>3
  <2>2. i - Len(r) \in 1..(Len(a) - 1)
    BY <1>1, <1>3
  <2>. QED  BY <1>2, <2>1, <2>2
<1>6. ASSUME NEW i \in 2..Len(a) PROVE b[i + Len(r) - 1] = a[i]
  <2>1. i + Len(r) - 1 \in (Len(r) + 1)..Len(b) /\ (i + Len(r) - 1) - Len(r) + 1 = i
    BY <1>1, <1>3
  <2>. QED  BY <1>5, <2>1
<1>. QED
  <2>. HIDE DEF b
  <2>. QED  BY <1>1, <1>3, <1>4, <1>5, <1>6 DEF Replaces
\* The rest of agenda a, behind its first operation, holds a kind in K.
RestHas(a, K) == \E i \in 2..Len(a) : a[i][1] \in K

LEMMA ReplaceLengths ==
    ASSUME NEW a, NEW r, NEW b, Replaces(b, r, a)
    PROVE  /\ Len(a) \in Nat /\ Len(a) > 0 /\ Len(r) \in Nat /\ Len(b) \in Nat
           /\ Len(b) = Len(r) + Len(a) - 1
BY DEF Replaces

LEMMA HasReplaced ==
    ASSUME NEW a, NEW r, NEW b, Replaces(b, r, a), NEW K
    PROVE  /\ HasIn(b, K) <=> HasIn(r, K) \/ RestHas(a, K)
           /\ HasIn(a, K) <=> a[1][1] \in K \/ RestHas(a, K)
<1>1. ASSUME HasIn(b, K) PROVE HasIn(r, K) \/ RestHas(a, K)
  <2>1. PICK i \in 1..Len(b) : b[i][1] \in K
    BY <1>1 DEF HasIn
  <2>2. CASE i <= Len(r)
    <3>1. i \in 1..Len(r) /\ b[i] = r[i]
      BY <2>2 DEF Replaces
    <3>. QED  BY <2>1, <3>1 DEF HasIn
  <2>3. CASE ~ (i <= Len(r))
    <3>1. i - Len(r) + 1 \in 2..Len(a) /\ b[i] = a[i - Len(r) + 1]
      BY <2>3 DEF Replaces
    <3>. QED  BY <2>1, <3>1 DEF RestHas
  <2>. QED  BY <2>2, <2>3
<1>2. ASSUME HasIn(r, K) PROVE HasIn(b, K)
  <2>1. PICK i \in 1..Len(r) : r[i][1] \in K
    BY <1>2 DEF HasIn
  <2>2. i \in 1..Len(b) /\ b[i] = r[i]
    BY DEF Replaces
  <2>. QED  BY <2>1, <2>2 DEF HasIn
<1>3. ASSUME RestHas(a, K) PROVE HasIn(b, K)
  <2>1. PICK i \in 2..Len(a) : a[i][1] \in K
    BY <1>3 DEF RestHas
  <2>2. i + Len(r) - 1 \in 1..Len(b) /\ b[i + Len(r) - 1] = a[i]
    BY DEF Replaces
  <2>. QED  BY <2>1, <2>2 DEF HasIn
<1>4. HasIn(a, K) <=> a[1][1] \in K \/ RestHas(a, K)
  <2>1. Len(a) \in Nat /\ Len(a) > 0
    BY DEF Replaces
  <2>. QED  BY <2>1 DEF HasIn, RestHas
<1>. QED  BY <1>1, <1>2, <1>3, <1>4

LEMMA SubmitKept ==
    ASSUME NEW a, NEW r, NEW b, Replaces(b, r, a),
           SubmitForm(a), SubmitForm(r), a[1][1] = "Count" => Len(r) = 0
    PROVE  SubmitForm(b)
<1>. SUFFICES ASSUME NEW i \in 1..Len(b)
              PROVE  /\ b[i][1] = "Count" => i = 1 /\ Len(b) > 1 /\ b[2] = <<"Send", b[1][2]>>
                     /\ b[i][1] = "Send" => i = 1 \/ (i = 2 /\ b[1][1] = "Count")
  BY DEF SubmitForm
<1>1. CASE i <= Len(r)
  <2>1. i \in 1..Len(r) /\ b[i] = r[i] /\ 1 \in 1..Len(r) /\ b[1] = r[1]
    BY <1>1 DEF Replaces
  <2>2. Len(r) > 1 => b[2] = r[2] /\ Len(b) > 1
    BY DEF Replaces
  <2>. QED  BY <2>1, <2>2 DEF SubmitForm
<1>2. CASE ~ (i <= Len(r))
  <2>. DEFINE k == i - Len(r) + 1
  <2>1. k \in 2..Len(a) /\ b[i] = a[k]
    BY <1>2 DEF Replaces
  <2>2. /\ a[k][1] # "Count"
        /\ a[k][1] = "Send" => k = 2 /\ a[1][1] = "Count"
    BY <2>1 DEF SubmitForm
  <2>3. k = 2 /\ Len(r) = 0 => i = 1
    BY DEF Replaces
  <2>. QED  BY <2>1, <2>2, <2>3
<1>. QED  BY <1>1, <1>2

LEMMA IdleKept ==
    ASSUME NEW a, NEW r, NEW b, Replaces(b, r, a),
           IdleForm(a), IdleForm(r), HasIn(r, Idles) => ~ RestHas(a, Idles)
    PROVE  IdleForm(b)
<1>1. ASSUME NEW i \in 1..Len(b), NEW j \in 1..Len(b), b[i][1] \in Idles, b[j][1] \in Idles
      PROVE  i = j
  <2>1. CASE i <= Len(r) /\ j <= Len(r)
    <3>1. i \in 1..Len(r) /\ b[i] = r[i] /\ j \in 1..Len(r) /\ b[j] = r[j]
      BY <2>1 DEF Replaces
    <3>. QED  BY <1>1, <3>1 DEF IdleForm, AtMostOne
  <2>2. CASE ~ (i <= Len(r)) /\ ~ (j <= Len(r))
    <3>. DEFINE k == i - Len(r) + 1
                l == j - Len(r) + 1
    <3>1. k \in 1..Len(a) /\ b[i] = a[k] /\ l \in 1..Len(a) /\ b[j] = a[l]
      BY <2>2 DEF Replaces
    <3>2. k = l
      BY <1>1, <3>1 DEF IdleForm, AtMostOne
    <3>. QED  BY <3>2 DEF Replaces
  <2>3. ASSUME NEW x \in 1..Len(b), NEW y \in 1..Len(b), b[x][1] \in Idles, b[y][1] \in Idles,
               x <= Len(r), ~ (y <= Len(r))
        PROVE  FALSE
    <3>1. x \in 1..Len(r) /\ b[x] = r[x]
      BY <2>3 DEF Replaces
    <3>2. y \in (Len(r) + 1)..Len(b) /\ y - Len(r) + 1 \in 2..Len(a)
      BY <2>3, ReplaceLengths
    <3>3. b[y] = a[y - Len(r) + 1]
      BY <3>2 DEF Replaces
    <3>. QED  BY <2>3, <3>1, <3>2, <3>3 DEF HasIn, RestHas
  <2>. QED  BY <1>1, <2>1, <2>2, <2>3
<1>2. ASSUME NEW i \in 1..Len(b), b[i][1] \in Deciding
      PROVE  \E j \in i..Len(b) : b[j][1] \in Inside
  <2>1. CASE i <= Len(r)
    <3>1. i \in 1..Len(r) /\ b[i] = r[i]
      BY <2>1 DEF Replaces
    <3>2. PICK j \in i..Len(r) : r[j][1] \in Inside
      BY <1>2, <3>1 DEF IdleForm
    <3>3. j \in i..Len(b) /\ b[j] = r[j]
      BY <3>1 DEF Replaces
    <3>. QED  BY <3>2, <3>3
  <2>2. CASE ~ (i <= Len(r))
    <3>. DEFINE k == i - Len(r) + 1
    <3>1. k \in 1..Len(a) /\ k > 1 /\ b[i] = a[k]
      BY <2>2 DEF Replaces
    <3>2. PICK j \in k..Len(a) : a[j][1] \in Inside
      BY <1>2, <3>1 DEF IdleForm
    <3>3. j \in 2..Len(a) /\ j + Len(r) - 1 \in i..Len(b)
      BY <3>1 DEF Replaces
    <3>4. b[j + Len(r) - 1] = a[j]
      BY <3>3 DEF Replaces
    <3>. QED  BY <3>2, <3>3, <3>4
  <2>. QED  BY <2>1, <2>2
<1>. QED  BY <1>1, <1>2 DEF IdleForm, AtMostOne

\* The kinds that tell where a worker is in RunNextTask.
Marks == Runs \cup Starts \cup {"Finished"}
HeadIn(a, K) == a[1][1] \in K

\* An agenda that r becomes the whole of still ends as one of a worker.
EndsWell(r, a) == ~ (Len(a) > 1) /\ Len(r) > 0 => r[Len(r)][1] \in Lasts

\* A step of worker w that does not take it out of RunNode, into it or past
\* its DecrementPending.
LEMMA WorkerKept ==
    ASSUME NEW a, NEW r, NEW b, NEW n, Replaces(b, r, a), WorkerForm(a, n),
           ~ HeadIn(a, Marks), ~ HasIn(r, Marks),
           EndsWell(r, a)
    PROVE  /\ WorkerForm(b, n)
           /\ Len(b) > 0 => b[1][1] \notin Starts
           /\ HasIn(b, Runs) <=> HasIn(a, Runs)
           /\ HasIn(b, {"Finished"}) <=> HasIn(a, {"Finished"})
<1>1. ASSUME NEW i \in 1..Len(b), b[i][1] \in Marks
      PROVE  /\ i - Len(r) + 1 \in 2..Len(a)
             /\ b[i] = a[i - Len(r) + 1]
  <2>1. ~ (i <= Len(r))
    <3>1. i <= Len(r) => i \in 1..Len(r) /\ b[i] = r[i]
      BY DEF Replaces
    <3>. QED  BY <1>1, <3>1 DEF HasIn
  <2>. QED  BY <2>1 DEF Replaces
<1>2. Runs \subseteq Marks /\ {"Finished"} \subseteq Marks /\ Starts \subseteq Marks
  BY DEF Marks
<1>3. ~ HasIn(r, Runs) /\ ~ HasIn(r, {"Finished"})
  BY <1>2 DEF HasIn
<1>4. /\ HasIn(b, Runs) <=> HasIn(a, Runs)
      /\ HasIn(b, {"Finished"}) <=> HasIn(a, {"Finished"})
  BY <1>2, <1>3, HasReplaced DEF HeadIn
<1>5. AtMostOne(b, Runs)
  <2>. SUFFICES ASSUME NEW i \in 1..Len(b), NEW j \in 1..Len(b), b[i][1] \in Runs, b[j][1] \in Runs
                PROVE  i = j
    BY DEF AtMostOne
  <2>1. /\ i - Len(r) + 1 \in 1..Len(a) /\ b[i] = a[i - Len(r) + 1]
        /\ j - Len(r) + 1 \in 1..Len(a) /\ b[j] = a[j - Len(r) + 1]
    BY <1>1, <1>2
  <2>2. i - Len(r) + 1 = j - Len(r) + 1
    BY <2>1 DEF WorkerForm, AtMostOne
  <2>. QED  BY <2>2 DEF Replaces
<1>6. ASSUME NEW i \in 1..Len(b)
      PROVE  /\ b[i][1] \in Runs => b[i][2] = n
             /\ b[i][1] = "Finished" => i = Len(b)
             /\ b[i][1] \in {"Process", "Finalize"} => i >= Len(b) - 1
             /\ b[i][1] \notin Starts
  <2>. SUFFICES ASSUME b[i][1] \in Marks
                PROVE  /\ b[i][1] \in Runs => b[i][2] = n
                       /\ b[i][1] = "Finished" => i = Len(b)
                       /\ b[i][1] \in {"Process", "Finalize"} => i >= Len(b) - 1
                       /\ b[i][1] \notin Starts
    BY <1>2 DEF Runs
  <2>. DEFINE k == i - Len(r) + 1
  <2>1. k \in 1..Len(a) /\ k > 1 /\ b[i] = a[k]
    BY <1>1
  <2>2. /\ a[k][1] \in Runs => a[k][2] = n
        /\ a[k][1] = "Finished" => k = Len(a)
        /\ a[k][1] \in {"Process", "Finalize"} => k >= Len(a) - 1
        /\ a[k][1] \in Starts => ~ (Len(a) > 1)
    BY <2>1 DEF WorkerForm
  <2>3. /\ k = Len(a) => i = Len(b)
        /\ k >= Len(a) - 1 => i >= Len(b) - 1
        /\ Len(a) > 1
    <3>1. k \in 1..Len(a) /\ k > 1 /\ i \in Nat
      BY <2>1
    <3>2. /\ Len(a) \in Nat /\ Len(a) > 0 /\ Len(r) \in Nat /\ Len(b) \in Nat
          /\ Len(b) = Len(r) + Len(a) - 1
      BY ReplaceLengths
    <3>. QED  BY <3>1, <3>2
  <2>. QED  BY <2>1, <2>2, <2>3
<1>7. ASSUME Len(b) > 0 PROVE b[Len(b)][1] \in Lasts
  <2>1. CASE ~ (Len(a) > 1)
    BY <1>7, <2>1 DEF Replaces, EndsWell
  <2>2. CASE Len(a) > 1
    <3>1. /\ Len(a) \in 2..Len(a) /\ Len(a) > 0
          /\ Len(a) + Len(r) - 1 = Len(b)
      <4>1. /\ Len(a) \in Nat /\ Len(a) > 0 /\ Len(r) \in Nat /\ Len(b) \in Nat
            /\ Len(b) = Len(r) + Len(a) - 1
        BY ReplaceLengths
      <4>. QED  BY <2>2, <4>1
    <3>2. b[Len(b)] = a[Len(a)]
      BY <3>1 DEF Replaces
    <3>. QED  BY <3>1, <3>2 DEF WorkerForm
  <2>. QED  BY <2>1, <2>2
<1>8. Len(b) > 0 => b[1][1] \notin Starts
  <2>1. Len(b) \in Nat
    BY DEF Replaces
  <2>. QED  BY <1>6, <2>1
<1>. QED
  <2>. QED  BY <1>4, <1>5, <1>6, <1>7, <1>8 DEF WorkerForm, HasIn

\* What Process, the decision that follows it and DecrementPending of node n
\* put in front of the rest: no more than one operation up to
\* DecrementPending.
RunForm(r, n) ==
    /\ ~ HasIn(r, Starts \cup {"Finished", "Process"})
    /\ AtMostOne(r, Runs)
    /\ \A i \in 1..Len(r) :
        /\ r[i][1] \in Runs => r[i][2] = n
        /\ r[i][1] = "Finalize" => i = Len(r)

\* A step of a worker between TryPop and DecrementPending.
LEMMA RunKept ==
    ASSUME NEW a, NEW r, NEW b, NEW n, Replaces(b, r, a), WorkerForm(a, n),
           HeadIn(a, Runs), RunForm(r, n), HeadIn(a, {"Decrement"}) => Len(r) = 0
    PROVE  /\ WorkerForm(b, n)
           /\ Len(b) > 0 /\ b[1][1] \notin Starts
           /\ HasIn(a, Runs) /\ HasIn(a, {"Finished"})
           /\ HasIn(b, {"Finished"})
           /\ HasIn(b, Runs) <=> HasIn(r, Runs)
<1>1. HasIn(a, Runs)
  BY HasReplaced DEF HeadIn
<1>2. HasIn(a, {"Finished"})
  BY <1>1 DEF WorkerForm
<1>3. /\ Len(a) \in Nat /\ Len(a) > 0 /\ Len(r) \in Nat /\ Len(b) \in Nat
      /\ Len(b) = Len(r) + Len(a) - 1
  BY ReplaceLengths
<1>4. ASSUME NEW i \in 2..Len(a) PROVE a[i][1] \notin Runs \cup Starts
  <2>1. i \in 1..Len(a) /\ 1 \in 1..Len(a) /\ i > 1 /\ Len(a) > 1
    BY <1>3
  <2>. QED  BY <2>1 DEF WorkerForm, AtMostOne, HeadIn
<1>5. ~ RestHas(a, Runs)
  BY <1>4 DEF RestHas
<1>6. RestHas(a, {"Finished"})
  <2>1. a[1][1] # "Finished"
    BY DEF HeadIn, Runs
  <2>. QED  BY <1>2, <2>1, HasReplaced
<1>7. HasIn(b, {"Finished"}) /\ (HasIn(b, Runs) <=> HasIn(r, Runs))
  BY <1>5, <1>6, HasReplaced
<1>8. Len(a) > 1 /\ a[Len(a)][1] = "Finished"
  <2>1. PICK i \in 2..Len(a) : a[i][1] = "Finished"
    BY <1>6 DEF RestHas
  <2>2. i \in 1..Len(a)
    OBVIOUS
  <2>3. i = Len(a)
    BY <2>1, <2>2 DEF WorkerForm
  <2>. QED  BY <1>3, <2>1, <2>3
<1>9. Len(r) > 0 => Len(b) = Len(r) + 1
  <2>1. HeadIn(a, {"Process", "Finalize"}) \/ Len(r) = 0
    BY DEF HeadIn, Runs
  <2>2. 1 \in 1..Len(a)
    BY <1>3
  <2>3. HeadIn(a, {"Process", "Finalize"}) => 1 >= Len(a) - 1
    BY <2>2 DEF HeadIn, WorkerForm
  <2>4. 1 >= Len(a) - 1 => Len(b) = Len(r) + 1
    BY <1>3, <1>8
  <2>5. Len(r) = 0 => ~ (Len(r) > 0)
    OBVIOUS
  <2>. QED  BY <2>1, <2>3, <2>4, <2>5, ZenonT(20)
<1>10. ASSUME NEW i \in 1..Len(b)
       PROVE  \/ /\ i \in 1..Len(r) /\ b[i] = r[i] /\ Len(b) = Len(r) + 1
              \/ /\ i - Len(r) + 1 \in 2..Len(a) /\ b[i] = a[i - Len(r) + 1]
                 /\ b[i][1] \notin Runs \cup Starts
                 /\ b[i][1] = "Finished" => i = Len(b)
  <2>1. CASE i <= Len(r)
    <3>1. i \in 1..Len(r) /\ Len(r) > 0
      BY <1>3, <2>1
    <3>3. Len(b) = Len(r) + 1
      BY <1>9, <3>1
    <3>2. b[i] = r[i]
      BY <3>1 DEF Replaces
    <3>. QED  BY <3>1, <3>2, <3>3
  <2>2. CASE ~ (i <= Len(r))
    <3>. DEFINE k == i - Len(r) + 1
    <3>1. k \in 2..Len(a) /\ k \in 1..Len(a) /\ (k = Len(a) => i = Len(b))
          /\ i \in (Len(r) + 1)..Len(b)
      BY <1>3, <2>2
    <3>2. b[i] = a[k]
      BY <3>1 DEF Replaces
    <3>3. a[k][1] = "Finished" => k = Len(a)
      BY <3>1 DEF WorkerForm
    <3>4. b[i][1] \notin Runs \cup Starts
      BY <1>4, <3>1, <3>2
    <3>. QED  BY <3>1, <3>2, <3>3, <3>4
  <2>. QED  BY <2>1, <2>2
<1>11. AtMostOne(b, Runs)
  <2>. SUFFICES ASSUME NEW i \in 1..Len(b), NEW j \in 1..Len(b), b[i][1] \in Runs, b[j][1] \in Runs
                PROVE  i = j
    BY DEF AtMostOne
  <2>1. i \in 1..Len(r) /\ b[i] = r[i] /\ j \in 1..Len(r) /\ b[j] = r[j]
    BY <1>10
  <2>. QED  BY <2>1 DEF RunForm, AtMostOne
<1>12. ASSUME NEW i \in 1..Len(b)
       PROVE  /\ b[i][1] \in Runs => b[i][2] = n
              /\ b[i][1] = "Finished" => i = Len(b)
              /\ b[i][1] \in {"Process", "Finalize"} => i >= Len(b) - 1
              /\ b[i][1] \notin Starts
  <2>1. CASE i \in 1..Len(r) /\ b[i] = r[i] /\ Len(b) = Len(r) + 1
    <3>1. /\ r[i][1] \notin Starts \cup {"Finished", "Process"}
          /\ r[i][1] \in Runs => r[i][2] = n
          /\ r[i][1] = "Finalize" => i = Len(r)
      BY <2>1 DEF RunForm, HasIn
    <3>2. i = Len(r) => i >= Len(b) - 1
      BY <1>3, <2>1
    <3>. QED  BY <2>1, <3>1, <3>2
  <2>2. CASE ~ (i \in 1..Len(r) /\ b[i] = r[i] /\ Len(b) = Len(r) + 1)
    BY <1>10, <2>2 DEF Runs
  <2>. QED  BY <2>1, <2>2
<1>13. Len(b) > 0 /\ Len(b) \in 1..Len(b) /\ 1 \in 1..Len(b)
  BY <1>3, <1>8
<1>14. b[Len(b)][1] \in Lasts
  <2>1. Len(b) = Len(a) + Len(r) - 1 /\ Len(a) \in 2..Len(a)
    BY <1>3, <1>8
  <2>2. b[Len(b)] = a[Len(a)]
    BY <2>1 DEF Replaces
  <2>. QED  BY <1>8, <2>2 DEF Lasts
<1>15. b[1][1] \notin Starts
  BY <1>12, <1>13
<1>. QED
  BY <1>1, <1>2, <1>7, <1>11, <1>12, <1>13, <1>14, <1>15 DEF WorkerForm

-----------------------------------------------------------------------------
(* Where an agenda puts its thread.                                        *)

\* Point and SubmitTarget of a thread with agenda a.
PointOf(a) ==
    IF ~ (Len(a) > 0) THEN "wait"
    ELSE IF a[1][1] = "TryPop" THEN "pop"
    ELSE IF a[1][1] = "NoItem" THEN "empty"
    ELSE IF ~ HasIn(a, {"Finished"}) THEN "idle"
    ELSE IF HasIn(a, Runs) THEN "run" ELSE "post"

TargetOf(a, k) == IF Len(a) > 0 /\ a[1][1] = k THEN a[1][2] ELSE NoQueue

LEMMA NonEmpty ==
    ASSUME NEW S, NEW a \in Seq(S)
    PROVE  /\ a # <<>> <=> Len(a) > 0
           /\ a # <<>> => Head(a) = a[1]
           /\ Len(a) \in Nat
<1>1. a = <<>> <=> Len(a) = 0
  BY EmptySeq
<1>2. Len(a) \in Nat
  OBVIOUS
<1>3. a # <<>> => Head(a) = a[1]
  OBVIOUS
<1>. QED  BY <1>1, <1>2, <1>3

LEMMA PointIs ==
    ASSUME NEW w \in Workers, agenda[w] \in Seq(Operations)
    PROVE  Point(w) = PointOf(agenda[w])
<1>1. agenda[w] # <<>> <=> Len(agenda[w]) > 0
  BY NonEmpty
<1>2. agenda[w] # <<>> => Head(agenda[w]) = agenda[w][1]
  BY NonEmpty
<1>3. Has(w, "Finished") <=> HasIn(agenda[w], {"Finished"})
  BY DEF Has, HasIn
<1>4. (\E op \in {"Process", "Finalize", "Decrement"} : Has(w, op)) <=> HasIn(agenda[w], Runs)
  BY DEF Has, HasIn, Runs
<1>. QED  BY <1>1, <1>2, <1>3, <1>4 DEF Point, PointOf, At

LEMMA PointIsNext ==
    ASSUME NEW w \in Workers, agenda'[w] \in Seq(Operations)
    PROVE  Point(w)' = PointOf(agenda'[w])
<1>1. agenda'[w] # <<>> <=> Len(agenda'[w]) > 0
  BY NonEmpty
<1>2. agenda'[w] # <<>> => Head(agenda'[w]) = agenda'[w][1]
  BY NonEmpty
<1>3. Has(w, "Finished")' <=> HasIn(agenda'[w], {"Finished"})
  BY DEF Has, HasIn
<1>4. (\E op \in {"Process", "Finalize", "Decrement"} : Has(w, op)') <=> HasIn(agenda'[w], Runs)
  BY DEF Has, HasIn, Runs
<1>. QED  BY <1>1, <1>2, <1>3, <1>4 DEF Point, PointOf, At

LEMMA TargetIs ==
    ASSUME NEW t \in Threads, NEW k
    PROVE  /\ agenda[t] \in Seq(Operations) => SubmitTarget(t, k) = TargetOf(agenda[t], k)
           /\ agenda'[t] \in Seq(Operations) => SubmitTarget(t, k)' = TargetOf(agenda'[t], k)
<1>1. ASSUME agenda[t] \in Seq(Operations) PROVE SubmitTarget(t, k) = TargetOf(agenda[t], k)
  <2>1. agenda[t] # <<>> <=> Len(agenda[t]) > 0
    BY <1>1, NonEmpty
  <2>2. agenda[t] # <<>> => Head(agenda[t]) = agenda[t][1]
    BY <1>1, NonEmpty
  <2>. QED  BY <2>1, <2>2 DEF SubmitTarget, TargetOf, At, Arg
<1>2. ASSUME agenda'[t] \in Seq(Operations) PROVE SubmitTarget(t, k)' = TargetOf(agenda'[t], k)
  <2>1. agenda'[t] # <<>> <=> Len(agenda'[t]) > 0
    BY <1>2, NonEmpty
  <2>2. agenda'[t] # <<>> => Head(agenda'[t]) = agenda'[t][1]
    BY <1>2, NonEmpty
  <2>. QED  BY <2>1, <2>2 DEF SubmitTarget, TargetOf, At, Arg
<1>. QED  BY <1>1, <1>2

\* Without SubmitToExecutor at its front, an agenda has it nowhere.
LEMMA NoTarget ==
    ASSUME NEW a, NEW r, NEW b, Replaces(b, r, a), SubmitForm(a), ~ HeadIn(a, {"Count"})
    PROVE  /\ ~ RestHas(a, Submits)
           /\ HasIn(b, Submits) <=> HasIn(r, Submits)
           /\ ~ HasIn(b, Submits) => \A k \in Submits : TargetOf(b, k) = NoQueue
<1>1. ~ RestHas(a, Submits)
  <2>. SUFFICES ASSUME NEW i \in 2..Len(a) PROVE a[i][1] \notin Submits
    BY DEF RestHas
  <2>1. i \in 1..Len(a) /\ i > 1
    BY DEF Replaces
  <2>. QED  BY <2>1 DEF SubmitForm, HeadIn, Submits
<1>2. HasIn(b, Submits) <=> HasIn(r, Submits)
  BY <1>1, HasReplaced
<1>3. ASSUME ~ HasIn(b, Submits), NEW k \in Submits PROVE TargetOf(b, k) = NoQueue
  <2>1. Len(b) > 0 => 1 \in 1..Len(b)
    BY DEF Replaces
  <2>. QED  BY <1>3, <2>1 DEF TargetOf, HasIn
<1>. QED  BY <1>1, <1>2, <1>3

-----------------------------------------------------------------------------
(* One thread's agenda changes.                                            *)

\* What becomes of HandleIdle's guard when agenda a becomes b.
GuardKept(b, a) ==
    \/ /\ HasIn(b, Inside) <=> HasIn(a, Inside)
       /\ handlingIdle' = handlingIdle
       /\ HasIn(b, Deciding) => HasIn(a, Deciding)
    \/ /\ ~ HasIn(a, Inside) /\ HasIn(b, Inside)
       /\ handlingIdle' = handlingIdle + 1
       /\ HasIn(b, Deciding) => handlingIdle = 0
    \/ /\ HasIn(a, Inside) /\ ~ HasIn(b, Inside)
       /\ handlingIdle' = handlingIdle - 1
       /\ ~ HasIn(b, Deciding)

LEMMA DecidersInside ==
    ASSUME NEW a, IdleForm(a), HasIn(a, Deciding)
    PROVE  HasIn(a, Inside)
<1>1. PICK i \in 1..Len(a) : a[i][1] \in Deciding
  BY DEF HasIn
<1>2. PICK j \in i..Len(a) : a[j][1] \in Inside
  BY <1>1 DEF IdleForm
<1>3. j \in 1..Len(a)
  OBVIOUS
<1>. QED  BY <1>2, <1>3 DEF HasIn

LEMMA ThreadsFinite == IsFiniteSet(Threads)
BY ThreadsAssumption, FS_Union DEF Threads

LEMMA AgendaStep ==
    ASSUME AgendaInv, NEW t \in Threads, NEW b \in Seq(Operations),
           agenda' = [agenda EXCEPT ![t] = b],
           SubmitForm(b), IdleForm(b),
           t \in Workers => WorkerForm(b, cur'[t]),
           \A w \in Workers : w # t => cur'[w] = cur[w],
           GuardKept(b, agenda[t])
    PROVE  /\ AgendaInv'
           /\ agenda'[t] = b
           /\ \A u \in Threads : u # t => agenda'[u] = agenda[u]
<1>1. agenda' \in [Threads -> Seq(Operations)] /\ agenda'[t] = b
  BY DEF AgendaInv
<1>2. \A u \in Threads : u # t => agenda'[u] = agenda[u]
  BY DEF AgendaInv
<1>3. \A u \in Threads : SubmitForm(agenda'[u]) /\ IdleForm(agenda'[u])
  BY <1>1, <1>2 DEF AgendaInv
<1>4. \A w \in Workers : WorkerForm(agenda'[w], cur'[w])
  <2>. TAKE w \in Workers
  <2>1. w \in Threads
    BY DEF Threads
  <2>2. CASE w = t
    BY <1>1, <2>2
  <2>3. CASE w # t
    <3>1. agenda'[w] = agenda[w] /\ cur'[w] = cur[w]
      BY <1>2, <2>1, <2>3
    <3>. QED  BY <3>1 DEF AgendaInv
  <2>. QED  BY <2>2, <2>3
<1>. DEFINE In == {u \in Threads : HasIn(agenda[u], Inside)}
            InNext == {u \in Threads : HasIn(agenda'[u], Inside)}
<1>5. \A u \in Threads : u # t => (u \in In <=> u \in InNext)
  BY <1>2
<1>6. /\ t \in In <=> HasIn(agenda[t], Inside)
      /\ t \in InNext <=> HasIn(b, Inside)
  BY <1>1
<1>7. IsFiniteSet(In) /\ Cardinality(In) \in Nat /\ handlingIdle = Cardinality(In)
  <2>1. In \subseteq Threads
    OBVIOUS
  <2>2. IsFiniteSet(In)
    BY <2>1, ThreadsFinite, FS_Subset
  <2>. QED  BY <2>2, FS_CardinalityType DEF AgendaInv, InHandleIdle
<1>8. handlingIdle' = Cardinality(InNext)
  <2>. HIDE DEF In, InNext
  <2>1. In \subseteq Threads /\ InNext \subseteq Threads
    BY DEF In, InNext
  <2>2. CASE (HasIn(b, Inside) <=> HasIn(agenda[t], Inside)) /\ handlingIdle' = handlingIdle
    <3>0. t \in In <=> t \in InNext
      BY <1>6, <2>2, Zenon
    <3>1. \A u \in Threads : u \in In <=> u \in InNext
      BY <1>5, <3>0, Zenon
    <3>2. InNext = In
      BY <2>1, <3>1
    <3>. QED  BY <1>7, <2>2, <3>2
  <2>3. CASE ~ HasIn(agenda[t], Inside) /\ HasIn(b, Inside) /\ handlingIdle' = handlingIdle + 1
    <3>1. InNext = In \cup {t} /\ t \notin In
      BY <1>5, <1>6, <2>1, <2>3
    <3>2. Cardinality(In \cup {t}) = Cardinality(In) + 1
      BY <1>7, <3>1, FS_AddElement
    <3>. QED  BY <1>7, <2>3, <3>1, <3>2
  <2>4. CASE HasIn(agenda[t], Inside) /\ ~ HasIn(b, Inside) /\ handlingIdle' = handlingIdle - 1
    <3>1. InNext = In \ {t} /\ t \in In
      BY <1>5, <1>6, <2>1, <2>4
    <3>2. Cardinality(In \ {t}) = Cardinality(In) - 1
      BY <1>7, <3>1, FS_RemoveElement
    <3>. QED  BY <1>7, <2>4, <3>1, <3>2
  <2>. QED  BY <2>2, <2>3, <2>4 DEF GuardKept
<1>9. \A u, v \in Threads :
         HasIn(agenda'[u], Deciding) /\ HasIn(agenda'[v], Deciding) => u = v
  <2>1. CASE HasIn(b, Deciding) => HasIn(agenda[t], Deciding)
    BY <1>1, <1>2, <2>1 DEF AgendaInv, OneDecider
  <2>2. CASE handlingIdle = 0
    <3>1. In = {}
      <4>. HIDE DEF In
      <4>. QED  BY <1>7, <2>2, FS_EmptySet
    <3>2. \A u \in Threads : ~ HasIn(agenda[u], Deciding)
      BY <3>1, DecidersInside DEF AgendaInv
    <3>. QED  BY <1>1, <1>2, <3>2
  <2>. QED  BY <2>1, <2>2 DEF GuardKept
<1>. QED
  BY <1>1, <1>2, <1>3, <1>4, <1>8, <1>9 DEF AgendaInv, InHandleIdle, OneDecider

\* The operations that any thread may come to execute anywhere.
QuietOps == {op \in Operations : op[1] \notin Special}

LEMMA HasSubset ==
    ASSUME NEW a, NEW K, NEW L, K \subseteq L, HasIn(a, K)
    PROVE  HasIn(a, L)
BY DEF HasIn

LEMMA QuietForm ==
    ASSUME NEW r \in Seq(QuietOps)
    PROVE  /\ r \in Seq(Operations)
           /\ ~ HasIn(r, Special)
           /\ SubmitForm(r)
<1>1. \A i \in 1..Len(r) : r[i] \in QuietOps
  OBVIOUS
<1>2. r \in Seq(Operations)
  <2>1. QuietOps \subseteq Operations
    BY DEF QuietOps
  <2>. QED  BY <2>1
<1>3. ~ HasIn(r, Special)
  BY <1>1 DEF HasIn, QuietOps
<1>4. SubmitForm(r)
  BY <1>1 DEF SubmitForm, QuietOps, Special, Submits
<1>. QED  BY <1>2, <1>3, <1>4

LEMMA IdleFormOfOthers ==
    ASSUME NEW r, ~ HasIn(r, Idles \cup Deciding)
    PROVE  IdleForm(r)
BY DEF IdleForm, AtMostOne, HasIn

LEMMA SpotKept ==
    ASSUME NEW a, NEW b, Len(a) > 0, Len(b) > 0, ~ HeadIn(a, Starts), ~ HeadIn(b, Starts),
           HasIn(b, Runs) <=> HasIn(a, Runs),
           HasIn(b, {"Finished"}) <=> HasIn(a, {"Finished"})
    PROVE  /\ PointOf(b) = PointOf(a)
           /\ PointOf(a) \in {"run", "post", "idle"}
BY Zenon DEF PointOf, HeadIn, Starts

\* t's next operation neither takes it into RunNode, HandleIdle or
\* SubmitToExecutor nor out of them.
Ordinary(a) == Len(a) > 0 /\ ~ HeadIn(a, Submits \cup Runs \cup Lasts)

\* Nothing in front of agenda a submits a task.
NotSubmitting(a) == \A k \in Submits : TargetOf(a, k) = NoQueue

LEMMA OrdinaryStep ==
    ASSUME AgendaInv, NEW t \in Threads, Ordinary(agenda[t]), NEW r \in Seq(Operations),
           agenda' = [agenda EXCEPT ![t] = r \o Tail(agenda[t])],
           cur' = cur, handlingIdle' = handlingIdle,
           SubmitForm(r), ~ HasIn(r, Runs \cup Lasts \cup Deciding)
    PROVE  /\ AgendaInv'
           /\ \A u \in Threads : u # t => agenda'[u] = agenda[u]
           /\ t \in Workers => /\ PointOf(agenda'[t]) = PointOf(agenda[t])
                               /\ PointOf(agenda[t]) \in {"run", "post", "idle"}
           /\ NotSubmitting(agenda[t])
           /\ Replaces(agenda'[t], r, agenda[t])
           /\ ~ HasIn(r, Submits) => NotSubmitting(agenda'[t])
<1>. DEFINE a == agenda[t]
            b == r \o Tail(a)
<1>1. a \in Seq(Operations) /\ SubmitForm(a) /\ IdleForm(a)
  BY DEF AgendaInv
<1>2. a # <<>>
  BY <1>1, NonEmpty DEF Ordinary
<1>3. b \in Seq(Operations) /\ Replaces(b, r, a)
  BY <1>1, <1>2, ReplaceHead
<1>. HIDE DEF a, b
<1>4. Ordinary(a)
  BY DEF a
<1>5. ~ HeadIn(a, {"Count"}) /\ ~ HeadIn(a, Marks) /\ ~ HeadIn(a, Inside) /\ ~ HeadIn(a, Starts)
  BY <1>4 DEF Ordinary, HeadIn, Submits, Marks, Lasts, Idles
<1>6. /\ ~ HasIn(r, Marks) /\ ~ HasIn(r, Idles \cup Deciding) /\ ~ HasIn(r, Inside)
      /\ ~ HasIn(r, Deciding) /\ ~ HasIn(r, Idles)
  <2>1. /\ Marks \subseteq Runs \cup Lasts \cup Deciding
        /\ Idles \cup Deciding \subseteq Runs \cup Lasts \cup Deciding
        /\ Inside \subseteq Runs \cup Lasts \cup Deciding
        /\ Deciding \subseteq Runs \cup Lasts \cup Deciding
        /\ Idles \subseteq Runs \cup Lasts \cup Deciding
    BY DEF Marks, Lasts, Idles
  <2>. QED  BY <2>1, HasSubset
<1>7. SubmitForm(b)
  <2>1. a[1][1] # "Count"
    BY <1>5 DEF HeadIn
  <2>. QED  BY <1>1, <1>3, <2>1, SubmitKept
<1>8. IdleForm(b)
  BY <1>1, <1>3, <1>6, IdleFormOfOthers, IdleKept
<1>9. GuardKept(b, a)
  <2>1. HasIn(b, Inside) <=> HasIn(a, Inside)
    BY <1>3, <1>5, <1>6, HasReplaced DEF HeadIn
  <2>2. HasIn(b, Deciding) => HasIn(a, Deciding)
    BY <1>3, <1>6, HasReplaced
  <2>. QED  BY <2>1, <2>2 DEF GuardKept
<1>10. ASSUME t \in Workers
       PROVE  /\ WorkerForm(b, cur[t])
              /\ PointOf(b) = PointOf(a)
              /\ PointOf(a) \in {"run", "post", "idle"}
  <2>1. WorkerForm(a, cur[t])
    BY <1>10 DEF AgendaInv, a
  <2>2. Len(a) > 1
    <3>1. Len(a) \in Nat /\ Len(a) > 0
      BY <1>3 DEF Replaces
    <3>2. Len(a) > 0 /\ a[Len(a)][1] \in Lasts
      BY <2>1, <3>1 DEF WorkerForm
    <3>3. a[1][1] \notin Lasts
      BY <1>4 DEF Ordinary, HeadIn
    <3>. QED
      <4>. SUFFICES ASSUME ~ (Len(a) > 1) PROVE a[Len(a)] = a[1]
        BY <3>2, <3>3
      <4>. QED  BY <3>1
  <2>3. EndsWell(r, a)
    BY <2>2 DEF EndsWell
  <2>4. /\ WorkerForm(b, cur[t])
        /\ Len(b) > 0 => b[1][1] \notin Starts
        /\ HasIn(b, Runs) <=> HasIn(a, Runs)
        /\ HasIn(b, {"Finished"}) <=> HasIn(a, {"Finished"})
    BY <1>3, <1>5, <1>6, <2>1, <2>3, WorkerKept
  <2>5. Len(b) > 0 /\ Len(a) > 0
    BY <1>3, <2>2, ReplaceLengths
  <2>6. ~ HeadIn(b, Starts)
    BY <2>4, <2>5 DEF HeadIn
  <2>. QED  BY <1>5, <2>4, <2>5, <2>6, SpotKept
<1>11. NotSubmitting(a)
  BY <1>4 DEF Ordinary, HeadIn, NotSubmitting, TargetOf
<1>12. ~ HasIn(r, Submits) => NotSubmitting(b)
  BY <1>1, <1>3, <1>5, NoTarget DEF NotSubmitting
<1>13. agenda' = [agenda EXCEPT ![t] = b]
  BY DEF a, b
<1>14. GuardKept(b, agenda[t])
  BY <1>9 DEF a
<1>15. /\ AgendaInv'
       /\ agenda'[t] = b
       /\ \A u \in Threads : u # t => agenda'[u] = agenda[u]
  BY <1>3, <1>7, <1>8, <1>10, <1>13, <1>14, AgendaStep
<1>. QED
  BY <1>3, <1>10, <1>11, <1>12, <1>15 DEF a

\* SubmitToExecutor as the operations of a thread.
LEMMA SubmitOpsForm ==
    ASSUME NEW q \in Queues, NEW c \in BOOLEAN
    PROVE  LET r == If(c, SubmitOps(q))
           IN  /\ r \in Seq(Operations)
               /\ SubmitForm(r)
               /\ ~ HasIn(r, Runs \cup Lasts \cup Deciding)
               /\ \/ /\ c /\ q \in WithExecutor
                     /\ Len(r) = 2 /\ r[1] = <<"Count", q>>
                  \/ ~ (c /\ q \in WithExecutor) /\ r = <<>>
<1>1. <<"Count", q>> \in Operations /\ <<"Send", q>> \in Operations
  BY DEF Operations, QueueKinds
<1>. DEFINE s == << <<"Count", q>>, <<"Send", q>> >>
<1>2. /\ s \in Seq(Operations) /\ SubmitForm(s) /\ ~ HasIn(s, Runs \cup Lasts \cup Deciding)
      /\ Len(s) = 2 /\ s[1] = <<"Count", q>>
  <2>1. s \in Seq(Operations) /\ Len(s) = 2
    BY <1>1
  <2>2. SubmitForm(s)
    BY DEF SubmitForm
  <2>3. ~ HasIn(s, Runs \cup Lasts \cup Deciding)
    BY DEF HasIn, Runs, Lasts, Starts, Idles, Inside, Deciding
  <2>. QED  BY <2>1, <2>2, <2>3
<1>3. /\ <<>> \in Seq(Operations) /\ SubmitForm(<<>>)
      /\ ~ HasIn(<<>>, Runs \cup Lasts \cup Deciding)
  BY DEF SubmitForm, HasIn
<1>. HIDE DEF s
<1>4. CASE c /\ q \in WithExecutor
  <2>1. If(c, SubmitOps(q)) = s
    BY <1>4 DEF If, SubmitOps, s
  <2>. QED  BY <1>2, <1>4, <2>1
<1>5. CASE ~ (c /\ q \in WithExecutor)
  <2>1. If(c, SubmitOps(q)) = <<>>
    BY <1>5 DEF If, SubmitOps
  <2>. QED  BY <1>3, <1>5, <2>1
<1>. QED  BY <1>4, <1>5

\* t executes Count or Send.
LEMMA SubmitterStep ==
    ASSUME AgendaInv, NEW t \in Threads, Len(agenda[t]) > 0, HeadIn(agenda[t], Submits),
           agenda' = [agenda EXCEPT ![t] = <<>> \o Tail(agenda[t])],
           cur' = cur, handlingIdle' = handlingIdle
    PROVE  /\ AgendaInv'
           /\ \A u \in Threads : u # t => agenda'[u] = agenda[u]
           /\ t \in Workers => PointOf(agenda'[t]) = PointOf(agenda[t])
           /\ IF HeadIn(agenda[t], {"Count"})
              THEN /\ TargetOf(agenda[t], "Send") = NoQueue
                   /\ TargetOf(agenda'[t], "Count") = NoQueue
                   /\ TargetOf(agenda'[t], "Send") = agenda[t][1][2]
              ELSE /\ TargetOf(agenda[t], "Count") = NoQueue
                   /\ NotSubmitting(agenda'[t])
<1>. DEFINE a == agenda[t]
            r == <<>>
            b == r \o Tail(a)
<1>1. a \in Seq(Operations) /\ SubmitForm(a) /\ IdleForm(a)
  BY DEF AgendaInv
<1>2. a # <<>>
  BY <1>1, NonEmpty
<1>3. b \in Seq(Operations) /\ Replaces(b, r, a) /\ Len(r) = 0
  <2>1. r \in Seq(Operations)
    OBVIOUS
  <2>. QED  BY <1>1, <1>2, <2>1, ReplaceHead
<1>. HIDE DEF a, b, r
<1>4. HeadIn(a, Submits) /\ Len(a) > 0
  BY DEF a
<1>5. ~ HeadIn(a, Marks) /\ ~ HeadIn(a, Inside) /\ ~ HeadIn(a, Starts) /\ ~ HeadIn(a, Lasts)
  BY <1>4 DEF HeadIn, Submits, Marks, Lasts, Idles, Inside, Starts, Runs
<1>6. \A K : ~ HasIn(r, K)
  BY <1>3 DEF HasIn
<1>7. SubmitForm(b)
  <2>1. SubmitForm(r)
    BY <1>3 DEF SubmitForm
  <2>. QED  BY <1>1, <1>3, <2>1, SubmitKept
<1>8. IdleForm(b)
  BY <1>1, <1>3, <1>6, IdleFormOfOthers, IdleKept
<1>9. GuardKept(b, a)
  <2>1. HasIn(b, Inside) <=> HasIn(a, Inside)
    BY <1>3, <1>5, <1>6, HasReplaced DEF HeadIn
  <2>2. HasIn(b, Deciding) => HasIn(a, Deciding)
    BY <1>3, <1>6, HasReplaced
  <2>. QED  BY <2>1, <2>2 DEF GuardKept
<1>10. ASSUME t \in Workers
       PROVE  WorkerForm(b, cur[t]) /\ PointOf(b) = PointOf(a)
  <2>1. WorkerForm(a, cur[t])
    BY <1>10 DEF AgendaInv, a
  <2>2. Len(a) > 1
    <3>1. Len(a) \in Nat /\ Len(a) > 0
      BY <1>3 DEF Replaces
    <3>2. a[Len(a)][1] \in Lasts
      BY <2>1, <3>1 DEF WorkerForm
    <3>3. a[1][1] \notin Lasts
      BY <1>5 DEF HeadIn
    <3>. QED
      <4>. SUFFICES ASSUME ~ (Len(a) > 1) PROVE a[Len(a)] = a[1]
        BY <3>2, <3>3
      <4>. QED  BY <3>1
  <2>3. EndsWell(r, a)
    BY <2>2 DEF EndsWell
  <2>4. /\ WorkerForm(b, cur[t])
        /\ Len(b) > 0 => b[1][1] \notin Starts
        /\ HasIn(b, Runs) <=> HasIn(a, Runs)
        /\ HasIn(b, {"Finished"}) <=> HasIn(a, {"Finished"})
    BY <1>3, <1>5, <1>6, <2>1, <2>3, WorkerKept
  <2>5. Len(b) > 0
    BY <1>3, <2>2, ReplaceLengths
  <2>6. ~ HeadIn(b, Starts)
    BY <2>4, <2>5 DEF HeadIn
  <2>. QED  BY <1>4, <1>5, <2>4, <2>5, <2>6, SpotKept
<1>11. IF HeadIn(a, {"Count"})
       THEN /\ TargetOf(a, "Send") = NoQueue
            /\ TargetOf(b, "Count") = NoQueue
            /\ TargetOf(b, "Send") = a[1][2]
       ELSE /\ TargetOf(a, "Count") = NoQueue
            /\ NotSubmitting(b)
  <2>1. CASE HeadIn(a, {"Count"})
    <3>1. a[1][1] = "Count" /\ 1 \in 1..Len(a)
      BY <1>3, <2>1 DEF HeadIn, Replaces
    <3>2. Len(a) > 1 /\ a[2] = <<"Send", a[1][2]>>
      BY <1>1, <3>1 DEF SubmitForm
    <3>3. Len(b) > 0 /\ 2 \in 2..Len(a) /\ 2 + Len(r) - 1 = 1
      BY <1>3, <3>2 DEF Replaces
    <3>4. b[1] = <<"Send", a[1][2]>>
      BY <1>3, <3>2, <3>3 DEF Replaces
    <3>. QED  BY <2>1, <3>1, <3>3, <3>4 DEF TargetOf
  <2>2. CASE ~ HeadIn(a, {"Count"})
    <3>1. NotSubmitting(b)
      BY <1>1, <1>3, <1>6, <2>2, NoTarget DEF NotSubmitting
    <3>2. TargetOf(a, "Count") = NoQueue
      BY <2>2 DEF TargetOf, HeadIn
    <3>. QED  BY <2>2, <3>1, <3>2
  <2>. QED  BY <2>1, <2>2
<1>12. agenda' = [agenda EXCEPT ![t] = b]
  BY DEF a, b, r
<1>13. GuardKept(b, agenda[t])
  BY <1>9 DEF a
<1>14. /\ AgendaInv'
       /\ agenda'[t] = b
       /\ \A u \in Threads : u # t => agenda'[u] = agenda[u]
  BY <1>3, <1>7, <1>8, <1>10, <1>12, <1>13, AgendaStep
<1>. QED
  BY <1>10, <1>11, <1>14 DEF a

LEMMA RestNotIdle ==
    ASSUME NEW a, NEW r, NEW b, Replaces(b, r, a), IdleForm(a), HeadIn(a, Idles)
    PROVE  /\ ~ RestHas(a, Idles)
           /\ ~ RestHas(a, Inside)
           /\ ~ RestHas(a, Deciding)
<1>1. Len(a) \in Nat /\ Len(a) > 0
  BY DEF Replaces
<1>2. ASSUME NEW i \in 2..Len(a) PROVE a[i][1] \notin Idles
  <2>1. i \in 1..Len(a) /\ 1 \in 1..Len(a) /\ i > 1
    BY <1>1
  <2>. QED  BY <2>1 DEF IdleForm, AtMostOne, HeadIn
<1>3. \A i \in 2..Len(a) : a[i][1] \notin Inside
  BY <1>2 DEF Idles
<1>4. ASSUME NEW i \in 2..Len(a), a[i][1] \in Deciding PROVE FALSE
  <2>1. i \in 1..Len(a)
    BY <1>1
  <2>2. PICK j \in i..Len(a) : a[j][1] \in Inside
    BY <1>4, <2>1 DEF IdleForm
  <2>3. j \in 2..Len(a)
    BY <1>1
  <2>. QED  BY <1>3, <2>2, <2>3
<1>. QED  BY <1>2, <1>3, <1>4 DEF RestHas

\* What becomes of the guard when t executes an operation of HandleIdle that
\* puts r in front.
GuardStep(a, r) ==
    \/ /\ HeadIn(a, Inside \ {"Leave"}) /\ HasIn(r, Inside)
       /\ handlingIdle' = handlingIdle
    \/ /\ HeadIn(a, {"Enter"}) /\ HasIn(r, Inside)
       /\ handlingIdle' = handlingIdle + 1
       /\ HasIn(r, Deciding) => handlingIdle = 0
    \/ /\ HeadIn(a, {"Leave"}) /\ Len(r) = 0
       /\ handlingIdle' = handlingIdle - 1

\* t executes an operation of HandleIdle.
LEMMA InsideStep ==
    ASSUME AgendaInv, NEW t \in Threads, Len(agenda[t]) > 0, HeadIn(agenda[t], Idles),
           NEW r \in Seq(Operations),
           agenda' = [agenda EXCEPT ![t] = r \o Tail(agenda[t])],
           cur' = cur, GuardStep(agenda[t], r),
           IdleForm(r), ~ HasIn(r, Submits), ~ HasIn(r, Marks), EndsWell(r, agenda[t])
    PROVE  /\ AgendaInv'
           /\ \A u \in Threads : u # t => agenda'[u] = agenda[u]
           /\ NotSubmitting(agenda[t]) /\ NotSubmitting(agenda'[t])
           /\ t \in Workers =>
                IF Len(agenda'[t]) > 0 THEN PointOf(agenda'[t]) = PointOf(agenda[t])
                ELSE PointOf(agenda[t]) = "idle" /\ PointOf(agenda'[t]) = "wait"
           /\ Len(r) > 0 => Len(agenda'[t]) > 0
<1>. DEFINE a == agenda[t]
            b == r \o Tail(a)
<1>1. a \in Seq(Operations) /\ SubmitForm(a) /\ IdleForm(a)
  BY DEF AgendaInv
<1>2. a # <<>>
  BY <1>1, NonEmpty
<1>3. b \in Seq(Operations) /\ Replaces(b, r, a)
  BY <1>1, <1>2, ReplaceHead
<1>. HIDE DEF a, b
<1>4. HeadIn(a, Idles) /\ Len(a) > 0 /\ GuardStep(a, r) /\ EndsWell(r, a)
  BY DEF a
<1>5. ~ HeadIn(a, Marks) /\ ~ HeadIn(a, Starts) /\ ~ HeadIn(a, Submits) /\ ~ HeadIn(a, {"Count"})
  BY <1>4 DEF HeadIn, Submits, Marks, Idles, Inside, Starts, Runs
<1>6. ~ RestHas(a, Idles) /\ ~ RestHas(a, Inside) /\ ~ RestHas(a, Deciding)
  BY <1>1, <1>3, <1>4, RestNotIdle
<1>7. SubmitForm(b)
  <2>1. SubmitForm(r)
    BY DEF SubmitForm, HasIn, Submits
  <2>2. a[1][1] # "Count"
    BY <1>5 DEF HeadIn
  <2>. QED  BY <1>1, <1>3, <2>1, <2>2, SubmitKept
<1>8. IdleForm(b)
  BY <1>1, <1>3, <1>6, IdleKept
<1>9. GuardKept(b, a)
  <2>1. /\ HasIn(b, Inside) <=> HasIn(r, Inside)
        /\ HasIn(b, Deciding) <=> HasIn(r, Deciding)
        /\ HasIn(a, Inside) <=> HeadIn(a, Inside)
        /\ HasIn(a, Deciding) <=> HeadIn(a, Deciding)
    BY <1>3, <1>6, HasReplaced DEF HeadIn
  <2>2. HeadIn(a, Inside \ {"Leave"}) => HeadIn(a, Inside) /\ HeadIn(a, Deciding)
    BY DEF HeadIn, Deciding
  <2>3. HeadIn(a, {"Enter"}) => ~ HeadIn(a, Inside)
    BY DEF HeadIn, Inside
  <2>4. HeadIn(a, {"Leave"}) => HeadIn(a, Inside)
    BY DEF HeadIn, Inside
  <2>5. Len(r) = 0 => ~ HasIn(r, Inside) /\ ~ HasIn(r, Deciding)
    BY DEF HasIn
  <2>. QED  BY <1>4, <2>1, <2>2, <2>3, <2>4, <2>5, Zenon DEF GuardStep, GuardKept
<1>10. NotSubmitting(a) /\ NotSubmitting(b)
  <2>1. NotSubmitting(a)
    BY <1>5 DEF NotSubmitting, TargetOf, HeadIn
  <2>. QED  BY <1>1, <1>3, <1>5, <2>1, NoTarget DEF NotSubmitting
<1>11. Len(r) > 0 => Len(b) > 0
  BY <1>3 DEF Replaces
<1>12. ASSUME t \in Workers
       PROVE  /\ WorkerForm(b, cur[t])
              /\ IF Len(b) > 0 THEN PointOf(b) = PointOf(a)
                 ELSE PointOf(a) = "idle" /\ PointOf(b) = "wait"
  <2>1. WorkerForm(a, cur[t])
    BY <1>12 DEF AgendaInv, a
  <2>2. /\ WorkerForm(b, cur[t])
        /\ Len(b) > 0 => b[1][1] \notin Starts
        /\ HasIn(b, Runs) <=> HasIn(a, Runs)
        /\ HasIn(b, {"Finished"}) <=> HasIn(a, {"Finished"})
    BY <1>3, <1>4, <1>5, <2>1, WorkerKept
  <2>3. ASSUME Len(b) > 0 PROVE PointOf(b) = PointOf(a)
    <3>1. ~ HeadIn(b, Starts)
      BY <2>2, <2>3 DEF HeadIn
    <3>. QED  BY <1>4, <1>5, <2>2, <2>3, <3>1, SpotKept
  <2>4. ASSUME ~ (Len(b) > 0) PROVE PointOf(a) = "idle" /\ PointOf(b) = "wait"
    <3>1. PointOf(b) = "wait"
      BY <2>4 DEF PointOf
    <3>2. ~ HasIn(b, {"Finished"})
      <4>1. Len(b) \in Nat
        BY <1>3 DEF Replaces
      <4>. QED  BY <2>4, <4>1 DEF HasIn
    <3>3. ~ HasIn(a, {"Finished"})
      BY <2>2, <3>2
    <3>4. a[1][1] \notin {"TryPop", "NoItem"}
      BY <1>5 DEF HeadIn, Starts
    <3>. QED  BY <1>4, <3>1, <3>3, <3>4 DEF PointOf
  <2>. QED  BY <2>2, <2>3, <2>4
<1>13. agenda' = [agenda EXCEPT ![t] = b]
  BY DEF a, b
<1>14. GuardKept(b, agenda[t])
  BY <1>9 DEF a
<1>15. /\ AgendaInv'
       /\ agenda'[t] = b
       /\ \A u \in Threads : u # t => agenda'[u] = agenda[u]
  BY <1>3, <1>7, <1>8, <1>12, <1>13, <1>14, AgendaStep
<1>. QED
  BY <1>10, <1>11, <1>12, <1>15 DEF a

\* Behind Process, or the decision that follows it, there is only
\* OnTaskFinished.
LEMMA RestFinished ==
    ASSUME NEW a, NEW r, NEW b, NEW n, Replaces(b, r, a), WorkerForm(a, n),
           HeadIn(a, {"Process", "Finalize"})
    PROVE  ~ RestHas(a, Idles)
<1>1. Len(a) \in Nat /\ Len(a) > 0
  BY DEF Replaces
<1>2. 1 \in 1..Len(a) /\ a[1][1] \in {"Process", "Finalize"}
  BY <1>1 DEF HeadIn
<1>3. ~ (Len(a) > 2)
  <2>1. 1 >= Len(a) - 1
    BY <1>2 DEF WorkerForm
  <2>. QED  BY <1>1, <2>1
<1>4. HasIn(a, Runs)
  BY <1>2 DEF HasIn, Runs
<1>5. HasIn(a, {"Finished"})
  BY <1>4 DEF WorkerForm
<1>6. PICK i \in 1..Len(a) : a[i][1] = "Finished"
  BY <1>5 DEF HasIn
<1>7. i = Len(a)
  BY <1>6 DEF WorkerForm
<1>8. ASSUME NEW j \in 2..Len(a) PROVE a[j][1] = "Finished"
  <2>1. j >= 2 /\ j <= Len(a) /\ Len(a) <= 2
    BY <1>1, <1>3
  <2>2. j = i
    BY <1>1, <1>7, <2>1
  <2>. QED  BY <1>6, <2>2
<1>. QED  BY <1>8 DEF RestHas, Idles, Inside

\* Worker w executes Process, the decision after it, or DecrementPending.
LEMMA RunStep ==
    ASSUME AgendaInv, NEW w \in Workers, Len(agenda[w]) > 0, HeadIn(agenda[w], Runs),
           NEW r \in Seq(Operations),
           agenda' = [agenda EXCEPT ![w] = r \o Tail(agenda[w])],
           cur' = cur, handlingIdle' = handlingIdle,
           RunForm(r, cur[w]), HeadIn(agenda[w], {"Decrement"}) => Len(r) = 0,
           IdleForm(r), ~ HasIn(r, Submits), ~ HasIn(r, Inside), ~ HasIn(r, Deciding)
    PROVE  /\ AgendaInv'
           /\ \A u \in Threads : u # w => agenda'[u] = agenda[u]
           /\ NotSubmitting(agenda[w]) /\ NotSubmitting(agenda'[w])
           /\ PointOf(agenda[w]) = "run"
           /\ PointOf(agenda'[w]) = IF HasIn(r, Runs) THEN "run" ELSE "post"
           /\ agenda[w][1][2] = cur[w]
<1>. DEFINE a == agenda[w]
            b == r \o Tail(a)
<1>0. w \in Threads
  BY DEF Threads
<1>1. a \in Seq(Operations) /\ SubmitForm(a) /\ IdleForm(a) /\ WorkerForm(a, cur[w])
  BY <1>0 DEF AgendaInv
<1>2. a # <<>>
  BY <1>1, NonEmpty
<1>3. b \in Seq(Operations) /\ Replaces(b, r, a)
  BY <1>1, <1>2, ReplaceHead
<1>. HIDE DEF a, b
<1>4. /\ HeadIn(a, Runs) /\ Len(a) > 0
      /\ HeadIn(a, {"Decrement"}) => Len(r) = 0
  BY DEF a
<1>5. ~ HeadIn(a, Inside) /\ ~ HeadIn(a, Starts) /\ ~ HeadIn(a, Submits) /\ ~ HeadIn(a, {"Count"})
  BY <1>4 DEF HeadIn, Submits, Inside, Starts, Runs
<1>6. /\ WorkerForm(b, cur[w])
      /\ Len(b) > 0 /\ b[1][1] \notin Starts
      /\ HasIn(a, Runs) /\ HasIn(a, {"Finished"})
      /\ HasIn(b, {"Finished"})
      /\ HasIn(b, Runs) <=> HasIn(r, Runs)
  BY <1>1, <1>3, <1>4, RunKept
<1>7. SubmitForm(b)
  <2>1. SubmitForm(r)
    BY DEF SubmitForm, HasIn, Submits
  <2>2. a[1][1] # "Count"
    BY <1>5 DEF HeadIn
  <2>. QED  BY <1>1, <1>3, <2>1, <2>2, SubmitKept
<1>8. IdleForm(b)
  <2>1. HasIn(r, Idles) => ~ RestHas(a, Idles)
    <3>1. HeadIn(a, {"Decrement"}) => ~ HasIn(r, Idles)
      BY <1>4 DEF HasIn
    <3>2. ~ HeadIn(a, {"Decrement"}) => HeadIn(a, {"Process", "Finalize"})
      BY <1>4 DEF HeadIn, Runs
    <3>. QED  BY <1>1, <1>3, <3>1, <3>2, RestFinished
  <2>. QED  BY <1>1, <1>3, <2>1, IdleKept
<1>9. GuardKept(b, a)
  <2>1. HasIn(b, Inside) <=> HasIn(a, Inside)
    BY <1>3, <1>5, HasReplaced DEF HeadIn
  <2>2. HasIn(b, Deciding) => HasIn(a, Deciding)
    BY <1>3, HasReplaced
  <2>. QED  BY <2>1, <2>2 DEF GuardKept
<1>10. NotSubmitting(a) /\ NotSubmitting(b)
  <2>1. NotSubmitting(a)
    BY <1>5 DEF NotSubmitting, TargetOf, HeadIn
  <2>. QED  BY <1>1, <1>3, <1>5, <2>1, NoTarget DEF NotSubmitting
<1>11. PointOf(a) = "run"
  BY <1>4, <1>5, <1>6 DEF PointOf, HeadIn, Starts
<1>12. PointOf(b) = IF HasIn(r, Runs) THEN "run" ELSE "post"
  BY <1>6 DEF PointOf, Starts
<1>13. a[1][2] = cur[w]
  <2>1. 1 \in 1..Len(a)
    BY <1>3 DEF Replaces
  <2>. QED  BY <1>1, <1>4, <2>1 DEF WorkerForm, HeadIn
<1>14. agenda' = [agenda EXCEPT ![w] = b]
  BY DEF a, b
<1>15. GuardKept(b, agenda[w])
  BY <1>9 DEF a
<1>16. /\ AgendaInv'
       /\ agenda'[w] = b
       /\ \A u \in Threads : u # w => agenda'[u] = agenda[u]
  BY <1>0, <1>3, <1>6, <1>7, <1>8, <1>14, <1>15, AgendaStep
<1>. QED
  BY <1>10, <1>11, <1>12, <1>13, <1>16 DEF a

\* A thread without an agenda, or at the only operation of it, goes on with b.
LEMMA FreshStep ==
    ASSUME AgendaInv, NEW t \in Threads, NEW b \in Seq(Operations),
           agenda' = [agenda EXCEPT ![t] = b],
           ~ (Len(agenda[t]) > 1),
           Len(agenda[t]) > 0 => HeadIn(agenda[t], {"Finished"} \cup Starts),
           handlingIdle' = handlingIdle,
           \A w \in Workers : w # t => cur'[w] = cur[w],
           t \in Workers => WorkerForm(b, cur'[t]),
           SubmitForm(b), IdleForm(b), ~ HasIn(b, Inside), ~ HasIn(b, Deciding)
    PROVE  /\ AgendaInv'
           /\ agenda'[t] = b
           /\ \A u \in Threads : u # t => agenda'[u] = agenda[u]
           /\ NotSubmitting(agenda[t])
<1>. DEFINE a == agenda[t]
<1>1. a \in Seq(Operations)
  BY DEF AgendaInv
<1>2. Len(a) \in Nat
  BY <1>1, NonEmpty
<1>3. ~ HasIn(a, Inside)
  <2>. SUFFICES ASSUME NEW i \in 1..Len(a), a[i][1] \in Inside PROVE FALSE
    BY DEF HasIn
  <2>1. Len(a) > 0 /\ i = 1
    BY <1>2
  <2>. QED  BY <2>1 DEF HeadIn, Inside, Starts
<1>4. GuardKept(b, a)
  BY <1>3 DEF GuardKept
<1>5. NotSubmitting(a)
  BY DEF NotSubmitting, TargetOf, HeadIn, Submits, Starts
<1>. QED
  BY <1>4, <1>5, AgendaStep

-----------------------------------------------------------------------------
(* The operations and their arguments.                                     *)

LEMMA OpArgs ==
    ASSUME NEW op \in Operations
    PROVE  /\ op[1] \in NodeKinds => op[2] \in Nodes
           /\ op[1] \in QueueKinds => op[2] \in Queues
           /\ op[1] \in {"SourceStopped", "OpenSource"} => op[2] \in Sources
           /\ op[1] = "SetRunning" => op[2] \in Queues /\ op[3] \in BOOLEAN
           /\ op[1] \in {"PopQueueHead", "SetDone"} => op[2] \in Edges
           /\ op[1] = "AddPackets" => op[2] \in Edges /\ op[3] \in Nat
           /\ op[1] = "PostProcess" => op[2] \in Producers /\ op[3] \in Nat
           /\ op[1] \in {"BoundDone", "CloseManager"} => op[2] \in Producers
           /\ op[1] = "IncClosed" => op[2] \in GraphInputs
           /\ op[1] = "SetState" => op[2] \in LaterStates
           /\ op[1] \in {"Enter", "Idle"} => op[2] \in BOOLEAN
           /\ op[1] = "CheckIdle" => op[2] \in 1..Len(AllQueues) /\ op[3] \in BOOLEAN
           /\ op[1] = "Scan" => op[2] \in 1..Len(AllNodes) /\ op[3] \in BOOLEAN
           /\ op[1] = "FindUnfinalized" => op[2] \in 1..Len(AllNodes)
           /\ op[1] = "Judge" => op[2] \in BOOLEAN /\ op[3] \in BOOLEAN
BY DEF Operations, NodeKinds, QueueKinds, PlainKinds

LEMMA OpsMade ==
    /\ \A k \in NodeKinds, n \in Nodes : <<k, n>> \in Operations
    /\ \A k \in QueueKinds, q \in Queues : <<k, q>> \in Operations
    /\ \A k \in {"SourceStopped", "OpenSource"}, n \in Sources : <<k, n>> \in Operations
    /\ \A q \in Queues, b \in BOOLEAN : <<"SetRunning", q, b>> \in Operations
    /\ \A k \in {"PopQueueHead", "SetDone"}, e \in Edges : <<k, e>> \in Operations
    /\ \A e \in Edges, i \in Nat : <<"AddPackets", e, i>> \in Operations
    /\ \A p \in Producers, i \in Nat : <<"PostProcess", p, i>> \in Operations
    /\ \A k \in {"BoundDone", "CloseManager"}, p \in Producers : <<k, p>> \in Operations
    /\ \A g \in GraphInputs : <<"IncClosed", g>> \in Operations
    /\ \A s \in LaterStates : <<"SetState", s>> \in Operations
    /\ \A k \in {"Enter", "Idle"}, b \in BOOLEAN : <<k, b>> \in Operations
    /\ \A i \in 1..Len(AllQueues), b \in BOOLEAN : <<"CheckIdle", i, b>> \in Operations
    /\ \A i \in 1..Len(AllNodes), b \in BOOLEAN : <<"Scan", i, b>> \in Operations
    /\ \A i \in 1..Len(AllNodes) : <<"FindUnfinalized", i>> \in Operations
    /\ \A b, c \in BOOLEAN : <<"Judge", b, c>> \in Operations
    /\ \A k \in PlainKinds : <<k>> \in Operations
BY DEF Operations

LEMMA QuietOpsMade ==
    /\ \A k \in {"AddNode", "Reschedule", "SafetyNet", "ErrorCallback"}, n \in Nodes :
          <<k, n>> \in QuietOps
    /\ \A k \in {"SubmitWaiting", "Cleanup"}, q \in Queues : <<k, q>> \in QuietOps
    /\ \A k \in {"SourceStopped", "OpenSource"}, n \in Sources : <<k, n>> \in QuietOps
    /\ \A q \in Queues, b \in BOOLEAN : <<"SetRunning", q, b>> \in QuietOps
    /\ \A k \in {"PopQueueHead", "SetDone"}, e \in Edges : <<k, e>> \in QuietOps
    /\ \A e \in Edges, i \in Nat : <<"AddPackets", e, i>> \in QuietOps
    /\ \A p \in Producers, i \in Nat : <<"PostProcess", p, i>> \in QuietOps
    /\ \A k \in {"BoundDone", "CloseManager"}, p \in Producers : <<k, p>> \in QuietOps
    /\ \A g \in GraphInputs : <<"IncClosed", g>> \in QuietOps
    /\ \A s \in LaterStates : <<"SetState", s>> \in QuietOps
    /\ \A k \in {"Notify", "Wait", "Block"} : <<k>> \in QuietOps
<1>1. {"AddNode", "Reschedule", "SafetyNet", "ErrorCallback"} \subseteq NodeKinds
  BY DEF NodeKinds
<1>2. {"SubmitWaiting", "Cleanup"} \subseteq QueueKinds
  BY DEF QueueKinds
<1>3. {"Notify", "Wait", "Block"} \subseteq PlainKinds
  BY DEF PlainKinds
<1>4. \A k \in {"AddNode", "Reschedule", "SafetyNet", "ErrorCallback", "SubmitWaiting",
                "Cleanup", "SourceStopped", "OpenSource", "SetRunning", "PopQueueHead",
                "SetDone", "AddPackets", "PostProcess", "BoundDone", "CloseManager",
                "IncClosed", "SetState", "Notify", "Wait", "Block"} : k \notin Special
  BY DEF Special, Submits, Runs, Lasts, Starts, Idles, Inside, Deciding
<1>. QED  BY <1>1, <1>2, <1>3, <1>4, OpsMade DEF QuietOps

LEMMA AtFacts ==
    ASSUME AgendaInv, NEW t \in Threads, NEW k, At(t, k)
    PROVE  /\ agenda[t] \in Seq(Operations) /\ agenda[t] # <<>>
           /\ Len(agenda[t]) > 0 /\ Head(agenda[t]) = agenda[t][1]
           /\ agenda[t][1] \in Operations /\ agenda[t][1][1] = k
<1>1. agenda[t] \in Seq(Operations)
  BY DEF AgendaInv
<1>2. agenda[t] # <<>>
  BY DEF At
<1>3. Len(agenda[t]) > 0 /\ Head(agenda[t]) = agenda[t][1] /\ Len(agenda[t]) \in Nat
  BY <1>1, <1>2, NonEmpty
<1>4. agenda[t][1] \in Operations
  BY <1>1, <1>3
<1>. QED  BY <1>1, <1>2, <1>3, <1>4 DEF At

\* The variables of SchedulerQueue, read off the agendas.
LEMMA BarIs ==
    ASSUME AgendaInv
    PROVE  /\ pc = [w \in Workers |-> PointOf(agenda[w])]
           /\ counting = [t \in Threads |-> TargetOf(agenda[t], "Count")]
           /\ sending = [t \in Threads |-> TargetOf(agenda[t], "Send")]
<1>1. \A t \in Threads : agenda[t] \in Seq(Operations)
  BY DEF AgendaInv
<1>2. \A w \in Workers : Point(w) = PointOf(agenda[w])
  BY <1>1, PointIs DEF Threads
<1>3. \A t \in Threads : /\ SubmitTarget(t, "Count") = TargetOf(agenda[t], "Count")
                         /\ SubmitTarget(t, "Send") = TargetOf(agenda[t], "Send")
  BY <1>1, TargetIs
<1>. QED  BY <1>2, <1>3 DEF pc, counting, sending

LEMMA BarNext ==
    ASSUME AgendaInv'
    PROVE  /\ pc' = [w \in Workers |-> PointOf(agenda'[w])]
           /\ counting' = [t \in Threads |-> TargetOf(agenda'[t], "Count")]
           /\ sending' = [t \in Threads |-> TargetOf(agenda'[t], "Send")]
<1>1. \A t \in Threads : agenda'[t] \in Seq(Operations)
  BY DEF AgendaInv
<1>2. \A w \in Workers : Point(w)' = PointOf(agenda'[w])
  BY <1>1, PointIsNext DEF Threads
<1>3. \A t \in Threads : /\ SubmitTarget(t, "Count")' = TargetOf(agenda'[t], "Count")
                         /\ SubmitTarget(t, "Send")' = TargetOf(agenda'[t], "Send")
  BY <1>1, TargetIs
<1>. QED  BY <1>2, <1>3 DEF pc, counting, sending

\* Thread t is where its agenda puts it, and only it moves.
BarStep(t) ==
    /\ t \in Workers => pc[t] = PointOf(agenda[t])
    /\ counting[t] = TargetOf(agenda[t], "Count")
    /\ sending[t] = TargetOf(agenda[t], "Send")
    /\ t \in Workers => pc' = [pc EXCEPT ![t] = PointOf(agenda'[t])]
    /\ t \in Workers /\ PointOf(agenda'[t]) = PointOf(agenda[t]) => pc' = pc
    /\ t \notin Workers => pc' = pc
    /\ counting' = [counting EXCEPT ![t] = TargetOf(agenda'[t], "Count")]
    /\ sending' = [sending EXCEPT ![t] = TargetOf(agenda'[t], "Send")]
    /\ TargetOf(agenda'[t], "Count") = TargetOf(agenda[t], "Count") => counting' = counting
    /\ TargetOf(agenda'[t], "Send") = TargetOf(agenda[t], "Send") => sending' = sending

LEMMA BarMoves ==
    ASSUME AgendaInv, AgendaInv', NEW t \in Threads,
           \A u \in Threads : u # t => agenda'[u] = agenda[u]
    PROVE  BarStep(t)
<1>1. /\ pc = [w \in Workers |-> PointOf(agenda[w])]
      /\ counting = [u \in Threads |-> TargetOf(agenda[u], "Count")]
      /\ sending = [u \in Threads |-> TargetOf(agenda[u], "Send")]
  BY BarIs
<1>2. /\ pc' = [w \in Workers |-> PointOf(agenda'[w])]
      /\ counting' = [u \in Threads |-> TargetOf(agenda'[u], "Count")]
      /\ sending' = [u \in Threads |-> TargetOf(agenda'[u], "Send")]
  BY BarNext
<1>3. \A w \in Workers : w \in Threads
  BY DEF Threads
<1>4. \A u \in Threads : u # t => /\ PointOf(agenda'[u]) = PointOf(agenda[u])
                                  /\ TargetOf(agenda'[u], "Count") = TargetOf(agenda[u], "Count")
                                  /\ TargetOf(agenda'[u], "Send") = TargetOf(agenda[u], "Send")
  OBVIOUS
<1>5. /\ counting[t] = TargetOf(agenda[t], "Count")
      /\ counting' = [counting EXCEPT ![t] = TargetOf(agenda'[t], "Count")]
      /\ TargetOf(agenda'[t], "Count") = TargetOf(agenda[t], "Count") => counting' = counting
  BY <1>1, <1>2, <1>4
<1>6. /\ sending[t] = TargetOf(agenda[t], "Send")
      /\ sending' = [sending EXCEPT ![t] = TargetOf(agenda'[t], "Send")]
      /\ TargetOf(agenda'[t], "Send") = TargetOf(agenda[t], "Send") => sending' = sending
  BY <1>1, <1>2, <1>4
<1>7. t \notin Workers => pc' = pc
  BY <1>1, <1>2, <1>3, <1>4
<1>8. ASSUME t \in Workers
      PROVE  /\ pc[t] = PointOf(agenda[t])
             /\ pc' = [pc EXCEPT ![t] = PointOf(agenda'[t])]
             /\ PointOf(agenda'[t]) = PointOf(agenda[t]) => pc' = pc
  BY <1>1, <1>2, <1>3, <1>4, <1>8
<1>. QED  BY <1>5, <1>6, <1>7, <1>8 DEF BarStep

-----------------------------------------------------------------------------
(* Each step keeps the invariant and is one of SchedulerQueue, or none.    *)

Simulates == AgendaInv' /\ [SQ!Next]_(SQ!vars)

LEMMA SQStutter ==
    ASSUME AgendaInv, AgendaInv', NEW t \in Threads,
           \A u \in Threads : u # t => agenda'[u] = agenda[u],
           t \in Workers => PointOf(agenda'[t]) = PointOf(agenda[t]),
           NotSubmitting(agenda[t]), NotSubmitting(agenda'[t]),
           UNCHANGED <<queueVars, cur, cleaned>>
    PROVE  Simulates
<1>1. BarStep(t)
  BY BarMoves
<1>2. /\ TargetOf(agenda'[t], "Count") = TargetOf(agenda[t], "Count")
      /\ TargetOf(agenda'[t], "Send") = TargetOf(agenda[t], "Send")
  BY DEF NotSubmitting, Submits
<1>3. pc' = pc /\ counting' = counting /\ sending' = sending
  BY <1>1, <1>2 DEF BarStep
<1>4. UNCHANGED SQ!vars
  BY <1>3 DEF SQ!vars, SQ!queueVars, SQ!threadVars, queueVars
<1>. QED  BY <1>4 DEF Simulates

\* An operation that touches no queue and puts others of its kind in front.
LEMMA QuietStep ==
    ASSUME AgendaInv, NEW t \in Threads, NEW k, At(t, k), k \notin Submits \cup Runs \cup Lasts,
           NEW r \in Seq(QuietOps), Then(t, r),
           UNCHANGED <<queueVars, cur, cleaned, handlingIdle>>
    PROVE  Simulates
<1>1. Ordinary(agenda[t])
  BY AtFacts DEF Ordinary, HeadIn
<1>2. r \in Seq(Operations) /\ SubmitForm(r) /\ ~ HasIn(r, Special)
  BY QuietForm
<1>3. ~ HasIn(r, Runs \cup Lasts \cup Deciding) /\ ~ HasIn(r, Submits)
  <2>1. Runs \cup Lasts \cup Deciding \subseteq Special /\ Submits \subseteq Special
    BY DEF Special
  <2>. QED  BY <1>2, <2>1, HasSubset
<1>4. agenda' = [agenda EXCEPT ![t] = r \o Tail(agenda[t])]
  BY DEF Then
<1>5. cur' = cur /\ handlingIdle' = handlingIdle
  OBVIOUS
<1>6. /\ AgendaInv'
      /\ \A u \in Threads : u # t => agenda'[u] = agenda[u]
      /\ t \in Workers => PointOf(agenda'[t]) = PointOf(agenda[t])
      /\ NotSubmitting(agenda[t]) /\ NotSubmitting(agenda'[t])
  BY <1>1, <1>2, <1>3, <1>4, <1>5, OrdinaryStep
<1>. QED  BY <1>6, SQStutter

\* An operation that calls into queue q, and may submit a task to it.
CallFacts(t, c, q) ==
    /\ AgendaInv'
    /\ BarStep(t)
    /\ NotSubmitting(agenda[t])
    /\ t \in Workers => pc[t] \in {"run", "post", "idle"}
    /\ pc' = pc /\ sending' = sending
    /\ counting' = [counting EXCEPT ![t] = IF c /\ q \in WithExecutor THEN q ELSE NoQueue]
    /\ counting[t] = NoQueue /\ sending[t] = NoQueue

LEMMA QueueCall ==
    ASSUME AgendaInv, NEW t \in Threads, NEW k, At(t, k), k \notin Submits \cup Runs \cup Lasts,
           NEW q \in Queues, NEW c \in BOOLEAN, Then(t, If(c, SubmitOps(q))),
           cur' = cur, handlingIdle' = handlingIdle
    PROVE  CallFacts(t, c, q)
<1>. DEFINE r == If(c, SubmitOps(q))
<1>1. Ordinary(agenda[t])
  BY AtFacts DEF Ordinary, HeadIn
<1>2. /\ r \in Seq(Operations) /\ SubmitForm(r)
      /\ ~ HasIn(r, Runs \cup Lasts \cup Deciding)
      /\ \/ /\ c /\ q \in WithExecutor
            /\ Len(r) = 2 /\ r[1] = <<"Count", q>>
         \/ ~ (c /\ q \in WithExecutor) /\ r = <<>>
  BY SubmitOpsForm
<1>3. agenda' = [agenda EXCEPT ![t] = r \o Tail(agenda[t])]
  BY DEF Then
<1>. HIDE DEF r
<1>4. /\ AgendaInv'
      /\ \A u \in Threads : u # t => agenda'[u] = agenda[u]
      /\ t \in Workers => /\ PointOf(agenda'[t]) = PointOf(agenda[t])
                          /\ PointOf(agenda[t]) \in {"run", "post", "idle"}
      /\ NotSubmitting(agenda[t])
      /\ Replaces(agenda'[t], r, agenda[t])
      /\ ~ HasIn(r, Submits) => NotSubmitting(agenda'[t])
  BY <1>1, <1>2, <1>3, OrdinaryStep
<1>5. BarStep(t)
  BY <1>4, BarMoves
<1>6. /\ TargetOf(agenda[t], "Count") = NoQueue /\ TargetOf(agenda[t], "Send") = NoQueue
  BY <1>4 DEF NotSubmitting, Submits
<1>7. /\ TargetOf(agenda'[t], "Send") = NoQueue
      /\ TargetOf(agenda'[t], "Count") = IF c /\ q \in WithExecutor THEN q ELSE NoQueue
  <2>1. CASE c /\ q \in WithExecutor
    <3>1. Len(r) = 2 /\ r[1] = <<"Count", q>>
      BY <1>2, <2>1
    <3>2. 1 \in 1..Len(r) /\ Len(agenda'[t]) > 0
      BY <1>4, <3>1 DEF Replaces
    <3>3. agenda'[t][1] = <<"Count", q>>
      BY <1>4, <3>1, <3>2 DEF Replaces
    <3>. QED  BY <2>1, <3>2, <3>3 DEF TargetOf
  <2>2. CASE ~ (c /\ q \in WithExecutor)
    <3>1. ~ HasIn(r, Submits)
      BY <1>2, <2>2 DEF HasIn
    <3>. QED  BY <1>4, <2>2, <3>1 DEF NotSubmitting, Submits
  <2>. QED  BY <2>1, <2>2
<1>8. t \in Workers => pc' = pc /\ pc[t] \in {"run", "post", "idle"}
  BY <1>4, <1>5 DEF BarStep
<1>9. pc' = pc
  BY <1>5, <1>8 DEF BarStep
<1>. QED
  BY <1>4, <1>5, <1>6, <1>7, <1>8, <1>9 DEF CallFacts, BarStep

LEMMA AddNodeSimulated ==
    ASSUME AgendaInv, NEW t \in Threads, AddNode(t), running \in [Queues -> BOOLEAN]
    PROVE  Simulates
<1>. DEFINE n == agenda[t][1][2]
            q == QueueOf[n]
<1>1. At(t, "AddNode") /\ Arg(t, 2) = n
  BY AtFacts DEF AddNode, Arg
<1>2. n \in Nodes
  BY <1>1, AtFacts, OpArgs DEF NodeKinds
<1>3. q \in Queues
  BY <1>2, QueueOfAssumption
<1>4. "AddNode" \notin Submits \cup Runs \cup Lasts
  BY DEF Submits, Runs, Lasts, Starts, Idles, Inside
<1>. HIDE DEF n
<1>5. CASE Then(t, <<>>) /\ UNCHANGED queueVars
  <2>1. <<>> \in Seq(QuietOps)
    OBVIOUS
  <2>2. UNCHANGED <<queueVars, cur, cleaned, handlingIdle>>
    BY <1>5 DEF AddNode, schedVars, historyVars
  <2>. QED  BY <1>1, <1>4, <1>5, <2>1, <2>2, QuietStep
<1>6. CASE PushItem(n) /\ Then(t, If(running[q], SubmitOps(q)))
  <2>1. cur' = cur /\ cleaned' = cleaned /\ handlingIdle' = handlingIdle
    BY DEF AddNode, schedVars, historyVars
  <2>2. running[q] \in BOOLEAN
    BY <1>3
  <2>3. CallFacts(t, running[q], q)
    BY <1>1, <1>3, <1>4, <1>6, <2>1, <2>2, QueueCall
  <2>4. SQ!MayCall(t, q)
    BY <2>3 DEF CallFacts, SQ!MayCall, SQ!Submitting, Unbounded, SQ!Unbounded
  <2>5. SQ!Submit(t, running[q], q)
    BY <2>3 DEF CallFacts, SQ!Submit
  <2>6. SQ!PushItem(n)
    BY <1>6 DEF PushItem, SQ!PushItem, AtLimit, SQ!AtLimit
  <2>7. SQ!AddNode(t, n)
    BY <2>1, <2>3, <2>4, <2>5, <2>6 DEF SQ!AddNode, CallFacts
  <2>8. SQ!Next
    BY <1>2, <2>7 DEF SQ!Next, SQ!Call, SQ!Threads, Threads
  <2>. QED  BY <2>3, <2>8 DEF Simulates, CallFacts
<1>. QED
  BY <1>1, <1>5, <1>6 DEF AddNode

\* The sequences of operations that the actions put in front.
LEMMA IfType ==
    ASSUME NEW T, NEW c, NEW r \in Seq(T)
    PROVE  If(c, r) \in Seq(T)
BY DEF If

LEMMA EachType ==
    ASSUME NEW T, NEW S, NEW args \in Seq(S), NEW op, \A x \in S : <<op, x>> \in T
    PROVE  Each(op, args) \in Seq(T)
<1>1. Len(args) \in Nat /\ \A i \in 1..Len(args) : <<op, args[i]>> \in T
  OBVIOUS
<1>. QED  BY <1>1 DEF Each

LEMMA EachInType ==
    ASSUME NEW T, NEW S, NEW args \in Seq(S), NEW op, NEW R, \A x \in S \cap R : <<op, x>> \in T
    PROVE  EachIn(op, args, R) \in Seq(T)
<1>. DEFINE term(i) == If(args[i] \in R, << <<op, args[i]>> >>)
            q == [i \in 1..Len(args) |-> term(i)]
<1>1. ASSUME NEW i \in 1..Len(args) PROVE term(i) \in Seq(T)
  <2>1. args[i] \in S
    OBVIOUS
  <2>2. CASE args[i] \in R
    <3>1. << <<op, args[i]>> >> \in Seq(T)
      BY <2>1, <2>2
    <3>2. term(i) = << <<op, args[i]>> >>
      BY <2>2, Zenon DEF If
    <3>. HIDE DEF term
    <3>. QED  BY <3>1, <3>2, Zenon
  <2>3. CASE args[i] \notin R
    <3>1. term(i) = <<>>
      BY <2>3, Zenon DEF If
    <3>2. <<>> \in Seq(T)
      OBVIOUS
    <3>. HIDE DEF term
    <3>. QED  BY <3>1, <3>2, Zenon
  <2>. QED  BY <2>2, <2>3
<1>2. q \in Seq(Seq(T))
  <2>1. Len(args) \in Nat
    OBVIOUS
  <2>. HIDE DEF term
  <2>. QED  BY <1>1, <2>1
<1>. HIDE DEF q
<1>3. FlattenSeq(q) \in Seq(T)
  BY <1>2, FlattenType
<1>4. EachIn(op, args, R) = FlattenSeq(q)
  BY DEF EachIn, q
<1>. QED  BY <1>3, <1>4

LEMMA PropagateType ==
    ASSUME NEW p \in Producers, NEW k \in Nat
    PROVE  PropagateOps(p, k) \in Seq(QuietOps)
<1>. DEFINE add(e) == If(k > 0, << <<"AddPackets", e, k>> >>)
            bound(e) == If(p \in outDone, << <<"SetDone", e>> >>)
            q == [i \in 1..Len(Mirrors[p]) |-> add(Mirrors[p][i]) \o bound(Mirrors[p][i])]
<1>1. Mirrors[p] \in Seq(Edges) /\ Len(Mirrors[p]) \in Nat
  BY GraphAssumption
<1>2. ASSUME NEW e \in Edges PROVE add(e) \o bound(e) \in Seq(QuietOps)
  <2>1. <<"AddPackets", e, k>> \in QuietOps /\ <<"SetDone", e>> \in QuietOps
    BY QuietOpsMade
  <2>2. << <<"AddPackets", e, k>> >> \in Seq(QuietOps) /\ << <<"SetDone", e>> >> \in Seq(QuietOps)
    BY <2>1
  <2>3. add(e) \in Seq(QuietOps) /\ bound(e) \in Seq(QuietOps)
    BY <2>2, IfType
  <2>. HIDE DEF add, bound
  <2>. QED  BY <2>3
<1>3. q \in Seq(Seq(QuietOps))
  <2>1. \A i \in 1..Len(Mirrors[p]) : Mirrors[p][i] \in Edges
    BY <1>1
  <2>. HIDE DEF add, bound
  <2>. QED  BY <1>1, <1>2, <2>1
<1>. HIDE DEF q
<1>4. FlattenSeq(q) \in Seq(QuietOps)
  BY <1>3, FlattenType
<1>5. PropagateOps(p, k) = FlattenSeq(q)
  BY DEF PropagateOps, q
<1>. QED  BY <1>4, <1>5

LEMMA AddNodeType ==
    ASSUME NEW n \in Nodes
    PROVE  AddNodeOp(n) \in Seq(QuietOps)
BY QuietOpsMade DEF AddNodeOp

LEMMA SetDoneType ==
    ASSUME NEW p \in Producers
    PROVE  Each("SetDone", Mirrors[p]) \in Seq(QuietOps)
<1>1. Mirrors[p] \in Seq(Edges)
  BY GraphAssumption
<1>2. \A e \in Edges : <<"SetDone", e>> \in QuietOps
  BY QuietOpsMade
<1>. QED  BY <1>1, <1>2, EachType

LEMMA CloseOutputType ==
    ASSUME NEW p \in Producers
    PROVE  CloseOutputOps(p) \in Seq(QuietOps)
<1>1. <<"BoundDone", p>> \in QuietOps /\ <<"CloseManager", p>> \in QuietOps
  BY QuietOpsMade
<1>. QED  BY <1>1 DEF CloseOutputOps

LEMMA ArgFacts ==
    ASSUME AgendaInv, NEW t \in Threads, NEW k, At(t, k)
    PROVE  /\ k \in NodeKinds => Arg(t, 2) \in Nodes
           /\ k \in QueueKinds => Arg(t, 2) \in Queues
           /\ k \in {"SourceStopped", "OpenSource"} => Arg(t, 2) \in Sources
           /\ k = "SetRunning" => Arg(t, 2) \in Queues /\ Arg(t, 3) \in BOOLEAN
           /\ k \in {"PopQueueHead", "SetDone"} => Arg(t, 2) \in Edges
           /\ k = "AddPackets" => Arg(t, 2) \in Edges /\ Arg(t, 3) \in Nat
           /\ k = "PostProcess" => Arg(t, 2) \in Producers /\ Arg(t, 3) \in Nat
           /\ k \in {"BoundDone", "CloseManager"} => Arg(t, 2) \in Producers
           /\ k = "IncClosed" => Arg(t, 2) \in GraphInputs
           /\ k = "SetState" => Arg(t, 2) \in LaterStates
           /\ k \in {"Enter", "Idle"} => Arg(t, 2) \in BOOLEAN
           /\ k = "CheckIdle" => Arg(t, 2) \in 1..Len(AllQueues) /\ Arg(t, 3) \in BOOLEAN
           /\ k = "Scan" => Arg(t, 2) \in 1..Len(AllNodes) /\ Arg(t, 3) \in BOOLEAN
           /\ k = "FindUnfinalized" => Arg(t, 2) \in 1..Len(AllNodes)
           /\ k = "Judge" => Arg(t, 2) \in BOOLEAN /\ Arg(t, 3) \in BOOLEAN
<1>1. PICK op \in Operations : op = Head(agenda[t]) /\ op[1] = k
  BY AtFacts
<1>2. Arg(t, 2) = op[2] /\ Arg(t, 3) = op[3]
  BY <1>1 DEF Arg
<1>. QED  BY <1>1, <1>2, OpArgs

\* The operations that call into no queue.
AwayFromQueues ==
    {"AddPackets", "SetDone", "PostProcess", "BoundDone", "CloseManager", "PopQueueHead",
     "Reschedule", "SafetyNet", "SourceStopped", "ErrorCallback", "DrainNode", "CloseNode",
     "Terminate", "OpenSource", "IncClosed", "SetState", "Notify", "Wait", "Block"}

LEMMA AwayStep ==
    ASSUME AgendaInv, NEW t \in Threads, NEW k \in AwayFromQueues, At(t, k),
           NEW r \in Seq(QuietOps), Then(t, r),
           UNCHANGED <<queueVars, cur, cleaned, handlingIdle>>
    PROVE  Simulates
<1>1. k \notin Submits \cup Runs \cup Lasts
  BY DEF AwayFromQueues, Submits, Runs, Lasts, Starts, Idles, Inside
<1>. QED  BY <1>1, QuietStep

LEMMA StreamsSimulated ==
    ASSUME AgendaInv, NEW t \in Threads, StreamStep(t)
    PROVE  Simulates
<1>1. CASE AddPackets(t)
  <2>. DEFINE e == Arg(t, 2)
              r == If(len[e] = 0, AddNodeOp(Consumer[e]))
  <2>1. At(t, "AddPackets") /\ Then(t, r) /\ "AddPackets" \in AwayFromQueues
    BY <1>1 DEF AddPackets, AwayFromQueues
  <2>2. e \in Edges
    BY <2>1, ArgFacts
  <2>3. Consumer[e] \in Nodes
    BY <2>2, GraphAssumption
  <2>4. r \in Seq(QuietOps)
    BY <2>3, AddNodeType, IfType
  <2>5. UNCHANGED <<queueVars, cur, cleaned, handlingIdle>>
    BY <1>1 DEF AddPackets, schedVars, historyVars
  <2>. QED  BY <2>1, <2>4, <2>5, AwayStep
<1>2. CASE SetDone(t)
  <2>. DEFINE e == Arg(t, 2)
              r == If(~ done[e], AddNodeOp(Consumer[e]))
  <2>1. At(t, "SetDone") /\ Then(t, r) /\ "SetDone" \in AwayFromQueues
    BY <1>2 DEF SetDone, AwayFromQueues
  <2>2. e \in Edges
    BY <2>1, ArgFacts
  <2>3. Consumer[e] \in Nodes
    BY <2>2, GraphAssumption
  <2>4. r \in Seq(QuietOps)
    BY <2>3, AddNodeType, IfType
  <2>5. UNCHANGED <<queueVars, cur, cleaned, handlingIdle>>
    BY <1>2 DEF SetDone, schedVars, historyVars
  <2>. QED  BY <2>1, <2>4, <2>5, AwayStep
<1>3. CASE PostProcess(t)
  <2>. DEFINE p == Arg(t, 2)
              r == If(p \notin outClosed, PropagateOps(p, Arg(t, 3)))
  <2>1. At(t, "PostProcess") /\ Then(t, r) /\ "PostProcess" \in AwayFromQueues
    BY <1>3 DEF PostProcess, AwayFromQueues
  <2>2. p \in Producers /\ Arg(t, 3) \in Nat
    BY <2>1, ArgFacts
  <2>3. r \in Seq(QuietOps)
    BY <2>2, PropagateType, IfType
  <2>4. UNCHANGED <<queueVars, cur, cleaned, handlingIdle>>
    BY <1>3 DEF PostProcess, schedVars, historyVars
  <2>. QED  BY <2>1, <2>3, <2>4, AwayStep
<1>4. CASE BoundDone(t)
  <2>. DEFINE p == Arg(t, 2)
              r == Each("SetDone", Mirrors[p])
  <2>1. At(t, "BoundDone") /\ Then(t, r) /\ "BoundDone" \in AwayFromQueues
    BY <1>4 DEF BoundDone, AwayFromQueues
  <2>2. p \in Producers
    BY <2>1, ArgFacts
  <2>3. r \in Seq(QuietOps)
    BY <2>2, SetDoneType
  <2>4. UNCHANGED <<queueVars, cur, cleaned, handlingIdle>>
    BY <1>4 DEF BoundDone, schedVars, historyVars
  <2>. QED  BY <2>1, <2>3, <2>4, AwayStep
<1>5. CASE CloseManager(t)
  <2>. DEFINE p == Arg(t, 2)
              r == If(p \notin outClosed, Each("SetDone", Mirrors[p]))
  <2>1. At(t, "CloseManager") /\ Then(t, r) /\ "CloseManager" \in AwayFromQueues
    BY <1>5 DEF CloseManager, AwayFromQueues
  <2>2. p \in Producers
    BY <2>1, ArgFacts
  <2>3. r \in Seq(QuietOps)
    BY <2>2, SetDoneType, IfType
  <2>4. UNCHANGED <<queueVars, cur, cleaned, handlingIdle>>
    BY <1>5 DEF CloseManager, schedVars, historyVars
  <2>. QED  BY <2>1, <2>3, <2>4, AwayStep
<1>. QED  BY <1>1, <1>2, <1>3, <1>4, <1>5 DEF StreamStep

\* What a worker and the idle callback do away from the queues.
LEMMA WorkerAwaySimulated ==
    ASSUME AgendaInv, NEW w \in Workers,
           \/ PopQueueHead(w) \/ Reschedule(w) \/ SafetyNet(w) \/ SourceStopped(w)
           \/ ErrorCallback(w)
    PROVE  Simulates
<1>. w \in Threads
  BY DEF Threads
<1>1. CASE PopQueueHead(w)
  <2>1. At(w, "PopQueueHead") /\ Then(w, <<>>) /\ "PopQueueHead" \in AwayFromQueues
    BY <1>1 DEF PopQueueHead, AwayFromQueues
  <2>3. <<>> \in Seq(QuietOps)
    OBVIOUS
  <2>4. UNCHANGED <<queueVars, cur, cleaned, handlingIdle>>
    BY <1>1 DEF PopQueueHead, schedVars, historyVars
  <2>. QED  BY <2>1, <2>3, <2>4, AwayStep
<1>2. CASE Reschedule(w)
  <2>1. At(w, "Reschedule") /\ Then(w, If(HasPendingInput(Arg(w, 2)), AddNodeOp(Arg(w, 2)))) /\ "Reschedule" \in AwayFromQueues
    BY <1>2 DEF Reschedule, AwayFromQueues
  <2>2. Arg(w, 2) \in Nodes
    BY <2>1, ArgFacts DEF NodeKinds
  <2>3. If(HasPendingInput(Arg(w, 2)), AddNodeOp(Arg(w, 2))) \in Seq(QuietOps)
    BY <2>2, AddNodeType, IfType
  <2>4. UNCHANGED <<queueVars, cur, cleaned, handlingIdle>>
    BY <1>2 DEF Reschedule, schedVars, historyVars
  <2>. QED  BY <2>1, <2>3, <2>4, AwayStep
<1>3. CASE SafetyNet(w)
  <2>1. At(w, "SafetyNet") /\ Then(w, If(Arg(w, 2) \notin finalized /\ AllInputsDone(Arg(w, 2)), AddNodeOp(Arg(w, 2)))) /\ "SafetyNet" \in AwayFromQueues
    BY <1>3 DEF SafetyNet, AwayFromQueues
  <2>2. Arg(w, 2) \in Nodes
    BY <2>1, ArgFacts DEF NodeKinds
  <2>3. If(Arg(w, 2) \notin finalized /\ AllInputsDone(Arg(w, 2)), AddNodeOp(Arg(w, 2))) \in Seq(QuietOps)
    BY <2>2, AddNodeType, IfType
  <2>4. UNCHANGED <<queueVars, cur, cleaned, handlingIdle>>
    BY <1>3 DEF SafetyNet, schedVars, historyVars
  <2>. QED  BY <2>1, <2>3, <2>4, AwayStep
<1>4. CASE SourceStopped(w)
  <2>1. At(w, "SourceStopped") /\ Then(w, <<>>) /\ "SourceStopped" \in AwayFromQueues
    BY <1>4 DEF SourceStopped, AwayFromQueues
  <2>3. <<>> \in Seq(QuietOps)
    OBVIOUS
  <2>4. UNCHANGED <<queueVars, cur, cleaned, handlingIdle>>
    BY <1>4 DEF SourceStopped, schedVars, historyVars
  <2>. QED  BY <2>1, <2>3, <2>4, AwayStep
<1>5. CASE ErrorCallback(w)
  <2>1. At(w, "ErrorCallback") /\ Then(w, <<>>) /\ "ErrorCallback" \in AwayFromQueues
    BY <1>5 DEF ErrorCallback, AwayFromQueues
  <2>3. <<>> \in Seq(QuietOps)
    OBVIOUS
  <2>4. UNCHANGED <<queueVars, cur, cleaned, handlingIdle>>
    BY <1>5 DEF ErrorCallback, schedVars, historyVars
  <2>. QED  BY <2>1, <2>3, <2>4, AwayStep
<1>. QED  BY <1>1, <1>2, <1>3, <1>4, <1>5

LEMMA IdleAwaySimulated ==
    ASSUME AgendaInv, NEW t \in Threads, DrainNode(t) \/ CloseNode(t) \/ Terminate(t)
    PROVE  Simulates
<1>1. CASE DrainNode(t)
  <2>1. At(t, "DrainNode") /\ Then(t, If(HasPendingInput(Arg(t, 2)) /\ running[QueueOf[Arg(t, 2)]], AddNodeOp(Arg(t, 2)))) /\ "DrainNode" \in AwayFromQueues
    BY <1>1 DEF DrainNode, AwayFromQueues
  <2>2. Arg(t, 2) \in Nodes
    BY <2>1, ArgFacts DEF NodeKinds
  <2>3. If(HasPendingInput(Arg(t, 2)) /\ running[QueueOf[Arg(t, 2)]], AddNodeOp(Arg(t, 2))) \in Seq(QuietOps)
    BY <2>2, AddNodeType, IfType
  <2>4. UNCHANGED <<queueVars, cur, cleaned, handlingIdle>>
    BY <1>1 DEF DrainNode, schedVars, historyVars
  <2>. QED  BY <2>1, <2>3, <2>4, AwayStep
<1>2. CASE CloseNode(t)
  <2>1. At(t, "CloseNode") /\ Then(t, <<>>) /\ "CloseNode" \in AwayFromQueues
    BY <1>2 DEF CloseNode, AwayFromQueues
  <2>3. <<>> \in Seq(QuietOps)
    OBVIOUS
  <2>4. UNCHANGED <<queueVars, cur, cleaned, handlingIdle>>
    BY <1>2 DEF CloseNode, schedVars, historyVars
  <2>. QED  BY <2>1, <2>3, <2>4, AwayStep
<1>3. CASE Terminate(t)
  <2>1. At(t, "Terminate") /\ Then(t, <<>>) /\ "Terminate" \in AwayFromQueues
    BY <1>3 DEF Terminate, AwayFromQueues
  <2>3. <<>> \in Seq(QuietOps)
    OBVIOUS
  <2>4. UNCHANGED <<queueVars, cur, cleaned, handlingIdle>>
    BY <1>3 DEF Terminate, schedVars, historyVars
  <2>. QED  BY <2>1, <2>3, <2>4, AwayStep
<1>. QED  BY <1>1, <1>2, <1>3

LEMMA AppAwaySimulated ==
    ASSUME AgendaInv, NEW a \in Apps,
           \/ OpenSource(a) \/ IncClosedGraphInputStreams(a) \/ SetState(a)
           \/ Notify(a) \/ Wait(a) \/ Block(a)
    PROVE  Simulates
<1>. a \in Threads
  BY DEF Threads
<1>1. CASE OpenSource(a)
  <2>1. At(a, "OpenSource") /\ Then(a, AddNodeOp(Arg(a, 2))) /\ "OpenSource" \in AwayFromQueues
    BY <1>1 DEF OpenSource, AwayFromQueues
  <2>2. Arg(a, 2) \in Nodes
    BY <2>1, ArgFacts, SourcesAssumption
  <2>3. AddNodeOp(Arg(a, 2)) \in Seq(QuietOps)
    BY <2>2, AddNodeType, IfType
  <2>4. UNCHANGED <<queueVars, cur, cleaned, handlingIdle>>
    BY <1>1 DEF OpenSource, schedVars, historyVars
  <2>. QED  BY <2>1, <2>3, <2>4, AwayStep
<1>2. CASE IncClosedGraphInputStreams(a)
  <2>1. At(a, "IncClosed") /\ Then(a, <<>>) /\ "IncClosed" \in AwayFromQueues
    BY <1>2 DEF IncClosedGraphInputStreams, AwayFromQueues
  <2>3. <<>> \in Seq(QuietOps)
    OBVIOUS
  <2>4. UNCHANGED <<queueVars, cur, cleaned, handlingIdle>>
    BY <1>2 DEF IncClosedGraphInputStreams, schedVars, historyVars
  <2>. QED  BY <2>1, <2>3, <2>4, AwayStep
<1>3. CASE SetState(a)
  <2>1. At(a, "SetState") /\ Then(a, <<>>) /\ "SetState" \in AwayFromQueues
    BY <1>3 DEF SetState, AwayFromQueues
  <2>3. <<>> \in Seq(QuietOps)
    OBVIOUS
  <2>4. UNCHANGED <<queueVars, cur, cleaned, handlingIdle>>
    BY <1>3 DEF SetState, schedVars, historyVars
  <2>. QED  BY <2>1, <2>3, <2>4, AwayStep
<1>4. CASE Notify(a)
  <2>1. At(a, "Notify") /\ Then(a, <<>>) /\ "Notify" \in AwayFromQueues
    BY <1>4 DEF Notify, AwayFromQueues
  <2>3. <<>> \in Seq(QuietOps)
    OBVIOUS
  <2>4. UNCHANGED <<queueVars, cur, cleaned, handlingIdle>>
    BY <1>4 DEF Notify, schedVars, historyVars
  <2>. QED  BY <2>1, <2>3, <2>4, AwayStep
<1>5. CASE Wait(a)
  <2>1. At(a, "Wait") /\ Then(a, If(state # "Terminated", << <<"Block">>, <<"Wait">> >>)) /\ "Wait" \in AwayFromQueues
    BY <1>5 DEF Wait, AwayFromQueues
  <2>2. << <<"Block">>, <<"Wait">> >> \in Seq(QuietOps)
    BY QuietOpsMade
  <2>3. If(state # "Terminated", << <<"Block">>, <<"Wait">> >>) \in Seq(QuietOps)
    BY <2>2, IfType
  <2>4. UNCHANGED <<queueVars, cur, cleaned, handlingIdle>>
    BY <1>5 DEF Wait, schedVars, historyVars
  <2>. QED  BY <2>1, <2>3, <2>4, AwayStep
<1>6. CASE Block(a)
  <2>1. At(a, "Block") /\ Then(a, <<>>) /\ "Block" \in AwayFromQueues
    BY <1>6 DEF Block, AwayFromQueues
  <2>3. <<>> \in Seq(QuietOps)
    OBVIOUS
  <2>4. UNCHANGED <<queueVars, cur, cleaned, handlingIdle>>
    BY <1>6 DEF Block, schedVars, historyVars
  <2>. QED  BY <2>1, <2>3, <2>4, AwayStep
<1>. QED  BY <1>1, <1>2, <1>3, <1>4, <1>5, <1>6

LEMMA SetRunningSimulated ==
    ASSUME AgendaInv, NEW t \in Threads, SetRunning(t)
    PROVE  Simulates
<1>1. PICK q \in Queues, b \in BOOLEAN : q = Arg(t, 2) /\ b = Arg(t, 3)
  BY ArgFacts DEF SetRunning
<1>. DEFINE c == b /\ Queued(q) # {}
<1>2. At(t, "SetRunning") /\ AssignRunning(q, b) /\ Then(t, If(c, SubmitOps(q)))
  BY <1>1 DEF SetRunning
<1>3. cur' = cur /\ cleaned' = cleaned /\ handlingIdle' = handlingIdle
  BY DEF SetRunning, schedVars, historyVars
<1>4. "SetRunning" \notin Submits \cup Runs \cup Lasts
  BY DEF Submits, Runs, Lasts, Starts, Idles, Inside
<1>5. c \in BOOLEAN
  OBVIOUS
<1>6. CallFacts(t, c, q)
  <2>. HIDE DEF c
  <2>. QED  BY <1>2, <1>3, <1>4, <1>5, QueueCall
<1>7. SQ!MayCall(t, q)
  BY <1>6 DEF CallFacts, SQ!MayCall, SQ!Submitting, Unbounded, SQ!Unbounded
<1>8. SQ!Submit(t, b /\ SQ!Queued(q) # {}, q)
  <2>1. SQ!Queued(q) = Queued(q)
    BY DEF Queued, SQ!Queued, NodesOf, SQ!NodesOf
  <2>. QED  BY <1>6, <2>1 DEF CallFacts, SQ!Submit
<1>9. SQ!AssignRunning(q, b)
  BY <1>2 DEF AssignRunning, SQ!AssignRunning
<1>10. SQ!SetRunning(t, q, b)
  BY <1>3, <1>6, <1>7, <1>8, <1>9 DEF SQ!SetRunning, CallFacts
<1>11. SQ!Next
  BY <1>10 DEF SQ!Next, SQ!Call, SQ!Threads, Threads
<1>. QED  BY <1>6, <1>11 DEF Simulates, CallFacts

LEMMA SubmitWaitingSimulated ==
    ASSUME AgendaInv, NEW t \in Threads, SubmitWaiting(t), running \in [Queues -> BOOLEAN]
    PROVE  Simulates
<1>1. PICK q \in Queues : q = Arg(t, 2)
  BY ArgFacts DEF SubmitWaiting, QueueKinds
<1>. DEFINE c == running[q] /\ Queued(q) # {}
<1>2. At(t, "SubmitWaiting") /\ Then(t, If(c, SubmitOps(q)))
  BY <1>1 DEF SubmitWaiting
<1>3. cur' = cur /\ cleaned' = cleaned /\ handlingIdle' = handlingIdle /\ UNCHANGED queueVars
  BY DEF SubmitWaiting, schedVars, historyVars
<1>4. "SubmitWaiting" \notin Submits \cup Runs \cup Lasts
  BY DEF Submits, Runs, Lasts, Starts, Idles, Inside
<1>5. c \in BOOLEAN
  OBVIOUS
<1>6. CallFacts(t, c, q)
  <2>. HIDE DEF c
  <2>. QED  BY <1>2, <1>3, <1>4, <1>5, QueueCall
<1>7. SQ!MayCall(t, q)
  BY <1>6 DEF CallFacts, SQ!MayCall, SQ!Submitting, Unbounded, SQ!Unbounded
<1>8. SQ!Submit(t, running[q] /\ SQ!Queued(q) # {}, q)
  <2>1. SQ!Queued(q) = Queued(q)
    BY DEF Queued, SQ!Queued, NodesOf, SQ!NodesOf
  <2>. QED  BY <1>6, <2>1 DEF CallFacts, SQ!Submit
<1>9. UNCHANGED SQ!queueVars
  BY <1>3 DEF queueVars, SQ!queueVars
<1>10. SQ!SubmitWaitingTasksToExecutor(t, q)
  BY <1>3, <1>6, <1>7, <1>8, <1>9 DEF SQ!SubmitWaitingTasksToExecutor, CallFacts
<1>11. SQ!Next
  BY <1>10 DEF SQ!Next, SQ!Call, SQ!Threads, Threads
<1>. QED  BY <1>6, <1>11 DEF Simulates, CallFacts

LEMMA CleanupSimulated ==
    ASSUME AgendaInv, NEW t \in Threads, Cleanup(t)
    PROVE  Simulates
<1>1. PICK q \in Queues : q = Arg(t, 2)
  BY ArgFacts DEF Cleanup, QueueKinds
<1>2. At(t, "Cleanup") /\ CleanupAfterRun(q) /\ cleaned' = cleaned \cup {q} /\ Then(t, <<>>)
  BY <1>1 DEF Cleanup
<1>3. cur' = cur /\ handlingIdle' = handlingIdle
  BY DEF Cleanup, schedVars
<1>4. "Cleanup" \notin Submits \cup Runs \cup Lasts
  BY DEF Submits, Runs, Lasts, Starts, Idles, Inside
<1>5. Then(t, If(FALSE, SubmitOps(q)))
  BY <1>2 DEF If
<1>6. CallFacts(t, FALSE, q)
  BY <1>2, <1>3, <1>4, <1>5, QueueCall
<1>7. SQ!MayCall(t, q)
  BY <1>6 DEF CallFacts, SQ!MayCall, SQ!Submitting, Unbounded, SQ!Unbounded
<1>8. counting' = counting
  BY <1>6 DEF CallFacts, counting
<1>9. SQ!CleanupAfterRun(q)
  BY <1>2 DEF CleanupAfterRun, SQ!CleanupAfterRun
<1>10. SQ!Cleanup(t, q)
  BY <1>2, <1>3, <1>6, <1>7, <1>8, <1>9 DEF SQ!Cleanup, SQ!threadVars, CallFacts
<1>11. SQ!Next
  BY <1>10 DEF SQ!Next, SQ!Call, SQ!Threads, Threads
<1>. QED  BY <1>6, <1>11 DEF Simulates, CallFacts

LEMMA SubmitToExecutorSimulated ==
    ASSUME AgendaInv, NEW t \in Threads, SubmitToExecutor(t)
    PROVE  Simulates
<1>1. PICK k \in Submits : At(t, k)
  BY DEF SubmitToExecutor, Submits
<1>2. PICK q \in Queues : q = Arg(t, 2)
  BY <1>1, ArgFacts DEF Submits, QueueKinds
<1>3. /\ Len(agenda[t]) > 0 /\ agenda[t][1][1] = k /\ agenda[t][1][2] = q
      /\ HeadIn(agenda[t], Submits)
  BY <1>1, <1>2, AtFacts DEF Arg, HeadIn
<1>4. agenda' = [agenda EXCEPT ![t] = <<>> \o Tail(agenda[t])]
  BY DEF SubmitToExecutor, Then
<1>5. cur' = cur /\ cleaned' = cleaned /\ handlingIdle' = handlingIdle
  BY DEF SubmitToExecutor, schedVars, historyVars
<1>6. /\ AgendaInv'
      /\ \A u \in Threads : u # t => agenda'[u] = agenda[u]
      /\ t \in Workers => PointOf(agenda'[t]) = PointOf(agenda[t])
      /\ IF HeadIn(agenda[t], {"Count"})
         THEN /\ TargetOf(agenda[t], "Send") = NoQueue
              /\ TargetOf(agenda'[t], "Count") = NoQueue
              /\ TargetOf(agenda'[t], "Send") = agenda[t][1][2]
         ELSE /\ TargetOf(agenda[t], "Count") = NoQueue
              /\ NotSubmitting(agenda'[t])
  BY <1>3, <1>4, <1>5, SubmitterStep
<1>7. BarStep(t)
  BY <1>6, BarMoves
<1>8. pc' = pc
  BY <1>6, <1>7 DEF BarStep
<1>9. q # NoQueue
  BY ThreadsAssumption
<1>10. CASE k = "Count"
  <2>1. CountTask(q)
    BY <1>1, <1>2, <1>10 DEF SubmitToExecutor, At
  <2>2. SQ!CountTask(q)
    BY <2>1 DEF CountTask, SQ!CountTask
  <2>3. /\ TargetOf(agenda[t], "Count") = q /\ TargetOf(agenda'[t], "Count") = NoQueue
        /\ TargetOf(agenda'[t], "Send") = q
    BY <1>3, <1>6, <1>10 DEF HeadIn, TargetOf
  <2>4. SQ!Count(t)
    BY <1>5, <1>7, <1>8, <1>9, <2>2, <2>3 DEF SQ!Count, BarStep
  <2>5. SQ!Next
    BY <2>4 DEF SQ!Next, SQ!Threads, Threads
  <2>. QED  BY <1>6, <2>5 DEF Simulates
<1>11. CASE k = "Send"
  <2>1. ScheduleTask(q)
    BY <1>1, <1>2, <1>11 DEF SubmitToExecutor, At
  <2>2. SQ!ScheduleTask(q)
    BY <2>1 DEF ScheduleTask, SQ!ScheduleTask
  <2>3. ~ HeadIn(agenda[t], {"Count"})
    BY <1>3, <1>11 DEF HeadIn
  <2>4. /\ TargetOf(agenda[t], "Count") = NoQueue /\ TargetOf(agenda'[t], "Count") = NoQueue
        /\ TargetOf(agenda'[t], "Send") = NoQueue
    BY <1>6, <2>3 DEF NotSubmitting, Submits
  <2>5. TargetOf(agenda[t], "Send") = q
    BY <1>3, <1>11 DEF TargetOf
  <2>6. counting' = counting
    BY <1>7, <2>4 DEF BarStep
  <2>7. SQ!Send(t)
    BY <1>5, <1>7, <1>8, <1>9, <2>2, <2>4, <2>5, <2>6 DEF SQ!Send, BarStep
  <2>8. SQ!Next
    BY <2>7 DEF SQ!Next, SQ!Threads, Threads
  <2>. QED  BY <1>6, <2>8 DEF Simulates
<1>. QED  BY <1>10, <1>11 DEF Submits

-----------------------------------------------------------------------------
(* HandleIdle.                                                             *)

\* What may stand in front of the operation of HandleIdle that follows.
FollowOps == {op \in Operations : op[1] \notin Submits \cup Marks \cup Idles}

\* The operations an operation of HandleIdle puts in front, unless it leaves.
InsideForm(r) ==
    /\ r \in Seq(Operations) /\ Len(r) \in Nat /\ Len(r) > 0
    /\ IdleForm(r)
    /\ ~ HasIn(r, Submits) /\ ~ HasIn(r, Marks)
    /\ HasIn(r, Inside)
    /\ r[Len(r)][1] \in Lasts

LEMMA TailForm ==
    ASSUME NEW p \in Seq(FollowOps), NEW x \in Operations, x[1] \in Inside
    PROVE  InsideForm(p \o <<x>>)
<1>. DEFINE r == p \o <<x>>
<1>1. /\ Len(p) \in Nat /\ Len(r) = Len(p) + 1
      /\ \A i \in 1..Len(p) : r[i] = p[i] /\ p[i] \in FollowOps
      /\ r[Len(r)] = x
  OBVIOUS
<1>2. r \in Seq(Operations)
  <2>1. FollowOps \subseteq Operations
    BY DEF FollowOps
  <2>2. p \in Seq(Operations) /\ <<x>> \in Seq(Operations)
    BY <2>1
  <2>. QED  BY <2>2
<1>. HIDE DEF r
<1>3. ASSUME NEW i \in 1..Len(r), r[i][1] \in Submits \cup Marks \cup Idles
      PROVE  i = Len(r)
  <2>1. CASE i \in 1..Len(p)
    BY <1>1, <1>3, <2>1 DEF FollowOps
  <2>2. CASE i \notin 1..Len(p)
    BY <1>1, <2>2
  <2>. QED  BY <2>1, <2>2
<1>4. x[1] \notin Submits /\ x[1] \notin Marks /\ x[1] \in Lasts
  BY DEF Submits, Marks, Runs, Starts, Lasts, Inside, Idles
<1>5. ~ HasIn(r, Submits) /\ ~ HasIn(r, Marks)
  BY <1>1, <1>3, <1>4 DEF HasIn
<1>6. Len(r) \in 1..Len(r) /\ Len(r) > 0
  BY <1>1
<1>7. HasIn(r, Inside)
  BY <1>1, <1>6 DEF HasIn
<1>8. AtMostOne(r, Idles)
  BY <1>3 DEF AtMostOne
<1>9. \A i \in 1..Len(r) : Len(r) \in i..Len(r)
  BY <1>1
<1>10. IdleForm(r)
  BY <1>1, <1>8, <1>9 DEF IdleForm
<1>. QED  BY <1>1, <1>2, <1>4, <1>5, <1>6, <1>7, <1>10 DEF InsideForm, r

LEMMA OneForm ==
    ASSUME NEW x \in Operations, x[1] \in Inside
    PROVE  InsideForm(<<x>>)
<1>1. <<>> \in Seq(FollowOps) /\ <<>> \o <<x>> = <<x>>
  OBVIOUS
<1>. QED  BY <1>1, TailForm

\* A step of HandleIdle; the last one of a worker takes it back to its pool.
LEMMA InsideSimulated ==
    ASSUME AgendaInv, NEW t \in Threads, NEW k \in Idles, At(t, k),
           NEW r \in Seq(Operations), Then(t, r),
           UNCHANGED <<queueVars, cur, cleaned>>, GuardStep(agenda[t], r),
           IdleForm(r), ~ HasIn(r, Submits), ~ HasIn(r, Marks), EndsWell(r, agenda[t])
    PROVE  Simulates
<1>1. Len(agenda[t]) > 0 /\ HeadIn(agenda[t], Idles)
  BY AtFacts DEF HeadIn
<1>2. agenda' = [agenda EXCEPT ![t] = r \o Tail(agenda[t])]
  BY DEF Then
<1>3. /\ AgendaInv'
      /\ \A u \in Threads : u # t => agenda'[u] = agenda[u]
      /\ NotSubmitting(agenda[t]) /\ NotSubmitting(agenda'[t])
      /\ t \in Workers =>
           IF Len(agenda'[t]) > 0 THEN PointOf(agenda'[t]) = PointOf(agenda[t])
           ELSE PointOf(agenda[t]) = "idle" /\ PointOf(agenda'[t]) = "wait"
  BY <1>1, <1>2, InsideStep
<1>4. CASE t \in Workers /\ ~ (Len(agenda'[t]) > 0)
  <2>1. PointOf(agenda[t]) = "idle" /\ PointOf(agenda'[t]) = "wait"
    BY <1>3, <1>4
  <2>2. BarStep(t)
    BY <1>3, BarMoves
  <2>3. /\ TargetOf(agenda[t], "Count") = NoQueue /\ TargetOf(agenda'[t], "Count") = NoQueue
        /\ TargetOf(agenda[t], "Send") = NoQueue /\ TargetOf(agenda'[t], "Send") = NoQueue
    BY <1>3 DEF NotSubmitting, Submits
  <2>4. /\ counting[t] = NoQueue /\ sending[t] = NoQueue
        /\ counting' = counting /\ sending' = sending
        /\ pc[t] = "idle" /\ pc' = [pc EXCEPT ![t] = "wait"]
    BY <1>4, <2>1, <2>2, <2>3 DEF BarStep
  <2>5. UNCHANGED SQ!queueVars
    BY DEF queueVars, SQ!queueVars
  <2>6. SQ!EndIdle(t)
    BY <2>4, <2>5 DEF SQ!EndIdle, SQ!Submitting
  <2>7. SQ!Next
    BY <1>4, <2>6 DEF SQ!Next, SQ!WorkerStep
  <2>. QED  BY <1>3, <2>7 DEF Simulates
<1>5. CASE ~ (t \in Workers /\ ~ (Len(agenda'[t]) > 0))
  <2>1. t \in Workers => PointOf(agenda'[t]) = PointOf(agenda[t])
    BY <1>3, <1>5
  <2>. QED  BY <1>3, <2>1, SQStutter
<1>. QED  BY <1>4, <1>5

LEMMA GoesOn ==
    ASSUME AgendaInv, NEW t \in Threads, NEW k \in Inside \ {"Leave"}, At(t, k),
           NEW r, InsideForm(r), Then(t, r),
           UNCHANGED <<queueVars, cur, cleaned, handlingIdle>>
    PROVE  Simulates
<1>1. k \in Idles
  BY DEF Idles
<1>2. GuardStep(agenda[t], r)
  BY AtFacts DEF GuardStep, HeadIn, InsideForm
<1>3. EndsWell(r, agenda[t])
  BY DEF EndsWell, InsideForm
<1>. QED  BY <1>1, <1>2, <1>3, InsideSimulated DEF InsideForm

LEMMA LeaveForm == <<"Leave">> \in Operations /\ InsideForm(LeaveOp)
<1>1. <<"Leave">> \in Operations
  BY OpsMade DEF PlainKinds
<1>2. <<"Leave">>[1] \in Inside
  BY DEF Inside
<1>. QED  BY <1>1, <1>2, OneForm DEF LeaveOp

LEMMA EnterSimulated ==
    ASSUME AgendaInv, NEW t \in Threads, Enter(t)
    PROVE  Simulates
<1>. DEFINE r == IF handlingIdle > 0 THEN LeaveOp ELSE << <<"Begin">> >>
<1>1. At(t, "Enter") /\ Then(t, r) /\ handlingIdle' = handlingIdle + 1
  BY DEF Enter
<1>2. InsideForm(<< <<"Begin">> >>)
  <2>1. <<"Begin">> \in Operations
    BY OpsMade DEF PlainKinds
  <2>2. <<"Begin">>[1] \in Inside
    BY DEF Inside
  <2>. QED  BY <2>1, <2>2, OneForm
<1>3. InsideForm(r)
  BY <1>2, LeaveForm
<1>4. HasIn(r, Deciding) => handlingIdle = 0
  <2>1. ~ HasIn(LeaveOp, Deciding)
    BY DEF LeaveOp, HasIn, Deciding, Inside
  <2>2. handlingIdle \in Nat
    <3>1. InHandleIdle \subseteq Threads
      BY DEF InHandleIdle
    <3>2. IsFiniteSet(InHandleIdle)
      BY <3>1, ThreadsFinite, FS_Subset
    <3>. QED  BY <3>2, FS_CardinalityType DEF AgendaInv
  <2>. QED  BY <2>1, <2>2
<1>5. UNCHANGED <<queueVars, cur, cleaned>>
  BY DEF Enter, historyVars
<1>. HIDE DEF r
<1>6. "Enter" \in Idles
  BY DEF Idles
<1>7. GuardStep(agenda[t], r)
  BY <1>1, <1>3, <1>4, AtFacts DEF GuardStep, HeadIn, InsideForm
<1>8. EndsWell(r, agenda[t])
  BY <1>3 DEF EndsWell, InsideForm
<1>. QED  BY <1>1, <1>3, <1>5, <1>6, <1>7, <1>8, InsideSimulated DEF InsideForm

LEMMA LeaveSimulated ==
    ASSUME AgendaInv, NEW t \in Threads, Leave(t)
    PROVE  Simulates
<1>. DEFINE r == <<>>
<1>1. At(t, "Leave") /\ Then(t, r) /\ handlingIdle' = handlingIdle - 1
  BY DEF Leave
<1>2. r \in Seq(Operations) /\ Len(r) = 0
  OBVIOUS
<1>. HIDE DEF r
<1>3. \A K : ~ HasIn(r, K)
  BY <1>2 DEF HasIn
<1>4. UNCHANGED <<queueVars, cur, cleaned>>
  BY DEF Leave, historyVars
<1>5. "Leave" \in Idles
  BY DEF Idles, Inside
<1>6. GuardStep(agenda[t], r)
  BY <1>1, <1>2, AtFacts DEF GuardStep, HeadIn
<1>7. EndsWell(r, agenda[t])
  BY <1>2 DEF EndsWell
<1>8. IdleForm(r)
  BY <1>3, IdleFormOfOthers
<1>. QED  BY <1>1, <1>2, <1>3, <1>4, <1>5, <1>6, <1>7, <1>8, InsideSimulated

LEMMA FollowOpsMade ==
    /\ \A k \in {"AddNode", "DrainNode", "CloseNode"}, n \in Nodes : <<k, n>> \in FollowOps
    /\ \A q \in Queues : <<"Cleanup", q>> \in FollowOps
    /\ <<"Terminate">> \in FollowOps
<1>1. /\ {"AddNode", "DrainNode", "CloseNode"} \subseteq NodeKinds
      /\ "Cleanup" \in QueueKinds /\ "Terminate" \in PlainKinds
  BY DEF NodeKinds, QueueKinds, PlainKinds
<1>2. \A k \in {"AddNode", "DrainNode", "CloseNode", "Cleanup", "Terminate"} :
         k \notin Submits \cup Marks \cup Idles
  BY DEF Submits, Marks, Runs, Starts, Idles, Inside
<1>. QED  BY <1>1, <1>2, OpsMade DEF FollowOps

LEMMA LeavesLast ==
    ASSUME NEW p \in Seq(FollowOps)
    PROVE  InsideForm(p \o LeaveOp)
<1>1. <<"Leave">>[1] \in Inside
  BY DEF Inside
<1>. QED  BY <1>1, LeaveForm, TailForm DEF LeaveOp

\* HandleIdle calls op for every node, or every queue.
LEMMA ForAll ==
    /\ Each("DrainNode", AllNodes) \in Seq(FollowOps)
    /\ Each("CloseNode", AllNodes) \o << <<"Terminate">> >> \in Seq(FollowOps)
    /\ Each("Cleanup", AllQueues) \o << <<"Terminate">> >> \in Seq(FollowOps)
    /\ \A R : EachIn("AddNode", AllNodes, R) \in Seq(FollowOps)
<1>1. AllNodes \in Seq(Nodes) /\ AllQueues \in Seq(Queues)
  BY GraphAssumption
<1>2. << <<"Terminate">> >> \in Seq(FollowOps)
  BY FollowOpsMade
<1>3. Each("DrainNode", AllNodes) \in Seq(FollowOps)
  BY <1>1, FollowOpsMade, EachType
<1>4. Each("CloseNode", AllNodes) \in Seq(FollowOps)
  BY <1>1, FollowOpsMade, EachType
<1>5. Each("Cleanup", AllQueues) \in Seq(FollowOps)
  BY <1>1, FollowOpsMade, EachType
<1>6. \A R : EachIn("AddNode", AllNodes, R) \in Seq(FollowOps)
  BY <1>1, FollowOpsMade, EachInType
<1>. QED  BY <1>2, <1>3, <1>4, <1>5, <1>6, ConcatProperties

LEMMA NotEmptyGraph ==
    /\ Len(AllNodes) \in Nat \ {0} /\ 1 \in 1..Len(AllNodes)
    /\ \A i \in 1..Len(AllNodes) : AllNodes[i] \in Nodes
    /\ Len(AllQueues) \in Nat \ {0} /\ 1 \in 1..Len(AllQueues)
    /\ \A i \in 1..Len(AllQueues) : AllQueues[i] \in Queues
<1>1. AllNodes \in Seq(Nodes) /\ AllNodes # <<>> /\ AllQueues \in Seq(Queues) /\ AllQueues # <<>>
  BY GraphAssumption
<1>2. Len(AllNodes) \in Nat /\ Len(AllNodes) # 0 /\ Len(AllQueues) \in Nat /\ Len(AllQueues) # 0
  BY <1>1, EmptySeq
<1>. QED  BY <1>1, <1>2

LEMMA BeginSimulated ==
    ASSUME AgendaInv, NEW t \in Threads, Begin(t)
    PROVE  Simulates
<1>. DEFINE q == Each("Cleanup", AllQueues) \o << <<"Terminate">> >> \o LeaveOp
            c == << <<"CheckIdle", 1, InputsRemaining>> >>
            r == IF state = "Cancelling" /\ hasError THEN q ELSE c
<1>1. At(t, "Begin") /\ Then(t, r) /\ "Begin" \in Inside \ {"Leave"}
  BY DEF Begin, Inside
<1>2. InsideForm(q)
  BY ForAll, LeavesLast
<1>3. InsideForm(c)
  <2>1. InputsRemaining \in BOOLEAN
    BY DEF InputsRemaining
  <2>2. <<"CheckIdle", 1, InputsRemaining>> \in Operations
    BY <2>1, NotEmptyGraph, OpsMade
  <2>3. <<"CheckIdle", 1, InputsRemaining>>[1] \in Inside
    BY DEF Inside
  <2>. QED  BY <2>2, <2>3, OneForm
<1>4. UNCHANGED <<queueVars, cur, cleaned, handlingIdle>>
  BY DEF Begin, schedVars, historyVars
<1>. HIDE DEF q, c
<1>5. InsideForm(r)
  BY <1>2, <1>3
<1>. QED  BY <1>1, <1>4, <1>5, GoesOn

LEMMA CheckIdleSimulated ==
    ASSUME AgendaInv, NEW t \in Threads, CheckIdle(t)
    PROVE  Simulates
<1>1. PICK i \in 1..Len(AllQueues), rem \in BOOLEAN : i = Arg(t, 2) /\ rem = Arg(t, 3)
  BY ArgFacts DEF CheckIdle
<1>. DEFINE c == << <<"CheckIdle", i + 1, rem>> >>
            d == << <<"Idle", rem>> >>
            r == IF ~ IsIdle(AllQueues[i]) THEN LeaveOp
                 ELSE IF i < Len(AllQueues) THEN c ELSE d
<1>2. At(t, "CheckIdle") /\ Then(t, r) /\ "CheckIdle" \in Inside \ {"Leave"}
  BY <1>1 DEF CheckIdle, Inside
<1>3. ASSUME i < Len(AllQueues) PROVE InsideForm(c)
  <2>1. i + 1 \in 1..Len(AllQueues)
    BY <1>3, NotEmptyGraph
  <2>2. <<"CheckIdle", i + 1, rem>> \in Operations
    BY <2>1, OpsMade
  <2>3. <<"CheckIdle", i + 1, rem>>[1] \in Inside
    BY DEF Inside
  <2>. QED  BY <2>2, <2>3, OneForm
<1>4. InsideForm(d)
  <2>1. <<"Idle", rem>> \in Operations
    BY OpsMade
  <2>2. <<"Idle", rem>>[1] \in Inside
    BY DEF Inside
  <2>. QED  BY <2>1, <2>2, OneForm
<1>5. UNCHANGED <<queueVars, cur, cleaned, handlingIdle>>
  BY DEF CheckIdle, schedVars, historyVars
<1>. HIDE DEF c, d
<1>6. InsideForm(r)
  BY <1>3, <1>4, LeaveForm
<1>. QED  BY <1>2, <1>5, <1>6, GoesOn

LEMMA JudgeForm ==
    ASSUME NEW b \in BOOLEAN, NEW c \in BOOLEAN
    PROVE  InsideForm(<< <<"Judge", b, c>> >>)
<1>1. <<"Judge", b, c>> \in Operations
  BY OpsMade
<1>2. <<"Judge", b, c>>[1] \in Inside
  BY DEF Inside
<1>. QED  BY <1>1, <1>2, OneForm

LEMMA ScanForm ==
    ASSUME NEW i \in 1..Len(AllNodes), NEW b \in BOOLEAN
    PROVE  InsideForm(<< <<"Scan", i, b>> >>)
<1>1. <<"Scan", i, b>> \in Operations
  BY OpsMade
<1>2. <<"Scan", i, b>>[1] \in Inside
  BY DEF Inside
<1>. QED  BY <1>1, <1>2, OneForm

LEMMA FindForm ==
    ASSUME NEW i \in 1..Len(AllNodes)
    PROVE  InsideForm(<< <<"FindUnfinalized", i>> >>)
<1>1. <<"FindUnfinalized", i>> \in Operations
  BY OpsMade
<1>2. <<"FindUnfinalized", i>>[1] \in Inside
  BY DEF Inside
<1>. QED  BY <1>1, <1>2, OneForm

LEMMA IdleSimulated ==
    ASSUME AgendaInv, NEW t \in Threads, Idle(t)
    PROVE  Simulates
<1>1. PICK rem \in BOOLEAN : rem = Arg(t, 2)
  BY ArgFacts DEF Idle
<1>2. At(t, "Idle") /\ "Idle" \in Inside \ {"Leave"}
  BY DEF Idle, Inside
<1>3. UNCHANGED <<queueVars, cur, cleaned, handlingIdle>>
  BY DEF Idle, historyVars
<1>. DEFINE noMore == activeSources' = {}
            s == << <<"Scan", 1, FALSE>> >>
            j == << <<"Judge", noMore, rem>> >>
<1>4. InsideForm(s) /\ InsideForm(j)
  BY NotEmptyGraph, ScanForm, JudgeForm
<1>. HIDE DEF s, j
<1>5. Then(t, LeaveOp) \/ Then(t, s) \/ Then(t, j)
  BY <1>1 DEF Idle, s, j
<1>. QED  BY <1>2, <1>3, <1>4, <1>5, LeaveForm, GoesOn

LEMMA ScanSimulated ==
    ASSUME AgendaInv, NEW t \in Threads, Scan(t)
    PROVE  Simulates
<1>1. PICK i \in 1..Len(AllNodes), b \in BOOLEAN : i = Arg(t, 2) /\ b = Arg(t, 3)
  BY ArgFacts DEF Scan
<1>. DEFINE nonempty == b \/ HasPendingInput(AllNodes[i])
            s == << <<"Scan", i + 1, nonempty>> >>
            d == Each("DrainNode", AllNodes) \o LeaveOp
            f == << <<"FindUnfinalized", 1>> >>
            r == IF i < Len(AllNodes) THEN s ELSE IF nonempty THEN d ELSE f
<1>2. At(t, "Scan") /\ Then(t, r) /\ "Scan" \in Inside \ {"Leave"}
  BY <1>1 DEF Scan, Inside
<1>3. UNCHANGED <<queueVars, cur, cleaned, handlingIdle>>
  BY DEF Scan, schedVars, historyVars
<1>4. ASSUME i < Len(AllNodes) PROVE InsideForm(s)
  <2>1. i + 1 \in 1..Len(AllNodes)
    BY <1>4, NotEmptyGraph
  <2>2. nonempty \in BOOLEAN
    BY DEF HasPendingInput
  <2>. HIDE DEF nonempty
  <2>. QED  BY <2>1, <2>2, ScanForm
<1>5. InsideForm(d)
  BY ForAll, LeavesLast
<1>6. InsideForm(f)
  BY NotEmptyGraph, FindForm
<1>. HIDE DEF s, d, f, nonempty
<1>7. InsideForm(r)
  BY <1>4, <1>5, <1>6
<1>. QED  BY <1>2, <1>3, <1>7, GoesOn

LEMMA FindUnfinalizedSimulated ==
    ASSUME AgendaInv, NEW t \in Threads, FindUnfinalized(t)
    PROVE  Simulates
<1>1. PICK i \in 1..Len(AllNodes) : i = Arg(t, 2)
  BY ArgFacts DEF FindUnfinalized
<1>2. PICK n \in Nodes : n = AllNodes[i]
  BY NotEmptyGraph
<1>. DEFINE found == AllInputsDone(n) /\ n \notin finalized
            s == AddNodeOp(n) \o LeaveOp
            f == << <<"FindUnfinalized", i + 1>> >>
            j == << <<"Judge", TRUE, FALSE>> >>
            r == IF found THEN s ELSE IF i < Len(AllNodes) THEN f ELSE j
<1>3. At(t, "FindUnfinalized") /\ Then(t, r) /\ "FindUnfinalized" \in Inside \ {"Leave"}
  BY <1>1, <1>2 DEF FindUnfinalized, Inside
<1>4. UNCHANGED <<queueVars, cur, cleaned, handlingIdle>>
  BY DEF FindUnfinalized, schedVars, historyVars
<1>5. InsideForm(s)
  <2>1. AddNodeOp(n) \in Seq(FollowOps)
    BY FollowOpsMade DEF AddNodeOp
  <2>. QED  BY <2>1, LeavesLast
<1>6. ASSUME i < Len(AllNodes) PROVE InsideForm(f)
  <2>1. i + 1 \in 1..Len(AllNodes)
    BY <1>6, NotEmptyGraph
  <2>. QED  BY <2>1, FindForm
<1>7. InsideForm(j)
  BY JudgeForm
<1>. HIDE DEF s, f, j, found
<1>8. InsideForm(r)
  BY <1>5, <1>6, <1>7
<1>. QED  BY <1>3, <1>4, <1>8, GoesOn

LEMMA JudgeSimulated ==
    ASSUME AgendaInv, NEW t \in Threads, Judge(t)
    PROVE  Simulates
<1>. DEFINE c == Each("CloseNode", AllNodes) \o << <<"Terminate">> >> \o LeaveOp
            s == EachIn("AddNode", AllNodes, activeSources) \o LeaveOp
<1>1. At(t, "Judge") /\ "Judge" \in Inside \ {"Leave"}
  BY DEF Judge, Inside
<1>2. UNCHANGED <<queueVars, cur, cleaned, handlingIdle>>
  BY DEF Judge, schedVars, historyVars
<1>3. InsideForm(c) /\ InsideForm(s)
  BY ForAll, LeavesLast
<1>. HIDE DEF c, s
<1>4. Then(t, c) \/ Then(t, s)
  BY DEF Judge, c, s
<1>. QED  BY <1>1, <1>2, <1>3, <1>4, GoesOn

LEMMA IdleStepSimulated ==
    ASSUME AgendaInv, NEW t \in Threads, IdleStep(t)
    PROVE  Simulates
BY EnterSimulated, LeaveSimulated, BeginSimulated, CheckIdleSimulated, IdleSimulated,
   ScanSimulated, FindUnfinalizedSimulated, JudgeSimulated, IdleAwaySimulated
   DEF IdleStep

-----------------------------------------------------------------------------
(* RunNode.                                                                *)

\* The operations an operation of RunNode puts in front, up to and with the
\* one that DecrementPending or the decision is.
RunOps(r, n) ==
    /\ r \in Seq(Operations)
    /\ RunForm(r, n) /\ IdleForm(r)
    /\ ~ HasIn(r, Submits) /\ ~ HasIn(r, Inside) /\ ~ HasIn(r, Deciding)

\* Ordinary operations, at the end of which HandleIdle may be entered.
CallOps(s) ==
    /\ s \in Seq(Operations) /\ Len(s) \in Nat
    /\ \A i \in 1..Len(s) : s[i] \in QuietOps \/ (s[i][1] = "Enter" /\ i = Len(s))

LEMMA CallOpsForm ==
    ASSUME NEW s, CallOps(s)
    PROVE  /\ IdleForm(s)
           /\ SubmitForm(s)
           /\ ~ HasIn(s, Submits) /\ ~ HasIn(s, Inside) /\ ~ HasIn(s, Deciding)
           /\ ~ HasIn(s, Marks)
<1>1. ASSUME NEW i \in 1..Len(s), s[i][1] \in Special PROVE s[i][1] = "Enter" /\ i = Len(s)
  BY <1>1 DEF CallOps, QuietOps
<1>2. "Enter" \notin Submits \cup Inside \cup Deciding \cup Marks
  BY DEF Submits, Inside, Deciding, Marks, Runs, Starts
<1>3. Submits \cup Inside \cup Deciding \cup Marks \cup Idles \subseteq Special
  BY DEF Special, Lasts, Idles, Marks
<1>4. \A K : K \subseteq Submits \cup Inside \cup Deciding \cup Marks => ~ HasIn(s, K)
  BY <1>1, <1>2, <1>3 DEF HasIn
<1>5. ~ HasIn(s, Submits) /\ ~ HasIn(s, Inside) /\ ~ HasIn(s, Deciding) /\ ~ HasIn(s, Marks)
  BY <1>4
<1>6. AtMostOne(s, Idles)
  BY <1>1, <1>3 DEF AtMostOne
<1>7. IdleForm(s)
  BY <1>5, <1>6 DEF IdleForm, HasIn
<1>8. SubmitForm(s)
  BY <1>5 DEF SubmitForm, HasIn, Submits
<1>. QED  BY <1>5, <1>7, <1>8

LEMMA RunOpsForm ==
    ASSUME NEW n, NEW p \in Seq(QuietOps), NEW d \in Operations, NEW s, CallOps(s),
           d[1] \in {"Finalize", "Decrement"}, d[2] = n, d[1] = "Finalize" => Len(s) = 0
    PROVE  /\ RunOps(p \o (<<d>> \o s), n)
           /\ HasIn(p \o (<<d>> \o s), Runs)
<1>. DEFINE r == p \o (<<d>> \o s)
<1>0. s \in Seq(Operations) /\ Len(s) \in Nat
  BY DEF CallOps
<1>1. /\ Len(p) \in Nat /\ Len(r) = Len(p) + 1 + Len(s)
      /\ \A i \in 1..Len(p) : r[i] = p[i] /\ p[i] \in QuietOps
  BY <1>0
<1>2. r[Len(p) + 1] = d
  <2>1. /\ <<d>> \o s \in Seq(Operations) /\ Len(<<d>> \o s) = Len(s) + 1
        /\ (<<d>> \o s)[1] = d
    BY <1>0
  <2>2. p \in Seq(Operations)
    BY QuietForm
  <2>. QED  BY <1>1, <2>1, <2>2
<1>3. ASSUME NEW i \in 1..Len(s) PROVE r[Len(p) + 1 + i] = s[i]
  <2>1. /\ <<d>> \o s \in Seq(Operations) /\ Len(<<d>> \o s) = Len(s) + 1
        /\ (<<d>> \o s)[1 + i] = s[i]
    BY <1>0
  <2>2. p \in Seq(Operations)
    BY QuietForm
  <2>. QED  BY <1>0, <1>1, <2>1, <2>2
<1>4. r \in Seq(Operations)
  <2>1. p \in Seq(Operations)
    BY QuietForm
  <2>2. <<d>> \o s \in Seq(Operations)
    BY <1>0
  <2>. QED  BY <2>1, <2>2
<1>. HIDE DEF r
<1>5. ASSUME NEW i \in 1..Len(r)
      PROVE  \/ i # Len(p) + 1 /\ r[i] \in QuietOps
             \/ i = Len(p) + 1 /\ r[i] = d
             \/ i # Len(p) + 1 /\ r[i][1] = "Enter" /\ i = Len(r)
  <2>1. CASE i \in 1..Len(p)
    BY <1>1, <2>1
  <2>2. CASE i = Len(p) + 1
    BY <1>2, <2>2
  <2>3. CASE i \notin 1..Len(p) /\ i # Len(p) + 1
    <3>1. PICK j \in 1..Len(s) : i = Len(p) + 1 + j
      <4>1. i - Len(p) - 1 \in 1..Len(s) /\ i = Len(p) + 1 + (i - Len(p) - 1)
        BY <1>0, <1>1, <2>3
      <4>. QED  BY <4>1
    <3>2. r[i] = s[j]
      BY <1>3, <3>1
    <3>3. j = Len(s) => i = Len(r)
      BY <1>0, <1>1, <3>1
    <3>. QED  BY <2>3, <3>2, <3>3 DEF CallOps
  <2>. QED  BY <2>1, <2>2, <2>3
<1>6. \A i \in 1..Len(r) : r[i] \in QuietOps => r[i][1] \notin Special
  BY DEF QuietOps
<1>7. /\ d[1] \notin Submits \cup Inside \cup Deciding \cup Starts \cup Idles
      /\ d[1] \notin {"Finished", "Process"} /\ d[1] \in Runs
  BY DEF Submits, Inside, Deciding, Starts, Idles, Runs
<1>8. /\ "Enter" \notin Submits \cup Inside \cup Deciding \cup Starts \cup Runs
      /\ "Enter" \notin {"Finished", "Process"}
  BY DEF Submits, Inside, Deciding, Starts, Runs
<1>9. /\ Submits \cup Inside \cup Deciding \cup Starts \cup Runs \cup Idles \subseteq Special
      /\ "Finished" \in Special /\ "Process" \in Special
  BY DEF Special, Lasts, Idles, Runs
<1>10. ~ HasIn(r, Submits) /\ ~ HasIn(r, Inside) /\ ~ HasIn(r, Deciding)
  BY <1>5, <1>6, <1>7, <1>8, <1>9 DEF HasIn
<1>11. ~ HasIn(r, Starts \cup {"Finished", "Process"})
  BY <1>5, <1>6, <1>7, <1>8, <1>9 DEF HasIn
<1>12. \A i \in 1..Len(r) : r[i][1] \in Runs => i = Len(p) + 1 /\ r[i] = d
  BY <1>5, <1>6, <1>8, <1>9
<1>13. \A i \in 1..Len(r) : r[i][1] \in Idles => i = Len(r)
  BY <1>5, <1>6, <1>7, <1>9
<1>14. AtMostOne(r, Runs) /\ AtMostOne(r, Idles)
  BY <1>12, <1>13 DEF AtMostOne
<1>15. IdleForm(r)
  BY <1>10, <1>14 DEF IdleForm, HasIn
<1>16. \A i \in 1..Len(r) :
          /\ r[i][1] \in Runs => r[i][2] = n
          /\ r[i][1] = "Finalize" => i = Len(r)
  <2>. SUFFICES ASSUME NEW i \in 1..Len(r), r[i][1] \in Runs
                PROVE  r[i][2] = n /\ (r[i][1] = "Finalize" => i = Len(r))
    BY DEF Runs
  <2>1. i = Len(p) + 1 /\ r[i] = d
    BY <1>12
  <2>2. Len(s) = 0 => i = Len(r)
    BY <1>1, <2>1
  <2>. QED  BY <2>1, <2>2
<1>17. RunForm(r, n)
  BY <1>11, <1>14, <1>16 DEF RunForm
<1>18. HasIn(r, Runs)
  <2>1. Len(p) + 1 \in 1..Len(r)
    BY <1>0, <1>1
  <2>. QED  BY <1>2, <1>7, <2>1 DEF HasIn
<1>. QED  BY <1>4, <1>10, <1>15, <1>17, <1>18 DEF RunOps, r

LEMMA Assoc ==
    ASSUME NEW x \in Seq(Operations), NEW y \in Seq(Operations), NEW z \in Seq(Operations)
    PROVE  (x \o y) \o z = x \o (y \o z)
BY ConcatAssociative

LEMMA PairIs ==
    ASSUME NEW S, NEW x \in S, NEW y \in S
    PROVE  <<x>> \o <<y>> = <<x, y>>
<1>. DEFINE l == <<x>> \o <<y>>
            r == <<x, y>>
<1>1. l \in Seq(S) /\ Len(l) = 2 /\ l[1] = x /\ l[2] = y
  OBVIOUS
<1>2. r \in Seq(S) /\ Len(r) = 2 /\ r[1] = x /\ r[2] = y
  OBVIOUS
<1>. HIDE DEF l, r
<1>3. \A i \in 1..Len(l) : l[i] = r[i]
  <2>1. \A i \in 1..2 : i = 1 \/ i = 2
    OBVIOUS
  <2>. QED  BY <1>1, <1>2, <2>1
<1>4. l = r
  BY <1>1, <1>2, <1>3, SeqEqual
<1>. QED  BY <1>4 DEF l, r

LEMMA TripleIs ==
    ASSUME NEW S, NEW x \in S, NEW y \in S, NEW z \in S
    PROVE  <<x>> \o <<y, z>> = <<x, y, z>>
<1>. DEFINE l == <<x>> \o <<y, z>>
            r == <<x, y, z>>
<1>1. l \in Seq(S) /\ Len(l) = 3 /\ l[1] = x /\ l[2] = y /\ l[3] = z
  OBVIOUS
<1>2. r \in Seq(S) /\ Len(r) = 3 /\ r[1] = x /\ r[2] = y /\ r[3] = z
  OBVIOUS
<1>. HIDE DEF l, r
<1>3. \A i \in 1..Len(l) : l[i] = r[i]
  <2>1. \A i \in 1..3 : i = 1 \/ i = 2 \/ i = 3
    OBVIOUS
  <2>. QED  BY <1>1, <1>2, <2>1
<1>4. l = r
  BY <1>1, <1>2, <1>3, SeqEqual
<1>. QED  BY <1>4 DEF l, r

LEMMA Pairs ==
    ASSUME NEW S, NEW x \in S, NEW y \in S, NEW z \in S
    PROVE  /\ <<x>> \o (<<y>> \o <<>>) = <<x, y>>
           /\ <<x>> \o (<<y>> \o <<z>>) = <<x, y, z>>
<1>1. <<y>> \o <<>> = <<y>>
  <2>1. <<y>> \in Seq(S)
    OBVIOUS
  <2>. QED  BY <2>1, ConcatEmptySeq
<1>2. <<y>> \o <<z>> = <<y, z>>
  BY PairIs
<1>3. <<x>> \o <<y>> = <<x, y>>
  BY PairIs
<1>4. <<x>> \o <<y, z>> = <<x, y, z>>
  BY TripleIs
<1>. QED  BY <1>1, <1>2, <1>3, <1>4

\* A step of RunNode up to DecrementPending.
LEMMA RunSimulated ==
    ASSUME AgendaInv, NEW w \in Workers, NEW k \in {"Process", "Finalize"}, At(w, k),
           NEW r, RunOps(r, cur[w]), HasIn(r, Runs), Then(w, r),
           UNCHANGED <<queueVars, cur, cleaned, handlingIdle>>
    PROVE  Simulates
<1>0. w \in Threads
  BY DEF Threads
<1>1. /\ Len(agenda[w]) > 0 /\ HeadIn(agenda[w], Runs)
      /\ ~ HeadIn(agenda[w], {"Decrement"})
  BY <1>0, AtFacts DEF HeadIn, Runs
<1>2. agenda' = [agenda EXCEPT ![w] = r \o Tail(agenda[w])]
  BY DEF Then
<1>3. /\ AgendaInv'
      /\ \A u \in Threads : u # w => agenda'[u] = agenda[u]
      /\ NotSubmitting(agenda[w]) /\ NotSubmitting(agenda'[w])
      /\ PointOf(agenda[w]) = "run"
      /\ PointOf(agenda'[w]) = IF HasIn(r, Runs) THEN "run" ELSE "post"
  BY <1>1, <1>2, RunStep DEF RunOps
<1>4. PointOf(agenda'[w]) = PointOf(agenda[w])
  BY <1>3
<1>. QED  BY <1>0, <1>3, <1>4, SQStutter

\* The node of an operation of RunNode is the one the worker runs.
LEMMA RunsCur ==
    ASSUME AgendaInv, NEW w \in Workers, NEW k \in Runs, At(w, k)
    PROVE  Arg(w, 2) = cur[w] /\ cur[w] \in Nodes
<1>0. w \in Threads
  BY DEF Threads
<1>1. Head(agenda[w]) = agenda[w][1] /\ agenda[w][1][1] = k /\ 1 \in 1..Len(agenda[w])
  BY <1>0, AtFacts, NonEmpty
<1>2. Arg(w, 2) = cur[w]
  BY <1>1 DEF AgendaInv, WorkerForm, Arg
<1>3. Arg(w, 2) \in Nodes
  BY <1>0, ArgFacts DEF Runs, NodeKinds
<1>. QED  BY <1>2, <1>3

LEMMA EmptyCallOps == CallOps(<<>>)
BY DEF CallOps

LEMMA QuietCallOps ==
    ASSUME NEW s \in Seq(QuietOps)
    PROVE  CallOps(s)
BY QuietForm DEF CallOps

LEMMA EnterCallOps ==
    ASSUME NEW s \in Seq(QuietOps), NEW b \in BOOLEAN
    PROVE  CallOps(s \o << <<"Enter", b>> >>)
<1>1. <<"Enter", b>> \in Operations
  BY OpsMade
<1>2. s \in Seq(Operations)
  BY QuietForm
<1>. DEFINE x == <<"Enter", b>>
            r == s \o <<x>>
<1>3. x \in Operations /\ x[1] = "Enter"
  BY <1>1
<1>. HIDE DEF x
<1>4. r \in Seq(Operations) /\ Len(r) \in Nat /\ Len(r) = Len(s) + 1 /\ Len(s) \in Nat
  BY <1>2, <1>3
<1>5. \A i \in 1..Len(s) : r[i] = s[i] /\ s[i] \in QuietOps
  BY <1>2, <1>3
<1>6. r[Len(r)] = x
  BY <1>2, <1>3
<1>. HIDE DEF r
<1>7. ASSUME NEW i \in 1..Len(r) PROVE r[i] \in QuietOps \/ (r[i][1] = "Enter" /\ i = Len(r))
  <2>1. i \in 1..Len(s) \/ i = Len(r)
    BY <1>4
  <2>. QED  BY <1>3, <1>5, <1>6, <2>1
<1>8. CallOps(r)
  BY <1>4, <1>7 DEF CallOps
<1>. QED  BY <1>8 DEF r, x

LEMMA ProcessSimulated ==
    ASSUME AgendaInv, NEW w \in Workers, Process(w)
    PROVE  Simulates
<1>0. w \in Threads
  BY DEF Threads
<1>. DEFINE n == cur[w]
<1>1. At(w, "Process") /\ Arg(w, 2) = n /\ n \in Nodes
  BY RunsCur DEF Process, Runs
<1>2. UNCHANGED <<queueVars, cur, cleaned, handlingIdle>>
  BY DEF Process, schedVars
<1>3. /\ n \in Producers
      /\ <<"Decrement", n>> \in Operations /\ <<"Finalize", n>> \in Operations
      /\ \A k \in Nat : << <<"PostProcess", n, k>> >> \in Seq(QuietOps)
  BY <1>1, OpsMade, QuietOpsMade DEF Producers, NodeKinds
<1>. HIDE DEF n
<1>4. CASE ProcessOk(w)
  <2>1. PICK k \in Nat : k = Emitted(w, n)
    BY DEF Emitted
  <2>. DEFINE p == << <<"PostProcess", n, k>> >>
              d == <<"Finalize", n>>
              r == p \o (<<d>> \o <<>>)
  <2>2. Then(w, << <<"PostProcess", n, k>>, <<"Finalize", n>> >>)
    BY <1>1, <1>4, <2>1 DEF ProcessOk
  <2>3. r = << <<"PostProcess", n, k>>, <<"Finalize", n>> >>
    <3>1. <<"PostProcess", n, k>> \in Operations
      BY <1>3, OpsMade
    <3>. QED  BY <1>3, <3>1, Pairs, Zenon
  <2>4. RunOps(r, n) /\ HasIn(r, Runs)
    <3>1. p \in Seq(QuietOps) /\ d \in Operations /\ d[1] = "Finalize" /\ d[2] = n
      BY <1>3
    <3>2. Len(<<>>) = 0
      OBVIOUS
    <3>. HIDE DEF p, d
    <3>. QED  BY <3>1, <3>2, EmptyCallOps, RunOpsForm
  <2>. HIDE DEF r
  <2>5. Then(w, r)
    BY <2>2, <2>3
  <2>. QED  BY <1>1, <1>2, <2>4, <2>5, RunSimulated DEF n
<1>5. CASE ProcessError(w)
  <2>1. PICK k \in Nat :
           Then(w, << <<"PostProcess", n, k>>, <<"Decrement", n>>, <<"ErrorCallback", n>> >>)
    BY <1>1, <1>5 DEF ProcessError
  <2>. DEFINE p == << <<"PostProcess", n, k>> >>
              d == <<"Decrement", n>>
              s == << <<"ErrorCallback", n>> >>
              r == p \o (<<d>> \o s)
  <2>2. r = << <<"PostProcess", n, k>>, <<"Decrement", n>>, <<"ErrorCallback", n>> >>
    <3>1. <<"PostProcess", n, k>> \in Operations /\ <<"ErrorCallback", n>> \in Operations
      BY <1>1, <1>3, OpsMade DEF NodeKinds
    <3>. QED  BY <1>3, <3>1, Pairs, Zenon
  <2>3. RunOps(r, n) /\ HasIn(r, Runs)
    <3>1. p \in Seq(QuietOps) /\ d \in Operations /\ d[1] = "Decrement" /\ d[2] = n
      BY <1>3
    <3>2. s \in Seq(QuietOps)
      BY <1>1, QuietOpsMade
    <3>. HIDE DEF p, d, s
    <3>. QED  BY <3>1, <3>2, QuietCallOps, RunOpsForm
  <2>. HIDE DEF r
  <2>4. Then(w, r)
    BY <2>1, <2>2
  <2>. QED  BY <1>1, <1>2, <2>3, <2>4, RunSimulated DEF n
<1>6. CASE ProcessStop(w)
  <2>. DEFINE a == << <<"PostProcess", n, 0>> >>
              c == CloseOutputOps(n)
              d == <<"Decrement", n>>
              e == IF n \in Sources THEN << <<"SourceStopped", n>> >>
                   ELSE << <<"Reschedule", n>> >>
              f == << <<"Enter", TRUE>> >>
              r == (a \o c) \o (<<d>> \o (e \o f))
  <2>1. Then(w, a \o c \o <<d>> \o e \o f)
    BY <1>1, <1>6 DEF ProcessStop, IdleCallbackOps
  <2>2. a \in Seq(QuietOps) /\ c \in Seq(QuietOps) /\ e \in Seq(QuietOps)
    BY <1>1, <1>3, CloseOutputType, QuietOpsMade
  <2>3. d \in Operations /\ d[1] = "Decrement" /\ d[2] = n
    BY <1>3
  <2>4. CallOps(e \o f)
    <3>. HIDE DEF e
    <3>. QED  BY <2>2, EnterCallOps
  <2>5. f \in Seq(Operations)
    <3>1. <<"Enter", TRUE>> \in Operations
      BY OpsMade
    <3>. QED  BY <3>1
  <2>. HIDE DEF a, c, d, e, f
  <2>6. a \o c \in Seq(QuietOps)
    BY <2>2
  <2>7. RunOps(r, n) /\ HasIn(r, Runs)
    BY <2>3, <2>4, <2>6, RunOpsForm
  <2>8. a \o c \o <<d>> \o e \o f = r
    <3>. DEFINE u == a \o c
                v == u \o <<d>>
    <3>1. u \in Seq(Operations) /\ e \in Seq(Operations) /\ <<d>> \in Seq(Operations)
      BY <2>2, <2>3, <2>6, QuietForm
    <3>2. e \o f \in Seq(Operations)
      BY <2>5, <3>1
    <3>. HIDE DEF u
    <3>3. v \in Seq(Operations)
      BY <3>1
    <3>4. v \o (e \o f) = u \o (<<d>> \o (e \o f))
      BY <3>1, <3>2, Assoc
    <3>. HIDE DEF v
    <3>5. (v \o e) \o f = v \o (e \o f)
      BY <2>5, <3>1, <3>3, Assoc
    <3>. QED  BY <3>4, <3>5 DEF u, v
  <2>. HIDE DEF r
  <2>9. Then(w, r)
    BY <2>1, <2>8
  <2>. QED  BY <1>1, <1>2, <2>7, <2>9, RunSimulated DEF n
<1>. QED  BY <1>4, <1>5, <1>6 DEF Process

LEMMA AfterFinalizeForm ==
    ASSUME NEW n \in Nodes, NEW action \in {"None", "Schedule", "Close"}
    PROVE  RunOps(AfterFinalize(n, action), n) /\ HasIn(AfterFinalize(n, action), Runs)
<1>. DEFINE d == <<"Decrement", n>>
            c == CASE action = "Close"    -> CloseOutputOps(n)
                   [] action = "Schedule" -> AddNodeOp(n)
                   [] action = "None"     -> <<>>
            e == IF n \in Sources THEN AddNodeOp(n) ELSE << <<"Reschedule", n>> >>
            g == If(n \notin Sources /\ action # "Schedule", << <<"SafetyNet", n>> >>)
            s == c \o (e \o g)
            r == <<>> \o (<<d>> \o s)
<1>1. d \in Operations /\ d[1] = "Decrement" /\ d[2] = n
  BY OpsMade DEF NodeKinds
<1>2. /\ CloseOutputOps(n) \in Seq(QuietOps) /\ AddNodeOp(n) \in Seq(QuietOps)
      /\ <<>> \in Seq(QuietOps)
  BY CloseOutputType, AddNodeType DEF Producers
<1>3. << <<"Reschedule", n>> >> \in Seq(QuietOps) /\ << <<"SafetyNet", n>> >> \in Seq(QuietOps)
  BY QuietOpsMade
<1>4. c \in Seq(QuietOps)
  BY <1>2
<1>5. e \in Seq(QuietOps)
  BY <1>2, <1>3
<1>6. g \in Seq(QuietOps)
  BY <1>3, IfType
<1>7. AfterFinalize(n, action) = ((<<d>> \o c) \o e) \o g
  BY DEF AfterFinalize
<1>. HIDE DEF d, c, e, g
<1>8. s \in Seq(QuietOps) /\ e \o g \in Seq(QuietOps)
  BY <1>4, <1>5, <1>6
<1>9. RunOps(r, n) /\ HasIn(r, Runs)
  <2>1. CallOps(s)
    BY <1>8, QuietCallOps
  <2>. HIDE DEF s
  <2>. QED  BY <1>1, <1>2, <2>1, RunOpsForm
<1>10. ((<<d>> \o c) \o e) \o g = <<d>> \o s
  <2>. DEFINE u == <<d>> \o c
  <2>1. /\ <<d>> \in Seq(Operations) /\ c \in Seq(Operations) /\ e \in Seq(Operations)
        /\ g \in Seq(Operations) /\ e \o g \in Seq(Operations)
    BY <1>1, <1>4, <1>5, <1>6, <1>8, QuietForm
  <2>2. u \in Seq(Operations)
    BY <2>1
  <2>3. u \o (e \o g) = <<d>> \o s
    <3>. DEFINE v == e \o g
    <3>. HIDE DEF v
    <3>1. v \in Seq(Operations)
      BY <2>1 DEF v
    <3>2. u \o v = <<d>> \o (c \o v)
      BY <2>1, <3>1, Assoc
    <3>. QED  BY <3>2 DEF v
  <2>. HIDE DEF u
  <2>4. (u \o e) \o g = u \o (e \o g)
    BY <2>1, <2>2, Assoc
  <2>. QED  BY <2>3, <2>4 DEF u
<1>11. r = <<d>> \o s
  <2>1. <<d>> \o s \in Seq(Operations)
    BY <1>1, <1>8, QuietForm
  <2>. HIDE DEF s
  <2>. QED  BY <2>1, ConcatEmptySeq
<1>. HIDE DEF r, s
<1>. QED  BY <1>7, <1>9, <1>10, <1>11

LEMMA FinalizeSimulated ==
    ASSUME AgendaInv, NEW w \in Workers, Finalize(w)
    PROVE  Simulates
<1>1. At(w, "Finalize") /\ Arg(w, 2) = cur[w] /\ cur[w] \in Nodes
  BY RunsCur DEF Finalize, Runs
<1>2. UNCHANGED <<queueVars, cur, cleaned, handlingIdle>>
  BY DEF Finalize, schedVars, historyVars
<1>3. PICK action \in {"None", "Schedule", "Close"} : Then(w, AfterFinalize(cur[w], action))
  BY <1>1 DEF Finalize
<1>. QED  BY <1>1, <1>2, <1>3, AfterFinalizeForm, RunSimulated

LEMMA DecrementSimulated ==
    ASSUME AgendaInv, NEW w \in Workers, Decrement(w)
    PROVE  Simulates
<1>0. w \in Threads
  BY DEF Threads
<1>1. At(w, "Decrement") /\ Arg(w, 2) = cur[w] /\ cur[w] \in Nodes
  BY RunsCur DEF Decrement, Runs
<1>2. /\ DecrementPending(cur[w])
      /\ cur' = cur /\ cleaned' = cleaned /\ handlingIdle' = handlingIdle
  BY <1>1 DEF Decrement, schedVars, historyVars
<1>3. Len(agenda[w]) > 0 /\ HeadIn(agenda[w], Runs)
  BY <1>0, <1>1, AtFacts DEF HeadIn, Runs
<1>. DEFINE r == <<>>
<1>4. agenda' = [agenda EXCEPT ![w] = r \o Tail(agenda[w])]
  BY DEF Decrement, Then
<1>5. r \in Seq(Operations) /\ Len(r) = 0
  OBVIOUS
<1>. HIDE DEF r
<1>6. \A K : ~ HasIn(r, K)
  BY <1>5 DEF HasIn
<1>7. RunForm(r, cur[w]) /\ IdleForm(r)
  BY <1>5, <1>6, IdleFormOfOthers DEF RunForm, AtMostOne
<1>8. /\ AgendaInv'
      /\ \A u \in Threads : u # w => agenda'[u] = agenda[u]
      /\ NotSubmitting(agenda[w]) /\ NotSubmitting(agenda'[w])
      /\ PointOf(agenda[w]) = "run"
      /\ PointOf(agenda'[w]) = IF HasIn(r, Runs) THEN "run" ELSE "post"
  BY <1>2, <1>3, <1>4, <1>5, <1>6, <1>7, RunStep
<1>9. BarStep(w)
  BY <1>0, <1>8, BarMoves
<1>10. /\ TargetOf(agenda[w], "Count") = NoQueue /\ TargetOf(agenda'[w], "Count") = NoQueue
       /\ TargetOf(agenda[w], "Send") = NoQueue /\ TargetOf(agenda'[w], "Send") = NoQueue
  BY <1>8 DEF NotSubmitting, Submits
<1>11. PointOf(agenda'[w]) = "post"
  BY <1>6, <1>8
<1>12. /\ counting[w] = NoQueue /\ sending[w] = NoQueue
       /\ counting' = counting /\ sending' = sending
       /\ pc[w] = "run" /\ pc' = [pc EXCEPT ![w] = "post"]
  BY <1>8, <1>9, <1>10, <1>11 DEF BarStep
<1>13. SQ!DecrementPending(cur[w])
  BY <1>2 DEF DecrementPending, SQ!DecrementPending
<1>14. SQ!EndProcess(w)
  BY <1>2, <1>12, <1>13 DEF SQ!EndProcess, SQ!Submitting
<1>15. SQ!Next
  BY <1>14 DEF SQ!Next, SQ!WorkerStep
<1>. QED  BY <1>8, <1>15 DEF Simulates

-----------------------------------------------------------------------------
(* RunNextTask.                                                            *)

LEMMA LastIs ==
    ASSUME NEW S, NEW x \in S, NEW y \in S, NEW z \in S
    PROVE  /\ <<x, y>> \o <<z>> = <<x, y, z>>
           /\ <<>> \o <<z>> = <<z>>
<1>1. <<z>> \in Seq(S)
  OBVIOUS
<1>2. <<>> \o <<z>> = <<z>>
  BY <1>1, ConcatEmptySeq
<1>. DEFINE l == <<x, y>> \o <<z>>
            r == <<x, y, z>>
<1>3. l \in Seq(S) /\ Len(l) = 3 /\ l[1] = x /\ l[2] = y /\ l[3] = z
  OBVIOUS
<1>4. r \in Seq(S) /\ Len(r) = 3 /\ r[1] = x /\ r[2] = y /\ r[3] = z
  OBVIOUS
<1>. HIDE DEF l, r
<1>5. \A i \in 1..Len(l) : l[i] = r[i]
  <2>1. \A i \in 1..3 : i = 1 \/ i = 2 \/ i = 3
    OBVIOUS
  <2>. QED  BY <1>3, <1>4, <2>1
<1>6. l = r
  BY <1>3, <1>4, <1>5, SeqEqual
<1>. QED  BY <1>2, <1>6 DEF l, r

\* A worker at the last operation of its agenda.
LEMMA Alone ==
    ASSUME AgendaInv, NEW w \in Workers, NEW k \in Starts \cup {"Finished"}, At(w, k)
    PROVE  /\ Len(agenda[w]) > 0 /\ ~ (Len(agenda[w]) > 1)
           /\ HeadIn(agenda[w], {"Finished"} \cup Starts)
           /\ PointOf(agenda[w]) =
                IF k = "TryPop" THEN "pop" ELSE IF k = "NoItem" THEN "empty" ELSE "post"
           /\ k # "Finished" => cur[w] = NoNode
           /\ \A r \in Seq(Operations) :
                Then(w, r) => agenda' = [agenda EXCEPT ![w] = r]
<1>. DEFINE a == agenda[w]
<1>0. w \in Threads
  BY DEF Threads
<1>1. /\ a \in Seq(Operations) /\ a # <<>> /\ Len(a) > 0 /\ a[1][1] = k
      /\ WorkerForm(a, cur[w])
  BY <1>0, AtFacts DEF AgendaInv
<1>. HIDE DEF a
<1>2. Len(a) \in Nat /\ 1 \in 1..Len(a)
  BY <1>1, NonEmpty
<1>3. ~ (Len(a) > 1)
  <2>1. CASE k = "Finished"
    <3>1. PICK m \in Nat : m = Len(a)
      BY <1>2
    <3>2. 1 = m
      BY <1>1, <1>2, <2>1, <3>1 DEF WorkerForm
    <3>3. ~ (m > 1)
      BY <3>2
    <3>. QED  BY <3>1, <3>3
  <2>2. CASE k \in Starts
    BY <1>1, <1>2, <2>2 DEF WorkerForm
  <2>. QED  BY <2>1, <2>2
<1>4. \A i \in 1..Len(a) : i = 1
  BY <1>2, <1>3
<1>5. \A K : HasIn(a, K) <=> k \in K
  BY <1>1, <1>2, <1>4 DEF HasIn
<1>6. k # "Finished" => cur[w] = NoNode
  BY <1>1, <1>5 DEF WorkerForm
<1>7. PointOf(a) = IF k = "TryPop" THEN "pop" ELSE IF k = "NoItem" THEN "empty" ELSE "post"
  BY <1>1, <1>5 DEF PointOf, Starts, Runs
<1>8. ASSUME NEW r \in Seq(Operations), Then(w, r)
      PROVE  agenda' = [agenda EXCEPT ![w] = r]
  <2>1. Tail(a) = <<>>
    <3>1. Tail(a) \in Seq(Operations) /\ Len(Tail(a)) = Len(a) - 1
      BY <1>1, EmptySeq
    <3>2. Len(Tail(a)) = 0
      BY <1>1, <1>2, <1>3, <3>1
    <3>. QED  BY <3>1, <3>2, EmptySeq
  <2>2. r \o Tail(a) = r
    BY <2>1, ConcatEmptySeq
  <2>. QED  BY <1>8, <2>2 DEF Then, a
<1>. QED  BY <1>1, <1>3, <1>6, <1>7, <1>8 DEF a, HeadIn

\* Worker w, at the last operation of its agenda or without one, goes on
\* with b.
LEMMA WorkerMoves ==
    ASSUME AgendaInv, NEW w \in Workers, NEW b \in Seq(Operations),
           agenda' = [agenda EXCEPT ![w] = b],
           ~ (Len(agenda[w]) > 1),
           Len(agenda[w]) > 0 => HeadIn(agenda[w], {"Finished"} \cup Starts),
           handlingIdle' = handlingIdle,
           \A v \in Workers : v # w => cur'[v] = cur[v],
           WorkerForm(b, cur'[w]),
           SubmitForm(b), IdleForm(b), ~ HasIn(b, Inside), ~ HasIn(b, Deciding),
           TargetOf(b, "Send") = NoQueue
    PROVE  /\ AgendaInv'
           /\ pc[w] = PointOf(agenda[w]) /\ pc' = [pc EXCEPT ![w] = PointOf(b)]
           /\ counting[w] = NoQueue /\ sending[w] = NoQueue
           /\ counting' = [counting EXCEPT ![w] = TargetOf(b, "Count")]
           /\ TargetOf(b, "Count") = NoQueue => counting' = counting
           /\ sending' = sending
<1>0. w \in Threads
  BY DEF Threads
<1>1. /\ AgendaInv'
      /\ agenda'[w] = b
      /\ \A u \in Threads : u # w => agenda'[u] = agenda[u]
      /\ NotSubmitting(agenda[w])
  BY <1>0, FreshStep
<1>2. BarStep(w)
  BY <1>0, <1>1, BarMoves
<1>3. TargetOf(agenda[w], "Count") = NoQueue /\ TargetOf(agenda[w], "Send") = NoQueue
  BY <1>1 DEF NotSubmitting, Submits
<1>. QED  BY <1>1, <1>2, <1>3 DEF BarStep

\* An agenda of one operation that submits nothing.
LEMMA SingleForm ==
    ASSUME NEW k \in Starts \cup {"Enter"}, NEW x \in Operations, x[1] = k
    PROVE  /\ <<x>> \in Seq(Operations)
           /\ WorkerForm(<<x>>, NoNode)
           /\ SubmitForm(<<x>>) /\ IdleForm(<<x>>)
           /\ ~ HasIn(<<x>>, Inside) /\ ~ HasIn(<<x>>, Deciding)
           /\ TargetOf(<<x>>, "Send") = NoQueue /\ TargetOf(<<x>>, "Count") = NoQueue
           /\ PointOf(<<x>>) =
                IF k = "TryPop" THEN "pop" ELSE IF k = "NoItem" THEN "empty" ELSE "idle"
<1>. DEFINE b == <<x>>
<1>1. b \in Seq(Operations) /\ Len(b) = 1 /\ b[1] = x
  OBVIOUS
<1>. HIDE DEF b
<1>2. \A i \in 1..Len(b) : i = 1
  BY <1>1
<1>3. \A K : HasIn(b, K) <=> k \in K
  BY <1>1, <1>2 DEF HasIn
<1>4. k \notin Inside \cup Deciding \cup Runs \cup Submits /\ k # "Finished" /\ k \in Lasts
  BY DEF Inside, Deciding, Runs, Submits, Starts, Lasts, Idles
<1>5. \A K : AtMostOne(b, K)
  BY <1>2 DEF AtMostOne
<1>6. IdleForm(b) /\ ~ HasIn(b, Inside) /\ ~ HasIn(b, Deciding)
  BY <1>1, <1>2, <1>3, <1>4, <1>5 DEF IdleForm
<1>7. SubmitForm(b)
  BY <1>1, <1>2, <1>4 DEF SubmitForm, Submits
<1>8. TargetOf(b, "Send") = NoQueue /\ TargetOf(b, "Count") = NoQueue
  BY <1>1, <1>4 DEF TargetOf, Submits
<1>9. PointOf(b) = IF k = "TryPop" THEN "pop" ELSE IF k = "NoItem" THEN "empty" ELSE "idle"
  BY <1>1, <1>3, <1>4 DEF PointOf, Starts
<1>10. WorkerForm(b, NoNode)
  <2>1. ~ HasIn(b, Runs) /\ ~ HasIn(b, {"Finished"})
    BY <1>3, <1>4
  <2>2. \A i \in 1..Len(b) :
           /\ b[i][1] \notin Runs /\ b[i][1] # "Finished"
           /\ b[i][1] \notin {"Process", "Finalize"}
           /\ ~ (Len(b) > 1)
    BY <1>1, <1>2, <1>4 DEF Runs
  <2>3. b[Len(b)][1] \in Lasts
    BY <1>1, <1>4
  <2>. QED  BY <1>5, <2>1, <2>2, <2>3 DEF WorkerForm
<1>. QED  BY <1>1, <1>6, <1>7, <1>8, <1>9, <1>10 DEF b

LEMMA TakeTaskSimulated ==
    ASSUME AgendaInv, NEW w \in Workers, TakeTask(w)
    PROVE  Simulates
<1>. DEFINE x == <<"TryPop">>
            b == <<x>>
<1>0. w \in Threads /\ x \in Operations /\ x[1] = "TryPop" /\ x[1] \in Starts
  BY OpsMade DEF Threads, PlainKinds, Starts
<1>1. /\ agenda[w] = <<>> /\ agenda' = [agenda EXCEPT ![w] = b]
      /\ DequeueTask(WorkerQueue[w])
      /\ cur' = cur /\ cleaned' = cleaned /\ handlingIdle' = handlingIdle
  BY DEF TakeTask, schedVars, historyVars
<1>. HIDE DEF x
<1>2. Len(agenda[w]) = 0
  BY <1>1
<1>3. cur[w] = NoNode /\ PointOf(agenda[w]) = "wait"
  <2>1. WorkerForm(agenda[w], cur[w])
    BY DEF AgendaInv
  <2>2. ~ HasIn(agenda[w], {"Finished"})
    BY <1>2 DEF HasIn
  <2>. QED  BY <1>2, <2>1, <2>2 DEF WorkerForm, PointOf
<1>4. /\ b \in Seq(Operations)
      /\ WorkerForm(b, NoNode) /\ SubmitForm(b) /\ IdleForm(b)
      /\ ~ HasIn(b, Inside) /\ ~ HasIn(b, Deciding)
      /\ TargetOf(b, "Send") = NoQueue /\ TargetOf(b, "Count") = NoQueue
      /\ PointOf(b) = "pop"
  BY <1>0, SingleForm
<1>. HIDE DEF b
<1>5. ~ (Len(agenda[w]) > 1) /\ ~ (Len(agenda[w]) > 0)
  BY <1>2
<1>6. WorkerForm(b, cur'[w])
  BY <1>1, <1>3, <1>4
<1>7. /\ AgendaInv'
      /\ pc[w] = PointOf(agenda[w]) /\ pc' = [pc EXCEPT ![w] = PointOf(b)]
      /\ TargetOf(b, "Count") = NoQueue => counting' = counting
      /\ sending' = sending
  BY <1>1, <1>4, <1>5, <1>6, WorkerMoves
<1>8. SQ!DequeueTask(WorkerQueue[w])
  BY <1>1 DEF DequeueTask, SQ!DequeueTask
<1>9. SQ!TakeTask(w)
  BY <1>1, <1>3, <1>4, <1>7, <1>8 DEF SQ!TakeTask
<1>10. SQ!Next
  BY <1>9 DEF SQ!Next, SQ!WorkerStep
<1>. QED  BY <1>7, <1>10 DEF Simulates

\* The agenda of a worker that has popped an item of node n.
LEMMA PoppedForm ==
    ASSUME NEW n \in Nodes, NEW p \in Seq(QuietOps)
    PROVE  LET b == p \o << <<"Process", n>>, <<"Finished">> >>
           IN  /\ b \in Seq(Operations)
               /\ WorkerForm(b, n)
               /\ SubmitForm(b) /\ IdleForm(b)
               /\ ~ HasIn(b, Inside) /\ ~ HasIn(b, Deciding)
               /\ TargetOf(b, "Send") = NoQueue /\ TargetOf(b, "Count") = NoQueue
               /\ PointOf(b) = "run"
<1>. DEFINE x == <<"Process", n>>
            y == <<"Finished">>
            b == p \o <<x, y>>
<1>1. /\ x \in Operations /\ x[1] = "Process" /\ x[2] = n
      /\ y \in Operations /\ y[1] = "Finished"
  BY OpsMade DEF NodeKinds, PlainKinds
<1>. HIDE DEF x, y
<1>2. p \in Seq(Operations) /\ Len(p) \in Nat /\ \A i \in 1..Len(p) : p[i] \in QuietOps
  BY QuietForm
<1>3. /\ b \in Seq(Operations) /\ Len(b) = Len(p) + 2
      /\ \A i \in 1..Len(p) : b[i] = p[i]
      /\ b[Len(p) + 1] = x /\ b[Len(p) + 2] = y
  <2>1. <<x, y>> \in Seq(Operations) /\ Len(<<x, y>>) = 2 /\ <<x, y>>[1] = x /\ <<x, y>>[2] = y
    BY <1>1
  <2>. QED  BY <1>2, <2>1
<1>. HIDE DEF b
<1>4. ASSUME NEW i \in 1..Len(b)
      PROVE  \/ b[i][1] \notin Special /\ i # Len(b)
             \/ i = Len(p) + 1 /\ b[i] = x
             \/ i = Len(b) /\ b[i] = y
  <2>1. CASE i \in 1..Len(p)
    <3>1. b[i] \in QuietOps /\ i # Len(b)
      BY <1>2, <1>3, <2>1
    <3>. QED  BY <3>1 DEF QuietOps
  <2>2. CASE i \notin 1..Len(p)
    <3>1. i = Len(p) + 1 \/ i = Len(p) + 2
      BY <1>2, <1>3, <2>2
    <3>. QED  BY <1>3, <3>1
  <2>. QED  BY <2>1, <2>2
<1>5. /\ Runs \cup Submits \cup Inside \cup Deciding \cup Starts \cup Idles \subseteq Special
      /\ "Finished" \in Special /\ "Process" \in Special /\ "Finalize" \in Special
  BY DEF Special, Lasts, Idles, Runs
<1>6. /\ {"Process", "Finished"} \cap (Submits \cup Inside \cup Deciding \cup Starts \cup Idles) = {}
      /\ "Finished" \notin Runs /\ "Process" \in Runs /\ "Finished" \in Lasts
  BY DEF Submits, Inside, Deciding, Starts, Idles, Runs, Lasts
<1>7. \A i \in 1..Len(b) : b[i][1] \notin Submits \cup Inside \cup Deciding \cup Starts \cup Idles
  BY <1>1, <1>4, <1>5, <1>6
<1>8. \A i \in 1..Len(b) :
         /\ b[i][1] \in Runs => i = Len(p) + 1 /\ b[i] = x
         /\ b[i][1] = "Finished" => i = Len(b)
  BY <1>1, <1>4, <1>5, <1>6
<1>9. /\ Len(b) \in Nat /\ Len(b) > 0 /\ 1 \in 1..Len(b) /\ Len(b) \in 1..Len(b)
      /\ Len(p) + 1 \in 1..Len(b) /\ Len(p) + 1 >= Len(b) - 1 /\ b[Len(b)] = y
  BY <1>2, <1>3
<1>10. HasIn(b, Runs) /\ HasIn(b, {"Finished"})
  BY <1>1, <1>3, <1>6, <1>9 DEF HasIn
<1>11. ~ HasIn(b, Inside) /\ ~ HasIn(b, Deciding) /\ IdleForm(b)
  BY <1>7 DEF HasIn, IdleForm, AtMostOne
<1>12. SubmitForm(b)
  BY <1>7 DEF SubmitForm, Submits
<1>13. TargetOf(b, "Send") = NoQueue /\ TargetOf(b, "Count") = NoQueue
  BY <1>7, <1>9 DEF TargetOf, Submits
<1>14. PointOf(b) = "run"
  BY <1>7, <1>9, <1>10 DEF PointOf, Starts
<1>15. WorkerForm(b, n)
  <2>1. AtMostOne(b, Runs)
    BY <1>8 DEF AtMostOne
  <2>2. ASSUME NEW i \in 1..Len(b)
        PROVE  /\ b[i][1] \in Runs => b[i][2] = n
               /\ b[i][1] = "Finished" => i = Len(b)
               /\ b[i][1] \in {"Process", "Finalize"} => i >= Len(b) - 1
               /\ b[i][1] \notin Starts
    <3>1. b[i][1] \in {"Process", "Finalize"} => i >= Len(b) - 1
      BY <1>8, <1>9 DEF Runs
    <3>. QED  BY <1>1, <1>7, <1>8, <3>1
  <2>. QED  BY <1>1, <1>6, <1>9, <1>10, <2>1, <2>2 DEF WorkerForm
<1>. QED  BY <1>3, <1>11, <1>12, <1>13, <1>14, <1>15 DEF b, x, y

\* The priority order is the same.
LEMMA SamePop ==
    ASSUME NEW n
    PROVE  SQ!PopItem(n) <=> PopItem(n)
<1>1. \A m : SQ!Item(m) = Item(m)
  BY DEF Item, SQ!Item
<1>2. \A x, y : SQ!ItemLess(x, y) <=> ItemLess(x, y)
  BY Zenon DEF ItemLess, SQ!ItemLess
<1>3. \A q : SQ!Queued(q) = Queued(q)
  BY DEF Queued, SQ!Queued, NodesOf, SQ!NodesOf
<1>4. \A q : SQ!IsTop(q, n) <=> IsTop(q, n)
  BY <1>1, <1>2, <1>3 DEF IsTop, SQ!IsTop
<1>. QED  BY <1>4 DEF PopItem, SQ!PopItem

LEMMA TryPopSimulated ==
    ASSUME AgendaInv, NEW w \in Workers, TryPop(w), cur \in [Workers -> Nodes \cup {NoNode}]
    PROVE  Simulates
<1>0. w \in Threads
  BY DEF Threads
<1>1. At(w, "TryPop") /\ "TryPop" \in Starts
  BY DEF TryPop, Starts
<1>2. /\ Len(agenda[w]) > 0 /\ ~ (Len(agenda[w]) > 1)
      /\ HeadIn(agenda[w], {"Finished"} \cup Starts)
      /\ PointOf(agenda[w]) = "pop"
      /\ cur[w] = NoNode
      /\ \A r \in Seq(Operations) : Then(w, r) => agenda' = [agenda EXCEPT ![w] = r]
  BY <1>1, Alone, Zenon
<1>3. cleaned' = cleaned /\ handlingIdle' = handlingIdle
  BY DEF TryPop, schedVars, historyVars
<1>4. ASSUME NEW n \in NodesOf(WorkerQueue[w]), PopItem(n), cur' = [cur EXCEPT ![w] = n],
             Then(w, Each("PopQueueHead", InputPorts[n]) \o << <<"Process", n>>, <<"Finished">> >>)
      PROVE  Simulates
  <2>. DEFINE p == Each("PopQueueHead", InputPorts[n])
              b == p \o << <<"Process", n>>, <<"Finished">> >>
  <2>1. n \in Nodes
    BY DEF NodesOf
  <2>2. p \in Seq(QuietOps)
    <3>1. InputPorts[n] \in Seq(Edges)
      BY <2>1, GraphAssumption
    <3>2. \A e \in Edges : <<"PopQueueHead", e>> \in QuietOps
      BY QuietOpsMade
    <3>. QED  BY <3>1, <3>2, EachType
  <2>. HIDE DEF p
  <2>3. /\ b \in Seq(Operations)
        /\ WorkerForm(b, n) /\ SubmitForm(b) /\ IdleForm(b)
        /\ ~ HasIn(b, Inside) /\ ~ HasIn(b, Deciding)
        /\ TargetOf(b, "Send") = NoQueue /\ TargetOf(b, "Count") = NoQueue
        /\ PointOf(b) = "run"
    BY <2>1, <2>2, PoppedForm
  <2>4. Then(w, b)
    BY <1>4 DEF p
  <2>. HIDE DEF b
  <2>5. agenda' = [agenda EXCEPT ![w] = b]
    BY <1>2, <2>3, <2>4
  <2>6. cur'[w] = n /\ \A v \in Workers : v # w => cur'[v] = cur[v]
    BY <1>4
  <2>7. /\ AgendaInv'
        /\ pc[w] = PointOf(agenda[w]) /\ pc' = [pc EXCEPT ![w] = PointOf(b)]
        /\ TargetOf(b, "Count") = NoQueue => counting' = counting
        /\ sending' = sending
    BY <1>2, <1>3, <2>3, <2>5, <2>6, WorkerMoves
  <2>8. SQ!PopItem(n)
    BY <1>4, SamePop
  <2>9. n \in SQ!NodesOf(WorkerQueue[w])
    BY DEF NodesOf, SQ!NodesOf
  <2>10. SQ!TryPop(w)
    BY <1>2, <1>3, <1>4, <2>3, <2>7, <2>8, <2>9 DEF SQ!TryPop
  <2>11. SQ!Next
    BY <2>10 DEF SQ!Next, SQ!WorkerStep
  <2>. QED  BY <2>7, <2>11 DEF Simulates
<1>5. ASSUME Queued(WorkerQueue[w]) = {}, Then(w, << <<"NoItem">> >>), UNCHANGED <<queueVars, cur>>
      PROVE  Simulates
  <2>. DEFINE x == <<"NoItem">>
              b == <<x>>
  <2>1. x \in Operations /\ x[1] = "NoItem" /\ "NoItem" \in Starts
    BY OpsMade DEF PlainKinds, Starts
  <2>2. Then(w, b)
    BY <1>5
  <2>. HIDE DEF x
  <2>3. /\ b \in Seq(Operations)
        /\ WorkerForm(b, NoNode) /\ SubmitForm(b) /\ IdleForm(b)
        /\ ~ HasIn(b, Inside) /\ ~ HasIn(b, Deciding)
        /\ TargetOf(b, "Send") = NoQueue /\ TargetOf(b, "Count") = NoQueue
        /\ PointOf(b) = "empty"
    BY <2>1, SingleForm
  <2>. HIDE DEF b
  <2>4. agenda' = [agenda EXCEPT ![w] = b]
    BY <1>2, <2>2, <2>3
  <2>5. WorkerForm(b, cur'[w]) /\ \A v \in Workers : v # w => cur'[v] = cur[v]
    BY <1>2, <1>5, <2>3
  <2>6. /\ AgendaInv'
        /\ pc[w] = PointOf(agenda[w]) /\ pc' = [pc EXCEPT ![w] = PointOf(b)]
        /\ TargetOf(b, "Count") = NoQueue => counting' = counting
        /\ sending' = sending
    BY <1>2, <1>3, <2>3, <2>4, <2>5, WorkerMoves
  <2>7. SQ!Queued(WorkerQueue[w]) = {}
    BY <1>5 DEF Queued, SQ!Queued, NodesOf, SQ!NodesOf
  <2>8. UNCHANGED SQ!queueVars
    BY <1>5 DEF queueVars, SQ!queueVars
  <2>9. SQ!TryPopFails(w)
    BY <1>2, <1>3, <1>5, <2>3, <2>6, <2>7, <2>8 DEF SQ!TryPopFails
  <2>10. SQ!Next
    BY <2>9 DEF SQ!Next, SQ!WorkerStep
  <2>. QED  BY <2>6, <2>10 DEF Simulates
<1>. QED  BY <1>4, <1>5 DEF TryPop

\* The agenda of a worker whose task is finished: it may submit another one,
\* and then calls the idle callback.
LEMMA FinishedForm ==
    ASSUME NEW q \in Queues, NEW c \in BOOLEAN
    PROVE  LET b == If(c, SubmitOps(q)) \o IdleCallbackOps
           IN  /\ b \in Seq(Operations)
               /\ WorkerForm(b, NoNode)
               /\ SubmitForm(b) /\ IdleForm(b)
               /\ ~ HasIn(b, Inside) /\ ~ HasIn(b, Deciding)
               /\ TargetOf(b, "Send") = NoQueue
               /\ TargetOf(b, "Count") = IF c /\ q \in WithExecutor THEN q ELSE NoQueue
               /\ PointOf(b) = "idle"
<1>. DEFINE x == <<"Count", q>>
            y == <<"Send", q>>
            z == <<"Enter", TRUE>>
<1>1. x \in Operations /\ y \in Operations /\ z \in Operations
  BY OpsMade DEF QueueKinds
<1>2. CASE c /\ q \in WithExecutor
  <2>. DEFINE b == <<x, y, z>>
  <2>1. If(c, SubmitOps(q)) \o IdleCallbackOps = b
    <3>1. If(c, SubmitOps(q)) = <<x, y>>
      BY <1>2 DEF If, SubmitOps
    <3>2. IdleCallbackOps = <<z>>
      BY DEF IdleCallbackOps
    <3>. HIDE DEF x, y, z
    <3>. QED  BY <1>1, <3>1, <3>2, LastIs
  <2>2. b \in Seq(Operations)
    BY <1>1
  <2>3. /\ Len(b) = 3
        /\ b[1][1] = "Count" /\ b[1][2] = q /\ b[2] = <<"Send", q>> /\ b[2][1] = "Send"
        /\ b[3][1] = "Enter"
    OBVIOUS
  <2>. HIDE DEF b
  <2>4. \A i \in 1..Len(b) : i = 1 \/ i = 2 \/ i = 3
    BY <2>3
  <2>5. \A i \in 1..Len(b) : b[i][1] \in {"Count", "Send", "Enter"}
    BY <2>3, <2>4
  <2>6. ASSUME NEW K, K \cap {"Count", "Send", "Enter"} = {}
        PROVE  ~ HasIn(b, K)
    BY <2>5, <2>6, Zenon DEF HasIn
  <2>7. /\ Runs \cap {"Count", "Send", "Enter"} = {}
        /\ Starts \cap {"Count", "Send", "Enter"} = {}
        /\ {"Finished"} \cap {"Count", "Send", "Enter"} = {}
        /\ Inside \cap {"Count", "Send", "Enter"} = {}
        /\ Deciding \cap {"Count", "Send", "Enter"} = {}
    BY DEF Runs, Starts, Inside, Deciding
  <2>8. /\ ~ HasIn(b, Runs) /\ ~ HasIn(b, {"Finished"}) /\ ~ HasIn(b, Inside)
        /\ ~ HasIn(b, Deciding) /\ ~ HasIn(b, Starts)
    BY <2>6, <2>7, Zenon
  <2>9. SubmitForm(b)
    BY <2>3, <2>4 DEF SubmitForm
  <2>10. IdleForm(b)
    <3>0. "Count" \notin Idles /\ "Send" \notin Idles
      BY DEF Idles, Inside
    <3>1. \A i \in 1..Len(b) : b[i][1] \in Idles => i = 3
      BY <2>3, <2>4, <3>0
    <3>. QED  BY <2>8, <3>1 DEF IdleForm, AtMostOne, HasIn
  <2>11. WorkerForm(b, NoNode)
    <3>1. AtMostOne(b, Runs)
      BY <2>8 DEF AtMostOne, HasIn
    <3>2. \A i \in 1..Len(b) :
             /\ b[i][1] \notin Runs /\ b[i][1] # "Finished"
             /\ b[i][1] \notin {"Process", "Finalize"} /\ b[i][1] \notin Starts
      BY <2>8 DEF HasIn, Runs
    <3>3. b[Len(b)][1] \in Lasts
      BY <2>3 DEF Lasts, Idles
    <3>. QED  BY <2>8, <3>1, <3>2, <3>3 DEF WorkerForm
  <2>12. /\ TargetOf(b, "Send") = NoQueue /\ TargetOf(b, "Count") = q
         /\ PointOf(b) = "idle"
    BY <2>3, <2>8 DEF TargetOf, PointOf
  <2>. QED  BY <1>2, <2>1, <2>2, <2>8, <2>9, <2>10, <2>11, <2>12
<1>3. CASE ~ (c /\ q \in WithExecutor)
  <2>1. If(c, SubmitOps(q)) \o IdleCallbackOps = <<z>>
    <3>1. If(c, SubmitOps(q)) = <<>>
      BY <1>3 DEF If, SubmitOps
    <3>2. IdleCallbackOps = <<z>>
      BY DEF IdleCallbackOps
    <3>. HIDE DEF z
    <3>. QED  BY <1>1, <3>1, <3>2, LastIs
  <2>2. z[1] = "Enter"
    OBVIOUS
  <2>. HIDE DEF z
  <2>3. "Enter" \in Starts \cup {"Enter"}
    OBVIOUS
  <2>4. /\ <<z>> \in Seq(Operations)
        /\ WorkerForm(<<z>>, NoNode)
        /\ SubmitForm(<<z>>) /\ IdleForm(<<z>>)
        /\ ~ HasIn(<<z>>, Inside) /\ ~ HasIn(<<z>>, Deciding)
        /\ TargetOf(<<z>>, "Send") = NoQueue /\ TargetOf(<<z>>, "Count") = NoQueue
        /\ PointOf(<<z>>) = "idle"
    BY <1>1, <2>2, <2>3, SingleForm
  <2>. QED  BY <1>3, <2>1, <2>4
<1>. QED  BY <1>2, <1>3

LEMMA OnTaskFinishedSimulated ==
    ASSUME AgendaInv, NEW w \in Workers, OnTaskFinished(w),
           cur \in [Workers -> Nodes \cup {NoNode}], running \in [Queues -> BOOLEAN]
    PROVE  Simulates
<1>0. w \in Threads
  BY DEF Threads
<1>. DEFINE q == WorkerQueue[w]
            s == running[q] /\ Queued(q) # {}
<1>1. q \in Queues
  BY ThreadsAssumption
<1>2. /\ UncountTask(q)
      /\ cleaned' = cleaned /\ handlingIdle' = handlingIdle
      /\ cur' = [cur EXCEPT ![w] = NoNode]
  BY DEF OnTaskFinished, schedVars, historyVars
<1>3. SQ!UncountTask(q)
  BY <1>2 DEF UncountTask, SQ!UncountTask
<1>4. cur'[w] = NoNode /\ \A v \in Workers : v # w => cur'[v] = cur[v]
  BY <1>2
<1>5. s \in BOOLEAN
  BY <1>1
<1>6. SQ!Queued(q) = Queued(q)
  BY DEF Queued, SQ!Queued, NodesOf, SQ!NodesOf
<1>7. CASE At(w, "Finished") /\ Then(w, If(s, SubmitOps(q)) \o IdleCallbackOps)
  <2>. DEFINE b == If(s, SubmitOps(q)) \o IdleCallbackOps
  <2>1. /\ Len(agenda[w]) > 0 /\ ~ (Len(agenda[w]) > 1)
        /\ HeadIn(agenda[w], {"Finished"} \cup Starts)
        /\ PointOf(agenda[w]) = "post"
        /\ \A r \in Seq(Operations) : Then(w, r) => agenda' = [agenda EXCEPT ![w] = r]
    <3>1. "Finished" \in Starts \cup {"Finished"}
      OBVIOUS
    <3>. QED  BY <1>7, <3>1, Alone, Zenon
  <2>. HIDE DEF s
  <2>2. /\ b \in Seq(Operations)
        /\ WorkerForm(b, NoNode) /\ SubmitForm(b) /\ IdleForm(b)
        /\ ~ HasIn(b, Inside) /\ ~ HasIn(b, Deciding)
        /\ TargetOf(b, "Send") = NoQueue
        /\ TargetOf(b, "Count") = IF s /\ q \in WithExecutor THEN q ELSE NoQueue
        /\ PointOf(b) = "idle"
    BY <1>1, <1>5, FinishedForm
  <2>3. Then(w, b)
    BY <1>7
  <2>. HIDE DEF b
  <2>4. agenda' = [agenda EXCEPT ![w] = b]
    BY <2>1, <2>2, <2>3
  <2>5. WorkerForm(b, cur'[w])
    BY <1>4, <2>2
  <2>6. /\ AgendaInv'
        /\ pc[w] = PointOf(agenda[w]) /\ pc' = [pc EXCEPT ![w] = PointOf(b)]
        /\ counting[w] = NoQueue /\ sending[w] = NoQueue
        /\ counting' = [counting EXCEPT ![w] = TargetOf(b, "Count")]
        /\ sending' = sending
    BY <1>2, <1>4, <2>1, <2>2, <2>4, <2>5, WorkerMoves
  <2>7. SQ!Submit(w, running[q] /\ SQ!Queued(q) # {}, q)
    BY <1>6, <2>2, <2>6 DEF SQ!Submit, s
  <2>8. SQ!OnTaskFinished(w)
    BY <1>2, <1>3, <2>1, <2>2, <2>6, <2>7 DEF SQ!OnTaskFinished, SQ!Submitting
  <2>9. SQ!Next
    BY <2>8 DEF SQ!Next, SQ!WorkerStep
  <2>. QED  BY <2>6, <2>9 DEF Simulates
<1>8. CASE At(w, "NoItem") /\ Then(w, IdleCallbackOps)
  <2>. DEFINE x == <<"Enter", TRUE>>
              b == <<x>>
  <2>1. x \in Operations /\ x[1] = "Enter" /\ "Enter" \in Starts \cup {"Enter"}
    BY OpsMade
  <2>2. Then(w, b)
    BY <1>8 DEF IdleCallbackOps
  <2>. HIDE DEF x
  <2>3. /\ Len(agenda[w]) > 0 /\ ~ (Len(agenda[w]) > 1)
        /\ HeadIn(agenda[w], {"Finished"} \cup Starts)
        /\ PointOf(agenda[w]) = "empty"
        /\ cur[w] = NoNode
        /\ \A r \in Seq(Operations) : Then(w, r) => agenda' = [agenda EXCEPT ![w] = r]
    <3>1. "NoItem" \in Starts \cup {"Finished"}
      BY DEF Starts
    <3>. QED  BY <1>8, <3>1, Alone, Zenon
  <2>4. /\ b \in Seq(Operations)
        /\ WorkerForm(b, NoNode) /\ SubmitForm(b) /\ IdleForm(b)
        /\ ~ HasIn(b, Inside) /\ ~ HasIn(b, Deciding)
        /\ TargetOf(b, "Send") = NoQueue /\ TargetOf(b, "Count") = NoQueue
        /\ PointOf(b) = "idle"
    BY <2>1, SingleForm
  <2>. HIDE DEF b
  <2>5. agenda' = [agenda EXCEPT ![w] = b]
    BY <2>2, <2>3, <2>4
  <2>6. WorkerForm(b, cur'[w])
    BY <1>4, <2>4
  <2>7. /\ AgendaInv'
        /\ pc[w] = PointOf(agenda[w]) /\ pc' = [pc EXCEPT ![w] = PointOf(b)]
        /\ TargetOf(b, "Count") = NoQueue => counting' = counting
        /\ sending' = sending
    BY <1>2, <1>4, <2>3, <2>4, <2>5, <2>6, WorkerMoves
  <2>8. cur' = cur
    BY <1>2, <2>3
  <2>9. SQ!NoItem(w)
    BY <1>2, <1>3, <2>3, <2>4, <2>7, <2>8 DEF SQ!NoItem
  <2>10. SQ!Next
    BY <2>9 DEF SQ!Next, SQ!WorkerStep
  <2>. QED  BY <2>7, <2>10 DEF Simulates
<1>. QED  BY <1>7, <1>8 DEF OnTaskFinished

\* What the calls of GraphRuntime put on an agenda.
LEMMA SetAllType ==
    ASSUME NEW b \in BOOLEAN
    PROVE  SetAll(b) \in Seq(QuietOps)
<1>1. \A q \in Queues : <<"SetRunning", q, b>> \in QuietOps
  BY QuietOpsMade
<1>2. Len(AllQueues) \in Nat /\ \A i \in 1..Len(AllQueues) : AllQueues[i] \in Queues
  <2>1. AllQueues \in Seq(Queues)
    BY GraphAssumption
  <2>. QED  BY <2>1
<1>3. \A i \in 1..Len(AllQueues) : <<"SetRunning", AllQueues[i], b>> \in QuietOps
  <2>1. \A i \in 1..Len(AllQueues) : AllQueues[i] \in Queues
    BY <1>2
  <2>. QED  BY <1>1, <2>1, Zenon
<1>. DEFINE op(i) == <<"SetRunning", AllQueues[i], b>>
<1>4. SetAll(b) = [i \in 1..Len(AllQueues) |-> op(i)]
  BY DEF SetAll
<1>5. \A i \in 1..Len(AllQueues) : op(i) \in QuietOps
  BY <1>3
<1>. HIDE DEF op
<1>. QED  BY <1>2, <1>4, <1>5

LEMMA IfEnterForm ==
    ASSUME NEW c, NEW s \in Seq(QuietOps)
    PROVE  CallOps(If(c, s \o HandleIdleOps))
<1>1. CASE c
  <2>1. If(c, s \o HandleIdleOps) = s \o << <<"Enter", FALSE>> >>
    BY <1>1, Zenon DEF If, HandleIdleOps
  <2>. QED  BY <2>1, EnterCallOps
<1>2. CASE ~ c
  <2>1. If(c, s \o HandleIdleOps) = <<>>
    BY <1>2, Zenon DEF If
  <2>. QED  BY <2>1, EmptyCallOps
<1>. QED  BY <1>1, <1>2

LEMMA TwoQuiet ==
    ASSUME NEW x \in QuietOps, NEW y \in QuietOps
    PROVE  <<x>> \in Seq(QuietOps) /\ <<x, y>> \in Seq(QuietOps)
OBVIOUS

LEMMA Joined ==
    ASSUME NEW T, NEW r \in Seq(T), NEW s \in Seq(T)
    PROVE  r \o s \in Seq(T)
OBVIOUS

LEMMA MakingSimulated ==
    ASSUME AgendaInv, NEW a \in Apps, NEW c, Calls(a, c), NEW ops, CallOps(ops), Making(a, ops),
           handlingIdle' = handlingIdle
    PROVE  Simulates
<1>1. a \in Threads /\ a \notin Workers
  BY ThreadsAssumption DEF Threads
<1>2. agenda[a] = <<>>
  BY DEF Calls
<1>3. ~ (Len(agenda[a]) > 1) /\ ~ (Len(agenda[a]) > 0)
  BY <1>2
<1>4. ops \in Seq(Operations)
  BY DEF CallOps
<1>5. /\ agenda' = [agenda EXCEPT ![a] = ops]
      /\ UNCHANGED <<queueVars, cur, cleaned>>
  BY DEF Making, historyVars
<1>6. /\ IdleForm(ops) /\ SubmitForm(ops)
      /\ ~ HasIn(ops, Submits) /\ ~ HasIn(ops, Inside) /\ ~ HasIn(ops, Deciding)
  BY CallOpsForm
<1>7. /\ AgendaInv'
      /\ agenda'[a] = ops
      /\ \A u \in Threads : u # a => agenda'[u] = agenda[u]
      /\ NotSubmitting(agenda[a])
  BY <1>1, <1>3, <1>4, <1>5, <1>6, FreshStep
<1>8. NotSubmitting(ops)
  <2>1. Len(ops) \in Nat
    BY DEF CallOps
  <2>. QED  BY <1>6, <2>1 DEF NotSubmitting, TargetOf, HasIn
<1>. QED  BY <1>1, <1>5, <1>7, <1>8, SQStutter

\* The argument of the next call of an application thread.
LEMMA CallArgs ==
    ASSUME NEW a \in Apps, NEW c, Calls(a, c), script \in [Apps -> Seq(CallsOfApps)]
    PROVE  /\ c \in {"AddPacket", "CloseInput"} => Head(script[a])[2] \in GraphInputs
           /\ [script EXCEPT ![a] = Tail(@)] \in [Apps -> Seq(CallsOfApps)]
<1>1. script[a] \in Seq(CallsOfApps) /\ script[a] # <<>> /\ Head(script[a])[1] = c
  BY DEF Calls
<1>2. Head(script[a]) \in CallsOfApps /\ Tail(script[a]) \in Seq(CallsOfApps)
  BY <1>1
<1>3. ASSUME NEW x \in CallsOfApps, x[1] \in {"AddPacket", "CloseInput"}
      PROVE  x[2] \in GraphInputs
  <2>1. CASE x \in {"Start"} \X SUBSET Nodes
    <3>1. x[1] \in {"Start"}
      BY <2>1
    <3>. QED  BY <1>3, <3>1
  <2>2. CASE x \in {"AddPacket", "CloseInput"} \X GraphInputs
    BY <2>2
  <2>3. CASE x \in {<<y>> : y \in {"Cancel", "Pause", "Resume", "Shutdown", "Wait"}}
    <3>1. x[1] \in {"Cancel", "Pause", "Resume", "Shutdown", "Wait"}
      BY <2>3
    <3>. QED  BY <1>3, <3>1
  <2>. QED  BY <2>1, <2>2, <2>3 DEF CallsOfApps
<1>4. ASSUME c \in {"AddPacket", "CloseInput"} PROVE Head(script[a])[2] \in GraphInputs
  <2>1. Head(script[a])[1] \in {"AddPacket", "CloseInput"}
    BY <1>1, <1>4, Zenon
  <2>. QED  BY <1>2, <1>3, <2>1, Zenon
<1>. QED  BY <1>2, <1>4

LEMMA CallSimulated ==
    ASSUME AgendaInv, script \in [Apps -> Seq(CallsOfApps)], NEW a \in Apps, CallStep(a)
    PROVE  Simulates /\ script' \in [Apps -> Seq(CallsOfApps)]
<1>0. ASSUME NEW c, Calls(a, c), NEW ops, CallOps(ops), Making(a, ops),
             handlingIdle' = handlingIdle
      PROVE  Simulates /\ script' \in [Apps -> Seq(CallsOfApps)]
  <2>1. Simulates
    BY <1>0, MakingSimulated
  <2>2. script' = [script EXCEPT ![a] = Tail(@)]
    BY <1>0 DEF Making
  <2>. QED  BY <1>0, <2>1, <2>2, CallArgs
<1>1. CASE Start(a)
  <2>. DEFINE failing == {i \in 1..Len(AllNodes) : AllNodes[i] \in Head(script[a])[2]}
              first == CHOOSE i \in failing : \A j \in failing : i <= j
              opened == IF failing = {} THEN AllNodes ELSE SubSeq(AllNodes, 1, first - 1)
              open == EachIn("OpenSource", opened, Sources)
              rest == IF failing = {} THEN SetAll(TRUE) \o HandleIdleOps
                      ELSE << <<"SetState", "Terminated">> >>
  <2>1. Calls(a, "Start") /\ Making(a, open \o rest) /\ handlingIdle' = handlingIdle
    BY <1>1 DEF Start
  <2>2. opened \in Seq(Nodes)
    <3>1. AllNodes \in Seq(Nodes) /\ Len(AllNodes) \in Nat
      BY GraphAssumption
    <3>2. CASE failing = {}
      BY <3>1, <3>2
    <3>3. CASE failing # {}
      <4>1. failing \in SUBSET Nat
        BY <3>1
      <4>2. \E i \in failing : \A j \in failing : i <= j
        BY <3>3, <4>1, LeastNat
      <4>3. first \in failing
        BY <4>2
      <4>4. first \in 1..Len(AllNodes)
        BY <4>3
      <4>. HIDE DEF first
      <4>5. SubSeq(AllNodes, 1, first - 1) \in Seq(Nodes)
        BY <3>1, <4>4, SubSeqProperties
      <4>. QED  BY <3>3, <4>5
    <3>. QED  BY <3>2, <3>3
  <2>3. open \in Seq(QuietOps)
    <3>1. \A n \in Nodes \cap Sources : <<"OpenSource", n>> \in QuietOps
      BY QuietOpsMade
    <3>. HIDE DEF opened
    <3>. QED  BY <2>2, <3>1, EachInType
  <2>4. CallOps(open \o rest)
    <3>1. CASE failing = {}
      <4>1. SetAll(TRUE) \in Seq(QuietOps)
        BY SetAllType
      <4>2. <<"Enter", FALSE>> \in Operations
        BY OpsMade
      <4>3. /\ HandleIdleOps \in Seq(Operations)
            /\ HandleIdleOps = << <<"Enter", FALSE>> >>
        BY <4>2 DEF HandleIdleOps
      <4>4. rest = SetAll(TRUE) \o HandleIdleOps
        BY <3>1
      <4>. HIDE DEF open, rest
      <4>5. open \in Seq(Operations) /\ SetAll(TRUE) \in Seq(Operations)
        BY <2>3, <4>1, QuietForm
      <4>6. open \o rest = (open \o SetAll(TRUE)) \o HandleIdleOps
        BY <4>3, <4>4, <4>5, Assoc
      <4>7. open \o SetAll(TRUE) \in Seq(QuietOps)
        BY <2>3, <4>1, Joined
      <4>8. CallOps((open \o SetAll(TRUE)) \o << <<"Enter", FALSE>> >>)
        BY <4>7, EnterCallOps
      <4>. QED  BY <4>3, <4>6, <4>8
    <3>2. CASE failing # {}
      <4>1. <<"SetState", "Terminated">> \in QuietOps
        BY QuietOpsMade DEF LaterStates, States
      <4>2. << <<"SetState", "Terminated">> >> \in Seq(QuietOps)
        BY <4>1, TwoQuiet
      <4>3. rest = << <<"SetState", "Terminated">> >>
        BY <3>2, Zenon
      <4>4. rest \in Seq(QuietOps)
        BY <4>2, <4>3
      <4>. HIDE DEF open, rest
      <4>. QED  BY <2>3, <4>4, Joined, QuietCallOps
    <3>. QED  BY <3>1, <3>2
  <2>. HIDE DEF open, rest
  <2>. QED  BY <1>0, <2>1, <2>4
<1>2. CASE AddPacketToInputStream(a)
  <2>. DEFINE s == Head(script[a])[2]
              ops == If(s \notin outClosed, PropagateOps(s, 1) \o HandleIdleOps)
  <2>1. /\ Calls(a, "AddPacket") /\ Making(a, ops) /\ handlingIdle' = handlingIdle
    BY <1>2 DEF AddPacketToInputStream, schedVars
  <2>2. s \in Producers
    BY <2>1, CallArgs DEF Producers
  <2>. HIDE DEF s
  <2>3. PropagateOps(s, 1) \in Seq(QuietOps)
    BY <2>2, PropagateType
  <2>4. CallOps(ops)
    BY <2>3, IfEnterForm
  <2>. HIDE DEF ops
  <2>. QED  BY <1>0, <2>1, <2>4
<1>3. CASE CloseInputStream(a)
  <2>. DEFINE s == Head(script[a])[2]
              close == << <<"CloseManager", s>>, <<"IncClosed", s>> >>
              ops == If(s \notin closedInputs, close \o HandleIdleOps)
  <2>1. Calls(a, "CloseInput") /\ Making(a, ops) /\ handlingIdle' = handlingIdle
    BY <1>3 DEF CloseInputStream, schedVars
  <2>2. s \in GraphInputs /\ s \in Producers
    BY <2>1, CallArgs DEF Producers
  <2>. HIDE DEF s
  <2>3. <<"CloseManager", s>> \in QuietOps /\ <<"IncClosed", s>> \in QuietOps
    BY <2>2, QuietOpsMade
  <2>4. close \in Seq(QuietOps)
    BY <2>3, TwoQuiet
  <2>. HIDE DEF close
  <2>5. CallOps(ops)
    BY <2>4, IfEnterForm
  <2>. HIDE DEF ops
  <2>. QED  BY <1>0, <2>1, <2>5
<1>4. CASE Cancel(a)
  <2>. DEFINE one == << <<"SetState", "Cancelling">> >>
              ops == If(~ hasError, one \o HandleIdleOps)
  <2>1. Calls(a, "Cancel") /\ Making(a, ops) /\ handlingIdle' = handlingIdle
    BY <1>4 DEF Cancel
  <2>2. <<"SetState", "Cancelling">> \in QuietOps
    BY QuietOpsMade DEF LaterStates, States
  <2>3. one \in Seq(QuietOps)
    BY <2>2, TwoQuiet
  <2>. HIDE DEF one
  <2>4. CallOps(ops)
    BY <2>3, IfEnterForm
  <2>. HIDE DEF ops
  <2>. QED  BY <1>0, <2>1, <2>4
<1>5. CASE Pause(a)
  <2>. DEFINE one == << <<"SetState", "Paused">> >>
              ops == If(state = "Running", one \o SetAll(FALSE))
  <2>1. Calls(a, "Pause") /\ Making(a, ops) /\ handlingIdle' = handlingIdle
    BY <1>5 DEF Pause, schedVars
  <2>2. <<"SetState", "Paused">> \in QuietOps
    BY QuietOpsMade DEF LaterStates, States
  <2>3. one \in Seq(QuietOps) /\ SetAll(FALSE) \in Seq(QuietOps)
    BY <2>2, TwoQuiet, SetAllType
  <2>. HIDE DEF one
  <2>4. ops \in Seq(QuietOps)
    BY <2>3, Joined, IfType
  <2>. HIDE DEF ops
  <2>. QED  BY <1>0, <2>1, <2>4, QuietCallOps
<1>6. CASE Resume(a)
  <2>. DEFINE one == << <<"SetState", "Running">> >>
              again == Each("SubmitWaiting", AllQueues)
              ops == If(state = "Paused", one \o SetAll(TRUE) \o again \o HandleIdleOps)
  <2>1. Calls(a, "Resume") /\ Making(a, ops) /\ handlingIdle' = handlingIdle
    BY <1>6 DEF Resume, schedVars
  <2>2. <<"SetState", "Running">> \in QuietOps
    BY QuietOpsMade DEF LaterStates, States
  <2>3. one \in Seq(QuietOps) /\ SetAll(TRUE) \in Seq(QuietOps)
    BY <2>2, TwoQuiet, SetAllType
  <2>4. again \in Seq(QuietOps)
    <3>1. AllQueues \in Seq(Queues) /\ \A q \in Queues : <<"SubmitWaiting", q>> \in QuietOps
      BY GraphAssumption, QuietOpsMade
    <3>. QED  BY <3>1, EachType
  <2>. HIDE DEF one, again
  <2>5. one \o SetAll(TRUE) \in Seq(QuietOps)
    BY <2>3, Joined
  <2>6. one \o SetAll(TRUE) \o again \in Seq(QuietOps)
    BY <2>4, <2>5, Joined
  <2>7. CallOps(ops)
    BY <2>6, IfEnterForm
  <2>. HIDE DEF ops
  <2>. QED  BY <1>0, <2>1, <2>7
<1>7. CASE Shutdown(a)
  <2>. DEFINE clean == Each("Cleanup", AllQueues)
              one == << <<"Notify">> >>
              ops == clean \o one
  <2>1. Calls(a, "Shutdown") /\ Making(a, ops) /\ handlingIdle' = handlingIdle
    BY <1>7 DEF Shutdown
  <2>2. <<"Notify">> \in QuietOps
    BY QuietOpsMade
  <2>3. one \in Seq(QuietOps)
    BY <2>2, TwoQuiet
  <2>4. clean \in Seq(QuietOps)
    <3>1. AllQueues \in Seq(Queues) /\ \A q \in Queues : <<"Cleanup", q>> \in QuietOps
      BY GraphAssumption, QuietOpsMade
    <3>. QED  BY <3>1, EachType
  <2>. HIDE DEF clean, one
  <2>5. ops \in Seq(QuietOps)
    BY <2>3, <2>4, Joined
  <2>. HIDE DEF ops
  <2>. QED  BY <1>0, <2>1, <2>5, QuietCallOps
<1>8. CASE WaitUntilDone(a)
  <2>. DEFINE ops == << <<"Wait">> >>
  <2>1. Calls(a, "Wait") /\ Making(a, ops) /\ handlingIdle' = handlingIdle
    BY <1>8 DEF WaitUntilDone, schedVars
  <2>2. <<"Wait">> \in QuietOps
    BY QuietOpsMade
  <2>3. ops \in Seq(QuietOps)
    BY <2>2, TwoQuiet
  <2>. HIDE DEF ops
  <2>. QED  BY <1>0, <2>1, <2>3, QuietCallOps
<1>. QED  BY <1>1, <1>2, <1>3, <1>4, <1>5, <1>6, <1>7, <1>8 DEF CallStep

-----------------------------------------------------------------------------
(* The invariant of a running graph.                                       *)

\* The agendas are well formed, and what the agendas are built from has its
\* type: the scripts, the nodes the workers run, and running_.
ThreadsInv ==
    /\ AgendaInv
    /\ script \in [Apps -> Seq(CallsOfApps)]
    /\ cur \in [Workers -> Nodes \cup {NoNode}]
    /\ running \in [Queues -> BOOLEAN]

LEMMA ThreadsInit == Init => ThreadsInv
<1>. SUFFICES ASSUME Init PROVE ThreadsInv
  OBVIOUS
<1>1. \A t \in Threads : agenda[t] = <<>>
  BY DEF Init
<1>2. agenda \in [Threads -> Seq(Operations)]
  BY DEF Init
<1>3. \A K : ~ HasIn(<<>>, K)
  BY DEF HasIn
<1>4. SubmitForm(<<>>) /\ IdleForm(<<>>)
  BY DEF SubmitForm, IdleForm, AtMostOne
<1>5. WorkerForm(<<>>, NoNode)
  BY <1>3 DEF WorkerForm, AtMostOne
<1>6. cur = [w \in Workers |-> NoNode]
  BY DEF Init
<1>7. \A w \in Workers : WorkerForm(agenda[w], cur[w])
  BY <1>1, <1>5, <1>6 DEF Threads
<1>8. InHandleIdle = {} /\ OneDecider
  BY <1>1, <1>3, Zenon DEF InHandleIdle, OneDecider
<1>9. handlingIdle = Cardinality(InHandleIdle)
  BY <1>8, FS_EmptySet DEF Init
<1>10. AgendaInv
  BY <1>1, <1>2, <1>4, <1>7, <1>8, <1>9 DEF AgendaInv
<1>11. script \in [Apps -> Seq(CallsOfApps)]
  BY ThreadsAssumption DEF Init
<1>12. running \in [Queues -> BOOLEAN]
  BY DEF Init, QueueInit
<1>. QED  BY <1>6, <1>10, <1>11, <1>12 DEF ThreadsInv

LEMMA QueuesInit == Init => SQ!Init
<1>. SUFFICES ASSUME Init PROVE SQ!Init
  OBVIOUS
<1>1. \A t \in Threads : agenda[t] = <<>>
  BY DEF Init
<1>2. \A t \in Threads : \A k : ~ At(t, k)
  BY <1>1 DEF At
<1>3. pc = [w \in Workers |-> "wait"]
  <2>1. ASSUME NEW w \in Workers PROVE Point(w) = "wait"
    <3>1. agenda[w] = <<>>
      BY <1>1 DEF Threads
    <3>2. ~ At(w, "TryPop") /\ ~ At(w, "NoItem")
      BY <3>1 DEF At
    <3>. HIDE DEF At
    <3>. QED  BY <3>1, <3>2 DEF Point
  <2>. QED  BY <2>1, Zenon DEF pc
<1>4. /\ counting = [t \in Threads |-> NoQueue]
      /\ sending = [t \in Threads |-> NoQueue]
  BY <1>2, Zenon DEF counting, sending, SubmitTarget
<1>5. Threads = SQ!Threads
  BY DEF Threads, SQ!Threads
<1>6. SQ!QueueInit
  BY DEF Init, QueueInit, SQ!QueueInit
<1>. QED  BY <1>3, <1>4, <1>5, <1>6 DEF Init, SQ!Init

\* What a step leaves of the scripts, of cur and of running_.
LEMMA ThreadsTyped ==
    ASSUME ThreadsInv, [Next]_vars
    PROVE  /\ cur' \in [Workers -> Nodes \cup {NoNode}]
           /\ running' \in [Queues -> BOOLEAN]
<1>. USE DEF ThreadsInv
<1>1. CASE UNCHANGED vars
  BY <1>1 DEF vars, queueVars, threadVars
<1>2. ASSUME NEW t \in Threads, QueueStep(t)
      PROVE  cur' = cur /\ running' \in [Queues -> BOOLEAN]
  <2>1. CASE AddNode(t)
    BY <2>1 DEF AddNode, PushItem, queueVars
  <2>2. CASE SubmitToExecutor(t)
    BY <2>2 DEF SubmitToExecutor, CountTask, ScheduleTask
  <2>3. CASE SetRunning(t)
    <3>1. /\ cur' = cur /\ At(t, "SetRunning")
          /\ running' = [running EXCEPT ![Arg(t, 2)] = Arg(t, 3)]
      BY <2>3 DEF SetRunning, AssignRunning
    <3>2. Arg(t, 3) \in BOOLEAN
      BY <3>1, ArgFacts
    <3>. QED  BY <3>1, <3>2, Zenon
  <2>4. CASE SubmitWaiting(t)
    BY <2>4 DEF SubmitWaiting, queueVars
  <2>5. CASE Cleanup(t)
    BY <2>5 DEF Cleanup, CleanupAfterRun
  <2>. QED  BY <1>2, <2>1, <2>2, <2>3, <2>4, <2>5 DEF QueueStep
<1>3. ASSUME NEW t \in Threads, StreamStep(t) PROVE cur' = cur /\ running' = running
  BY <1>3 DEF StreamStep, AddPackets, SetDone, PostProcess, BoundDone, CloseManager, queueVars
<1>4. ASSUME NEW t \in Threads, IdleStep(t) PROVE cur' = cur /\ running' = running
  BY <1>4 DEF IdleStep, Enter, Leave, Begin, CheckIdle, Idle, Scan, DrainNode,
              FindUnfinalized, Judge, CloseNode, Terminate, queueVars
<1>5. ASSUME NEW w \in Workers, WorkerStep(w)
      PROVE  /\ cur' \in [Workers -> Nodes \cup {NoNode}]
             /\ running' = running
  <2>1. CASE TakeTask(w)
    BY <2>1 DEF TakeTask, DequeueTask
  <2>2. CASE TryPop(w)
    <3>1. \/ \E n \in Nodes : cur' = [cur EXCEPT ![w] = n] /\ PopItem(n)
          \/ UNCHANGED <<queueVars, cur>>
      BY <2>2 DEF TryPop, NodesOf
    <3>2. running' = running
      BY <3>1 DEF PopItem, queueVars
    <3>. QED  BY <3>1, <3>2
  <2>3. CASE PopQueueHead(w)
    BY <2>3 DEF PopQueueHead, queueVars
  <2>4. CASE Process(w)
    BY <2>4 DEF Process, queueVars
  <2>5. CASE Finalize(w)
    BY <2>5 DEF Finalize, queueVars
  <2>6. CASE Decrement(w)
    BY <2>6 DEF Decrement, DecrementPending
  <2>7. CASE Reschedule(w) \/ SafetyNet(w) \/ SourceStopped(w) \/ ErrorCallback(w)
    BY <2>7 DEF Reschedule, SafetyNet, SourceStopped, ErrorCallback, queueVars
  <2>8. CASE OnTaskFinished(w)
    BY <2>8 DEF OnTaskFinished, UncountTask
  <2>. QED  BY <1>5, <2>1, <2>2, <2>3, <2>4, <2>5, <2>6, <2>7, <2>8 DEF WorkerStep
<1>6. ASSUME NEW a \in Apps, AppStep(a) PROVE cur' = cur /\ running' = running
  <2>1. CASE CallStep(a)
    BY <2>1 DEF CallStep, Start, AddPacketToInputStream, CloseInputStream, Cancel, Pause,
                Resume, Shutdown, WaitUntilDone, Making, queueVars
  <2>2. CASE ~ CallStep(a)
    BY <1>6, <2>2 DEF AppStep, OpenSource, IncClosedGraphInputStreams, SetState, Notify, Wait,
                      Block, queueVars
  <2>. QED  BY <2>1, <2>2
<1>. QED  BY <1>1, <1>2, <1>3, <1>4, <1>5, <1>6 DEF Next, CommonStep

\* Every step of a running graph keeps the invariant, and is for its queues a
\* step of SchedulerQueue or none.
LEMMA ThreadsStep == ThreadsInv /\ [Next]_vars => ThreadsInv' /\ [SQ!Next]_(SQ!vars)
<1>. SUFFICES ASSUME ThreadsInv, [Next]_vars PROVE ThreadsInv' /\ [SQ!Next]_(SQ!vars)
  OBVIOUS
<1>0. /\ AgendaInv /\ script \in [Apps -> Seq(CallsOfApps)]
      /\ cur \in [Workers -> Nodes \cup {NoNode}] /\ running \in [Queues -> BOOLEAN]
  BY DEF ThreadsInv
<1>1. cur' \in [Workers -> Nodes \cup {NoNode}] /\ running' \in [Queues -> BOOLEAN]
  BY ThreadsTyped
<1>2. CASE UNCHANGED vars
  <2>1. UNCHANGED <<queueVars, agenda, script, cur, cleaned, handlingIdle>>
    BY <1>2 DEF vars, threadVars, schedVars, historyVars
  <2>2. AgendaInv'
    BY <1>0, <2>1 DEF AgendaInv, InHandleIdle, OneDecider
  <2>3. pc' = pc /\ counting' = counting /\ sending' = sending
    BY <2>1 DEF pc, counting, sending, Point, SubmitTarget, At, Arg, Has
  <2>4. UNCHANGED SQ!vars
    BY <2>1, <2>3 DEF SQ!vars, SQ!queueVars, SQ!threadVars, queueVars
  <2>. QED  BY <1>0, <1>1, <2>1, <2>2, <2>4 DEF ThreadsInv
<1>3. ASSUME NEW t \in Threads, CommonStep(t) PROVE Simulates /\ script' = script
  <2>1. CASE QueueStep(t)
    <3>1. Simulates
      BY <1>0, <2>1, AddNodeSimulated, SubmitToExecutorSimulated, SetRunningSimulated,
         SubmitWaitingSimulated, CleanupSimulated DEF QueueStep
    <3>2. script' = script
      BY <2>1 DEF QueueStep, AddNode, SubmitToExecutor, SetRunning, SubmitWaiting, Cleanup
    <3>. QED  BY <3>1, <3>2
  <2>2. CASE StreamStep(t)
    <3>1. Simulates
      BY <1>0, <2>2, StreamsSimulated
    <3>2. script' = script
      BY <2>2 DEF StreamStep, AddPackets, SetDone, PostProcess, BoundDone, CloseManager
    <3>. QED  BY <3>1, <3>2
  <2>3. CASE IdleStep(t)
    <3>1. Simulates
      BY <1>0, <2>3, IdleStepSimulated
    <3>2. script' = script
      BY <2>3 DEF IdleStep, Enter, Leave, Begin, CheckIdle, Idle, Scan, DrainNode,
                  FindUnfinalized, Judge, CloseNode, Terminate
    <3>. QED  BY <3>1, <3>2
  <2>. QED  BY <1>3, <2>1, <2>2, <2>3 DEF CommonStep
<1>4. ASSUME NEW w \in Workers, WorkerStep(w) PROVE Simulates /\ script' = script
  <2>1. Simulates
    BY <1>0, <1>4, TakeTaskSimulated, TryPopSimulated, ProcessSimulated, FinalizeSimulated,
       DecrementSimulated, WorkerAwaySimulated, OnTaskFinishedSimulated DEF WorkerStep
  <2>2. script' = script
    BY <1>4 DEF WorkerStep, TakeTask, TryPop, PopQueueHead, Process, Finalize, Decrement,
                Reschedule, SafetyNet, SourceStopped, ErrorCallback, OnTaskFinished
  <2>. QED  BY <2>1, <2>2
<1>5. ASSUME NEW a \in Apps, AppStep(a)
      PROVE  Simulates /\ script' \in [Apps -> Seq(CallsOfApps)]
  <2>1. CASE CallStep(a)
    BY <1>0, <2>1, CallSimulated
  <2>2. CASE ~ CallStep(a)
    <3>1. Simulates
      BY <1>0, <1>5, <2>2, AppAwaySimulated DEF AppStep
    <3>2. script' = script
      BY <1>5, <2>2 DEF AppStep, OpenSource, IncClosedGraphInputStreams, SetState, Notify,
                        Wait, Block
    <3>. QED  BY <1>0, <3>1, <3>2
  <2>. QED  BY <2>1, <2>2
<1>6. CASE Next
  <2>1. Simulates /\ script' \in [Apps -> Seq(CallsOfApps)]
    BY <1>0, <1>3, <1>4, <1>5, <1>6 DEF Next
  <2>. QED  BY <1>1, <2>1 DEF ThreadsInv, Simulates
<1>. QED  BY <1>2, <1>6

\* In every graph, agendas are well formed: what the theorems below rest on.
THEOREM ThreadsCorrect == Spec => []ThreadsInv
BY ThreadsInit, ThreadsStep, PTL DEF Spec

\* Of the threads inside HandleIdle only one gets past its re-entrance guard
\* handling_idle_: never two threads look for the end of the graph, drain its
\* input queues or close its nodes.
THEOREM OneThreadDecides == Spec => []OneDecider
<1>1. ThreadsInv => OneDecider
  BY DEF ThreadsInv, AgendaInv
<1>. QED  BY <1>1, ThreadsCorrect, PTL

\* The scheduler, the streams and the application use a SchedulerQueue only
\* through its methods, each thread one after the other, as the module
\* SchedulerQueue assumes of an environment.
THEOREM QueuesRefined == Spec => RefinesSchedulerQueue
<1>1. Init => SQ!Init
  BY QueuesInit
<1>2. ThreadsInv /\ [Next]_vars => [SQ!Next]_(SQ!vars)
  BY ThreadsStep
<1>. QED  BY <1>1, <1>2, ThreadsCorrect, PTL DEF Spec, RefinesSchedulerQueue, SQ!Spec

-----------------------------------------------------------------------------

(* What SchedulerQueueProofs says of the queues of a running graph.        *)

SQP == INSTANCE SchedulerQueueProofs WITH Clients <- Apps, MaxTasks <- Unbounded

\* What the module SchedulerQueue assumes of its constants.
LEMMA QueueAssumptions ==
    /\ SQP!IsFiniteSet(Workers) /\ SQP!IsFiniteSet(Apps)
    /\ Workers \cap Apps = {}
    /\ WorkerQueue \in [Workers -> Queues]
    /\ NoNode \notin Nodes /\ NoQueue \notin Queues
    /\ Unbounded \in Nat \cup {SQP!Unbounded}
BY ThreadsAssumption DEF SQP!Unbounded, Unbounded, IsFiniteSet, SQP!IsFiniteSet

LEMMA SameInit == SQ!Init => SQP!Init
BY DEF SQ!Init, SQP!Init, SQ!QueueInit, SQP!QueueInit, SQ!Threads, SQP!Threads

LEMMA SameNext == [SQ!Next]_(SQ!vars) => [SQP!Next]_(SQP!vars)
BY DEF SQ!Next, SQP!Next, SQ!vars, SQP!vars, SQ!queueVars, SQP!queueVars, SQ!threadVars,
       SQP!threadVars, SQ!Threads, SQP!Threads, SQ!Count, SQP!Count, SQ!Send, SQP!Send,
       SQ!Call, SQP!Call, SQ!WorkerStep, SQP!WorkerStep, SQ!AddNode, SQP!AddNode,
       SQ!SetRunning, SQP!SetRunning, SQ!SubmitWaitingTasksToExecutor,
       SQP!SubmitWaitingTasksToExecutor, SQ!Cleanup, SQP!Cleanup, SQ!TakeTask, SQP!TakeTask,
       SQ!TryPop, SQP!TryPop, SQ!TryPopFails, SQP!TryPopFails, SQ!EndProcess, SQP!EndProcess,
       SQ!OnTaskFinished, SQP!OnTaskFinished, SQ!NoItem, SQP!NoItem, SQ!EndIdle, SQP!EndIdle,
       SQ!MayCall, SQP!MayCall, SQ!Submitting, SQP!Submitting, SQ!Submit, SQP!Submit,
       SQ!Queued, SQP!Queued, SQ!NodesOf, SQP!NodesOf, SQ!CountTask, SQP!CountTask,
       SQ!ScheduleTask, SQP!ScheduleTask, SQ!PushItem, SQP!PushItem, SQ!AtLimit, SQP!AtLimit,
       SQ!AssignRunning, SQP!AssignRunning, SQ!CleanupAfterRun, SQP!CleanupAfterRun,
       SQ!DequeueTask, SQP!DequeueTask, SQ!PopItem, SQP!PopItem, SQ!IsTop, SQP!IsTop,
       SQ!ItemLess, SQP!ItemLess, SQ!Item, SQP!Item, SQ!DecrementPending,
       SQP!DecrementPending, SQ!UncountTask, SQP!UncountTask, SQ!Unbounded, SQP!Unbounded

LEMMA QueuesCorrect == Spec => []SQP!IndInv
<1>1. SQP!Spec => []SQP!IndInv
  BY QueueAssumptions, QueueOfAssumption, WithExecutorAssumption, MaxInFlightAssumption,
     SourcesAssumption, ItemAssumption, SQP!Invariance
<1>. QED  BY <1>1, SameInit, SameNext, QueuesRefined, PTL
             DEF RefinesSchedulerQueue, SQ!Spec, SQP!Spec

\* The counters of a graph's queues are never negative.
THEOREM QueuesTyped == Spec => []QueueTypeOK
<1>1. SQP!IndInv => QueueTypeOK
  BY DEF SQP!IndInv, SQP!TypeOK, SQP!QueueTypeOK, QueueTypeOK
<1>. QED  BY <1>1, QueuesCorrect, PTL

LEMMA SameState ==
    /\ SQP!Threads = SQ!Threads
    /\ \A n : SQP!InFlight(n) = SQ!InFlight(n)
    /\ \A q : SQP!Queued(q) = SQ!Queued(q)
    /\ \A q : SQP!Holding(q) = SQ!Holding(q)
    /\ \A q : SQP!Sending(q) = SQ!Sending(q)
BY DEF SQP!Threads, SQ!Threads, SQP!InFlight, SQ!InFlight, SQP!Queued, SQ!Queued,
       SQP!NodesOf, SQ!NodesOf, SQP!Holding, SQ!Holding, SQP!Sending, SQ!Sending

\* In a running graph no node executes more invocations of Process at once
\* than its contract's MaxInFlight, whoever calls AddNode, Cancel or Shutdown.
THEOREM GraphRespectsMaxInFlight == Spec => []SQ!MaxInFlightRespected
<1>1. SQP!Spec => []SQP!MaxInFlightRespected
  BY QueueAssumptions, QueueOfAssumption, WithExecutorAssumption, MaxInFlightAssumption,
     SourcesAssumption, ItemAssumption, SQP!MaxInFlightCorrect
<1>2. SQP!MaxInFlightRespected => SQ!MaxInFlightRespected
  BY SameState DEF SQP!MaxInFlightRespected, SQ!MaxInFlightRespected, SQP!Cardinality,
     SQ!Cardinality
<1>. QED  BY <1>1, <1>2, SameInit, SameNext, QueuesRefined, PTL
             DEF RefinesSchedulerQueue, SQ!Spec, SQP!Spec

\* A queue of a running graph that IsIdle finds idle has no task waiting, and
\* no worker in RunNode: what the scheduler's search for the end rests on.
THEOREM GraphIdleMeansQuiescent == Spec => []SQ!IdleMeansQuiescent
<1>1. SQP!Spec => []SQP!IdleMeansQuiescent
  BY QueueAssumptions, QueueOfAssumption, WithExecutorAssumption, MaxInFlightAssumption,
     SourcesAssumption, ItemAssumption, SQP!IdleCorrect
<1>2. SQP!IdleMeansQuiescent => SQ!IdleMeansQuiescent
  BY SameState DEF SQP!IdleMeansQuiescent, SQ!IdleMeansQuiescent, SQP!IsIdle, SQ!IsIdle
<1>. QED  BY <1>1, <1>2, SameInit, SameNext, QueuesRefined, PTL
             DEF RefinesSchedulerQueue, SQ!Spec, SQP!Spec

\* No item of a running queue of a graph is left without somebody who will
\* look at the queue, though Pause, Resume, sources and workers race.
THEOREM GraphStrandsNoItem == Spec => []SQ!NoStrandedItem
<1>1. SQP!Spec => []SQP!NoStrandedItem
  BY QueueAssumptions, QueueOfAssumption, WithExecutorAssumption, MaxInFlightAssumption,
     SourcesAssumption, ItemAssumption, SQP!NoItemStranded
<1>2. SQP!NoStrandedItem => SQ!NoStrandedItem
  BY SameState DEF SQP!NoStrandedItem, SQ!NoStrandedItem
<1>. QED  BY <1>1, <1>2, SameInit, SameNext, QueuesRefined, PTL
             DEF RefinesSchedulerQueue, SQ!Spec, SQP!Spec

-----------------------------------------------------------------------------
(* Type correctness.                                                       *)

\* The part of TypeOK that is neither about the queues nor about the threads.
DataTyped ==
    /\ len \in [Edges -> Nat]
    /\ done \in [Edges -> BOOLEAN]
    /\ outClosed \subseteq outDone
    /\ outDone \subseteq Producers
    /\ closePending \subseteq Nodes
    /\ finalized \subseteq Nodes
    /\ state \in States
    /\ hasError \in BOOLEAN
    /\ activeSources \subseteq Sources
    /\ closedInputs \subseteq GraphInputs
    /\ blocked \subseteq Apps
    /\ seen \in [Workers -> [packets : SUBSET Edges, done : SUBSET Edges]]

LEMMA DataInit == Init => DataTyped
<1>. SUFFICES ASSUME Init PROVE DataTyped
  OBVIOUS
<1>1. seen \in [Workers -> [packets : SUBSET Edges, done : SUBSET Edges]]
  BY DEF Init, NoneSeen
<1>2. state \in States
  BY DEF Init, States
<1>3. /\ len \in [Edges -> Nat] /\ done \in [Edges -> BOOLEAN]
      /\ outClosed = {} /\ outDone = {} /\ closePending = {} /\ finalized = {}
      /\ hasError = FALSE /\ activeSources = {} /\ closedInputs = {} /\ blocked = {}
  BY DEF Init
<1>. QED  BY <1>1, <1>2, <1>3 DEF DataTyped

LEMMA DataStep == ThreadsInv /\ DataTyped /\ [Next]_vars => DataTyped'
<1>. SUFFICES ASSUME ThreadsInv, DataTyped, [Next]_vars PROVE DataTyped'
  OBVIOUS
<1>. USE DEF DataTyped
<1>0. AgendaInv
  BY DEF ThreadsInv
<1>1. CASE UNCHANGED vars
  BY <1>1 DEF vars, threadVars, streamVars, finalVars, schedVars
<1>2. ASSUME NEW t \in Threads, QueueStep(t) PROVE DataTyped'
  BY <1>2 DEF QueueStep, AddNode, SubmitToExecutor, SetRunning, SubmitWaiting, Cleanup,
              streamVars, finalVars, schedVars
<1>3. ASSUME NEW t \in Threads, StreamStep(t) PROVE DataTyped'
  <2>1. UNCHANGED <<finalVars, schedVars, blocked, seen>>
    BY <1>3 DEF StreamStep, AddPackets, SetDone, PostProcess, BoundDone, CloseManager
  <2>2. len' \in [Edges -> Nat] /\ done' \in [Edges -> BOOLEAN]
    <3>1. CASE AddPackets(t)
      <4>1. /\ At(t, "AddPackets") /\ done' = [done EXCEPT ![Arg(t, 2)] = FALSE]
            /\ len' = [len EXCEPT ![Arg(t, 2)] = @ + Arg(t, 3)]
        BY <3>1 DEF AddPackets
      <4>2. Arg(t, 2) \in Edges /\ Arg(t, 3) \in Nat
        BY <1>0, <4>1, ArgFacts
      <4>. QED  BY <4>1, <4>2
    <3>2. CASE SetDone(t)
      BY <3>2 DEF SetDone
    <3>3. CASE PostProcess(t) \/ BoundDone(t) \/ CloseManager(t)
      BY <3>3 DEF PostProcess, BoundDone, CloseManager, streamVars
    <3>. QED  BY <1>3, <3>1, <3>2, <3>3 DEF StreamStep
  <2>3. outClosed' \subseteq outDone' /\ outDone' \subseteq Producers
    <3>1. CASE AddPackets(t) \/ SetDone(t) \/ PostProcess(t)
      BY <3>1 DEF AddPackets, SetDone, PostProcess, streamVars
    <3>2. CASE BoundDone(t) \/ CloseManager(t)
      <4>1. PICK k \in {"BoundDone", "CloseManager"} : At(t, k)
        BY <3>2 DEF BoundDone, CloseManager
      <4>2. Arg(t, 2) \in Producers
        BY <1>0, <4>1, ArgFacts
      <4>. QED  BY <3>2, <4>2 DEF BoundDone, CloseManager
    <3>. QED  BY <1>3, <3>1, <3>2 DEF StreamStep
  <2>. QED  BY <2>1, <2>2, <2>3 DEF finalVars, schedVars
<1>4. ASSUME NEW t \in Threads, IdleStep(t) PROVE DataTyped'
  <2>1. UNCHANGED <<streamVars, finalVars, hasError, closedInputs, seen>>
    BY <1>4 DEF IdleStep, Enter, Leave, Begin, CheckIdle, Idle, Scan, DrainNode,
                FindUnfinalized, Judge, CloseNode, Terminate, schedVars
  <2>2. /\ state' = state \/ state' = "Terminated"
        /\ activeSources' \subseteq activeSources
        /\ blocked' \subseteq blocked
    BY <1>4 DEF IdleStep, Enter, Leave, Begin, CheckIdle, Idle, Scan, DrainNode,
                FindUnfinalized, Judge, CloseNode, Terminate, schedVars
  <2>3. state' \in States
    BY <2>2 DEF States
  <2>. QED  BY <2>1, <2>2, <2>3 DEF streamVars, finalVars
<1>5. ASSUME NEW w \in Workers, WorkerStep(w) PROVE DataTyped'
  <2>0. w \in Threads
    BY DEF Threads
  <2>1. CASE TakeTask(w) \/ TryPop(w) \/ Decrement(w) \/ Reschedule(w) \/ SafetyNet(w)
             \/ OnTaskFinished(w)
    BY <2>1 DEF TakeTask, TryPop, Decrement, Reschedule, SafetyNet, OnTaskFinished,
                streamVars, finalVars, schedVars
  <2>2. CASE PopQueueHead(w)
    <3>1. At(w, "PopQueueHead")
      BY <2>2 DEF PopQueueHead
    <3>2. PICK e \in Edges : e = Arg(w, 2)
      BY <1>0, <2>0, <3>1, ArgFacts
    <3>3. /\ UNCHANGED <<blocked, done, outDone, outClosed, finalVars, schedVars>>
          /\ \/ /\ len[e] > 0 /\ len' = [len EXCEPT ![e] = @ - 1]
                /\ seen' = [seen EXCEPT ![w].packets = @ \cup {e}]
             \/ /\ len' = len
                /\ seen' = [seen EXCEPT ![w].done = @ \cup (IF done[e] THEN {e} ELSE {})]
      BY <2>2, <3>2 DEF PopQueueHead
    <3>4. len' \in [Edges -> Nat]
      BY <3>3
    <3>5. seen' \in [Workers -> [packets : SUBSET Edges, done : SUBSET Edges]]
      BY <3>3
    <3>. QED  BY <3>3, <3>4, <3>5 DEF finalVars, schedVars
  <2>3. CASE Process(w)
    <3>1. /\ seen' = [seen EXCEPT ![w] = NoneSeen]
          /\ UNCHANGED <<blocked, len, done, outDone, outClosed, finalVars, schedVars>>
      BY <2>3 DEF Process
    <3>. QED  BY <3>1 DEF NoneSeen, finalVars, schedVars
  <2>4. CASE Finalize(w)
    <3>1. At(w, "Finalize") /\ UNCHANGED <<blocked, seen, streamVars, schedVars>>
      BY <2>4 DEF Finalize
    <3>2. Arg(w, 2) \in Nodes
      BY <1>0, <2>0, <3>1, ArgFacts DEF NodeKinds
    <3>3. closePending' \subseteq Nodes /\ finalized' \subseteq Nodes
      BY <2>4, <3>2 DEF Finalize, finalVars
    <3>. QED  BY <3>1, <3>3 DEF streamVars, schedVars
  <2>5. CASE SourceStopped(w)
    BY <2>5 DEF SourceStopped, streamVars, finalVars
  <2>6. CASE ErrorCallback(w)
    <3>1. hasError' = (hasError \/ (HasErrorCb /\ WorkerQueue[w] = DefaultQueue))
      BY <2>6 DEF ErrorCallback
    <3>2. hasError' \in BOOLEAN
      BY <3>1
    <3>. QED  BY <2>6, <3>2 DEF ErrorCallback, streamVars, finalVars
  <2>. QED  BY <1>5, <2>1, <2>2, <2>3, <2>4, <2>5, <2>6 DEF WorkerStep
<1>6. ASSUME NEW a \in Apps, AppStep(a) PROVE DataTyped'
  <2>0. a \in Threads
    BY DEF Threads
  <2>1. CASE CallStep(a)
    <3>1. UNCHANGED <<streamVars, finalVars, blocked, seen, activeSources, closedInputs>>
      BY <2>1 DEF CallStep, Start, AddPacketToInputStream, CloseInputStream, Cancel, Pause,
                  Resume, Shutdown, WaitUntilDone, Making, schedVars
    <3>2. /\ state' \in {state, "Running", "Terminated"}
          /\ hasError' \in {hasError, TRUE}
      BY <2>1 DEF CallStep, Start, AddPacketToInputStream, CloseInputStream, Cancel, Pause,
                  Resume, Shutdown, WaitUntilDone, schedVars
    <3>3. state' \in States
      BY <3>2 DEF States
    <3>. QED  BY <3>1, <3>2, <3>3 DEF streamVars, finalVars
  <2>2. CASE OpenSource(a)
    <3>1. Arg(a, 2) \in Sources
      BY <1>0, <2>0, <2>2, ArgFacts DEF OpenSource
    <3>. QED  BY <2>2, <3>1 DEF OpenSource, streamVars, finalVars
  <2>3. CASE IncClosedGraphInputStreams(a)
    <3>1. Arg(a, 2) \in GraphInputs
      BY <1>0, <2>0, <2>3, ArgFacts DEF IncClosedGraphInputStreams
    <3>. QED  BY <2>3, <3>1 DEF IncClosedGraphInputStreams, streamVars, finalVars
  <2>4. CASE SetState(a)
    <3>1. Arg(a, 2) \in States
      BY <1>0, <2>0, <2>4, ArgFacts DEF SetState, LaterStates
    <3>. QED  BY <2>4, <3>1 DEF SetState, streamVars, finalVars
  <2>5. CASE Notify(a) \/ Wait(a) \/ Block(a)
    BY <2>5 DEF Notify, Wait, Block, streamVars, finalVars, schedVars
  <2>. QED  BY <1>6, <2>1, <2>2, <2>3, <2>4, <2>5 DEF AppStep
<1>. QED  BY <1>1, <1>2, <1>3, <1>4, <1>5, <1>6 DEF Next, CommonStep

\* Every variable of a running graph has its type: no counter is negative,
\* HandleIdle is entered at most once per thread, and a closed output is Done.
THEOREM TypeCorrect == Spec => []TypeOK
<1>1. Spec => []DataTyped
  BY DataInit, DataStep, ThreadsCorrect, PTL DEF Spec
<1>2. ThreadsInv /\ DataTyped /\ QueueTypeOK => TypeOK
  <2>. SUFFICES ASSUME ThreadsInv, DataTyped, QueueTypeOK PROVE TypeOK
    OBVIOUS
  <2>1. handlingIdle \in 0..Cardinality(Threads)
    <3>1. handlingIdle = Cardinality(InHandleIdle) /\ InHandleIdle \subseteq Threads
      BY DEF ThreadsInv, AgendaInv, InHandleIdle
    <3>2. IsFiniteSet(Threads)
      BY ThreadsFinite
    <3>3. /\ IsFiniteSet(InHandleIdle) /\ Cardinality(InHandleIdle) <= Cardinality(Threads)
      BY <3>1, <3>2, FS_Subset
    <3>4. Cardinality(InHandleIdle) \in Nat /\ Cardinality(Threads) \in Nat
      BY <3>2, <3>3, FS_CardinalityType
    <3>. QED  BY <3>1, <3>3, <3>4
  <2>. QED  BY <2>1 DEF ThreadsInv, DataTyped, TypeOK
<1>. QED  BY <1>1, <1>2, ThreadsCorrect, QueuesTyped, PTL
=============================================================================
