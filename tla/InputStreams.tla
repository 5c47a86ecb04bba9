---------------------------- MODULE InputStreams ----------------------------
(***************************************************************************)
(* The InputStreamManager (stream/input_stream_manager.cc) as a value and  *)
(* the operations on it.  One critical section of the code is one operator *)
(* from a manager to a manager.  A packet is its timestamp.                *)
(***************************************************************************)
EXTENDS Timestamp, Sequences

CONSTANT NoPacket   \* the empty packet

\* The fields a manager's operations read or write.
Managers ==
    [queue  : Seq(Timestamps),   \* queue_
     bound  : Timestamps,        \* next_timestamp_bound_
     select : Timestamps,        \* last_select_timestamp_
     closed : BOOLEAN,           \* closed_
     max    : Int]               \* max_queue_size_, -1 for none

PrepareForRun(max) ==
    [queue |-> <<>>, bound |-> PreStream, select |-> Unstarted, closed |-> FALSE, max |-> max]

IsFull(m) == m.max # -1 /\ Len(m.queue) >= m.max

IsDone(m) == m.queue = <<>> /\ m.bound = Done

\* The timestamp a reader has to wait for, and whether no packet has it yet.
MinTimestampOrBound(m) ==
    [empty |-> m.queue = <<>>, ts |-> IF m.queue = <<>> THEN m.bound ELSE Head(m.queue)]

\* What AddPackets and MovePackets ask of a packet's timestamp.  It holds of
\* every one (CheckTimestampNeverFails), so they refuse none.
CheckTimestamp(t) == IsAllowedInStream(t) \/ IsSpecialValue(t)

\* AddPackets and MovePackets of the non-empty list ts.  The bound becomes
\* that of the last packet, whatever it was before.  A closed manager refuses
\* the packets, and no caller looks at the status.
AddPackets(m, ts) ==
    IF m.closed THEN m
    ELSE [m EXCEPT !.queue = @ \o ts, !.bound = NextAllowedInStream(ts[Len(ts)])]

SetNextTimestampBound(m, b) == IF b > m.bound THEN [m EXCEPT !.bound = b] ELSE m

Close(m) == IF m.closed THEN m ELSE [m EXCEPT !.closed = TRUE, !.bound = Done]

\* At most the front packet is taken; one that is older than t is thrown away
\* and the caller gets an empty packet in its place.
PopPacketAtTimestamp(m, t) ==
    LET take == m.queue # <<>> /\ Head(m.queue) <= t IN
    [mgr |-> [m EXCEPT !.queue = IF take THEN Tail(@) ELSE @,
                       !.select = t,
                       !.bound = IF @ <= t THEN NextAllowedInStream(t) ELSE @],
     packet |-> IF take /\ Head(m.queue) = t THEN t ELSE NoPacket]

PopQueueHead(m) ==
    [mgr |-> IF m.queue = <<>> THEN m ELSE [m EXCEPT !.queue = Tail(@)],
     packet |-> IF m.queue = <<>> THEN NoPacket ELSE Head(m.queue)]

\* What the callbacks are called for.

\* The queue's length is compared with the limit for equality.
MutBecomesFullExactly(m, n) == ~ IsFull(m) /\ Len(n.queue) = n.max

BecomesFull(m, n) == ~ IsFull(m) /\ IsFull(n)
BecomesNotFull(m, n) == IsFull(m) /\ ~ IsFull(n)
BecomesNonEmpty(m, n) == m.queue = <<>> /\ n.queue # <<>>
BoundAdvances(m, n) == n.bound > m.bound
=============================================================================
