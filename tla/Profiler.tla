------------------------------ MODULE Profiler ------------------------------
(***************************************************************************)
(* TimeHistogram and the per-node data of GraphProfiler as values          *)
(* (profiler/time_histogram.cc, profiler/graph_profiler.cc).  One critical *)
(* section of the code is one operator.  Times are microseconds.           *)
(***************************************************************************)
EXTENDS Integers, Sequences, FiniteSetsExt

CONSTANTS
    IntervalSize,   \* histogram_interval_size_usec
    NumIntervals,   \* num_histogram_intervals
    INT_MAX         \* the largest int, to which a bucket's index is cast

\* The code divides by the one and indexes with the other, and checks neither.
ASSUME ProfilerAssumption ==
    /\ IntervalSize \in Nat \ {0}
    /\ NumIntervals \in Nat \ {0}
    /\ INT_MAX \in Nat /\ NumIntervals <= INT_MAX

Histograms == [count : Nat, total : Nat, buckets : [1..NumIntervals -> Nat]]

Initialize == [count |-> 0, total |-> 0, buckets |-> [i \in 1..NumIntervals |-> 0]]

\* static_cast<int>.
ToInt(x) == ((x + INT_MAX + 1) % (2 * INT_MAX + 2)) - INT_MAX - 1

Clamp(x, low, high) == IF x < low THEN low ELSE IF x > high THEN high ELSE x

Duration(start, end) == IF end < start THEN 0 ELSE end - start

\* buckets_ counts from 0.
Bucket(duration) == 1 + Clamp(ToInt(duration \div IntervalSize), 0, NumIntervals - 1)

AddSample(h, start, end) ==
    LET d == Duration(start, end)
    IN  [count |-> h.count + 1, total |-> h.total + d,
         buckets |-> [h.buckets EXCEPT ![Bucket(d)] = @ + 1]]

\* PerNodeData.
PerNodeData == [open : Nat, close : Nat, hist : Histograms]

NewNodeData == [open |-> 0, close |-> 0, hist |-> Initialize]

\* total_ keeps its value.
MutResetKeepsTotal(data) ==
    [n \in DOMAIN data |-> [NewNodeData EXCEPT !.hist.total = data[n].hist.total]]

Reset(data) == [n \in DOMAIN data |-> NewNodeData]

\* SetOpenRuntime, AddProcessSample and SetCloseRuntime.
Record(data, type, n, start, end) ==
    CASE type = "OPEN"    -> [data EXCEPT ![n].open = Duration(start, end)]
      [] type = "PROCESS" -> [data EXCEPT ![n].hist = AddSample(@, start, end)]
      [] type = "CLOSE"   -> [data EXCEPT ![n].close = Duration(start, end)]

-----------------------------------------------------------------------------
\* The buckets of h count every sample once, and no sample is in a bucket that
\* is too high for it.
AddsUp(h) ==
    /\ MapThenSumSet(LAMBDA i : h.buckets[i], 1..NumIntervals) = h.count
    /\ MapThenSumSet(LAMBDA i : (i - 1) * IntervalSize * h.buckets[i], 1..NumIntervals) <= h.total
=============================================================================
