----------------------------- MODULE Timestamp -----------------------------
(***************************************************************************)
(* Timestamp and TimestampDiff (stream/timestamp.cc): a 64-bit integer     *)
(* whose three values at either end are reserved, with two more that name  *)
(* the ends of the range packets are ordered in.                           *)
(***************************************************************************)
EXTENDS Integers

CONSTANTS INT64_MIN, INT64_MAX   \* the ends of int64_t

ASSUME TimestampAssumption ==
    /\ INT64_MIN \in Int
    /\ INT64_MAX \in Int
    /\ INT64_MIN + 7 <= INT64_MAX

Timestamps == INT64_MIN..INT64_MAX

\* The named constructors.  Min and Max are called MinTime and MaxTime here.
Unset == INT64_MIN
Unstarted == INT64_MIN + 1
PreStream == INT64_MIN + 2
MinTime == INT64_MIN + 3
MaxTime == INT64_MAX - 3
PostStream == INT64_MAX - 2
OneOverPostStream == INT64_MAX - 1
Done == INT64_MAX

IsSpecialValue(t) == t <= MinTime \/ t >= MaxTime
IsRangeValue(t) == MinTime <= t /\ t <= MaxTime
IsAllowedInStream(t) == PreStream <= t /\ t <= PostStream

NextAllowedInStream(t) == IF t >= PostStream THEN OneOverPostStream ELSE t + 1
PreviousAllowedInStream(t) == IF t <= PreStream THEN Unstarted ELSE t - 1

\* What a sum of two int64_t that leaves the range comes to on a machine in
\* two's complement (the language leaves it undefined).
Wrap(x) == INT64_MIN + ((x - INT64_MIN) % (INT64_MAX - INT64_MIN + 1))

\* operator+ and operator- with a difference: the sum is formed before it is
\* clamped.
Plus(t, d) == IF Wrap(t + d) <= MaxTime THEN Wrap(t + d) ELSE MaxTime
Minus(t, d) == IF Wrap(t - d) >= MinTime THEN Wrap(t - d) ELSE MinTime

Later(t, u) == IF t > u THEN t ELSE u
Earlier(t, u) == IF t < u THEN t ELSE u
=============================================================================
