--------------------------- MODULE ProfileReport ---------------------------
(***************************************************************************)
(* From the profiler to a report: the reader of Reporter::Accumulate and   *)
(* the report (profiler/reporter/reporter.cc), run over all files that     *)
(* WriteProfile wrote, as print_profile does                               *)
(* (profiler/reporter/tools/print_profile.cc).                             *)
(***************************************************************************)
EXTENDS SyncSchedule

CONSTANT
    INT64_MAX   \* the minimum of no averages

ASSUME ProfileReportAssumption == INT64_MAX \in Nat

VARIABLES
    level,    \* the loop of Accumulate the reader is in, or where Run is
    file,     \* the file it reads
    content,  \* content_, the tokens of the file
    pos,      \* pos_, an index of them
    entry,    \* the fields of the node it is reading
    accum     \* node_data_ of the Reporter

reportVars == <<level, file, content, pos, entry, accum>>
vars == <<syncVars, reportVars>>

-----------------------------------------------------------------------------
(* SimpleJsonReader: each operation gives the position it moves to.        *)

Kind(p) == IF p <= Len(content) THEN content[p][1] ELSE "end"

Expect(p, kind) == IF Kind(p) = kind THEN p + 1 ELSE p

\* ReadKey and ReadString, ReadInt64 and ReadDouble: a token of another kind
\* gives "" or 0, and the reader stays in front of it.
StringAt(p) == IF Kind(p) = "str" THEN content[p][2] ELSE ""
NumberAt(p) == IF Kind(p) = "num" THEN content[p][2] ELSE 0

Count(p, q, kinds) == Cardinality({i \in p..q : content[i][1] \in kinds})

\* Nested brackets are not counted.
MutAfterBracketFirst(p) ==
    LET ends(q) == content[q][1] \in {"}", "]"}
    IN  1 + CHOOSE q \in p + 1..Len(content) :
                ends(q) /\ \A r \in p + 1..q - 1 : ~ ends(r)

\* SkipObject and SkipArray: behind the bracket that matches the one at p.
AfterBracket(p) ==
    LET balanced(q) == Count(p, q, {"{", "["}) = Count(p, q, {"}", "]"})
    IN  1 + CHOOSE q \in p + 1..Len(content) :
                balanced(q) /\ \A r \in p + 1..q - 1 : ~ balanced(r)

\* Nothing is skipped of a token that begins with none of the characters the
\* reader looks for.
SkipValue(p) ==
    CASE Kind(p) \in {"{", "["} -> AfterBracket(p)
      [] Kind(p) \in {"str", "bool", "num"} -> p + 1
      [] OTHER -> p

-----------------------------------------------------------------------------
(* Reporter::Accumulate, one action for each round of its three loops.     *)

NoEntry == [node_name |-> "", open_runtime_usec |-> 0, close_runtime_usec |-> 0,
            process_count |-> 0, process_time_total_usec |-> 0]

ReportInit ==
    /\ Init
    /\ level = "NotRun" /\ file = 0 /\ content = <<>> /\ pos = 1
    /\ entry = NoEntry /\ accum = <<>>

\* The file is read at once and its first brace is passed.
OpenFile(i) ==
    /\ file' = i /\ content' = files[i].content /\ pos' = 2
    /\ level' = "top"

\* The next file, or the report.
EndOfFile ==
    \/ file < Len(files) /\ OpenFile(file + 1)
    \/ file = Len(files) /\ level' = "Reported" /\ UNCHANGED <<file, content, pos>>

\* Run of print_profile, once the program has ended: the files in order.
Run ==
    /\ level = "NotRun" /\ pc \in {"Returned", "OpenFailed"} /\ files # <<>>
    /\ canceller \in {"Outside", "Returned"}
    /\ OpenFile(1)
    /\ UNCHANGED <<entry, accum, syncVars>>

ReadMember ==
    /\ level = "top"
    /\ LET value == Expect(pos + 1, ":")
       IN  \/ /\ Kind(pos) # "str"
              /\ EndOfFile
           \/ /\ Kind(pos) = "str"
              /\ IF StringAt(pos) = "nodes" /\ Kind(value) = "["
                 THEN level' = "nodes" /\ pos' = value + 1
                 ELSE level' = level /\ pos' = Expect(SkipValue(value), ",")
              /\ UNCHANGED <<file, content>>
    /\ UNCHANGED <<entry, accum, syncVars>>

ReadNode ==
    /\ level = "nodes"
    /\ \/ /\ Kind(pos) \in {"]", "end"}
          /\ level' = "top" /\ pos' = Expect(pos, "]")
          /\ UNCHANGED entry
       \/ /\ Kind(pos) = "{"
          /\ level' = "fields" /\ pos' = pos + 1
          /\ entry' = NoEntry
       \/ /\ Kind(pos) \notin {"]", "end", "{"}
          /\ pos' = Expect(SkipValue(pos), ",")
          /\ UNCHANGED <<level, entry>>
    /\ UNCHANGED <<file, content, accum, syncVars>>

\* Every entry is taken for a new node's.
MutFindNever(a, name) == Len(a) + 1

\* Where node_data_ has the node, or the place behind its end.
Find(a, name) == IF \E i \in 1..Len(a) : a[i].name = name
                 THEN CHOOSE i \in 1..Len(a) : a[i].name = name ELSE Len(a) + 1

NewAccum(name) == [name |-> name, open |-> 0, close |-> 0, count |-> 0, total |-> 0,
                   min |-> INT64_MAX, max |-> 0]

\* The count of a file replaces the counts of the ones before.
MutAddProfileLastCount(x, e) ==
    [x EXCEPT !.open = e.open_runtime_usec,
              !.close = e.close_runtime_usec,
              !.count = e.process_count,
              !.total = @ + e.process_time_total_usec]

AddProfile(x, e) ==
    LET avg == e.process_time_total_usec \div e.process_count
    IN  [x EXCEPT !.open = e.open_runtime_usec,
                  !.close = e.close_runtime_usec,
                  !.count = @ + e.process_count,
                  !.total = @ + e.process_time_total_usec,
                  !.min = IF e.process_count > 0 /\ avg < @ THEN avg ELSE @,
                  !.max = IF e.process_count > 0 /\ avg > @ THEN avg ELSE @]

\* An entry without a name is dropped.
Merge(a, e) ==
    LET i == Find(a, e.node_name)
    IN  IF e.node_name = "" THEN a
        ELSE IF i <= Len(a) THEN [a EXCEPT ![i] = AddProfile(@, e)]
        ELSE Append(a, AddProfile(NewAccum(e.node_name), e))

ReadField ==
    /\ level = "fields"
    /\ LET field == StringAt(pos)
           value == Expect(pos + 1, ":")
           next == IF field = "node_name" THEN Expect(value, "str")
                   ELSE IF field \in DOMAIN entry \cup {"process_time_mean_usec"}
                        THEN Expect(value, "num")
                   ELSE SkipValue(value)
       IN  \/ /\ Kind(pos) # "str"
              /\ pos' = Expect(Expect(pos, "}"), ",")
              /\ level' = "nodes"
              /\ accum' = Merge(accum, entry)
              /\ UNCHANGED entry
           \/ /\ Kind(pos) = "str"
              /\ pos' = Expect(next, ",")
              /\ entry' = IF field = "node_name" THEN [entry EXCEPT !.node_name = StringAt(value)]
                          ELSE IF field \in DOMAIN entry
                               THEN [entry EXCEPT ![field] = NumberAt(value)]
                          ELSE entry
              /\ UNCHANGED <<level, accum>>
    /\ UNCHANGED <<file, content, syncVars>>

\* Report: the mean is a fraction, of which the whole part is kept here.
Report ==
    [i \in 1..Len(accum) |->
        [name |-> accum[i].name, open |-> accum[i].open, close |-> accum[i].close,
         count |-> accum[i].count, total |-> accum[i].total,
         mean |-> IF accum[i].count > 0 THEN accum[i].total \div accum[i].count ELSE 0,
         min |-> IF accum[i].min = INT64_MAX THEN 0 ELSE accum[i].min,
         max |-> accum[i].max]]

-----------------------------------------------------------------------------
ReadStep == ReadMember \/ ReadNode \/ ReadField

Next ==
    \/ SyncNext /\ level = "NotRun" /\ UNCHANGED reportVars
    \/ Run
    \/ ReadStep

Fairness == SyncFairness /\ WF_vars(ReadStep)

Spec == ReportInit /\ [][Next]_vars /\ Fairness

-----------------------------------------------------------------------------
(* Properties.                                                             *)

TypeOK ==
    /\ SyncTypeOK
    /\ level \in {"NotRun", "top", "nodes", "fields", "Reported"}
    /\ file \in 0..Len(files)
    /\ pos \in Nat
    /\ DOMAIN entry = DOMAIN NoEntry
    /\ Len(accum) <= Len(AllNodes)

\* What WriteProfile wrote is what the report says: for every node the counts
\* and the times of all files together, and the last file's times of Open and
\* Close (WriteProfile, Accumulate, Report).
ReportMatchesFiles ==
    LET sum(f(_)) == MapThenSumSet(f, 1..Len(files))
    IN  level = "Reported" =>
            \A n \in Nodes : \E i \in 1..Len(Report) :
                /\ Report[i].name = n
                /\ Report[i].count = sum(LAMBDA k : files[k].data[n].hist.count)
                /\ Report[i].total = sum(LAMBDA k : files[k].data[n].hist.total)
                /\ Report[i].open = files[Len(files)].data[n].open
                /\ Report[i].close = files[Len(files)].data[n].close

\* The reader gets to the end of the files that WriteProfile wrote, unless a
\* mean was printed with an exponent (SimpleJsonReader, Accumulate).
ReaderEnds ==
    /\ level = "top"
    /\ ~ \E i \in 1..Len(files) : \E n \in Nodes : UsesExponent(files[i].data[n].hist)
    ~> level = "Reported"
=============================================================================
