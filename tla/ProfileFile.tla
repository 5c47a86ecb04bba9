---------------------------- MODULE ProfileFile ----------------------------
(***************************************************************************)
(* The JSON file that WriteProfile writes (profiler/profile_writer.cc), as *)
(* a sequence of tokens, a token being a sequence of its kind and its      *)
(* value.  White space and the characters of a token are left out, but for *)
(* the exponent of a number, which the writer may print and the reader     *)
(* does not know.                                                          *)
(***************************************************************************)
EXTENDS Profiler, SequencesExt

CONSTANT PrintLimit   \* the least number an ostream prints with an exponent: 10^6

ASSUME ProfileFileAssumption == PrintLimit \in Nat

Tok(kind) == << <<kind>> >>
Str(s) == << <<"str", s>> >>
Num(v) == << <<"num", v>> >>

\* mean() with the six digits an ostream prints.  A mean below 10^-4, for which
\* a node has to be called ten thousand times in a microsecond, is left out.
UsesExponent(h) == h.count > 0 /\ 2 * h.total >= (2 * PrintLimit - 1) * h.count
Mean(h) == Num(IF h.count = 0 THEN 0 ELSE h.total \div h.count)
             \o (IF UsesExponent(h) THEN Tok("exp") ELSE <<>>)

\* An object from the sequence of its keys and values.
Object(members) ==
    Tok("{") \o FlattenSeq([i \in 1..Len(members) |->
                   (IF i > 1 THEN Tok(",") ELSE <<>>)
                     \o Str(members[i][1]) \o Tok(":") \o members[i][2]]) \o Tok("}")

Array(elements) ==
    Tok("[") \o FlattenSeq([i \in 1..Len(elements) |->
                   (IF i > 1 THEN Tok(",") ELSE <<>>) \o elements[i]]) \o Tok("]")

WriteNodeDataJson(n, d) ==
    Object(<< <<"node_name", Str(n)>>,
              <<"open_runtime_usec", Num(d.open)>>,
              <<"close_runtime_usec", Num(d.close)>>,
              <<"process_count", Num(d.hist.count)>>,
              <<"process_time_total_usec", Num(d.hist.total)>>,
              <<"process_time_mean_usec", Mean(d.hist)>>,
              <<"process_runtime",
                Object(<< <<"interval_size_usec", Num(IntervalSize)>>,
                          <<"num_intervals", Num(NumIntervals)>>,
                          <<"count", Num(d.hist.count)>>,
                          <<"total_usec", Num(d.hist.total)>>,
                          <<"buckets", Array([i \in 1..NumIntervals |-> Num(d.hist.buckets[i])])>>
                       >>)>> >>)

WriteProfilerConfigJson ==
    Object(<< <<"enable_profiler", Tok("bool")>>,
              <<"histogram_interval_size_usec", Num(IntervalSize)>>,
              <<"num_histogram_intervals", Num(NumIntervals)>>,
              <<"trace_log_path", Str("")>> >>)

\* The profile of the nodes in names, in the order of node_data_, a map.
Json(names, data) ==
    Object(<< <<"capture_time", Str("")>>,
              <<"node_count", Num(Len(names))>>,
              <<"profiler_config", WriteProfilerConfigJson>>,
              <<"nodes", Array([i \in 1..Len(names) |->
                                   WriteNodeDataJson(names[i], data[names[i]])])>> >>)
=============================================================================
