--------------------------- MODULE MCGraphWiring ---------------------------
(***************************************************************************)
(* GraphWiring on all configurations of up to three nodes and three        *)
(* streams, on pairs of nodes with every kind of name clash, and on        *)
(* documents with missing, empty and ill-typed members, read while         *)
(* libraries come and go.                                                  *)
(***************************************************************************)
EXTENDS GraphWiring, TLC

CONSTANTS a, b, c, x, t, u

Names == {a, b, c, x, t, u, NoName}
Types == {t, u}

Plain(s) == [port |-> s, stream |-> s]
Node(name, executor, ins, outs) ==
    [name |-> name, type |-> t, executor |-> executor, options |-> <<>>,
     input_streams |-> ins, output_streams |-> outs]
Pool(name, threads) == [name |-> name, num_threads |-> threads]
Config(nodes, executors, ins, outs) ==
    [nodes |-> nodes, executors |-> executors, input_streams |-> ins, output_streams |-> outs]

Lists == {<<>>, <<Plain(a)>>, <<Plain(b)>>, <<Plain(c)>>, <<Plain(a), Plain(b)>>,
          <<Plain(b), Plain(c)>>, <<Plain(c), Plain(a)>>}
Single == {<<>>, <<Plain(a)>>, <<Plain(b)>>, <<Plain(c)>>}

\* Three nodes, with and without a graph input.
Triples ==
    {Config(<<Node(a, NoName, i[1], o[1]), Node(b, NoName, i[2], o[2]),
              Node(c, NoName, i[3], o[3])>>, <<>>, s, <<>>) :
        i \in Lists \X Lists \X Lists, o \in Single \X Single \X Single, s \in {<<>>, <<c>>}}

\* Two nodes: clashes of names, ports, streams and executors.
Clashing == {<<Plain(a), Plain(a)>>, <<[port |-> x, stream |-> a], [port |-> x, stream |-> b]>>,
             <<Plain(a)>>, <<>>}
Pairs ==
    {Config(<<Node(a, x, i, o[1]), Node(n, NoName, <<Plain(b)>>, o[2])>>, e, s[1], s[2]) :
        i \in Clashing, n \in {a, b}, o \in Single \X Single,
        e \in {<<>>, <<Pool(NoName, 0)>>, <<Pool(x, 2)>>, <<Pool(x, -1), Pool(NoName, 0)>>,
               <<Pool(x, 1), Pool(x, 1)>>},
        s \in {<<>>, <<a>>, <<a, a>>} \X {<<>>, <<b>>}}

AllConfigs == Triples \cup Pairs

-----------------------------------------------------------------------------
\* Node definitions of a document: a source and consumers, complete or not.
Source == [name |-> a, type |-> t, output_streams |-> <<Plain(a)>>]
Consumer == [name |-> b, type |-> u, input_streams |-> <<Plain(a)>>, executor |-> x,
             options |-> [k \in {a, b} |-> c]]
SecondDefs ==
    {Consumer,
     [Consumer EXCEPT !.type = t],
     [Consumer EXCEPT !.name = a],                      \* rejected by Validate
     [Consumer EXCEPT !.options = <<>>],
     [Consumer EXCEPT !.options = Wrong],
     [Consumer EXCEPT !.options = [k \in {a} |-> Wrong]],
     [Consumer EXCEPT !.input_streams = Wrong],
     [Consumer EXCEPT !.name = Wrong],
     [Consumer EXCEPT !.type = Wrong],
     [name |-> b],
     [type |-> t]}

Roots == {[nodes |-> <<Source, second>>] : second \in SecondDefs}
         \cup {Wrong,
               [input_streams |-> Wrong],
               [executors |-> <<[name |-> x], [num_threads |-> Wrong]>>],
               [executors |-> <<[name |-> x], [num_threads |-> 2]>>,
                nodes |-> <<Source, Consumer>>]}

Document(extension, content, root) ==
    [extension |-> extension, content |-> content, root |-> root]
AllDocuments ==
    {Document("json", "json", root) : root \in Roots}
    \cup {Document(NoName, content, Wrong) : content \in {"missing", "malformed"}}
    \cup {Document("yaml", "json", Wrong)}

AllOptions == {<<>>} \cup {k :> v : k \in {a, b}, v \in {c, x}} \cup [{a, b} -> {c, x}]
AllOverrides == (u :> (a :> x))

OneType == <<t>>
AllPreloads == {<<t>>, <<u, t>>}
Concurrency == {0, 2}
Parsers == {"json"}
=============================================================================
