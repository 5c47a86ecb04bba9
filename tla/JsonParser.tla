----------------------------- MODULE JsonParser -----------------------------
(***************************************************************************)
(* The JSON front end, from graph_runtime/src/framework/config/json/       *)
(* json_parser.cc and config/parser_registry.cc.                           *)
(*                                                                         *)
(* A JSON object is a record with the members that are present.  Wrong is  *)
(* a value of a JSON type that its reader does not convert.  An entry of a *)
(* stream list is written as the port and the stream it names.             *)
(***************************************************************************)
EXTENDS Integers, Sequences

CONSTANTS
    NoName,        \* the empty string
    Wrong,
    Extensions     \* the file extensions with a registered parser

\* nlohmann::json::value; for Wrong it throws type_error.
Value(object, key, default) == IF key \in DOMAIN object THEN object[key] ELSE default

Throws(object, keys) == \E k \in keys : Value(object, k, NoName) = Wrong

\* The outcome of the first check that fails; a check is a condition for
\* failure and the outcome it leads to.
FirstFailure(checks) ==
    LET failed == {i \in DOMAIN checks : checks[i][1]}
    IN  IF failed = {} THEN "ok"
        ELSE checks[CHOOSE i \in failed : \A j \in failed : i <= j][2]

\* ParseNodeOptions: an option must be a scalar.
BadOption(options) == \E key \in DOMAIN options : options[key] = Wrong

\* One node definition: an error is returned for what the parser tests and
\* thrown for what only nlohmann tests; ParseJsonText catches parse_error only.
NodeOutcome(nj) ==
    LET options == Value(nj, "options", <<>>)
    IN  FirstFailure(<<
            <<Throws(nj, {"name"}), "thrown">>,
            <<Value(nj, "name", NoName) = NoName, "invalid">>,
            <<Throws(nj, {"type"}), "thrown">>,
            <<Value(nj, "type", NoName) = NoName, "invalid">>,
            <<Throws(nj, {"input_streams", "output_streams", "executor"}), "thrown">>,
            <<options = Wrong, "invalid">>,
            <<options # Wrong /\ BadOption(options), "invalid">>>>)

\* ParseJsonText up to its call of Validate.
Outcome(root) ==
    IF root = Wrong THEN "thrown"
    ELSE LET nodes == Value(root, "nodes", <<>>)
             executors == Value(root, "executors", <<>>)
         IN  FirstFailure(
                <<<<Throws(root, {"input_streams", "output_streams"}), "thrown">>,
                  <<\E i \in DOMAIN executors : Throws(executors[i], {"name", "num_threads"}),
                    "thrown">>>>
                \o [i \in DOMAIN nodes |-> <<NodeOutcome(nodes[i]) # "ok", NodeOutcome(nodes[i])>>])

\* The GraphConfig that the members give, with the defaults of json_parser.cc.
ConfigOf(root) ==
    LET nodes == Value(root, "nodes", <<>>)
        executors == Value(root, "executors", <<>>)
    IN  [nodes |-> [i \in DOMAIN nodes |->
            [name |-> nodes[i].name,
             type |-> nodes[i].type,
             executor |-> Value(nodes[i], "executor", NoName),
             options |-> Value(nodes[i], "options", <<>>),
             input_streams |-> Value(nodes[i], "input_streams", <<>>),
             output_streams |-> Value(nodes[i], "output_streams", <<>>)]],
         executors |-> [i \in DOMAIN executors |->
            [name |-> Value(executors[i], "name", NoName),
             num_threads |-> Value(executors[i], "num_threads", 0)]],
         input_streams |-> Value(root, "input_streams", <<>>),
         output_streams |-> Value(root, "output_streams", <<>>)]

\* ParserRegistry::CreateForFile finds a parser.
CreateForFile(extension) == extension \in Extensions

\* Reading a document: by the parser that CreateForFile returns for the
\* extension of the path, or, without an extension here, by a JsonParser the
\* application has made.
ReadOutcome(document) ==
    FirstFailure(<<
        <<document.extension # NoName /\ ~ CreateForFile(document.extension), "nullptr">>,
        <<document.content = "missing", "not_found">>,
        <<document.content = "malformed", "invalid">>>>)

=============================================================================
