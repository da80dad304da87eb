---------------------------- MODULE CommandLines ----------------------------
(***************************************************************************)
(* The options of the three programs, as they register them with TParser   *)
(* of lib/optparser, and the values of arguments.                          *)
(*                                                                         *)
(* An option is a record: the arguments that name it, the handler it has   *)
(* (Store, AppendTo or SetFlag), the type of the target, what the target   *)
(* holds before, whether it is required, and the default: a sequence of at *)
(* most one string.  A short option is found by the letter behind the      *)
(* dash, whatever comes after it: "-t4" names -t.                          *)
(***************************************************************************)
EXTENDS Naturals, Sequences

Option(names, handler, type, before) ==
    [names |-> names, handler |-> handler, type |-> type, before |-> before,
     required |-> FALSE, default |-> <<>>]
Required(option) == [option EXCEPT !.required = TRUE]
Default(option, value) == [option EXCEPT !.default = <<value>>]

\* TOptions::Parse of bin/graph_cases.cpp
GraphCases ==
    [s |-> Required(Option({"-s"}, "AppendTo", "number", <<>>)),
     t |-> Required(Option({"-t", "-t4"}, "AppendTo", "number", <<>>)),
     threadCount |-> Default(
         Option({"--thread-count"}, "Store", "number", 1), "6"),
     outputFile |-> Default(
         Option({"--output-file"}, "Store", "string", ""), ""),
     computeAll |-> Default(
         Option({"--compute-all"}, "SetFlag", "bool", TRUE), "false"),
     writeAllEdges |-> Default(
         Option({"--write-all-edges"}, "SetFlag", "bool", TRUE), "false")]

\* TOptions::ParseFromCommandLine of invariant_explorer/main.cpp
InvariantExplorer ==
    [graph |-> Required(Option({}, "AppendTo", "number", <<>>)),
     maxEdgeNumber |-> Default(
         Option({"-e", "--max-edge-number"}, "Store", "number", 0), "0"),
     invariant |-> Default(
         Option({"-i", "--invariant"}, "Store", "string", ""), "i4"),
     threadCount |-> Default(
         Option({"-t", "-t4", "--thread-count"}, "Store", "number", 0), "1"),
     maxQueueSize |-> Default(
         Option({"--max-queue-size"}, "Store", "number", 0), "1000")]

\* main of acyclic_orientations_calculator
Calculator ==
    [inputFile |-> Option({"-i", "--input-file"}, "Store", "string", ""),
     outputFile |-> Option({"-o", "--output-file"}, "Store", "string", "")]

Programs == {"graph_cases", "invariant_explorer", "calculator"}
OptionsOf == [program \in Programs |->
    CASE program = "graph_cases" -> GraphCases
      [] program = "invariant_explorer" -> InvariantExplorer
      [] program = "calculator" -> Calculator]

\* Arguments without a name, in their order.
FreeArgumentsOf(program) ==
    IF program = "invariant_explorer" THEN <<"graph">> ELSE <<>>

-----------------------------------------------------------------------------

\* What a user may write: all names, a lone dash, an unknown option, numbers
\* and a word.
Names(program) ==
    UNION {OptionsOf[program][o].names : o \in DOMAIN OptionsOf[program]}
Dashed(program) == Names(program) \cup {"-", "--unknown"}
Arguments(program) == Dashed(program) \cup {"1", "2x", "word"}

\* FromString: atoi reads as far as there are digits, and makes 0 of a word
\* without.
Number == [word \in {"0", "1", "2", "2x", "6", "1000"} |->
    CASE word = "0" -> 0 [] word = "1" -> 1 [] word \in {"2", "2x"} -> 2
      [] word = "6" -> 6 [] word = "1000" -> 1000]

FromString(type, word) ==
    CASE type = "number" -> IF word \in DOMAIN Number THEN Number[word] ELSE 0
      [] type = "bool" -> word = "true"
      [] type = "string" -> word

=============================================================================
