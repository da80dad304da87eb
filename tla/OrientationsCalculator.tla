----------------------- MODULE OrientationsCalculator -----------------------
(***************************************************************************)
(* acyclic_orientations_calculator/main.cpp: after the options, a loop     *)
(* that reads a complete graph, the number of edges to delete and the      *)
(* edges, and writes the number of acyclic orientations of what is left.   *)
(* Graphs and edges are read with getline, the number with operator>>,     *)
(* which leaves the rest of its line to the next getline.                  *)
(*                                                                         *)
(* A line is the sequence of its words, split at every space: "1 2" is     *)
(* <<"1", "2">>, a space at an end of the line makes an empty word there,  *)
(* and the empty line is <<"">>.  Which lines the input has is decided as  *)
(* they are read.  The counting itself is that of MultipartiteGraphs; an   *)
(* answer is the graph it is for.  The other two programs end with their   *)
(* command line here.                                                      *)
(***************************************************************************)
EXTENDS OptParser

CONSTANTS
    Lines,      \* bounds of the model: the lines of the input, ...
    MaxLines,   \* ... how many it has at most, ...
    MaxCount    \* ... and the values of an uninitialised number

ASSUME CalculatorAssumption ==
    /\ Lines \subseteq Seq(STRING) /\ <<>> \notin Lines
    /\ MaxLines \in Nat /\ MaxCount \in Nat

VARIABLES
    at,         \* "main", the prompt "graph", "count" or "edge", or how the
                \* program stopped: "ended", "thrown" or "spinning"
    read,       \* the lines read so far
    rest,       \* the unread rest of the last line, <<>> if there is none
    failed,     \* the stream has its failbit
    graph,      \* completeGraph
    count,      \* edgeCount - edgeNum
    edges,
    answers

inputVars == <<read, rest, failed>>
queryVars == <<graph, count, edges>>
calculatorVars == <<parserVars, at, inputVars, queryVars, answers>>

CalculatorInit ==
    /\ Init
    /\ at = "main"
    /\ read = <<>> /\ rest = <<>> /\ failed = FALSE
    /\ graph = <<>> /\ count = 0 /\ edges = {}
    /\ answers = <<>>

\* main up to the loop: a named input file may not be there.
OpenStreams ==
    /\ at = "main" /\ outcome = "accepted" /\ program = "calculator"
    /\ failed' \in IF target["inputFile"] = "" THEN {FALSE} ELSE BOOLEAN
    /\ at' = "graph"
    /\ UNCHANGED <<parserVars, read, rest, queryVars, answers>>

-----------------------------------------------------------------------------
(* The stream                                                              *)

\* std::getline: the rest of a line counts as a line.
GetLine(line) ==
    /\ ~failed
    /\ IF rest # <<>> THEN line = rest /\ UNCHANGED read
       ELSE Len(read) < MaxLines /\ read' = Append(read, line)
    /\ rest' = <<>>
    /\ UNCHANGED failed

\* A call of GetNonEmptyLine.
ReadsALine == at = "graph" \/ (at = "edge" /\ count > 0)

AnyLine == IF rest # <<>> THEN {rest} ELSE Lines
Empty(line) == line = <<"">>

\* The loop of GetNonEmptyLine.
SkipEmptyLine ==
    /\ ReadsALine
    /\ \E line \in AnyLine : Empty(line) /\ GetLine(line)
    /\ UNCHANGED <<parserVars, at, queryVars, answers>>

\* The input ends here, or it has failed before: getline gives no line, and
\* GetNonEmptyLine never returns.
Spin ==
    /\ ReadsALine
    /\ failed \/ rest = <<>>
    /\ failed' = TRUE
    /\ at' = "spinning"
    /\ UNCHANGED <<parserVars, read, rest, queryVars, answers>>

\* ReadLine throws: a word is no number.  A space before a word belongs to it,
\* a last space to nothing.
IsBad(line) ==
    \/ \E i \in DOMAIN line : line[i] \notin DOMAIN Number \cup {""}
    \/ \E i \in 1..(Len(line) - 1) : line[i] = ""

ReadLine(line) ==
    LET words == SelectSeq(line, LAMBDA word : word # "")
    IN  [i \in DOMAIN words |-> Number[words[i]]]

Throw ==
    /\ ReadsALine
    /\ \E line \in AnyLine :
          /\ ~Empty(line) /\ IsBad(line)
          /\ at = "graph" => line # <<"exit">>
          /\ GetLine(line)
    /\ at' = "thrown"
    /\ UNCHANGED <<parserVars, queryVars, answers>>

-----------------------------------------------------------------------------
(* RunOne                                                                  *)

Exit ==
    /\ at = "graph"
    /\ <<"exit">> \in AnyLine /\ GetLine(<<"exit">>)
    /\ at' = "ended"
    /\ UNCHANGED <<parserVars, queryVars, answers>>

AskCompleteGraphOnly ==                                     \* for a mutant
    /\ at = "graph"
    /\ \E line \in AnyLine :
          /\ ~Empty(line) /\ ~IsBad(line) /\ GetLine(line)
          /\ graph' = ReadLine(line)
    /\ at' = "count"
    /\ UNCHANGED <<parserVars, count, edges, answers>>

\* A new set of edges for each graph.
AskCompleteGraph ==
    /\ at = "graph"
    /\ \E line \in AnyLine :
          /\ ~Empty(line) /\ ~IsBad(line) /\ GetLine(line)
          /\ graph' = ReadLine(line)
    /\ edges' = {}
    /\ at' = "count"
    /\ UNCHANGED <<parserVars, count, answers>>

IsSpace(line) == \A i \in DOMAIN line : line[i] = ""

\* Input >> answer skips spaces and empty lines.
SkipSpace ==
    /\ at = "count"
    /\ \E line \in AnyLine : IsSpace(line) /\ GetLine(line)
    /\ UNCHANGED <<parserVars, at, queryVars, answers>>

\* What is left of a word behind its digits.
Behind(word) == IF word = "2x" THEN "x" ELSE ""

\* The first word is taken and the rest of the line stays.  A word that is no
\* number gives 0 and sets the failbit.
AskEdgeCount ==
    /\ at = "count"
    /\ \E line \in Lines : \E i \in DOMAIN line :
          /\ rest = <<>> /\ Len(read) < MaxLines
          /\ line[i] # "" /\ \A j \in 1..(i - 1) : line[j] = ""
          /\ read' = Append(read, line)
          /\ rest' = [SubSeq(line, i, Len(line)) EXCEPT ![1] = Behind(@)]
          /\ failed' = (line[i] \notin DOMAIN Number)
          /\ count' = IF failed' THEN 0 ELSE Number[line[i]]
    /\ at' = "edge"
    /\ UNCHANGED <<parserVars, graph, edges, answers>>

\* At the end of the input nothing is stored: the number is uninitialised.
AskEdgeCountAtTheEnd ==
    /\ at = "count"
    /\ rest = <<>>
    /\ failed' = TRUE
    /\ count' \in 0..MaxCount
    /\ at' = "edge"
    /\ UNCHANGED <<parserVars, read, rest, graph, edges, answers>>

\* Edges are equal in both directions.
EdgeOf(n) == {<<n[1], n[2]>>, <<n[3], n[4]>>}

AskEdge ==
    /\ at = "edge" /\ count > 0
    /\ \E line \in AnyLine :
          /\ ~Empty(line) /\ ~IsBad(line)
          /\ Len(ReadLine(line)) = 4
          /\ GetLine(line)
          /\ edges' = edges \cup {EdgeOf(ReadLine(line))}
    /\ count' = count - 1
    /\ UNCHANGED <<parserVars, at, graph, answers>>

\* Lines with less or more numbers are asked for again.
AskAgain ==
    /\ at = "edge" /\ count > 0
    /\ \E line \in AnyLine :
          /\ ~Empty(line) /\ ~IsBad(line)
          /\ Len(ReadLine(line)) # 4
          /\ GetLine(line)
    /\ UNCHANGED <<parserVars, at, queryVars, answers>>

WriteAnswer ==
    /\ at = "edge" /\ count = 0
    /\ answers' = Append(answers, [graph |-> graph, edges |-> edges])
    /\ at' = "graph"
    /\ UNCHANGED <<parserVars, inputVars, queryVars>>

RunOne ==
    \/ SkipEmptyLine \/ Spin \/ Throw
    \/ Exit \/ AskCompleteGraph
    \/ SkipSpace \/ AskEdgeCount \/ AskEdgeCountAtTheEnd
    \/ AskEdge \/ AskAgain \/ WriteAnswer

CalculatorNext ==
    \/ Parse /\ UNCHANGED <<at, inputVars, queryVars, answers>>
    \/ OpenStreams
    \/ RunOne

\* One thread, which runs.
CalculatorSpec ==
    /\ CalculatorInit /\ [][CalculatorNext]_calculatorVars
    /\ WF_calculatorVars(CalculatorNext)

-----------------------------------------------------------------------------
(* Properties                                                              *)

\* operator>> reads n from this line: spaces, and a word that starts with it.
StartsWith(line, n) ==
    \E i \in DOMAIN line :
        /\ \A j \in 1..(i - 1) : line[j] = ""
        /\ line[i] \in DOMAIN Number /\ Number[line[i]] = n

\* The lines a..b of L that have four numbers.
EdgeLines(L, a, b) ==
    {i \in a..b : ~Empty(L[i]) /\ ~IsBad(L[i]) /\ Len(ReadLine(L[i])) = 4}

\* The lines a..b of L are a query with this answer: g is the line with the
\* graph and c that with the number, and of the lines behind it as many as the
\* number says, the last one included, have four numbers.
IsQueryAt(L, a, b, g, c, answer) ==
    LET edgeLines == EdgeLines(L, c + 1, b)
    IN  /\ \A i \in a..(g - 1) : Empty(L[i])
        /\ ~Empty(L[g]) /\ ~IsBad(L[g]) /\ answer.graph = ReadLine(L[g])
        /\ \A i \in (g + 1)..(c - 1) : IsSpace(L[i])
        /\ StartsWith(L[c], Cardinality(edgeLines))
        /\ \A i \in (c + 1)..b : ~IsBad(L[i])
        /\ b = c \/ b \in edgeLines
        /\ answer.edges = {EdgeOf(ReadLine(L[i])) : i \in edgeLines}

IsQuery(L, a, b, answer) ==
    \E g \in a..b : \E c \in (g + 1)..b : IsQueryAt(L, a, b, g, c, answer)

\* The line behind the first n queries, if ends are the last lines of queries.
NextLine(ends, n) == IF n = 0 THEN 1 ELSE ends[n] + 1

\* From line a on the input is over.
IsOver(L, a) ==
    /\ \A i \in a..(Len(L) - 1) : Empty(L[i])
    /\ a <= Len(L) /\ L[Len(L)] = <<"exit">>

\* The first lines of the input are queries with these answers; if nothing
\* may be over, the input ends behind them.
AreQueries(given, nothingOver) ==
    \E ends \in [DOMAIN given -> 1..Len(read)] :
        /\ \A i \in DOMAIN given :
              IsQuery(read, NextLine(ends, i - 1), ends[i], given[i])
        /\ nothingOver => IsOver(read, NextLine(ends, Len(given)))

\* Every answer is for a query of the input, in their order, with its own
\* edges, and none is left out when the program ends: no line is read twice,
\* none is lost behind a number, and no edge stays for the next graph.  Only
\* the answer that was being asked for when the stream failed may be for a
\* query that nobody wrote.
AnswersAreQueries ==
    \/ AreQueries(answers, at = "ended")
    \/ /\ failed /\ answers # <<>>
       /\ AreQueries(Front(answers), FALSE)
       /\ Last(answers).edges = {}

\* Every command line is parsed to an end, and every finite input is read to an
\* end.  A program that then waits for a line of a stream that has none, in the
\* loop of GetNonEmptyLine, counts as settled here: it never ends.
ProgramSettles ==
    <>(\/ outcome = "rejected"
       \/ outcome = "accepted" /\ program # "calculator"
       \/ at \in {"ended", "thrown", "spinning"})

=============================================================================
