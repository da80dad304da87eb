---------------------- MODULE MCOrientationsCalculator ----------------------
(***************************************************************************)
(* TLC instance of OrientationsCalculator: every command line of up to     *)
(* three arguments for the other two programs, a few for the calculator,   *)
(* and every input of up to six of these lines.                            *)
(***************************************************************************)
EXTENDS OrientationsCalculator

UpTo(S, n) == UNION {[1..i -> S] : i \in 0..n}

MCCommandLine == [p \in Programs |->
    IF p = "calculator"
      THEN {<<>>, <<"-i", "word">>, <<"-i">>, <<"word">>, <<"-">>,
            <<"-o", "-i", "--input-file", "word">>}
      ELSE UpTo(Arguments(p), 3)]

\* Graphs, numbers, two edges, the end, an empty line, a space behind the last
\* word, and words that are no numbers.  A query takes two lines for no edge,
\* four for two edges, and three for one: "1 2" and "1 " ask for one edge, and
\* their rest is taken for a line and asked for again.
MCLines == {<<"1", "2">>, <<"0">>, <<"2">>, <<"2x">>,
            <<"0", "0", "1", "0">>, <<"1", "1", "0", "0">>,
            <<"exit">>, <<"">>, <<"1", "">>}

=============================================================================
