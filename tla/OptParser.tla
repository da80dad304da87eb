----------------------------- MODULE OptParser -----------------------------
(***************************************************************************)
(* TParser of lib/optparser: one round of the loop of Parse per step, then *)
(* Check.  An exception ends the program, since no main catches it.        *)
(* argv[1] is the first argument behind the program's name.                *)
(***************************************************************************)
EXTENDS CommandLines, SequencesExt

CONSTANTS
    CommandLine     \* bound of the model: CommandLine[program] are the
                    \* sequences of arguments to try

ASSUME OptParserAssumption ==
    \A p \in Programs : CommandLine[p] \subseteq Seq(STRING)

VARIABLES
    program,        \* which program parses
    argv,
    optNum,
    freeArgNum,
    used,           \* the options with Used
    target,         \* what each option's target holds
    outcome         \* of Parse: "parsing", "accepted" or "rejected"

parserVars == <<program, argv, optNum, freeArgNum, used, target, outcome>>

Options == OptionsOf[program]
FreeArguments == FreeArgumentsOf(program)
IsDashed(word) == word \in Dashed(program)

Init ==
    /\ program \in Programs
    /\ argv \in CommandLine[program]
    /\ optNum = 1
    /\ freeArgNum = 0
    /\ used = {}
    /\ target = [o \in DOMAIN Options |-> Options[o].before]
    /\ outcome = "parsing"

Reject ==
    /\ outcome' = "rejected"
    /\ UNCHANGED <<program, argv, optNum, freeArgNum, used, target>>

-----------------------------------------------------------------------------
(* Handlers                                                                *)

Value(o, word) == FromString(Options[o].type, word)

HandleSingle(o, held, word) ==
    IF Options[o].handler = "AppendTo" THEN Append(held, Value(o, word))
    ELSE Value(o, word)

RunToTheEnd(i) == SubSeq(argv, i, Len(argv))                \* for a mutant

\* The arguments from i on that TRepeatedHandler takes.
Run(i) ==
    SubSeq(argv, i, i - 1 + Cardinality(
        {j \in i..Len(argv) : \A l \in i..j : ~IsDashed(argv[l])}))

LeavesTheLast(i) == i >= Len(argv)                          \* for a mutant
NothingLeft(i) == i > Len(argv)

\* TOpt::Handle with optNum = i.
Handle(o, i) ==
    IF Options[o].handler = "Store" /\ NothingLeft(i) THEN Reject
    ELSE LET taken == CASE Options[o].handler = "Store" -> <<argv[i]>>
                        [] Options[o].handler = "AppendTo" -> Run(i)
                        [] Options[o].handler = "SetFlag" -> <<>>
         IN  /\ used' = used \cup {o}
             /\ target' = [target EXCEPT ![o] =
                    CASE Options[o].handler = "Store" -> Value(o, argv[i])
                      [] Options[o].handler = "AppendTo" ->
                            @ \o [j \in DOMAIN taken |-> Value(o, taken[j])]
                      [] Options[o].handler = "SetFlag" -> TRUE]
             /\ optNum' = i + Len(taken)
             /\ UNCHANGED <<program, argv, outcome>>

-----------------------------------------------------------------------------
(* Parse                                                                   *)

InLoop == outcome = "parsing" /\ optNum <= Len(argv)

HandleFreeArg ==
    /\ InLoop
    /\ ~IsDashed(argv[optNum])
    /\ IF freeArgNum >= Len(FreeArguments) THEN Reject
       ELSE /\ Handle(FreeArguments[freeArgNum + 1], optNum)
            /\ freeArgNum' = freeArgNum + 1

HandleOptionInPlace ==                                      \* for a mutant
    /\ InLoop
    /\ IsDashed(argv[optNum])
    /\ IF argv[optNum] \notin Names(program) THEN Reject
       ELSE \E o \in DOMAIN Options :
              /\ argv[optNum] \in Options[o].names
              /\ Handle(o, optNum)
              /\ UNCHANGED freeArgNum

\* HandleLongOption and HandleShortOption; a lone dash has no name.
HandleOption ==
    /\ InLoop
    /\ IsDashed(argv[optNum])
    /\ IF argv[optNum] \notin Names(program) THEN Reject
       ELSE \E o \in DOMAIN Options :
              /\ argv[optNum] \in Options[o].names
              /\ Handle(o, optNum + 1)
              /\ UNCHANGED freeArgNum

Check ==
    LET Unused == DOMAIN Options \ used
        HasDefault(o) == Options[o].default # <<>>
    IN  /\ outcome = "parsing" /\ optNum > Len(argv)
        /\ IF \E o \in Unused : Options[o].required /\ ~HasDefault(o)
             THEN Reject
             ELSE /\ target' = [o \in DOMAIN Options |->
                         IF o \in Unused /\ HasDefault(o)
                           THEN HandleSingle(o, target[o], Options[o].default[1])
                           ELSE target[o]]
                  /\ used' = used \cup {o \in Unused : HasDefault(o)}
                  /\ outcome' = "accepted"
                  /\ UNCHANGED <<program, argv, optNum, freeArgNum>>

Parse == HandleFreeArg \/ HandleOption \/ Check

-----------------------------------------------------------------------------
(* Properties                                                              *)

Positions == DOMAIN argv

NamedBy(i) == {o \in DOMAIN Options : argv[i] \in Options[o].names}
StoresNext(i) == \E o \in NamedBy(i) : Options[o].handler = "Store"

\* What an argument is, from the arguments to its left alone: a name, unless
\* the name before it takes it for its value, ...
IsName[i \in Nat] ==
    i > 0 /\ IsDashed(argv[i]) /\ ~(IsName[i - 1] /\ StoresNext(i - 1))
IsValue(i) == IsName[i - 1] /\ StoresNext(i - 1)

\* ... and everything else belongs to the last name before it, if that name
\* repeats, or is free.
Appends(i) == \E o \in NamedBy(i) : Options[o].handler = "AppendTo"
BelongsTo(i, j) ==
    /\ j < i /\ IsName[j] /\ Appends(j)
    /\ \A l \in (j + 1)..i : ~IsName[l] /\ ~IsValue(l)
IsFree(i) ==
    ~IsName[i] /\ ~IsValue(i) /\ \A j \in Positions : ~BelongsTo(i, j)
FreeRuns == {i \in Positions : IsFree(i) /\ (i = 1 \/ ~IsFree(i - 1))}

NamesOf(o) == {i \in Positions : IsName[i] /\ o \in NamedBy(i)}
ValuesOf(o) ==
    {i \in Positions : \/ \E j \in NamesOf(o) : BelongsTo(i, j)
                       \/ IsFree(i) /\ FreeArguments = <<o>>}

\* The values of the arguments S in their order.
HoldsInOrder(held, o, S) ==
    /\ Len(held) = Cardinality(S)
    /\ \A i \in S : held[Cardinality({j \in S : j <= i})] = Value(o, argv[i])
Unset(o) ==
    IF Options[o].default = <<>> THEN Options[o].before
    ELSE Value(o, Options[o].default[1])

\* When Parse returns, each option has exactly the arguments that belong to
\* it: all values in their order for one that repeats, the last value for one
\* that is stored, and its default if it is not named.
ArgumentsGoWhereTheyBelong ==
    outcome = "accepted" => \A o \in DOMAIN Options :
        IF Options[o].handler = "AppendTo"
          THEN HoldsInOrder(target[o], o, ValuesOf(o))
          ELSE target[o] =
            CASE NamesOf(o) = {} -> Unset(o)
              [] NamesOf(o) # {} /\ Options[o].handler = "SetFlag" -> TRUE
              [] OTHER -> Value(o, argv[Max(NamesOf(o)) + 1])

\* Parse throws if and only if the command line is wrong: an unknown option, a
\* last one without its value, more free arguments than there are, or a
\* required option that is missing.
Wrong ==
    \/ \E i \in Positions : IsName[i] /\ NamedBy(i) = {}
    \/ \E i \in Positions : IsName[i] /\ StoresNext(i) /\ i = Len(argv)
    \/ Cardinality(FreeRuns) > Len(FreeArguments)
    \/ \E o \in DOMAIN Options :
          /\ Options[o].required
          /\ NamesOf(o) = {} /\ ValuesOf(o) = {}

WrongLinesAreRejected ==
    /\ outcome = "rejected" => Wrong
    /\ outcome = "accepted" => ~Wrong

=============================================================================
