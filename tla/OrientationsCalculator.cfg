SPECIFICATION CalculatorSpec
CONSTANTS
    CommandLine <- MCCommandLine
    Lines <- MCLines
    MaxLines = 6
    MaxCount = 1
INVARIANTS
    ArgumentsGoWhereTheyBelong
    WrongLinesAreRejected
    AnswersAreQueries
PROPERTIES
    ProgramSettles
CHECK_DEADLOCK FALSE
