\* All generators over at most six elements.
SPECIFICATION Spec
CONSTANTS
    MaxN = 6
INVARIANTS
    OnlyExpectedValues
    AllValuesAtTheEnd
PROPERTIES
    LoopEnds
