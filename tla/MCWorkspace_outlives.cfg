\* One command of one caller.
CONSTANTS
    c1 = c1
    c2 = c2
    Callers = {c1}
    ProtectedNames = {"env"}
    ProtectedAreas = {}
    MaxRead = 3
    Foreign = {"E4"}
    Recoded <- MCRecoded
    LineEnds <- MCLineEnds
    Trees <- MCTrees
    Trusts <- MCTrusts
    FileCalls <- MCFileCalls
    CommandCalls <- MCCommandCalls
    MaxCalls = 1
    MaxDepth = 4
SPECIFICATION Spec
INVARIANTS NoCommandOutlivesItsCall
CHECK_DEADLOCK FALSE
