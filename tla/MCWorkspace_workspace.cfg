\* Two calls by two callers, among them processes that ignore the first signal.
CONSTANTS
    c1 = c1
    c2 = c2
    Callers = {c1, c2}
    ProtectedNames = {"env"}
    ProtectedAreas = {}
    MaxRead = 3
    Foreign = {"E4"}
    Recoded <- MCRecoded
    LineEnds <- MCLineEnds
    Trees <- MCTrees
    Trusts <- MCTrusts
    FileCalls <- MCFileCalls
    CommandCalls <- MCCommandCalls
    MaxCalls = 2
    MaxDepth = 4
SPECIFICATION FairSpec
PROPERTIES OnlyWhatWasNamed PatchChangesOnePlace CommandsEnd
CHECK_DEADLOCK FALSE
