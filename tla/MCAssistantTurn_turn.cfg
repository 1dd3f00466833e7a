CONSTANTS
    NoModel = NoModel
    Catalogue <- MCCatalogue
    Configured <- MCConfigured
    FreeRouter <- MCRouter
    t1 = t1
    t2 = t2
    Turns = {t1, t2}
    Inputs <- MCInputs
    Past <- MCPast
    MAX_TOOL_ROUNDS = 2
    HISTORY_LIMIT = 4
    MaxPieces = 2
    MaxCalls = 2
SPECIFICATION FairSpec
INVARIANTS OneAnswerPerTurn StoredIsShown OnlyTheRouterMayCost ResultsMatchCalls PromptIsTheConversation
PROPERTIES EveryTurnEnds
