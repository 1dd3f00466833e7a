\* The round limit of the code; up to two tool calls in a round.
CONSTANTS
    MAX_TOOL_ROUNDS = 6
    MaxCalls = 2
SPECIFICATION FairSpec
INVARIANTS RunsInOrder StepsTellTheStory DoneIsEarned
PROPERTIES CancelledGoesNoFurther RunEnds
