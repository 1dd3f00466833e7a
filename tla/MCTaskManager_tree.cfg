\* A task and its sub-task, one canceller or cancel_all, the stop, restarts.
CONSTANTS
    Tasks = {1, 2}
    Parent <- MCChain
    Requests = {r1}
    Stops = TRUE
    Crashes = TRUE
SPECIFICATION TasksFairSpec
INVARIANTS RunningIsReachable
PROPERTIES StopEndsTasks
