\* One page and one confirmation.
CONSTANTS
    Clients = {c1}
    Questions <- MCQuestions
    QueueSize = 2
    HistorySize = 3
    Replay = 2
    Restarts = TRUE
    MaxEvents = 4
SPECIFICATION FairSpec
INVARIANTS NoGapNoRepeat
PROPERTIES ImplementsFeed EventsArrive
