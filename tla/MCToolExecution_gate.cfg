\* Two callers, one of them an agent on a task; the whole interplay of calls,
\* questions, stop, cancellation and restart.
CONSTANTS
    files = files
    here = here
    Callers = {c1, c2}
    TaskCallers = {c2}
    Capabilities <- MCCapabilities
    Places <- MCPlaces
    Requests <- MCRequests
    Policies <- MCPoliciesTwo
    DbFaults = FALSE
    Crashes = TRUE
SPECIFICATION Spec
INVARIANTS TypeOK NoOpenQuestionUnderStop PendingHasWaiter EventsFollowTheStop
PROPERTIES AnswersStand ImplementsGate
