\* One caller at a time under many settings and every risk, with grants, with
\* settings that change under a running turn and a database that may fail.
CONSTANTS
    files = files
    here = here
    Callers = {c1}
    TaskCallers = {}
    Capabilities <- MCCapabilities
    Places <- MCPlaces
    Requests <- MCAllRisks
    Policies <- MCPolicies
    DbFaults = TRUE
    Crashes = FALSE
SPECIFICATION FairSpec
INVARIANTS PolicyHeld
PROPERTIES CallsReturn
