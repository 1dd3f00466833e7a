\* Two operations that overlap, on a table with up to two memories.
CONSTANTS
    Callers = {c1, c2}
    Candidates <- MCCandidates
    SecretPhrases <- MCSecretPhrases
    Prefixes <- MCPrefixes
    LOOKUP_LIMIT = 2
    Patches <- MCPatches
    Before <- MCBefore
    MaxOps = 2
SPECIFICATION Spec
INVARIANTS StoredIsAllowed TwinsNeverSeen
