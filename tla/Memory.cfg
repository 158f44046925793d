\* Of the resolver: three bundles of nine records, three to a page.
SPECIFICATION MemorySpec
CHECK_DEADLOCK FALSE
CONSTANTS
    Modes <- MCModes
    Calls = {r1, r2}
    Memories = {m1, m2}
    NoMemory = NoMemory
    Captures = {c1, c2}
    Limit = 1
    MaxCalls = 3
    MaxFaults = 1
    Entities <- MCEntities
    Facts <- MCFacts
    Bundles <- MCBundles
    None = 0
    PageSize = 3
    MaxPages = 4
    MaxNow = 2
    Names = {"alex"}
    MatchLimit = 2
    ContextLimit = 1
    MaxSteps = 2
INVARIANTS
    FailuresExplained
    SearchMissesOnlyWhatMoved
    NeverFalselyEmpty
    NamesakesRead
    CorrectionsApply
    NoFalseAlarm
