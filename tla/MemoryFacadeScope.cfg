SPECIFICATION Spec
CONSTANTS
    Modes = {"legacy"}
    Calls = {r1, r2}
    Memories = {m1, m2}
    NoMemory = NoMemory
    Captures = {c1}
    Limit = 1
    MaxCalls = 3
    MaxFaults = 1
CHECK_DEADLOCK FALSE
INVARIANTS
    ScopeRecreated
