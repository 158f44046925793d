\* Two workers, two captures, two attempts and one fault.
SPECIFICATION Spec
CONSTANTS
    w1 = w1
    w2 = w2
    Workers = {w1, w2}
    Drafts <- MCDrafts
    MaxAttempts = 2
    MaxFaults = 1
SYMMETRY WorkerSymmetry
INVARIANTS
    WrittenOnce
    SavedIsInGraph
    NothingIsStranded
PROPERTIES
    InOrder
    SavedStays
CHECK_DEADLOCK FALSE
