\* Two workers, two captures, two attempts and one fault.
SPECIFICATION Spec
CONSTANTS
    w1 = w1
    w2 = w2
    Workers = {w1, w2}
    Drafts <- MCDrafts
    MaxAttempts = 2
    MaxFaults = 1
PROPERTIES
    OneLeasedJob
CHECK_DEADLOCK FALSE
