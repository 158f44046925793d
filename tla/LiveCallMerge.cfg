SPECIFICATION Spec
CONSTANTS
    owner = owner
    caller = caller
    m1 = m1
    m2 = m2
    None = None
    Incoming = {caller}
    Outgoing = {owner}
    Kinds <- MCKinds
    Merges = {m1, m2}
    Rooms = {m1, m2}
SYMMETRY MergeSymmetry
INVARIANTS
    QuietCallsAreCurrent
    NoMergeWithoutConsent
    MergingIsExecuting
PROPERTIES
    CallNeverRegresses
CHECK_DEADLOCK FALSE
