SPECIFICATION FairSpec
CONSTANTS
    owner = owner
    caller = caller
    m1 = m1
    m2 = m2
    None = None
    Incoming = {caller}
    Outgoing = {owner}
    Kinds <- MCKinds
    Merges = {m1}
    Rooms = {m1}
PROPERTIES
    MergesAreReconciled
CHECK_DEADLOCK FALSE
