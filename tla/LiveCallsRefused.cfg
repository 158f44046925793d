SPECIFICATION Spec
CONSTANTS
    owner = owner
    caller = caller
    m1 = m1
    m2 = m2
    None = None
    Incoming = {caller}
    Outgoing = {owner}
    Kinds <- MCKinds
    Merges = {}
    Rooms = {}
INVARIANTS
    EveryCallbackIsAudited
CHECK_DEADLOCK FALSE
