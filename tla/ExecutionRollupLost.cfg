SPECIFICATION RollupSpec
CONSTANTS
    draft = draft
    check = check
    send = send
    approval = approval
    NoSession = NoSession
    c1 = c1
    c2 = c2
    Sessions = {c1, c2}
    Steps = {draft, check, send}
    Gates = {approval}
    Prereqs <- MCPrereqs
    GatesOf <- MCGatesOf
SYMMETRY SessionSymmetry
INVARIANTS
    QuietRollupCurrent
CHECK_DEADLOCK FALSE
