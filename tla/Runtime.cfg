\* TurnEngine, ExecutionRollup, DispatchOutbox and RealtimeCall, one at a time.
SPECIFICATION RuntimeSpec
CHECK_DEADLOCK FALSE
CONSTANTS
    None = None
    process = process
    finish = finish
    turn = turn
    rerun = rerun
    again = again
    ask = ask
    resume = resume
    answer = answer
    callback = callback
    pause = pause
    retry = retry
    tick = tick
    complete = complete
    cancel = cancel
    Calls = {process, finish, turn, rerun, again, ask, resume, answer, callback,
             pause, retry, tick, complete, cancel}
    Op <- MCOp

    draft = draft
    check = check
    send = send
    approval = approval
    NoSession = NoSession
    c1 = c1
    c2 = c2
    Sessions = {c1, c2}
    Steps = {draft, check, send}
    Gates = {approval}
    Prereqs <- MCPrereqs
    GatesOf <- MCGatesOf

    ring = ring
    text = text
    worker = worker
    Nobody = Nobody
    Dispatches = {ring, text}
    MaxAttempts <- MCMaxAttempts
    WorkerIds <- MCWorkerIds
    IdOf <- MCIdOf

    Deployments <- MCDeployments
    McpCalls = {m1, m2}
    LocalCalls = {f1}
    MaxTurns = 1
INVARIANTS
    AppliedOnceOrNever
    EachPauseWokenOnce
    TerminalRollupTruthful
    SerialRollupCurrent
    LostToNamesakesOnly
    ResultOfLastClaim
    GreetedAtMostOnce
    OpeningUninterrupted
    MemoryOnlyForTrusted
    AnsweredOnce
PROPERTIES
    EveryIntentSettles
    ListeningRestored
    ResultsSpoken
