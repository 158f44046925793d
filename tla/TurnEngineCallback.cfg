SPECIFICATION TurnSpec
CONSTANTS
    None = None
    process = process
    finish = finish
    turn = turn
    rerun = rerun
    again = again
    ask = ask
    resume = resume
    answer = answer
    callback = callback
    pause = pause
    retry = retry
    tick = tick
    complete = complete
    cancel = cancel
    Calls = {turn, callback, pause, complete, cancel}
    Op <- MCOp
INVARIANTS
    ConflictsCannotImprove
CHECK_DEADLOCK FALSE
