SPECIFICATION OutboxSpec
CONSTANTS
    ring = ring
    text = text
    worker = worker
    Nobody = Nobody
    Dispatches = {text}
    MaxAttempts <- MCMaxAttempts
    WorkerIds <- MCWorkerIds
    IdOf <- MCIdOf
INVARIANTS
    ClaimsExclusive
CHECK_DEADLOCK FALSE
