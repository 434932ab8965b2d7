CONSTANTS
    Invites = {i1}
    NoInvite = NoInvite
    Pollers = {p1}
    Callers = {c1}
    MaxAttempts = 2
    PerInvite = 2
    PollBatch = 1
    MaxFailures = 1
    MaxStalls = 0
SPECIFICATION FairSpec
INVARIANTS TypeOK NoLostEmail OutcomeHasCause AttemptBudget
PROPERTIES EndedRowsStay ResultOnlyByOwnAttempt ExpiredLeavesQueue KeepsPromise KeepsPromiseInTime
