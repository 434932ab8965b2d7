CONSTANTS
    Invites = {i1}
    NoInvite = NoInvite
    Pollers = {p1, p2}
    Callers = {c1}
    MaxAttempts = 2
    PerInvite = 1
    PollBatch = 1
    MaxFailures = 0
    MaxStalls = 1
SYMMETRY ThreadSymmetry
SPECIFICATION Spec
PROPERTIES ResultOnlyByOwnAttempt
