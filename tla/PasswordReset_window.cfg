CONSTANTS
    Clients = {c1, c2}
    CodeTTL = 2
    TokenTTL = 1
    Cooldown = 1
    Window = 2
    MaxCodeAttempts = 2
    MaxAsked = 2
    MaxWrong = 1
    MaxTime = 4
    MaxWait = 1
    Requests = {"request", "verify"}
SYMMETRY ClientSymmetry
SPECIFICATION Spec
INVARIANT EndedWindowCountsNothing
