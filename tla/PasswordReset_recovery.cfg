CONSTANTS
    Clients = {c1, c2}
    CodeTTL = 3
    TokenTTL = 2
    Cooldown = 1
    Window = 4
    MaxCodeAttempts = 2
    MaxAsked = 2
    MaxWrong = 2
    MaxTime = 4
    MaxWait = 1
    Requests = {"request", "verify", "complete", "login", "verifyEmail"}
SYMMETRY ClientSymmetry
SPECIFICATION Spec
INVARIANTS TypeOK SessionsKnowThePassword
PROPERTIES ResetsWithinChallenge KeepsRecovery
