CONSTANTS
    Clients = {c1, c2}
    CodeTTL = 2
    TokenTTL = 1
    Cooldown = 2
    Window = 3
    MaxCodeAttempts = 2
    MaxAsked = 2
    MaxWrong = 1
    MaxTime = 4
    MaxWait = 1
    Requests = {"request", "verify", "deliver"}
SYMMETRY ClientSymmetry
SPECIFICATION Spec
INVARIANTS RatesHold StatusOfLatestEmail
