CONSTANTS
    Clients = {c1, c2}
    Details = {d1, d2}
    NoDetails = NoDetails
    MaxAttempts = 2
    Cooldown = 1
    CodeTTL = 2
    MaxCodes = 2
    MaxTime = 3
SYMMETRY ClientSymmetry
SPECIFICATION Spec
INVARIANTS TypeOK StatusOfLatestSend
PROPERTIES KeepsAccount
