CONSTANTS
    Users = {u1, u2, u3}
    Spaces = {s1}
    Invites = {i1, i2}
    None = None
    Clients = {c1, c2}
    PersonalSpaces = {}
    MaxMembers = 3
    MaxPending = 2
    MaxRuns = 3
    Requests = {"leave", "remove", "delete", "join", "invite", "resend", "revoke", "write", "sharedWrite"}
SYMMETRY NameSymmetry
SPECIFICATION Spec
PROPERTIES KeepsRules
INVARIANTS TypeOK SpacesOwned ChecksStillHold OneInvitePerAddress NoCrosswiseWait
