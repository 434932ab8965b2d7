CONSTANTS
    Users = {u1, u2}
    Spaces = {s1, s2}
    Invites = {i1}
    None = None
    Clients = {c1, c2}
    PersonalSpaces = {s2}
    MaxMembers = 2
    MaxPending = 1
    MaxRuns = 2
    Requests = {"leave", "delete", "sharedWrite", "join"}
SPECIFICATION FairSpec
PROPERTIES EveryRequestEnds KeepsRules
