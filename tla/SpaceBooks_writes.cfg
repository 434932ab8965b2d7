CONSTANTS
    c1 = c1
    c2 = c2
    t1 = t1
    t2 = t2
    l1 = l1
    l2 = l2
    food = food
    pay = pay
    o1 = o1
    k1 = k1
    Clients = {c1, c2}
    Wallets = {1, 2}
    Categories = {food, pay}
    System = System
    TypeOf <- CategoryTypes
    Txns = {t1, t2}
    Limits = {l1, l2}
    OpIds = {o1}
    Keys = {k1}
    None = None
    KeyTTL = 1
    MaxClaims = 2
    MaxTime = 2
    Requests <- WriteRequests
SYMMETRY ClientSymmetry
SPECIFICATION Spec
INVARIANTS TypeOK AnswersAddUp
PROPERTIES OncePerKey OneChangePerVersion KeepsBooks
