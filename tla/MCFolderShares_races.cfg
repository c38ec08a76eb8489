SPECIFICATION FairSpec
CONSTANTS
    m1 = m1
    m2 = m2
    Matters = {m1, m2}
    RoleOf <- OwnAndContext
    Sharers = {s1}
    Removers = {r1}
    MaxIds = 2
    MaxRequests = 3
    MaxFaults = 1
INVARIANTS TypeOK   
CHECK_DEADLOCK FALSE
PROPERTY PendingEnds
