SPECIFICATION SystemSpec
CONSTANTS
    k1 = k1
    k2 = k2
    w1 = w1
    w2 = w2
    u1 = u1
    Withdrawals = {w2}
    Users = {u1}
    Owner <- MCOwner
    Amount <- MCAmount
    Method <- MCMethod
    Funds <- MCFunds
    ConcurrentRequests = FALSE
    Finality <- MCFinality
    Confirmations = {0, 1, 2, 3, 4}
    Workers = {k1}
    Slots = {1, 2}
    MaxTries = 2
    FaultKinds = {"evict"}
    MaxFaults = 1
    MaxTransfers = 3
    Sweepers = {k1, k2}
    LockExpires = TRUE
    MaxHeight = 3
INVARIANTS
    RefundedOnlyIfReverted
PROPERTIES
    TablesOnly
    
CHECK_DEADLOCK FALSE
