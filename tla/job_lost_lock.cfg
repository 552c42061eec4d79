SPECIFICATION Spec
CONSTANTS
    k1 = k1
    k2 = k2
    w1 = w1
    w2 = w2
    u1 = u1
    Withdrawals = {w1}
    Users = {u1}
    Owner <- MCOwner
    Amount <- MCAmount
    Method <- MCMethod
    Funds <- MCFunds
    ConcurrentRequests = FALSE
    Finality <- MCFinality
    Confirmations = {0, 1, 2}
    Workers = {k1, k2}
    Slots = {1, 2}
    MaxTries = 3
    FaultKinds = {"evict"}
    MaxFaults = 1
    MaxTransfers = 3
INVARIANTS
    OneTransfer
CHECK_DEADLOCK FALSE
