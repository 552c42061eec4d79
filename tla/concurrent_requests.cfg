SPECIFICATION Spec
CONSTANTS
    k1 = k1
    k2 = k2
    w1 = w1
    w2 = w2
    u1 = u1
    Withdrawals = {w1, w2}
    Users = {u1}
    Owner <- MCOwner
    Amount <- MCAmount
    Method <- MCMethod
    Funds <- MCTightFunds
    ConcurrentRequests = TRUE
    Finality <- MCFinality
    Confirmations = {0, 1, 2}
    Workers = {k1}
    Slots = {1}
    MaxTries = 1
    FaultKinds = {}
    MaxFaults = 0
    MaxTransfers = 3
INVARIANTS
    BalanceNonNegative
CHECK_DEADLOCK FALSE
