SPECIFICATION EditSpec
CONSTANTS
    k1 = k1
    k2 = k2
    w1 = w1
    w2 = w2
    u1 = u1
    Withdrawals = {w2}
    Users = {u1}
    Owner <- MCOwner
    Amount <- MCAmount
    Method <- MCMethod
    Funds <- MCFunds
    ConcurrentRequests = FALSE
    Finality <- MCFinality
    Confirmations = {0, 1, 2}
    Workers = {k1, k2}
    Slots = {1}
    MaxTries = 2
    FaultKinds = {"crash", "db_error"}
    MaxFaults = 1
    MaxTransfers = 3
INVARIANTS
    BalanceMatchesLedger
    ReviewedBeforePaid
CHECK_DEADLOCK FALSE
