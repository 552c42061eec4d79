SPECIFICATION FairSpec
CONSTANTS
    k1 = k1
    k2 = k2
    w1 = w1
    w2 = w2
    u1 = u1
    Withdrawals = {w1, w2}
    Users = {u1}
    Owner <- MCOwner
    Amount <- MCAmount
    Method <- MCMethod
    Funds <- MCTightFunds
    ConcurrentRequests = FALSE
    Finality <- MCFinality
    Confirmations = {0, 1, 2}
    Workers = {k1, k2}
    Slots = {1}
    MaxTries = 3
    FaultKinds = {"evict", "timeout", "db_error", "ambiguous"}
    MaxFaults = 2
    MaxTransfers = 3
INVARIANTS
    TypeOK
    RefundMatchesStatus
    BalanceNonNegative
    SentMeansPaid
PROPERTIES
    TerminalIsFinal
    InFlightSettles
    
CHECK_DEADLOCK FALSE
