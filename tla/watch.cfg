SPECIFICATION FairWatchSpec
CONSTANTS
    k1 = k1
    k2 = k2
    w1 = w1
    w2 = w2
    u1 = u1
    Withdrawals = {w1}
    Users = {u1}
    Owner <- MCOwner
    Amount <- MCAmount
    Method <- MCMethod
    Funds <- MCFunds
    ConcurrentRequests = FALSE
    Finality <- MCFinality
    Confirmations = {0, 1, 2, 3, 4}
    Sweepers = {k1, k2}
    LockExpires = FALSE
    MaxHeight = 4
INVARIANTS
    WatchTypeOK
    SentAtFinality
    TotalWithdrawnMatches
PROPERTIES
    ConfirmationsGrow
    MinedSettles
    KeepsPromise
CHECK_DEADLOCK FALSE
