SPECIFICATION EarnSpec
CONSTANTS
    u1 = u1
    u2 = u2
    guest = guest
    s1 = s1
    s2 = s2
    c1 = c1
    c2 = c2
    r1 = r1
    r2 = r2
    Users = {u1, u2}
    Nobody = guest
    Accounts = {u1, guest}
    Referrer <- MCReferrer
    Events = {s1, s2}
    Earner <- MCEarner
    Reward <- MCReward
    ReferralPct = 30
    PlatformPct = 25
    Challenges = {c1, c2}
    Verifiers = {1}
    OverlappingVerify = FALSE
    Requests = {r1, r2}
    Kind <- MCMixed
    Duration = 4
    DailyLimit = 2
    MaxBeats = 3
    FaultKinds = {"crash", "db_error"}
    MaxFaults = 1
INVARIANTS
    EarnTypeOK
    OneRewardPerSolve
    NoSilentLoss
    StatusMatchesLedger
    EarningsMatch
    ReferralFunded
PROPERTIES
    RejectedStaysUnpaid
    KeepsSolvePromise
SYMMETRY Symmetric
CHECK_DEADLOCK FALSE
