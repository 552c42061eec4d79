SPECIFICATION EarnSpec
CONSTANTS
    u1 = u1
    u2 = u2
    guest = guest
    s1 = s1
    s2 = s2
    c1 = c1
    c2 = c2
    r1 = r1
    r2 = r2
    Users = {u1, u2}
    Nobody = guest
    Accounts = {u1, guest}
    Referrer <- MCReferrer
    Events = {s1, s2}
    Earner <- MCEarner
    Reward <- MCReward
    ReferralPct = 30
    PlatformPct = 25
    Challenges = {c1}
    Verifiers = {1, 2}
    OverlappingVerify = TRUE
    Requests = {r1}
    Kind <- MCArticles
    Duration = 4
    DailyLimit = 2
    MaxBeats = 3
    FaultKinds = {}
    MaxFaults = 0
INVARIANTS
    OneRewardPerSolve
CHECK_DEADLOCK FALSE
