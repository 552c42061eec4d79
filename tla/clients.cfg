SPECIFICATION ClientsSpec
CONSTANTS
    c1 = c1
    c2 = c2
    u1 = u1
    u2 = u2
    nobody = nobody
    p1 = p1
    p2 = p2
    p3 = p3
    p4 = p4
    Second = 8
    AdSecs = 8
    Waits = {12, 16, 20}
    Lag = 0
    MaxTrip = 1
    MinSolve = 1
    MaxLost = 1
    Horizon = 72
    MaxBufferSize = 3
    ServerLimit = 4
    MaxEvents = 5
    Challenges = {c1, c2}
    None = none
    CurveMs <- MCCurveMs
    MaxPoints = 2
    MaxClock = 3
    Users = {u1, u2}
    Nobody = nobody
    Referrer <- MCReferrer
    Events = {p1, p2, p3, p4}
    Earner <- MCEarner
    Reward <- MCReward
    ReferralPct = 10
    PlatformPct = 25
    Trans <- MCTrans
    Outcome <- MCOutcome
    MaxCopies = 1
INVARIANTS
    ClientsTypeOK
    HonestViewerCredited
    TraceOfItsChallenge
    BatchAccepted
    OnePerTrans
    StoppedMeansLedgered
PROPERTIES
    PulseEnds
    AnimationEnds
    KeepsLog
CHECK_DEADLOCK FALSE
