SPECIFICATION AdSpec
CONSTANTS
    adv = adv
    ann = ann
    nobody = nobody
    big = big
    small = small
    v1 = v1
    v2 = v2
    r1 = r1
    r2 = r2
    out = out
    back = back
    Users = {adv, ann}
    Nobody = nobody
    Referrer <- MCReferrer
    Events = {v1, v2}
    Earner <- MCEarner
    Reward <- MCReward
    ReferralPct = 50
    PlatformPct = 25
    Ads = {big, small}
    Advertiser <- MCAdvertiser
    AdReward <- MCAdReward
    Purchased <- MCPurchased
    AdOf <- MCAdOf
    Deposit <- MCDeposit
    AutoApprove = {TRUE}
    Requests = {r1, r2}
    Movements = {out, back}
    MovedUser <- MCMovedUser
    MovedSat <- MCMovedSat
INVARIANTS
    UsedUpIsCompleted
SYMMETRY Symmetric
CHECK_DEADLOCK FALSE
