------------------------------ MODULE Earnings ------------------------------
(***************************************************************************)
(* The money side of an earning event: the `balance_ledgers` rows and the  *)
(* balance it adds to, and the referral commission that goes with it.      *)
(* An event is an earn session (a PTC view, a shortlink click, an article  *)
(* read); its reward_sat is fixed when it starts.                          *)
(***************************************************************************)
EXTENDS Integers, FiniteSets, FiniteSetsExt

CONSTANTS
    Users,
    Nobody,      \* the referrer_id of a user without one, the guest's user_id
    Referrer,    \* users.referrer_id
    Events,      \* what may be rewarded
    Earner,      \* whose event it is
    Reward,      \* its reward_sat
    ReferralPct, \* satpeek.referral.commission_pct
    PlatformPct  \* satpeek.ads.commission_pct

ASSUME NobodyAssumption   == Nobody \notin Users
ASSUME ReferrerAssumption == Referrer \in [Users -> Users \cup {Nobody}]
ASSUME EarnerAssumption   == Earner \in [Events -> Users]
ASSUME RewardAssumption   == Reward \in [Events -> Nat \ {0}]
ASSUME PctAssumption      == ReferralPct \in Int /\ PlatformPct \in Int

VARIABLES
    earned,  \* (reason, event) pairs of the ledger: the partial UNIQUE index
    wallet   \* balance_sat that came from earnings

moneyVars == <<earned, wallet>>

Kinds == {"reward", "referral_commission"}

MoneyTypeOK ==
    /\ earned \subseteq Kinds \X Events
    /\ wallet \in [Users -> Nat]

MoneyInit ==
    /\ earned = {}
    /\ wallet = [u \in Users |-> 0]

----------------------------------------------------------------------------
(* ReferralPayout::settle.  The percentages come from the environment of    *)
(* the deployment: a negative one counts as zero, and the referrer's share  *)
(* is capped at the platform's.                                             *)

AtLeastZero(x) == IF x < 0 THEN 0 ELSE x
LesserOf(x, y) == IF x < y THEN x ELSE y

UncappedPct  == AtLeastZero(ReferralPct)     \* mutant of EffectivePct
EffectivePct == LesserOf(AtLeastZero(ReferralPct), AtLeastZero(PlatformPct))

Commission(amount) == (amount * EffectivePct) \div 100

(* What the referrer of x's earner is due: nothing without a referrer.      *)
Share(x) == IF Referrer[Earner[x]] = Nobody THEN 0 ELSE Commission(Reward[x])

RewardRows(x) ==
    {<<"reward", x>>} \cup
    (IF Share(x) > 0 THEN {<<"referral_commission", x>>} ELSE {})

Gain_NoShare(u, x) == IF u = Earner[x] THEN Reward[x] ELSE 0 \* mutant of Gain
Gain(u, x) ==
    (IF u = Earner[x] THEN Reward[x] ELSE 0)
    + (IF u = Referrer[Earner[x]] THEN Share(x) ELSE 0)

(* The rows and the increments of one event, in one transaction.  The       *)
(* UNIQUE index aborts it when a row is already there.                      *)
Grant(x) ==
    /\ RewardRows(x) \cap earned = {}
    /\ earned' = earned \cup RewardRows(x)
    /\ wallet' = [u \in Users |-> wallet[u] + Gain(u, x)]

Rewarded == {x \in Events : <<"reward", x>> \in earned}

----------------------------------------------------------------------------
(* The commission is "funded from the platform's commission pool": it comes *)
(* with a reward, and is at most the platform's percentage of that reward,  *)
(* whatever the two percentages are set to (ReferralPayout:15-36).          *)
ReferralFunded ==
    \A x \in Events : <<"referral_commission", x>> \in earned =>
        /\ x \in Rewarded
        /\ 100 * Share(x) <= Reward[x] * PlatformPct

(* The ledger explains the balance of every user: its rewards and the       *)
(* commissions on the rewards of those it referred, each counted once.      *)
EarningsMatch ==
    \A u \in Users :
        wallet[u] =
            MapThenSumSet(LAMBDA x : Reward[x],
                          {x \in Rewarded : Earner[x] = u})
            + MapThenSumSet(LAMBDA x : Share(x),
                            {x \in Events :
                                /\ Referrer[Earner[x]] = u
                                /\ <<"referral_commission", x>> \in earned})
============================================================================
