------------------------------ MODULE AdBudget ------------------------------
(***************************************************************************)
(* Ads that advertisers pay for: AdvertiseController sells views from the  *)
(* advertiser's balance, PtcAdResource approves an ad or rejects it and    *)
(* refunds the views that are left, and each view that PtcController       *)
(* credits takes one from the budget.  The events of Earnings are here the *)
(* views of these ads.  What a request read of an ad may be stale when it  *)
(* writes; captchas and gates are those of EarnSession, and any request    *)
(* may be turned down.                                                     *)
(***************************************************************************)
EXTENDS Earnings

CONSTANTS
    Ads,
    Advertiser,  \* user_id of each ad
    AdReward,    \* its reward_sat
    Purchased,   \* its total_views_purchased
    AdOf,        \* ptc_ad_id of each view
    Deposit,     \* balance_sat of each user before
    AutoApprove, \* what satpeek.ads.auto_approve may be
    Movements,   \* what else moves balances: withdrawals, chargebacks, credits
    MovedUser,   \* whose balance each one moves
    MovedSat,    \* by how much, below zero when it takes
    Requests     \* HTTP requests to complete a view

Views  == Events
Viewer == Earner

ASSUME AdsAssumption ==
    /\ IsFiniteSet(Views)
    /\ Advertiser \in [Ads -> Users]
    /\ AdReward \in [Ads -> Nat \ {0}]
    /\ Purchased \in [Ads -> Nat \ {0}]
    /\ AdOf \in [Views -> Ads]
    /\ \A v \in Views : Reward[v] = AdReward[AdOf[v]]
    /\ Deposit \in [Users -> Nat]
    /\ AutoApprove \subseteq BOOLEAN
    /\ MovedUser \in [Movements -> Users]
    /\ MovedSat \in [Movements -> Int]

(* Below zero a view would be sold for less than its reward.                *)
ASSUME PoolAssumption == PlatformPct \in Nat

VARIABLES
    ad,        \* ptc_ads: status, is_active, views_remaining
    ordering,  \* ads whose order has passed the balance check
    taken,     \* from the advertiser of each of them since that check
    bank,      \* balance_sat without the earnings
    moved,     \* movements that have happened
    refund,    \* delta_sat of the ad_refund row, 0 when there is none
    approving, \* ads that admins are approving, their model loaded
    starting,  \* views whose start has read a servable ad
    view,      \* ptc_views.status
    at         \* the view and the ad each completing request has loaded

orderVars == <<ordering, taken>>
bankVars  == <<bank, moved>>
viewVars  == <<starting, view, at>>
adVars == <<moneyVars, ad, orderVars, bankVars, refund, approving, viewVars>>

AdRow == [status : {"none", "pending_review", "approved", "completed",
                    "rejected"},
          active : BOOLEAN,
          left   : Int]
NoRow   == [status |-> "none", active |-> FALSE, left |-> 0]
Idle    == <<>>
Loaded  == [v : Views, ad : AdRow]

AdTypeOK ==
    /\ MoneyTypeOK
    /\ ad \in [Ads -> AdRow]
    /\ ordering \subseteq Ads
    /\ taken \in [Ads -> Nat]
    /\ bank \in [Users -> Int]
    /\ moved \subseteq Movements
    /\ refund \in [Ads -> Nat]
    /\ approving \subseteq Ads
    /\ starting \subseteq Views
    /\ view \in [Views -> {"none", "pending", "verified", "rejected"}]
    /\ at \in [Requests -> Loaded \cup {Idle}]

AdInit ==
    /\ MoneyInit
    /\ ad = [a \in Ads |-> NoRow]
    /\ ordering = {}
    /\ taken = [a \in Ads |-> 0]
    /\ bank = Deposit
    /\ moved = {}
    /\ refund = [a \in Ads |-> 0]
    /\ approving = {}
    /\ starting = {}
    /\ view = [v \in Views |-> "none"]
    /\ at = [r \in Requests |-> Idle]

----------------------------------------------------------------------------
(* AdvertiseController.                                                     *)

(* computeCost: ceil(reward * (100 + pct) / 100).                           *)
Cost(a)  == (AdReward[a] * (100 + PlatformPct) + 99) \div 100
Price(a) == Cost(a) * Purchased[a]

Balance(u) == wallet[u] + bank[u]

Affordable_OneView(a) ==                     \* mutant of Affordable
    Balance(Advertiser[a]) >= Cost(a)
Affordable(a) == Balance(Advertiser[a]) >= Price(a)

(* The balance is compared before the target page is probed over HTTP and   *)
(* debited after it, without a second look.                                 *)
OrderCheck(a) ==
    /\ ad[a].status = "none" /\ a \notin ordering
    /\ Affordable(a)
    /\ ordering' = ordering \cup {a}
    /\ UNCHANGED <<moneyVars, ad, taken, bankVars, refund, approving, viewVars>>

(* What every open order will not find any more.                            *)
TakenFrom(u, sat, open) ==
    [a \in Ads |-> IF a \in open /\ Advertiser[a] = u THEN taken[a] + sat
                                                      ELSE taken[a]]

(* The transaction: the ad, the ad_funding row, the debit.                  *)
OrderCommit(a, auto) ==
    /\ a \in ordering
    /\ ordering' = ordering \ {a}
    /\ taken' = [TakenFrom(Advertiser[a], Price(a), ordering \ {a})
                    EXCEPT ![a] = 0]
    /\ ad' = [ad EXCEPT ![a] =
                [status |-> IF auto THEN "approved" ELSE "pending_review",
                 active |-> auto,
                 left   |-> Purchased[a]]]
    /\ bank' = [bank EXCEPT ![Advertiser[a]] = @ - Price(a)]
    /\ UNCHANGED <<moneyVars, moved, refund, approving, viewVars>>

(* Other requests and jobs: the debit of a withdrawal, whose own check may  *)
(* be older than this order's, its refund, a credit of an offerwall, or its *)
(* chargeback, which looks at no balance.                                   *)
Move(m) ==
    /\ m \notin moved
    /\ moved' = moved \cup {m}
    /\ bank' = [bank EXCEPT ![MovedUser[m]] = @ + MovedSat[m]]
    /\ taken' = IF MovedSat[m] >= 0 THEN taken
                ELSE TakenFrom(MovedUser[m], -MovedSat[m], ordering)
    /\ UNCHANGED <<moneyVars, ad, ordering, refund, approving, viewVars>>

(* is_active is saved from the advertiser's form or the admin's, whatever   *)
(* has become of the ad meanwhile.                                          *)
SetActive(a, on) ==
    /\ ad[a].status # "none"
    /\ ad' = [ad EXCEPT ![a].active = on]
    /\ UNCHANGED <<moneyVars, orderVars, bankVars, refund, approving, viewVars>>

----------------------------------------------------------------------------
(* PtcAdResource.                                                           *)

ApproveLoad(a) ==
    /\ ad[a].status = "pending_review"
    /\ approving' = approving \cup {a}
    /\ UNCHANGED <<moneyVars, ad, orderVars, bankVars, refund, viewVars>>

(* A save of the loaded model: status has changed, is_active only if it was *)
(* false when loaded.  Another admin may have loaded the ad as well.        *)
ApproveSave(a) ==
    /\ a \in approving
    /\ approving' \in {approving, approving \ {a}}
    /\ \E on \in {TRUE, ad[a].active} :
          ad' = [ad EXCEPT ![a].status = "approved", ![a].active = on]
    /\ UNCHANGED <<moneyVars, orderVars, bankVars, refund, viewVars>>

(* Mutant of RefundDue: the views under way are held back.                  *)
RefundDue_Reserves(a) ==
    (ad[a].left - Cardinality({v \in Views : AdOf[v] = a /\ view[v] = "pending"}))
        * Cost(a)
RefundDue(a) ==
    LET due == ad[a].left * Cost(a) IN IF due > 0 THEN due ELSE 0

(* Mutant of Reject: the budget is not emptied.                             *)
Reject_KeepsBudget(a) ==
    /\ ad[a].status \in {"pending_review", "approved"}
    /\ RefundDue(a) > 0 => refund[a] = 0
    /\ refund' = [refund EXCEPT ![a] = @ + RefundDue(a)]
    /\ bank' = [bank EXCEPT ![Advertiser[a]] = @ + RefundDue(a)]
    /\ ad' = [ad EXCEPT ![a].status = "rejected", ![a].active = FALSE]
    /\ UNCHANGED <<moneyVars, orderVars, moved, approving, viewVars>>

(* The row is read again under a lock and its status checked there.  A      *)
(* second ad_refund row would abort the transaction.                        *)
Reject(a) ==
    /\ ad[a].status \in {"pending_review", "approved"}
    /\ RefundDue(a) > 0 => refund[a] = 0
    /\ refund' = [refund EXCEPT ![a] = @ + RefundDue(a)]
    /\ bank' = [bank EXCEPT ![Advertiser[a]] = @ + RefundDue(a)]
    /\ ad' = [ad EXCEPT ![a] =
                [status |-> "rejected", active |-> FALSE, left |-> 0]]
    /\ UNCHANGED <<moneyVars, orderVars, moved, approving, viewVars>>

----------------------------------------------------------------------------
(* PtcController.                                                           *)

Servable(v) ==
    LET a == AdOf[v]
    IN  /\ ad[a].status = "approved" /\ ad[a].active
        /\ ad[a].left > 0
        /\ Advertiser[a] # Viewer[v]

(* The ad is read, the views of the day are counted, the view is created:   *)
(* three statements without a transaction, and the count may end it.        *)
StartCheck(v) ==
    /\ view[v] = "none" /\ v \notin starting
    /\ Servable(v)
    /\ starting' = starting \cup {v}
    /\ UNCHANGED <<moneyVars, ad, orderVars, bankVars, refund, approving, view, at>>

StartCreate(v) ==
    /\ v \in starting
    /\ starting' = starting \ {v}
    /\ view' \in {view, [view EXCEPT ![v] = "pending"]}
    /\ UNCHANGED <<moneyVars, ad, orderVars, bankVars, refund, approving, at>>

(* finishView reads the reward from $view->ad, and so keeps that model.     *)
Load(r, v) ==
    /\ at[r] = Idle
    /\ view[v] = "pending"
    /\ at' = [at EXCEPT ![r] = [v |-> v, ad |-> ad[AdOf[v]]]]
    /\ UNCHANGED <<moneyVars, ad, orderVars, bankVars, refund, approving, starting, view>>

(* rejectRow, or any end that writes nothing.                               *)
TurnDown(r) ==
    /\ at[r] # Idle
    /\ at' = [at EXCEPT ![r] = Idle]
    /\ view' \in {view, [view EXCEPT ![at[r].v] = "rejected"]}
    /\ UNCHANGED <<moneyVars, ad, orderVars, bankVars, refund, approving, starting>>

(* postCredit: SQL takes one from views_remaining, the loaded model counts  *)
(* down from what it had; when that says none is left, status and is_active *)
(* are saved if they differ from what was loaded.                           *)
TakeView_Stale(row, old) ==                  \* mutant of TakeView
    [row EXCEPT !.left = old.left - 1]
TakeView(row, old) ==
    LET one == [row EXCEPT !.left = @ - 1]
    IN  IF old.left - 1 > 0 THEN one
        ELSE [one EXCEPT
                !.status = IF old.status = "completed" THEN @ ELSE "completed",
                !.active = IF old.active THEN FALSE ELSE @]

(* The credit transaction of claim(), which ends in postCredit.             *)
Credit(r) ==
    LET v == at[r].v
        a == AdOf[v]
    IN  /\ at[r] # Idle
        /\ view[v] = "pending"
        /\ view' = [view EXCEPT ![v] = "verified"]
        /\ Grant(v)
        /\ ad' = [ad EXCEPT ![a] = TakeView(@, at[r].ad)]
        /\ at' = [at EXCEPT ![r] = Idle]
        /\ UNCHANGED <<orderVars, bankVars, refund, approving, starting>>

----------------------------------------------------------------------------
AdStep(a) ==
    \/ OrderCheck(a)
    \/ \E auto \in AutoApprove : OrderCommit(a, auto)
    \/ \E on \in BOOLEAN : SetActive(a, on)
    \/ ApproveLoad(a) \/ ApproveSave(a) \/ Reject(a)

CompleteStep(r) == (\E v \in Views : Load(r, v)) \/ TurnDown(r) \/ Credit(r)

AdNext ==
    \/ \E a \in Ads : AdStep(a)
    \/ \E m \in Movements : Move(m)
    \/ \E v \in Views : StartCheck(v) \/ StartCreate(v)
    \/ \E r \in Requests : CompleteStep(r)

AdSpec == AdInit /\ [][AdNext]_adVars

----------------------------------------------------------------------------
Served(a) == {v \in Rewarded : AdOf[v] = a}
Placed    == {a \in Ads : ad[a].status # "none"}

(* Why: an ad that is not placed has no history to speak of, and a request  *)
(* starts or completes a view of one that is.                               *)
UnplacedIsNew ==
    /\ ordering \cap Placed = {}
    /\ approving \subseteq Placed
    /\ \A v \in starting : AdOf[v] \in Placed
    /\ \A r \in Requests : at[r] # Idle =>
          AdOf[at[r].v] \in Placed /\ view[at[r].v] # "none"
    /\ \A a \in Ads \ Placed :
          /\ refund[a] = 0
          /\ \A v \in Views : AdOf[v] = a => view[v] = "none" /\ v \notin Rewarded

(* What is still for sale is what was bought, was not served and was not    *)
(* refunded, whatever was loaded before it changed.                         *)
LeftIsUnserved ==
    \A a \in Placed : ad[a].left > 0 =>
        /\ Cardinality(Served(a)) + ad[a].left = Purchased[a]
        /\ refund[a] = 0

BudgetInv == AdTypeOK /\ UnplacedIsNew /\ LeftIsUnserved

(* A rejection refunds exactly what was bought and not served, once: not    *)
(* "sat already spent serving views", as a refund computed from the page    *)
(* would (PtcAdResource:219-228).                                           *)
RefundIsUnserved ==
    [][\A a \in Ads : refund'[a] # refund[a] =>
           /\ refund[a] = 0
           /\ refund'[a] = Price(a) - Cost(a) * Cardinality(Served(a))]_adVars

(* Once an ad was refunded no start reads it as servable and no view of it  *)
(* begins, but for those that had read it before: even if an approval or a  *)
(* form that had loaded it earlier is saved afterwards.                     *)
RefundedAdEnds ==
    [][\A v \in Views :
           refund[AdOf[v]] > 0 /\ view[v] = "none" /\ v \notin starting =>
               view'[v] = "none" /\ v \notin starting']_adVars

(* An order takes what its balance check found (AdvertiseController:63), so *)
(* that an overdraft is never its own: at most what other orders,           *)
(* withdrawals and chargebacks took between the check and the debit.        *)
AdvertiserCovers ==
    [][\A a \in ordering :
           a \notin ordering' => Balance(Advertiser[a])' + taken[a] >= 0]_adVars

(* "Reads $ad->views_remaining directly" after the decrement (CHANGELOG.md:  *)
(* 1316-1322, PtcController:185-188): the view that uses the budget up      *)
(* completes the ad.                                                        *)
UsedUpIsCompleted ==
    \A a \in Placed :
        Cardinality(Served(a)) >= Purchased[a] => ad[a].status # "approved"

(* While no more is served and refunded than was bought, rewards and        *)
(* commissions are paid from what the advertisers paid: "cost = reward *    *)
(* (1 + pct/100)" (config/satpeek.php:413-415, ReferralPayout:15-36).       *)
PayoutOf(v) == Reward[v] + Share(v)
PaidFromBudget ==
    \A a \in Placed :
        Cost(a) * Cardinality(Served(a)) + refund[a] <= Price(a) =>
            MapThenSumSet(PayoutOf, Served(a)) + refund[a] <= Price(a)
============================================================================
