-------------------------- MODULE AdBudget_proofs --------------------------
(***************************************************************************)
(* What advertisers can rely on, for any ads, prices, views and requests:  *)
(* the budget left is what was not served, and so is the refund.           *)
(***************************************************************************)
EXTENDS AdBudget, Earnings_proofs

USE DEF moneyVars, Views, Viewer, orderVars, bankVars, viewVars

(* The parts of the instance the steps speak of.                            *)
LEMMA AdConstants ==
  ASSUME NEW a \in Ads
  PROVE  /\ Advertiser[a] \in Users
         /\ AdReward[a] \in Nat /\ AdReward[a] > 0
         /\ Purchased[a] \in Nat /\ Purchased[a] > 0
BY AdsAssumption

(* A view costs at least its reward.                                        *)
LEMMA CostIsPositive ==
  ASSUME NEW a \in Ads PROVE Cost(a) \in Nat /\ Cost(a) >= AdReward[a]
<1> DEFINE n == AdReward[a]
           more == n * PlatformPct
<1>1. n \in Nat /\ PlatformPct \in Nat BY AdConstants, PoolAssumption
<1>2. more \in Nat BY <1>1
<1>3. n * (100 + PlatformPct) = 100 * n + more BY <1>1
<1>4. Cost(a) = (100 * n + more + 99) \div 100 BY <1>3 DEF Cost
<1> HIDE DEF more, n
<1>5. QED BY <1>1, <1>2, <1>4 DEF n

LEMMA PriceIsNat ==
  ASSUME NEW a \in Ads PROVE Price(a) \in Nat
<1>1. Cost(a) \in Nat /\ Purchased[a] \in Nat BY CostIsPositive, AdConstants
<1>2. QED BY <1>1 DEF Price

LEMMA RefundDueType ==
  ASSUME AdTypeOK, NEW a \in Ads
  PROVE  /\ RefundDue(a) \in Nat
         /\ RefundDue(a) > 0 => ad[a].left > 0 /\ RefundDue(a) = ad[a].left * Cost(a)
<1> DEFINE left == ad[a].left
           cost == Cost(a)
<1>1. left \in Int /\ cost \in Nat BY CostIsPositive DEF AdTypeOK, AdRow
<1>2. left * cost \in Int BY <1>1
<1>3. left <= 0 => left * cost <= 0
  <2> HIDE DEF left, cost
  <2>1. QED BY <1>1
<1>4. RefundDue(a) = IF left * cost > 0 THEN left * cost ELSE 0
  BY DEF RefundDue
<1>5. QED BY <1>1, <1>2, <1>3, <1>4

(* What the open orders of a user have lost, type and values.               *)
LEMMA TakenFromType ==
  ASSUME AdTypeOK, NEW u \in Users, NEW sat \in Nat, NEW open
  PROVE  /\ TakenFrom(u, sat, open) \in [Ads -> Nat]
         /\ \A a \in Ads : TakenFrom(u, sat, open)[a] =
              taken[a] + IF a \in open /\ Advertiser[a] = u THEN sat ELSE 0
BY DEF AdTypeOK, TakenFrom

(* What a completing request has loaded.                                    *)
LEMMA LoadedFields ==
  ASSUME AdTypeOK, NEW r \in Requests, at[r] # Idle
  PROVE  /\ at[r].v \in Views /\ at[r].v \in Events
         /\ at[r].ad \in AdRow
         /\ AdOf[at[r].v] \in Ads
BY AdsAssumption DEF AdTypeOK, Loaded

LEMMA TakeViewRow ==
  ASSUME NEW row \in AdRow, NEW old \in AdRow
  PROVE  /\ TakeView(row, old) \in AdRow
         /\ TakeView(row, old).left = row.left - 1
         /\ row.status # "none" => TakeView(row, old).status # "none"
<1> DEFINE one == [row EXCEPT !.left = @ - 1]
<1>1. one \in AdRow /\ one.left = row.left - 1 /\ one.status = row.status
  BY DEF AdRow
<1>2. CASE old.left - 1 > 0
  <2>1. TakeView(row, old) = one BY <1>2 DEF TakeView
  <2>2. QED BY <1>1, <2>1
<1>3. CASE ~ (old.left - 1 > 0)
  <2>1. PICK status \in {one.status, "completed"}, active \in {one.active, FALSE} :
          TakeView(row, old) =
            [one EXCEPT !.status = status, !.active = active]
    BY <1>3 DEF TakeView
  <2> HIDE DEF one
  <2>2. QED BY <1>1, <2>1 DEF AdRow
<1>4. QED BY <1>2, <1>3

----------------------------------------------------------------------------
(* Types.                                                                   *)

LEMMA AdTypeInit == AdInit => AdTypeOK
BY AdsAssumption
   DEF AdInit, AdTypeOK, MoneyInit, MoneyTypeOK, AdRow, NoRow

LEMMA AdTypeStep == AdTypeOK /\ [AdNext]_adVars => AdTypeOK'
<1> SUFFICES ASSUME AdTypeOK, [AdNext]_adVars PROVE AdTypeOK'
  OBVIOUS
<1>1. ASSUME NEW a \in Ads, OrderCheck(a) PROVE AdTypeOK'
  BY <1>1 DEF OrderCheck, AdTypeOK, MoneyTypeOK
<1>2. ASSUME NEW a \in Ads, NEW auto \in BOOLEAN, OrderCommit(a, auto)
      PROVE AdTypeOK'
  <2>1. bank[Advertiser[a]] - Price(a) \in Int
    BY AdConstants, PriceIsNat DEF AdTypeOK
  <2>2. taken' \in [Ads -> Nat]
    <3>1. TakenFrom(Advertiser[a], Price(a), ordering \ {a}) \in [Ads -> Nat]
      BY AdConstants, PriceIsNat, TakenFromType
    <3>2. QED BY <1>2, <3>1 DEF OrderCommit
  <2>3. bank' \in [Users -> Int] BY <1>2, <2>1 DEF OrderCommit, AdTypeOK
  <2>4. ad' \in [Ads -> AdRow]
    BY <1>2, AdConstants DEF OrderCommit, AdTypeOK, AdRow
  <2>5. QED
    BY <1>2, <2>2, <2>3, <2>4 DEF OrderCommit, AdTypeOK, MoneyTypeOK
<1>3. ASSUME NEW a \in Ads, NEW on \in BOOLEAN, SetActive(a, on)
      PROVE AdTypeOK'
  BY <1>3 DEF SetActive, AdTypeOK, MoneyTypeOK, AdRow
<1>4. ASSUME NEW a \in Ads, ApproveLoad(a) PROVE AdTypeOK'
  BY <1>4 DEF ApproveLoad, AdTypeOK, MoneyTypeOK
<1>5. ASSUME NEW a \in Ads, ApproveSave(a) PROVE AdTypeOK'
  <2>1. PICK on \in {TRUE, ad[a].active} :
          ad' = [ad EXCEPT ![a].status = "approved", ![a].active = on]
    BY <1>5 DEF ApproveSave
  <2>2. on \in BOOLEAN BY <2>1 DEF AdTypeOK, AdRow
  <2>3. [ad[a] EXCEPT !.status = "approved", !.active = on] \in AdRow
    BY <2>2 DEF AdTypeOK, AdRow
  <2>4. ad' \in [Ads -> AdRow]
    <3>1. ad' = [ad EXCEPT ![a] = [@ EXCEPT !.status = "approved", !.active = on]]
      BY <2>1
    <3>2. QED BY <2>3, <3>1 DEF AdTypeOK
  <2>5. QED BY <1>5, <2>4 DEF ApproveSave, AdTypeOK, MoneyTypeOK
<1>6. ASSUME NEW a \in Ads, Reject(a) PROVE AdTypeOK'
  <2>1. /\ bank[Advertiser[a]] + RefundDue(a) \in Int
        /\ refund[a] + RefundDue(a) \in Nat
    BY AdConstants, RefundDueType DEF AdTypeOK
  <2>2. QED
    BY <1>6, <2>1, AdConstants DEF Reject, AdTypeOK, MoneyTypeOK, AdRow
<1>7. ASSUME NEW v \in Views, StartCheck(v) \/ StartCreate(v) PROVE AdTypeOK'
  BY <1>7 DEF StartCheck, StartCreate, AdTypeOK, MoneyTypeOK
<1>8. ASSUME NEW r \in Requests, NEW v \in Views, Load(r, v) PROVE AdTypeOK'
  <2>1. [v |-> v, ad |-> ad[AdOf[v]]] \in Loaded
    BY AdsAssumption DEF AdTypeOK, Loaded
  <2>2. QED BY <1>8, <2>1 DEF Load, AdTypeOK, MoneyTypeOK
<1>9. ASSUME NEW r \in Requests, TurnDown(r) PROVE AdTypeOK'
  BY <1>9, LoadedFields DEF TurnDown, AdTypeOK, MoneyTypeOK
<1>10. ASSUME NEW r \in Requests, Credit(r) PROVE AdTypeOK'
  <2>1. MoneyTypeOK' BY <1>10, LoadedFields, GrantType DEF Credit, AdTypeOK
  <2>2. ad' \in [Ads -> AdRow]
    BY <1>10, LoadedFields, TakeViewRow DEF Credit, AdTypeOK
  <2>3. QED BY <1>10, <2>1, <2>2, LoadedFields DEF Credit, AdTypeOK
<1>11. ASSUME NEW m \in Movements, Move(m) PROVE AdTypeOK'
  <2>1. MovedUser[m] \in Users /\ MovedSat[m] \in Int BY AdsAssumption
  <2>2. bank[MovedUser[m]] + MovedSat[m] \in Int BY <2>1 DEF AdTypeOK
  <2>3. taken' \in [Ads -> Nat]
    <3>1. CASE MovedSat[m] >= 0 BY <1>11, <3>1 DEF Move, AdTypeOK
    <3>2. CASE ~ (MovedSat[m] >= 0)
      <4>1. -MovedSat[m] \in Nat BY <2>1, <3>2
      <4>2. TakenFrom(MovedUser[m], -MovedSat[m], ordering) \in [Ads -> Nat]
        BY <2>1, <4>1, TakenFromType
      <4>3. QED BY <1>11, <3>2, <4>2 DEF Move
    <3>3. QED BY <3>1, <3>2
  <2>4. QED BY <1>11, <2>2, <2>3 DEF Move, AdTypeOK, MoneyTypeOK
<1>12. CASE UNCHANGED adVars BY <1>12 DEF adVars, AdTypeOK, MoneyTypeOK
<1>13. QED
  BY <1>1, <1>2, <1>3, <1>4, <1>5, <1>6, <1>7, <1>8, <1>9, <1>10, <1>11, <1>12,
     AdsAssumption DEF AdNext, AdStep, CompleteStep

(* Every variable keeps its type; in particular no refund is negative.      *)
THEOREM AdTypeCorrect == AdSpec => []AdTypeOK
BY AdTypeInit, AdTypeStep, PTL DEF AdSpec

----------------------------------------------------------------------------
(* The budget.                                                              *)

LEMMA ServedIsFinite ==
  ASSUME NEW a \in Ads
  PROVE  IsFiniteSet(Served(a)) /\ Cardinality(Served(a)) \in Nat
<1>1. Served(a) \subseteq Views BY DEF Served, Rewarded
<1>2. IsFiniteSet(Views) BY AdsAssumption
<1>3. IsFiniteSet(Served(a)) BY <1>1, <1>2, FS_Subset
<1>4. QED BY <1>3, FS_CardinalityType

(* A credit serves one view of one ad.                                      *)
LEMMA CreditServes ==
  ASSUME NEW v \in Events, Grant(v), NEW a \in Ads
  PROVE  Cardinality(Served(a)') =
           Cardinality(Served(a)) + IF a = AdOf[v] THEN 1 ELSE 0
<1>1. Rewarded' = Rewarded \cup {v} /\ v \notin Rewarded BY GrantRewards
<1>2. CASE a = AdOf[v]
  <2>1. Served(a)' = Served(a) \cup {v} /\ v \notin Served(a)
    BY <1>1, <1>2 DEF Served
  <2>2. QED BY <1>2, <2>1, ServedIsFinite, FS_AddElement
<1>3. CASE a # AdOf[v]
  <2>1. Served(a)' = Served(a) BY <1>1, <1>3 DEF Served
  <2>2. QED BY <1>3, <2>1, ServedIsFinite
<1>4. QED BY <1>2, <1>3

(* A step that serves nothing, refunds nothing and puts nothing on sale.    *)
LEMMA BudgetUntouched ==
  ASSUME BudgetInv, AdTypeOK',
         UNCHANGED <<earned, refund>>,
         \A a \in Ads : /\ ad'[a].status = "none" <=> ad[a].status = "none"
                        /\ ad'[a].left = ad[a].left,
         \A v \in Views :
           view'[v] = view[v] \/ (AdOf[v] \in Placed /\ view'[v] # "none"),
         \A a \in ordering' : a \in ordering \/ ad[a].status = "none",
         \A a \in approving' : a \in approving \/ a \in Placed,
         \A v \in starting' : v \in starting \/ AdOf[v] \in Placed,
         \A r \in Requests :
           \/ at'[r] \in {at[r], Idle}
           \/ AdOf[at'[r].v] \in Placed /\ view'[at'[r].v] # "none"
  PROVE  BudgetInv'
<1>1. Rewarded' = Rewarded /\ \A a \in Ads : Served(a)' = Served(a)
  BY DEF Rewarded, Served
<1>2. Placed' = Placed BY DEF Placed
<1>3. UnplacedIsNew'
  <2>1. ordering' \cap Placed' = {}
    BY <1>2 DEF BudgetInv, UnplacedIsNew, Placed
  <2>2. approving' \subseteq Placed'
    BY <1>2 DEF BudgetInv, UnplacedIsNew
  <2>3. ASSUME NEW r \in Requests, at'[r] # Idle
        PROVE AdOf[at'[r].v] \in Placed' /\ view'[at'[r].v] # "none"
    <3>1. CASE at'[r] = at[r]
      <4>1. AdOf[at[r].v] \in Placed /\ view[at[r].v] # "none"
        BY <2>3, <3>1 DEF BudgetInv, UnplacedIsNew
      <4>2. at[r].v \in Views
        BY <2>3, <3>1, LoadedFields DEF BudgetInv
      <4>3. QED BY <1>2, <3>1, <4>1, <4>2
    <3>2. QED BY <1>2, <2>3, <3>1
  <2>4. ASSUME NEW a \in Ads \ Placed, NEW v \in Views, AdOf[v] = a
        PROVE view'[v] = "none" /\ v \notin Rewarded'
    BY <1>1, <2>4 DEF BudgetInv, UnplacedIsNew
  <2>5. \A a \in Ads \ Placed : refund'[a] = 0
    BY DEF BudgetInv, UnplacedIsNew
  <2>6. \A v \in starting' : AdOf[v] \in Placed'
    BY <1>2 DEF BudgetInv, UnplacedIsNew
  <2>7. QED BY <1>2, <2>1, <2>2, <2>3, <2>4, <2>5, <2>6 DEF UnplacedIsNew
<1>4. LeftIsUnserved'
  BY <1>1, <1>2 DEF BudgetInv, LeftIsUnserved, Placed
<1>5. QED BY <1>3, <1>4 DEF BudgetInv

LEMMA OrderBudget ==
  ASSUME BudgetInv, AdTypeOK', NEW a \in Ads, NEW auto \in BOOLEAN,
         OrderCommit(a, auto)
  PROVE  BudgetInv'
<1>1. /\ ad[a].status = "none" /\ refund[a] = 0
      /\ \A v \in Views : AdOf[v] = a => v \notin Rewarded
  BY DEF OrderCommit, BudgetInv, UnplacedIsNew, Placed
<1>2. Served(a) = {} BY <1>1 DEF Served, Rewarded
<1>3. /\ Rewarded' = Rewarded
      /\ \A b \in Ads : Served(b)' = Served(b)
  BY DEF OrderCommit, Rewarded, Served
<1>4. /\ ad'[a].left = Purchased[a]
      /\ ad'[a].status # "none"
      /\ \A b \in Ads : b # a => ad'[b] = ad[b]
  BY DEF OrderCommit, BudgetInv, AdTypeOK
<1>5. UnplacedIsNew'
  BY <1>1, <1>3, <1>4 DEF OrderCommit, BudgetInv, UnplacedIsNew, Placed
<1>6. Cardinality(Served(a)') = 0 BY <1>2, <1>3, FS_EmptySet
<1>7. LeftIsUnserved'
  <2> SUFFICES ASSUME NEW b \in Placed', ad'[b].left > 0
      PROVE /\ Cardinality(Served(b)') + ad'[b].left = Purchased[b]
            /\ refund'[b] = 0
    BY DEF LeftIsUnserved
  <2>1. CASE b = a
    BY <1>1, <1>4, <1>6, <2>1, AdConstants DEF OrderCommit
  <2>2. CASE b # a
    BY <1>3, <1>4, <2>2 DEF OrderCommit, BudgetInv, LeftIsUnserved, Placed
  <2>3. QED BY <2>1, <2>2
<1>8. QED BY <1>5, <1>7 DEF BudgetInv

LEMMA RejectBudget ==
  ASSUME BudgetInv, AdTypeOK', NEW a \in Ads, Reject(a) PROVE BudgetInv'
<1>1. /\ Rewarded' = Rewarded
      /\ \A b \in Ads : Served(b)' = Served(b)
  BY DEF Reject, Rewarded, Served
<1>2. /\ ad[a].status # "none"
      /\ ad'[a].left = 0 /\ ad'[a].status # "none"
      /\ \A b \in Ads : b # a => ad'[b] = ad[b] /\ refund'[b] = refund[b]
  BY DEF Reject, BudgetInv, AdTypeOK
<1>3. Placed' = Placed BY <1>2 DEF Placed
<1>4. UnplacedIsNew'
  BY <1>1, <1>2, <1>3 DEF Reject, BudgetInv, UnplacedIsNew, Placed
<1>5. LeftIsUnserved'
  BY <1>1, <1>2, <1>3 DEF BudgetInv, LeftIsUnserved, Placed
<1>6. QED BY <1>4, <1>5 DEF BudgetInv

LEMMA CreditBudget ==
  ASSUME BudgetInv, AdTypeOK', NEW r \in Requests, Credit(r) PROVE BudgetInv'
<1> DEFINE v == at[r].v
           a == AdOf[v]
<1>1. /\ AdTypeOK /\ v \in Events /\ a \in Ads /\ at[r].ad \in AdRow
      /\ Grant(v) /\ view[v] = "pending"
  BY LoadedFields DEF Credit, BudgetInv
<1>2. a \in Placed
  BY <1>1 DEF BudgetInv, UnplacedIsNew
<1>3. /\ ad'[a].left = ad[a].left - 1
      /\ ad'[a].status # "none"
      /\ \A b \in Ads : b # a => ad'[b] = ad[b]
  BY <1>1, <1>2, TakeViewRow DEF Credit, AdTypeOK, Placed
<1>4. Placed' = Placed BY <1>2, <1>3 DEF Placed
<1>5. Rewarded' = Rewarded \cup {v} BY <1>1, GrantRewards
<1>6. UnplacedIsNew'
  <2>1. \A q \in Requests : at'[q] \in {at[q], Idle}
    BY DEF Credit, BudgetInv, AdTypeOK
  <2>2. QED
    BY <1>1, <1>2, <1>4, <1>5, <2>1
       DEF Credit, BudgetInv, UnplacedIsNew, AdTypeOK
<1>7. LeftIsUnserved'
  <2> SUFFICES ASSUME NEW b \in Placed', ad'[b].left > 0
      PROVE /\ Cardinality(Served(b)') + ad'[b].left = Purchased[b]
            /\ refund'[b] = 0
    BY DEF LeftIsUnserved
  <2>1. b \in Placed /\ b \in Ads /\ ad[b].left \in Int
    BY <1>1, <1>4 DEF Placed, AdTypeOK, AdRow
  <2>2. ad[b].left > 0 BY <1>3, <2>1
  <2>3. /\ Cardinality(Served(b)) + ad[b].left = Purchased[b]
        /\ refund[b] = 0
    BY <2>1, <2>2 DEF BudgetInv, LeftIsUnserved
  <2>4. refund'[b] = 0 BY <2>3 DEF Credit
  <2>5. Cardinality(Served(b)') =
          Cardinality(Served(b)) + IF b = a THEN 1 ELSE 0
    BY <1>1, <2>1, CreditServes
  <2>6. ad'[b].left = ad[b].left - (IF b = a THEN 1 ELSE 0)
    BY <1>3, <2>1
  <2>7. Cardinality(Served(b)) \in Nat BY <2>1, ServedIsFinite
  <2>8. QED BY <2>1, <2>3, <2>4, <2>5, <2>6, <2>7
<1>8. QED BY <1>6, <1>7 DEF BudgetInv

LEMMA BudgetStep == BudgetInv /\ [AdNext]_adVars => BudgetInv'
<1> SUFFICES ASSUME BudgetInv, [AdNext]_adVars PROVE BudgetInv'
  OBVIOUS
<1>0. AdTypeOK /\ AdTypeOK' BY AdTypeStep DEF BudgetInv
<1>1. ASSUME NEW a \in Ads, OrderCheck(a) PROVE BudgetInv'
  BY <1>0, <1>1, BudgetUntouched DEF OrderCheck
<1>2. ASSUME NEW a \in Ads, NEW on \in BOOLEAN, SetActive(a, on)
      PROVE BudgetInv'
  BY <1>0, <1>2, BudgetUntouched DEF SetActive, AdTypeOK, AdRow
<1>3. ASSUME NEW a \in Ads, ApproveLoad(a) PROVE BudgetInv'
  BY <1>0, <1>3, BudgetUntouched DEF ApproveLoad, Placed
<1>4. ASSUME NEW a \in Ads, ApproveSave(a) PROVE BudgetInv'
  <2>1. a \in Placed BY <1>4 DEF ApproveSave, BudgetInv, UnplacedIsNew
  <2>2. QED
    BY <1>0, <1>4, <2>1, BudgetUntouched
       DEF ApproveSave, AdTypeOK, AdRow, Placed
<1>5. ASSUME NEW v \in Views, StartCheck(v) \/ StartCreate(v)
      PROVE BudgetInv'
  <2>1. AdOf[v] \in Placed
    BY <1>5, AdsAssumption
       DEF StartCheck, StartCreate, Servable, Placed, BudgetInv, UnplacedIsNew
  <2>2. \A w \in Views : view'[w] = view[w] \/ (w = v /\ view'[w] = "pending")
    <3>1. CASE UNCHANGED view BY <3>1
    <3>2. CASE view' = [view EXCEPT ![v] = "pending"]
      BY <1>0, <3>2 DEF AdTypeOK
    <3>3. QED BY <1>5, <3>1, <3>2 DEF StartCheck, StartCreate
  <2>3. \A w \in starting' : w \in starting \/ w = v
    BY <1>5 DEF StartCheck, StartCreate
  <2>4. \A r \in Requests : at'[r] = at[r]
    BY <1>5 DEF StartCheck, StartCreate
  <2>5. UNCHANGED <<earned, refund, ad, ordering, approving>>
    BY <1>5 DEF StartCheck, StartCreate
  <2>6. QED BY <1>0, <2>1, <2>2, <2>3, <2>4, <2>5, BudgetUntouched
<1>6. ASSUME NEW r \in Requests, NEW v \in Views, Load(r, v) PROVE BudgetInv'
  <2>1. AdOf[v] \in Placed
    BY <1>6, AdsAssumption DEF Load, BudgetInv, UnplacedIsNew
  <2>2. \A q \in Requests : at'[q] = at[q] \/ at'[q].v = v
    BY <1>0, <1>6 DEF Load, AdTypeOK
  <2>3. QED BY <1>0, <1>6, <2>1, <2>2, BudgetUntouched DEF Load
<1>7. ASSUME NEW r \in Requests, TurnDown(r) PROVE BudgetInv'
  <2>1. \A v \in Views :
          \/ view'[v] = view[v]
          \/ v = at[r].v /\ view'[v] = "rejected"
    BY <1>0, <1>7 DEF TurnDown, AdTypeOK
  <2>2. AdOf[at[r].v] \in Placed
    BY <1>7 DEF TurnDown, BudgetInv, UnplacedIsNew
  <2>3. \A q \in Requests : at'[q] \in {at[q], Idle}
    BY <1>0, <1>7 DEF TurnDown, AdTypeOK
  <2>4. QED BY <1>0, <1>7, <2>1, <2>2, <2>3, BudgetUntouched DEF TurnDown
<1>8. ASSUME NEW m \in Movements, Move(m) PROVE BudgetInv'
  BY <1>0, <1>8, BudgetUntouched DEF Move
<1>9. CASE UNCHANGED adVars BY <1>0, <1>9, BudgetUntouched DEF adVars
<1>10. QED
  BY <1>0, <1>1, <1>2, <1>3, <1>4, <1>5, <1>6, <1>7, <1>8, <1>9,
     OrderBudget, RejectBudget, CreditBudget, AdsAssumption
     DEF AdNext, AdStep, CompleteStep

LEMMA BudgetInvariant == AdSpec => []BudgetInv
<1>1. AdInit => BudgetInv
  BY AdTypeInit
     DEF AdInit, MoneyInit, BudgetInv, UnplacedIsNew, LeftIsUnserved, Placed,
         NoRow, Rewarded
<1>2. QED BY <1>1, BudgetStep, PTL DEF AdSpec

(* What is still for sale was bought, not served and not refunded.          *)
THEOREM BudgetIsUnserved == AdSpec => []LeftIsUnserved
BY BudgetInvariant, PTL DEF BudgetInv

(* A rejection refunds what was bought and not served, once.                *)
THEOREM RefundExact == AdSpec => RefundIsUnserved
<1> DEFINE Exact(a) ==
      refund'[a] # refund[a] =>
        /\ refund[a] = 0
        /\ refund'[a] = Price(a) - Cost(a) * Cardinality(Served(a))
<1>1. ASSUME BudgetInv, [AdNext]_adVars PROVE \A a \in Ads : Exact(a)
  <2> SUFFICES ASSUME NEW a \in Ads, refund'[a] # refund[a]
      PROVE /\ refund[a] = 0
            /\ refund'[a] = Price(a) - Cost(a) * Cardinality(Served(a))
    OBVIOUS
  <2>1. Reject(a)
    BY ZenonT(60), <1>1, AdsAssumption
       DEF AdNext, AdStep, CompleteStep, OrderCheck, OrderCommit, SetActive,
           ApproveLoad, ApproveSave, Reject, StartCheck, StartCreate, Load, TurnDown,
           Credit, Move, adVars, BudgetInv, AdTypeOK
  <2>2. /\ AdTypeOK
        /\ refund[a] \in Nat /\ ad[a].left \in Int
        /\ refund'[a] = refund[a] + RefundDue(a)
    BY <1>1, <2>1 DEF Reject, BudgetInv, AdTypeOK, AdRow
  <2>3. /\ ad[a].left > 0 /\ RefundDue(a) = ad[a].left * Cost(a)
    BY <2>2, RefundDueType
  <2>4. /\ refund[a] = 0
        /\ Cardinality(Served(a)) + ad[a].left = Purchased[a]
    BY <1>1, <2>1, <2>3 DEF Reject, BudgetInv, LeftIsUnserved, Placed
  <2> DEFINE n == Cardinality(Served(a))
             left == ad[a].left
             cost == Cost(a)
  <2>5. n \in Nat /\ left \in Nat /\ cost \in Nat
    BY <2>2, <2>3, ServedIsFinite, CostIsPositive
  <2>6. Price(a) = cost * (n + left) BY <2>4 DEF Price
  <2>7. refund'[a] = left * cost BY <2>2, <2>3, <2>4, <2>5
  <2> HIDE DEF n, left, cost
  <2>8. left * cost = cost * (n + left) - cost * n BY <2>5
  <2>9. QED BY <2>4, <2>6, <2>7, <2>8 DEF n, cost
<1>2. BudgetInv /\ [AdNext]_adVars => [\A a \in Ads : Exact(a)]_adVars
  BY <1>1
<1>3. QED BY <1>2, BudgetInvariant, PTL DEF AdSpec, RefundIsUnserved

(* After a refund no start finds the ad servable and no view of it begins,  *)
(* but for those whose start had read the ad before.                        *)
THEOREM RefundEnds == AdSpec => RefundedAdEnds
<1> DEFINE Ended(v) ==
      refund[AdOf[v]] > 0 /\ view[v] = "none" /\ v \notin starting =>
        view'[v] = "none" /\ v \notin starting'
<1>1. ASSUME BudgetInv, [AdNext]_adVars, NEW v \in Views PROVE Ended(v)
  <2>1. ASSUME NEW w \in Views, StartCheck(w) PROVE Ended(v)
    <3>1. AdOf[w] \in Placed /\ ad[AdOf[w]].left > 0
      BY <2>1, AdsAssumption DEF StartCheck, Servable, Placed
    <3>2. refund[AdOf[w]] = 0 BY <1>1, <3>1 DEF BudgetInv, LeftIsUnserved
    <3>3. QED BY <2>1, <3>2 DEF StartCheck
  <2>2. ASSUME NEW w \in Views, StartCreate(w) PROVE Ended(v)
    BY <1>1, <2>2 DEF StartCreate, BudgetInv, AdTypeOK
  <2>3. ASSUME NEW r \in Requests, TurnDown(r) \/ Credit(r) PROVE Ended(v)
    <3>1. view[at[r].v] # "none"
      BY <1>1, <2>3 DEF TurnDown, Credit, BudgetInv, UnplacedIsNew
    <3>2. QED
      BY <1>1, <2>3, <3>1 DEF TurnDown, Credit, BudgetInv, AdTypeOK
  <2>4. CASE UNCHANGED <<starting, view>> BY <2>4
  <2>5. QED
    BY <1>1, <2>1, <2>2, <2>3, <2>4
       DEF AdNext, AdStep, CompleteStep, OrderCheck, OrderCommit, SetActive,
           ApproveLoad, ApproveSave, Reject, Load, Move, adVars
<1>2. BudgetInv /\ [AdNext]_adVars => [\A v \in Views : Ended(v)]_adVars
  BY <1>1
<1>3. QED BY <1>2, BudgetInvariant, PTL DEF AdSpec, RefundedAdEnds

(* What a view pays, to the viewer and to who referred the viewer, is at    *)
(* most what the advertiser paid for it.                                    *)
THEOREM PayoutWithinCost ==
  ASSUME NEW v \in Views PROVE PayoutOf(v) <= Cost(AdOf[v])
<1> DEFINE n == Reward[v]
           more == n * PlatformPct
           share == Share(v)
<1>1. /\ AdOf[v] \in Ads /\ n = AdReward[AdOf[v]]
      /\ n \in Nat /\ PlatformPct \in Nat
  BY AdsAssumption, RewardAssumption, PoolAssumption
<1>2. more \in Nat BY <1>1
<1>3. share \in Nat BY ShareIsNat
<1>4. 100 * share <= more BY <1>2, <1>3, ShareWithinPool
<1>5. n * (100 + PlatformPct) = 100 * n + more BY <1>1
<1>6. Cost(AdOf[v]) = (100 * n + more + 99) \div 100
  BY <1>1, <1>5 DEF Cost
<1>7. PayoutOf(v) = n + share BY DEF PayoutOf
<1> HIDE DEF n, more, share
<1>8. 100 * (n + share) <= 100 * n + more BY <1>1, <1>2, <1>3, <1>4
<1>9. n + share <= (100 * n + more + 99) \div 100
  BY <1>1, <1>2, <1>3, <1>8
<1>10. QED BY <1>6, <1>7, <1>9

Payouts == [v \in Views |-> PayoutOf(v)]

LEMMA SumOfPayouts ==
  ASSUME NEW S, S \subseteq Views
  PROVE  IntValued(Payouts, S) /\ MapThenSumSet(PayoutOf, S) = SumOf(Payouts, S)
<1> DEFINE Fold(it) ==
      it = [s \in SUBSET S |->
              IF s = {} THEN 0 ELSE PayoutOf(Pick(s)) + it[s \ {Pick(s)}]]
           sum == CHOOSE it : Fold(it)
<1>0. IsFiniteSet(S) BY FS_Subset, AdsAssumption
<1>1. MapThenSumSet(PayoutOf, S) = sum[S]
  BY DEF MapThenSumSet, MapThenFoldSet, Pick
<1>2. IntValued(Payouts, S)
  <2>1. \A v \in Views : PayoutOf(v) \in Int
    BY ShareIsNat, RewardAssumption DEF PayoutOf
  <2>2. QED BY <2>1 DEF IntValued, Payouts
<1>3. \A s \in SUBSET S : s # {} => Payouts[Pick(s)] = PayoutOf(Pick(s))
  BY PickIn DEF Payouts
<1>4. \A it : Fold(it) <=> Adds(it, Payouts, S)
  BY <1>3 DEF Adds, AddsOn
<1>5. \E it : Fold(it)
  BY <1>0, <1>2, <1>4, FoldExists
<1>6. Fold(sum)
  BY <1>5
<1>7. Adds(sum, Payouts, S)
  BY <1>4, <1>6
<1> HIDE DEF sum
<1>8. sum[S] = SumOf(Payouts, S)
  BY <1>0, <1>2, <1>7, FoldIsSum, S \in SUBSET S
<1>9. QED BY <1>1, <1>2, <1>8

(* What the served views of an ad paid is covered by their cost.            *)
LEMMA ServedWithinCost ==
  ASSUME NEW a \in Ads
  PROVE  /\ MapThenSumSet(PayoutOf, Served(a)) \in Int
         /\ MapThenSumSet(PayoutOf, Served(a))
              <= Cost(a) * Cardinality(Served(a))
<1> DEFINE S == Served(a)
<1>1. IsFiniteSet(S) /\ S \subseteq Views
  BY ServedIsFinite DEF Served, Rewarded
<1>2. IntValued(Payouts, S) /\ MapThenSumSet(PayoutOf, S) = SumOf(Payouts, S)
  BY <1>1, SumOfPayouts
<1>3. \A v \in S : Payouts[v] <= Cost(a)
  BY <1>1, PayoutWithinCost DEF Payouts, Served
<1>4. Cost(a) \in Int
  BY CostIsPositive
<1>5. SumOf(Payouts, S) \in Int /\ SumOf(Payouts, S) <= Cost(a) * Cardinality(S)
  BY <1>1, <1>2, <1>3, <1>4, SumType, SumBound
<1>6. QED BY <1>2, <1>5

(* As long as no more views are served than were sold, what an ad pays out  *)
(* in rewards and commissions, and gives back, comes from its price.        *)
THEOREM PayoutsFromBudget == AdSpec => []PaidFromBudget
<1>1. AdTypeOK => PaidFromBudget
  <2> SUFFICES ASSUME AdTypeOK, NEW a \in Placed,
                      Cost(a) * Cardinality(Served(a)) + refund[a] <= Price(a)
      PROVE  MapThenSumSet(PayoutOf, Served(a)) + refund[a] <= Price(a)
    BY DEF PaidFromBudget
  <2>1. a \in Ads BY DEF Placed
  <2> DEFINE paid == MapThenSumSet(PayoutOf, Served(a))
             cost == Cost(a) * Cardinality(Served(a))
  <2>2. paid \in Int /\ paid <= cost
    BY <2>1, ServedWithinCost
  <2>3. cost \in Int
    BY <2>1, CostIsPositive, ServedIsFinite
  <2>4. refund[a] \in Int /\ Price(a) \in Int
    BY <2>1, PriceIsNat DEF AdTypeOK
  <2> HIDE DEF paid, cost
  <2>5. cost + refund[a] <= Price(a) BY DEF cost
  <2>6. paid + refund[a] <= Price(a) BY <2>2, <2>3, <2>4, <2>5
  <2>7. QED BY <2>6 DEF paid
<1>2. QED BY <1>1, AdTypeCorrect, PTL

(* The condition of PaidFromBudget holds of every ad that still has views   *)
(* for sale: what it paid so far and the refund a rejection would make now  *)
(* are together within its price.                                           *)
THEOREM UnsoldIsFunded ==
  AdSpec => [](\A a \in Placed : ad[a].left > 0 =>
                 MapThenSumSet(PayoutOf, Served(a)) + RefundDue(a) <= Price(a))
<1>1. BudgetInv =>
        \A a \in Placed : ad[a].left > 0 =>
          MapThenSumSet(PayoutOf, Served(a)) + RefundDue(a) <= Price(a)
  <2> SUFFICES ASSUME BudgetInv, NEW a \in Placed, ad[a].left > 0
      PROVE  MapThenSumSet(PayoutOf, Served(a)) + RefundDue(a) <= Price(a)
    OBVIOUS
  <2>1. a \in Ads BY DEF Placed
  <2> DEFINE paid == MapThenSumSet(PayoutOf, Served(a))
             served == Cardinality(Served(a))
             cost == Cost(a)
             left == ad[a].left
  <2>2. paid \in Int /\ paid <= cost * served
    BY <2>1, ServedWithinCost
  <2>3. cost \in Nat /\ served \in Nat /\ left \in Int /\ left > 0
    BY <2>1, CostIsPositive, ServedIsFinite DEF BudgetInv, AdTypeOK, AdRow
  <2>4. served + left = Purchased[a]
    BY DEF BudgetInv, LeftIsUnserved
  <2>5. Price(a) = cost * Purchased[a] BY DEF Price
  <2>6. RefundDue(a) = (IF left * cost > 0 THEN left * cost ELSE 0)
    BY DEF RefundDue
  <2> HIDE DEF paid, served, cost, left
  <2>7. Price(a) = cost * served + cost * left
    BY <2>3, <2>4, <2>5
  <2>8. left * cost = cost * left /\ cost * left \in Int /\ cost * served \in Int
        /\ cost * left >= 0
    BY <2>3
  <2>9. RefundDue(a) = cost * left BY <2>6, <2>8
  <2>10. paid + RefundDue(a) <= Price(a)
    <3> DEFINE x == cost * served
               y == cost * left
    <3>1. x \in Int /\ y \in Int /\ paid <= x BY <2>2, <2>8
    <3>2. Price(a) = x + y /\ RefundDue(a) = y BY <2>7, <2>9
    <3> HIDE DEF x, y
    <3>3. QED BY <2>2, <3>1, <3>2
  <2>11. QED BY <2>10 DEF paid
<1>2. QED BY <1>1, BudgetInvariant, PTL

(* The ledger explains what viewers and their referrers got from ads.       *)
THEOREM ViewersBalance == AdSpec => []EarningsMatch
<1>1. AdTypeOK /\ LedgerInv /\ [AdNext]_adVars => LedgerInv'
  <2> SUFFICES ASSUME AdTypeOK, LedgerInv, [AdNext]_adVars
      PROVE  LedgerInv'
    OBVIOUS
  <2>1. CASE UNCHANGED moneyVars BY <2>1, LedgerStays
  <2>2. ASSUME NEW r \in Requests, Credit(r) PROVE LedgerInv'
    BY <2>2, LoadedFields, GrantBooks DEF Credit, AdTypeOK
  <2>3. QED
    BY <2>1, <2>2
    DEF AdNext, AdStep, CompleteStep, OrderCheck, OrderCommit, SetActive,
        ApproveLoad, ApproveSave, Reject, StartCheck, StartCreate, Load, TurnDown,
        Move, adVars
<1>2. AdInit => LedgerInv BY LedgerOpens DEF AdInit
<1>3. LedgerInv => EarningsMatch BY DEF LedgerInv
<1>4. QED BY <1>1, <1>2, <1>3, AdTypeCorrect, PTL DEF AdSpec

----------------------------------------------------------------------------
(* What advertisers have.                                                   *)

(* Why: an open order would leave nothing below zero but for what others    *)
(* took since its check.                                                    *)
OrderedIsCovered ==
    \A a \in ordering : Balance(Advertiser[a]) + taken[a] >= Price(a)

UnorderedIsNew == \A a \in Ads \ ordering : taken[a] = 0

CoverInv == AdTypeOK /\ OrderedIsCovered /\ UnorderedIsNew

LEMMA BalanceType ==
  ASSUME AdTypeOK, NEW u \in Users PROVE Balance(u) \in Int
BY DEF AdTypeOK, MoneyTypeOK, Balance

(* A step that lets no order past the comparison, and whatever it takes     *)
(* from a balance counts as taken from the orders still open.               *)
LEMMA CoverKept ==
  ASSUME CoverInv, AdTypeOK',
         ordering' \subseteq ordering,
         \A a \in ordering' :
           Balance(Advertiser[a])' + taken'[a] >= Balance(Advertiser[a]) + taken[a],
         \A a \in Ads : a \in ordering' \/ taken'[a] = 0
  PROVE  CoverInv'
<1>1. ASSUME NEW a \in ordering'
      PROVE  Balance(Advertiser[a])' + taken'[a] >= Price(a)
  <2> DEFINE u == Advertiser[a]
             new == Balance(u)'
             price == Price(a)
  <2>1. a \in ordering /\ a \in Ads /\ u \in Users
    BY <1>1, AdConstants DEF CoverInv, AdTypeOK
  <2>2. Balance(u) \in Int /\ taken[a] \in Int /\ price \in Int
    BY <2>1, BalanceType, PriceIsNat DEF CoverInv, AdTypeOK
  <2>3. new \in Int /\ taken'[a] \in Int
    BY <2>1 DEF AdTypeOK, MoneyTypeOK, Balance
  <2>4. Balance(u) + taken[a] >= price
    BY <2>1 DEF CoverInv, OrderedIsCovered
  <2>5. new + taken'[a] >= Balance(u) + taken[a] BY <1>1
  <2> HIDE DEF u, new, price
  <2>6. new + taken'[a] >= price BY <2>2, <2>3, <2>4, <2>5
  <2>7. QED BY <2>6 DEF u, new, price
<1>2. OrderedIsCovered' BY <1>1 DEF OrderedIsCovered
<1>3. UnorderedIsNew' BY DEF UnorderedIsNew
<1>4. QED BY <1>2, <1>3 DEF CoverInv

(* In particular one that only adds to balances.                            *)
LEMMA CoverGrows ==
  ASSUME CoverInv, AdTypeOK', UNCHANGED <<ordering, taken>>,
         \A u \in Users : Balance(u)' >= Balance(u)
  PROVE  CoverInv'
<1>1. ASSUME NEW a \in ordering
      PROVE  Balance(Advertiser[a])' + taken[a] >= Balance(Advertiser[a]) + taken[a]
  <2> DEFINE u == Advertiser[a]
  <2>1. a \in Ads /\ u \in Users BY AdConstants DEF CoverInv, AdTypeOK
  <2>2. Balance(u) \in Int /\ taken[a] \in Int
    BY <2>1, BalanceType DEF CoverInv, AdTypeOK
  <2>3. Balance(u)' \in Int BY <2>1 DEF AdTypeOK, MoneyTypeOK, Balance
  <2>4. Balance(u)' >= Balance(u) BY <2>1
  <2> HIDE DEF u
  <2>5. Balance(u)' + taken[a] >= Balance(u) + taken[a] BY <2>2, <2>3, <2>4
  <2>6. QED BY <2>5 DEF u
<1>2. \A a \in Ads : a \in ordering' \/ taken'[a] = 0
  BY DEF CoverInv, UnorderedIsNew
<1>3. QED BY <1>1, <1>2, CoverKept

LEMMA CoverStep == CoverInv /\ [AdNext]_adVars => CoverInv'
<1> SUFFICES ASSUME CoverInv, [AdNext]_adVars PROVE CoverInv'
  OBVIOUS
<1>0. /\ AdTypeOK /\ AdTypeOK'
      /\ wallet \in [Users -> Nat] /\ bank \in [Users -> Int]
      /\ taken \in [Ads -> Nat] /\ ordering \subseteq Ads
      /\ \A a \in Ads : a \in ordering \/ taken[a] = 0
  BY AdTypeStep DEF CoverInv, AdTypeOK, MoneyTypeOK, UnorderedIsNew
<1>1. ASSUME NEW a \in Ads, OrderCheck(a) PROVE CoverInv'
  <2>1. /\ ordering' = ordering \cup {a}
        /\ taken' = taken /\ taken[a] = 0
        /\ Balance(Advertiser[a]) >= Price(a)
        /\ \A u \in Users : Balance(u)' = Balance(u)
    BY <1>0, <1>1 DEF OrderCheck, Balance, Affordable
  <2>2. \A b \in ordering' : Advertiser[b] \in Users
    BY <1>0, <2>1, AdConstants
  <2>3. Balance(Advertiser[a]) + taken[a] = Balance(Advertiser[a])
    BY <1>0, <2>1, <2>2, BalanceType
  <2>4. OrderedIsCovered'
    BY <2>1, <2>2, <2>3 DEF CoverInv, OrderedIsCovered
  <2>5. UnorderedIsNew' BY <1>0, <2>1 DEF UnorderedIsNew
  <2>6. QED BY <1>0, <2>4, <2>5 DEF CoverInv
<1>2. ASSUME NEW a \in Ads, NEW auto \in BOOLEAN, OrderCommit(a, auto)
      PROVE  CoverInv'
  <2> DEFINE payer == Advertiser[a]
             price == Price(a)
             open  == ordering \ {a}
             lost(b) == IF b \in open /\ Advertiser[b] = payer THEN price ELSE 0
             all   == TakenFrom(payer, price, open)
  <2>1. payer \in Users /\ price \in Nat BY AdConstants, PriceIsNat
  <2>2. all \in [Ads -> Nat] /\ \A b \in Ads : all[b] = taken[b] + lost(b)
    BY <1>0, <2>1, TakenFromType
  <2>3. /\ ordering' = open
        /\ taken' = [all EXCEPT ![a] = 0]
        /\ bank' = [bank EXCEPT ![payer] = @ - price]
        /\ wallet' = wallet
    BY <1>2 DEF OrderCommit
  <2>4. \A b \in Ads : taken'[b] = IF b = a THEN 0 ELSE taken[b] + lost(b)
    BY <2>2, <2>3
  <2>5. \A u \in Users :
          Balance(u)' = wallet[u] + IF u = payer THEN bank[u] - price ELSE bank[u]
    BY <1>0, <2>3 DEF Balance
  <2>6. ASSUME NEW b \in open
        PROVE  Balance(Advertiser[b])' + taken'[b]
                 >= Balance(Advertiser[b]) + taken[b]
    <3> DEFINE u == Advertiser[b]
    <3>1. b \in Ads /\ b # a /\ u \in Users BY <1>0, AdConstants
    <3>2. taken'[b] = taken[b] + (IF u = payer THEN price ELSE 0)
      BY <2>4, <2>6, <3>1
    <3>3. Balance(u)' = wallet[u] + IF u = payer THEN bank[u] - price ELSE bank[u]
      BY <2>5, <3>1
    <3>4. wallet[u] \in Int /\ bank[u] \in Int /\ taken[b] \in Int
      BY <1>0, <3>1
    <3>5. Balance(u) = wallet[u] + bank[u] BY DEF Balance
    <3> HIDE DEF u, price, payer
    <3>6. price \in Nat BY <2>1 DEF price
    <3>7. Balance(u)' + taken'[b] >= Balance(u) + taken[b]
      BY <3>2, <3>3, <3>4, <3>5, <3>6
    <3>8. QED BY <3>7 DEF u
  <2>7. \A b \in Ads : b \in open \/ taken'[b] = 0
    <3> SUFFICES ASSUME NEW b \in Ads, b \notin open PROVE taken'[b] = 0
      OBVIOUS
    <3>1. CASE b = a BY <2>4, <3>1
    <3>2. CASE b # a BY <1>0, <2>4, <3>2
    <3>3. QED BY <3>1, <3>2
  <2> HIDE DEF payer, price, all
  <2>8. QED BY <1>0, <2>3, <2>6, <2>7, CoverKept
<1>3. ASSUME NEW a \in Ads, Reject(a) PROVE CoverInv'
  <2>1. Advertiser[a] \in Users /\ RefundDue(a) \in Nat
    BY <1>0, AdConstants, RefundDueType
  <2>2. \A u \in Users : bank'[u] >= bank[u] /\ wallet'[u] = wallet[u]
    <3> DEFINE due == RefundDue(a)
    <3>1. bank' = [bank EXCEPT ![Advertiser[a]] = @ + due]
      BY <1>3 DEF Reject
    <3> HIDE DEF due
    <3>2. due \in Nat BY <2>1 DEF due
    <3>3. QED BY <1>0, <1>3, <2>1, <3>1, <3>2 DEF Reject
  <2>3. bank' \in [Users -> Int] BY <1>0 DEF AdTypeOK
  <2>4. \A u \in Users : Balance(u)' >= Balance(u)
    BY <1>0, <2>2, <2>3 DEF Balance
  <2>5. ordering' = ordering /\ taken' = taken BY <1>3 DEF Reject
  <2>6. QED BY <1>0, <2>4, <2>5, CoverGrows
<1>4. ASSUME NEW r \in Requests, Credit(r) PROVE CoverInv'
  <2>1. at[r].v \in Events BY <1>0, <1>4, LoadedFields DEF Credit
  <2>2. \A u \in Users :
          /\ Gain(u, at[r].v) \in Nat
          /\ wallet'[u] = wallet[u] + Gain(u, at[r].v)
    BY <1>4, <2>1, ShareIsNat DEF Credit, Grant
  <2>3. \A u \in Users : Balance(u)' >= Balance(u)
    BY <1>0, <1>4, <2>2 DEF Balance, Credit
  <2>4. ordering' = ordering /\ taken' = taken BY <1>4 DEF Credit
  <2>5. QED BY <1>0, <2>3, <2>4, CoverGrows
<1>5. ASSUME NEW m \in Movements, Move(m) PROVE CoverInv'
  <2> DEFINE who == MovedUser[m]
             sat == MovedSat[m]
  <2>1. who \in Users /\ sat \in Int BY AdsAssumption
  <2>2. /\ ordering' = ordering /\ wallet' = wallet
        /\ \A u \in Users : bank'[u] = IF u = who THEN bank[u] + sat ELSE bank[u]
    BY <1>0, <1>5, <2>1 DEF Move
  <2>3. \A u \in Users :
          Balance(u)' = wallet[u] + IF u = who THEN bank[u] + sat ELSE bank[u]
    BY <2>2 DEF Balance
  <2>4. CASE sat >= 0
    <3>1. taken' = taken BY <1>5, <2>4 DEF Move
    <3> HIDE DEF who, sat
    <3>2. \A u \in Users : Balance(u)' >= Balance(u)
      BY <1>0, <2>1, <2>3, <2>4 DEF Balance
    <3>3. QED BY <1>0, <2>2, <3>1, <3>2, CoverGrows
  <2>5. CASE ~ (sat >= 0)
    <3>1. -sat \in Nat BY <2>1, <2>5
    <3>2. taken' = TakenFrom(who, -sat, ordering) BY <1>5, <2>5 DEF Move
    <3>3. \A b \in Ads :
            taken'[b] =
              taken[b] + IF b \in ordering /\ Advertiser[b] = who THEN -sat ELSE 0
      BY <1>0, <2>1, <3>1, <3>2, TakenFromType
    <3>4. ASSUME NEW b \in ordering
          PROVE  Balance(Advertiser[b])' + taken'[b]
                   >= Balance(Advertiser[b]) + taken[b]
      <4> DEFINE u == Advertiser[b]
      <4>1. b \in Ads /\ u \in Users BY <1>0, AdConstants
      <4>2. taken'[b] = taken[b] + (IF u = who THEN -sat ELSE 0)
        BY <3>3, <3>4, <4>1
      <4>3. Balance(u)' = wallet[u] + IF u = who THEN bank[u] + sat ELSE bank[u]
        BY <2>3, <4>1
      <4>4. wallet[u] \in Int /\ bank[u] \in Int /\ taken[b] \in Int
        BY <1>0, <4>1
      <4>5. Balance(u) = wallet[u] + bank[u] BY DEF Balance
      <4> HIDE DEF u, who, sat
      <4>6. Balance(u)' + taken'[b] >= Balance(u) + taken[b]
        BY <2>1, <4>2, <4>3, <4>4, <4>5
      <4>7. QED BY <4>6 DEF u
    <3>5. \A b \in Ads : b \in ordering \/ taken'[b] = 0
      <4> SUFFICES ASSUME NEW b \in Ads, b \notin ordering PROVE taken'[b] = 0
        OBVIOUS
      <4>1. taken'[b] = taken[b] + 0 BY <3>3
      <4>2. taken[b] = 0 BY <1>0
      <4>3. QED BY <4>1, <4>2
    <3> HIDE DEF who, sat
    <3>6. QED BY <1>0, <2>2, <3>4, <3>5, CoverKept
  <2>6. QED BY <2>4, <2>5
<1>6. CASE UNCHANGED <<wallet, bank, ordering, taken>>
  <2>1. \A u \in Users : Balance(u)' = Balance(u) /\ Balance(u) \in Int
    BY <1>0, <1>6, BalanceType DEF Balance
  <2>2. \A u \in Users : Balance(u)' >= Balance(u) BY <2>1
  <2>3. QED BY <1>0, <1>6, <2>2, CoverGrows
<1>7. QED
  BY ZenonT(60), <1>1, <1>2, <1>3, <1>4, <1>5, <1>6, AdsAssumption
  DEF AdNext, AdStep, CompleteStep, SetActive, ApproveLoad, ApproveSave,
      StartCheck, StartCreate, Load, TurnDown, adVars

(* The debit of an order never overdraws the balance by itself: what it     *)
(* leaves is below zero at most by what other orders, withdrawals and       *)
(* chargebacks took since the order's balance check, however many there     *)
(* are.                                                                     *)
THEOREM OrderIsCovered == AdSpec => AdvertiserCovers
<1> DEFINE Covers ==
      \A a \in ordering :
        a \notin ordering' => Balance(Advertiser[a])' + taken[a] >= 0
<1>1. ASSUME CoverInv, [AdNext]_adVars PROVE Covers
  <2> SUFFICES ASSUME NEW a \in ordering, a \notin ordering'
      PROVE Balance(Advertiser[a])' + taken[a] >= 0
    OBVIOUS
  <2>1. a \in Ads /\ AdTypeOK BY <1>1 DEF CoverInv, AdTypeOK
  <2>2. \E auto \in BOOLEAN : OrderCommit(a, auto)
    BY ZenonT(60), <1>1, AdsAssumption
    DEF AdNext, AdStep, CompleteStep, OrderCheck, OrderCommit, SetActive,
        ApproveLoad, ApproveSave, Reject, StartCheck, StartCreate, Load,
        TurnDown, Credit, Move, adVars
  <2> DEFINE u == Advertiser[a]
             price == Price(a)
  <2>3. u \in Users /\ price \in Nat BY <2>1, AdConstants, PriceIsNat
  <2>4. wallet[u] \in Int /\ bank[u] \in Int /\ taken[a] \in Int
    BY <2>1, <2>3 DEF AdTypeOK, MoneyTypeOK
  <2>5. Balance(u)' = wallet[u] + (bank[u] - price)
    BY <2>1, <2>2, <2>3 DEF OrderCommit, Balance, AdTypeOK
  <2>6. wallet[u] + bank[u] + taken[a] >= price
    BY <1>1 DEF CoverInv, OrderedIsCovered, Balance
  <2> HIDE DEF u, price
  <2>7. Balance(u)' + taken[a] >= 0 BY <2>3, <2>4, <2>5, <2>6
  <2>8. QED BY <2>7 DEF u
<1>2. AdInit => CoverInv
  <2>1. AdInit => AdTypeOK BY AdTypeInit
  <2>2. QED BY <2>1 DEF AdInit, CoverInv, OrderedIsCovered, UnorderedIsNew
<1>3. CoverInv /\ [AdNext]_adVars => [Covers]_adVars BY <1>1
<1>4. QED BY <1>2, <1>3, CoverStep, PTL DEF AdSpec, AdvertiserCovers
============================================================================
