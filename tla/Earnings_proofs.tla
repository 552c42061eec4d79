-------------------------- MODULE Earnings_proofs --------------------------
(* Lemmas about granting a reward, for any users, events and percentages.   *)
EXTENDS Earnings, FiniteSums

(* Shares and gains are amounts, whatever the percentages are.              *)
LEMMA ShareIsNat ==
  ASSUME NEW x \in Events
  PROVE  Share(x) \in Nat /\ \A u \in Users : Gain(u, x) \in Nat
<1>1. Earner[x] \in Users /\ Reward[x] \in Nat
  BY EarnerAssumption, RewardAssumption
<1>2. EffectivePct \in Nat
  BY PctAssumption DEF EffectivePct, LesserOf, AtLeastZero
<1>3. Reward[x] * EffectivePct \in Nat BY <1>1, <1>2
<1>4. Share(x) \in Nat BY <1>3 DEF Share, Commission
<1>5. QED BY <1>1, <1>4 DEF Gain

LEMMA GrantType ==
  ASSUME MoneyTypeOK, NEW x \in Events, Grant(x) PROVE MoneyTypeOK'
<1>1. RewardRows(x) \subseteq Kinds \X Events BY DEF RewardRows, Kinds
<1>2. \A u \in Users : wallet[u] + Gain(u, x) \in Nat
  BY ShareIsNat DEF MoneyTypeOK
<1>3. QED BY <1>1, <1>2 DEF Grant, MoneyTypeOK

(* The rows of an event are its own.                                        *)
LEMMA PairsOf ==
  ASSUME NEW x \in Events, NEW y \in Events, NEW kind \in Kinds
  PROVE  <<kind, y>> \in RewardRows(x)
           <=> x = y /\ (kind = "referral_commission" => Share(x) > 0)
BY DEF RewardRows, Kinds

LEMMA GrantRewards ==
  ASSUME NEW x \in Events, Grant(x)
  PROVE  /\ Rewarded' = Rewarded \cup {x}
         /\ x \notin Rewarded
BY PairsOf DEF Grant, Rewarded, Kinds, RewardRows

(* The share of a referrer is at most the platform's.                       *)
LEMMA ShareWithinPool ==
  ASSUME NEW x \in Events, Share(x) > 0
  PROVE  100 * Share(x) <= Reward[x] * PlatformPct
<1> DEFINE p == EffectivePct
           n == Reward[x]
<1>1. n \in Nat /\ p \in Nat /\ PlatformPct \in Int
  BY RewardAssumption, PctAssumption DEF EffectivePct, LesserOf, AtLeastZero
<1>2. Share(x) = (n * p) \div 100 BY DEF Share, Commission
<1>3. n * p \in Nat BY <1>1
<1>4. 100 * Share(x) <= n * p
  <2> DEFINE k == n * p
  <2>1. k \in Nat /\ Share(x) = k \div 100 BY <1>2, <1>3
  <2> HIDE DEF k
  <2>2. 100 * Share(x) <= k BY <2>1
  <2>3. QED BY <2>2 DEF k
<1>5. p # 0
  <2>1. SUFFICES ASSUME p = 0 PROVE FALSE OBVIOUS
  <2>2. n * p = 0 BY <1>1, <2>1
  <2>3. QED BY <1>2, <2>2
<1>6. p <= PlatformPct
  BY <1>5, PctAssumption DEF EffectivePct, LesserOf, AtLeastZero
<1>7. n * p <= n * PlatformPct
  <2> DEFINE q == PlatformPct
  <2>1. n \in Nat /\ p \in Nat /\ q \in Nat /\ p <= q BY <1>1, <1>6
  <2> HIDE DEF n, p, q
  <2>2. n * p <= n * q BY <2>1
  <2>3. QED BY <2>2 DEF q
<1>8. n * PlatformPct \in Int BY <1>1
<1>9. Share(x) \in Nat BY ShareIsNat
<1>10. QED BY <1>3, <1>4, <1>7, <1>8, <1>9

----------------------------------------------------------------------------
(* The books.  What a user was rewarded with, and what it got as a          *)
(* referrer, are sums over the events that have the row in the ledger.      *)

Shares == [x \in Events |-> Share(x)]
ShareSum(S) == MapThenSumSet(LAMBDA x : Share(x), S)

LEMMA SumOfShares ==
  ASSUME NEW S, S \subseteq Events, IsFiniteSet(S)
  PROVE  IntValued(Shares, S) /\ ShareSum(S) = SumOf(Shares, S)
<1> DEFINE Fold(it) ==
      it = [s \in SUBSET S |->
              IF s = {} THEN 0 ELSE Share(Pick(s)) + it[s \ {Pick(s)}]]
           sum == CHOOSE it : Fold(it)
<1>1. ShareSum(S) = sum[S]
  BY DEF ShareSum, MapThenSumSet, MapThenFoldSet, Pick
<1>2. IntValued(Shares, S)
  BY ShareIsNat DEF IntValued, Shares
<1>3. \A s \in SUBSET S : s # {} => Shares[Pick(s)] = Share(Pick(s))
  BY PickIn DEF Shares
<1>4. \A it : Fold(it) <=> Adds(it, Shares, S)
  BY <1>3 DEF Adds, AddsOn
<1>5. \E it : Fold(it)
  BY <1>2, <1>4, FoldExists
<1>6. Fold(sum)
  BY <1>5
<1>7. Adds(sum, Shares, S)
  BY <1>4, <1>6
<1> HIDE DEF sum
<1>8. sum[S] = SumOf(Shares, S)
  BY <1>2, <1>7, FoldIsSum, S \in SUBSET S
<1>9. QED BY <1>1, <1>2, <1>8

RewardSum(S) == MapThenSumSet(LAMBDA x : Reward[x], S)

LEMMA SumOfRewards ==
  ASSUME NEW S, S \subseteq Events
  PROVE  IntValued(Reward, S) /\ RewardSum(S) = SumOf(Reward, S)
<1>1. IntValued(Reward, S) BY RewardAssumption DEF IntValued
<1>2. RewardSum(S) = SumOf(Reward, S) BY DEF RewardSum, SumOf
<1>3. QED BY <1>1, <1>2

(* One more event in a sum.                                                 *)
LEMMA OneMoreEvent ==
  ASSUME NEW S, S \subseteq Events, IsFiniteSet(S),
         NEW x \in Events, x \notin S
  PROVE  /\ RewardSum(S) \in Int /\ ShareSum(S) \in Int
         /\ RewardSum(S \cup {x}) = RewardSum(S) + Reward[x]
         /\ ShareSum(S \cup {x}) = ShareSum(S) + Share(x)
<1> DEFINE T == S \cup {x}
<1>1. T \subseteq Events /\ IsFiniteSet(T)
  BY FS_AddElement
<1>2. /\ RewardSum(S) = SumOf(Reward, S)
      /\ RewardSum(T) = SumOf(Reward, T) /\ IntValued(Reward, T)
      /\ IntValued(Reward, S)
  BY <1>1, SumOfRewards
<1>3. /\ ShareSum(S) = SumOf(Shares, S)
      /\ ShareSum(T) = SumOf(Shares, T) /\ IntValued(Shares, T)
      /\ IntValued(Shares, S)
  BY <1>1, SumOfShares
<1>4. SumOf(Reward, S) \in Int /\ SumOf(Shares, S) \in Int
  BY <1>2, <1>3, SumType
<1>5. SumOf(Reward, T) = SumOf(Reward, S) + Reward[x]
  BY <1>2, SumAdds
<1>6. SumOf(Shares, T) = SumOf(Shares, S) + Shares[x]
  BY <1>3, SumAdds
<1>7. Shares[x] = Share(x) BY DEF Shares
<1>8. QED BY <1>2, <1>3, <1>4, <1>5, <1>6, <1>7

Commissioned == {x \in Events : <<"referral_commission", x>> \in earned}
OwnEvents(u)  == {x \in Rewarded : Earner[x] = u}
ReferredBy(u) == {x \in Events : /\ Referrer[Earner[x]] = u
                                 /\ <<"referral_commission", x>> \in earned}

LedgerInv == /\ IsFiniteSet(Rewarded) /\ IsFiniteSet(Commissioned)
             /\ EarningsMatch

LEMMA EarnedSums ==
  EarningsMatch <=>
    \A u \in Users :
      wallet[u] = RewardSum(OwnEvents(u)) + ShareSum(ReferredBy(u))
BY DEF EarningsMatch, RewardSum, ShareSum, OwnEvents, ReferredBy

LEMMA NextEarnedSums ==
  (\A u \in Users :
      wallet'[u] = RewardSum(OwnEvents(u)') + ShareSum(ReferredBy(u)'))
    => EarningsMatch'
BY DEF EarningsMatch, RewardSum, ShareSum, OwnEvents, ReferredBy,
   MapThenSumSet, MapThenFoldSet

(* What the ledger says a user earned.                                      *)
Due(u) == RewardSum(OwnEvents(u)) + ShareSum(ReferredBy(u))

(* The rows of a granted reward are new, so are its events in the sums, and *)
(* the increments are theirs.                                               *)
LEMMA GrantSums ==
  ASSUME IsFiniteSet(Rewarded), IsFiniteSet(Commissioned),
         NEW x \in Events, Grant(x)
  PROVE  /\ IsFiniteSet(Rewarded') /\ IsFiniteSet(Commissioned')
         /\ \A u \in Users :
              /\ Due(u) \in Int
              /\ RewardSum(OwnEvents(u)') + ShareSum(ReferredBy(u)')
                   = Due(u) + Gain(u, x)
<1>1. /\ Rewarded' = Rewarded \cup {x} /\ x \notin Rewarded
      /\ Rewarded \subseteq Events
  BY GrantRewards DEF Rewarded
<1>2. /\ Share(x) > 0 => /\ Commissioned' = Commissioned \cup {x}
                         /\ x \notin Commissioned
      /\ ~ (Share(x) > 0) => Commissioned' = Commissioned
  <2>1. \A y \in Events : <<"referral_commission", y>> \in RewardRows(x)
                            <=> x = y /\ Share(x) > 0
    BY PairsOf DEF Kinds
  <2>2. /\ RewardRows(x) \cap earned = {}
        /\ earned' = earned \cup RewardRows(x)
    BY DEF Grant
  <2>3. QED BY <2>1, <2>2 DEF Commissioned
<1>3. IsFiniteSet(Rewarded') /\ IsFiniteSet(Commissioned')
  BY <1>1, <1>2, FS_AddElement
<1>4. /\ Earner[x] \in Users /\ Reward[x] \in Nat /\ Share(x) \in Nat
  BY EarnerAssumption, RewardAssumption, ShareIsNat
<1>5. ASSUME NEW u \in Users
      PROVE  /\ Due(u) \in Int
             /\ RewardSum(OwnEvents(u)') + ShareSum(ReferredBy(u)')
                  = Due(u) + Gain(u, x)
  <2>1. /\ OwnEvents(u) \subseteq Events /\ ReferredBy(u) \subseteq Events
        /\ x \notin OwnEvents(u)
        /\ OwnEvents(u) \subseteq Rewarded
        /\ ReferredBy(u) \subseteq Commissioned
    BY <1>1 DEF OwnEvents, ReferredBy, Rewarded, Commissioned
  <2>2. IsFiniteSet(OwnEvents(u)) /\ IsFiniteSet(ReferredBy(u))
    BY <2>1, FS_Subset
  <2>3. /\ RewardSum(OwnEvents(u)) \in Int
        /\ RewardSum(OwnEvents(u)')
             = RewardSum(OwnEvents(u))
               + (IF u = Earner[x] THEN Reward[x] ELSE 0)
    <3>1. /\ RewardSum(OwnEvents(u)) \in Int
          /\ RewardSum(OwnEvents(u) \cup {x})
               = RewardSum(OwnEvents(u)) + Reward[x]
      BY <2>1, <2>2, OneMoreEvent
    <3>2. CASE u = Earner[x]
      <4>1. OwnEvents(u)' = OwnEvents(u) \cup {x}
        BY <1>1, <3>2 DEF OwnEvents
      <4>2. QED BY <3>1, <3>2, <4>1
    <3>3. CASE u # Earner[x]
      <4>1. OwnEvents(u)' = OwnEvents(u) BY <1>1, <3>3 DEF OwnEvents
      <4>2. QED BY <3>1, <3>3, <4>1
    <3>4. QED BY <3>2, <3>3
  <2>4. ReferredBy(u) = {y \in Commissioned : Referrer[Earner[y]] = u}
        /\ ReferredBy(u)' = {y \in Commissioned' : Referrer[Earner[y]] = u}
    BY DEF ReferredBy, Commissioned
  <2>5. /\ ShareSum(ReferredBy(u)) \in Int
        /\ ShareSum(ReferredBy(u)')
             = ShareSum(ReferredBy(u))
               + (IF u = Referrer[Earner[x]] THEN Share(x) ELSE 0)
    <3>1. ShareSum(ReferredBy(u)) \in Int
      BY <2>1, <2>2, SumOfShares, SumType
    <3>2. CASE u = Referrer[Earner[x]] /\ Share(x) > 0
      <4>1. /\ ReferredBy(u)' = ReferredBy(u) \cup {x}
            /\ x \notin ReferredBy(u)
        BY <1>2, <2>4, <3>2
      <4>2. ShareSum(ReferredBy(u) \cup {x})
              = ShareSum(ReferredBy(u)) + Share(x)
        BY <2>1, <2>2, <4>1, OneMoreEvent
      <4>3. QED BY <3>1, <3>2, <4>1, <4>2
    <3>3. CASE u # Referrer[Earner[x]] \/ Share(x) = 0
      <4>1. ReferredBy(u)' = ReferredBy(u)
        BY <1>2, <2>4, <3>3
      <4>2. QED BY <3>1, <3>3, <4>1
    <3>4. QED BY <1>4, <3>2, <3>3
  <2>6. QED BY <1>4, <2>3, <2>5 DEF Due, Gain
<1>6. QED BY <1>3, <1>5

(* Granting a reward keeps the books.                                       *)
LEMMA GrantBooks ==
  ASSUME MoneyTypeOK, LedgerInv, NEW x \in Events, Grant(x)
  PROVE  LedgerInv'
<1>1. \A u \in Users : wallet[u] = Due(u)
  BY EarnedSums DEF LedgerInv, Due
<1>2. \A u \in Users : wallet'[u] = wallet[u] + Gain(u, x)
  BY DEF Grant
<1>3. EarningsMatch'
  BY <1>1, <1>2, GrantSums, NextEarnedSums DEF LedgerInv
<1>4. QED BY <1>3, GrantSums DEF LedgerInv

LEMMA LedgerStays ==
  ASSUME LedgerInv, UNCHANGED moneyVars PROVE LedgerInv'
<1>1. /\ Rewarded' = Rewarded /\ Commissioned' = Commissioned
      /\ wallet' = wallet
      /\ \A u : OwnEvents(u)' = OwnEvents(u) /\ ReferredBy(u)' = ReferredBy(u)
  BY DEF moneyVars, Rewarded, Commissioned, OwnEvents, ReferredBy
<1>2. EarningsMatch'
  BY <1>1, EarnedSums, NextEarnedSums DEF LedgerInv
<1>3. QED BY <1>1, <1>2 DEF LedgerInv

LEMMA LedgerOpens == ASSUME MoneyInit PROVE LedgerInv
<1>1. /\ Rewarded = {} /\ Commissioned = {}
      /\ \A u \in Users : wallet[u] = 0
  BY DEF MoneyInit, Rewarded, Commissioned
<1>2. RewardSum({}) = 0 /\ ShareSum({}) = 0
  BY SumOfRewards, SumOfShares, SumEmpty, FS_EmptySet
<1>3. EarningsMatch
  <2> SUFFICES ASSUME NEW u \in Users
      PROVE  wallet[u] = RewardSum(OwnEvents(u)) + ShareSum(ReferredBy(u))
    BY EarnedSums
  <2>1. OwnEvents(u) = {} /\ ReferredBy(u) = {}
    BY <1>1 DEF OwnEvents, ReferredBy, Commissioned
  <2>2. QED BY <1>1, <1>2, <2>1
<1>4. QED BY <1>1, <1>3, FS_EmptySet DEF LedgerInv
=============================================================================
