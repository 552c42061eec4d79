----------------------------- MODULE MCAdBudget -----------------------------
(* Constants for model-checking AdBudget: the advertiser can pay one of two *)
(* ads but not both, a withdrawal takes from the same balance and comes     *)
(* back; the two views of the first ad are by ann, whom the advertiser      *)
(* referred.                                                                *)
EXTENDS AdBudget, TLC

CONSTANTS adv, ann, nobody, big, small, v1, v2, r1, r2, out, back

MCReferrer   == (adv :> nobody) @@ (ann :> adv)
MCEarner     == [v \in Events |-> ann]
MCAdvertiser == [a \in Ads |-> adv]
MCAdReward   == (big :> 4) @@ (small :> 6)
MCPurchased  == (big :> 2) @@ (small :> 1)
MCAdOf       == [v \in Events |-> big]
MCReward     == [v \in Events |-> MCAdReward[big]]
MCDeposit    == (adv :> 14) @@ (ann :> 0)
MCMovedUser  == [m \in Movements |-> adv]
MCMovedSat   == (out :> -6) @@ (back :> 6)

Symmetric == Permutations(Requests) \cup Permutations(Events)
============================================================================
