---------------------------- MODULE MCApiClients ----------------------------
(* Constants for model-checking ApiClients: two challenges whose curves     *)
(* last one and two ticks; four postbacks to u1, whom u2 referred: a credit *)
(* and a chargeback with one transId, another chargeback, and one that is   *)
(* not to be accounted.                                                     *)
EXTENDS ApiClients, TLC

CONSTANTS c1, c2, u1, u2, nobody, p1, p2, p3, p4

MCCurveMs  == (c1 :> 1) @@ (c2 :> 2)
MCReferrer == (u1 :> u2) @@ (u2 :> nobody)
MCEarner   == [p \in Events |-> u1]
MCReward   == (p1 :> 10) @@ (p2 :> 10) @@ (p3 :> 7) @@ (p4 :> 1)
MCTrans    == (p1 :> 1) @@ (p2 :> 1) @@ (p3 :> 2) @@ (p4 :> 3)
MCOutcome  == (p1 :> "completed") @@ (p2 :> "chargeback")
              @@ (p3 :> "chargeback") @@ (p4 :> "ignored")
=============================================================================
