---------------------------- MODULE MCPayoutJob ----------------------------
(* Constants for model-checking PayoutJob: one user with a                  *)
(* FaucetPay withdrawal w1 and an on-chain withdrawal w2.                   *)
EXTENDS PayoutJob

CONSTANTS w1, w2, u1, k1, k2

MCOwner    == [w \in Withdrawals |-> u1]
MCAmount   == [w \in Withdrawals |-> IF w = w1 THEN 2 ELSE 3]
MCMethod   == [w \in Withdrawals |-> IF w = w1 THEN "faucetpay"
                                               ELSE "onchain_usdt_trc20"]
MCFinality == [m \in OnchainMethods |-> 2]

MCFunds      == [u \in Users |-> 5] \* covers both withdrawals, no more
MCTightFunds == [u \in Users |-> 4] \* covers either; both only after a refund
============================================================================
