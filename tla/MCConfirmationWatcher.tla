----------------------- MODULE MCConfirmationWatcher -----------------------
(* Constants for model-checking ConfirmationWatcher: two on-chain           *)
(* withdrawals of one user.                                                 *)
EXTENDS ConfirmationWatcher

CONSTANTS w1, w2, u1, k1, k2

MCOwner    == [w \in Withdrawals |-> u1]
MCAmount   == [w \in Withdrawals |-> IF w = w1 THEN 2 ELSE 3]
MCMethod   == [w \in Withdrawals |-> IF w = w1 THEN "onchain_usdt_trc20"
                                               ELSE "onchain_btc"]
MCFinality == [m \in OnchainMethods |-> IF m = "onchain_btc" THEN 2 ELSE 3]
MCFunds    == [u \in Users |-> 5]
============================================================================
