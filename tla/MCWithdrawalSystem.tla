------------------------- MODULE MCWithdrawalSystem -------------------------
(* Constants for model-checking WithdrawalSystem: one USDT-TRC20 withdrawal *)
(* w2, whose transfer may revert, and a FaucetPay withdrawal w1.            *)
EXTENDS WithdrawalSystem

CONSTANTS w1, w2, u1, k1, k2

MCOwner    == [w \in Withdrawals |-> u1]
MCAmount   == [w \in Withdrawals |-> IF w = w1 THEN 2 ELSE 3]
MCMethod   == [w \in Withdrawals |-> IF w = w1 THEN "faucetpay"
                                               ELSE "onchain_usdt_trc20"]
MCFinality == [m \in OnchainMethods |-> 2]
MCFunds    == [u \in Users |-> 5]
=============================================================================
