--------------------------- MODULE PayoutContract ---------------------------
(***************************************************************************)
(* The promise of WithdrawalPromise together with the transfer it pays     *)
(* for: an open withdrawal is handed to the gateway at most once, it is    *)
(* paid only when it was, and the money comes back only when it never was  *)
(* or when the chain reverted the transfer.                                *)
(***************************************************************************)
EXTENDS WithdrawalPromise

VARIABLE transfer \* of each withdrawal, as the outside world sees it

contractVars == <<phase, avail, transfer>>

ContractInit ==
    /\ PromiseInit
    /\ transfer = [w \in Withdrawals |-> "none"]

HandOver(w) ==
    /\ phase[w] = "open"
    /\ transfer[w] = "none"
    /\ transfer' = [transfer EXCEPT ![w] = "made"]
    /\ UNCHANGED promiseVars

(* A block may revert several.                                              *)
Revert(S) ==
    /\ \A w \in S : phase[w] = "open" /\ transfer[w] = "made"
    /\ transfer' = [w \in Withdrawals |->
                      IF w \in S THEN "reverted" ELSE transfer[w]]
    /\ UNCHANGED promiseVars

ContractNext ==
    \/ \E S \in SUBSET Withdrawals : Revert(S)
    \/ \E w \in Withdrawals :
        \/ HandOver(w)
        \/ /\ \/ Request(w)
              \/ transfer[w] = "made" /\ Pay(w)
              \/ transfer[w] \in {"none", "reverted"} /\ Return(w)
           /\ UNCHANGED transfer

ContractSpec == ContractInit /\ [][ContractNext]_contractVars
============================================================================
