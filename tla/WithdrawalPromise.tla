------------------------- MODULE WithdrawalPromise -------------------------
(***************************************************************************)
(* What a user is promised about a withdrawal, whatever the queue, the     *)
(* chain and the admins do: the amount leaves the balance once, and the    *)
(* withdrawal then ends once, either paid or with the whole amount back.   *)
(***************************************************************************)
EXTENDS Integers

CONSTANTS Withdrawals, Users, Owner, Amount, Funds

VARIABLES
    phase, \* of each withdrawal
    avail  \* what each user may still spend

promiseVars == <<phase, avail>>

Phases == {"none", "open", "paid", "returned"}

PromiseInit ==
    /\ phase = [w \in Withdrawals |-> "none"]
    /\ avail = Funds

Request(w) ==
    /\ phase[w] = "none"
    /\ phase' = [phase EXCEPT ![w] = "open"]
    /\ avail' = [avail EXCEPT ![Owner[w]] = @ - Amount[w]]

Pay(w) ==
    /\ phase[w] = "open"
    /\ phase' = [phase EXCEPT ![w] = "paid"]
    /\ UNCHANGED avail

Return(w) ==
    /\ phase[w] = "open"
    /\ phase' = [phase EXCEPT ![w] = "returned"]
    /\ avail' = [avail EXCEPT ![Owner[w]] = @ + Amount[w]]

PromiseNext == \E w \in Withdrawals : Request(w) \/ Pay(w) \/ Return(w)

PromiseSpec == PromiseInit /\ [][PromiseNext]_promiseVars
============================================================================
