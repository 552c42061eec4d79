-------------------------- MODULE WithdrawalSystem --------------------------
(***************************************************************************)
(* A withdrawal from the request to finality: the payout job and the       *)
(* confirmation watcher on the same tables, with the users and the admins. *)
(***************************************************************************)
EXTENDS PayoutJob, ConfirmationWatcher

systemVars == <<tableVars, jobVars, watcherVars>>

SystemInit == TableInit /\ JobInit /\ WatcherInit

SystemNext ==
    \/ (UserStep \/ AdminStep) /\ UNCHANGED <<jobVars, watcherVars>>
    \/ PayoutStep /\ UNCHANGED watcherVars
    \/ WatchStep /\ UNCHANGED jobVars

SystemSpec == SystemInit /\ [][SystemNext]_systemVars

----------------------------------------------------------------------------
(* From request to finality the system keeps the contract: at most one      *)
(* transfer, paid only when the chain has it, and the balance restored only *)
(* when no transfer was made or the chain reverted it.                      *)
EndToEnd == INSTANCE PayoutContract
              WITH phase <- [w \in Withdrawals |-> PhaseOf(w)],
                   avail <- balance,
                   transfer <- [w \in Withdrawals |->
                                  IF paid[w] = 0 THEN "none"
                                  ELSE IF reverted[w] THEN "reverted"
                                  ELSE "made"]

KeepsEndToEnd == EndToEnd!ContractSpec
=============================================================================
