------------------------ MODULE ConfirmationWatcher ------------------------
(***************************************************************************)
(* WatchOnchainConfirmationsJob: sweeps over the broadcast rows, chain by  *)
(* chain, that read the chain head, look each transaction up over RPC and  *)
(* then write the row.  The rows are read when the sweep begins, the head  *)
(* when its chain's turn comes, and sweeps may overlap once the 60-second  *)
(* unique lock has expired.  The payout job appears as the transactions it *)
(* runs on the tables.                                                     *)
(***************************************************************************)
EXTENDS WithdrawalTable

CONSTANTS
    Sweepers,   \* workers that may run the watch job
    LockExpires,\* may the unique lock expire under a running sweep?
    MaxHeight   \* bound on the chains' heights

Chains == {"tron", "eth", "btc"}
ChainOf(w) ==
    CASE Method[w] \in {"onchain_trx", "onchain_usdt_trc20"} -> "tron"
      [] Method[w] = "onchain_eth" -> "eth"
      [] OTHER -> "btc"

UsedChains == {ChainOf(w) : w \in Withdrawals}

ASSUME WatchAssumption ==
    LockExpires \in BOOLEAN /\ MaxHeight \in Nat \ {0}
(* The tables know every count that a sweep may compute.                    *)
ASSUME CountsAssumption == 0..MaxHeight \subseteq Confirmations

VARIABLES
    height,    \* of each chain (external)
    mined,     \* block of each withdrawal's transaction, 0 if in none
    reverted,  \* did that block's receipt say it reverted?
    watchLock, \* the unique lock watch-onchain-confirmations
    sweep      \* what each sweeper holds in memory

chainVars == <<height, mined, reverted>>
watcherVars == <<chainVars, watchLock, sweep>>
watchVars == <<tableVars, watcherVars>>

(* todo: rows still to check; seen: confirmations_seen as read; chain, head:*)
(* the chain being swept; row, conf, bad: the lookup about to be written.   *)
Sweep == [pc : {"idle", "rows", "write"}, todo : SUBSET Withdrawals,
          seen : [Withdrawals -> Nat], chain : Chains \cup {"none"},
          head : Nat, row : Withdrawals \cup {"none"}, conf : Nat,
          bad : BOOLEAN]

Idle == [pc |-> "idle", todo |-> {}, seen |-> [w \in Withdrawals |-> 0],
         chain |-> "none", head |-> 0, row |-> "none", conf |-> 0,
         bad |-> FALSE]

WatchTypeOK ==
    /\ TableTypeOK
    /\ height \in [Chains -> Nat]
    /\ mined \in [Withdrawals -> Nat]
    /\ reverted \in [Withdrawals -> BOOLEAN]
    /\ watchLock \in BOOLEAN
    /\ sweep \in [Sweepers -> Sweep]

WatcherInit ==
    /\ height = [c \in Chains |-> 1]
    /\ mined = [w \in Withdrawals |-> 0]
    /\ reverted = [w \in Withdrawals |-> FALSE]
    /\ watchLock = FALSE
    /\ sweep = [k \in Sweepers |-> Idle]

WatchInit == TableInit /\ WatcherInit

----------------------------------------------------------------------------
(* The chains, as the RPC clients report them.  Only contract calls and ETH *)
(* receipts can say "reverted".                                             *)

CanRevert(w) == Method[w] \in {"onchain_usdt_trc20", "onchain_eth"}

NewBlock(c) ==
    /\ height[c] < MaxHeight
    /\ height' = [height EXCEPT ![c] = @ + 1]
    /\ \E landed \in SUBSET {w \in Withdrawals :
                               /\ IsOnchain(w) /\ ChainOf(w) = c
                               /\ row[w].ref /\ mined[w] = 0} :
         /\ mined' = [w \in Withdrawals |->
                        IF w \in landed THEN height[c] + 1 ELSE mined[w]]
         /\ \E failing \in SUBSET {w \in landed : CanRevert(w)} :
              reverted' = [w \in Withdrawals |->
                             reverted[w] \/ w \in failing]
    /\ UNCHANGED <<tableVars, watchLock, sweep>>

----------------------------------------------------------------------------
(* One sweep.                                                               *)

StartAnyway == TRUE                          \* mutant of MayStart
MayStart    == ~ watchLock

SweepStart(k) ==
    LET rows == {w \in Withdrawals : /\ row[w].status = "broadcast"
                                     /\ IsOnchain(w) /\ row[w].ref}
    IN /\ sweep[k].pc = "idle"
       /\ MayStart
       /\ rows # {}
       /\ watchLock' = TRUE
       /\ sweep' = [sweep EXCEPT ![k] =
                      [Idle EXCEPT !.pc = "rows", !.todo = rows,
                                   !.seen = [w \in Withdrawals |->
                                               row[w].conf]]]
       /\ UNCHANGED <<tableVars, chainVars>>

RowsOn(k, c) == {w \in sweep[k].todo : ChainOf(w) = c}

(* getNowBlock / blockNumber / tipHeight: a chain whose head cannot be      *)
(* fetched is skipped for this run.                                         *)
FetchHead(k, c) ==
    /\ sweep[k].pc = "rows"
    /\ RowsOn(k, sweep[k].chain) = {}
    /\ RowsOn(k, c) # {}
    /\ \/ sweep' = [sweep EXCEPT ![k].chain = c, ![k].head = height[c]]
       \/ sweep' = [sweep EXCEPT ![k].todo = @ \ RowsOn(k, c)]
    /\ UNCHANGED <<tableVars, chainVars, watchLock>>

(* max(0, head - txBlock + 1)                                               *)
Depth_Signed(head, block) == head + 1 - block   \* mutants of Depth
Depth_OneMore(head, block) ==
    IF head + 2 > block THEN head + 2 - block ELSE 0
Depth(head, block) == IF head + 1 > block THEN head + 1 - block ELSE 0

(* A failed lookup, or a transaction in no block yet, leaves the row alone. *)
SkipRow(k, w) ==
    /\ sweep[k].pc = "rows"
    /\ w \in RowsOn(k, sweep[k].chain)
    /\ sweep' = [sweep EXCEPT ![k].todo = @ \ {w}]
    /\ UNCHANGED <<tableVars, chainVars, watchLock>>

LookUp_Missing(k, w) ==                      \* mutant of LookUp
    /\ sweep[k].pc = "rows"
    /\ w \in RowsOn(k, sweep[k].chain)
    /\ sweep' = [sweep EXCEPT ![k].pc = "write", ![k].row = w,
                              ![k].conf = Depth(sweep[k].head, mined[w]),
                              ![k].bad = reverted[w] \/ mined[w] = 0]
    /\ UNCHANGED <<tableVars, chainVars, watchLock>>

LookUp(k, w) ==
    /\ sweep[k].pc = "rows"
    /\ w \in RowsOn(k, sweep[k].chain)
    /\ mined[w] # 0
    /\ sweep' = [sweep EXCEPT ![k].pc = "write", ![k].row = w,
                              ![k].conf = Depth(sweep[k].head, mined[w]),
                              ![k].bad = reverted[w]]
    /\ UNCHANGED <<tableVars, chainVars, watchLock>>

(* After its write the sweep forgets the row and goes on with the others.   *)
NextRow(k) ==
    sweep' = [sweep EXCEPT ![k].pc = "rows", ![k].todo = @ \ {sweep[k].row},
                           ![k].row = "none", ![k].conf = 0, ![k].bad = FALSE]

(* advanceOrPromote at finality: the guarded UPDATE.                        *)
Finalise(w, n) ==
    \/ Promote(w, n)
    \/ row[w].status # "broadcast" /\ UNCHANGED tableVars

(* refundReverted, advanceOrPromote.  Eloquent's save() writes only what    *)
(* differs from the model as it was read.                                   *)
WriteRow(k) ==
    LET w == sweep[k].row
        n == sweep[k].conf
    IN /\ sweep[k].pc = "write"
       /\ IF sweep[k].bad
          THEN RefundReverted(w, n)
                 \/ (row[w].status # "broadcast" /\ UNCHANGED tableVars)
          ELSE IF n < Finality[Method[w]]
          THEN IF n # sweep[k].seen[w] THEN RecordConfirmations(w, n)
                                       ELSE UNCHANGED tableVars
          ELSE Finalise(w, n)
       /\ NextRow(k)
       /\ UNCHANGED <<chainVars, watchLock>>

SweepEnd(k) ==
    /\ sweep[k].pc = "rows"
    /\ sweep[k].todo = {}
    /\ sweep' = [sweep EXCEPT ![k] = Idle]
    /\ watchLock' = FALSE
    /\ UNCHANGED <<tableVars, chainVars>>

(* The worker dies or is killed; $tries = 1, so the sweep is not redone.    *)
SweepDies(k) ==
    /\ sweep[k].pc # "idle"
    /\ sweep' = [sweep EXCEPT ![k] = Idle]
    /\ UNCHANGED <<tableVars, chainVars, watchLock>>

(* $uniqueFor = 60.                                                         *)
LockForEver == FALSE                         \* mutant of WatchLockExpires

WatchLockExpires ==
    /\ watchLock
    /\ LockExpires \/ \A k \in Sweepers : sweep[k].pc = "idle"
    /\ watchLock' = FALSE
    /\ UNCHANGED <<tableVars, chainVars, sweep>>

----------------------------------------------------------------------------
SweepStep(k) ==
    \/ SweepStart(k) \/ WriteRow(k) \/ SweepEnd(k)
    \/ \E c \in Chains : FetchHead(k, c)
    \/ \E w \in Withdrawals : SkipRow(k, w) \/ LookUp(k, w)

WatchStep ==
    \/ \E k \in Sweepers : SweepStep(k) \/ SweepDies(k)
    \/ WatchLockExpires
    \/ \E c \in UsedChains : NewBlock(c)

(* What other processes do to the tables meanwhile.                         *)
OthersStep ==
    /\ UserStep \/ AdminStep \/ \E w \in Withdrawals : JobTransaction(w)
    /\ UNCHANGED watcherVars

WatchNext == WatchStep \/ OthersStep
WatchSpec == WatchInit /\ [][WatchNext]_watchVars

(* Chains grow; the scheduler keeps dispatching, and a row's lookup does    *)
(* not fail for ever.                                                       *)
WatchFairness ==
    /\ \A c \in UsedChains : WF_watchVars(NewBlock(c))
    /\ WF_watchVars(WatchLockExpires)
    /\ \A k \in Sweepers :
         /\ SF_watchVars(SweepStart(k))
         /\ WF_watchVars(SweepEnd(k))
         /\ SF_watchVars(WriteRow(k))
         /\ \A c \in Chains :
              SF_watchVars(FetchHead(k, c) /\ sweep'[k].chain = c)
         /\ WF_watchVars(\E w \in Withdrawals : SkipRow(k, w) \/ LookUp(k, w))
         /\ \A w \in Withdrawals : SF_watchVars(LookUp(k, w))

FairWatchSpec == WatchSpec /\ WatchFairness

----------------------------------------------------------------------------
(* `Sent` strictly means "confirmed at finality": an on-chain row that is   *)
(* sent shows at least its threshold of confirmations, and its transaction  *)
(* really is that deep in the chain and did not revert.                     *)
SentAtFinality ==
    \A w \in Withdrawals :
        (row[w].status = "sent" /\ IsOnchain(w)) =>
            /\ row[w].conf >= Finality[Method[w]]
            /\ mined[w] # 0 /\ ~ reverted[w]
            /\ height[ChainOf(w)] - mined[w] + 1 >= Finality[Method[w]]

(* An on-chain refund is for a transfer that reverted; otherwise the coins  *)
(* and the balance would both be the user's.                                *)
RefundedOnlyIfReverted ==
    \A w \in Withdrawals :
        (row[w].status = "failed" /\ row[w].ref) => reverted[w]

(* The confirmation count an operator sees never goes back.                 *)
ConfirmationsGrow ==
    [][\A w \in Withdrawals : row'[w].conf >= row[w].conf]_watchVars

(* A broadcast withdrawal whose transaction is in a block is settled one    *)
(* way or the other, although sweeps die, overlap and find RPCs down (for a *)
(* block early enough to reach finality below MaxHeight).                   *)
MinedSettles ==
    \A w \in Withdrawals :
        (/\ row[w].status = "broadcast"
         /\ mined[w] # 0
         /\ mined[w] + Finality[Method[w]] - 1 <= MaxHeight)
            ~> row[w].status \in Terminal
============================================================================
