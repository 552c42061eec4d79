-------------------------- MODULE WithdrawalTable --------------------------
(***************************************************************************)
(* The database side of a withdrawal: the `withdrawals`, `balance_ledgers` *)
(* and `users` tables, and the SQL transactions that the HTTP request, the *)
(* admin panel, the payout job and the confirmation watcher run on them.   *)
(* Each transaction is atomic; what interleaves is the steps around them.  *)
(***************************************************************************)
EXTENDS Integers, FiniteSets, FiniteSetsExt

CONSTANTS
    Withdrawals,        \* ids of the rows that users may create
    Users,
    Owner,              \* user_id of each withdrawal
    Amount,             \* amount_sat of each withdrawal
    Method,             \* payout_method of each withdrawal
    Funds,              \* balance_sat of each user before the first request
    ConcurrentRequests, \* may one user have two requests in flight?
    Finality,           \* *_FINALITY of each on-chain method
    Confirmations       \* the confirmation counts a sweep may compute

OnchainMethods ==
    {"onchain_trx", "onchain_usdt_trc20", "onchain_eth", "onchain_btc"}
Methods == OnchainMethods \cup {"faucetpay"}

ASSUME OwnerAssumption  == Owner \in [Withdrawals -> Users]
ASSUME AmountAssumption == Amount \in [Withdrawals -> Nat \ {0}]
ASSUME MethodAssumption == Method \in [Withdrawals -> Methods]
ASSUME FundsAssumption  == Funds \in [Users -> Nat]
ASSUME ConcurrentAssumption == ConcurrentRequests \in BOOLEAN
ASSUME FinalityAssumption == Finality \in [OnchainMethods -> Nat \ {0}]
ASSUME ConfirmationsAssumption == Confirmations \subseteq Nat

VARIABLES
    row,            \* the withdrawals table
    ledger,         \* (reason, withdrawal) pairs: the partial UNIQUE index
    balance,        \* users.balance_sat
    totalWithdrawn, \* users.total_withdrawn_sat
    request         \* the HTTP request that may create each withdrawal

tableVars == <<row, ledger, balance, totalWithdrawn, request>>
moneyVars == <<ledger, balance, totalWithdrawn>>

Statuses == {"queued", "processing", "hold", "broadcast", "sent", "failed",
             "rejected"}
InFlight == {"queued", "processing"}
Terminal == {"sent", "failed", "rejected"}
Reasons  == {"withdraw_request", "withdraw_refund", "withdraw_rejected"}
Refunds  == {"withdraw_refund", "withdraw_rejected"}

(* "none" is a withdrawal that has not been requested.  `ref` tells whether *)
(* faucetpay_payout_id / onchain_tx_hash is stored, `conf` is               *)
(* confirmations_seen.                                                      *)
Row == [status: Statuses \cup {"none"}, review: BOOLEAN, ref: BOOLEAN,
        conf: Nat]

IsOnchain(w) == Method[w] \in OnchainMethods

TableTypeOK ==
    /\ row \in [Withdrawals -> Row]
    /\ ledger \subseteq Reasons \X Withdrawals
    /\ balance \in [Users -> Int]
    /\ totalWithdrawn \in [Users -> Nat]
    /\ request \in [Withdrawals -> {"none", "checked", "done"}]

TableInit ==
    /\ row = [w \in Withdrawals |->
                [status |-> "none", review |-> FALSE, ref |-> FALSE,
                 conf |-> 0]]
    /\ ledger = {}
    /\ balance = Funds
    /\ totalWithdrawn = [u \in Users |-> 0]
    /\ request = [w \in Withdrawals |-> "none"]

----------------------------------------------------------------------------
(* WithdrawController::store.  The balance is compared on the model loaded  *)
(* with the session, then the price oracle is asked over HTTP, and only     *)
(* then the transaction that debits runs; it does not look at the balance.  *)

Covers_AnyMoney(w) == balance[Owner[w]] > 0  \* mutant of Covers
Covers(w)        == balance[Owner[w]] >= Amount[w]
OtherInFlight(w) == \E v \in Withdrawals :
                        request[v] = "checked" /\ Owner[v] = Owner[w]

RequestCheck(w) ==
    /\ request[w] = "none"
    /\ ConcurrentRequests \/ ~ OtherInFlight(w)
    /\ Covers(w)
    /\ request' = [request EXCEPT ![w] = "checked"]
    /\ UNCHANGED <<row, moneyVars>>

(* PriceOracleUnavailableException, amount_below_unit: 503 / 422, no write. *)
RequestAbort(w) ==
    /\ request[w] = "checked"
    /\ request' = [request EXCEPT ![w] = "none"]
    /\ UNCHANGED <<row, moneyVars>>

Put(w, record) == row' = [row EXCEPT ![w] = record]

NoDebit(w) == UNCHANGED balance              \* mutant of Debit
Debit(w)   == balance' = [balance EXCEPT ![Owner[w]] = @ - Amount[w]]
Credit(w)  == balance' = [balance EXCEPT ![Owner[w]] = @ + Amount[w]]

(* needsReview is PolicyEnforcer::withdrawalNeedsReview: the user's tier is *)
(* an input here, so it may be either.                                      *)
RequestCommit(w) ==
    /\ request[w] = "checked"
    /\ \/ Put(w, [row[w] EXCEPT !.status = "hold", !.review = TRUE])
       \/ Put(w, [row[w] EXCEPT !.status = "queued", !.review = FALSE])
    /\ ledger' = ledger \cup {<<"withdraw_request", w>>}
    /\ Debit(w)
    /\ request' = [request EXCEPT ![w] = "done"]
    /\ UNCHANGED totalWithdrawn

----------------------------------------------------------------------------
(* The transaction every refund path runs once its guarded UPDATE has hit   *)
(* the row: status, ledger row, balance.  A second ledger row for the same  *)
(* (reason, withdrawal) violates the UNIQUE index and aborts it.            *)

ReturnFunds(w, reason, status) ==
    /\ <<reason, w>> \notin ledger
    /\ Put(w, [row[w] EXCEPT !.status = status,
                             !.review = @ /\ status # "rejected"])
    /\ ledger' = ledger \cup {<<reason, w>>}
    /\ Credit(w)
    /\ UNCHANGED <<totalWithdrawn, request>>

(* ProcessWithdrawalJob's claim: WHERE status IN (queued, processing).      *)
ClaimRow(w) ==
    /\ row[w].status \in InFlight
    /\ Put(w, [row[w] EXCEPT !.status = "processing"])
    /\ UNCHANGED <<moneyVars, request>>

(* markFailedAndRefund: UPDATE ... WHERE status IN (queued, processing).    *)
Fail_Uncounts(w) ==                          \* mutant of FailUnguarded
    /\ <<"withdraw_refund", w>> \notin ledger
    /\ Put(w, [row[w] EXCEPT !.status = "failed"])
    /\ ledger' = ledger \cup {<<"withdraw_refund", w>>}
    /\ Credit(w)
    /\ totalWithdrawn' = [totalWithdrawn EXCEPT ![Owner[w]] = @ - Amount[w]]
    /\ UNCHANGED request
FailUnguarded(w) == ReturnFunds(w, "withdraw_refund", "failed")

MarkFailedAndRefund(w) == row[w].status \in InFlight /\ FailUnguarded(w)

(* The same transaction when the ledger row already exists: the insert      *)
(* raises and everything rolls back.                                        *)
RefundAborts(w) ==
    /\ row[w].status \in InFlight
    /\ <<"withdraw_refund", w>> \in ledger

(* Settle after the gateway returned ok: WHERE status = 'processing'.       *)
SettleUnguarded(w) ==
    /\ Put(w, [row[w] EXCEPT
                  !.status = IF IsOnchain(w) THEN "broadcast" ELSE "sent",
                  !.ref = TRUE])
    /\ totalWithdrawn' = [totalWithdrawn EXCEPT ![Owner[w]] = @ + Amount[w]]
    /\ UNCHANGED <<ledger, balance, request>>

SettleSent(w) == row[w].status = "processing" /\ SettleUnguarded(w)

----------------------------------------------------------------------------
(* WatchOnchainConfirmationsJob, with n confirmations computed from a chain *)
(* head and a block number read earlier.                                    *)

(* Below finality: save() of the model read when the sweep began, with no   *)
(* WHERE on the status the row has now.                                     *)
RecordConfirmations(w, n) ==
    /\ row[w].ref /\ IsOnchain(w)
    /\ n < Finality[Method[w]]
    /\ Put(w, [row[w] EXCEPT !.conf = n])
    /\ UNCHANGED <<moneyVars, request>>

Promote(w, n) ==
    /\ row[w].status = "broadcast"
    /\ n >= Finality[Method[w]]
    /\ Put(w, [row[w] EXCEPT !.status = "sent", !.conf = n])
    /\ UNCHANGED <<moneyVars, request>>

(* A receipt that says the transfer reverted, at any depth.  The total      *)
(* withdrawn is not taken back.                                             *)
RefundReverted(w, n) ==
    /\ row[w].status = "broadcast"
    /\ <<"withdraw_refund", w>> \notin ledger
    /\ Put(w, [row[w] EXCEPT !.status = "failed", !.conf = n])
    /\ ledger' = ledger \cup {<<"withdraw_refund", w>>}
    /\ Credit(w)
    /\ UNCHANGED <<totalWithdrawn, request>>

----------------------------------------------------------------------------
(* WithdrawalResource: the admin's row actions.  The buttons are shown from *)
(* a stale page, the UPDATEs are guarded.                                   *)

Approve(w) ==
    /\ row[w].status = "hold"
    /\ Put(w, [row[w] EXCEPT !.status = "queued", !.review = FALSE])
    /\ UNCHANGED <<moneyVars, request>>

Rejectable_AnyOpen(w) == row[w].status \in InFlight \cup {"hold"}
Rejectable(w)         == row[w].status \in {"hold", "queued"}

Reject(w) == Rejectable(w) /\ ReturnFunds(w, "withdraw_rejected", "rejected")

(* The edit form writes the status the operator left in the select, with no *)
(* guard and no ledger row.  `broadcast` is not among its options.          *)
AdminEdit(w, status) ==
    /\ row[w].status # "none"
    /\ status \in Statuses \ {"broadcast"}
    /\ Put(w, [row[w] EXCEPT !.status = status])
    /\ UNCHANGED <<moneyVars, request>>

UserStep  == \E w \in Withdrawals :
                RequestCheck(w) \/ RequestAbort(w) \/ RequestCommit(w)
AdminStep == \E w \in Withdrawals : Approve(w) \/ Reject(w)
JobTransaction(w) ==
    ClaimRow(w) \/ SettleSent(w) \/ MarkFailedAndRefund(w)
WatcherTransaction(w) ==
    \E n \in Confirmations :
        RecordConfirmations(w, n) \/ Promote(w, n) \/ RefundReverted(w, n)

(* Every transaction the program runs on the tables, in any order.          *)
TableNext == \/ UserStep \/ AdminStep
             \/ \E w \in Withdrawals : JobTransaction(w) \/ WatcherTransaction(w)
TableSpec == TableInit /\ [][TableNext]_tableVars

EditStep  == \E w \in Withdrawals, status \in Statuses : AdminEdit(w, status)

----------------------------------------------------------------------------
SumAmount(S) == MapThenSumSet(LAMBDA w : Amount[w], S)
OwnedBy(u)   == {w \in Withdrawals : Owner[w] = u}
WithReason(u, reasons) ==
    {p \in ledger : p[1] \in reasons /\ Owner[p[2]] = u}
LedgerSum(u, reasons) ==
    MapThenSumSet(LAMBDA p : Amount[p[2]], WithReason(u, reasons))

(* Every change of a balance is paired with its ledger row in one           *)
(* transaction: the balance is the opening balance plus the ledger, however *)
(* requests, workers, watchers and admins interleave or fail.               *)
BalanceMatchesLedger ==
    \A u \in Users :
        balance[u] = Funds[u] - LedgerSum(u, {"withdraw_request"})
                              + LedgerSum(u, Refunds)

(* The WHERE clauses of the refunding UPDATEs let a withdrawal be given     *)
(* back exactly once, and exactly when it ends failed or rejected: never by *)
(* two paths (job, dead letter, watcher, admin) and never while it may      *)
(* still be paid.                                                           *)
RefundMatchesStatus ==
    \A w \in Withdrawals :
        /\ <<"withdraw_request", w>> \in ledger <=> row[w].status # "none"
        /\ <<"withdraw_refund", w>> \in ledger <=> row[w].status = "failed"
        /\ <<"withdraw_rejected", w>> \in ledger
              <=> row[w].status = "rejected"

(* The inductive invariant: what makes RefundMatchesStatus survive a step.  *)
(* A request still in flight has no row, and only a row on hold waits for a *)
(* review, so that the job never writes `hold` over another status.         *)
RequestHasNoRow ==
    \A w \in Withdrawals :
        request[w] = "done" <=> row[w].status # "none"
ReviewMeansHold ==
    \A w \in Withdrawals : row[w].review => row[w].status = "hold"

TableInv == /\ TableTypeOK /\ RefundMatchesStatus
            /\ RequestHasNoRow /\ ReviewMeansHold

(* A user's balance never goes below zero: store() refuses a request that   *)
(* the balance does not cover.                                              *)
BalanceNonNegative == \A u \in Users : balance[u] >= 0

(* users.total_withdrawn_sat counts each withdrawal that got a payout       *)
(* reference exactly once, whatever worker settled it (the settle-race      *)
(* branch of handle() skips the increment).                                 *)
TotalWithdrawnMatches ==
    \A u \in Users :
        totalWithdrawn[u] = SumAmount({w \in OwnedBy(u) : row[w].ref})

(* A settled withdrawal stays settled: no stale writer moves it again.      *)
TerminalIsFinal ==
    [][\A w \in Withdrawals :
         row[w].status \in Terminal => row'[w].status = row[w].status]_row

(* The tables keep the promise: queued, processing, hold and broadcast are  *)
(* open, and every transaction that ends a withdrawal ends it once, with    *)
(* the money where its status says.                                         *)
PhaseOf(w) == CASE row[w].status = "none" -> "none"
                [] row[w].status = "sent" -> "paid"
                [] row[w].status \in {"failed", "rejected"} -> "returned"
                [] OTHER -> "open"

Promise == INSTANCE WithdrawalPromise
              WITH phase <- [w \in Withdrawals |-> PhaseOf(w)],
                   avail <- balance

KeepsPromise == Promise!PromiseSpec
============================================================================
