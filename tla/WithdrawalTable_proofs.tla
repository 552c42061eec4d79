----------------------- MODULE WithdrawalTable_proofs -----------------------
(***************************************************************************)
(* What WithdrawalTable guarantees for every set of withdrawals and users, *)
(* every amount, threshold and confirmation count.                         *)
(***************************************************************************)
EXTENDS WithdrawalTable, FiniteSums

USE DEF Put, InFlight, Terminal, Statuses, Reasons, Refunds, Row

LEMMA RowConstants ==
  ASSUME NEW w \in Withdrawals
  PROVE  Owner[w] \in Users /\ Amount[w] \in Nat /\ Amount[w] \in Int
  BY OwnerAssumption, AmountAssumption

LEMMA InsertedPair ==
  ASSUME NEW S, NEW a, NEW b, NEW c, NEW d
  PROVE  <<a, b>> \in S \cup {<<c, d>>} <=> <<a, b>> \in S \/ (a = c /\ b = d)
  OBVIOUS

(* Moving money keeps the balances and totals numbers.                      *)
LEMMA MoneyType ==
  ASSUME TableTypeOK, NEW w \in Withdrawals
  PROVE  /\ Debit(w) => balance' \in [Users -> Int]
         /\ Credit(w) => balance' \in [Users -> Int]
         /\ [totalWithdrawn EXCEPT ![Owner[w]] = @ + Amount[w]]
              \in [Users -> Nat]
<1>1. Owner[w] \in Users /\ Amount[w] \in Nat /\ Amount[w] \in Int
  BY RowConstants
<1>2. balance \in [Users -> Int] /\ totalWithdrawn \in [Users -> Nat]
  BY DEF TableTypeOK
<1>3. QED BY <1>1, <1>2 DEF Debit, Credit

(* A transaction that puts a record in a row and a reason in the ledger     *)
(* keeps ledger and statuses in step when it debits a new row or credits an *)
(* open one.                                                                *)
LEMMA LedgerInStep ==
  ASSUME TableInv, NEW w \in Withdrawals, NEW record \in Row,
         NEW reason \in Reasons,
         Put(w, record), ledger' = ledger \cup {<<reason, w>>},
         \/ /\ reason = "withdraw_request"
            /\ row[w].status = "none"
            /\ record.status \notin {"none", "failed", "rejected"}
         \/ /\ row[w].status \notin {"none", "failed", "rejected"}
            /\ \/ reason = "withdraw_refund" /\ record.status = "failed"
               \/ reason = "withdraw_rejected" /\ record.status = "rejected"
  PROVE  RefundMatchesStatus'
<1> SUFFICES ASSUME NEW v \in Withdrawals
    PROVE /\ <<"withdraw_request", v>> \in ledger' <=> row'[v].status # "none"
          /\ <<"withdraw_refund", v>> \in ledger'
               <=> row'[v].status = "failed"
          /\ <<"withdraw_rejected", v>> \in ledger'
               <=> row'[v].status = "rejected"
  BY DEF RefundMatchesStatus
<1>1. \A r \in Reasons : <<r, v>> \in ledger'
         <=> <<r, v>> \in ledger \/ (r = reason /\ v = w)
  BY InsertedPair
<1>2. row'[v] = IF v = w THEN record ELSE row[v]
  BY DEF TableInv, TableTypeOK
<1>3. QED BY <1>1, <1>2 DEF TableInv, TableTypeOK, RefundMatchesStatus

LEMMA InitInv == TableInit => TableInv
  BY FundsAssumption DEF TableInit, TableInv, TableTypeOK,
     RefundMatchesStatus, RequestHasNoRow, ReviewMeansHold

(* The transaction shared by the refund paths preserves the invariant from  *)
(* every status it is run in.                                               *)
LEMMA ReturnFundsInv ==
  ASSUME TableInv, NEW w \in Withdrawals,
         row[w].status \in {"queued", "processing", "hold"},
         NEW reason \in Refunds, NEW status \in {"failed", "rejected"},
         (reason = "withdraw_refund") <=> (status = "failed"),
         row[w].review => status = "rejected",
         ReturnFunds(w, reason, status)
  PROVE  TableInv'
<1> DEFINE record == [row[w] EXCEPT !.status = status, !.review = FALSE]
<1>1. row \in [Withdrawals -> Row] /\ record \in Row
  BY DEF TableInv, TableTypeOK
<1>2. [row[w] EXCEPT !.status = status,
                     !.review = @ /\ status # "rejected"] = record
  BY <1>1
<1>3. Put(w, record) BY <1>2 DEF ReturnFunds
<1>4. TableTypeOK'
  BY <1>1, <1>3, MoneyType DEF TableInv, TableTypeOK, ReturnFunds
<1>5. RefundMatchesStatus'
  BY <1>1, <1>3, LedgerInStep DEF ReturnFunds
<1>6. RequestHasNoRow' /\ ReviewMeansHold'
  BY ZenonT(60), <1>1, <1>3
  DEF TableInv, TableTypeOK, ReturnFunds, RequestHasNoRow, ReviewMeansHold
<1>7. QED BY <1>4, <1>5, <1>6 DEF TableInv

(* A transaction that only moves a row between statuses without a refund.   *)
LEMMA StatusMoveInv ==
  ASSUME TableInv, NEW w \in Withdrawals, NEW record \in Row,
         Put(w, record), UNCHANGED <<ledger, balance, request>>,
         totalWithdrawn' \in [Users -> Nat],
         \/ record.status = row[w].status
         \/ /\ row[w].status \notin {"none", "failed", "rejected"}
            /\ record.status \notin {"none", "failed", "rejected"},
         record.review => record.status = "hold"
  PROVE  TableInv'
<1>1. \A v \in Withdrawals : row'[v] = IF v = w THEN record ELSE row[v]
  BY DEF TableInv, TableTypeOK
<1>2. TableTypeOK' BY DEF TableInv, TableTypeOK
<1>3. RefundMatchesStatus'
  BY ZenonT(60), <1>1 DEF TableInv, RefundMatchesStatus
<1>4. RequestHasNoRow' BY <1>1 DEF TableInv, RequestHasNoRow
<1>5. ReviewMeansHold' BY <1>1 DEF TableInv, ReviewMeansHold
<1>6. QED BY <1>2, <1>3, <1>4, <1>5 DEF TableInv

LEMMA StepInv == TableInv /\ [TableNext]_tableVars => TableInv'
<1> SUFFICES ASSUME TableInv, [TableNext]_tableVars PROVE TableInv'
  OBVIOUS
<1> USE DEF moneyVars
<1>0. /\ row \in [Withdrawals -> Row]
      /\ totalWithdrawn \in [Users -> Nat]
      /\ \A w \in Withdrawals : row[w].review => row[w].status = "hold"
  BY DEF TableInv, TableTypeOK, ReviewMeansHold
<1>1. ASSUME NEW w \in Withdrawals, RequestCheck(w) PROVE TableInv'
  BY <1>1 DEF RequestCheck, TableInv, TableTypeOK,
     RefundMatchesStatus, RequestHasNoRow, ReviewMeansHold
<1>2. ASSUME NEW w \in Withdrawals, RequestAbort(w) PROVE TableInv'
  BY <1>2 DEF RequestAbort, TableInv, TableTypeOK,
     RefundMatchesStatus, RequestHasNoRow, ReviewMeansHold
<1>3. ASSUME NEW w \in Withdrawals, RequestCommit(w) PROVE TableInv'
  <2>1. PICK record \in Row : /\ Put(w, record)
                              /\ record.status \in {"hold", "queued"}
                              /\ record.review => record.status = "hold"
    <3> DEFINE held == [row[w] EXCEPT !.status = "hold", !.review = TRUE]
               queued == [row[w] EXCEPT !.status = "queued",
                                        !.review = FALSE]
    <3>1. held \in Row /\ held.status = "hold" /\ held.review = TRUE
      BY <1>0
    <3>2. queued \in Row /\ queued.status = "queued"
          /\ queued.review = FALSE
      BY <1>0
    <3>3. CASE Put(w, held) BY <3>1, <3>3
    <3>4. CASE Put(w, queued) BY <3>2, <3>4
    <3>5. QED BY <1>3, <3>3, <3>4 DEF RequestCommit
  <2>2. TableTypeOK'
    BY <1>3, <2>1, MoneyType DEF RequestCommit, TableInv, TableTypeOK
  <2>3. row[w].status = "none"
    BY <1>3 DEF RequestCommit, TableInv, RequestHasNoRow
  <2>4. RefundMatchesStatus'
    BY <1>3, <2>1, <2>3, LedgerInStep DEF RequestCommit
  <2>5. RequestHasNoRow' /\ ReviewMeansHold'
    BY <1>3, <2>1 DEF RequestCommit, TableInv, TableTypeOK, RequestHasNoRow,
       ReviewMeansHold
  <2>6. QED BY <2>2, <2>4, <2>5 DEF TableInv
<1>4. ASSUME NEW w \in Withdrawals, Approve(w) PROVE TableInv'
  BY <1>0, <1>4, StatusMoveInv DEF Approve
<1>5. ASSUME NEW w \in Withdrawals, Reject(w) PROVE TableInv'
  BY <1>5, ReturnFundsInv DEF Reject, Rejectable
<1>6. ASSUME NEW w \in Withdrawals, ClaimRow(w) PROVE TableInv'
  BY <1>0, <1>6, StatusMoveInv DEF ClaimRow
<1>7. ASSUME NEW w \in Withdrawals, SettleSent(w) PROVE TableInv'
  <2> DEFINE record ==
        [row[w] EXCEPT
           !.status = IF IsOnchain(w) THEN "broadcast" ELSE "sent",
           !.ref = TRUE]
  <2>1. record \in Row /\ record.status \in {"broadcast", "sent"}
        /\ ~ record.review
    BY <1>0, <1>7 DEF SettleSent
  <2>2. totalWithdrawn' \in [Users -> Nat]
    BY <1>7, MoneyType DEF SettleSent, SettleUnguarded, TableInv
  <2>3. QED
    BY <1>7, <2>1, <2>2, StatusMoveInv DEF SettleSent, SettleUnguarded
<1>8. ASSUME NEW w \in Withdrawals, MarkFailedAndRefund(w) PROVE TableInv'
  BY <1>0, <1>8, ReturnFundsInv DEF MarkFailedAndRefund, FailUnguarded
<1>9. ASSUME NEW w \in Withdrawals, NEW n \in Confirmations,
             RecordConfirmations(w, n) \/ Promote(w, n)
      PROVE  TableInv'
  BY <1>0, <1>9, ConfirmationsAssumption, StatusMoveInv
  DEF RecordConfirmations, Promote
<1>10. ASSUME NEW w \in Withdrawals, NEW n \in Confirmations,
              RefundReverted(w, n)
       PROVE  TableInv'
  <2> DEFINE record == [row[w] EXCEPT !.status = "failed", !.conf = n]
  <2>1. record \in Row /\ record.status = "failed" /\ ~ record.review
    BY <1>0, <1>10, ConfirmationsAssumption DEF RefundReverted
  <2>2. TableTypeOK'
    BY <1>10, <2>1, MoneyType DEF RefundReverted, TableInv, TableTypeOK
  <2>3. RefundMatchesStatus'
    BY <1>10, <2>1, LedgerInStep DEF RefundReverted
  <2>4. RequestHasNoRow' /\ ReviewMeansHold'
    BY <1>10, <2>1 DEF RefundReverted, TableInv, TableTypeOK,
       RequestHasNoRow, ReviewMeansHold
  <2>5. QED BY <2>2, <2>3, <2>4 DEF TableInv
<1>11. CASE UNCHANGED tableVars
  BY <1>11 DEF tableVars, TableInv, TableTypeOK, RefundMatchesStatus,
     RequestHasNoRow, ReviewMeansHold
<1>12. QED
  BY <1>1, <1>2, <1>3, <1>4, <1>5, <1>6, <1>7, <1>8, <1>9, <1>10, <1>11
  DEF TableNext, UserStep, AdminStep, JobTransaction, WatcherTransaction

(* Whatever the transactions of the tables do, in any order, TableInv       *)
(* holds: the types, refunds where the status says, no row before its       *)
(* request, and a row under review on hold.                                 *)
THEOREM TableInvariant == TableSpec => []TableInv
<1>1. QED BY InitInv, StepInv, PTL DEF TableSpec

(* The tables are type-correct.                                             *)
THEOREM TableTypeCorrect == TableSpec => []TableTypeOK
<1>1. TableInv => TableTypeOK BY DEF TableInv
<1>2. QED BY <1>1, TableInvariant, PTL

(* A withdrawal has a refund row exactly when it ended failed, a rejection  *)
(* row exactly when it ended rejected: money is given back once, by one     *)
(* path, and never while the withdrawal may still be paid.                  *)
THEOREM RefundsMatch == TableSpec => []RefundMatchesStatus
<1>1. TableInv => RefundMatchesStatus BY DEF TableInv
<1>2. QED BY <1>1, TableInvariant, PTL

----------------------------------------------------------------------------
(* A settled withdrawal stays settled: no request, worker, watcher or admin *)
(* action moves a row out of sent, failed or rejected.                      *)
THEOREM TerminalStays == TableSpec => TerminalIsFinal
<1>1. ASSUME TableInv, [TableNext]_tableVars, NEW w \in Withdrawals,
             row[w].status \in Terminal
      PROVE  row'[w].status = row[w].status
  <2>0. row \in [Withdrawals -> Row] BY <1>1 DEF TableInv, TableTypeOK
  <2>1. CASE UNCHANGED tableVars BY <2>1 DEF tableVars
  <2>2. ASSUME NEW v \in Withdrawals, JobTransaction(v)
        PROVE  row'[w].status = row[w].status
    BY <1>1, <2>0, <2>2 DEF JobTransaction, ClaimRow, SettleSent,
       SettleUnguarded, MarkFailedAndRefund, FailUnguarded, ReturnFunds
  <2>3. ASSUME NEW v \in Withdrawals, WatcherTransaction(v)
        PROVE  row'[w].status = row[w].status
    BY <1>1, <2>0, <2>3 DEF WatcherTransaction, RecordConfirmations,
       Promote, RefundReverted
  <2>4. CASE AdminStep
    BY <1>1, <2>0, <2>4 DEF AdminStep, Approve, Reject, Rejectable,
       ReturnFunds
  <2>5. CASE UserStep
    <3>1. ASSUME NEW v \in Withdrawals, RequestCommit(v)
          PROVE  row'[w].status = row[w].status
      <4>1. row[v].status = "none"
        BY <1>1, <3>1 DEF RequestCommit, TableInv, RequestHasNoRow
      <4>2. v # w BY <1>1, <4>1
      <4>3. QED BY <2>0, <3>1, <4>2 DEF RequestCommit
    <3>2. QED BY <2>5, <3>1 DEF UserStep, RequestCheck, RequestAbort
  <2>6. QED BY <1>1, <2>1, <2>2, <2>3, <2>4, <2>5 DEF TableNext
<1>2. TableInv /\ [TableNext]_tableVars
        => [\A w \in Withdrawals :
              row[w].status \in Terminal => row'[w].status = row[w].status]_row
  BY <1>1
<1>3. QED BY <1>2, TableInvariant, PTL DEF TableSpec, TerminalIsFinal

----------------------------------------------------------------------------
(* The promise to the user: the tables implement WithdrawalPromise.         *)

phases == [w \in Withdrawals |-> PhaseOf(w)]

LEMMA PhaseCases ==
  ASSUME row \in [Withdrawals -> Row], NEW w \in Withdrawals
  PROVE  /\ row[w].status = "none" => PhaseOf(w) = "none"
         /\ row[w].status = "sent" => PhaseOf(w) = "paid"
         /\ row[w].status \in {"failed", "rejected"}
              => PhaseOf(w) = "returned"
         /\ row[w].status \in {"queued", "processing", "hold", "broadcast"}
              => PhaseOf(w) = "open"
  BY DEF PhaseOf

(* A transaction that puts one record moves the phase of that row only.     *)
LEMMA PhaseMoves ==
  ASSUME row \in [Withdrawals -> Row], NEW w \in Withdrawals,
         NEW record \in Row, Put(w, record)
  PROVE  /\ record.status = "sent" => phases' = [phases EXCEPT ![w] = "paid"]
         /\ record.status \in {"failed", "rejected"}
              => phases' = [phases EXCEPT ![w] = "returned"]
         /\ record.status \in {"queued", "processing", "hold", "broadcast"}
              => phases' = [phases EXCEPT ![w] = "open"]
         /\ record.status = row[w].status => phases' = phases
<1>1. \A v \in Withdrawals : row'[v] = IF v = w THEN record ELSE row[v]
  OBVIOUS
<1>2. \A v \in Withdrawals : v # w => PhaseOf(v)' = PhaseOf(v)
  BY <1>1 DEF PhaseOf
<1>3. /\ record.status = "sent" => PhaseOf(w)' = "paid"
      /\ record.status \in {"failed", "rejected"} => PhaseOf(w)' = "returned"
      /\ record.status \in {"queued", "processing", "hold", "broadcast"}
           => PhaseOf(w)' = "open"
      /\ record.status = row[w].status => PhaseOf(w)' = PhaseOf(w)
  BY <1>1 DEF PhaseOf
<1>4. QED BY <1>2, <1>3 DEF phases

LEMMA PromiseInitStep == TableInit => Promise!PromiseInit
  BY DEF TableInit, Promise!PromiseInit, PhaseOf

(* Withdrawals that are neither settled nor on their way are open.          *)
LEMMA OpenPhase ==
  ASSUME TableInv, NEW w \in Withdrawals,
         row[w].status \in {"queued", "processing", "hold", "broadcast"}
  PROVE  phases[w] = "open"
  BY PhaseCases DEF TableInv, TableTypeOK, phases

LEMMA PromiseStep ==
  TableInv /\ [TableNext]_tableVars
    => [Promise!PromiseNext]_(Promise!promiseVars)
<1> SUFFICES ASSUME TableInv, [TableNext]_tableVars
    PROVE  \/ \E w \in Withdrawals :
                Promise!Request(w) \/ Promise!Pay(w) \/ Promise!Return(w)
           \/ phases' = phases /\ balance' = balance
  BY DEF Promise!PromiseNext, Promise!promiseVars, phases
<1> USE DEF moneyVars
<1>0. row \in [Withdrawals -> Row]
  BY DEF TableInv, TableTypeOK
<1>1. ASSUME NEW w \in Withdrawals, RequestCommit(w)
      PROVE  Promise!Request(w)
  <2>1. row[w].status = "none"
    BY <1>1 DEF RequestCommit, TableInv, RequestHasNoRow
  <2>2. phases[w] = "none"
    BY <1>0, <2>1, PhaseCases DEF phases
  <2>3. phases' = [phases EXCEPT ![w] = "open"]
    <3> DEFINE held == [row[w] EXCEPT !.status = "hold", !.review = TRUE]
               queued == [row[w] EXCEPT !.status = "queued",
                                        !.review = FALSE]
    <3>1. /\ held \in Row /\ held.status = "hold"
          /\ queued \in Row /\ queued.status = "queued"
      BY <1>0
    <3>2. Put(w, held) \/ Put(w, queued) BY <1>1 DEF RequestCommit
    <3> HIDE DEF held, queued, Put
    <3>3. QED BY <1>0, <3>1, <3>2, PhaseMoves
  <2>4. QED BY <1>1, <2>2, <2>3 DEF RequestCommit, Debit, Promise!Request,
          phases
<1>2. ASSUME NEW w \in Withdrawals, NEW reason \in Refunds,
             NEW status \in {"failed", "rejected"},
             row[w].status \in {"queued", "processing", "hold"},
             ReturnFunds(w, reason, status)
      PROVE  Promise!Return(w)
  <2> DEFINE record == [row[w] EXCEPT !.status = status,
                                      !.review = @ /\ status # "rejected"]
  <2>1. record \in Row /\ record.status = status
    BY <1>0
  <2>2. phases[w] = "open" BY <1>2, OpenPhase
  <2>3. phases' = [phases EXCEPT ![w] = "returned"]
    BY <1>0, <1>2, <2>1, PhaseMoves DEF ReturnFunds
  <2>4. QED BY <1>2, <2>2, <2>3 DEF ReturnFunds, Credit, Promise!Return,
          phases
<1>3. ASSUME NEW w \in Withdrawals, SettleSent(w)
      PROVE  Promise!Pay(w) \/ (phases' = phases /\ balance' = balance)
  <2> DEFINE record ==
        [row[w] EXCEPT
           !.status = IF IsOnchain(w) THEN "broadcast" ELSE "sent",
           !.ref = TRUE]
  <2>1. record \in Row /\ record.status \in {"broadcast", "sent"}
    BY <1>0
  <2>2. Put(w, record) /\ balance' = balance /\ row[w].status = "processing"
    BY <1>3 DEF SettleSent, SettleUnguarded
  <2>3. phases[w] = "open" BY <2>2, OpenPhase
  <2>4. CASE record.status = "sent"
    BY <1>0, <2>1, <2>2, <2>3, <2>4, PhaseMoves DEF Promise!Pay, phases
  <2>5. CASE record.status = "broadcast"
    <3>1. phases' = [phases EXCEPT ![w] = "open"]
      BY <1>0, <2>1, <2>2, <2>5, PhaseMoves
    <3>2. phases' = phases BY <2>3, <3>1 DEF phases
    <3>3. QED BY <2>2, <3>2
  <2>6. QED BY <2>1, <2>4, <2>5
<1>4. ASSUME NEW w \in Withdrawals, ClaimRow(w) \/ Approve(w)
      PROVE  phases' = phases /\ balance' = balance
  <2>1. phases[w] = "open"
    BY <1>4, OpenPhase DEF ClaimRow, Approve
  <2>2. phases' = [phases EXCEPT ![w] = "open"]
    <3> DEFINE claimed == [row[w] EXCEPT !.status = "processing"]
               approved == [row[w] EXCEPT !.status = "queued",
                                          !.review = FALSE]
    <3>1. /\ claimed \in Row /\ claimed.status = "processing"
          /\ approved \in Row /\ approved.status = "queued"
      BY <1>0
    <3>2. Put(w, claimed) \/ Put(w, approved) BY <1>4 DEF ClaimRow, Approve
    <3> HIDE DEF claimed, approved, Put
    <3>3. QED BY <1>0, <3>1, <3>2, PhaseMoves
  <2>3. QED BY <1>4, <2>1, <2>2 DEF ClaimRow, Approve, phases
<1>5. ASSUME NEW w \in Withdrawals, NEW n \in Confirmations
      PROVE  /\ RecordConfirmations(w, n)
                  => phases' = phases /\ balance' = balance
             /\ Promote(w, n) => Promise!Pay(w)
             /\ RefundReverted(w, n) => Promise!Return(w)
  <2>1. /\ [row[w] EXCEPT !.conf = n] \in Row
        /\ [row[w] EXCEPT !.status = "sent", !.conf = n] \in Row
        /\ [row[w] EXCEPT !.status = "failed", !.conf = n] \in Row
    BY <1>0, ConfirmationsAssumption
  <2>2. row[w].status = "broadcast" => phases[w] = "open"
    BY OpenPhase
  <2>3. RecordConfirmations(w, n) => phases' = phases /\ balance' = balance
    BY <1>0, <2>1, PhaseMoves DEF RecordConfirmations
  <2>4. ASSUME Promote(w, n) PROVE Promise!Pay(w)
    <3>1. phases' = [phases EXCEPT ![w] = "paid"]
      BY <1>0, <2>1, <2>4, PhaseMoves DEF Promote
    <3>2. QED BY <2>2, <2>4, <3>1 DEF Promote, Promise!Pay, phases
  <2>5. ASSUME RefundReverted(w, n) PROVE Promise!Return(w)
    <3>1. phases' = [phases EXCEPT ![w] = "returned"]
      BY <1>0, <2>1, <2>5, PhaseMoves DEF RefundReverted
    <3>2. QED BY <2>2, <2>5, <3>1 DEF RefundReverted, Credit,
            Promise!Return, phases
  <2>6. QED BY <2>3, <2>4, <2>5
<1>6. CASE UserStep
  <2>1. ASSUME NEW w \in Withdrawals, RequestCheck(w) \/ RequestAbort(w)
        PROVE  phases' = phases /\ balance' = balance
    BY <2>1 DEF RequestCheck, RequestAbort, phases, PhaseOf
  <2>2. QED BY <1>1, <1>6, <2>1 DEF UserStep
<1>7. CASE AdminStep
  BY <1>2, <1>4, <1>7 DEF AdminStep, Reject, Rejectable, Refunds
<1>8. ASSUME NEW w \in Withdrawals, JobTransaction(w)
      PROVE  \/ Promise!Pay(w) \/ Promise!Return(w)
             \/ phases' = phases /\ balance' = balance
  BY <1>2, <1>3, <1>4, <1>8
  DEF JobTransaction, MarkFailedAndRefund, FailUnguarded, Refunds
<1>9. CASE UNCHANGED tableVars
  BY <1>9 DEF tableVars, phases, PhaseOf
<1>10. QED
  BY <1>5, <1>6, <1>7, <1>8, <1>9 DEF TableNext, WatcherTransaction

(* Whatever the interleaving of requests, workers, watchers and admins, the *)
(* amount leaves the balance once and the withdrawal ends once, paid or     *)
(* with the whole amount back.                                              *)
THEOREM PromiseKept == TableSpec => KeepsPromise
<1>1. QED
  BY PromiseInitStep, PromiseStep, TableInvariant, PTL
  DEF TableSpec, KeepsPromise, Promise!PromiseSpec

----------------------------------------------------------------------------
(* The balance of a user who makes one request at a time.                   *)

SoleRequest ==
    \A v, w \in Withdrawals :
        request[v] = "checked" /\ request[w] = "checked" /\ Owner[v] = Owner[w]
            => v = w
CheckedIsCovered == \A w \in Withdrawals : request[w] = "checked" => Covers(w)

BalanceInv ==
    TableTypeOK /\ SoleRequest /\ CheckedIsCovered /\ BalanceNonNegative

(* A step that takes no money and lets no request past the comparison.      *)
LEMMA BalanceKept ==
  ASSUME BalanceInv, TableTypeOK',
         \A u \in Users : balance'[u] >= balance[u],
         \A w \in Withdrawals : request'[w] = "checked" => request[w] = "checked"
  PROVE  BalanceInv'
<1>1. \A u \in Users : balance[u] \in Int /\ balance'[u] \in Int
  BY DEF BalanceInv, TableTypeOK
<1>2. SoleRequest' BY DEF BalanceInv, SoleRequest
<1>3. CheckedIsCovered'
  <2> SUFFICES ASSUME NEW w \in Withdrawals, request'[w] = "checked"
      PROVE  balance'[Owner[w]] >= Amount[w]
    BY DEF CheckedIsCovered, Covers
  <2>1. balance[Owner[w]] >= Amount[w]
    BY DEF BalanceInv, CheckedIsCovered, Covers
  <2>2. QED BY <1>1, <2>1, RowConstants
<1>4. BalanceNonNegative' BY <1>1 DEF BalanceInv, BalanceNonNegative
<1>5. QED BY <1>2, <1>3, <1>4 DEF BalanceInv

LEMMA CreditGrows ==
  ASSUME TableTypeOK, NEW w \in Withdrawals, Credit(w)
  PROVE  \A u \in Users : balance'[u] >= balance[u]
<1>1. /\ balance \in [Users -> Int]
      /\ Owner[w] \in Users /\ Amount[w] \in Nat
  BY RowConstants DEF TableTypeOK
<1>2. QED BY <1>1 DEF Credit

LEMMA BalanceStep ==
  ~ ConcurrentRequests
    => (BalanceInv /\ TableInv /\ TableInv' /\ [TableNext]_tableVars
          => BalanceInv')
<1> SUFFICES ASSUME ~ ConcurrentRequests, BalanceInv, TableTypeOK',
                    [TableNext]_tableVars
    PROVE  BalanceInv'
  BY DEF TableInv
<1> USE DEF moneyVars
<1>0. /\ TableTypeOK
      /\ \A u \in Users : balance[u] \in Int
      /\ request \in [Withdrawals -> {"none", "checked", "done"}]
  BY DEF BalanceInv, TableTypeOK
<1>1. ASSUME NEW w \in Withdrawals, RequestCheck(w) PROVE BalanceInv'
  <2>1. /\ ~ OtherInFlight(w) /\ Covers(w) /\ balance' = balance
        /\ \A v \in Withdrawals :
              request'[v] = IF v = w THEN "checked" ELSE request[v]
    BY <1>0, <1>1 DEF RequestCheck
  <2>2. SoleRequest'
    BY <2>1 DEF BalanceInv, SoleRequest, OtherInFlight
  <2>3. CheckedIsCovered' /\ BalanceNonNegative'
    BY <2>1 DEF BalanceInv, CheckedIsCovered, Covers, BalanceNonNegative
  <2>4. QED BY <2>2, <2>3 DEF BalanceInv
<1>2. ASSUME NEW w \in Withdrawals, RequestCommit(w) PROVE BalanceInv'
  <2>1. /\ request[w] = "checked"
        /\ \A v \in Withdrawals :
              request'[v] = IF v = w THEN "done" ELSE request[v]
        /\ Owner[w] \in Users /\ Amount[w] \in Nat
    BY <1>0, <1>2, RowConstants DEF RequestCommit
  <2>2. \A u \in Users :
          balance'[u] = IF u = Owner[w] THEN balance[u] - Amount[w]
                        ELSE balance[u]
    BY <1>0, <1>2, <2>1 DEF RequestCommit, Debit, TableTypeOK
  <2>3. balance[Owner[w]] >= Amount[w]
    BY <2>1 DEF BalanceInv, CheckedIsCovered, Covers
  <2>4. SoleRequest' BY <2>1 DEF BalanceInv, SoleRequest
  <2>5. CheckedIsCovered'
    <3> SUFFICES ASSUME NEW v \in Withdrawals, request'[v] = "checked"
        PROVE  balance'[Owner[v]] >= Amount[v]
      BY DEF CheckedIsCovered, Covers
    <3>1. request[v] = "checked" /\ v # w BY <2>1
    <3>2. Owner[v] # Owner[w] /\ Owner[v] \in Users
      BY <2>1, <3>1, RowConstants DEF BalanceInv, SoleRequest
    <3>3. QED
      BY <2>2, <3>1, <3>2 DEF BalanceInv, CheckedIsCovered, Covers
  <2>6. BalanceNonNegative'
    <3> SUFFICES ASSUME NEW u \in Users PROVE balance'[u] >= 0
      BY DEF BalanceNonNegative
    <3>1. balance[u] >= 0 BY DEF BalanceInv, BalanceNonNegative
    <3>2. QED BY <1>0, <2>1, <2>2, <2>3, <3>1
  <2>7. QED BY <2>4, <2>5, <2>6 DEF BalanceInv
<1>3. ASSUME NEW w \in Withdrawals, RequestAbort(w) PROVE BalanceInv'
  BY <1>0, <1>3, BalanceKept DEF RequestAbort
<1>4. ASSUME NEW w \in Withdrawals, NEW reason, NEW status,
             ReturnFunds(w, reason, status)
      PROVE  BalanceInv'
  BY <1>0, <1>4, CreditGrows, BalanceKept DEF ReturnFunds
<1>5. ASSUME NEW w \in Withdrawals, NEW n \in Confirmations,
             RefundReverted(w, n)
      PROVE  BalanceInv'
  BY <1>0, <1>5, CreditGrows, BalanceKept DEF RefundReverted
<1>6. CASE balance' = balance /\ request' = request
  BY <1>0, <1>6, BalanceKept
<1>7. QED
  BY <1>1, <1>2, <1>3, <1>4, <1>5, <1>6
  DEF TableNext, UserStep, AdminStep, JobTransaction, WatcherTransaction,
      Approve, Reject, ClaimRow, SettleSent, SettleUnguarded,
      MarkFailedAndRefund, FailUnguarded, RecordConfirmations, Promote,
      tableVars

(* While a user has one request in flight no balance goes below zero,       *)
(* although the debit does not look at the balance again: everything else   *)
(* the program runs on the tables between the comparison and the debit only *)
(* gives money back.                                                        *)
THEOREM BalanceCovers ==
  ~ ConcurrentRequests => (TableSpec => []BalanceNonNegative)
<1>1. TableInit => BalanceInv
  BY InitInv, FundsAssumption
  DEF TableInit, TableInv, BalanceInv, SoleRequest, CheckedIsCovered,
      BalanceNonNegative
<1>2. BalanceInv => BalanceNonNegative BY DEF BalanceInv
<1> SUFFICES ASSUME ~ ConcurrentRequests
    PROVE  TableSpec => []BalanceNonNegative
  OBVIOUS
<1>3. BalanceInv /\ TableInv /\ TableInv' /\ [TableNext]_tableVars
        => BalanceInv'
  BY BalanceStep
<1>4. QED BY <1>1, <1>2, <1>3, TableInvariant, PTL DEF TableSpec

----------------------------------------------------------------------------
(* The books.  The sums range over the ledger and over the rows that carry  *)
(* a payout reference: both are finite, whatever the number of withdrawals  *)
(* users may still make.                                                    *)

Worth == [p \in Reasons \X Withdrawals |-> Amount[p[2]]]

PairSum(S) == MapThenSumSet(LAMBDA p : Amount[p[2]], S)

LEMMA WorthOfPairs ==
  ASSUME NEW S, S \subseteq Reasons \X Withdrawals, IsFiniteSet(S)
  PROVE  IntValued(Worth, S) /\ PairSum(S) = SumOf(Worth, S)
<1> DEFINE Fold(it) ==
      it = [s \in SUBSET S |->
              IF s = {} THEN 0 ELSE Amount[Pick(s)[2]] + it[s \ {Pick(s)}]]
           sum == CHOOSE it : Fold(it)
<1>1. PairSum(S) = sum[S]
  BY DEF PairSum, MapThenSumSet, MapThenFoldSet, Pick
<1>2. IntValued(Worth, S)
  BY RowConstants DEF IntValued, Worth
<1>3. \A s \in SUBSET S : s # {} => Worth[Pick(s)] = Amount[Pick(s)[2]]
  BY PickIn DEF Worth
<1>4. \A it : Fold(it) <=> Adds(it, Worth, S)
  BY <1>3 DEF Adds, AddsOn
<1>5. \E it : Fold(it)
  BY <1>2, <1>4, FoldExists
<1>6. Fold(sum)
  BY <1>5
<1>7. Adds(sum, Worth, S)
  BY <1>4, <1>6
<1> HIDE DEF sum
<1>8. sum[S] = SumOf(Worth, S)
  BY <1>2, <1>7, FoldIsSum, S \in SUBSET S
<1>9. QED BY <1>1, <1>2, <1>8

LEMMA LedgerSums ==
  ASSUME NEW u, NEW reasons
  PROVE  /\ LedgerSum(u, reasons) = PairSum(WithReason(u, reasons))
         /\ LedgerSum(u, reasons)' = PairSum(WithReason(u, reasons)')
<1>1. LedgerSum(u, reasons) = PairSum(WithReason(u, reasons))
  BY DEF LedgerSum, PairSum
<1>2. LedgerSum(u, reasons)' = PairSum(WithReason(u, reasons)')
  BY DEF LedgerSum, PairSum, MapThenSumSet, MapThenFoldSet
<1>3. QED BY <1>1, <1>2

OwnedIn(S, u, reasons) == {p \in S : p[1] \in reasons /\ Owner[p[2]] = u}

(* One more ledger row adds its amount to the sum of its owner and reason.  *)
LEMMA OneMorePair ==
  ASSUME NEW S, S \subseteq Reasons \X Withdrawals, IsFiniteSet(S),
         NEW reason \in Reasons, NEW w \in Withdrawals,
         <<reason, w>> \notin S, NEW T, T = S \cup {<<reason, w>>},
         NEW u \in Users, NEW reasons
  PROVE  /\ SumOf(Worth, OwnedIn(S, u, reasons)) \in Int
         /\ reason \in reasons /\ Owner[w] = u
              => SumOf(Worth, OwnedIn(T, u, reasons))
                   = SumOf(Worth, OwnedIn(S, u, reasons)) + Amount[w]
         /\ reason \notin reasons \/ Owner[w] # u
              => SumOf(Worth, OwnedIn(T, u, reasons))
                   = SumOf(Worth, OwnedIn(S, u, reasons))
<1> DEFINE p == <<reason, w>>
           old == OwnedIn(S, u, reasons)
           new == OwnedIn(T, u, reasons)
<1>1. IsFiniteSet(old) /\ old \subseteq Reasons \X Withdrawals /\ p \notin old
  BY FS_Subset DEF OwnedIn
<1>2. SumOf(Worth, old) \in Int
  BY <1>1, WorthOfPairs, SumType
<1>3. p \in Reasons \X Withdrawals /\ p[1] = reason /\ p[2] = w
      /\ Worth[p] = Amount[w]
  BY DEF Worth
<1>4. CASE reason \in reasons /\ Owner[w] = u
  <2>1. new = old \cup {p} BY <1>3, <1>4 DEF OwnedIn
  <2>2. IntValued(Worth, old \cup {p})
    BY <1>1, <1>3, RowConstants DEF IntValued, Worth
  <2>3. SumOf(Worth, new) = SumOf(Worth, old) + Worth[p]
    BY <1>1, <2>1, <2>2, SumAdds
  <2>4. QED BY <1>2, <1>3, <1>4, <2>3
<1>5. CASE ~ (reason \in reasons /\ Owner[w] = u)
  <2>1. new = old BY <1>3, <1>5 DEF OwnedIn
  <2>2. QED BY <1>2, <1>5, <2>1
<1>6. QED BY <1>4, <1>5

(* What makes BalanceMatchesLedger inductive: a request that has not been   *)
(* committed has no row in the ledger, so that its debit comes with a new   *)
(* one.                                                                     *)
RequestIsNew ==
    \A w \in Withdrawals :
        <<"withdraw_request", w>> \in ledger => request[w] = "done"

BooksInv == IsFiniteSet(ledger) /\ BalanceMatchesLedger
BookedInv == BooksInv /\ RequestIsNew

(* A transaction that debits an amount with a new request row, or credits   *)
(* it with a new refund row, keeps the books.                               *)
LEMMA BooksMove ==
  ASSUME ledger \subseteq Reasons \X Withdrawals,
         balance \in [Users -> Int], BooksInv,
         NEW reason \in Reasons, NEW w \in Withdrawals,
         <<reason, w>> \notin ledger,
         ledger' = ledger \cup {<<reason, w>>},
         \/ reason = "withdraw_request" /\ Debit(w)
         \/ reason \in Refunds /\ Credit(w)
  PROVE  BooksInv'
<1>1. IsFiniteSet(ledger')
  BY FS_AddElement DEF BooksInv
<1>2. SUFFICES ASSUME NEW u \in Users
      PROVE  balance'[u] = Funds[u] - LedgerSum(u, {"withdraw_request"})'
                                    + LedgerSum(u, Refunds)'
  BY <1>1 DEF BooksInv, BalanceMatchesLedger
<1> DEFINE sum(reasons) == SumOf(Worth, OwnedIn(ledger, u, reasons))
           moved(reasons) == SumOf(Worth, OwnedIn(ledger', u, reasons))
           share == IF Owner[w] = u THEN Amount[w] ELSE 0
<1>3. ASSUME NEW reasons
      PROVE  /\ LedgerSum(u, reasons) = sum(reasons)
             /\ LedgerSum(u, reasons)' = moved(reasons)
  <2>1. /\ WithReason(u, reasons) = OwnedIn(ledger, u, reasons)
        /\ WithReason(u, reasons)' = OwnedIn(ledger', u, reasons)
    BY DEF WithReason, OwnedIn
  <2>2. /\ IsFiniteSet(WithReason(u, reasons))
        /\ IsFiniteSet(WithReason(u, reasons)')
        /\ WithReason(u, reasons) \subseteq Reasons \X Withdrawals
        /\ WithReason(u, reasons)' \subseteq Reasons \X Withdrawals
    BY <1>1, FS_Subset DEF WithReason, BooksInv
  <2>3. LedgerSum(u, reasons) = SumOf(Worth, WithReason(u, reasons))
    BY <2>2, WorthOfPairs, LedgerSums
  <2>4. LedgerSum(u, reasons)' = SumOf(Worth, WithReason(u, reasons)')
    BY <2>2, WorthOfPairs, LedgerSums
  <2>5. QED BY <2>1, <2>3, <2>4
<1>4. ASSUME NEW reasons
      PROVE  /\ sum(reasons) \in Int
             /\ moved(reasons)
                  = sum(reasons) + (IF reason \in reasons THEN share ELSE 0)
  <2>1. IsFiniteSet(ledger)
    BY DEF BooksInv
  <2>2. /\ sum(reasons) \in Int
        /\ reason \in reasons /\ Owner[w] = u
             => moved(reasons) = sum(reasons) + Amount[w]
        /\ reason \notin reasons \/ Owner[w] # u
             => moved(reasons) = sum(reasons)
    <3>1. sum(reasons) \in Int
      BY <2>1, OneMorePair
    <3>2. ASSUME reason \in reasons, Owner[w] = u
          PROVE  moved(reasons) = sum(reasons) + Amount[w]
      BY <2>1, <3>2, OneMorePair
    <3>3. ASSUME reason \notin reasons
          PROVE  moved(reasons) = sum(reasons)
      BY <2>1, <3>3, OneMorePair
    <3>4. ASSUME Owner[w] # u
          PROVE  moved(reasons) = sum(reasons)
      BY <2>1, <3>4, OneMorePair
    <3>5. QED BY <3>1, <3>2, <3>3, <3>4
  <2> HIDE DEF sum, moved
  <2>3. QED BY <2>2
<1>5. balance[u] = Funds[u] - sum({"withdraw_request"}) + sum(Refunds)
  BY <1>3 DEF BooksInv, BalanceMatchesLedger
<1>6. /\ Owner[w] \in Users /\ share \in Int
      /\ Funds[u] \in Int /\ balance[u] \in Int
  BY RowConstants, FundsAssumption
<1> HIDE DEF sum, moved
<1>7. CASE reason = "withdraw_request" /\ Debit(w)
  <2>1. balance'[u] = balance[u] - share
    BY <1>6, <1>7 DEF Debit
  <2>2. /\ moved({"withdraw_request"}) = sum({"withdraw_request"}) + share
        /\ moved(Refunds) = sum(Refunds)
    BY <1>4, <1>7
  <2>3. QED BY <1>3, <1>4, <1>5, <1>6, <2>1, <2>2
<1>8. CASE reason \in Refunds /\ Credit(w)
  <2>1. balance'[u] = balance[u] + share
    BY <1>6, <1>8 DEF Credit
  <2>2. /\ moved({"withdraw_request"}) = sum({"withdraw_request"})
        /\ moved(Refunds) = sum(Refunds) + share
    BY <1>4, <1>8
  <2>3. QED BY <1>3, <1>4, <1>5, <1>6, <2>1, <2>2
<1>9. QED BY <1>7, <1>8

LEMMA BooksStay ==
  ASSUME BooksInv, UNCHANGED <<ledger, balance>>
  PROVE  BooksInv'
<1>1. \A u, reasons : LedgerSum(u, reasons)' = LedgerSum(u, reasons)
  <2>1. ASSUME NEW u, NEW reasons
        PROVE  WithReason(u, reasons)' = WithReason(u, reasons)
    BY DEF WithReason
  <2>2. QED BY <2>1, LedgerSums
<1>2. QED BY <1>1 DEF BooksInv, BalanceMatchesLedger

(* The tables under every writer, the edit form included.                   *)
TableAct == [TableNext \/ EditStep]_tableVars

LEMMA BooksStep ==
  ASSUME TableTypeOK, BookedInv, TableAct
  PROVE  BookedInv'
<1> USE DEF moneyVars
<1>0. /\ ledger \subseteq Reasons \X Withdrawals
      /\ balance \in [Users -> Int]
      /\ request \in [Withdrawals -> {"none", "checked", "done"}]
      /\ BooksInv /\ RequestIsNew
  BY DEF TableTypeOK, BookedInv
<1>1. ASSUME NEW w \in Withdrawals, RequestCheck(w) \/ RequestAbort(w)
      PROVE  BookedInv'
  <2>1. UNCHANGED <<ledger, balance>>
        /\ \A v \in Withdrawals : request[v] = "done" => request'[v] = "done"
    BY <1>0, <1>1 DEF RequestCheck, RequestAbort
  <2>2. RequestIsNew' BY <1>0, <2>1 DEF RequestIsNew
  <2>3. QED BY <1>0, <2>1, <2>2, BooksStay DEF BookedInv
<1>2. ASSUME NEW w \in Withdrawals, RequestCommit(w) PROVE BookedInv'
  <2>1. /\ <<"withdraw_request", w>> \notin ledger
        /\ ledger' = ledger \cup {<<"withdraw_request", w>>}
        /\ Debit(w)
    BY <1>0, <1>2 DEF RequestCommit, RequestIsNew
  <2>2. BooksInv' BY <1>0, <2>1, BooksMove
  <2>3. RequestIsNew'
    BY <1>0, <1>2, <2>1, InsertedPair DEF RequestCommit, RequestIsNew
  <2>4. QED BY <2>2, <2>3 DEF BookedInv
<1>3. ASSUME NEW w \in Withdrawals, NEW reason \in Refunds,
             <<reason, w>> \notin ledger,
             ledger' = ledger \cup {<<reason, w>>},
             Credit(w), request' = request
      PROVE  BookedInv'
  <2>1. BooksInv' BY <1>0, <1>3, BooksMove
  <2>2. RequestIsNew'
    BY <1>0, <1>3, InsertedPair DEF RequestIsNew
  <2>3. QED BY <2>1, <2>2 DEF BookedInv
<1>4. ASSUME UNCHANGED <<ledger, balance, request>> PROVE BookedInv'
  BY <1>0, <1>4, BooksStay DEF BookedInv, RequestIsNew
<1>5. ASSUME NEW w \in Withdrawals, JobTransaction(w) PROVE BookedInv'
  BY <1>3, <1>4, <1>5
  DEF JobTransaction, ClaimRow, SettleSent, SettleUnguarded,
      MarkFailedAndRefund, FailUnguarded, ReturnFunds
<1>6. ASSUME NEW w \in Withdrawals, WatcherTransaction(w) PROVE BookedInv'
  BY <1>3, <1>4, <1>6
  DEF WatcherTransaction, RecordConfirmations, Promote, RefundReverted
<1>7. CASE AdminStep
  BY <1>3, <1>4, <1>7 DEF AdminStep, Approve, Reject, ReturnFunds
<1>8. CASE EditStep BY <1>4, <1>8 DEF EditStep, AdminEdit
<1>9. CASE UNCHANGED tableVars BY <1>4, <1>9 DEF tableVars
<1>10. QED
  BY <1>1, <1>2, <1>5, <1>6, <1>7, <1>8, <1>9
  DEF TableAct, TableNext, UserStep

LEMMA BooksOpen == TableInit => BookedInv
<1> SUFFICES ASSUME TableInit PROVE BookedInv
  OBVIOUS
<1>1. ledger = {} /\ balance = Funds
  BY DEF TableInit
<1>2. \A u, reasons : LedgerSum(u, reasons) = 0
  <2>1. ASSUME NEW u, NEW reasons PROVE LedgerSum(u, reasons) = 0
    <3>1. WithReason(u, reasons) = {} BY <1>1 DEF WithReason
    <3>2. PairSum({}) = SumOf(Worth, {}) BY WorthOfPairs, FS_EmptySet
    <3>3. QED BY <3>1, <3>2, SumEmpty, LedgerSums
  <2>2. QED BY <2>1
<1>3. BalanceMatchesLedger
  BY <1>1, <1>2, FundsAssumption DEF BalanceMatchesLedger
<1>4. QED
  BY <1>1, <1>3, FS_EmptySet DEF BookedInv, BooksInv, RequestIsNew

(* A user's balance is the opening balance, less the withdrawals requested, *)
(* plus those given back, in every reachable state of the tables.           *)
THEOREM BooksBalance == TableSpec => []BalanceMatchesLedger
<1>1. TableInv /\ BookedInv /\ [TableNext]_tableVars => BookedInv'
  BY BooksStep DEF TableInv, TableAct
<1>2. BookedInv => BalanceMatchesLedger
  BY DEF BookedInv, BooksInv
<1>3. QED BY <1>1, <1>2, BooksOpen, TableInvariant, PTL DEF TableSpec

----------------------------------------------------------------------------
(* The total withdrawn.  It is inductive only with the fact that a row that *)
(* carries a payout reference is past the job: the job never settles it a   *)
(* second time.                                                             *)

Settled == {w \in Withdrawals : row[w].ref}
RefIsSettled ==
    \A w \in Settled : row[w].status \in {"broadcast", "sent", "failed"}

TotalInv == IsFiniteSet(Settled) /\ RefIsSettled /\ TotalWithdrawnMatches

LEMMA AmountsCount ==
  ASSUME NEW S, S \subseteq Withdrawals
  PROVE  IntValued(Amount, S) /\ SumAmount(S) = SumOf(Amount, S)
<1>1. IntValued(Amount, S) BY RowConstants DEF IntValued
<1>2. SumAmount(S) = SumOf(Amount, S) BY DEF SumAmount, SumOf
<1>3. QED BY <1>1, <1>2

LEMMA SettledAmounts ==
  ASSUME NEW S, S \subseteq Withdrawals, IsFiniteSet(S),
         NEW w \in Withdrawals, w \notin S
  PROVE  /\ SumAmount(S) \in Int
         /\ SumAmount(S \cup {w}) = SumAmount(S) + Amount[w]
<1>1. SumAmount(S) = SumOf(Amount, S)
  BY AmountsCount
<1>2. /\ IntValued(Amount, S \cup {w})
      /\ SumAmount(S \cup {w}) = SumOf(Amount, S \cup {w})
  BY AmountsCount, S \cup {w} \subseteq Withdrawals
<1>3. SumOf(Amount, S \cup {w}) = SumOf(Amount, S) + Amount[w]
  BY <1>2, SumAdds
<1>4. SumOf(Amount, S) \in Int
  BY AmountsCount, SumType
<1>5. QED BY <1>1, <1>2, <1>3, <1>4

OwnSettled(u) == {w \in OwnedBy(u) : row[w].ref}

LEMMA OwnTotals ==
  ASSUME NEW u \in Users
  PROVE  /\ TotalWithdrawnMatches
              => totalWithdrawn[u] = SumAmount(OwnSettled(u))
         /\ SumAmount({w \in OwnedBy(u) : row[w].ref})'
              = SumAmount(OwnSettled(u)')
<1>1. TotalWithdrawnMatches => totalWithdrawn[u] = SumAmount(OwnSettled(u))
  BY DEF TotalWithdrawnMatches, OwnSettled
<1>2. SumAmount({w \in OwnedBy(u) : row[w].ref})' = SumAmount(OwnSettled(u)')
  BY DEF SumAmount, OwnSettled, MapThenSumSet, MapThenFoldSet
<1>3. QED BY <1>1, <1>2

Placed == {"broadcast", "sent", "failed"}

(* A step that gives no row a reference and takes none out of Placed.       *)
LEMMA TotalKept ==
  ASSUME TableTypeOK, TotalInv, totalWithdrawn' = totalWithdrawn,
         \A v \in Withdrawals :
            /\ row'[v].ref = row[v].ref
            /\ row[v].status \in Placed => row'[v].status \in Placed
  PROVE  TotalInv'
<1>1. Settled' = Settled BY DEF Settled
<1>2. RefIsSettled'
  BY <1>1 DEF TotalInv, RefIsSettled, Settled, Placed
<1>3. TotalWithdrawnMatches'
  <2> SUFFICES ASSUME NEW u \in Users
      PROVE  totalWithdrawn'[u] = SumAmount({w \in OwnedBy(u) : row[w].ref})'
    BY DEF TotalWithdrawnMatches
  <2>1. OwnSettled(u)' = OwnSettled(u) BY DEF OwnSettled, OwnedBy
  <2>2. QED BY <2>1, OwnTotals DEF TotalInv
<1>4. QED BY <1>1, <1>2, <1>3 DEF TotalInv

LEMMA PutKeepsTotal ==
  ASSUME TableTypeOK, TotalInv, totalWithdrawn' = totalWithdrawn,
         NEW w \in Withdrawals, NEW record \in Row, Put(w, record),
         record.ref = row[w].ref,
         row[w].status \in Placed => record.status \in Placed
  PROVE  TotalInv'
<1>1. \A v \in Withdrawals : row'[v] = IF v = w THEN record ELSE row[v]
  BY DEF TableTypeOK
<1>2. QED BY <1>1, TotalKept

LEMMA SettleCounts ==
  ASSUME TableTypeOK, TotalInv, NEW w \in Withdrawals, SettleSent(w)
  PROVE  TotalInv'
<1>1. /\ row \in [Withdrawals -> Row] /\ totalWithdrawn \in [Users -> Nat]
      /\ Owner[w] \in Users /\ Amount[w] \in Nat
  BY RowConstants DEF TableTypeOK
<1>2. \A v \in Withdrawals :
        /\ v # w => row'[v] = row[v]
        /\ v = w => row'[v].ref = TRUE /\ row'[v].status \in Placed
  BY <1>1 DEF SettleSent, SettleUnguarded, Placed
<1>3. \A u \in Users :
        totalWithdrawn'[u] = IF u = Owner[w] THEN totalWithdrawn[u] + Amount[w]
                             ELSE totalWithdrawn[u]
  BY <1>1 DEF SettleSent, SettleUnguarded
<1>4. w \notin Settled
  BY DEF SettleSent, TotalInv, RefIsSettled
<1>5. Settled' = Settled \cup {w}
  BY <1>2 DEF Settled
<1>6. IsFiniteSet(Settled')
  BY <1>5, FS_AddElement DEF TotalInv
<1>7. RefIsSettled'
  BY <1>2 DEF TotalInv, RefIsSettled, Settled, Placed
<1>8. TotalWithdrawnMatches'
  <2> SUFFICES ASSUME NEW u \in Users
      PROVE  totalWithdrawn'[u] = SumAmount({v \in OwnedBy(u) : row[v].ref})'
    BY DEF TotalWithdrawnMatches
  <2>1. totalWithdrawn[u] = SumAmount(OwnSettled(u))
        /\ SumAmount({v \in OwnedBy(u) : row[v].ref})'
             = SumAmount(OwnSettled(u)')
    BY OwnTotals DEF TotalInv
  <2>2. /\ OwnSettled(u) \subseteq Settled /\ OwnSettled(u) \subseteq Withdrawals
        /\ w \notin OwnSettled(u)
    BY <1>4 DEF OwnSettled, OwnedBy, Settled
  <2>3. IsFiniteSet(OwnSettled(u))
    BY <2>2, FS_Subset DEF TotalInv
  <2>4. CASE u = Owner[w]
    <3>1. OwnSettled(u)' = OwnSettled(u) \cup {w}
      BY <1>2, <2>4 DEF OwnSettled, OwnedBy
    <3>2. SumAmount(OwnSettled(u) \cup {w})
            = SumAmount(OwnSettled(u)) + Amount[w]
      BY <2>2, <2>3, SettledAmounts
    <3>3. QED BY <1>3, <2>1, <2>4, <3>1, <3>2
  <2>5. CASE u # Owner[w]
    <3>1. OwnSettled(u)' = OwnSettled(u)
      BY <1>2, <2>5 DEF OwnSettled, OwnedBy
    <3>2. QED BY <1>3, <2>1, <2>5, <3>1
  <2>6. QED BY <2>4, <2>5
<1>9. QED BY <1>6, <1>7, <1>8 DEF TotalInv

LEMMA TotalStep ==
  ASSUME TableInv, TotalInv, [TableNext]_tableVars
  PROVE  TotalInv'
<1> USE DEF moneyVars, Placed
<1>0. /\ TableTypeOK /\ row \in [Withdrawals -> Row]
      /\ \A w \in Withdrawals : request[w] = "checked" => row[w].status = "none"
  BY DEF TableInv, TableTypeOK, RequestHasNoRow
<1>1. ASSUME NEW w \in Withdrawals,
             RequestCheck(w) \/ RequestAbort(w) \/ RequestCommit(w)
      PROVE  TotalInv'
  <2>1. CASE RequestCommit(w)
    <3> DEFINE held == [row[w] EXCEPT !.status = "hold", !.review = TRUE]
               queued == [row[w] EXCEPT !.status = "queued",
                                        !.review = FALSE]
    <3>1. /\ held \in Row /\ held.ref = row[w].ref
          /\ queued \in Row /\ queued.ref = row[w].ref
      BY <1>0
    <3>2. /\ Put(w, held) \/ Put(w, queued)
          /\ row[w].status = "none" /\ totalWithdrawn' = totalWithdrawn
      BY <1>0, <2>1 DEF RequestCommit
    <3> HIDE DEF held, queued, Put
    <3>3. QED BY <1>0, <3>1, <3>2, PutKeepsTotal
  <2>2. CASE RequestCheck(w) \/ RequestAbort(w)
    BY <1>0, <2>2, TotalKept DEF RequestCheck, RequestAbort
  <2>3. QED BY <1>1, <2>1, <2>2
<1>2. ASSUME NEW w \in Withdrawals, NEW reason, NEW status \in {"failed", "rejected"},
             row[w].status \notin Placed, ReturnFunds(w, reason, status)
      PROVE  TotalInv'
  <2> DEFINE record == [row[w] EXCEPT !.status = status,
                                      !.review = @ /\ status # "rejected"]
  <2>1. record \in Row /\ record.ref = row[w].ref BY <1>0
  <2>2. Put(w, record) /\ totalWithdrawn' = totalWithdrawn
    BY <1>2 DEF ReturnFunds
  <2> HIDE DEF record, Put
  <2>3. QED BY <1>0, <1>2, <2>1, <2>2, PutKeepsTotal
<1>3. ASSUME NEW w \in Withdrawals, Approve(w) \/ ClaimRow(w)
      PROVE  TotalInv'
  BY ZenonT(60), <1>0, <1>3, TotalKept DEF Approve, ClaimRow
<1>4. ASSUME NEW w \in Withdrawals, WatcherTransaction(w) PROVE TotalInv'
  <2> PICK n \in Confirmations :
        RecordConfirmations(w, n) \/ Promote(w, n) \/ RefundReverted(w, n)
    BY <1>4 DEF WatcherTransaction
  <2>1. CASE RecordConfirmations(w, n)
    BY <1>0, <2>1, TotalKept DEF RecordConfirmations
  <2>2. CASE Promote(w, n)
    BY <1>0, <2>2, TotalKept DEF Promote
  <2>3. CASE RefundReverted(w, n)
    BY <1>0, <2>3, TotalKept DEF RefundReverted
  <2>4. QED BY <2>1, <2>2, <2>3
<1>5. ASSUME NEW w \in Withdrawals, JobTransaction(w) PROVE TotalInv'
  BY <1>0, <1>2, <1>3, <1>5, SettleCounts
  DEF JobTransaction, MarkFailedAndRefund, FailUnguarded
<1>6. CASE AdminStep
  BY <1>2, <1>3, <1>6 DEF AdminStep, Reject, Rejectable
<1>7. CASE UNCHANGED tableVars BY <1>0, <1>7, TotalKept DEF tableVars
<1>8. QED BY <1>1, <1>4, <1>5, <1>6, <1>7 DEF TableNext, UserStep

LEMMA TotalOpens == TableInit => TotalInv
<1> SUFFICES ASSUME TableInit PROVE TotalInv
  OBVIOUS
<1>1. /\ Settled = {}
      /\ \A u \in Users : {w \in OwnedBy(u) : row[w].ref} = {}
      /\ \A u \in Users : totalWithdrawn[u] = 0
  BY DEF TableInit, Settled, OwnedBy
<1>2. SumAmount({}) = 0
  BY AmountsCount, SumEmpty
<1>3. QED
  BY <1>1, <1>2, FS_EmptySet DEF TotalInv, RefIsSettled, TotalWithdrawnMatches

(* A user's total withdrawn counts every withdrawal that carries a payout   *)
(* reference, once, in every reachable state of the tables.                 *)
THEOREM TotalsCount == TableSpec => []TotalWithdrawnMatches
<1>1. TableInv /\ TotalInv /\ [TableNext]_tableVars => TotalInv'
  BY TotalStep
<1>2. TotalInv => TotalWithdrawnMatches BY DEF TotalInv
<1>3. QED BY <1>1, <1>2, TotalOpens, TableInvariant, PTL DEF TableSpec
=============================================================================
