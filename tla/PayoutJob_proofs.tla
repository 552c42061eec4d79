-------------------------- MODULE PayoutJob_proofs --------------------------
(***************************************************************************)
(* For any number of withdrawals, workers, envelopes, retries and faults:  *)
(* what the payout job keeps, with and without the admin's edit form.      *)
(***************************************************************************)
EXTENDS PayoutJob, WithdrawalTable_proofs

USE DEF Put, InFlight, Terminal, Statuses, Reasons, Refunds, Row

LEMMA TaskRow ==
  ASSUME JobTypeOK, NEW k \in Workers, pc[k] # "idle"
  PROVE  /\ task[k] \in Envelopes
         /\ W(k) \in Withdrawals
         /\ task[k][1] = W(k)
BY DEF JobTypeOK, Envelopes, W

----------------------------------------------------------------------------
(* The tables under every writer, the edit form included.                   *)

Cleared(w) == row[w].status # "none" /\ ~ row[w].review

LEMMA TablesKeep ==
  ASSUME TableTypeOK, RequestHasNoRow, TableAct
  PROVE  /\ TableTypeOK' /\ RequestHasNoRow'
         /\ \A w \in Withdrawals :
              /\ Cleared(w) => Cleared(w)'
              /\ row[w].status # "none" => row'[w].status # "none"
<1> DEFINE Goal == /\ TableTypeOK' /\ RequestHasNoRow'
                   /\ \A w \in Withdrawals :
                        /\ Cleared(w) => Cleared(w)'
                        /\ row[w].status # "none" => row'[w].status # "none"
<1> SUFFICES Goal OBVIOUS
<1> USE DEF moneyVars, Cleared
<1>0. row \in [Withdrawals -> Row] BY DEF TableTypeOK
<1>1. ASSUME NEW w \in Withdrawals, RequestCheck(w) \/ RequestAbort(w)
      PROVE  Goal
  BY <1>1 DEF RequestCheck, RequestAbort, TableTypeOK, RequestHasNoRow
<1>2. ASSUME NEW w \in Withdrawals, RequestCommit(w) PROVE Goal
  <2>1. balance' \in [Users -> Int] BY <1>2, MoneyType DEF RequestCommit
  <2>2. row[w].status = "none" BY <1>2 DEF RequestCommit, RequestHasNoRow
  <2>3. PICK record \in Row : /\ row' = [row EXCEPT ![w] = record]
                              /\ record.status # "none"
    <3> DEFINE held == [row[w] EXCEPT !.status = "hold", !.review = TRUE]
               queued == [row[w] EXCEPT !.status = "queued",
                                        !.review = FALSE]
    <3>1. /\ held \in Row /\ held.status = "hold"
          /\ queued \in Row /\ queued.status = "queued"
      BY <1>0
    <3>2. Put(w, held) \/ Put(w, queued) BY <1>2 DEF RequestCommit
    <3> HIDE DEF held, queued
    <3>3. QED BY <3>1, <3>2
  <2>4. \A v \in Withdrawals : row'[v] = IF v = w THEN record ELSE row[v]
    BY <1>0, <2>3
  <2>5. TableTypeOK' BY <1>2, <2>1, <2>3 DEF RequestCommit, TableTypeOK
  <2>6. RequestHasNoRow'
    BY <1>2, <2>3, <2>4 DEF RequestCommit, RequestHasNoRow, TableTypeOK
  <2>7. QED BY <2>2, <2>4, <2>5, <2>6
<1>3. ASSUME NEW w \in Withdrawals, row[w].status # "none",
             NEW record \in Row, Put(w, record), record.status # "none",
             ~ row[w].review => ~ record.review,
             ledger' \subseteq Reasons \X Withdrawals,
             balance' \in [Users -> Int], totalWithdrawn' \in [Users -> Nat],
             request' = request
      PROVE  Goal
  <2>1. \A v \in Withdrawals : row'[v] = IF v = w THEN record ELSE row[v]
    BY <1>0, <1>3
  <2>2. TableTypeOK' BY <1>3 DEF TableTypeOK
  <2>3. RequestHasNoRow' BY <1>3, <2>1 DEF RequestHasNoRow
  <2>4. QED BY <1>3, <2>1, <2>2, <2>3
<1>4. ASSUME NEW w \in Withdrawals, NEW reason \in Refunds,
             NEW status \in {"failed", "rejected"}, row[w].status # "none",
             ReturnFunds(w, reason, status)
      PROVE  Goal
  <2> DEFINE record == [row[w] EXCEPT !.status = status,
                                      !.review = @ /\ status # "rejected"]
  <2>1. record \in Row /\ record.status = status
        /\ (~ row[w].review => ~ record.review)
    BY <1>0
  <2>2. Put(w, record) BY <1>4 DEF ReturnFunds
  <2>3. /\ balance' \in [Users -> Int]
        /\ ledger' \subseteq Reasons \X Withdrawals
    BY <1>4, MoneyType DEF ReturnFunds, TableTypeOK
  <2> HIDE DEF record
  <2>4. QED BY <1>3, <1>4, <2>1, <2>2, <2>3 DEF ReturnFunds, TableTypeOK
<1>5. ASSUME NEW w \in Withdrawals, Approve(w) \/ ClaimRow(w) PROVE Goal
  <2> DEFINE approved == [row[w] EXCEPT !.status = "queued",
                                        !.review = FALSE]
             claimed == [row[w] EXCEPT !.status = "processing"]
  <2>1. /\ approved \in Row /\ approved.status = "queued"
        /\ ~ approved.review
        /\ claimed \in Row /\ claimed.status = "processing"
        /\ claimed.review = row[w].review
    BY <1>0
  <2>2. /\ Put(w, approved) \/ Put(w, claimed)
        /\ row[w].status # "none"
        /\ UNCHANGED <<ledger, balance, totalWithdrawn, request>>
    BY <1>5 DEF Approve, ClaimRow
  <2> HIDE DEF approved, claimed, Put
  <2>3. QED BY <1>3, <2>1, <2>2 DEF TableTypeOK
<1>6. ASSUME NEW w \in Withdrawals, SettleSent(w) PROVE Goal
  <2> DEFINE record ==
        [row[w] EXCEPT
           !.status = IF IsOnchain(w) THEN "broadcast" ELSE "sent",
           !.ref = TRUE]
  <2>1. record \in Row /\ record.status \in {"broadcast", "sent"}
        /\ record.review = row[w].review
    BY <1>0
  <2>2. totalWithdrawn' \in [Users -> Nat]
    BY <1>6, MoneyType DEF SettleSent, SettleUnguarded
  <2>3. Put(w, record) /\ UNCHANGED <<ledger, balance, request>>
        /\ row[w].status = "processing"
    BY <1>6 DEF SettleSent, SettleUnguarded
  <2> HIDE DEF record, Put
  <2>4. QED BY <1>3, <2>1, <2>2, <2>3 DEF TableTypeOK
<1>7. ASSUME NEW w \in Withdrawals, NEW n \in Confirmations,
             RecordConfirmations(w, n) \/ Promote(w, n)
      PROVE  Goal
  <2> DEFINE recorded == [row[w] EXCEPT !.conf = n]
             final == [row[w] EXCEPT !.status = "sent", !.conf = n]
  <2>1. /\ recorded \in Row /\ recorded.status = row[w].status
        /\ final \in Row /\ final.status = "sent"
        /\ recorded.review = row[w].review /\ final.review = row[w].review
    BY <1>0, ConfirmationsAssumption
  <2>2. \/ Promote(w, n) /\ row[w].status # "none"
        \/ RecordConfirmations(w, n)
    BY <1>7 DEF Promote
  <2>3. CASE Promote(w, n)
    <3>1. Put(w, final) /\ row[w].status # "none"
          /\ UNCHANGED <<ledger, balance, totalWithdrawn, request>>
      BY <2>3 DEF Promote
    <3> HIDE DEF final, Put
    <3>2. QED BY <1>3, <2>1, <3>1 DEF TableTypeOK
  <2>4. CASE RecordConfirmations(w, n)
    <3>1. \A v \in Withdrawals :
            row'[v] = IF v = w THEN recorded ELSE row[v]
      BY <1>0, <2>4 DEF RecordConfirmations
    <3>2. row' \in [Withdrawals -> Row]
      BY <1>0, <2>1, <2>4 DEF RecordConfirmations
    <3>3. UNCHANGED <<ledger, balance, totalWithdrawn, request>>
      BY <2>4 DEF RecordConfirmations
    <3> HIDE DEF recorded
    <3>4. TableTypeOK' BY <3>2, <3>3 DEF TableTypeOK
    <3>5. RequestHasNoRow' BY <2>1, <3>1, <3>3 DEF RequestHasNoRow
    <3>6. QED BY <2>1, <3>1, <3>4, <3>5
  <2>5. QED BY <2>2, <2>3, <2>4
<1>8. ASSUME NEW w \in Withdrawals, NEW n \in Confirmations,
             RefundReverted(w, n)
      PROVE  Goal
  <2> DEFINE record == [row[w] EXCEPT !.status = "failed", !.conf = n]
  <2>1. record \in Row /\ record.status = "failed"
        /\ record.review = row[w].review
    BY <1>0, ConfirmationsAssumption
  <2>2. /\ Put(w, record) /\ row[w].status # "none"
        /\ balance' \in [Users -> Int]
        /\ ledger' \subseteq Reasons \X Withdrawals
        /\ UNCHANGED <<totalWithdrawn, request>>
    BY <1>8, MoneyType DEF RefundReverted, TableTypeOK
  <2> HIDE DEF record, Put
  <2>3. QED BY <1>3, <2>1, <2>2 DEF TableTypeOK
<1>9. ASSUME NEW w \in Withdrawals, NEW status \in Statuses,
             AdminEdit(w, status)
      PROVE  Goal
  <2> DEFINE record == [row[w] EXCEPT !.status = status]
  <2>1. record \in Row /\ record.status = status
        /\ record.review = row[w].review /\ status # "none"
    BY <1>0
  <2>2. Put(w, record) /\ row[w].status # "none"
        /\ UNCHANGED <<ledger, balance, totalWithdrawn, request>>
    BY <1>9 DEF AdminEdit
  <2> HIDE DEF record, Put
  <2>3. QED BY <1>3, <2>1, <2>2 DEF TableTypeOK
<1>10. CASE UNCHANGED tableVars
  BY <1>10 DEF tableVars, TableTypeOK, RequestHasNoRow
<1>11. CASE UserStep BY <1>1, <1>2, <1>11 DEF UserStep
<1>12. CASE AdminStep
  BY <1>4, <1>5, <1>12 DEF AdminStep, Reject, Rejectable
<1>13. ASSUME NEW w \in Withdrawals, JobTransaction(w) PROVE Goal
  BY <1>4, <1>5, <1>6, <1>13
  DEF JobTransaction, MarkFailedAndRefund, FailUnguarded
<1>14. ASSUME NEW w \in Withdrawals, WatcherTransaction(w) PROVE Goal
  BY <1>7, <1>8, <1>14 DEF WatcherTransaction
<1>15. CASE EditStep BY <1>9, <1>15 DEF EditStep
<1> HIDE DEF Goal
<1>16. QED
  BY <1>10, <1>11, <1>12, <1>13, <1>14, <1>15 DEF TableAct, TableNext

----------------------------------------------------------------------------
(* The queue and the workers.                                               *)

LEMMA EnvelopeTypes ==
  ASSUME JobTypeOK, NEW e \in Envelopes, NEW state \in JobStates, NEW n \in Nat
  PROVE  /\ [jobs EXCEPT ![e] = [state |-> state, attempts |-> n]]
               \in [Envelopes -> [state : JobStates, attempts : Nat]]
         /\ [jobs EXCEPT ![e].state = state]
               \in [Envelopes -> [state : JobStates, attempts : Nat]]
BY DEF JobTypeOK

LEMMA DeletedTypes ==
  ASSUME JobTypeOK, NEW e \in Envelopes
  PROVE  /\ jobs[e].attempts \in Nat /\ jobs[e].state \in JobStates
         /\ e[1] \in Withdrawals
         /\ [lock EXCEPT ![e[1]] = FALSE] \in [Withdrawals -> BOOLEAN]
         /\ [jobs EXCEPT ![e] = NoJob]
               \in [Envelopes -> [state : JobStates, attempts : Nat]]
BY DEF JobTypeOK, Envelopes, NoJob, JobStates

LEMMA JobTypes == ASSUME JobTypeOK, PayoutStep PROVE JobTypeOK'
<1> USE DEF PCs, JobStates, NoJob, NoTask, Fault, Goto
<1>1. \A state \in {"none", "ready", "reserved", "delayed"} :
        state \in JobStates
  OBVIOUS
<1>2. CASE CronScan BY <1>2 DEF CronScan, JobTypeOK
<1>3. ASSUME NEW w \in Withdrawals, CronDispatch(w) PROVE JobTypeOK'
  <2>1. \A s \in FreeSlots(w) : <<w, s>> \in Envelopes
    BY DEF FreeSlots, Envelopes
  <2>2. lock' \in [Withdrawals -> BOOLEAN]
    BY <1>3 DEF CronDispatch, JobTypeOK
  <2>3. jobs' \in [Envelopes -> [state : JobStates, attempts : Nat]]
    <3>1. CASE jobs' = jobs BY <3>1 DEF JobTypeOK
    <3>2. CASE \E s \in FreeSlots(w) :
                 jobs' = [jobs EXCEPT ![<<w, s>>] =
                            [state |-> "ready", attempts |-> 0]]
      <4>1. PICK s \in FreeSlots(w) :
              jobs' = [jobs EXCEPT ![<<w, s>>] =
                         [state |-> "ready", attempts |-> 0]]
        BY <3>2
      <4>2. <<w, s>> \in Envelopes BY <2>1
      <4>3. "ready" \in JobStates /\ 0 \in Nat OBVIOUS
      <4> HIDE DEF JobStates
      <4>4. QED BY <4>1, <4>2, <4>3, EnvelopeTypes
    <3>3. QED BY <1>3, <3>1, <3>2 DEF CronDispatch
  <2>4. scan' \subseteq Withdrawals /\ UNCHANGED <<pc, task, paid, faults>>
    BY <1>3 DEF CronDispatch, JobTypeOK
  <2>5. QED BY <2>2, <2>3, <2>4 DEF JobTypeOK
<1>4. ASSUME NEW w \in Withdrawals, LockLost(w) PROVE JobTypeOK'
  BY <1>4 DEF LockLost, JobTypeOK
<1>5. ASSUME NEW e \in Envelopes, Backoff(e) \/ Redeliver(e)
      PROVE  JobTypeOK'
  BY <1>5 DEF Backoff, Redeliver, JobTypeOK
<1>6. ASSUME NEW k \in Workers, NEW e \in Envelopes, Pop(k, e)
      PROVE  JobTypeOK'
  <2>1. /\ jobs' \in [Envelopes -> [state : JobStates, attempts : Nat]]
        /\ lock' \in [Withdrawals -> BOOLEAN]
    <3>1. CASE TriesSpent(e)
      BY ZenonT(60), <1>6, <3>1, DeletedTypes DEF Pop, Delete
    <3>2. CASE ~ TriesSpent(e)
      <4>1. jobs[e].attempts + 1 \in Nat BY DeletedTypes
      <4>2. /\ jobs' = [jobs EXCEPT ![e] =
                          [state |-> "reserved",
                           attempts |-> jobs[e].attempts + 1]]
            /\ lock' = lock
        BY <1>6, <3>2 DEF Pop
      <4>3. QED BY <4>1, <4>2, EnvelopeTypes DEF JobTypeOK
    <3>3. QED BY <3>1, <3>2
  <2>2. \E label \in {"dead", "precheck"} : pc' = [pc EXCEPT ![k] = label]
    BY <1>6 DEF Pop
  <2>3. /\ task' = [task EXCEPT ![k] = e]
        /\ UNCHANGED <<scan, paid, faults>>
    BY <1>6 DEF Pop
  <2>4. QED BY <2>1, <2>2, <2>3 DEF JobTypeOK
<1>7. ASSUME NEW k \in Workers, Threw(k) \/ Ack(k) \/ Timeout(k)
      PROVE  JobTypeOK'
  <2>1. task[k] \in Envelopes /\ task[k][1] \in Withdrawals
    BY <1>7, TaskRow DEF Threw, Ack, Timeout
  <2>2. /\ jobs' \in [Envelopes -> [state : JobStates, attempts : Nat]]
        /\ lock' \in [Withdrawals -> BOOLEAN]
    <3>1. CASE Delete(task[k]) BY <2>1, <3>1, DeletedTypes DEF Delete
    <3>2. CASE /\ jobs' = [jobs EXCEPT ![task[k]].state = "delayed"]
               /\ lock' = lock
      BY <2>1, <3>2, EnvelopeTypes DEF JobTypeOK
    <3>3. CASE UNCHANGED <<lock, jobs>> BY <3>3 DEF JobTypeOK
    <3>4. QED BY <1>7, <3>1, <3>2, <3>3 DEF Threw, Ack, Timeout
  <2>3. \/ pc' = [pc EXCEPT ![k] = "dead"] /\ task' = task /\ pc[k] # "idle"
        \/ /\ pc' = [pc EXCEPT ![k] = "idle"]
           /\ task' = [task EXCEPT ![k] = NoTask]
    BY <1>7 DEF Threw, Ack, Timeout, Free
  <2>4. UNCHANGED <<scan, paid>> /\ faults' \in Nat
    BY <1>7 DEF Threw, Ack, Timeout, JobTypeOK
  <2>5. /\ pc' \in [Workers -> PCs]
        /\ task' \in [Workers -> Envelopes \cup {NoTask}]
        /\ \A j \in Workers : pc'[j] # "idle" => task'[j] \in Envelopes
    BY <2>3 DEF JobTypeOK
  <2>6. QED BY <2>2, <2>4, <2>5 DEF JobTypeOK
<1>8. ASSUME NEW k \in Workers, Crash(k) PROVE JobTypeOK'
  BY <1>8 DEF Crash, Free, JobTypeOK
<1>9. ASSUME NEW k \in Workers,
             \/ PreCheck(k) \/ HoldForReview(k) \/ Claim(k)
             \/ GatewayDeclines(k) \/ GatewayUnreachable(k) \/ Settle(k)
             \/ FailAndRefund(k) \/ SettleThrows(k)
      PROVE  JobTypeOK'
  <2>1. pc[k] # "idle" /\ task' = task /\ paid' = paid /\ jobs' = jobs
        /\ scan' = scan /\ lock' = lock /\ faults' \in {faults, faults + 1}
    BY <1>9 DEF PreCheck, HoldForReview, Claim, GatewayDeclines,
       GatewayUnreachable, Settle, FailAndRefund, SettleThrows
  <2>2. \E label \in PCs : pc' = [pc EXCEPT ![k] = label]
    BY <1>9 DEF PreCheck, HoldForReview, Claim, GatewayDeclines,
       GatewayUnreachable, Settle, FailAndRefund, SettleThrows
  <2>3. QED BY <2>1, <2>2 DEF JobTypeOK
<1>10. ASSUME NEW k \in Workers, GatewayAccepts(k) \/ GatewayAmbiguous(k)
       PROVE  JobTypeOK'
  <2>1. W(k) \in Withdrawals
    BY <1>10, TaskRow DEF GatewayAccepts, GatewayAmbiguous
  <2>2. paid[W(k)] + 1 \in Nat BY <2>1 DEF JobTypeOK
  <2>3. paid' \in [Withdrawals -> Nat]
    BY <1>10, <2>2 DEF GatewayAccepts, GatewayAmbiguous, JobTypeOK
  <2>4. /\ \E label \in PCs : pc' = [pc EXCEPT ![k] = label]
        /\ pc[k] # "idle"
    BY <1>10 DEF GatewayAccepts, GatewayAmbiguous
  <2>5. UNCHANGED <<scan, lock, jobs, task>> /\ faults' \in Nat
    BY <1>10 DEF GatewayAccepts, GatewayAmbiguous, JobTypeOK
  <2>6. QED BY <2>3, <2>4, <2>5 DEF JobTypeOK
<1>11. ASSUME NEW k \in Workers, DeadLetter(k) PROVE JobTypeOK'
  BY <1>11 DEF DeadLetter, Free, JobTypeOK
<1>12. QED
  BY <1>2, <1>3, <1>4, <1>5, <1>6, <1>7, <1>8, <1>9, <1>10, <1>11
  DEF PayoutStep, QueueStep, WorkerStep, Handle, Send

(* What a step of the queue or of a worker does to the tables.              *)
JobTables ==
    UNCHANGED tableVars \/ \E w \in Withdrawals : JobTransaction(w)

HeldHasRow ==
    \A k \in Workers : pc[k] = "hold" => row[W(k)].status # "none"

LEMMA PayoutTables ==
  ASSUME TableTypeOK, JobTypeOK, HeldHasRow, PayoutStep
  PROVE  /\ TableAct
         /\ \/ JobTables
            \/ \E k \in Workers : HoldForReview(k)
<1>1. CASE QueueStep
  BY <1>1 DEF QueueStep, CronScan, CronDispatch, LockLost, Backoff,
     Redeliver, TableAct, JobTables
<1>2. ASSUME NEW k \in Workers, HoldForReview(k) PROVE TableAct
  <2>1. row[W(k)].status # "none" /\ W(k) \in Withdrawals
    BY <1>2, TaskRow DEF HoldForReview, HeldHasRow
  <2>2. row' = [row EXCEPT ![W(k)] = [row[W(k)] EXCEPT !.status = "hold"]]
    BY <1>2 DEF HoldForReview
  <2>3. AdminEdit(W(k), "hold")
    BY <1>2, <2>1, <2>2 DEF AdminEdit, HoldForReview, Put
  <2>4. QED BY <2>1, <2>3 DEF EditStep, TableAct
<1>3. ASSUME NEW k \in Workers, WorkerStep(k), ~ HoldForReview(k)
      PROVE  JobTables
  <2>1. W(k) \in Withdrawals \/ UNCHANGED tableVars
    <3>1. CASE pc[k] # "idle" BY <3>1, TaskRow
    <3>2. CASE \E e \in Envelopes : Pop(k, e) BY <3>2 DEF Pop
    <3>3. QED
      BY <1>3, <3>1, <3>2
      DEF WorkerStep, Handle, Send, PreCheck, Claim, GatewayAccepts,
          GatewayDeclines, GatewayUnreachable, Settle, FailAndRefund, Threw,
          DeadLetter, Ack, GatewayAmbiguous, SettleThrows, Crash, Timeout
  <2>2. UNCHANGED tableVars \/ JobTransaction(W(k))
    BY <1>3
    DEF WorkerStep, Handle, Send, PreCheck, Claim, GatewayAccepts,
        GatewayDeclines, GatewayUnreachable, Settle, FailAndRefund, Threw,
        DeadLetter, Ack, GatewayAmbiguous, SettleThrows, Crash, Timeout,
        Pop, RefundOrSkip, JobTransaction
  <2>3. QED BY <2>1, <2>2 DEF JobTables
<1>4. JobTables => TableAct BY DEF JobTables, TableAct, TableNext
<1>5. QED BY <1>1, <1>2, <1>3, <1>4 DEF PayoutStep, JobTables, QueueStep,
        CronScan, CronDispatch, LockLost, Backoff, Redeliver

----------------------------------------------------------------------------
(* With the edit form of the admin panel in use.                            *)

PaidIsCleared == \A w \in Withdrawals : paid[w] > 0 => Cleared(w)

(* From the claim on the review is behind a withdrawal.                     *)
PastReview ==
    \A k \in Workers :
        pc[k] \in {"claim", "send", "accepted", "declined"} => Cleared(W(k))

EditInv == /\ TypeOK /\ RequestHasNoRow
           /\ HeldHasRow /\ PastReview /\ PaidIsCleared

(* To the tables, every step is one of the transactions or an edit.         *)
LEMMA EditActs == EditInv /\ [EditNext]_vars => TableAct /\ JobTypeOK'
<1> SUFFICES ASSUME EditInv, [EditNext]_vars PROVE TableAct /\ JobTypeOK'
  OBVIOUS
<1>1. TableTypeOK /\ JobTypeOK /\ HeldHasRow
  BY DEF EditInv, TypeOK
<1>2. CASE PayoutStep BY <1>1, <1>2, JobTypes, PayoutTables
<1>3. CASE ~ PayoutStep
  BY <1>1, <1>3
  DEF EditNext, Next, TableStep, TableNext, TableAct, vars, jobVars,
      JobTypeOK
<1>4. QED BY <1>2, <1>3

LEMMA EditStepInv == EditInv /\ [EditNext]_vars => EditInv'
<1> SUFFICES ASSUME EditInv, [EditNext]_vars PROVE EditInv'
  OBVIOUS
<1>0. /\ TableTypeOK /\ JobTypeOK /\ RequestHasNoRow
      /\ HeldHasRow /\ PastReview /\ PaidIsCleared
  BY DEF EditInv, TypeOK
<1>1. TableAct /\ JobTypeOK'
  BY EditActs
<1>2. /\ TableTypeOK' /\ RequestHasNoRow'
      /\ \A w \in Withdrawals :
           /\ Cleared(w) => Cleared(w)'
           /\ row[w].status # "none" => row'[w].status # "none"
  BY <1>0, <1>1, TablesKeep
<1>3. ASSUME UNCHANGED jobVars PROVE EditInv'
  <2>1. \A k \in Workers : pc[k] # "idle" => W(k) \in Withdrawals
    BY <1>0, TaskRow
  <2>2. HeldHasRow' /\ PastReview' /\ PaidIsCleared'
    BY <1>0, <1>2, <1>3, <2>1
    DEF HeldHasRow, PastReview, PaidIsCleared, jobVars, W
  <2>3. QED BY <1>1, <1>2, <2>2 DEF EditInv, TypeOK
<1>4. ASSUME PayoutStep PROVE EditInv'
  <2>1. ASSUME NEW w \in Withdrawals, paid'[w] > 0 PROVE Cleared(w)
    <3>1. CASE paid' = paid BY <1>0, <2>1, <3>1 DEF PaidIsCleared
    <3>2. ASSUME NEW k \in Workers, GatewayAccepts(k) \/ GatewayAmbiguous(k)
          PROVE  Cleared(w)
      <4>1. Cleared(W(k)) BY <1>0, <3>2 DEF PastReview, GatewayAccepts,
              GatewayAmbiguous
      <4>2. w = W(k) \/ paid'[w] = paid[w]
        BY <1>0, <3>2 DEF GatewayAccepts, GatewayAmbiguous, JobTypeOK
      <4>3. QED BY <1>0, <2>1, <4>1, <4>2 DEF PaidIsCleared
    <3>3. QED
      BY <1>4, <3>1, <3>2
      DEF PayoutStep, QueueStep, CronScan, CronDispatch, LockLost, Backoff,
          Redeliver, WorkerStep, Handle, Send, PreCheck, HoldForReview,
          Claim, GatewayDeclines, GatewayUnreachable, Settle, FailAndRefund,
          Threw, DeadLetter, Ack, SettleThrows, Crash, Timeout, Pop
  <2>2. ASSUME NEW k \in Workers
        PROVE  /\ pc'[k] = "hold" => row'[W(k)'].status # "none"
               /\ pc'[k] \in {"claim", "send", "accepted", "declined"}
                    => Cleared(W(k))'
    <3>1. pc[k] # "idle" => W(k) \in Withdrawals BY <1>0, TaskRow
    <3>2. CASE pc'[k] = pc[k] /\ W(k)' = W(k)
      BY <1>0, <1>2, <3>1, <3>2
      DEF HeldHasRow, PastReview, Cleared, JobTypeOK, PCs
    <3>3. CASE PreCheck(k)
      BY <1>0, <1>2, <3>1, <3>3
      DEF PreCheck, Goto, W, Cleared, JobTypeOK, InFlight
    <3>4. CASE Claim(k) \/ Send(k) \/ GatewayAmbiguous(k)
      <4>1. /\ pc[k] \in {"claim", "send"} /\ W(k)' = W(k)
            /\ pc'[k] # "hold"
        BY <1>0, <3>4
        DEF Claim, Send, GatewayAccepts, GatewayDeclines, GatewayUnreachable,
            GatewayAmbiguous, Goto, W, JobTypeOK
      <4>2. Cleared(W(k)) BY <1>0, <4>1 DEF PastReview
      <4>3. QED BY <1>2, <3>1, <4>1, <4>2 DEF Cleared
    <3>5. CASE pc'[k] \in {"idle", "precheck", "ack", "dead", "threw"}
      BY <3>5
    <3>6. QED
      BY ZenonT(60), <1>0, <1>4, <3>2, <3>3, <3>4, <3>5
      DEF PayoutStep, QueueStep, CronScan, CronDispatch, LockLost, Backoff,
          Redeliver, WorkerStep, Handle, Send, PreCheck, HoldForReview,
          Claim, GatewayAccepts, GatewayAmbiguous, GatewayDeclines,
          GatewayUnreachable, Settle, FailAndRefund, Threw, DeadLetter, Ack,
          SettleThrows, Crash, Timeout, Pop, Goto, Free, W, JobTypeOK
  <2>3. HeldHasRow' /\ PastReview' /\ PaidIsCleared'
    BY <1>2, <2>1, <2>2 DEF HeldHasRow, PastReview, PaidIsCleared
  <2>4. QED BY <1>1, <1>2, <2>3 DEF EditInv, TypeOK
<1>5. QED BY <1>3, <1>4 DEF EditNext, Next, TableStep, vars

LEMMA EditInvariant == EditSpec => []EditInv
<1>1. Init => EditInv
  BY InitInv
  DEF Init, TableInit, JobInit, TableInv, EditInv, TypeOK, JobTypeOK,
      RequestHasNoRow, HeldHasRow, PastReview, PaidIsCleared, Cleared, PCs,
      JobStates, NoJob
<1>2. QED BY <1>1, EditStepInv, PTL DEF EditSpec

(* Every variable keeps its type, with the edit form in use or not.         *)
THEOREM JobTypeCorrect == EditSpec => []TypeOK
BY EditInvariant, PTL DEF EditInv

(* The balance of every user is explained by the ledger even while the edit *)
(* form is in use: it moves statuses, never money, and a refund row keeps a *)
(* withdrawal that was moved back from being returned twice.                *)
THEOREM EditedBooksBalance == EditSpec => []BalanceMatchesLedger
<1>1. Init => BookedInv BY BooksOpen DEF Init
<1>2. EditInv /\ BookedInv /\ [EditNext]_vars => BookedInv'
  BY EditActs, BooksStep DEF EditInv, TypeOK
<1>3. BookedInv => BalanceMatchesLedger BY DEF BookedInv, BooksInv
<1>4. QED BY <1>1, <1>2, <1>3, EditInvariant, PTL DEF EditSpec

(* No withdrawal that waits for a review is paid, whatever was scanned,     *)
(* dispatched or claimed before, and whatever status the edit form gives    *)
(* it: the flag is set with the row and the precheck sees it.               *)
THEOREM ReviewPrecedesPayment == EditSpec => []ReviewedBeforePaid
<1>1. EditInv => ReviewedBeforePaid
  BY DEF EditInv, PaidIsCleared, Cleared, ReviewedBeforePaid, TypeOK,
     JobTypeOK
<1>2. QED BY <1>1, EditInvariant, PTL

----------------------------------------------------------------------------
(* Without the edit form.                                                   *)

(* A row in flight needs no review, so handle() never writes `hold`.        *)
NoneHeld == \A k \in Workers : pc[k] # "hold"

AcceptedIsPaid == \A k \in Workers : pc[k] = "accepted" => paid[W(k)] > 0

JobInv == TableInv /\ JobTypeOK /\ NoneHeld

LEMMA HoldIsIdle ==
  ASSUME JobInv, PayoutStep
  PROVE  JobTables /\ NoneHeld'
<1>0. TableTypeOK /\ JobTypeOK /\ HeldHasRow /\ ReviewMeansHold
  BY DEF JobInv, TableInv, NoneHeld, HeldHasRow
<1>1. \A k \in Workers : ~ HoldForReview(k)
  BY DEF JobInv, NoneHeld, HoldForReview
<1>2. ASSUME NEW k \in Workers, PreCheck(k) PROVE pc'[k] # "hold"
  <2>1. W(k) \in Withdrawals BY <1>0, <1>2, TaskRow DEF PreCheck
  <2>2. QED
    BY <1>0, <1>2, <2>1 DEF PreCheck, Goto, ReviewMeansHold, JobTypeOK
<1>3. ASSUME NEW k \in Workers PROVE pc'[k] # "hold"
  BY ZenonT(60), <1>0, <1>1, <1>2
  DEF JobInv, NoneHeld, PayoutStep, QueueStep, CronScan, CronDispatch,
      LockLost, Backoff, Redeliver, WorkerStep, Handle, Send, PreCheck,
      Claim, GatewayAccepts, GatewayAmbiguous, GatewayDeclines,
      GatewayUnreachable, Settle, FailAndRefund, Threw, DeadLetter, Ack,
      SettleThrows, Crash, Timeout, Pop, Goto, Free, JobTypeOK
<1>4. JobTables BY <1>0, <1>1, PayoutTables
<1>5. QED BY <1>3, <1>4 DEF NoneHeld

LEMMA JobStepInv ==
  JobInv /\ [Next]_vars => JobInv' /\ [TableNext]_tableVars
<1> SUFFICES ASSUME JobInv, [Next]_vars
    PROVE  JobInv' /\ [TableNext]_tableVars
  OBVIOUS
<1>1. [TableNext]_tableVars /\ NoneHeld' /\ JobTypeOK'
  <2>1. CASE PayoutStep
    BY <2>1, HoldIsIdle, JobTypes DEF JobInv, JobTables, TableNext
  <2>2. CASE ~ PayoutStep
    BY <2>2
    DEF JobInv, NoneHeld, Next, TableStep, TableNext, vars, jobVars,
        JobTypeOK
  <2>3. QED BY <2>1, <2>2
<1>2. TableInv' BY <1>1, StepInv DEF JobInv
<1>3. QED BY <1>1, <1>2 DEF JobInv

LEMMA JobInvariant == Spec => []JobInv
<1>1. Init => JobInv
  BY InitInv DEF Init, JobInit, JobInv, JobTypeOK, NoneHeld, PCs, JobStates,
     NoJob
<1>2. QED BY <1>1, JobStepInv, PTL DEF Spec

(* Each step of the job is one of the transactions of the tables or leaves  *)
(* them alone, whatever faults there are: what WithdrawalTable_proofs says  *)
(* of every behaviour of the tables holds of the job.                       *)
THEOREM JobStaysOnTables == Spec => TablesOnly
<1>1. Init => TableInit BY DEF Init
<1>2. QED BY <1>1, JobStepInv, JobInvariant, PTL DEF Spec, TablesOnly, TableSpec

(* The books of WithdrawalTable: a refund is given once and where the       *)
(* status says, the balance is the ledger's, the total withdrawn counts     *)
(* each payout once.                                                        *)
Books == RefundMatchesStatus /\ BalanceMatchesLedger /\ TotalWithdrawnMatches

LEMMA TableBooks == TableSpec => []Books
<1>1. RefundMatchesStatus /\ BalanceMatchesLedger /\ TotalWithdrawnMatches
        => Books
  BY DEF Books
<1>2. QED BY <1>1, RefundsMatch, BooksBalance, TotalsCount, PTL

(* The books are kept by the job, whatever faults there are; what is        *)
(* settled stays so, and no balance goes below zero while a user has one    *)
(* request in flight at a time.                                             *)
THEOREM JobKeepsBooks ==
  Spec => /\ []Books /\ TerminalIsFinal /\ KeepsPromise
          /\ ~ ConcurrentRequests => []BalanceNonNegative
BY JobStaysOnTables, TableBooks, TerminalStays, PromiseKept, BalanceCovers
DEF TablesOnly

(* How a row gets to be sent, and a transfer to be made.                    *)
LEMMA SentBySettle ==
  ASSUME JobInv, PayoutStep, NEW w \in Withdrawals,
         row'[w].status \in {"broadcast", "sent"}
  PROVE  \/ row[w].status \in {"broadcast", "sent"}
         \/ \E k \in Workers : Settle(k) /\ pc[k] = "accepted" /\ W(k) = w
<1>0. /\ row \in [Withdrawals -> Row]
      /\ \A k \in Workers : pc[k] # "idle" => W(k) \in Withdrawals
  BY TaskRow DEF JobInv, TableInv, TableTypeOK
<1>1. CASE UNCHANGED row BY <1>1
<1>2. ASSUME NEW k \in Workers, Settle(k)
      PROVE  row'[w] = row[w] \/ W(k) = w
  BY <1>0, <1>2 DEF Settle, SettleSent, SettleUnguarded, tableVars
<1>3. ASSUME NEW k \in Workers, pc[k] # "idle", RefundOrSkip(W(k))
      PROVE  row'[w].status = row[w].status \/ row'[w].status = "failed"
  BY ZenonT(60), <1>0, <1>3
  DEF RefundOrSkip, MarkFailedAndRefund, FailUnguarded, ReturnFunds,
      tableVars
<1>4. ASSUME NEW k \in Workers, Claim(k)
      PROVE  row'[w].status = row[w].status \/ row'[w].status = "processing"
  BY <1>0, <1>4 DEF Claim, ClaimRow, tableVars
<1>5. \A k \in Workers : ~ HoldForReview(k)
  BY DEF JobInv, NoneHeld, HoldForReview
<1>6. CASE QueueStep
  BY <1>1, <1>6 DEF QueueStep, CronScan, CronDispatch, LockLost, Backoff,
     Redeliver, tableVars
<1>7. ASSUME NEW k \in Workers, WorkerStep(k)
      PROVE  \/ row[w].status \in {"broadcast", "sent"}
             \/ Settle(k) /\ pc[k] = "accepted" /\ W(k) = w
  <2>1. CASE Settle(k) BY <1>2, <2>1 DEF Settle
  <2>2. CASE FailAndRefund(k) \/ DeadLetter(k)
    BY <1>1, <1>3, <2>2 DEF FailAndRefund, DeadLetter, tableVars
  <2>3. CASE Claim(k) BY <1>4, <2>3
  <2>4. QED
    BY <1>1, <1>5, <1>7, <2>1, <2>2, <2>3
    DEF WorkerStep, Handle, Send, PreCheck, GatewayAccepts, GatewayDeclines,
        GatewayUnreachable, Threw, Ack, GatewayAmbiguous, SettleThrows,
        Crash, Timeout, Pop, tableVars
<1>8. QED BY <1>6, <1>7 DEF PayoutStep

SentInv == JobInv /\ AcceptedIsPaid /\ SentMeansPaid

LEMMA SentStepInv == SentInv /\ [Next]_vars => SentInv'
<1> SUFFICES ASSUME SentInv, [Next]_vars PROVE SentInv'
  OBVIOUS
<1>0. /\ JobInv /\ JobInv' /\ JobTypeOK /\ JobTypeOK'
      /\ row \in [Withdrawals -> Row]
      /\ AcceptedIsPaid /\ SentMeansPaid
  BY JobStepInv DEF SentInv, JobInv, TableInv, TableTypeOK
<1>1. CASE UNCHANGED vars
  BY <1>0, <1>1 DEF SentInv, AcceptedIsPaid, SentMeansPaid, vars, tableVars,
     jobVars, W
<1>2. CASE TableStep
  <2>1. ASSUME NEW w \in Withdrawals, row'[w].status \in {"broadcast", "sent"}
        PROVE  row[w].status \in {"broadcast", "sent"}
    <3>1. ASSUME NEW v \in Withdrawals, RequestCommit(v) \/ Approve(v)
          PROVE  row'[w] = row[w] \/ row'[w].status \in {"hold", "queued"}
      BY ZenonT(60), <1>0, <3>1 DEF RequestCommit, Approve
    <3>2. ASSUME NEW v \in Withdrawals, Reject(v)
          PROVE  row'[w] = row[w] \/ row'[w].status = "rejected"
      BY <1>0, <3>2 DEF Reject, ReturnFunds
    <3>3. CASE UNCHANGED row BY <2>1, <3>3
    <3>4. QED
      BY <1>2, <2>1, <3>1, <3>2, <3>3
      DEF TableStep, UserStep, AdminStep, RequestCheck, RequestAbort
  <2>2. QED
    BY <1>0, <1>2, <2>1
    DEF TableStep, jobVars, SentInv, AcceptedIsPaid, SentMeansPaid, W
<1>3. CASE PayoutStep
  <2>1. ASSUME NEW w \in Withdrawals
        PROVE  paid'[w] >= paid[w] /\ paid[w] \in Nat /\ paid'[w] \in Nat
    <3>1. paid'[w] \in {paid[w], paid[w] + 1}
      BY ZenonT(60), <1>0, <1>3
      DEF PayoutStep, QueueStep, CronScan, CronDispatch, LockLost, Backoff,
          Redeliver, WorkerStep, Handle, Send, PreCheck, HoldForReview,
          Claim, GatewayAccepts, GatewayAmbiguous, GatewayDeclines,
          GatewayUnreachable, Settle, FailAndRefund, Threw, DeadLetter, Ack,
          SettleThrows, Crash, Timeout, Pop, JobTypeOK
    <3>2. QED BY <1>0, <3>1 DEF JobTypeOK
  <2>2. SentMeansPaid'
    <3>1. ASSUME NEW w \in Withdrawals,
                 row'[w].status \in {"broadcast", "sent"}
          PROVE  paid[w] > 0
      BY <1>0, <1>3, <3>1, SentBySettle DEF SentMeansPaid, AcceptedIsPaid
    <3>2. QED BY <2>1, <3>1 DEF SentMeansPaid
  <2>3. ASSUME NEW k \in Workers, pc'[k] = "accepted"
        PROVE  paid'[W(k)'] > 0
    <3>1. CASE pc[k] = "accepted" /\ W(k)' = W(k)
      <4>1. W(k) \in Withdrawals BY <1>0, <3>1, TaskRow
      <4>2. QED BY <1>0, <2>1, <3>1, <4>1 DEF AcceptedIsPaid
    <3>2. CASE GatewayAccepts(k)
      <4>1. W(k) \in Withdrawals /\ W(k)' = W(k)
        BY <1>0, <3>2, TaskRow DEF GatewayAccepts, W
      <4>2. paid[W(k)] \in Nat /\ paid'[W(k)] = paid[W(k)] + 1
        BY <1>0, <3>2, <4>1 DEF GatewayAccepts, JobTypeOK
      <4>3. QED BY <4>1, <4>2
    <3>3. ASSUME NEW j \in Workers, j # k, WorkerStep(j)
          PROVE  pc'[k] = pc[k] /\ W(k)' = W(k)
      BY <1>0, <3>3
      DEF WorkerStep, Handle, Send, PreCheck, HoldForReview,
          Claim, GatewayAccepts, GatewayAmbiguous, GatewayDeclines,
          GatewayUnreachable, Settle, FailAndRefund, Threw, DeadLetter, Ack,
          SettleThrows, Crash, Timeout, Pop, Goto, Free, W, JobTypeOK
    <3>4. CASE WorkerStep(k)
      BY <1>0, <2>3, <3>2, <3>4
      DEF WorkerStep, Handle, Send, PreCheck, HoldForReview,
          Claim, GatewayAccepts, GatewayAmbiguous, GatewayDeclines,
          GatewayUnreachable, Settle, FailAndRefund, Threw, DeadLetter, Ack,
          SettleThrows, Crash, Timeout, Pop, Goto, Free, JobTypeOK
    <3>5. CASE QueueStep
      BY <2>3, <3>1, <3>5 DEF QueueStep, CronScan, CronDispatch, LockLost,
         Backoff, Redeliver, W
    <3>6. QED
      BY <1>3, <2>3, <3>1, <3>3, <3>4, <3>5 DEF PayoutStep
  <2>4. QED BY <1>0, <2>2, <2>3 DEF SentInv, AcceptedIsPaid
<1>4. QED BY <1>1, <1>2, <1>3 DEF Next

(* A withdrawal that is shown as broadcast or sent was handed to the        *)
(* gateway, although its worker may have been another, or died since.       *)
THEOREM SentIsPaid == Spec => []SentMeansPaid
<1>1. Init => SentInv
  BY InitInv DEF Init, TableInit, JobInit, SentInv, JobInv, JobTypeOK,
     NoneHeld, AcceptedIsPaid, SentMeansPaid, PCs, JobStates, NoJob
<1>2. SentInv => SentMeansPaid BY DEF SentInv
<1>3. QED BY <1>1, <1>2, SentStepInv, PTL DEF Spec

----------------------------------------------------------------------------
(* While nothing has failed.                                                *)

AfterClaim == {"processing", "broadcast", "sent", "failed"}
Begun(w) == row[w].status \in AfterClaim
Busy(k) == pc[k] \notin {"idle", "dead"}
InUse(e) == jobs[e].state # "none"

(* An envelope that is reserved is in the hands of one worker.              *)
HeldByOne ==
    /\ \A e \in Envelopes : jobs[e].state = "reserved" =>
          \E k \in Workers : Busy(k) /\ task[k] = e
    /\ \A k \in Workers : Busy(k) => jobs[task[k]].state = "reserved"
    /\ \A j, k \in Workers : Busy(j) /\ Busy(k) /\ task[j] = task[k] => j = k

(* The unique lock is held as long as the withdrawal has an envelope, and   *)
(* there is no other.                                                       *)
OneEnvelope ==
    /\ \A e \in Envelopes : InUse(e) => lock[e[1]]
    /\ \A d, e \in Envelopes : InUse(d) /\ InUse(e) /\ d[1] = e[1] => d = e
TriesLeft ==
    \A e \in Envelopes :
        /\ jobs[e].state \in {"ready", "delayed"} => jobs[e].attempts < MaxTries
        /\ jobs[e].state = "reserved" => jobs[e].attempts >= 1

(* What is tried again was claimed before, and no cron tick that saw it     *)
(* queued is still running: the backoff outlasts it.                        *)
Retried(e) ==
    \/ jobs[e].attempts >= 2
    \/ jobs[e].state = "ready" /\ jobs[e].attempts >= 1
RetriedIsBegun ==
    \A e \in Envelopes :
        /\ jobs[e].state = "delayed" => Begun(e[1]) /\ jobs[e].attempts >= 1
        /\ Retried(e) => Begun(e[1]) /\ e[1] \notin scan

(* When failed() runs, nothing else works on the withdrawal or will.        *)
DeadIsLast ==
    \A k \in Workers : pc[k] = "dead" =>
        /\ W(k) \notin scan
        /\ \A e \in Envelopes : e[1] = W(k) => ~ InUse(e)
        /\ \A j \in Workers : pc[j] # "idle" /\ W(j) = W(k) => j = k
SendsUnpaid ==
    \A k \in Workers :
        /\ pc[k] \in {"send", "accepted", "declined", "threw", "dead"}
             => row[W(k)].status = "processing"
        /\ pc[k] \in {"send", "declined", "threw", "dead"} => paid[W(k)] = 0
(* A transfer is on its way into the row or in it; a row that failed with   *)
(* one is the watcher's, which WithdrawalSystem adds.                       *)
PaidIsAccounted ==
    \A w \in Withdrawals : paid[w] > 0 =>
        \/ row[w].status \in {"broadcast", "sent", "failed"}
        \/ \E k \in Workers : pc[k] = "accepted" /\ W(k) = w

Quiet == /\ HeldByOne /\ OneEnvelope /\ TriesLeft /\ RetriedIsBegun
         /\ DeadIsLast /\ SendsUnpaid /\ PaidIsAccounted
QuietInv == faults = 0 => Quiet

(* What keeps the transfers and the rows in step.                           *)
Accounts == SendsUnpaid /\ PaidIsAccounted

QuietType == /\ JobTypeOK /\ JobTypeOK'
             /\ row \in [Withdrawals -> Row] /\ row' \in [Withdrawals -> Row]

(* A withdrawal is in the hands of one worker.                              *)
LEMMA Alone ==
  ASSUME JobTypeOK, Quiet, NEW j \in Workers, NEW k \in Workers,
         pc[j] # "idle", pc[k] # "idle", W(j) = W(k)
  PROVE  j = k
<1>1. CASE pc[j] = "dead" \/ pc[k] = "dead"
  BY <1>1 DEF Quiet, DeadIsLast
<1>2. CASE Busy(j) /\ Busy(k)
  <2>1. /\ task[j] \in Envelopes /\ task[j][1] = W(j)
        /\ task[k] \in Envelopes /\ task[k][1] = W(k)
    BY TaskRow
  <2>2. InUse(task[j]) /\ InUse(task[k])
    BY <1>2 DEF Quiet, HeldByOne, InUse
  <2>3. task[j] = task[k]
    BY <2>1, <2>2 DEF Quiet, OneEnvelope
  <2>4. QED BY <1>2, <2>3 DEF Quiet, HeldByOne
<1>3. QED BY <1>1, <1>2 DEF Busy

(* A step of handle() between taking the envelope and giving it back: what  *)
(* it does to the row and the transfers of its withdrawal, and to no other. *)
Inner(k, label) ==
    /\ Busy(k)
    /\ pc' = [pc EXCEPT ![k] = label]
    /\ UNCHANGED <<scan, lock, jobs, task>>
    /\ \A w \in Withdrawals : w # W(k) =>
          row'[w].status = row[w].status /\ paid'[w] = paid[w]
    /\ Begun(W(k)) => row'[W(k)].status \in AfterClaim
    /\ label \in {"send", "accepted", "declined", "threw"}
          => row'[W(k)].status = "processing"
    /\ label \in {"send", "declined", "threw"} => paid'[W(k)] = 0
    /\ paid'[W(k)] > 0 =>
          \/ row'[W(k)].status \in {"broadcast", "sent", "failed"}
          \/ label = "accepted"

LEMMA InnerQuiet ==
  ASSUME QuietType, Quiet, NEW k \in Workers,
         NEW label \in PCs \ {"idle", "dead"}, Inner(k, label)
  PROVE  Quiet'
<1> USE DEF Inner
<1>0. /\ JobTypeOK /\ W(k) \in Withdrawals
      /\ \A j \in Workers : W(j)' = W(j)
      /\ \A j \in Workers : pc'[j] = IF j = k THEN label ELSE pc[j]
      /\ \A j \in Workers :
           pc[j] # "idle" => W(j) \in Withdrawals /\ (W(j) = W(k) => j = k)
  BY TaskRow, Alone DEF QuietType, Busy, W, JobTypeOK
<1>1. \A j \in Workers : Busy(j)' <=> Busy(j) BY <1>0 DEF Busy
<1>2. HeldByOne' BY <1>1 DEF Quiet, HeldByOne
<1>3. OneEnvelope' /\ TriesLeft'
  BY DEF Quiet, OneEnvelope, TriesLeft, InUse
<1>4. RetriedIsBegun'
  <2>1. \A e \in Envelopes : e[1] \in Withdrawals /\ (Begun(e[1]) => Begun(e[1])')
    <3>1. \A w \in Withdrawals : Begun(w) => row'[w].status \in AfterClaim
      BY <1>0 DEF Begun
    <3>2. QED BY <3>1 DEF Envelopes, Begun
  <2>2. QED BY <2>1 DEF Quiet, RetriedIsBegun, Retried
<1>5. DeadIsLast'
  <2>1. \A j \in Workers :
          /\ pc'[j] = "dead" <=> pc[j] = "dead"
          /\ pc'[j] # "idle" <=> pc[j] # "idle"
    BY <1>0 DEF Busy
  <2>2. QED BY <1>0, <2>1 DEF Quiet, DeadIsLast, InUse
<1>6. SendsUnpaid'
  <2> SUFFICES ASSUME NEW j \in Workers
      PROVE  /\ pc'[j] \in {"send", "accepted", "declined", "threw", "dead"}
                  => row'[W(j)].status = "processing"
             /\ pc'[j] \in {"send", "declined", "threw", "dead"}
                  => paid'[W(j)] = 0
    BY <1>0 DEF SendsUnpaid
  <2>1. CASE j = k BY <1>0, <2>1
  <2>2. CASE j # k BY <1>0, <2>2 DEF Quiet, SendsUnpaid
  <2>3. QED BY <2>1, <2>2
<1>7. PaidIsAccounted'
  <2> SUFFICES ASSUME NEW w \in Withdrawals, paid'[w] > 0
      PROVE  \/ row'[w].status \in {"broadcast", "sent", "failed"}
             \/ \E j \in Workers : pc'[j] = "accepted" /\ W(j) = w
    BY <1>0 DEF PaidIsAccounted
  <2>1. CASE w = W(k) BY <1>0, <2>1
  <2>2. CASE w # W(k) BY <1>0, <2>2 DEF Quiet, PaidIsAccounted
  <2>3. QED BY <2>1, <2>2
<1>8. QED BY <1>2, <1>3, <1>4, <1>5, <1>6, <1>7 DEF Quiet

(* A worker that is done: with its envelope, or with its dead letter.       *)
LEMMA DoneQuiet ==
  ASSUME QuietType, Quiet, NEW k \in Workers, pc[k] \in {"ack", "dead"},
         Free(k), UNCHANGED <<scan, paid>>,
         \/ pc[k] = "ack" /\ Delete(task[k])
         \/ pc[k] = "dead" /\ UNCHANGED <<lock, jobs>>,
         \A w \in Withdrawals : w # W(k) => row'[w].status = row[w].status,
         Begun(W(k)) => row'[W(k)].status \in AfterClaim,
         pc[k] = "ack" => row' = row
  PROVE  Quiet'
<1>0. /\ JobTypeOK /\ W(k) \in Withdrawals
      /\ task[k] \in Envelopes /\ task[k][1] = W(k)
      /\ \A j \in Workers :
           /\ j # k => W(j)' = W(j) /\ task'[j] = task[j]
           /\ pc'[j] = IF j = k THEN "idle" ELSE pc[j]
      /\ \A j \in Workers :
           pc[j] # "idle" => W(j) \in Withdrawals /\ (W(j) = W(k) => j = k)
  BY TaskRow, Alone DEF QuietType, W, JobTypeOK, Free, Goto
<1>1. \A e \in Envelopes :
        /\ jobs'[e] = jobs[e] \/ (e = task[k] /\ jobs'[e] = NoJob)
        /\ pc[k] = "ack" => jobs'[task[k]] = NoJob
        /\ InUse(e)' => lock'[e[1]]
  <2>1. CASE pc[k] = "dead"
    BY <2>1 DEF Quiet, OneEnvelope, InUse
  <2>2. CASE pc[k] = "ack"
    <3>1. /\ \A e \in Envelopes :
                jobs'[e] = IF e = task[k] THEN NoJob ELSE jobs[e]
          /\ \A w \in Withdrawals :
                lock'[w] = IF w = W(k) THEN FALSE ELSE lock[w]
      <4>1. /\ jobs' = [jobs EXCEPT ![task[k]] = NoJob]
            /\ lock' = [lock EXCEPT ![W(k)] = FALSE]
        BY <1>0, <2>2 DEF Delete
      <4>2. DOMAIN jobs = Envelopes /\ DOMAIN lock = Withdrawals
        BY <1>0 DEF JobTypeOK
      <4>3. QED BY <1>0, <4>1, <4>2
    <3>2. InUse(task[k]) BY <2>2 DEF Quiet, HeldByOne, Busy, InUse
    <3>3. ASSUME NEW e \in Envelopes, InUse(e)' PROVE lock'[e[1]]
      <4>1. e # task[k] /\ InUse(e) BY <3>1, <3>3 DEF InUse, NoJob
      <4>2. e[1] # W(k) BY <1>0, <3>2, <4>1 DEF Quiet, OneEnvelope
      <4>3. e[1] \in Withdrawals BY DEF Envelopes
      <4>4. QED BY <3>1, <4>1, <4>2, <4>3 DEF Quiet, OneEnvelope
    <3>4. QED BY <1>0, <3>1, <3>3
  <2>3. QED BY <2>1, <2>2
<1>2. HeldByOne'
  <2>1. \A j \in Workers : Busy(j)' <=> Busy(j) /\ j # k
    BY <1>0 DEF Busy
  <2>2. ASSUME NEW e \in Envelopes, jobs'[e].state = "reserved"
        PROVE  \E j \in Workers : Busy(j)' /\ task'[j] = e
    <3>1. jobs[e].state = "reserved" BY <1>1, <2>2 DEF NoJob
    <3>2. PICK j \in Workers : Busy(j) /\ task[j] = e
      BY <3>1 DEF Quiet, HeldByOne
    <3>3. j # k
      BY <1>1, <2>2, <3>2 DEF NoJob, Busy
    <3>4. QED BY <1>0, <2>1, <3>2, <3>3
  <2>3. ASSUME NEW j \in Workers, Busy(j)'
        PROVE  jobs'[task'[j]].state = "reserved"
    <3>1. Busy(j) /\ j # k /\ task'[j] = task[j] BY <1>0, <2>1, <2>3
    <3>2. task[j] \in Envelopes /\ task[j][1] = W(j)
      BY <1>0, <3>1, TaskRow DEF Busy
    <3>3. task[j] # task[k] BY <1>0, <3>1, <3>2 DEF Busy
    <3>4. QED BY <1>1, <3>1, <3>2, <3>3 DEF Quiet, HeldByOne
  <2>4. \A i, j \in Workers :
          Busy(i)' /\ Busy(j)' /\ task'[i] = task'[j] => i = j
    BY <1>0, <2>1 DEF Quiet, HeldByOne
  <2>5. QED BY <2>2, <2>3, <2>4 DEF HeldByOne
<1>3. OneEnvelope'
  BY <1>1 DEF Quiet, OneEnvelope, InUse, NoJob
<1>4. TriesLeft' BY <1>1 DEF Quiet, TriesLeft, NoJob
<1>5. RetriedIsBegun'
  <2>1. \A e \in Envelopes : e[1] \in Withdrawals /\ (Begun(e[1]) => Begun(e[1])')
    <3>1. \A w \in Withdrawals : Begun(w) => row'[w].status \in AfterClaim
      BY <1>0 DEF Begun
    <3>2. QED BY <3>1 DEF Envelopes, Begun
  <2>2. QED BY <1>1, <2>1 DEF Quiet, RetriedIsBegun, Retried, NoJob
<1>6. DeadIsLast'
  <2>1. \A e \in Envelopes : InUse(e)' => InUse(e)
    BY <1>1 DEF InUse, NoJob
  <2>2. QED BY <1>0, <2>1 DEF Quiet, DeadIsLast
<1>7. SendsUnpaid'
  BY <1>0 DEF Quiet, SendsUnpaid
<1>8. PaidIsAccounted'
  <2>1. paid' = paid /\ pc[k] # "accepted" OBVIOUS
  <2>2. ASSUME NEW w \in Withdrawals, paid'[w] > 0
        PROVE  \/ row'[w].status \in {"broadcast", "sent", "failed"}
               \/ \E j \in Workers : pc'[j] = "accepted" /\ W(j)' = w
    <3>1. CASE \E j \in Workers : pc[j] = "accepted" /\ W(j) = w
      BY <1>0, <2>1, <3>1
    <3>2. CASE row[w].status \in {"broadcast", "sent", "failed"}
      <4>1. w = W(k) => pc[k] = "ack"
        BY <3>2 DEF Quiet, SendsUnpaid
      <4>2. QED BY <3>2, <4>1
    <3>3. QED BY <2>1, <2>2, <3>1, <3>2 DEF Quiet, PaidIsAccounted
  <2>3. QED BY <2>2 DEF PaidIsAccounted
<1>9. QED BY <1>2, <1>3, <1>4, <1>5, <1>6, <1>7, <1>8 DEF Quiet

LEMMA PopQuiet ==
  ASSUME QuietType, Quiet, NEW k \in Workers, NEW e \in Envelopes, Pop(k, e)
  PROVE  Quiet'
<1>0. JobTypeOK /\ e[1] \in Withdrawals /\ row' = row
  BY DEF QuietType, Envelopes, Pop, tableVars
<1>1. /\ ~ TriesSpent(e)
      /\ jobs[e].state = "ready" /\ InUse(e)
      /\ jobs[e].attempts \in Nat /\ MaxTries \in Nat
  BY <1>0, DeletedTypes, TriesAssumption
  DEF Quiet, TriesLeft, TriesSpent, Pop, InUse
<1>2. /\ \A d \in Envelopes :
            jobs'[d] = IF d = e THEN [state |-> "reserved",
                                      attempts |-> jobs[e].attempts + 1]
                       ELSE jobs[d]
      /\ \A j \in Workers :
            /\ pc'[j] = IF j = k THEN "precheck" ELSE pc[j]
            /\ task'[j] = IF j = k THEN e ELSE task[j]
            /\ W(j)' = IF j = k THEN e[1] ELSE W(j)
      /\ pc[k] = "idle"
      /\ UNCHANGED <<scan, lock, paid>>
  BY <1>0, <1>1 DEF Pop, Goto, W, JobTypeOK
<1>3. \A j \in Workers : pc[j] # "idle" => W(j) # e[1]
  <2> SUFFICES ASSUME NEW j \in Workers, pc[j] # "idle", W(j) = e[1]
      PROVE  FALSE
    OBVIOUS
  <2>1. pc[j] # "dead" BY <1>1 DEF Quiet, DeadIsLast
  <2>2. /\ InUse(task[j]) /\ jobs[task[j]].state = "reserved"
        /\ task[j] \in Envelopes /\ task[j][1] = W(j)
    BY <1>0, <2>1, TaskRow DEF Quiet, HeldByOne, Busy, InUse
  <2>3. task[j] = e BY <1>1, <2>2 DEF Quiet, OneEnvelope
  <2>4. QED BY <1>1, <2>2, <2>3
<1>4. \A d \in Envelopes : InUse(d)' <=> InUse(d)
  BY <1>1, <1>2 DEF InUse
<1>5. \A j \in Workers : Busy(j)' <=> Busy(j) \/ j = k
  BY <1>2 DEF Busy
<1>6. \A j \in Workers :
        Busy(j) => /\ j # k /\ task[j] \in Envelopes
                   /\ task[j][1] = W(j) /\ task[j] # e
  BY <1>0, <1>2, <1>3, TaskRow DEF Busy
<1>7. HeldByOne'
  <2>1. \A d \in Envelopes : jobs'[d].state = "reserved" =>
          \E j \in Workers : Busy(j)' /\ task'[j] = d
    BY <1>2, <1>5, <1>6 DEF Quiet, HeldByOne
  <2>2. \A j \in Workers : Busy(j)' => jobs'[task'[j]].state = "reserved"
    BY <1>2, <1>5, <1>6 DEF Quiet, HeldByOne
  <2>3. \A i, j \in Workers :
          Busy(i)' /\ Busy(j)' /\ task'[i] = task'[j] => i = j
    BY <1>2, <1>5, <1>6 DEF Quiet, HeldByOne
  <2>4. QED BY <2>1, <2>2, <2>3 DEF HeldByOne
<1>8. OneEnvelope' BY <1>2, <1>4 DEF Quiet, OneEnvelope
<1>9. TriesLeft' BY <1>1, <1>2 DEF Quiet, TriesLeft
<1>10. RetriedIsBegun'
  <2>1. Retried(e)' => Retried(e) BY <1>1, <1>2 DEF Retried
  <2>2. \A d \in Envelopes : d # e => (Retried(d)' <=> Retried(d))
    BY <1>2 DEF Retried
  <2>3. \A d \in Envelopes : Begun(d[1])' <=> Begun(d[1])
    BY <1>0 DEF Begun
  <2>4. QED BY <1>2, <2>1, <2>2, <2>3 DEF Quiet, RetriedIsBegun
<1>11. DeadIsLast'
  BY <1>2, <1>3, <1>4 DEF Quiet, DeadIsLast
<1>12. SendsUnpaid' BY <1>0, <1>2 DEF Quiet, SendsUnpaid
<1>13. PaidIsAccounted' BY <1>0, <1>2 DEF Quiet, PaidIsAccounted
<1>14. QED
  BY <1>7, <1>8, <1>9, <1>10, <1>11, <1>12, <1>13 DEF Quiet

(* An exception that is not the last one: the envelope waits.               *)
LEMMA ReleaseQuiet ==
  ASSUME QuietType, Quiet, NEW k \in Workers, Threw(k), ~ TriesSpent(task[k])
  PROVE  Quiet'
<1> DEFINE e == task[k]
<1>0. /\ JobTypeOK /\ pc[k] = "threw" /\ Busy(k)
      /\ e \in Envelopes /\ e[1] = W(k) /\ W(k) \in Withdrawals
      /\ row' = row /\ UNCHANGED <<scan, lock, paid>>
  BY TaskRow DEF QuietType, Threw, Busy, tableVars
<1>1. /\ jobs[e].state = "reserved" /\ jobs[e].attempts \in Nat
      /\ jobs[e].attempts >= 1 /\ jobs[e].attempts < MaxTries
      /\ Begun(W(k))
  BY <1>0, DeletedTypes, TriesAssumption
  DEF Quiet, HeldByOne, TriesLeft, SendsUnpaid, TriesSpent, Begun, AfterClaim
<1>2. /\ \A d \in Envelopes :
            jobs'[d] = IF d = e THEN [jobs[e] EXCEPT !.state = "delayed"]
                       ELSE jobs[d]
      /\ jobs'[e].state = "delayed"
      /\ jobs'[e].attempts = jobs[e].attempts
  BY <1>0, <1>1 DEF Threw, JobTypeOK
<1>3. \A j \in Workers :
        /\ pc'[j] = IF j = k THEN "idle" ELSE pc[j]
        /\ j # k => task'[j] = task[j] /\ W(j)' = W(j)
  BY <1>0 DEF Threw, Free, Goto, W, JobTypeOK
<1> HIDE DEF e
<1>4. \A d \in Envelopes : InUse(d)' <=> InUse(d)
  BY <1>1, <1>2 DEF InUse
<1>5. \A j \in Workers :
        /\ Busy(j)' <=> Busy(j) /\ j # k
        /\ Busy(j) => task[j] \in Envelopes
        /\ Busy(j) /\ j # k => task[j] # e
  BY <1>0, <1>3, TaskRow DEF Busy, Quiet, HeldByOne, e
<1>6. HeldByOne'
  <2>1. \A d \in Envelopes : jobs'[d].state = "reserved" =>
          \E j \in Workers : Busy(j)' /\ task'[j] = d
    BY <1>2, <1>3, <1>5 DEF Quiet, HeldByOne, e
  <2>2. \A j \in Workers : Busy(j)' => jobs'[task'[j]].state = "reserved"
    BY <1>2, <1>3, <1>5 DEF Quiet, HeldByOne
  <2>3. \A i, j \in Workers :
          Busy(i)' /\ Busy(j)' /\ task'[i] = task'[j] => i = j
    BY <1>3, <1>5 DEF Quiet, HeldByOne
  <2>4. QED BY <2>1, <2>2, <2>3 DEF HeldByOne
<1>7. OneEnvelope' BY <1>0, <1>4 DEF Quiet, OneEnvelope
<1>8. TriesLeft' BY <1>1, <1>2 DEF Quiet, TriesLeft
<1>9. RetriedIsBegun'
  <2>1. \A d \in Envelopes : Retried(d)' => Retried(d)
    BY <1>2 DEF Retried
  <2>2. \A d \in Envelopes : Begun(d[1])' <=> Begun(d[1])
    BY <1>0 DEF Begun
  <2>3. QED
    BY <1>0, <1>1, <1>2, <2>1, <2>2 DEF Quiet, RetriedIsBegun
<1>10. DeadIsLast' BY <1>0, <1>3, <1>4 DEF Quiet, DeadIsLast
<1>11. SendsUnpaid' BY <1>0, <1>3 DEF Quiet, SendsUnpaid
<1>12. PaidIsAccounted' BY <1>0, <1>3 DEF Quiet, PaidIsAccounted
<1>13. QED BY <1>6, <1>7, <1>8, <1>9, <1>10, <1>11, <1>12 DEF Quiet

(* The last exception: the envelope and the lock go, failed() runs.         *)
LEMMA FailQuiet ==
  ASSUME MaxTries > 1, QuietType, Quiet, NEW k \in Workers, Threw(k),
         TriesSpent(task[k])
  PROVE  Quiet'
<1> DEFINE e == task[k]
<1>0. /\ JobTypeOK /\ pc[k] = "threw" /\ Busy(k)
      /\ e \in Envelopes /\ e[1] = W(k) /\ W(k) \in Withdrawals
      /\ row' = row /\ UNCHANGED <<scan, task, paid>>
      /\ \A j \in Workers : W(j)' = W(j)
      /\ \A j \in Workers :
           pc[j] # "idle" => W(j) \in Withdrawals /\ (W(j) = W(k) => j = k)
  BY TaskRow, Alone DEF QuietType, Threw, Busy, tableVars, W
<1>1. /\ jobs[e].state = "reserved" /\ InUse(e)
      /\ Retried(e) /\ W(k) \notin scan
  <2>1. jobs[e].attempts \in Nat /\ jobs[e].attempts >= MaxTries
    BY <1>0, DeletedTypes DEF TriesSpent
  <2>2. Retried(e) BY <2>1, TriesAssumption DEF Retried
  <2>3. QED
    BY <1>0, <2>2 DEF Quiet, HeldByOne, InUse, RetriedIsBegun
<1>2. /\ \A d \in Envelopes : jobs'[d] = IF d = e THEN NoJob ELSE jobs[d]
      /\ \A w \in Withdrawals :
            lock'[w] = IF w = W(k) THEN FALSE ELSE lock[w]
      /\ \A j \in Workers : pc'[j] = IF j = k THEN "dead" ELSE pc[j]
  <2>1. /\ jobs' = [jobs EXCEPT ![e] = NoJob]
        /\ lock' = [lock EXCEPT ![W(k)] = FALSE]
        /\ pc' = [pc EXCEPT ![k] = "dead"]
    BY <1>0 DEF Threw, Delete, Goto
  <2>2. /\ DOMAIN jobs = Envelopes /\ DOMAIN lock = Withdrawals
        /\ DOMAIN pc = Workers
    BY <1>0 DEF JobTypeOK
  <2> HIDE DEF e
  <2>3. QED BY <1>0, <2>1, <2>2
<1> HIDE DEF e
<1>3. \A d \in Envelopes :
        /\ InUse(d)' <=> InUse(d) /\ d # e
        /\ InUse(d) /\ d[1] = W(k) => d = e
        /\ d[1] \in Withdrawals
  BY <1>0, <1>1, <1>2 DEF InUse, NoJob, Quiet, OneEnvelope, Envelopes
<1>4. \A j \in Workers :
        /\ Busy(j)' <=> Busy(j) /\ j # k
        /\ Busy(j) => task[j] \in Envelopes
        /\ Busy(j) /\ j # k => task[j] # e
  BY <1>0, <1>2, TaskRow DEF Busy, Quiet, HeldByOne, e
<1>5. HeldByOne'
  <2>1. \A d \in Envelopes : jobs'[d].state = "reserved" =>
          \E j \in Workers : Busy(j)' /\ task'[j] = d
    BY <1>0, <1>2, <1>4 DEF Quiet, HeldByOne, NoJob, e
  <2>2. \A j \in Workers : Busy(j)' => jobs'[task'[j]].state = "reserved"
    BY <1>0, <1>2, <1>4 DEF Quiet, HeldByOne
  <2>3. \A i, j \in Workers :
          Busy(i)' /\ Busy(j)' /\ task'[i] = task'[j] => i = j
    BY <1>0, <1>4 DEF Quiet, HeldByOne
  <2>4. QED BY <2>1, <2>2, <2>3 DEF HeldByOne
<1>6. OneEnvelope' BY <1>2, <1>3 DEF Quiet, OneEnvelope
<1>7. TriesLeft' BY <1>2 DEF Quiet, TriesLeft, NoJob
<1>8. RetriedIsBegun'
  <2>1. \A d \in Envelopes : Retried(d)' => Retried(d)
    BY <1>2 DEF Retried, NoJob
  <2>2. \A d \in Envelopes : Begun(d[1])' <=> Begun(d[1])
    BY <1>0 DEF Begun
  <2>3. QED
    BY <1>0, <1>2, <2>1, <2>2 DEF Quiet, RetriedIsBegun, NoJob
<1>9. DeadIsLast'
  <2>1. \A j \in Workers :
          /\ pc'[j] = "dead" <=> pc[j] = "dead" \/ j = k
          /\ pc'[j] # "idle" <=> pc[j] # "idle"
    BY <1>0, <1>2
  <2> SUFFICES ASSUME NEW i \in Workers, pc'[i] = "dead"
      PROVE  /\ W(i) \notin scan
             /\ \A d \in Envelopes : d[1] = W(i) => ~ InUse(d)'
             /\ \A j \in Workers : pc'[j] # "idle" /\ W(j) = W(i) => j = i
    BY <1>0 DEF DeadIsLast
  <2>2. CASE i = k BY <1>0, <1>1, <1>3, <2>1, <2>2 DEF InUse
  <2>3. CASE i # k BY <1>3, <2>1, <2>3 DEF Quiet, InUse, DeadIsLast
  <2>4. QED BY <2>2, <2>3
<1>10. SendsUnpaid' BY <1>0, <1>2 DEF Quiet, SendsUnpaid
<1>11. PaidIsAccounted' BY <1>0, <1>2 DEF Quiet, PaidIsAccounted
<1>12. QED BY <1>5, <1>6, <1>7, <1>8, <1>9, <1>10, <1>11 DEF Quiet

(* The cron and the clocks of the queue.                                    *)
LEMMA QueueQuiet ==
  ASSUME QuietType, Quiet, QueueStep, faults' = faults
  PROVE  Quiet'
<1>0. /\ JobTypeOK /\ row' = row /\ UNCHANGED <<pc, task, paid>>
      /\ faults \in Nat
      /\ \A j \in Workers : W(j)' = W(j)
  BY DEF QuietType, JobTypeOK, QueueStep, CronScan, CronDispatch, LockLost,
     Backoff, Redeliver, tableVars, W
<1>1. \A j \in Workers : Busy(j)' <=> Busy(j) BY <1>0 DEF Busy
<1>2. SendsUnpaid' /\ PaidIsAccounted'
  BY <1>0 DEF Quiet, SendsUnpaid, PaidIsAccounted
<1>3. CASE CronScan
  <2>1. HeldByOne' /\ OneEnvelope' /\ TriesLeft'
    BY <1>0, <1>1, <1>3
    DEF CronScan, Quiet, HeldByOne, OneEnvelope, TriesLeft, InUse
  <2>2. \A w \in scan' : ~ Begun(w) /\ row[w].status = "queued"
    BY <1>3 DEF CronScan, Begun, AfterClaim
  <2>3. RetriedIsBegun'
    BY <1>0, <1>3, <2>2 DEF CronScan, Quiet, RetriedIsBegun, Retried, Begun
  <2>4. DeadIsLast'
    BY <1>0, <1>3, <2>2 DEF CronScan, Quiet, DeadIsLast, SendsUnpaid, InUse
  <2>5. QED BY <1>2, <2>1, <2>3, <2>4 DEF Quiet
<1>4. ASSUME NEW w \in Withdrawals, CronDispatch(w) PROVE Quiet'
  <2>1. scan' = scan \ {w} /\ w \in scan BY <1>4 DEF CronDispatch
  <2>2. CASE UNCHANGED <<lock, jobs>>
    BY <1>0, <1>1, <1>2, <2>1, <2>2
    DEF Quiet, HeldByOne, OneEnvelope, TriesLeft, RetriedIsBegun, Retried,
        Begun, DeadIsLast, InUse
  <2>3. CASE ~ UNCHANGED <<lock, jobs>>
    <3>1. PICK s \in FreeSlots(w) :
            /\ ~ lock[w]
            /\ lock' = [lock EXCEPT ![w] = TRUE]
            /\ jobs' = [jobs EXCEPT ![<<w, s>>] =
                          [state |-> "ready", attempts |-> 0]]
      BY <1>4, <2>3 DEF CronDispatch, LockFree
    <3> DEFINE e == <<w, s>>
    <3>2. e \in Envelopes /\ e[1] = w BY DEF FreeSlots, Envelopes
    <3>3. /\ \A d \in Envelopes :
                jobs'[d] = IF d = e THEN [state |-> "ready", attempts |-> 0]
                           ELSE jobs[d]
          /\ \A v \in Withdrawals : lock'[v] = IF v = w THEN TRUE ELSE lock[v]
      BY <1>0, <3>1, <3>2 DEF JobTypeOK
    <3> HIDE DEF e
    <3>4. \A d \in Envelopes :
            /\ d[1] \in Withdrawals
            /\ InUse(d) => d[1] # w
            /\ InUse(d)' <=> InUse(d) \/ d = e
      BY <3>1, <3>3 DEF Quiet, OneEnvelope, InUse, Envelopes
    <3>5. ~ InUse(e) BY <3>2, <3>4
    <3>6. HeldByOne'
      <4>1. \A j \in Workers : Busy(j) => task[j] \in Envelopes /\ task[j] # e
        BY <1>0, <3>5, TaskRow DEF Quiet, HeldByOne, InUse, Busy
      <4>2. QED BY <1>0, <1>1, <3>3, <4>1 DEF Quiet, HeldByOne
    <3>7. OneEnvelope'
      <4>1. \A d \in Envelopes : InUse(d)' => lock'[d[1]]
        BY <3>2, <3>3, <3>4 DEF Quiet, InUse, OneEnvelope
      <4>2. ASSUME NEW c \in Envelopes, NEW d \in Envelopes,
                   InUse(c)', InUse(d)', c[1] = d[1]
            PROVE  c = d
        <5>1. (InUse(c) \/ c = e) /\ (InUse(d) \/ d = e)
          BY <3>4, <4>2 DEF InUse
        <5>2. QED BY <3>2, <3>4, <4>2, <5>1 DEF Quiet, OneEnvelope
      <4>3. QED BY <4>1, <4>2 DEF OneEnvelope
    <3>8. TriesLeft' BY <3>3, TriesAssumption DEF Quiet, TriesLeft
    <3>9. RetriedIsBegun'
      BY <1>0, <2>1, <3>3 DEF Quiet, RetriedIsBegun, Retried, Begun
    <3>10. DeadIsLast'
      <4>1. ASSUME NEW k \in Workers, pc[k] = "dead"
            PROVE  /\ W(k) \notin scan'
                   /\ \A d \in Envelopes : d[1] = W(k) => ~ InUse(d)'
        BY <2>1, <3>2, <3>4, <4>1 DEF Quiet, InUse, DeadIsLast
      <4>2. QED BY <1>0, <4>1 DEF Quiet, DeadIsLast
    <3>11. QED
      BY <1>2, <3>6, <3>7, <3>8, <3>9, <3>10 DEF Quiet
  <2>4. QED BY <2>2, <2>3
<1>5. \A w \in Withdrawals : ~ LockLost(w) BY <1>0 DEF LockLost, Fault
<1>6. ASSUME NEW e \in Envelopes, Backoff(e) PROVE Quiet'
  <2>1. /\ \A d \in Envelopes :
              /\ jobs'[d].attempts = jobs[d].attempts
              /\ jobs'[d].state = IF d = e THEN "ready" ELSE jobs[d].state
        /\ jobs[e].state = "delayed"
        /\ scan' = {} /\ lock' = lock
    BY <1>0, <1>6 DEF Backoff, JobTypeOK
  <2>2. \A d \in Envelopes : InUse(d)' <=> InUse(d)
    BY <2>1 DEF InUse
  <2>3. HeldByOne'
    <3>1. \A j \in Workers : Busy(j) => task[j] \in Envelopes
      BY <1>0, TaskRow DEF Busy
    <3>2. QED BY <1>0, <1>1, <2>1, <3>1 DEF Quiet, HeldByOne
  <2>4. OneEnvelope' BY <2>1, <2>2 DEF Quiet, OneEnvelope
  <2>5. TriesLeft' BY <2>1 DEF Quiet, TriesLeft
  <2>6. RetriedIsBegun'
    BY <1>0, <2>1 DEF Quiet, RetriedIsBegun, Retried, Begun
  <2>7. DeadIsLast' BY <1>0, <2>1, <2>2 DEF Quiet, DeadIsLast
  <2>8. QED BY <1>2, <2>3, <2>4, <2>5, <2>6, <2>7 DEF Quiet
<1>7. \A e \in Envelopes : ~ Redeliver(e)
  BY DEF Redeliver, Quiet, HeldByOne
<1>8. QED BY <1>3, <1>4, <1>5, <1>6, <1>7 DEF QueueStep

(* A step of others leaves a claimed row to its worker, and a broadcast row *)
(* to the watcher.                                                          *)
LEMMA TableQuiet ==
  ASSUME QuietType, Quiet, UNCHANGED jobVars,
         \A w \in Withdrawals : Begun(w) =>
             \/ row'[w].status = row[w].status
             \/ /\ row[w].status = "broadcast"
                /\ row'[w].status \in {"sent", "failed"}
  PROVE  Quiet'
<1>0. /\ JobTypeOK
      /\ UNCHANGED <<scan, lock, jobs, pc, task, paid>>
      /\ \A j \in Workers : W(j)' = W(j)
      /\ \A j \in Workers : pc[j] # "idle" => W(j) \in Withdrawals
  BY TaskRow DEF QuietType, jobVars, W
<1>1. \A w \in Withdrawals :
        row[w].status \in AfterClaim =>
            \/ row'[w].status = row[w].status
            \/ /\ row[w].status = "broadcast"
               /\ row'[w].status \in {"sent", "failed"}
  BY DEF Begun
<1>2. HeldByOne' /\ OneEnvelope' /\ TriesLeft' /\ DeadIsLast'
  BY <1>0
  DEF Quiet, HeldByOne, OneEnvelope, TriesLeft, DeadIsLast, Busy, InUse
<1>3. RetriedIsBegun'
  <2>1. \A e \in Envelopes : Begun(e[1]) => Begun(e[1])'
    BY <1>1 DEF Begun, AfterClaim, Envelopes
  <2>2. QED BY <1>0, <2>1 DEF Quiet, RetriedIsBegun, Retried
<1>4. SendsUnpaid'
  BY <1>0, <1>1 DEF Quiet, SendsUnpaid, AfterClaim
<1>5. PaidIsAccounted'
  BY <1>0, <1>1 DEF Quiet, PaidIsAccounted, AfterClaim
<1>6. QED BY <1>2, <1>3, <1>4, <1>5 DEF Quiet

(* What a worker that holds a withdrawal knows of its row and transfers.    *)
Knows(k) ==
    /\ pc[k] # "accepted" /\ paid[W(k)] > 0
         => row[W(k)].status \in {"broadcast", "sent", "failed"}
    /\ pc[k] \in {"send", "accepted", "declined"}
         => row[W(k)].status = "processing"
    /\ pc[k] \in {"send", "declined"} => paid[W(k)] = 0

InHandle(k) == \/ PreCheck(k) \/ Claim(k) \/ Send(k) \/ Settle(k)
               \/ FailAndRefund(k) \/ SettleThrows(k)

LEMMA HandleIsInner ==
  ASSUME QuietType, NEW k \in Workers, InHandle(k), Knows(k),
         ~ Fault("db_error")
  PROVE  \E label \in PCs \ {"idle", "dead"} : Inner(k, label)
<1>0. /\ Busy(k) /\ W(k) \in Withdrawals
      /\ paid \in [Withdrawals -> Nat] /\ row \in [Withdrawals -> Row]
  <2>1. pc[k] \notin {"idle", "dead"}
    BY DEF InHandle, PreCheck, Claim, Send, GatewayAccepts, GatewayDeclines,
       GatewayUnreachable, Settle, FailAndRefund, SettleThrows
  <2>2. QED BY <2>1, TaskRow DEF Busy, QuietType, JobTypeOK
<1>1. Knows(k) OBVIOUS
<1> USE DEF Knows
<1>2. CASE PreCheck(k)
  <2>1. PICK label \in {"ack", "hold", "claim"} :
          pc' = [pc EXCEPT ![k] = label]
    BY <1>2 DEF PreCheck, Goto
  <2>2. row' = row /\ UNCHANGED <<paid, scan, lock, jobs, task>>
        /\ pc[k] = "precheck"
    BY <1>2 DEF PreCheck, tableVars
  <2>3. QED
    BY <1>0, <1>1, <2>1, <2>2 DEF Inner, PCs, Begun
<1>3. CASE Claim(k)
  <2>1. UNCHANGED <<paid, scan, lock, jobs, task>> /\ pc[k] = "claim"
    BY <1>3 DEF Claim
  <2>2. CASE ClaimRow(W(k)) /\ Goto(k, "send")
    <3>1. \A w \in Withdrawals :
            row'[w].status = IF w = W(k) THEN "processing" ELSE row[w].status
      BY <1>0, <2>2 DEF ClaimRow
    <3>2. pc' = [pc EXCEPT ![k] = "send"] /\ paid'[W(k)] = 0
      BY <1>0, <1>1, <2>1, <2>2 DEF ClaimRow, Goto
    <3>3. /\ "send" \in PCs \ {"idle", "dead"}
          /\ row'[W(k)].status = "processing"
          /\ row'[W(k)].status \in AfterClaim
          /\ \A w \in Withdrawals : w # W(k) =>
                row'[w].status = row[w].status /\ paid'[w] = paid[w]
          /\ ~ paid'[W(k)] > 0
      BY <1>0, <2>1, <3>1, <3>2 DEF PCs, AfterClaim
    <3>4. QED BY <1>0, <2>1, <3>2, <3>3 DEF Inner
  <2>3. CASE Goto(k, "ack") /\ UNCHANGED tableVars
    <3>1. row' = row /\ pc' = [pc EXCEPT ![k] = "ack"]
      BY <2>3 DEF tableVars, Goto
    <3>2. QED BY <1>0, <1>1, <2>1, <3>1 DEF Inner, PCs, Begun
  <2>4. QED BY <1>3, <2>2, <2>3 DEF Claim
<1>4. CASE GatewayAccepts(k)
  <2>1. /\ pc[k] = "send" /\ row' = row
        /\ UNCHANGED <<scan, lock, jobs, task>>
        /\ pc' = [pc EXCEPT ![k] = "accepted"]
        /\ \A w \in Withdrawals : w # W(k) => paid'[w] = paid[w]
    BY <1>0, <1>4 DEF GatewayAccepts, tableVars, Goto
  <2>2. QED BY <1>0, <1>1, <2>1 DEF Inner, PCs, Begun
<1>5. CASE GatewayDeclines(k) \/ GatewayUnreachable(k) \/ SettleThrows(k)
  <2>1. /\ pc[k] \in {"send", "declined"} /\ row' = row
        /\ UNCHANGED <<paid, scan, lock, jobs, task>>
        /\ \E label \in {"declined", "threw"} :
              pc' = [pc EXCEPT ![k] = label]
    BY <1>0, <1>5
    DEF GatewayDeclines, GatewayUnreachable, SettleThrows, tableVars,
        Goto
  <2>2. QED BY <1>0, <1>1, <2>1 DEF Inner, PCs, Begun
<1>6. CASE Settle(k)
  <2>1. /\ pc[k] = "accepted" /\ pc' = [pc EXCEPT ![k] = "ack"]
        /\ UNCHANGED <<paid, scan, lock, jobs, task>>
        /\ SettleSent(W(k))
    BY <1>1, <1>6 DEF Settle, Goto
  <2>2. \A w \in Withdrawals :
          IF w = W(k) THEN row'[w].status \in {"broadcast", "sent", "failed"}
                      ELSE row'[w].status = row[w].status
    BY <1>0, <2>1 DEF SettleSent, SettleUnguarded
  <2>3. QED BY <1>0, <2>1, <2>2 DEF Inner, PCs, AfterClaim
<1>7. CASE FailAndRefund(k)
  <2>1. /\ pc[k] = "declined" /\ pc' = [pc EXCEPT ![k] = "ack"]
        /\ UNCHANGED <<paid, scan, lock, jobs, task>>
        /\ MarkFailedAndRefund(W(k))
    BY <1>1, <1>7 DEF FailAndRefund, RefundOrSkip, Goto
  <2>2. \A w \in Withdrawals :
          row'[w].status = IF w = W(k) THEN "failed" ELSE row[w].status
    BY <1>0, <2>1 DEF MarkFailedAndRefund, FailUnguarded, ReturnFunds
  <2>3. QED
    BY <1>0, <1>1, <2>1, <2>2 DEF Inner, PCs, AfterClaim
<1>8. QED
  BY <1>2, <1>3, <1>4, <1>5, <1>6, <1>7 DEF InHandle, Send

LEMMA HandleQuiet ==
  ASSUME QuietType, JobInv, Quiet, NEW k \in Workers, InHandle(k),
         faults' = faults
  PROVE  Quiet'
<1>1. pc[k] # "idle" /\ W(k) \in Withdrawals /\ faults \in Nat
  <2>1. pc[k] # "idle"
    BY DEF InHandle, PreCheck, Claim, Send, GatewayAccepts, GatewayDeclines,
       GatewayUnreachable, Settle, FailAndRefund, SettleThrows
  <2>2. QED BY <2>1, TaskRow DEF QuietType, JobTypeOK
<1>2. Knows(k)
  <2>1. \A j \in Workers : pc[j] = "accepted" /\ W(j) = W(k) => j = k
    BY <1>1, Alone DEF QuietType
  <2>2. QED BY <1>1, <2>1 DEF Knows, Quiet, PaidIsAccounted, SendsUnpaid
<1>3. ~ Fault("db_error") BY <1>1 DEF Fault
<1>4. QED BY <1>2, <1>3, HandleIsInner, InnerQuiet

(* A claimed row is its worker's: neither the user nor an admin moves it.   *)
LEMMA BegunStays ==
  ASSUME JobInv, UserStep \/ AdminStep, NEW w \in Withdrawals, Begun(w)
  PROVE  row'[w].status = row[w].status
<1>0. row \in [Withdrawals -> Row] BY DEF JobInv, TableInv, TableTypeOK
<1>1. ASSUME NEW v \in Withdrawals, RequestCommit(v) PROVE row'[w] = row[w]
  <2>1. row[v].status = "none"
    BY <1>1 DEF RequestCommit, JobInv, TableInv, RequestHasNoRow
  <2>2. v # w BY <2>1 DEF Begun, AfterClaim
  <2>3. QED BY <1>0, <1>1, <2>2 DEF RequestCommit
<1>2. ASSUME NEW v \in Withdrawals, Approve(v) \/ Reject(v)
      PROVE  row'[w] = row[w]
  <2>1. v # w
    BY <1>2 DEF Approve, Reject, Rejectable, Begun, AfterClaim
  <2>2. QED BY <1>0, <1>2, <2>1 DEF Approve, Reject, ReturnFunds
<1>3. QED
  BY <1>1, <1>2 DEF UserStep, AdminStep, RequestCheck, RequestAbort

LEMMA QuietStep ==
  ASSUME MaxTries > 1, JobInv, JobInv', Quiet, Next, faults' = faults
  PROVE  Quiet'
<1>0. /\ QuietType /\ JobTypeOK /\ faults \in Nat
      /\ row \in [Withdrawals -> Row]
  BY DEF QuietType, JobInv, TableInv, TableTypeOK, JobTypeOK
<1>1. CASE TableStep
  <2>1. \A w \in Withdrawals : Begun(w) => row'[w].status = row[w].status
    BY <1>1, BegunStays DEF TableStep
  <2>2. QED BY <1>0, <1>1, <2>1, TableQuiet DEF TableStep
<1>2. CASE QueueStep BY <1>0, <1>2, QueueQuiet
<1>3. ASSUME NEW k \in Workers, WorkerStep(k) PROVE Quiet'
  <2>1. ~ HoldForReview(k) BY DEF JobInv, NoneHeld, HoldForReview
  <2>2. ~ GatewayAmbiguous(k) /\ ~ Crash(k) /\ ~ Timeout(k)
    BY <1>0 DEF GatewayAmbiguous, Crash, Timeout, Fault
  <2>3. CASE Ack(k)
    BY <1>0, <2>3, DoneQuiet DEF Ack, tableVars, Begun
  <2>4. CASE DeadLetter(k)
    <3>1. /\ pc[k] = "dead" /\ Free(k)
          /\ UNCHANGED <<scan, lock, jobs, paid>>
          /\ W(k) \in Withdrawals
      BY <1>0, <2>4, TaskRow DEF DeadLetter
    <3>2. CASE UNCHANGED tableVars
      BY <1>0, <3>1, <3>2, DoneQuiet DEF tableVars, Begun
    <3>3. CASE MarkFailedAndRefund(W(k))
      <4>1. \A w \in Withdrawals :
              row'[w].status = IF w = W(k) THEN "failed" ELSE row[w].status
        BY <1>0, <3>1, <3>3
        DEF MarkFailedAndRefund, FailUnguarded, ReturnFunds
      <4>2. QED BY <1>0, <3>1, <4>1, DoneQuiet DEF AfterClaim
    <3>4. QED BY <2>4, <3>2, <3>3 DEF DeadLetter, RefundOrSkip
  <2>5. CASE Threw(k)
    BY <1>0, <2>5, ReleaseQuiet, FailQuiet
  <2>6. QED
    BY <1>0, <1>3, <2>1, <2>2, <2>3, <2>4, <2>5, PopQuiet, HandleQuiet
    DEF WorkerStep, Handle, InHandle
<1>4. QED BY <1>1, <1>2, <1>3 DEF Next, PayoutStep

(* Faults are counted and never taken back.                                 *)
LEMMA FaultsGrow ==
  ASSUME JobTypeOK, [Next]_vars PROVE faults' \in {faults, faults + 1}
BY DEF Next, TableStep, vars, jobVars, PayoutStep, QueueStep, CronScan,
   CronDispatch, LockLost, Backoff, Redeliver, WorkerStep, Handle, Send,
   PreCheck, HoldForReview, Claim, GatewayAccepts, GatewayAmbiguous,
   GatewayDeclines, GatewayUnreachable, Settle, FailAndRefund, Threw,
   DeadLetter, Ack, SettleThrows, Crash, Timeout, Pop, Fault

(* What a step of the job is to the outside, as long as nothing fails.      *)
JobMoves ==
    \/ /\ paid' = paid
       /\ \/ phases' = phases /\ balance' = balance
          \/ \E w \in Withdrawals :
                \/ Promise!Request(w)
                \/ paid[w] > 0 /\ Promise!Pay(w)
                \/ paid[w] = 0 /\ Promise!Return(w)
    \/ /\ UNCHANGED <<row, balance>>
       /\ \E w \in Withdrawals :
            /\ phases[w] = "open" /\ paid[w] = 0
            /\ paid' = [paid EXCEPT ![w] = 1]

LEMMA ReturnUnpaid ==
  ASSUME JobInv, Accounts, Next, NEW w \in Withdrawals,
         row[w].status \notin {"failed", "rejected"},
         row'[w].status \in {"failed", "rejected"}
  PROVE  paid[w] = 0
<1>0. /\ JobTypeOK /\ row \in [Withdrawals -> Row]
      /\ \A k \in Workers : pc[k] # "idle" => W(k) \in Withdrawals
  BY TaskRow DEF JobInv, TableInv, TableTypeOK, JobTypeOK
<1>1. ASSUME NEW v \in Withdrawals, Reject(v) PROVE paid[w] = 0
  <2>1. v = w BY <1>0, <1>1 DEF Reject, ReturnFunds
  <2>2. row[w].status \in {"hold", "queued"}
    BY <1>1, <2>1 DEF Reject, Rejectable
  <2>3. \A k \in Workers : ~ (pc[k] = "accepted" /\ W(k) = w)
    BY <2>2 DEF Accounts, SendsUnpaid
  <2>4. ~ (paid[w] > 0) BY <2>2, <2>3 DEF Accounts, PaidIsAccounted
  <2>5. QED BY <1>0, <2>4 DEF JobTypeOK
<1>2. ASSUME NEW k \in Workers, FailAndRefund(k) \/ DeadLetter(k)
      PROVE  paid[w] = 0
  <2>1. pc[k] \in {"declined", "dead"} /\ W(k) \in Withdrawals
    BY <1>0, <1>2 DEF FailAndRefund, DeadLetter
  <2>2. RefundOrSkip(W(k)) \/ UNCHANGED tableVars
    BY <1>2 DEF FailAndRefund, DeadLetter
  <2>3. W(k) = w
    BY <1>0, <2>1, <2>2
    DEF RefundOrSkip, MarkFailedAndRefund, FailUnguarded, ReturnFunds,
        tableVars
  <2>4. QED BY <2>1, <2>3 DEF Accounts, SendsUnpaid
<1>3. ASSUME NEW v \in Withdrawals,
             RequestCommit(v) \/ Approve(v) \/ ClaimRow(v) \/ SettleSent(v)
      PROVE  FALSE
  <2>1. CASE RequestCommit(v) \/ Approve(v)
    <3>1. row'[w] = row[w] \/ row'[w].status \in {"hold", "queued"}
      BY ZenonT(60), <1>0, <2>1 DEF RequestCommit, Approve
    <3>2. QED BY <3>1
  <2>2. CASE ClaimRow(v)
    <3>1. row'[w] = row[w] \/ row'[w].status = "processing"
      BY <1>0, <2>2 DEF ClaimRow
    <3>2. QED BY <3>1
  <2>3. CASE SettleSent(v)
    <3>1. row'[w] = row[w] \/ row'[w].status \in {"broadcast", "sent"}
      BY <1>0, <2>3 DEF SettleSent, SettleUnguarded
    <3>2. QED BY <3>1
  <2>4. QED BY <1>3, <2>1, <2>2, <2>3
<1>4. CASE row' = row BY <1>4
<1>5. CASE TableStep
  BY <1>1, <1>3, <1>4, <1>5
  DEF TableStep, UserStep, AdminStep, RequestCheck, RequestAbort
<1>6. CASE QueueStep
  BY <1>4, <1>6
  DEF QueueStep, CronScan, CronDispatch, LockLost, Backoff, Redeliver,
      tableVars
<1>7. ASSUME NEW k \in Workers, WorkerStep(k) PROVE paid[w] = 0
  <2>1. ~ HoldForReview(k) BY DEF JobInv, NoneHeld, HoldForReview
  <2>2. CASE Claim(k) \/ Settle(k)
    BY <1>0, <1>3, <1>4, <2>2 DEF Claim, Settle, tableVars
  <2>3. QED
    BY <1>2, <1>4, <1>7, <2>1, <2>2
    DEF WorkerStep, Handle, Send, PreCheck, GatewayAccepts,
        GatewayDeclines, GatewayUnreachable, Threw, Ack, GatewayAmbiguous,
        SettleThrows, Crash, Timeout, Pop, tableVars
<1>8. QED BY <1>5, <1>6, <1>7 DEF Next, PayoutStep

LEMMA JobStepMoves ==
  ASSUME SentInv, SentInv', Accounts, Next,
         \A k \in Workers : ~ GatewayAmbiguous(k)
  PROVE  JobMoves
<1>0. /\ JobInv /\ JobTypeOK /\ JobTypeOK'
      /\ TableInv /\ row \in [Withdrawals -> Row]
      /\ row' \in [Withdrawals -> Row]
  BY DEF SentInv, JobInv, JobTypeOK, TableInv, TableTypeOK
<1>1. CASE paid' = paid
  <2>1. [TableNext]_tableVars BY <1>0, JobStepInv
  <2>2. \/ \E w \in Withdrawals :
              Promise!Request(w) \/ Promise!Pay(w) \/ Promise!Return(w)
        \/ phases' = phases /\ balance' = balance
    BY <1>0, <2>1, PromiseStep
    DEF Promise!PromiseNext, Promise!promiseVars, phases
  <2>3. ASSUME NEW w \in Withdrawals, Promise!Pay(w) PROVE paid[w] > 0
    <3>1. PhaseOf(w)' = "paid" BY <2>3 DEF Promise!Pay
    <3>2. row'[w].status = "sent" BY <3>1 DEF PhaseOf
    <3>3. QED BY <1>0, <1>1, <3>2 DEF SentInv, SentMeansPaid, JobTypeOK
  <2>4. ASSUME NEW w \in Withdrawals, Promise!Return(w) PROVE paid[w] = 0
    <3>1. PhaseOf(w) = "open" /\ PhaseOf(w)' = "returned"
      BY <2>4 DEF Promise!Return
    <3>2. /\ row[w].status \notin {"failed", "rejected"}
          /\ row'[w].status \in {"failed", "rejected"}
      BY <1>0, <3>1 DEF PhaseOf
    <3>3. QED BY <1>0, <3>2, ReturnUnpaid
  <2>5. QED BY <1>1, <2>2, <2>3, <2>4 DEF JobMoves
<1>2. ASSUME NEW k \in Workers, GatewayAccepts(k) PROVE JobMoves
  <2>1. /\ pc[k] = "send" /\ row' = row /\ balance' = balance
        /\ paid' = [paid EXCEPT ![W(k)] = @ + 1]
    BY <1>2 DEF GatewayAccepts, tableVars
  <2>2. PICK w \in Withdrawals : w = W(k) BY <1>0, <2>1, TaskRow
  <2>3. row[w].status = "processing" /\ paid[w] = 0
    BY <2>1, <2>2 DEF Accounts, SendsUnpaid
  <2>4. phases[w] = "open" BY <1>0, <2>3, OpenPhase
  <2>5. paid' = [paid EXCEPT ![w] = 1] BY <2>1, <2>2, <2>3
  <2>6. QED BY <2>1, <2>4, <2>3, <2>5 DEF JobMoves
<1>3. paid' = paid \/ \E k \in Workers : GatewayAccepts(k)
  BY DEF Next, TableStep, jobVars, PayoutStep, QueueStep,
      CronScan, CronDispatch, LockLost, Backoff, Redeliver, WorkerStep,
      Handle, Send, PreCheck, HoldForReview, Claim, GatewayDeclines,
      GatewayUnreachable, Settle, FailAndRefund, Threw, DeadLetter, Ack,
      SettleThrows, Crash, Timeout, Pop
<1>4. QED BY <1>1, <1>2, <1>3

(* The contract, which the promise of the tables and the transfers make up. *)
transfers ==
    [w \in Withdrawals |-> IF paid[w] = 0 THEN "none" ELSE "made"]

LEMMA ContractStep ==
  ASSUME JobTypeOK, JobMoves
  PROVE  Contract!ContractNext \/ UNCHANGED Contract!contractVars
<1>1. CASE paid' = paid
  <2>1. transfers' = transfers BY <1>1 DEF transfers
  <2>2. CASE phases' = phases /\ balance' = balance
    BY <2>1, <2>2 DEF Contract!contractVars, phases, transfers
  <2>3. ASSUME NEW w \in Withdrawals, Promise!Request(w)
        PROVE  Contract!ContractNext
    <3>1. Contract!Request(w)
      BY <2>3 DEF Promise!Request, Contract!Request
    <3>2. QED BY <2>1, <3>1 DEF Contract!ContractNext, transfers
  <2>4. ASSUME NEW w \in Withdrawals, paid[w] > 0, Promise!Pay(w)
        PROVE  Contract!ContractNext
    <3>1. Contract!Pay(w) BY <2>4 DEF Promise!Pay, Contract!Pay
    <3>2. transfers[w] = "made" BY <2>4 DEF transfers, JobTypeOK
    <3>3. QED BY <2>1, <3>1, <3>2 DEF Contract!ContractNext, transfers
  <2>5. ASSUME NEW w \in Withdrawals, paid[w] = 0, Promise!Return(w)
        PROVE  Contract!ContractNext
    <3>1. Contract!Return(w) BY <2>5 DEF Promise!Return, Contract!Return
    <3>2. transfers[w] = "none" BY <2>5 DEF transfers
    <3>3. QED BY <2>1, <3>1, <3>2 DEF Contract!ContractNext, transfers
  <2>6. CASE \E w \in Withdrawals : paid' = [paid EXCEPT ![w] = 1]
                                    /\ phases[w] = "open" /\ paid[w] = 0
    BY <1>1, <2>6 DEF JobTypeOK
  <2>7. QED BY <2>2, <2>3, <2>4, <2>5, <2>6 DEF JobMoves
<1>2. ASSUME NEW v \in Withdrawals, UNCHANGED <<row, balance>>,
             phases[v] = "open", paid[v] = 0, paid' = [paid EXCEPT ![v] = 1]
      PROVE  Contract!ContractNext
  <2>1. phases' = phases BY <1>2 DEF phases, PhaseOf
  <2>2. transfers[v] = "none" BY <1>2 DEF transfers
  <2>3. \A w \in Withdrawals :
          transfers'[w] = IF w = v THEN "made" ELSE transfers[w]
    <3>1. \A w \in Withdrawals : paid'[w] = IF w = v THEN 1 ELSE paid[w]
      BY <1>2 DEF JobTypeOK
    <3>2. \A w \in Withdrawals :
            transfers'[w] = IF paid'[w] = 0 THEN "none" ELSE "made"
      BY DEF transfers
    <3>3. \A w \in Withdrawals :
            transfers[w] = IF paid[w] = 0 THEN "none" ELSE "made"
      BY DEF transfers
    <3>4. QED BY <3>1, <3>2, <3>3
  <2>4. transfers' = [transfers EXCEPT ![v] = "made"]
    <3>1. /\ transfers = [w \in Withdrawals |-> transfers[w]]
          /\ transfers' = [w \in Withdrawals |-> transfers'[w]]
      BY DEF transfers
    <3>2. QED BY <2>3, <3>1
  <2>5. Contract!HandOver(v)
    BY <1>2, <2>1, <2>2, <2>4
    DEF Contract!HandOver, Contract!promiseVars, phases, transfers
  <2>6. QED BY <2>5 DEF Contract!ContractNext
<1>3. QED BY <1>1, <1>2 DEF JobMoves

(* As long as nothing fails the job keeps the contract, with any number of  *)
(* workers, cron ticks and withdrawals, however they interleave: a          *)
(* withdrawal is handed over at most once, paid only if it was and refunded *)
(* only if it was not.  A job that may be tried only once does not: its     *)
(* dead letter could refund what a second dispatch is sending.              *)
THEOREM ContractKept == MaxTries > 1 /\ Spec => KeepsContract
<1> DEFINE FreeInv == SentInv /\ (MaxTries > 1 => QuietInv)
           Kept == faults' = 0 => Contract!ContractNext
<1>1. Init => FreeInv
  <2> SUFFICES ASSUME Init PROVE FreeInv
    OBVIOUS
  <2>1. SentInv
    BY InitInv DEF Init, TableInit, JobInit, SentInv, JobInv, JobTypeOK,
       NoneHeld, AcceptedIsPaid, SentMeansPaid, PCs, JobStates, NoJob
  <2>2. Quiet
    BY DEF Init, JobInit, Quiet, HeldByOne, OneEnvelope, TriesLeft,
       RetriedIsBegun, Retried, DeadIsLast, SendsUnpaid, PaidIsAccounted,
       Busy, InUse, NoJob
  <2>3. QED BY <2>1, <2>2 DEF QuietInv
<1>2. ASSUME FreeInv, [Next]_vars PROVE FreeInv'
  <2>1. SentInv' /\ JobInv /\ JobInv' /\ JobTypeOK /\ faults \in Nat
    BY <1>2, SentStepInv DEF SentInv, JobInv, JobTypeOK
  <2>2. ASSUME MaxTries > 1, faults' = 0 PROVE Quiet'
    <3>1. faults = 0 /\ Quiet
      BY <1>2, <2>1, <2>2, FaultsGrow DEF QuietInv
    <3>2. CASE Next BY <2>1, <2>2, <3>1, <3>2, QuietStep
    <3>3. CASE UNCHANGED vars
      <4>1. QuietType /\ UNCHANGED <<jobVars, row>>
        BY <2>1, <3>3
        DEF QuietType, JobInv, TableInv, TableTypeOK, vars, tableVars
      <4>2. QED BY <3>1, <4>1, TableQuiet
    <3>4. QED BY <1>2, <3>2, <3>3
  <2>3. QED BY <2>1, <2>2 DEF QuietInv
<1>3. ASSUME FreeInv, FreeInv', [Next]_vars, MaxTries > 1
      PROVE  [Kept]_(Contract!contractVars)
  <2> SUFFICES ASSUME faults' = 0
      PROVE  Contract!ContractNext \/ UNCHANGED Contract!contractVars
    OBVIOUS
  <2>1. JobTypeOK /\ faults \in Nat BY <1>3 DEF SentInv, JobInv, JobTypeOK
  <2>2. faults = 0 BY <1>3, <2>1, FaultsGrow
  <2>3. CASE Next
    <3>1. Accounts BY <1>3, <2>2 DEF QuietInv, Quiet, Accounts
    <3>2. \A k \in Workers : ~ GatewayAmbiguous(k)
      BY <2>1, <2>2 DEF GatewayAmbiguous, Fault
    <3>3. QED BY <1>3, <2>1, <2>3, <3>1, <3>2, JobStepMoves, ContractStep
  <2>4. CASE UNCHANGED vars
    BY <2>4 DEF vars, tableVars, jobVars, Contract!contractVars, PhaseOf
  <2>5. QED BY <1>3, <2>3, <2>4
<1>4. Init => Contract!ContractInit
  <2>1. Init => Promise!PromiseInit BY PromiseInitStep DEF Init
  <2>2. QED
    BY <2>1
    DEF Init, JobInit, Promise!PromiseInit, Contract!ContractInit,
        Contract!PromiseInit
<1> SUFFICES ASSUME MaxTries > 1 PROVE Spec => KeepsContract
  OBVIOUS
<1>5. FreeInv /\ FreeInv' /\ [Next]_vars => [Kept]_(Contract!contractVars)
  BY <1>3
<1> HIDE DEF FreeInv
<1>6. QED BY <1>1, <1>2, <1>4, <1>5, PTL DEF Spec, KeepsContract

----------------------------------------------------------------------------
(* One worker, as docker-compose.yml starts it, and a unique lock that may  *)
(* be lost at any time: two envelopes of a withdrawal may then exist, but   *)
(* they are worked on one after the other.                                  *)

OneWorker == \A j, k \in Workers : j = k
OnlyEvictions == FaultKinds \subseteq {"evict"}
Solo == HeldByOne /\ TriesLeft /\ Accounts

LEMMA SoloInner ==
  ASSUME OneWorker, QuietType, Solo, NEW k \in Workers,
         NEW label \in PCs \ {"idle", "dead"}, Inner(k, label)
  PROVE  Solo'
<1>0. /\ \A j \in Workers : j = k
      /\ pc'[k] = label /\ W(k)' = W(k) /\ Busy(k)
      /\ UNCHANGED <<jobs, task>> /\ W(k) \in Withdrawals
  BY TaskRow DEF OneWorker, QuietType, JobTypeOK, Inner, W, Busy
<1>1. \A j \in Workers : Busy(j)' <=> Busy(j) BY <1>0 DEF Busy
<1>2. HeldByOne' /\ TriesLeft' BY <1>0, <1>1 DEF Solo, HeldByOne, TriesLeft
<1>3. SendsUnpaid' BY <1>0 DEF SendsUnpaid, Inner
<1>4. PaidIsAccounted'
  <2> SUFFICES ASSUME NEW w \in Withdrawals, paid'[w] > 0
      PROVE  \/ row'[w].status \in {"broadcast", "sent", "failed"}
             \/ \E j \in Workers : pc'[j] = "accepted" /\ W(j)' = w
    BY DEF PaidIsAccounted
  <2>1. CASE w = W(k) BY <1>0, <2>1 DEF Inner
  <2>2. CASE w # W(k)
    BY <1>0, <2>2 DEF Inner, Solo, Accounts, PaidIsAccounted
  <2>3. QED BY <2>1, <2>2
<1>5. QED BY <1>2, <1>3, <1>4 DEF Solo, Accounts

(* The worker takes an envelope or gives it back, and no row or transfer of *)
(* another withdrawal changes.                                              *)
LEMMA SoloOuter ==
  ASSUME OneWorker, QuietType, Solo, NEW k \in Workers,
         pc[k] # "accepted", paid' = paid,
         TriesLeft',
         \A e \in Envelopes : jobs'[e].state = "reserved" =>
             pc'[k] = "precheck" /\ task'[k] = e,
         pc'[k] = "precheck" => jobs'[task'[k]].state = "reserved",
         pc'[k] \in {"idle", "dead", "precheck"},
         pc'[k] = "dead" =>
             row'[W(k)'].status = "processing" /\ paid[W(k)'] = 0,
         \A w \in Withdrawals :
             row'[w].status = row[w].status \/ row'[w].status = "failed"
  PROVE  Solo'
<1>0. \A j \in Workers : j = k BY DEF OneWorker
<1>1. HeldByOne' BY <1>0 DEF HeldByOne, Busy
<1>2. SendsUnpaid' BY <1>0 DEF SendsUnpaid
<1>3. PaidIsAccounted'
  BY <1>0 DEF Solo, Accounts, PaidIsAccounted
<1>4. QED BY <1>1, <1>2, <1>3 DEF Solo, Accounts

LEMMA SoloWorker ==
  ASSUME OneWorker, OnlyEvictions, QuietType, JobInv, Solo,
         NEW k \in Workers, WorkerStep(k)
  PROVE  Solo'
<1>0. /\ JobTypeOK /\ row \in [Withdrawals -> Row]
      /\ paid \in [Withdrawals -> Nat]
      /\ \A j \in Workers : j = k
      /\ HeldByOne /\ TriesLeft /\ SendsUnpaid /\ PaidIsAccounted
      /\ pc[k] # "idle" =>
            task[k] \in Envelopes /\ W(k) \in Withdrawals /\ task[k][1] = W(k)
      /\ \A kind \in {"crash", "timeout", "db_error", "ambiguous"} :
            ~ Fault(kind)
  BY TaskRow
  DEF OneWorker, OnlyEvictions, QuietType, JobTypeOK, Solo, Accounts, Fault
<1>1. \A e \in Envelopes :
        jobs[e].state = "reserved" => Busy(k) /\ task[k] = e
  BY <1>0 DEF HeldByOne
<1>2. ~ HoldForReview(k) BY DEF JobInv, NoneHeld, HoldForReview
<1>3. CASE InHandle(k)
  <2>1. pc[k] # "idle"
    BY <1>3
    DEF InHandle, PreCheck, Claim, Send, GatewayAccepts, GatewayDeclines,
        GatewayUnreachable, Settle, FailAndRefund, SettleThrows
  <2>2. Knows(k)
    <3>1. pc[k] # "accepted" /\ paid[W(k)] > 0
            => row[W(k)].status \in {"broadcast", "sent", "failed"}
      BY <1>0, <2>1 DEF PaidIsAccounted
    <3>2. QED BY <1>0, <3>1 DEF Knows, SendsUnpaid
  <2>3. QED BY <1>0, <1>3, <2>2, HandleIsInner, SoloInner
<1>4. ASSUME NEW e \in Envelopes, Pop(k, e) PROVE Solo'
  <2>1. /\ pc[k] = "idle" /\ jobs[e].state = "ready" /\ ~ TriesSpent(e)
        /\ jobs[e].attempts \in Nat
    BY <1>0, <1>4, DeletedTypes, TriesAssumption
    DEF Pop, TriesLeft, TriesSpent
  <2>2. /\ \A d \in Envelopes :
              jobs'[d] = IF d = e THEN [state |-> "reserved",
                                        attempts |-> jobs[e].attempts + 1]
                         ELSE jobs[d]
        /\ pc'[k] = "precheck" /\ task'[k] = e
        /\ row' = row /\ paid' = paid
    BY <1>0, <1>4, <2>1 DEF Pop, Goto, JobTypeOK, tableVars
  <2>3. TriesLeft' BY <1>0, <2>1, <2>2 DEF TriesLeft
  <2>4. QED BY <1>1, <2>1, <2>2, <2>3, SoloOuter DEF Busy
<1>5. CASE Threw(k) \/ Ack(k)
  <2> DEFINE e == task[k]
  <2>1. /\ pc[k] \in {"threw", "ack"} /\ row' = row /\ paid' = paid
        /\ e \in Envelopes /\ e[1] = W(k) /\ W(k) \in Withdrawals
        /\ jobs[e].state = "reserved"
    BY <1>0, <1>5 DEF Threw, Ack, HeldByOne, Busy, tableVars
  <2>2. CASE Threw(k) /\ ~ TriesSpent(e)
    <3>1. /\ jobs[e].attempts \in Nat /\ jobs[e].attempts < MaxTries
      BY <1>0, <2>1, <2>2, DeletedTypes, TriesAssumption DEF TriesSpent
    <3>2. /\ \A d \in Envelopes :
                /\ jobs'[d].state = IF d = e THEN "delayed" ELSE jobs[d].state
                /\ jobs'[d].attempts = jobs[d].attempts
          /\ pc'[k] = "idle"
      BY <1>0, <2>1, <2>2 DEF Threw, Free, Goto, JobTypeOK
    <3>3. TriesLeft' BY <1>0, <2>1, <3>1, <3>2 DEF TriesLeft
    <3>4. QED BY <1>1, <2>1, <3>2, <3>3, SoloOuter
  <2>3. CASE Ack(k) \/ TriesSpent(e)
    <3>1. /\ jobs' = [jobs EXCEPT ![e] = NoJob]
          /\ \/ pc[k] = "ack" /\ pc'[k] = "idle"
             \/ pc[k] = "threw" /\ pc'[k] = "dead" /\ task' = task
      BY <1>0, <1>5, <2>3
      DEF Threw, Ack, Delete, Free, Goto, JobTypeOK
    <3>2. \A d \in Envelopes : jobs'[d] = IF d = e THEN NoJob ELSE jobs[d]
      <4> HIDE DEF e
      <4>1. QED BY <1>0, <2>1, <3>1 DEF JobTypeOK
    <3>3. TriesLeft' BY <1>0, <3>2 DEF TriesLeft, NoJob
    <3>4. \A d \in Envelopes : jobs'[d].state # "reserved"
      BY <1>1, <3>2 DEF NoJob
    <3>5. pc[k] = "threw" =>
             row[W(k)].status = "processing" /\ paid[W(k)] = 0
      BY <1>0 DEF SendsUnpaid
    <3>6. pc'[k] = "dead" =>
             row'[W(k)'].status = "processing" /\ paid[W(k)'] = 0
      <4>1. task' = task => W(k)' = W(k) BY DEF W
      <4>2. QED BY <2>1, <3>1, <3>5, <4>1
    <3>7. /\ pc[k] # "accepted" /\ pc'[k] \in {"idle", "dead"}
          /\ \A w \in Withdrawals : row'[w].status = row[w].status
      BY <2>1, <3>1
    <3>8. QED BY <2>1, <3>3, <3>4, <3>6, <3>7, SoloOuter
  <2>4. QED BY <1>5, <2>2, <2>3
<1>6. CASE DeadLetter(k)
  <2>1. /\ pc[k] = "dead" /\ pc'[k] = "idle" /\ jobs' = jobs /\ paid' = paid
        /\ W(k) \in Withdrawals
    BY <1>0, <1>6 DEF DeadLetter, Free, Goto, JobTypeOK
  <2>2. \A w \in Withdrawals :
          row'[w].status = row[w].status \/ row'[w].status = "failed"
    BY <1>0, <1>6, <2>1
    DEF DeadLetter, RefundOrSkip, MarkFailedAndRefund, FailUnguarded,
        ReturnFunds, tableVars
  <2>3. \A e \in Envelopes : jobs'[e].state # "reserved"
    BY <1>1, <2>1 DEF Busy
  <2>4. TriesLeft' BY <1>0, <2>1 DEF TriesLeft
  <2>5. QED BY <2>1, <2>2, <2>3, <2>4, SoloOuter
<1>7. ~ GatewayAmbiguous(k) /\ ~ Crash(k) /\ ~ Timeout(k)
  BY <1>0 DEF GatewayAmbiguous, Crash, Timeout
<1>8. QED
  BY <1>2, <1>3, <1>4, <1>5, <1>6, <1>7 DEF WorkerStep, Handle, InHandle

LEMMA SoloQueue ==
  ASSUME OneWorker, QuietType, Solo, QueueStep
  PROVE  Solo'
<1>0. /\ JobTypeOK /\ row' = row /\ UNCHANGED <<pc, task, paid>>
      /\ \A j \in Workers : W(j)' = W(j)
      /\ HeldByOne /\ TriesLeft
      /\ \A j \in Workers : Busy(j) => task[j] \in Envelopes
  BY TaskRow
  DEF QuietType, QueueStep, CronScan, CronDispatch, LockLost, Backoff,
      Redeliver, tableVars, W, Solo, Busy
<1>1. \A j \in Workers : Busy(j)' <=> Busy(j) BY <1>0 DEF Busy
<1>2. Accounts'
  BY <1>0 DEF Solo, Accounts, SendsUnpaid, PaidIsAccounted
<1>3. CASE jobs' = jobs
  BY <1>0, <1>1, <1>2, <1>3 DEF Solo, HeldByOne, TriesLeft
<1>4. ASSUME NEW e \in Envelopes, jobs[e].state # "reserved",
             jobs'[e].state = "ready", jobs'[e].attempts < MaxTries,
             \A d \in Envelopes : d # e => jobs'[d] = jobs[d]
      PROVE  Solo'
  <2>1. TriesLeft' BY <1>0, <1>4 DEF TriesLeft
  <2>2. \A d \in Envelopes :
          jobs'[d].state = "reserved" <=> jobs[d].state = "reserved"
    BY <1>4
  <2>3. HeldByOne' BY <1>0, <1>1, <2>2 DEF HeldByOne
  <2>4. QED BY <1>2, <2>1, <2>3 DEF Solo
<1>5. ASSUME NEW w \in Withdrawals, CronDispatch(w), jobs' # jobs
      PROVE  Solo'
  <2>1. PICK s \in FreeSlots(w) :
          jobs' = [jobs EXCEPT ![<<w, s>>] =
                      [state |-> "ready", attempts |-> 0]]
    BY <1>5 DEF CronDispatch
  <2>2. PICK e \in Envelopes : e = <<w, s>>
    BY DEF FreeSlots, Envelopes
  <2>3. /\ jobs[e].state = "none"
        /\ \A d \in Envelopes :
             jobs'[d] = IF d = e THEN [state |-> "ready", attempts |-> 0]
                        ELSE jobs[d]
    BY <1>0, <2>1, <2>2 DEF FreeSlots, JobTypeOK
  <2>4. QED BY <1>4, <2>3, TriesAssumption
<1>6. ASSUME NEW e \in Envelopes, Backoff(e) PROVE Solo'
  <2>1. /\ jobs[e].state = "delayed"
        /\ \A d \in Envelopes : d # e => jobs'[d] = jobs[d]
        /\ jobs'[e].state = "ready"
        /\ jobs'[e].attempts = jobs[e].attempts
    BY <1>0, <1>6 DEF Backoff, JobTypeOK
  <2>2. jobs[e].attempts < MaxTries BY <1>0, <2>1 DEF TriesLeft
  <2>3. QED BY <1>4, <2>1, <2>2
<1>7. \A e \in Envelopes : ~ Redeliver(e)
  BY <1>0 DEF Redeliver, HeldByOne
<1>8. QED
  BY <1>3, <1>5, <1>6, <1>7 DEF QueueStep, CronScan, LockLost

LEMMA TableSolo ==
  ASSUME QuietType, Solo, UNCHANGED jobVars,
         \A w \in Withdrawals : Begun(w) =>
             \/ row'[w].status = row[w].status
             \/ /\ row[w].status = "broadcast"
                /\ row'[w].status \in {"sent", "failed"}
  PROVE  Solo'
<1>0. /\ UNCHANGED <<jobs, pc, task, paid>>
      /\ \A j \in Workers : W(j)' = W(j)
      /\ \A j \in Workers : pc[j] # "idle" => W(j) \in Withdrawals
  BY TaskRow DEF QuietType, jobVars, W
<1>1. \A w \in Withdrawals :
        row[w].status \in AfterClaim =>
            \/ row'[w].status = row[w].status
            \/ /\ row[w].status = "broadcast"
               /\ row'[w].status \in {"sent", "failed"}
  BY DEF Begun
<1>2. HeldByOne' /\ TriesLeft'
  BY <1>0 DEF Solo, HeldByOne, TriesLeft, Busy
<1>3. SendsUnpaid'
  BY <1>0, <1>1 DEF Solo, Accounts, SendsUnpaid, AfterClaim
<1>4. PaidIsAccounted'
  BY <1>0, <1>1 DEF Solo, Accounts, PaidIsAccounted, AfterClaim
<1>5. QED BY <1>2, <1>3, <1>4 DEF Solo, Accounts

(* Two ways to run the job that lose and double nothing: no fault at all    *)
(* and a second try, or one worker, however often the lock is lost.         *)
Reliable == \/ FaultKinds = {} /\ MaxTries > 1
            \/ OnlyEvictions /\ OneWorker
Orderly == IF OnlyEvictions /\ OneWorker THEN Solo ELSE Quiet

LEMMA QuietIsOrderly == Quiet => Orderly /\ Accounts
BY DEF Orderly, Quiet, Solo, Accounts

LEMMA OrderlyAccounts == Orderly => Accounts
BY DEF Orderly, Quiet, Solo, Accounts

LEMMA JobOpens == ASSUME JobInit PROVE Orderly
<1>1. Quiet
  BY DEF JobInit, Quiet, HeldByOne, OneEnvelope, TriesLeft,
     RetriedIsBegun, Retried, DeadIsLast, SendsUnpaid, PaidIsAccounted,
     Busy, InUse, NoJob
<1>2. QED BY <1>1, QuietIsOrderly

LEMMA TableOrderly ==
  ASSUME QuietType, Orderly, UNCHANGED jobVars,
         \A w \in Withdrawals : Begun(w) =>
             \/ row'[w].status = row[w].status
             \/ /\ row[w].status = "broadcast"
                /\ row'[w].status \in {"sent", "failed"}
  PROVE  Orderly'
<1>1. CASE OnlyEvictions /\ OneWorker
  <2>1. Solo' BY <1>1, TableSolo DEF Orderly
  <2>2. QED BY <1>1, <2>1 DEF Orderly, OnlyEvictions, OneWorker
<1>2. CASE ~ (OnlyEvictions /\ OneWorker)
  <2>1. Quiet' BY <1>2, TableQuiet DEF Orderly
  <2>2. QED BY <1>2, <2>1 DEF Orderly, OnlyEvictions, OneWorker
<1>3. QED BY <1>1, <1>2

LEMMA NothingFails ==
  ASSUME FaultKinds = {}, Next PROVE faults' = faults
BY DEF Next, TableStep, jobVars, PayoutStep, QueueStep, CronScan,
   CronDispatch, LockLost, Backoff, Redeliver, WorkerStep, Handle, Send,
   PreCheck, HoldForReview, Claim, GatewayAccepts, GatewayAmbiguous,
   GatewayDeclines, GatewayUnreachable, Settle, FailAndRefund, Threw,
   DeadLetter, Ack, SettleThrows, Crash, Timeout, Pop, Fault

LEMMA OrderlyStep ==
  ASSUME Reliable, JobInv, JobInv', Orderly, Next
  PROVE  Orderly' /\ \A k \in Workers : ~ GatewayAmbiguous(k)
<1>1. QuietType BY DEF QuietType, JobInv, TableInv, TableTypeOK
<1>2. \A k \in Workers : ~ GatewayAmbiguous(k)
  BY DEF Reliable, OnlyEvictions, GatewayAmbiguous, Fault
<1>3. CASE OnlyEvictions /\ OneWorker
  <2>1. Solo BY <1>3 DEF Orderly
  <2>2. ASSUME TableStep PROVE Solo'
    <3>1. (UserStep \/ AdminStep) /\ UNCHANGED jobVars
      BY <2>2 DEF TableStep
    <3>2. \A w \in Withdrawals : Begun(w) => row'[w].status = row[w].status
      BY <3>1, BegunStays
    <3>3. QED BY <1>1, <2>1, <3>1, <3>2, TableSolo
  <2>3. Solo'
    BY <1>1, <1>3, <2>1, <2>2, SoloQueue, SoloWorker DEF Next, PayoutStep
  <2>4. QED BY <1>2, <1>3, <2>3 DEF Orderly, OnlyEvictions, OneWorker
<1>4. CASE ~ (OnlyEvictions /\ OneWorker)
  <2>1. FaultKinds = {} /\ MaxTries > 1 /\ Quiet
    BY <1>4 DEF Reliable, Orderly
  <2>2. Quiet' BY <2>1, NothingFails, QuietStep
  <2>3. QED BY <1>2, <1>4, <2>2 DEF Orderly, OnlyEvictions, OneWorker
<1>5. QED BY <1>3, <1>4

OrderInv == SentInv /\ Orderly /\ OneTransfer

LEMMA OrderStep ==
  ASSUME Reliable, OrderInv, [Next]_vars
  PROVE  /\ OrderInv'
         /\ Contract!ContractNext \/ UNCHANGED Contract!contractVars
<1>0. /\ JobInv /\ JobTypeOK /\ SentInv' /\ JobInv' /\ Accounts
      /\ paid \in [Withdrawals -> Nat]
  BY SentStepInv, OrderlyAccounts DEF OrderInv, SentInv, JobInv, JobTypeOK
<1>1. CASE Next
  <2>1. Orderly' /\ \A k \in Workers : ~ GatewayAmbiguous(k)
    BY <1>0, <1>1, OrderlyStep DEF OrderInv
  <2>2. JobMoves BY <1>0, <1>1, <2>1, JobStepMoves DEF OrderInv
  <2>3. OneTransfer'
    BY <1>0, <2>2 DEF JobMoves, OrderInv, OneTransfer
  <2>4. QED BY <1>0, <2>1, <2>2, <2>3, ContractStep DEF OrderInv
<1>2. CASE UNCHANGED vars
  <2>1. QuietType /\ UNCHANGED <<jobVars, row, paid>>
    BY <1>0, <1>2
    DEF QuietType, JobInv, TableInv, TableTypeOK, vars, tableVars, jobVars
  <2>2. Orderly' BY <2>1, TableOrderly DEF OrderInv
  <2>3. OneTransfer' BY <2>1 DEF OrderInv, OneTransfer
  <2>4. UNCHANGED Contract!contractVars
    BY <1>2 DEF vars, tableVars, jobVars, Contract!contractVars, PhaseOf
  <2>5. QED BY <1>0, <2>2, <2>3, <2>4 DEF OrderInv
<1>3. QED BY <1>1, <1>2

LEMMA OrderOpens == Init => OrderInv
<1> SUFFICES ASSUME Init PROVE OrderInv
  OBVIOUS
<1>1. SentInv
  BY InitInv DEF Init, TableInit, JobInit, SentInv, JobInv, JobTypeOK,
     NoneHeld, AcceptedIsPaid, SentMeansPaid, PCs, JobStates, NoJob
<1>2. Orderly BY JobOpens DEF Init
<1>3. OneTransfer BY DEF Init, JobInit, OneTransfer
<1>4. QED BY <1>1, <1>2, <1>3 DEF OrderInv

(* No withdrawal is sent twice.  With several workers the unique lock is    *)
(* what prevents it, and losing it is enough to break it (the run           *)
(* job_lost_lock); with the one worker of docker-compose.yml it is not      *)
(* needed, and one try is as good as three.                                 *)
THEOREM NeverSentTwice == Reliable /\ Spec => []OneTransfer
<1> SUFFICES ASSUME Reliable PROVE Spec => []OneTransfer
  OBVIOUS
<1>1. OrderInv /\ [Next]_vars => OrderInv' BY OrderStep
<1>2. OrderInv => OneTransfer BY DEF OrderInv
<1>3. QED BY <1>1, <1>2, OrderOpens, PTL DEF Spec

ContractToTheEnd == Contract!ContractSpec

(* The same two ways to run the job keep the contract to the end, and not   *)
(* only up to the first fault.                                              *)
THEOREM ContractHeld == Reliable /\ Spec => ContractToTheEnd
<1> SUFFICES ASSUME Reliable PROVE Spec => ContractToTheEnd
  OBVIOUS
<1>1. OrderInv /\ [Next]_vars
        => OrderInv' /\ [Contract!ContractNext]_(Contract!contractVars)
  BY OrderStep
<1>2. Init => Contract!ContractInit
  <2>1. Init => Promise!PromiseInit BY PromiseInitStep DEF Init
  <2>2. QED
    BY <2>1
    DEF Init, JobInit, Promise!PromiseInit, Contract!ContractInit,
        Contract!PromiseInit
<1>3. QED
  BY <1>1, <1>2, OrderOpens, PTL
  DEF Spec, ContractToTheEnd, Contract!ContractSpec
=============================================================================
