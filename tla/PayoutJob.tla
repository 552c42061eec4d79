----------------------------- MODULE PayoutJob -----------------------------
(***************************************************************************)
(* ProcessWithdrawalJob on the Redis queue: the cron that dispatches it,   *)
(* the ShouldBeUnique cache lock, the queue's envelopes with their attempt *)
(* count, and the workers that run handle() and failed() step by step.     *)
(* Steps of one worker are separated wherever another process can write:   *)
(* between the read, the claim, the gateway call and the settle.           *)
(***************************************************************************)
EXTENDS WithdrawalTable

CONSTANTS
    Workers,     \* queue:work processes
    Slots,       \* envelopes of one withdrawal that may exist at once
    MaxTries,    \* $tries
    FaultKinds,  \* what may go wrong: subset of Faults
    MaxFaults,   \* how often it may go wrong
    MaxTransfers \* bound on the transfers of one withdrawal

Faults == {"evict",      \* the cache lock expires or is evicted
           "crash",      \* a worker process dies
           "timeout",    \* --timeout kills a worker waiting for the gateway
           "db_error",   \* the settle transaction raises
           "ambiguous"}  \* the gateway pays but its reply does not arrive

ASSUME TriesAssumption  == MaxTries \in Nat \ {0}
ASSUME FaultsAssumption == FaultKinds \subseteq Faults /\ MaxFaults \in Nat

VARIABLES
    scan,   \* ids plucked by the running satpeek:process-withdrawals
    lock,   \* unique lock per withdrawal id
    jobs,   \* envelopes on the queue
    pc,     \* where each worker is in handle() / failed()
    task,   \* the envelope each worker holds
    paid,   \* transfers the gateway accepted, per withdrawal (external)
    faults  \* faults so far

jobVars == <<scan, lock, jobs, pc, task, paid, faults>>
vars == <<tableVars, jobVars>>

PCs == {"idle", "precheck", "hold", "claim", "send", "accepted", "declined",
        "threw", "dead", "ack"}
JobStates == {"none", "ready", "reserved", "delayed"}
Envelopes == Withdrawals \X Slots
NoTask == <<>>

JobTypeOK ==
    /\ scan \subseteq Withdrawals
    /\ lock \in [Withdrawals -> BOOLEAN]
    /\ jobs \in [Envelopes -> [state : JobStates, attempts : Nat]]
    /\ pc \in [Workers -> PCs]
    /\ task \in [Workers -> Envelopes \cup {NoTask}]
    /\ \A k \in Workers : pc[k] # "idle" => task[k] \in Envelopes
    /\ paid \in [Withdrawals -> Nat]
    /\ faults \in Nat

TypeOK == TableTypeOK /\ JobTypeOK

NoJob == [state |-> "none", attempts |-> 0]

JobInit ==
    /\ scan = {}
    /\ lock = [w \in Withdrawals |-> FALSE]
    /\ jobs = [e \in Envelopes |-> NoJob]
    /\ pc = [k \in Workers |-> "idle"]
    /\ task = [k \in Workers |-> NoTask]
    /\ paid = [w \in Withdrawals |-> 0]
    /\ faults = 0

Init == TableInit /\ JobInit

Fault(kind) ==
    /\ kind \in FaultKinds
    /\ faults < MaxFaults
    /\ faults' = faults + 1

----------------------------------------------------------------------------
(* The cron.  The rows are read once, then dispatched one by one; a dispatch*)
(* whose unique lock is taken is dropped (and one that finds every slot of  *)
(* the bound taken).                                                        *)

CronScan ==
    /\ scan = {}
    /\ scan' = {w \in Withdrawals : row[w].status = "queued"}
    /\ UNCHANGED <<tableVars, lock, jobs, pc, task, paid, faults>>

Unlocked(w) == TRUE                          \* mutant of LockFree
LockFree(w) == ~ lock[w]
FreeSlots(w) == {s \in Slots : jobs[<<w, s>>].state = "none"}

CronDispatch(w) ==
    /\ w \in scan
    /\ scan' = scan \ {w}
    /\ \/ /\ ~ LockFree(w) \/ FreeSlots(w) = {}
          /\ UNCHANGED <<lock, jobs>>
       \/ /\ LockFree(w)
          /\ lock' = [lock EXCEPT ![w] = TRUE]
          /\ \E s \in FreeSlots(w) :
               jobs' = [jobs EXCEPT ![<<w, s>>] =
                          [state |-> "ready", attempts |-> 0]]
    /\ UNCHANGED <<tableVars, pc, task, paid, faults>>

LockLost(w) ==
    /\ lock[w]
    /\ Fault("evict")
    /\ lock' = [lock EXCEPT ![w] = FALSE]
    /\ UNCHANGED <<tableVars, scan, jobs, pc, task, paid>>

----------------------------------------------------------------------------
(* Laravel's queue, as the job's $tries, backoff() and failed() use it.     *)

(* delete() the envelope and release the unique lock, whoever owns it now.  *)
Delete(e) ==
    /\ jobs' = [jobs EXCEPT ![e] = NoJob]
    /\ lock' = [lock EXCEPT ![e[1]] = FALSE]

Goto(k, label) == pc' = [pc EXCEPT ![k] = label]
Free(k) == Goto(k, "idle") /\ task' = [task EXCEPT ![k] = NoTask]

NoneLeft(e)   == FALSE                       \* mutant of TriesSpent
TriesSpent(e) == jobs[e].attempts >= MaxTries

(* An envelope popped more than $tries times is failed without handle().    *)
Pop(k, e) ==
    /\ pc[k] = "idle"
    /\ jobs[e].state = "ready"
    /\ task' = [task EXCEPT ![k] = e]
    /\ IF TriesSpent(e)
       THEN Delete(e) /\ Goto(k, "dead")
       ELSE /\ jobs' = [jobs EXCEPT ![e] = [state |-> "reserved",
                                            attempts |-> @.attempts + 1]]
            /\ Goto(k, "precheck")
            /\ UNCHANGED lock
    /\ UNCHANGED <<tableVars, scan, paid, faults>>

(* backoff() elapsed.  It takes a minute or more and a cron tick dispatches *)
(* its rows in a loop: no tick that scanned before the backoff is still     *)
(* running after it.                                                        *)
Backoff(e) ==
    /\ jobs[e].state = "delayed"
    /\ scan = {}
    /\ jobs' = [jobs EXCEPT ![e].state = "ready"]
    /\ UNCHANGED <<tableVars, scan, lock, pc, task, paid, faults>>

(* retry_after elapsed.  It is longer than --timeout, so the worker that    *)
(* had reserved the envelope is gone by then, and so is the cron tick.      *)
Redeliver(e) ==
    /\ jobs[e].state = "reserved"
    /\ scan = {}
    /\ \A k \in Workers : task[k] # e
    /\ jobs' = [jobs EXCEPT ![e].state = "ready"]
    /\ UNCHANGED <<tableVars, scan, lock, pc, task, paid, faults>>

(* An exception escaped handle(): release with backoff, or fail().          *)
Threw(k) ==
    /\ pc[k] = "threw"
    /\ IF TriesSpent(task[k])
       THEN Delete(task[k]) /\ Goto(k, "dead") /\ UNCHANGED task
       ELSE /\ jobs' = [jobs EXCEPT ![task[k]].state = "delayed"]
            /\ Free(k)
            /\ UNCHANGED lock
    /\ UNCHANGED <<tableVars, scan, paid, faults>>

(* handle() returned: release the lock, acknowledge.                        *)
Ack(k) ==
    /\ pc[k] = "ack"
    /\ Delete(task[k])
    /\ Free(k)
    /\ UNCHANGED <<tableVars, scan, paid, faults>>

Crash(k) ==
    /\ pc[k] # "idle"
    /\ Fault("crash")
    /\ Free(k)
    /\ UNCHANGED <<tableVars, scan, lock, jobs, paid>>

(* The timeout handler fails the job first when its attempts are used up,   *)
(* then kills the process.                                                  *)
Timeout(k) ==
    /\ pc[k] \in {"send", "accepted", "declined"}
    /\ Fault("timeout")
    /\ IF TriesSpent(task[k])
       THEN Delete(task[k]) /\ Goto(k, "dead") /\ UNCHANGED task
       ELSE Free(k) /\ UNCHANGED <<lock, jobs>>
    /\ UNCHANGED <<tableVars, scan, paid>>

----------------------------------------------------------------------------
(* handle().  W(k) is the withdrawal of the envelope the worker holds.      *)

W(k) == task[k][1]

PreCheck_Unreviewed(k) ==                    \* mutant of PreCheck
    /\ pc[k] = "precheck"
    /\ Goto(k, IF row[W(k)].status \in InFlight THEN "claim" ELSE "ack")
    /\ UNCHANGED <<tableVars, scan, lock, jobs, task, paid, faults>>

PreCheck(k) ==
    /\ pc[k] = "precheck"
    /\ Goto(k, IF row[W(k)].status \notin InFlight THEN "ack"
               ELSE IF row[W(k)].review THEN "hold"
               ELSE "claim")
    /\ UNCHANGED <<tableVars, scan, lock, jobs, task, paid, faults>>

(* $w->update(['status' => 'hold']): no WHERE on the status.                *)
HoldForReview(k) ==
    /\ pc[k] = "hold"
    /\ row' = [row EXCEPT ![W(k)].status = "hold"]
    /\ Goto(k, "ack")
    /\ UNCHANGED <<moneyVars, request, scan, lock, jobs, task, paid, faults>>

(* Zero affected rows: another worker or an admin settled it; bail out.     *)
Claim_AnyStatus(k) ==                        \* mutant of Claim
    /\ pc[k] = "claim"
    /\ row' = [row EXCEPT ![W(k)].status = "processing"]
    /\ Goto(k, "send")
    /\ UNCHANGED <<moneyVars, request, scan, lock, jobs, task, paid, faults>>

Claim(k) ==
    /\ pc[k] = "claim"
    /\ \/ ClaimRow(W(k)) /\ Goto(k, "send")
       \/ /\ row[W(k)].status \notin InFlight
          /\ Goto(k, "ack")
          /\ UNCHANGED tableVars
    /\ UNCHANGED <<scan, lock, jobs, task, paid, faults>>

(* PayoutGateway::send.  Between the transfer and the worker seeing the     *)
(* reply the worker may die: "accepted" is both.                            *)
GatewayAccepts(k) ==
    /\ pc[k] = "send"
    /\ paid[W(k)] < MaxTransfers
    /\ paid' = [paid EXCEPT ![W(k)] = @ + 1]
    /\ Goto(k, "accepted")
    /\ UNCHANGED <<tableVars, scan, lock, jobs, task, faults>>

GatewayDeclines(k) ==
    /\ pc[k] = "send"
    /\ Goto(k, "declined")
    /\ UNCHANGED <<tableVars, scan, lock, jobs, task, paid, faults>>

(* The transfer happened but its reply is lost.  An error reply is a failed *)
(* result; an operation timeout or an empty reply is a ConnectException,    *)
(* which the clients report as unreachable: the job is retried.             *)
GatewayAmbiguous(k) ==
    /\ pc[k] = "send"
    /\ paid[W(k)] < MaxTransfers
    /\ Fault("ambiguous")
    /\ paid' = [paid EXCEPT ![W(k)] = @ + 1]
    /\ Goto(k, "declined") \/ Goto(k, "threw")
    /\ UNCHANGED <<tableVars, scan, lock, jobs, task>>

(* The unreachable exceptions when nothing was transferred, or forMethod()  *)
(* for an unregistered gateway.                                             *)
GatewayUnreachable(k) ==
    /\ pc[k] = "send"
    /\ Goto(k, "threw")
    /\ UNCHANGED <<tableVars, scan, lock, jobs, task, paid, faults>>

Settle_AnyReply(k) ==                        \* mutant of Settle
    /\ pc[k] \in {"accepted", "declined"}
    /\ SettleSent(W(k))
    /\ Goto(k, "ack")
    /\ UNCHANGED <<scan, lock, jobs, task, paid, faults>>

Settle(k) ==
    /\ pc[k] = "accepted"
    /\ \/ SettleSent(W(k))
       \/ row[W(k)].status # "processing" /\ UNCHANGED tableVars
    /\ Goto(k, "ack")
    /\ UNCHANGED <<scan, lock, jobs, task, paid, faults>>

RefundOrSkip(w) ==
    MarkFailedAndRefund(w)
      \/ (row[w].status \notin InFlight /\ UNCHANGED tableVars)

FailAndRefund(k) ==
    /\ pc[k] = "declined"
    /\ RefundOrSkip(W(k))
    /\ Goto(k, "ack")
    /\ UNCHANGED <<scan, lock, jobs, task, paid, faults>>

(* The transaction raises: the UNIQUE index, or the database itself.        *)
SettleThrows(k) ==
    /\ \/ /\ pc[k] = "declined"
          /\ RefundAborts(W(k))
          /\ UNCHANGED faults
       \/ /\ pc[k] \in {"accepted", "declined"}
          /\ Fault("db_error")
    /\ Goto(k, "threw")
    /\ UNCHANGED <<tableVars, scan, lock, jobs, task, paid>>

----------------------------------------------------------------------------
(* failed(): the dead letter.  The envelope is already deleted.             *)

DeadLetter_LogsOnly(k) ==                    \* mutant of DeadLetter
    /\ pc[k] = "dead"
    /\ Free(k)
    /\ UNCHANGED <<tableVars, scan, lock, jobs, paid, faults>>

DeadLetter(k) ==
    /\ pc[k] = "dead"
    /\ RefundOrSkip(W(k)) \/ (RefundAborts(W(k)) /\ UNCHANGED tableVars)
    /\ Free(k)
    /\ UNCHANGED <<scan, lock, jobs, paid, faults>>

----------------------------------------------------------------------------
Send(k) == GatewayAccepts(k) \/ GatewayDeclines(k) \/ GatewayUnreachable(k)

Handle(k) == \/ PreCheck(k) \/ HoldForReview(k) \/ Claim(k) \/ Send(k)
             \/ Settle(k) \/ FailAndRefund(k) \/ Threw(k) \/ DeadLetter(k)
             \/ Ack(k)

WorkerStep(k) == \/ Handle(k) \/ GatewayAmbiguous(k) \/ SettleThrows(k)
                 \/ Crash(k) \/ Timeout(k)
                 \/ \E e \in Envelopes : Pop(k, e)

QueueStep == \/ CronScan
             \/ \E w \in Withdrawals : CronDispatch(w) \/ LockLost(w)
             \/ \E e \in Envelopes : Backoff(e) \/ Redeliver(e)

PayoutStep == QueueStep \/ \E k \in Workers : WorkerStep(k)

TableStep == (UserStep \/ AdminStep) /\ UNCHANGED jobVars

Next == TableStep \/ PayoutStep
Spec == Init /\ [][Next]_vars

(* With the edit form of the admin panel in use.                            *)
EditNext == Next \/ (EditStep /\ UNCHANGED jobVars)
EditSpec == Init /\ [][EditNext]_vars

(* The scheduler ticks, the worker containers are restarted, a gateway call *)
(* ends, one way or another, within its HTTP timeout.  Backoff and          *)
(* retry_after are clocks: they elapse although a cron tick may be running  *)
(* whenever they are looked at, hence SF; the queue is served in order.     *)
Fairness ==
    /\ WF_vars(CronScan)
    /\ \A w \in Withdrawals : WF_vars(CronDispatch(w))
    /\ \A k \in Workers : WF_vars(Handle(k))
    /\ \A e \in Envelopes :
         /\ SF_vars(Backoff(e))
         /\ SF_vars(Redeliver(e))
         /\ SF_vars(\E k \in Workers : Pop(k, e))

FairSpec == Spec /\ Fairness

----------------------------------------------------------------------------
(* handle()'s claim and the unique lock together call the gateway           *)
(* successfully at most once per withdrawal: no double payment.             *)
OneTransfer == \A w \in Withdrawals : paid[w] <= 1

(* A withdrawal shown as sent (or broadcast) was really handed to the       *)
(* gateway.                                                                 *)
SentMeansPaid ==
    \A w \in Withdrawals :
        row[w].status \in {"broadcast", "sent"} => paid[w] > 0

(* A withdrawal that needs review is not paid before an admin approved it,  *)
(* even when it was scanned, dispatched or claimed earlier.                 *)
ReviewedBeforePaid ==
    \A w \in Withdrawals : row[w].review => paid[w] = 0

(* No withdrawal is stranded: what is queued or processing is settled or    *)
(* refunded in the end.                                                     *)
InFlightSettles ==
    \A w \in Withdrawals :
        row[w].status \in InFlight ~> row[w].status \notin InFlight

(* The job adds nothing to the transactions of the tables: each of its      *)
(* steps is one of them or leaves the tables alone.                         *)
TablesOnly == TableSpec

(* As long as nothing fails the job keeps the whole contract: one transfer  *)
(* at most, paid exactly when it was accepted, refunded only when it was    *)
(* not.  A behaviour without faults keeps it to the end.                    *)
Contract == INSTANCE PayoutContract
               WITH phase <- [w \in Withdrawals |-> PhaseOf(w)],
                    avail <- balance,
                    transfer <- [w \in Withdrawals |->
                                   IF paid[w] = 0 THEN "none" ELSE "made"]

KeepsContract ==
    /\ Contract!ContractInit
    /\ [][faults' = 0 => Contract!ContractNext]_(Contract!contractVars)
============================================================================
