-------------------------- MODULE PostbackCallback --------------------------
(***************************************************************************)
(* BitcoTaskCallbackController and the server of BitcoTasks that calls it: *)
(* a postback is sent again, in any order with others, until one reply     *)
(* says ok.  The events of Earnings are postbacks here; Reward is the      *)
(* amount of either sign.                                                  *)
(***************************************************************************)
EXTENDS Earnings

CONSTANTS
    Trans,    \* transId of each postback
    Outcome,  \* what it says: completed, chargeback, or nothing to account
              \* (debug=1, unknown subId, another status code)
    MaxCopies \* bound on the copies of one postback in flight

ASSUME OutcomeAssumption ==
    Outcome \in [Events -> {"completed", "chargeback", "ignored"}]
ASSUME CopiesAssumption == MaxCopies \in Nat

VARIABLES
    copies,    \* of each postback, requests on their way
    replies,   \* postbacks with an ok on its way back
    stopped,   \* those BitcoTasks sends no more: it has read ok
    converts   \* usd_to_sat is set; it does not change between deployments

deliveryVars == <<copies, replies, stopped>>
postbackVars == <<moneyVars, deliveryVars, converts>>

PostbackTypeOK ==
    /\ earned \subseteq {"reward", "referral_commission", "chargeback"} \X Events
    /\ wallet \in [Users -> Int]
    /\ copies \in [Events -> 0..MaxCopies]
    /\ replies \subseteq Events /\ stopped \subseteq Events
    /\ converts \in BOOLEAN

PostbackInit ==
    /\ MoneyInit
    /\ copies = [p \in Events |-> 0]
    /\ replies = {} /\ stopped = {}
    /\ converts \in BOOLEAN

(* The UNIQUE index on (reason, external_ref).                              *)
Ledgered(p) == <<"reward", p>> \in earned \/ <<"chargeback", p>> \in earned
Taken_SamePostback(p) == Ledgered(p)         \* mutant of Taken
Taken(p) == \E q \in Events : Trans[q] = Trans[p] /\ Ledgered(q)

----------------------------------------------------------------------------
(* BitcoTasks: the first attempt, and again while it has read no ok.        *)
Post(p) ==
    /\ p \notin stopped
    /\ copies[p] < MaxCopies
    /\ copies' = [copies EXCEPT ![p] = @ + 1]
    /\ UNCHANGED <<moneyVars, replies, stopped, converts>>

ReadOk(p) ==
    /\ p \in replies
    /\ replies' = replies \ {p}
    /\ stopped' = stopped \cup {p}
    /\ UNCHANGED <<moneyVars, copies, converts>>

LoseReply(p) ==
    /\ p \in replies
    /\ replies' = replies \ {p}
    /\ UNCHANGED <<moneyVars, copies, stopped, converts>>

----------------------------------------------------------------------------
(* __invoke() takes one copy, and answers ok or otherwise.                  *)
Receive(p) == copies[p] > 0 /\ copies' = [copies EXCEPT ![p] = @ - 1]
Ok(p) == replies' = replies \cup {p} /\ UNCHANGED stopped
NotOk == UNCHANGED <<replies, stopped>>

(* Lost on the way, 401, 503, or an exception that rolled the transaction   *)
(* back and is thrown on.                                                   *)
Refuse_AnyQueryException(p) ==               \* mutant of Refuse
    /\ Receive(p)
    /\ Ok(p) \/ NotOk
    /\ UNCHANGED <<moneyVars, converts>>
Refuse(p) ==
    /\ Receive(p)
    /\ NotOk
    /\ UNCHANGED <<moneyVars, converts>>

Ignore(p) ==
    /\ Outcome[p] = "ignored"
    /\ Receive(p)
    /\ Ok(p)
    /\ UNCHANGED <<moneyVars, converts>>

(* delta_sat = 0: no row.                                                   *)
Shrug(p) ==
    /\ Outcome[p] # "ignored"
    /\ ~ converts
    /\ Receive(p)
    /\ Ok(p)
    /\ UNCHANGED <<moneyVars, converts>>

Duplicate(p) ==
    /\ Outcome[p] # "ignored" /\ converts
    /\ Taken(p)
    /\ Receive(p)
    /\ Ok(p)
    /\ UNCHANGED <<moneyVars, converts>>

(* The commission of settle() comes in the same transaction.                *)
Credit(p) ==
    /\ Outcome[p] = "completed" /\ converts
    /\ ~ Taken(p)
    /\ Grant(p)
    /\ Receive(p)
    /\ Ok(p)
    /\ UNCHANGED converts

(* The balance may go below zero; a commission is not taken back.           *)
Chargeback(p) ==
    /\ Outcome[p] = "chargeback" /\ converts
    /\ ~ Taken(p)
    /\ earned' = earned \cup {<<"chargeback", p>>}
    /\ wallet' = [wallet EXCEPT ![Earner[p]] = @ - Reward[p]]
    /\ Receive(p)
    /\ Ok(p)
    /\ UNCHANGED converts

PostbackNext ==
    \E p \in Events :
        \/ Post(p) \/ ReadOk(p) \/ LoseReply(p)
        \/ Refuse(p) \/ Ignore(p) \/ Shrug(p)
        \/ Duplicate(p) \/ Credit(p) \/ Chargeback(p)

PostbackSpec == PostbackInit /\ [][PostbackNext]_postbackVars

----------------------------------------------------------------------------
(* However often and in whatever order postbacks arrive, overlapping,       *)
(* resent for hours or after a reply was lost, one per transId at most      *)
(* moves money.                                                             *)
OnePerTrans ==
    \A p, q \in Events :
        Trans[p] = Trans[q] /\ Ledgered(p) /\ Ledgered(q) => p = q

(* Once BitcoTasks stops sending a postback, it or another of its transId   *)
(* is in the ledger, if there is a rate: a transaction that failed never    *)
(* passes for a duplicate.                                                  *)
StoppedMeansLedgered ==
    \A p \in stopped : converts /\ Outcome[p] # "ignored" => Taken(p)
=============================================================================
