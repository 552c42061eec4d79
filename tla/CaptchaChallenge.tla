-------------------------- MODULE CaptchaChallenge --------------------------
(***************************************************************************)
(* The `captcha_challenges` table: issued by ChallengeBuilder, resolved by *)
(* ChallengeVerifier, spent and given back by CaptchaConsumer, expired and *)
(* pruned by satpeek:cleanup-captcha.  The verifier reads the row, checks  *)
(* the trace and saves the model without a WHERE on the status: the read   *)
(* and the write are two steps.                                            *)
(***************************************************************************)
EXTENDS Integers, FiniteSets

CONSTANTS
    Challenges,        \* challenge ids
    Accounts,          \* who may ask for one: the users and the guest
    Verifiers,         \* HTTP requests that post a trace
    OverlappingVerify  \* may two traces for one challenge be in flight?

ASSUME OverlappingAssumption == OverlappingVerify \in BOOLEAN

VARIABLES
    challenge, \* the rows: status and user_id
    late,      \* issued challenges past their expires_at
    checking   \* the challenge each verifier has read

captchaVars == <<challenge, late, checking>>

ChallengeStatuses ==
    {"none", "issued", "verified", "rejected", "expired", "consumed", "pruned"}
Resolved == {"verified", "rejected", "expired"}
NoCheck == <<>>

(* A verifier remembers the id it read and whether the TTL was exceeded.    *)
Checks == [id : Challenges, late : BOOLEAN]

CaptchaTypeOK ==
    /\ challenge \in [Challenges -> [status : ChallengeStatuses,
                                     owner : Accounts]]
    /\ late \subseteq Challenges
    /\ checking \in [Verifiers -> Checks \cup {NoCheck}]

CaptchaInit ==
    /\ challenge \in [Challenges -> [status : {"none"}, owner : Accounts]]
    /\ late = {}
    /\ checking = [v \in Verifiers |-> NoCheck]

(* Every change of status leaves "issued", where the deadline mattered.     *)
SetStatus(c, status) ==
    /\ challenge' = [challenge EXCEPT ![c].status = status]
    /\ late' = late \ {c}

(* ChallengeBuilder::issue; the id is random and never issued again.  The   *)
(* row's user_id is the one the initial state chose for it.                 *)
Issue(c) ==
    /\ challenge[c].status = "none"
    /\ SetStatus(c, "issued")
    /\ UNCHANGED checking

Lapse(c) ==
    /\ challenge[c].status = "issued"
    /\ c \notin late
    /\ late' = late \cup {c}
    /\ UNCHANGED <<challenge, checking>>

----------------------------------------------------------------------------
(* ChallengeVerifier::verify.                                               *)

BeingChecked(c) ==
    \E v \in Verifiers : checking[v] # NoCheck /\ checking[v].id = c

AnyStatus(c) == challenge[c].status # "none" \* mutant of Open
Open(c)      == challenge[c].status = "issued"

VerifyRead(v, c) ==
    /\ checking[v] = NoCheck
    /\ Open(c)
    /\ OverlappingVerify \/ ~ BeingChecked(c)
    /\ checking' = [checking EXCEPT ![v] = [id |-> c, late |-> c \in late]]
    /\ UNCHANGED <<challenge, late>>

(* The provider's verdict on the trace is either one.                       *)
VerifyWrite(v) ==
    /\ checking[v] # NoCheck
    /\ \/ checking[v].late /\ SetStatus(checking[v].id, "expired")
       \/ /\ ~ checking[v].late
          /\ \E verdict \in {"verified", "rejected"} :
               SetStatus(checking[v].id, verdict)
    /\ checking' = [checking EXCEPT ![v] = NoCheck]

----------------------------------------------------------------------------
(* satpeek:cleanup-captcha: two bulk statements.  Rows are pruned 30 days   *)
(* after their last change, when no request can still be checking them;     *)
(* consumed rows stay.                                                      *)

CleanupExpire ==
    /\ late # {}
    /\ challenge' = [c \in Challenges |->
                       IF c \in late
                       THEN [challenge[c] EXCEPT !.status = "expired"]
                       ELSE challenge[c]]
    /\ late' = {}
    /\ UNCHANGED checking

CleanupPrune(c) ==
    /\ challenge[c].status \in Resolved
    /\ ~ BeingChecked(c)
    /\ SetStatus(c, "pruned")
    /\ UNCHANGED checking

----------------------------------------------------------------------------
(* CaptchaConsumer: each a transaction of its own.                          *)

Consumable_Replay(c, u) ==                   \* mutant of Consumable
    challenge[c].status \in {"verified", "consumed"} /\ challenge[c].owner = u
Consumable(c, u) ==
    challenge[c].status = "verified" /\ challenge[c].owner = u

Consume(c, u) ==
    /\ Consumable(c, u)
    /\ SetStatus(c, "consumed")
    /\ UNCHANGED checking

KeepConsumed(c, u) == UNCHANGED captchaVars  \* mutant of Unconsume
Unconsume(c, u) ==
    /\ IF challenge[c].status = "consumed" /\ challenge[c].owner = u
       THEN SetStatus(c, "verified")
       ELSE UNCHANGED <<challenge, late>>
    /\ UNCHANGED checking

CaptchaStep ==
    \/ \E c \in Challenges :
         \/ Issue(c) \/ Lapse(c) \/ CleanupPrune(c)
         \/ \E v \in Verifiers : VerifyRead(v, c)
    \/ \E v \in Verifiers : VerifyWrite(v)
    \/ CleanupExpire
============================================================================
