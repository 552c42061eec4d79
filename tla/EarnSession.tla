---------------------------- MODULE EarnSession ----------------------------
(***************************************************************************)
(* PTC views, shortlink clicks and article reads, and the claim pipeline   *)
(* they share (EarnSessionClaimService): load the row, consume a solved    *)
(* captcha, check the gates, then claim and credit in one transaction, or  *)
(* hand the captcha back.  The steps of one request are apart wherever     *)
(* another request can write between them.                                 *)
(***************************************************************************)
EXTENDS CaptchaChallenge, Earnings

CONSTANTS
    Requests,   \* HTTP requests to complete a session
    Kind,       \* the surface of each session, which has one offer
    Duration,   \* duration_sec of the PTC ad
    DailyLimit, \* daily_limit_per_user of each offer
    MaxBeats,   \* bound on the heartbeats of one view
    FaultKinds, \* what may go wrong: subset of Faults
    MaxFaults   \* how often it may go wrong

Sessions == Events
SessionUser == Earner
Surfaces == {"ptc", "shortlink", "article"}
Faults == {"crash",     \* the PHP process dies in the middle of a request
           "db_error"}  \* the credit transaction raises

ASSUME AccountsAssumption == Accounts \subseteq Users \cup {Nobody}
ASSUME KindAssumption == Kind \in [Sessions -> Surfaces]
ASSUME DurationAssumption == Duration \in Nat
ASSUME LimitAssumption == DailyLimit \in Nat
ASSUME BoundsAssumption ==
    MaxBeats \in Nat /\ FaultKinds \subseteq Faults /\ MaxFaults \in Nat

VARIABLES
    session,  \* ptc_views, shortlink_clicks, internal_article_views
    ripe,     \* sessions older than their minimum duration
    at,       \* where each request is in claim()
    claim,    \* the session, captcha and heartbeats each request has read
    faults,   \* faults so far
    spentOn,  \* history: the sessions rewarded for each captcha
    forfeit   \* history: captchas a turned-down or dead request had consumed

claimVars == <<at, claim>>
historyVars == <<spentOn, forfeit>>
earnVars == <<captchaVars, moneyVars, session, ripe, claimVars, faults,
              historyVars>>

(* PHP's max(3, ceil(duration / 2)) and ceil(0.7 * expected).               *)
HeartbeatsExpected ==
    LET half == (Duration + 1) \div 2 IN IF half < 3 THEN 3 ELSE half
MinHeartbeats == (7 * HeartbeatsExpected + 9) \div 10

SessionRow == [status : {"none", "pending", "verified", "rejected"},
               beats : Nat]
NoClaim == <<>>
Claims == [s : Sessions, c : Challenges, beats : Nat]
Holding == {"gate", "credit", "undo"}

EarnTypeOK ==
    /\ CaptchaTypeOK
    /\ MoneyTypeOK
    /\ session \in [Sessions -> SessionRow]
    /\ ripe \subseteq Sessions
    /\ at \in [Requests -> {"idle", "loaded"} \cup Holding]
    /\ claim \in [Requests -> Claims \cup {NoClaim}]
    /\ \A r \in Requests : at[r] # "idle" => claim[r] \in Claims
    /\ faults \in Nat
    /\ spentOn \in [Challenges -> SUBSET Sessions]
    /\ forfeit \subseteq Challenges

EarnInit ==
    /\ CaptchaInit
    /\ MoneyInit
    /\ session = [s \in Sessions |-> [status |-> "none", beats |-> 0]]
    /\ ripe = {}
    /\ at = [r \in Requests |-> "idle"]
    /\ claim = [r \in Requests |-> NoClaim]
    /\ faults = 0
    /\ spentOn = [c \in Challenges |-> {}]
    /\ forfeit = {}

Fault(kind) ==
    /\ kind \in FaultKinds
    /\ faults < MaxFaults
    /\ faults' = faults + 1

SetSession(s, status) == session' = [session EXCEPT ![s].status = status]

----------------------------------------------------------------------------
(* start() of the three controllers.  The limit counts the user's verified  *)
(* sessions of the offer; the pending ones are not counted, so reading the  *)
(* count and inserting the row in one step loses nothing.                   *)

VerifiedToday(s) ==
    {t \in Sessions : /\ SessionUser[t] = SessionUser[s]
                      /\ Kind[t] = Kind[s]
                      /\ session[t].status = "verified"}

Start(s) ==
    /\ session[s].status = "none"
    /\ Cardinality(VerifiedToday(s)) < DailyLimit
    /\ SetSession(s, "pending")
    /\ UNCHANGED <<captchaVars, moneyVars, ripe, claimVars, faults,
                   historyVars>>

Heartbeat(s) ==
    /\ Kind[s] = "ptc"
    /\ session[s].status = "pending"
    /\ session[s].beats < MaxBeats
    /\ session' = [session EXCEPT ![s].beats = @ + 1]
    /\ UNCHANGED <<captchaVars, moneyVars, ripe, claimVars, faults,
                   historyVars>>

(* The minimum duration of s has passed since started_at; afterwards it no  *)
(* longer matters.                                                          *)
Ripen(s) ==
    /\ session[s].status = "pending"
    /\ s \notin ripe
    /\ ripe' = ripe \cup {s}
    /\ UNCHANGED <<captchaVars, moneyVars, session, claimVars, faults,
                   historyVars>>

----------------------------------------------------------------------------
(* EarnSessionClaimService::claim.                                          *)

Goto(r, place) ==
    at' = [at EXCEPT ![r] = place] /\ UNCHANGED claim
Answer_NoReturn(r) ==                        \* mutant of Answer
    /\ claim' = [claim EXCEPT ![r] = NoClaim]
    /\ UNCHANGED at
Answer(r) ==
    /\ at' = [at EXCEPT ![r] = "idle"]
    /\ claim' = [claim EXCEPT ![r] = NoClaim]

(* The row is loaded for the calling user; what is not pending is refused.  *)
Load(r, s, c) ==
    /\ at[r] = "idle"
    /\ session[s].status = "pending"
    /\ at' = [at EXCEPT ![r] = "loaded"]
    /\ claim' = [claim EXCEPT ![r] =
                   [s |-> s, c |-> c, beats |-> session[s].beats]]
    /\ UNCHANGED <<captchaVars, moneyVars, session, ripe, faults, historyVars>>

ConsumeCaptcha(r) ==
    LET c == claim[r].c
        u == SessionUser[claim[r].s]
    IN  /\ at[r] = "loaded"
        /\ \/ Consume(c, u) /\ Goto(r, "gate")
           \/ ~ Consumable(c, u) /\ Answer(r) /\ UNCHANGED captchaVars
        /\ UNCHANGED <<moneyVars, session, ripe, faults, historyVars>>

NoDeficit(r) == FALSE                        \* mutant of Deficit
Deficit(r)   == Kind[claim[r].s] = "ptc" /\ claim[r].beats < MinHeartbeats
MayPass(r)   == ~ Deficit(r) /\ claim[r].s \in ripe

(* rejectRow saves the loaded model: no WHERE on the status.                *)
Gate(r) ==
    /\ at[r] = "gate"
    /\ \/ MayPass(r) /\ Goto(r, "credit") /\ UNCHANGED <<session, forfeit>>
       \/ /\ ~ MayPass(r)
          /\ SetSession(claim[r].s, "rejected")
          /\ forfeit' = forfeit \cup {claim[r].c}
          /\ Answer(r)
    /\ UNCHANGED <<captchaVars, moneyVars, ripe, faults, spentOn>>

NotEarned(s)  == s \notin Rewarded           \* mutant of Claimable
Claimable(s)  == session[s].status = "pending"

(* The transaction: UPDATE ... WHERE pending, ledger row, balances,         *)
(* referral commission.                                                     *)
Credit(r) ==
    LET s == claim[r].s
        c == claim[r].c
    IN  /\ at[r] = "credit"
        /\ \/ /\ Claimable(s)
              /\ SetSession(s, "verified")
              /\ Grant(s)
              /\ spentOn' = [spentOn EXCEPT ![c] = @ \cup {s}]
              /\ Answer(r)
           \/ /\ ~ Claimable(s)
              /\ Goto(r, "undo")
              /\ UNCHANGED <<moneyVars, session, spentOn>>
        /\ UNCHANGED <<captchaVars, ripe, faults, forfeit>>

(* Mutant of CreditFails: the claim is committed apart from the credit.     *)
CreditFails_Claimed(r) ==
    /\ at[r] = "credit"
    /\ Claimable(claim[r].s)
    /\ Fault("db_error")
    /\ SetSession(claim[r].s, "verified")
    /\ Goto(r, "undo")
    /\ UNCHANGED <<captchaVars, moneyVars, ripe, historyVars>>

(* The transaction raises and is rolled back.                               *)
CreditFails(r) ==
    /\ at[r] = "credit"
    /\ Claimable(claim[r].s)
    /\ Fault("db_error")
    /\ Goto(r, "undo")
    /\ UNCHANGED <<captchaVars, moneyVars, session, ripe, historyVars>>

Undo(r) ==
    /\ at[r] = "undo"
    /\ Unconsume(claim[r].c, SessionUser[claim[r].s])
    /\ Answer(r)
    /\ UNCHANGED <<moneyVars, session, ripe, faults, historyVars>>

Die(r) ==
    /\ at[r] # "idle"
    /\ Fault("crash")
    /\ forfeit' = forfeit \cup (IF at[r] \in Holding THEN {claim[r].c} ELSE {})
    /\ Answer(r)
    /\ UNCHANGED <<captchaVars, moneyVars, session, ripe, spentOn>>

----------------------------------------------------------------------------
RequestStep(r) ==
    \/ \E s \in Sessions, c \in Challenges : Load(r, s, c)
    \/ ConsumeCaptcha(r) \/ Gate(r) \/ Credit(r) \/ CreditFails(r)
    \/ Undo(r) \/ Die(r)

EarnNext ==
    \/ /\ CaptchaStep
       /\ UNCHANGED <<moneyVars, session, ripe, claimVars, faults, historyVars>>
    \/ \E s \in Sessions : Start(s) \/ Heartbeat(s) \/ Ripen(s)
    \/ \E r \in Requests : RequestStep(r)

EarnSpec == EarnInit /\ [][EarnNext]_earnVars

----------------------------------------------------------------------------
Held(c) == \E r \in Requests : at[r] \in Holding /\ claim[r].c = c

(* A captcha pays for at most one session, of the user who solved it: "a    *)
(* replay of the same challenge_id against another claim returns false"     *)
(* (CaptchaConsumer:32-35).                                                 *)
OneRewardPerSolve ==
    \A c \in Challenges :
        /\ \A s, t \in spentOn[c] : s = t
        /\ \A s \in spentOn[c] : SessionUser[s] = challenge[c].owner

(* A consumed captcha is in the hands of a request, has paid for a session, *)
(* or was forfeited by a request that was turned down or died: losing the   *)
(* race for a session, or a failed transaction, gives it back               *)
(* (EarnSessionClaimService:103-111, 162-167).                              *)
NoSilentLoss ==
    \A c \in Challenges : challenge[c].status = "consumed" =>
        Held(c) \/ spentOn[c] # {} \/ c \in forfeit

(* The status shown to the user agrees with the ledger: verified is paid,   *)
(* pending is not (EarnSessionClaimService:114-156).                        *)
StatusMatchesLedger ==
    \A s \in Sessions :
        /\ session[s].status = "verified" => s \in Rewarded
        /\ session[s].status \in {"none", "pending"} => s \notin Rewarded

MostOf(beats) == 10 * beats >= 7 * HeartbeatsExpected

(* Only what was watched is paid: the time has passed, and 70% of a view's  *)
(* heartbeats arrived (PtcController:174-183).                              *)
RipeOnly ==
    \A s \in Rewarded :
        /\ s \in ripe
        /\ Kind[s] = "ptc" => MostOf(session[s].beats)

(* A session that was turned down is never paid later, by any of the        *)
(* requests that had loaded it while it was pending.                        *)
RejectedStaysUnpaid ==
    [][\A s \in Sessions :
           session[s].status = "rejected" /\ s \notin Rewarded
               => s \notin Rewarded']_earnVars

(* Why these hold when no two traces of one captcha are in flight: the       *)
(* verdict of a verifier meets the row still unresolved, and a consumed      *)
(* captcha has one holder until it is paid, given back or forfeited.         *)
LateIsIssued == \A c \in late : challenge[c].status = "issued"

CheckedIsOpen ==
    /\ \A v \in Verifiers : checking[v] # NoCheck =>
          challenge[checking[v].id].status \in {"issued", "expired"}
    /\ \A v, w \in Verifiers :
          /\ checking[v] # NoCheck /\ checking[w] # NoCheck
          /\ checking[v].id = checking[w].id
          => v = w

HolderOwns ==
    \A r \in Requests : at[r] \in Holding =>
        /\ challenge[claim[r].c].status = "consumed"
        /\ challenge[claim[r].c].owner = SessionUser[claim[r].s]
        /\ spentOn[claim[r].c] = {}
        /\ \A q \in Requests :
              at[q] \in Holding /\ claim[q].c = claim[r].c => q = r

SpentIsConsumed ==
    \A c \in Challenges : spentOn[c] # {} => challenge[c].status = "consumed"

SolveInv ==
    /\ EarnTypeOK /\ LateIsIssued /\ CheckedIsOpen /\ HolderOwns
    /\ SpentIsConsumed /\ OneRewardPerSolve /\ NoSilentLoss

(* And why what is paid was watched: a request carries no more heartbeats    *)
(* than its session has, and has passed the gates before it credits.         *)
GatePassed ==
    \A r \in Requests : at[r] # "idle" =>
        /\ claim[r].beats <= session[claim[r].s].beats
        /\ at[r] \in {"credit", "undo"} => MayPass(r)

WatchInv == EarnTypeOK /\ GatePassed /\ RipeOnly

(* The claim pipeline implements SolvePromise: a captcha counts as solved   *)
(* while a request holds it, and as lost once nothing can resolve it.       *)
SolveOf(c) ==
    IF spentOn[c] # {} THEN "spent"
    ELSE IF challenge[c].status = "verified" \/ Held(c) THEN "solved"
    ELSE IF challenge[c].status \in {"none", "issued"} \/ BeingChecked(c)
         THEN "open"
    ELSE "lost"

Promise == INSTANCE SolvePromise WITH
    solve   <- [c \in Challenges |-> SolveOf(c)],
    rewards <- Rewarded

KeepsSolvePromise == Promise!SolveSpec
============================================================================
