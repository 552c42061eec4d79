------------------------- MODULE EarnSession_proofs -------------------------
(***************************************************************************)
(* What the claim pipeline guarantees for any number of users, sessions,   *)
(* captchas, requests and faults, and any percentages.                     *)
(***************************************************************************)
EXTENDS EarnSession, Earnings_proofs

(* The rows have their fields, whichever one is changed.                    *)
LEMMA SetStatusRow ==
  ASSUME CaptchaTypeOK, NEW c \in Challenges, NEW status \in ChallengeStatuses,
         SetStatus(c, status)
  PROVE  /\ challenge' \in [Challenges -> [status : ChallengeStatuses,
                                           owner : Accounts]]
         /\ late' \subseteq Challenges
         /\ \A d \in Challenges :
              /\ challenge'[d].owner = challenge[d].owner
              /\ challenge'[d].status =
                   IF d = c THEN status ELSE challenge[d].status
  BY DEF CaptchaTypeOK, SetStatus

LEMMA CaptchaStepType ==
  ASSUME CaptchaTypeOK, CaptchaStep PROVE CaptchaTypeOK'
<1> USE DEF ChallengeStatuses, Resolved
<1>1. ASSUME NEW c \in Challenges, Issue(c) PROVE CaptchaTypeOK'
  BY <1>1, SetStatusRow DEF Issue, CaptchaTypeOK
<1>2. ASSUME NEW c \in Challenges, Lapse(c) PROVE CaptchaTypeOK'
  BY <1>2 DEF Lapse, CaptchaTypeOK
<1>3. ASSUME NEW c \in Challenges, CleanupPrune(c) PROVE CaptchaTypeOK'
  BY <1>3, SetStatusRow DEF CleanupPrune, CaptchaTypeOK
<1>4. ASSUME NEW v \in Verifiers, NEW c \in Challenges, VerifyRead(v, c)
      PROVE CaptchaTypeOK'
  BY <1>4 DEF VerifyRead, CaptchaTypeOK, Checks
<1>5. ASSUME NEW v \in Verifiers, VerifyWrite(v) PROVE CaptchaTypeOK'
  <2>1. checking[v].id \in Challenges
    BY <1>5 DEF VerifyWrite, CaptchaTypeOK, Checks
  <2>2. PICK status \in ChallengeStatuses : SetStatus(checking[v].id, status)
    BY <1>5 DEF VerifyWrite
  <2>3. QED BY <1>5, <2>1, <2>2, SetStatusRow DEF VerifyWrite, CaptchaTypeOK
<1>6. ASSUME CleanupExpire PROVE CaptchaTypeOK'
  BY <1>6 DEF CleanupExpire, CaptchaTypeOK
<1>7. QED BY <1>1, <1>2, <1>3, <1>4, <1>5, <1>6 DEF CaptchaStep

(* What the issuing, verifying and cleaning side does while no trace is     *)
(* posted twice at once: it neither consumes a captcha nor frees one.       *)
LEMMA ConsumedUntouched ==
  ASSUME CaptchaTypeOK, LateIsIssued, CheckedIsOpen, CaptchaStep
  PROVE  \A c \in Challenges :
           /\ challenge'[c].owner = challenge[c].owner
           /\ challenge'[c].status = "consumed"
                <=> challenge[c].status = "consumed"
<1> USE DEF ChallengeStatuses, Resolved
<1> SUFFICES ASSUME NEW d \in Challenges
    PROVE /\ challenge'[d].owner = challenge[d].owner
          /\ challenge'[d].status = "consumed"
               <=> challenge[d].status = "consumed"
  OBVIOUS
<1>1. ASSUME NEW c \in Challenges, NEW status \in ChallengeStatuses,
             SetStatus(c, status), status # "consumed",
             challenge[c].status # "consumed"
      PROVE /\ challenge'[d].owner = challenge[d].owner
            /\ challenge'[d].status = "consumed"
                 <=> challenge[d].status = "consumed"
  BY <1>1, SetStatusRow
<1>2. CASE \E c \in Challenges : Issue(c) \/ CleanupPrune(c)
  BY <1>1, <1>2 DEF Issue, CleanupPrune
<1>3. CASE \E c \in Challenges :
             Lapse(c) \/ \E v \in Verifiers : VerifyRead(v, c)
  BY <1>3 DEF Lapse, VerifyRead
<1>4. CASE \E v \in Verifiers : VerifyWrite(v)
  <2>1. PICK v \in Verifiers : VerifyWrite(v) BY <1>4
  <2>2. /\ checking[v].id \in Challenges
        /\ challenge[checking[v].id].status \in {"issued", "expired"}
    BY <2>1 DEF VerifyWrite, CaptchaTypeOK, Checks, CheckedIsOpen
  <2>3. PICK status \in {"verified", "rejected", "expired"} :
          SetStatus(checking[v].id, status)
    BY <2>1 DEF VerifyWrite
  <2>4. QED BY <2>2, <2>3, <1>1
<1>5. CASE CleanupExpire
  BY <1>5 DEF CleanupExpire, LateIsIssued, CaptchaTypeOK
<1>6. QED BY <1>2, <1>3, <1>4, <1>5 DEF CaptchaStep

LEMMA CaptchaStepOrder ==
  ASSUME ~ OverlappingVerify, CaptchaTypeOK, LateIsIssued, CheckedIsOpen,
         CaptchaStep
  PROVE  LateIsIssued' /\ CheckedIsOpen'
<1> USE DEF ChallengeStatuses, Resolved, LateIsIssued, CheckedIsOpen
<1>1. ASSUME NEW c \in Challenges, Issue(c) \/ CleanupPrune(c)
      PROVE LateIsIssued' /\ CheckedIsOpen'
  <2>1. PICK status \in ChallengeStatuses : SetStatus(c, status)
    BY <1>1 DEF Issue, CleanupPrune
  <2>2. /\ checking' = checking
        /\ late' = late \ {c}
        /\ \A v \in Verifiers : checking[v] # NoCheck =>
             checking[v].id \in Challenges /\ checking[v].id # c
    BY <1>1, <2>1
       DEF Issue, CleanupPrune, BeingChecked, SetStatus, CaptchaTypeOK, Checks
  <2>3. QED BY <2>1, <2>2, SetStatusRow DEF CaptchaTypeOK
<1>2. ASSUME NEW c \in Challenges, Lapse(c)
      PROVE LateIsIssued' /\ CheckedIsOpen'
  BY <1>2 DEF Lapse
<1>3. ASSUME NEW v \in Verifiers, NEW c \in Challenges, VerifyRead(v, c)
      PROVE LateIsIssued' /\ CheckedIsOpen'
  BY <1>3 DEF VerifyRead, Open, BeingChecked, CaptchaTypeOK, Checks
<1>4. ASSUME NEW v \in Verifiers, VerifyWrite(v)
      PROVE LateIsIssued' /\ CheckedIsOpen'
  <2> DEFINE c == checking[v].id
  <2>1. c \in Challenges BY <1>4 DEF VerifyWrite, CaptchaTypeOK, Checks
  <2>2. PICK status \in ChallengeStatuses : SetStatus(c, status)
    BY <1>4 DEF VerifyWrite
  <2>3. late' = late \ {c} BY <2>2 DEF SetStatus
  <2>4. \A w \in Verifiers :
          checking'[w] = IF w = v THEN NoCheck ELSE checking[w]
    BY <1>4 DEF VerifyWrite, CaptchaTypeOK
  <2>5. \A w \in Verifiers : checking[w] # NoCheck /\ w # v =>
          checking[w].id \in Challenges /\ checking[w].id # c
    BY <1>4 DEF VerifyWrite, CaptchaTypeOK, Checks
  <2>6. QED BY <2>1, <2>2, <2>3, <2>4, <2>5, SetStatusRow DEF CaptchaTypeOK
<1>5. ASSUME CleanupExpire PROVE LateIsIssued' /\ CheckedIsOpen'
  BY <1>5 DEF CleanupExpire, CaptchaTypeOK, Checks
<1>6. QED BY <1>1, <1>2, <1>3, <1>4, <1>5 DEF CaptchaStep

----------------------------------------------------------------------------
(* Types.                                                                   *)

(* What a request that is not idle carries.                                 *)
LEMMA ClaimFields ==
  ASSUME EarnTypeOK, NEW r \in Requests, at[r] # "idle"
  PROVE  /\ claim[r].s \in Sessions /\ claim[r].s \in Events
         /\ claim[r].c \in Challenges
         /\ claim[r].beats \in Nat
         /\ SessionUser[claim[r].s] \in Users
  BY EarnerAssumption DEF EarnTypeOK, Claims, Sessions, SessionUser

LEMMA SetSessionType ==
  ASSUME EarnTypeOK, NEW s \in Sessions,
         NEW status \in {"none", "pending", "verified", "rejected"},
         SetSession(s, status)
  PROVE  /\ session' \in [Sessions -> SessionRow]
         /\ \A t \in Sessions :
              /\ session'[t].beats = session[t].beats
              /\ session'[t].status =
                   IF t = s THEN status ELSE session[t].status
  BY DEF EarnTypeOK, SessionRow, SetSession

LEMMA TypeInit == EarnInit => EarnTypeOK
  BY DEF EarnInit, EarnTypeOK, CaptchaInit, CaptchaTypeOK, ChallengeStatuses,
     MoneyInit, MoneyTypeOK, SessionRow

LEMMA ConsumeType ==
  ASSUME CaptchaTypeOK, NEW c \in Challenges, NEW u,
         Consume(c, u) \/ Unconsume(c, u)
  PROVE  CaptchaTypeOK'
<1>1. CASE \E status \in {"consumed", "verified"} : SetStatus(c, status)
  BY <1>1, SetStatusRow
     DEF Consume, Unconsume, CaptchaTypeOK, ChallengeStatuses
<1>2. CASE UNCHANGED captchaVars
  BY <1>2 DEF captchaVars, CaptchaTypeOK
<1>3. QED BY <1>1, <1>2 DEF Consume, Unconsume, captchaVars

LEMMA TypeStep == EarnTypeOK /\ [EarnNext]_earnVars => EarnTypeOK'
<1> SUFFICES ASSUME EarnTypeOK, [EarnNext]_earnVars PROVE EarnTypeOK'
  OBVIOUS
<1> USE DEF captchaVars, moneyVars, claimVars, historyVars, Holding
<1>1. ASSUME CaptchaStep,
             UNCHANGED <<moneyVars, session, ripe, claimVars, faults,
                         historyVars>>
      PROVE EarnTypeOK'
  BY <1>1, CaptchaStepType DEF EarnTypeOK, MoneyTypeOK
<1>2. ASSUME NEW s \in Sessions, Start(s) \/ Heartbeat(s) \/ Ripen(s)
      PROVE EarnTypeOK'
  <2>1. session' \in [Sessions -> SessionRow]
    BY <1>2, SetSessionType DEF Start, Heartbeat, Ripen, EarnTypeOK, SessionRow
  <2>2. ripe' \subseteq Sessions
    BY <1>2 DEF Start, Heartbeat, Ripen, EarnTypeOK
  <2>3. QED
    BY <1>2, <2>1, <2>2
       DEF Start, Heartbeat, Ripen, EarnTypeOK, CaptchaTypeOK, MoneyTypeOK
<1>3. ASSUME NEW r \in Requests, NEW s \in Sessions, NEW c \in Challenges,
             Load(r, s, c)
      PROVE EarnTypeOK'
  <2>1. [s |-> s, c |-> c, beats |-> session[s].beats] \in Claims
    BY DEF EarnTypeOK, SessionRow, Claims
  <2>2. QED
    BY <1>3, <2>1 DEF Load, EarnTypeOK, CaptchaTypeOK, MoneyTypeOK
<1>4. ASSUME NEW r \in Requests, ConsumeCaptcha(r) PROVE EarnTypeOK'
  <2>1. CaptchaTypeOK'
    BY <1>4, ClaimFields, ConsumeType
       DEF ConsumeCaptcha, EarnTypeOK, CaptchaTypeOK
  <2>2. QED
    BY <1>4, <2>1 DEF ConsumeCaptcha, Goto, Answer, EarnTypeOK, MoneyTypeOK
<1>5. ASSUME NEW r \in Requests, Gate(r) PROVE EarnTypeOK'
  <2>1. session' \in [Sessions -> SessionRow] /\ forfeit' \subseteq Challenges
    BY <1>5, ClaimFields, SetSessionType DEF Gate, EarnTypeOK
  <2>2. QED
    BY <1>5, <2>1
       DEF Gate, Goto, Answer, EarnTypeOK, CaptchaTypeOK, MoneyTypeOK
<1>6. ASSUME NEW r \in Requests, Credit(r) PROVE EarnTypeOK'
  <2>1. session' \in [Sessions -> SessionRow]
    BY <1>6, ClaimFields, SetSessionType DEF Credit, EarnTypeOK
  <2>2. MoneyTypeOK'
    BY <1>6, ClaimFields, GrantType DEF Credit, EarnTypeOK, MoneyTypeOK
  <2>3. spentOn' \in [Challenges -> SUBSET Sessions]
    BY <1>6, ClaimFields DEF Credit, EarnTypeOK
  <2>4. QED
    BY <1>6, <2>1, <2>2, <2>3 DEF Credit, Goto, Answer, EarnTypeOK, CaptchaTypeOK
<1>7. ASSUME NEW r \in Requests, CreditFails(r) PROVE EarnTypeOK'
  BY <1>7 DEF CreditFails, Fault, Goto, EarnTypeOK, CaptchaTypeOK, MoneyTypeOK
<1>8. ASSUME NEW r \in Requests, Undo(r) PROVE EarnTypeOK'
  <2>1. CaptchaTypeOK' BY <1>8, ClaimFields, ConsumeType DEF Undo, EarnTypeOK
  <2>2. QED BY <1>8, <2>1 DEF Undo, Answer, EarnTypeOK, MoneyTypeOK
<1>9. ASSUME NEW r \in Requests, Die(r) PROVE EarnTypeOK'
  BY <1>9, ClaimFields
     DEF Die, Fault, Answer, EarnTypeOK, CaptchaTypeOK, MoneyTypeOK
<1>10. ASSUME UNCHANGED earnVars PROVE EarnTypeOK'
  BY <1>10 DEF earnVars, EarnTypeOK, CaptchaTypeOK, MoneyTypeOK
<1>11. QED
  BY <1>1, <1>2, <1>3, <1>4, <1>5, <1>6, <1>7, <1>8, <1>9, <1>10
     DEF EarnNext, RequestStep

(* Every variable keeps its type.                                           *)
THEOREM EarnTypeCorrect == EarnSpec => []EarnTypeOK
  BY TypeInit, TypeStep, PTL DEF EarnSpec

----------------------------------------------------------------------------
(* A solve pays once.  The invariant says who may touch a captcha: before   *)
(* it is solved only its verifier, once consumed only its holder.           *)

USE DEF captchaVars, moneyVars, claimVars, historyVars, Sessions

LEMMA SolveInit ==
  ASSUME EarnInit PROVE SolveInv
<1>1. EarnTypeOK BY TypeInit
<1>2. QED
  BY <1>1 DEF EarnInit, CaptchaInit, SolveInv, LateIsIssued, CheckedIsOpen,
     HolderOwns, SpentIsConsumed, OneRewardPerSolve, NoSilentLoss, Holding

(* A step that leaves the captchas, their holders and the histories alone.  *)
LEMMA NothingHeldChanges ==
  ASSUME SolveInv, EarnTypeOK',
         UNCHANGED <<challenge, late, checking, spentOn, forfeit>>,
         \A r \in Requests :
           \/ at'[r] = at[r] /\ claim'[r] = claim[r]
           \/ at[r] \notin Holding /\ at'[r] \notin Holding
           \/ at[r] \in Holding /\ at'[r] \in Holding /\ claim'[r] = claim[r]
  PROVE  SolveInv'
<1> USE DEF SolveInv
<1>1. LateIsIssued' /\ CheckedIsOpen' BY DEF LateIsIssued, CheckedIsOpen
<1>2. HolderOwns' BY DEF HolderOwns
<1>3. SpentIsConsumed' /\ OneRewardPerSolve'
  BY DEF SpentIsConsumed, OneRewardPerSolve
<1>4. NoSilentLoss' BY DEF NoSilentLoss, Held
<1>5. QED BY <1>1, <1>2, <1>3, <1>4

LEMMA CaptchaStepSolve ==
  ASSUME ~ OverlappingVerify, SolveInv, CaptchaStep, EarnTypeOK',
         UNCHANGED <<at, claim, spentOn, forfeit>>
  PROVE  SolveInv'
<1> USE DEF SolveInv
<1>1. LateIsIssued' /\ CheckedIsOpen' BY CaptchaStepOrder DEF EarnTypeOK
<1>2. \A c \in Challenges :
        /\ challenge'[c].owner = challenge[c].owner
        /\ challenge'[c].status = "consumed" <=> challenge[c].status = "consumed"
  BY ConsumedUntouched DEF EarnTypeOK
<1>3. \A r \in Requests : at[r] \in Holding => claim[r].c \in Challenges
  BY ClaimFields DEF Holding
<1>4. HolderOwns' BY <1>2, <1>3 DEF HolderOwns
<1>5. SpentIsConsumed' BY <1>2 DEF SpentIsConsumed
<1>6. OneRewardPerSolve' BY <1>2 DEF OneRewardPerSolve
<1>7. NoSilentLoss' BY <1>2 DEF NoSilentLoss, Held
<1>8. QED BY <1>1, <1>4, <1>5, <1>6, <1>7

LEMMA ConsumeSolve ==
  ASSUME SolveInv, NEW r \in Requests, ConsumeCaptcha(r), EarnTypeOK'
  PROVE  SolveInv'
<1> USE DEF SolveInv
<1> DEFINE c == claim[r].c
           u == SessionUser[claim[r].s]
<1>1. c \in Challenges BY ClaimFields DEF ConsumeCaptcha
<1>2. CASE Answer(r) /\ UNCHANGED captchaVars
  BY <1>2, NothingHeldChanges DEF ConsumeCaptcha, Answer, EarnTypeOK, Holding
<1>3. CASE Consume(c, u) /\ Goto(r, "gate")
  <2>1. /\ challenge[c].status = "verified" /\ challenge[c].owner = u
        /\ SetStatus(c, "consumed") /\ checking' = checking
        /\ UNCHANGED <<spentOn, forfeit, claim>>
        /\ late' = late \ {c}
    BY <1>3 DEF Consume, Consumable, Goto, ConsumeCaptcha, SetStatus
  <2>2. \A d \in Challenges :
          /\ challenge'[d].owner = challenge[d].owner
          /\ challenge'[d].status =
               IF d = c THEN "consumed" ELSE challenge[d].status
    BY <1>1, <2>1, SetStatusRow DEF EarnTypeOK, ChallengeStatuses
  <2>3. \A q \in Requests : at'[q] = IF q = r THEN "gate" ELSE at[q]
    BY <1>3 DEF Goto, EarnTypeOK
  <2>4. spentOn[c] = {} BY <1>1, <2>1 DEF SpentIsConsumed
  <2>5. \A q \in Requests : at[q] \in Holding =>
          claim[q].c \in Challenges /\ claim[q].c # c
    BY <2>1, ClaimFields DEF HolderOwns, Holding
  <2>6. LateIsIssued' BY <2>1, <2>2 DEF LateIsIssued, EarnTypeOK, CaptchaTypeOK
  <2>7. CheckedIsOpen'
    BY <1>1, <2>1, <2>2 DEF CheckedIsOpen, EarnTypeOK, CaptchaTypeOK, Checks
  <2>8. HolderOwns'
    BY <1>1, <2>1, <2>2, <2>3, <2>4, <2>5 DEF HolderOwns, Holding
  <2>9. SpentIsConsumed' /\ OneRewardPerSolve'
    BY <2>1, <2>2 DEF SpentIsConsumed, OneRewardPerSolve
  <2>10. NoSilentLoss'
    BY <2>1, <2>2, <2>3 DEF NoSilentLoss, Held, Holding
  <2>11. QED BY <2>6, <2>7, <2>8, <2>9, <2>10
<1>4. QED BY <1>2, <1>3 DEF ConsumeCaptcha

(* A request lets go of its captcha, which is forfeited.                    *)
LEMMA ForfeitSolve ==
  ASSUME SolveInv, EarnTypeOK', NEW r \in Requests, Answer(r),
         UNCHANGED <<challenge, late, checking, spentOn>>,
         forfeit \subseteq forfeit',
         at[r] \in Holding => claim[r].c \in forfeit'
  PROVE  SolveInv'
<1> USE DEF SolveInv
<1>1. \A q \in Requests :
        /\ at'[q] = IF q = r THEN "idle" ELSE at[q]
        /\ q # r => claim'[q] = claim[q]
  BY DEF Answer, EarnTypeOK
<1>2. LateIsIssued' /\ CheckedIsOpen' BY DEF LateIsIssued, CheckedIsOpen
<1>3. HolderOwns' BY <1>1 DEF HolderOwns, Holding
<1>4. SpentIsConsumed' /\ OneRewardPerSolve'
  BY DEF SpentIsConsumed, OneRewardPerSolve
<1>5. NoSilentLoss' BY <1>1 DEF NoSilentLoss, Held, Holding
<1>6. QED BY <1>2, <1>3, <1>4, <1>5

LEMMA CreditSolve ==
  ASSUME SolveInv, EarnTypeOK', NEW r \in Requests, Credit(r)
  PROVE  SolveInv'
<1> USE DEF SolveInv
<1> DEFINE c == claim[r].c
           s == claim[r].s
<1>1. /\ c \in Challenges /\ s \in Events /\ at[r] = "credit"
      /\ UNCHANGED <<challenge, late, checking, forfeit>>
  BY ClaimFields DEF Credit
<1>2. CASE Goto(r, "undo") /\ UNCHANGED spentOn
  BY <1>1, <1>2, NothingHeldChanges DEF Goto, EarnTypeOK, Holding
<1>3. CASE spentOn' = [spentOn EXCEPT ![c] = @ \cup {s}] /\ Answer(r)
  <2>1. \A q \in Requests :
          /\ at'[q] = IF q = r THEN "idle" ELSE at[q]
          /\ q # r => claim'[q] = claim[q]
    BY <1>3 DEF Answer, EarnTypeOK
  <2>2. /\ challenge[c].status = "consumed"
        /\ challenge[c].owner = SessionUser[s]
        /\ spentOn[c] = {}
        /\ \A q \in Requests : at[q] \in Holding /\ claim[q].c = c => q = r
    BY <1>1 DEF HolderOwns, Holding
  <2>3. \A d \in Challenges :
          spentOn'[d] = IF d = c THEN {s} ELSE spentOn[d]
    BY <1>1, <1>3, <2>2 DEF EarnTypeOK
  <2>4. LateIsIssued' /\ CheckedIsOpen'
    BY <1>1 DEF LateIsIssued, CheckedIsOpen
  <2>5. HolderOwns'
    <3>1. \A q \in Requests : at'[q] \in Holding =>
            /\ at[q] \in Holding /\ claim'[q] = claim[q]
            /\ claim[q].c \in Challenges /\ claim[q].c # c
      BY <2>1, <2>2, ClaimFields DEF Holding
    <3>2. QED BY <3>1, <1>1, <2>3 DEF HolderOwns
  <2>6. SpentIsConsumed' BY <1>1, <2>2, <2>3 DEF SpentIsConsumed
  <2>7. OneRewardPerSolve' BY <1>1, <2>2, <2>3 DEF OneRewardPerSolve
  <2>8. NoSilentLoss'
    BY <1>1, <2>1, <2>3 DEF NoSilentLoss, Held, Holding
  <2>9. QED BY <2>4, <2>5, <2>6, <2>7, <2>8
<1>4. QED BY <1>2, <1>3 DEF Credit

LEMMA UndoSolve ==
  ASSUME SolveInv, EarnTypeOK', NEW r \in Requests, Undo(r)
  PROVE  SolveInv'
<1> USE DEF SolveInv
<1> DEFINE c == claim[r].c
<1>1. c \in Challenges BY ClaimFields DEF Undo
<1>2. /\ challenge[c].status = "consumed"
      /\ challenge[c].owner = SessionUser[claim[r].s]
      /\ spentOn[c] = {}
      /\ \A q \in Requests : at[q] \in Holding /\ claim[q].c = c => q = r
  BY DEF HolderOwns, Holding, Undo
<1>3. /\ SetStatus(c, "verified") /\ UNCHANGED <<checking, spentOn, forfeit>>
      /\ late' = late \ {c}
  BY <1>2 DEF Undo, Unconsume, SetStatus
<1>4. \A d \in Challenges :
        /\ challenge'[d].owner = challenge[d].owner
        /\ challenge'[d].status =
             IF d = c THEN "verified" ELSE challenge[d].status
  BY <1>1, <1>3, SetStatusRow DEF EarnTypeOK, ChallengeStatuses
<1>5. \A q \in Requests :
        /\ at'[q] = IF q = r THEN "idle" ELSE at[q]
        /\ q # r => claim'[q] = claim[q]
  BY DEF Undo, Answer, EarnTypeOK
<1>6. LateIsIssued' BY <1>3, <1>4 DEF LateIsIssued, EarnTypeOK, CaptchaTypeOK
<1>7. CheckedIsOpen'
  BY <1>1, <1>2, <1>3, <1>4
     DEF CheckedIsOpen, EarnTypeOK, CaptchaTypeOK, Checks
<1>8. HolderOwns'
  <2>1. \A q \in Requests : at'[q] \in Holding =>
          /\ at[q] \in Holding /\ claim'[q] = claim[q]
          /\ claim[q].c \in Challenges /\ claim[q].c # c
    BY <1>2, <1>5, ClaimFields DEF Holding
  <2>2. QED BY <2>1, <1>3, <1>4 DEF HolderOwns
<1>9. SpentIsConsumed' BY <1>1, <1>2, <1>3, <1>4 DEF SpentIsConsumed
<1>10. OneRewardPerSolve' BY <1>3, <1>4 DEF OneRewardPerSolve
<1>11. NoSilentLoss'
  BY <1>3, <1>4, <1>5 DEF NoSilentLoss, Held, Holding
<1>12. QED BY <1>6, <1>7, <1>8, <1>9, <1>10, <1>11

LEMMA SolveStep ==
  ASSUME ~ OverlappingVerify, SolveInv, [EarnNext]_earnVars PROVE SolveInv'
<1>0. EarnTypeOK /\ EarnTypeOK' BY TypeStep DEF SolveInv
<1>1. ASSUME CaptchaStep, UNCHANGED <<at, claim, spentOn, forfeit>>
      PROVE SolveInv'
  BY <1>0, <1>1, CaptchaStepSolve
<1>2. ASSUME NEW s \in Sessions, Start(s) \/ Heartbeat(s) \/ Ripen(s)
      PROVE SolveInv'
  BY <1>0, <1>2, NothingHeldChanges DEF Start, Heartbeat, Ripen
<1>3. ASSUME NEW r \in Requests, NEW s \in Sessions, NEW c \in Challenges,
             Load(r, s, c)
      PROVE SolveInv'
  BY <1>0, <1>3, NothingHeldChanges DEF Load, Holding, EarnTypeOK
<1>4. ASSUME NEW r \in Requests, ConsumeCaptcha(r) PROVE SolveInv'
  BY <1>0, <1>4, ConsumeSolve
<1>5. ASSUME NEW r \in Requests, Gate(r) PROVE SolveInv'
  <2>1. CASE Goto(r, "credit") /\ UNCHANGED forfeit
    BY <1>0, <1>5, <2>1, NothingHeldChanges DEF Gate, Goto, Holding, EarnTypeOK
  <2>2. CASE forfeit' = forfeit \cup {claim[r].c} /\ Answer(r)
    BY <1>0, <1>5, <2>2, ForfeitSolve DEF Gate
  <2>3. QED BY <1>5, <2>1, <2>2 DEF Gate
<1>6. ASSUME NEW r \in Requests, Credit(r) PROVE SolveInv'
  BY <1>0, <1>6, CreditSolve
<1>7. ASSUME NEW r \in Requests, CreditFails(r) PROVE SolveInv'
  BY <1>0, <1>7, NothingHeldChanges DEF CreditFails, Goto, Holding, EarnTypeOK
<1>8. ASSUME NEW r \in Requests, Undo(r) PROVE SolveInv'
  BY <1>0, <1>8, UndoSolve
<1>9. ASSUME NEW r \in Requests, Die(r) PROVE SolveInv'
  BY <1>0, <1>9, ForfeitSolve DEF Die
<1>10. ASSUME UNCHANGED earnVars PROVE SolveInv'
  BY <1>0, <1>10, NothingHeldChanges DEF earnVars
<1>11. QED
  BY <1>1, <1>2, <1>3, <1>4, <1>5, <1>6, <1>7, <1>8, <1>9, <1>10
     DEF EarnNext, RequestStep

(* While no two traces of one captcha are in flight, who may touch a        *)
(* captcha is as SolveInv says, whatever requests complete, fail or die.    *)
THEOREM SolveInvariant == ~ OverlappingVerify /\ EarnSpec => []SolveInv
<1>1. ~ OverlappingVerify /\ EarnInit => SolveInv BY SolveInit
<1>2. ~ OverlappingVerify /\ SolveInv /\ [EarnNext]_earnVars => SolveInv'
  BY SolveStep
<1>3. QED
  <2>1. CASE OverlappingVerify BY <2>1
  <2>2. CASE ~ OverlappingVerify
    <3>1. EarnInit => SolveInv BY <1>1, <2>2
    <3>2. SolveInv /\ [EarnNext]_earnVars => SolveInv' BY <1>2, <2>2
    <3>3. QED BY <3>1, <3>2, PTL DEF EarnSpec
  <2>3. QED BY <2>1, <2>2

(* While no two traces of one captcha are in flight, a captcha pays for at  *)
(* most one session, one of the user who solved it.                         *)
THEOREM SolvePaysOnce == ~ OverlappingVerify /\ EarnSpec => []OneRewardPerSolve
BY SolveInvariant, PTL DEF SolveInv

(* And a consumed captcha is held, spent or forfeited.                      *)
THEOREM SolveReturned == ~ OverlappingVerify /\ EarnSpec => []NoSilentLoss
BY SolveInvariant, PTL DEF SolveInv

----------------------------------------------------------------------------
(* The ledger.                                                              *)

(* Only the credit of a pending session rewards, that session and no other. *)
LEMMA OnlyCreditRewards ==
  ASSUME EarnTypeOK, [EarnNext]_earnVars
  PROVE  \/ earned' = earned
         \/ \E r \in Requests :
              /\ Credit(r) /\ Claimable(claim[r].s) /\ Grant(claim[r].s)
              /\ SetSession(claim[r].s, "verified")
              /\ claim[r].s \in Sessions
<1>1. ASSUME NEW r \in Requests, Credit(r)
      PROVE \/ earned' = earned
            \/ /\ Credit(r) /\ Claimable(claim[r].s) /\ Grant(claim[r].s)
               /\ SetSession(claim[r].s, "verified")
               /\ claim[r].s \in Sessions
  BY <1>1, ClaimFields DEF Credit
<1>2. CASE CaptchaStep /\ UNCHANGED earned BY <1>2
<1>3. ASSUME NEW s \in Sessions, Start(s) \/ Heartbeat(s) \/ Ripen(s)
      PROVE earned' = earned
  BY <1>3 DEF Start, Heartbeat, Ripen
<1>4. ASSUME NEW r \in Requests,
             \/ \E s \in Sessions, c \in Challenges : Load(r, s, c)
             \/ ConsumeCaptcha(r) \/ Gate(r) \/ CreditFails(r) \/ Undo(r)
             \/ Die(r)
      PROVE earned' = earned
  BY <1>4 DEF Load, ConsumeCaptcha, Gate, CreditFails, Undo, Die
<1>5. CASE UNCHANGED earnVars BY <1>5 DEF earnVars
<1>6. QED BY <1>1, <1>2, <1>3, <1>4, <1>5 DEF EarnNext, RequestStep

(* A session that was turned down is never paid.                            *)
THEOREM RejectedUnpaid == EarnSpec => RejectedStaysUnpaid
<1>1. EarnTypeOK /\ [EarnNext]_earnVars =>
        [\A s \in Sessions : session[s].status = "rejected" /\ s \notin Rewarded
           => s \notin Rewarded']_earnVars
  <2> SUFFICES ASSUME EarnTypeOK, [EarnNext]_earnVars, NEW s \in Sessions,
                      session[s].status = "rejected", s \notin Rewarded
      PROVE s \notin Rewarded'
    OBVIOUS
  <2>1. CASE earned' = earned BY <2>1 DEF Rewarded
  <2>2. ASSUME NEW r \in Requests, Claimable(claim[r].s), Grant(claim[r].s),
               claim[r].s \in Sessions
        PROVE s \notin Rewarded'
    BY <2>2, GrantRewards DEF Claimable
  <2>3. QED BY <2>1, <2>2, OnlyCreditRewards
<1>2. QED BY <1>1, EarnTypeCorrect, PTL DEF EarnSpec, RejectedStaysUnpaid

(* Verified is paid and pending is not.                                     *)
LEMMA StatusStep ==
  ASSUME EarnTypeOK, StatusMatchesLedger, [EarnNext]_earnVars
  PROVE  StatusMatchesLedger'
<1>1. ASSUME NEW r \in Requests, Claimable(claim[r].s), Grant(claim[r].s),
             SetSession(claim[r].s, "verified"), claim[r].s \in Sessions
      PROVE StatusMatchesLedger'
  BY <1>1, GrantRewards, SetSessionType DEF StatusMatchesLedger
<1>2. CASE earned' = earned
  <2>1. Rewarded' = Rewarded BY <1>2 DEF Rewarded
  <2>2. \A s \in Sessions :
          \/ session'[s].status = session[s].status
          \/ session[s].status = "none" /\ session'[s].status = "pending"
          \/ session'[s].status = "rejected"
          \/ session'[s].status = "verified" /\ s \in Rewarded'
    <3>1. ASSUME NEW t \in Sessions, Start(t) \/ Heartbeat(t) \/ Ripen(t)
          PROVE \A s \in Sessions :
                  \/ session'[s].status = session[s].status
                  \/ session[s].status = "none" /\ session'[s].status = "pending"
      BY <3>1, SetSessionType
         DEF Start, Heartbeat, Ripen, EarnTypeOK, SessionRow
    <3>2. ASSUME NEW r \in Requests, Gate(r)
          PROVE \A s \in Sessions :
                  \/ session'[s].status = session[s].status
                  \/ session'[s].status = "rejected"
      BY <3>2, SetSessionType, ClaimFields DEF Gate
    <3>3. ASSUME NEW r \in Requests, Credit(r)
          PROVE \A s \in Sessions :
                  \/ session'[s].status = session[s].status
                  \/ session'[s].status = "verified" /\ s \in Rewarded'
      <4>1. CASE UNCHANGED session BY <4>1
      <4>2. CASE SetSession(claim[r].s, "verified") /\ Grant(claim[r].s)
        BY <3>3, <4>2, ClaimFields, SetSessionType, GrantRewards DEF Credit
      <4>3. QED BY <3>3, <4>1, <4>2 DEF Credit
    <3>4. ASSUME NEW r \in Requests,
                 \/ \E s \in Sessions, c \in Challenges : Load(r, s, c)
                 \/ ConsumeCaptcha(r) \/ CreditFails(r) \/ Undo(r) \/ Die(r)
          PROVE session' = session
      BY <3>4 DEF Load, ConsumeCaptcha, CreditFails, Undo, Die
    <3>5. CASE UNCHANGED session BY <3>5
    <3>6. QED
      BY <3>1, <3>2, <3>3, <3>4, <3>5 DEF EarnNext, RequestStep, earnVars
  <2>3. QED BY <2>1, <2>2 DEF StatusMatchesLedger
<1>3. QED BY <1>1, <1>2, OnlyCreditRewards

(* A verified session has been paid and a pending one has not, whatever     *)
(* requests race for it and whichever credits fail.                         *)
THEOREM StatusTellsPayment == EarnSpec => []StatusMatchesLedger
<1>1. EarnInit => StatusMatchesLedger
  BY DEF EarnInit, MoneyInit, StatusMatchesLedger, Rewarded
<1>2. QED BY <1>1, EarnTypeCorrect, StatusStep, PTL DEF EarnSpec

(* A user's balance is exactly the rewards of its sessions and the          *)
(* commissions on those it referred, each counted once: every other step of *)
(* a claim, a fault or a retry leaves the money alone.                      *)
THEOREM EarningsBalance == EarnSpec => []EarningsMatch
<1>1. EarnTypeOK /\ LedgerInv /\ [EarnNext]_earnVars => LedgerInv'
  <2> SUFFICES ASSUME EarnTypeOK, LedgerInv, [EarnNext]_earnVars
      PROVE  LedgerInv'
    OBVIOUS
  <2>1. CASE UNCHANGED moneyVars BY <2>1, LedgerStays
  <2>2. ASSUME NEW r \in Requests, Credit(r) PROVE LedgerInv'
    <3>1. CASE UNCHANGED moneyVars BY <3>1, LedgerStays
    <3>2. CASE Grant(claim[r].s)
      BY <2>2, <3>2, ClaimFields, GrantBooks DEF Credit, EarnTypeOK
    <3>3. QED BY <2>2, <3>1, <3>2 DEF Credit
  <2>3. QED
    BY <2>1, <2>2
    DEF EarnNext, RequestStep, earnVars, Start, Heartbeat, Ripen, Load,
        ConsumeCaptcha, Gate, CreditFails, Undo, Die
<1>2. EarnInit => LedgerInv BY LedgerOpens DEF EarnInit
<1>3. LedgerInv => EarningsMatch BY DEF LedgerInv
<1>4. QED BY <1>1, <1>2, <1>3, EarnTypeCorrect, PTL DEF EarnSpec

----------------------------------------------------------------------------
(* The referral commission.                                                 *)

(* A commission comes with a reward and is at most the platform's share of  *)
(* it, whatever the percentages are.                                        *)
THEOREM CommissionFunded == EarnSpec => []ReferralFunded
<1> DEFINE Inv == \A x \in Events : <<"referral_commission", x>> \in earned =>
                    x \in Rewarded /\ Share(x) > 0
<1>1. EarnInit => Inv BY DEF EarnInit, MoneyInit
<1>2. EarnTypeOK /\ Inv /\ [EarnNext]_earnVars => Inv'
  <2> SUFFICES ASSUME EarnTypeOK, Inv, [EarnNext]_earnVars PROVE Inv'
    OBVIOUS
  <2>1. CASE earned' = earned BY <2>1 DEF Rewarded
  <2>2. ASSUME NEW x \in Events, Grant(x) PROVE Inv'
    <3>1. \A y \in Events : <<"referral_commission", y>> \in earned' =>
            <<"referral_commission", y>> \in earned \/ (x = y /\ Share(x) > 0)
      BY <2>2, PairsOf DEF Grant, Kinds
    <3>2. QED BY <2>2, <3>1, GrantRewards
  <2>3. QED BY <2>1, <2>2, OnlyCreditRewards
<1>3. Inv => ReferralFunded BY ShareWithinPool DEF ReferralFunded
<1>4. QED BY <1>1, <1>2, <1>3, EarnTypeCorrect, PTL DEF EarnSpec

----------------------------------------------------------------------------
(* What is paid was watched.                                                *)

LEMMA BeatsEnough ==
  ASSUME NEW n \in Nat, n >= MinHeartbeats
  PROVE  /\ MostOf(n)
         /\ \A more \in Nat : more >= n => MostOf(more)
<1>1. HeartbeatsExpected \in Nat BY DurationAssumption DEF HeartbeatsExpected
<1>2. QED BY <1>1 DEF MinHeartbeats, MostOf

(* Beats only arrive and ripe sessions stay ripe.                           *)
LEMMA WatchedGrows ==
  ASSUME EarnTypeOK, [EarnNext]_earnVars
  PROVE  /\ ripe \subseteq ripe'
         /\ \A s \in Sessions : session'[s].beats >= session[s].beats
<1>1. ASSUME NEW s \in Sessions, Start(s) \/ Heartbeat(s) \/ Ripen(s)
      PROVE  /\ ripe \subseteq ripe'
             /\ \A t \in Sessions : session'[t].beats >= session[t].beats
  BY <1>1, SetSessionType DEF Start, Heartbeat, Ripen, EarnTypeOK, SessionRow
<1>2. ASSUME NEW r \in Requests, Gate(r) \/ Credit(r)
      PROVE  /\ ripe \subseteq ripe'
             /\ \A t \in Sessions : session'[t].beats >= session[t].beats
  BY <1>2, ClaimFields, SetSessionType DEF Gate, Credit, EarnTypeOK, SessionRow
<1>3. CASE UNCHANGED <<session, ripe>> BY <1>3 DEF EarnTypeOK, SessionRow
<1>4. ASSUME NEW r \in Requests,
             \/ \E s \in Sessions, c \in Challenges : Load(r, s, c)
             \/ ConsumeCaptcha(r) \/ CreditFails(r) \/ Undo(r) \/ Die(r)
      PROVE UNCHANGED <<session, ripe>>
  BY <1>4 DEF Load, ConsumeCaptcha, CreditFails, Undo, Die
<1>5. QED BY <1>1, <1>2, <1>3, <1>4 DEF EarnNext, RequestStep, earnVars

(* What each step does to the place and the claim of a request.             *)
LEMMA PlaceAfter ==
  ASSUME EarnTypeOK, [EarnNext]_earnVars, NEW q \in Requests, at'[q] # "idle"
  PROVE  \/ at'[q] = at[q] /\ claim'[q] = claim[q]
         \/ /\ at'[q] = "loaded"
            /\ \E s \in Sessions, c \in Challenges :
                 claim'[q] = [s |-> s, c |-> c, beats |-> session[s].beats]
         \/ at'[q] = "gate" /\ claim'[q] = claim[q] /\ at[q] # "idle"
         \/ /\ at[q] \in {"gate", "credit", "undo"} /\ claim'[q] = claim[q]
            /\ at'[q] \in {"credit", "undo"}
            /\ at[q] = "gate" => MayPass(q)
<1>1. CASE UNCHANGED claimVars BY <1>1
<1>2. CASE \E s \in Sessions : Start(s) \/ Heartbeat(s) \/ Ripen(s)
  BY <1>2 DEF Start, Heartbeat, Ripen
<1>3. ASSUME NEW r \in Requests, NEW s \in Sessions, NEW c \in Challenges,
             Load(r, s, c)
      PROVE  \/ at'[q] = at[q] /\ claim'[q] = claim[q]
             \/ /\ at'[q] = "loaded"
                /\ claim'[q] = [s |-> s, c |-> c, beats |-> session[s].beats]
  BY <1>3 DEF Load, EarnTypeOK
<1>4. ASSUME NEW r \in Requests, ConsumeCaptcha(r)
      PROVE  \/ at'[q] = at[q] /\ claim'[q] = claim[q]
             \/ at'[q] = "gate" /\ claim'[q] = claim[q] /\ at[q] # "idle"
  BY <1>4 DEF ConsumeCaptcha, Goto, Answer, EarnTypeOK
<1>5. ASSUME NEW r \in Requests,
             Gate(r) \/ Credit(r) \/ CreditFails(r) \/ Undo(r) \/ Die(r)
      PROVE  \/ at'[q] = at[q] /\ claim'[q] = claim[q]
             \/ /\ at[q] \in {"gate", "credit", "undo"}
                /\ claim'[q] = claim[q]
                /\ at'[q] \in {"credit", "undo"}
                /\ at[q] = "gate" => MayPass(q)
  BY <1>5 DEF Gate, Credit, CreditFails, Undo, Die, Goto, Answer, EarnTypeOK
<1>6. QED
  BY <1>1, <1>2, <1>3, <1>4, <1>5 DEF EarnNext, RequestStep, earnVars

LEMMA GateStep ==
  ASSUME WatchInv, [EarnNext]_earnVars, EarnTypeOK' PROVE GatePassed'
<1> SUFFICES ASSUME NEW q \in Requests, at'[q] # "idle"
    PROVE /\ claim'[q].beats <= session'[claim'[q].s].beats
          /\ at'[q] \in {"credit", "undo"} => MayPass(q)'
  BY DEF GatePassed
<1> USE DEF WatchInv
<1>1. \A s \in Sessions :
        /\ session[s].beats \in Nat /\ session'[s].beats \in Nat
        /\ session'[s].beats >= session[s].beats
  BY WatchedGrows DEF EarnTypeOK, SessionRow
<1>2. ripe \subseteq ripe' BY WatchedGrows
<1>3. CASE at[q] # "idle" /\ claim'[q] = claim[q]
  <2>1. /\ claim[q].s \in Sessions /\ claim[q].beats \in Nat
        /\ claim[q].beats <= session[claim[q].s].beats
    BY <1>3, ClaimFields DEF GatePassed
  <2>2. claim[q].beats <= session'[claim[q].s].beats BY <1>1, <2>1
  <2>3. MayPass(q) => MayPass(q)' BY <1>2, <1>3 DEF MayPass, Deficit
  <2>4. at'[q] \in {"credit", "undo"} => MayPass(q)
    BY <1>3, PlaceAfter DEF GatePassed
  <2>5. QED BY <1>3, <2>2, <2>3, <2>4
<1>4. CASE at'[q] = "loaded" /\ \E s \in Sessions, c \in Challenges :
             claim'[q] = [s |-> s, c |-> c, beats |-> session[s].beats]
  BY <1>1, <1>4
<1>5. QED BY <1>3, <1>4, PlaceAfter

LEMMA WatchStep ==
  ASSUME WatchInv, [EarnNext]_earnVars PROVE WatchInv'
<1> USE DEF WatchInv
<1>1. EarnTypeOK' BY TypeStep
<1>2. GatePassed' BY <1>1, GateStep
<1>3. /\ ripe \subseteq ripe'
      /\ \A s \in Sessions :
           /\ session[s].beats \in Nat /\ session'[s].beats \in Nat
           /\ session'[s].beats >= session[s].beats
  BY <1>1, WatchedGrows DEF EarnTypeOK, SessionRow
<1>4. HeartbeatsExpected \in Nat BY DurationAssumption DEF HeartbeatsExpected
<1> DEFINE Most(s) == MostOf(session[s].beats)
<1>5. RipeOnly <=> \A s \in Rewarded : s \in ripe /\ (Kind[s] = "ptc" => Most(s))
  BY DEF RipeOnly
<1>6. (RipeOnly <=> \A s \in Rewarded :
                        s \in ripe /\ (Kind[s] = "ptc" => Most(s)))'
  BY DEF RipeOnly
<1>7. \A s \in Sessions : Most(s) => Most(s)'
  BY <1>3, <1>4 DEF MostOf, HeartbeatsExpected
<1> HIDE DEF Most
<1>8. ASSUME earned' = earned PROVE RipeOnly'
  BY <1>3, <1>5, <1>6, <1>7, <1>8 DEF Rewarded
<1>9. ASSUME NEW r \in Requests, Credit(r), Grant(claim[r].s),
             claim[r].s \in Sessions
      PROVE RipeOnly'
  <2> DEFINE s == claim[r].s
  <2>1. MayPass(r) /\ claim[r].beats <= session[s].beats
    BY <1>9 DEF Credit, GatePassed
  <2>2. s \in ripe' BY <1>3, <2>1 DEF MayPass
  <2>3. Kind[s] = "ptc" => MostOf(session[s].beats)
    <3>1. SUFFICES ASSUME Kind[s] = "ptc" PROVE MostOf(session[s].beats)
      OBVIOUS
    <3>2. claim[r].beats \in Nat BY <1>9, ClaimFields DEF Credit
    <3>3. MinHeartbeats \in Nat BY <1>4 DEF MinHeartbeats
    <3>4. session[s].beats >= MinHeartbeats
      BY <1>3, <1>9, <2>1, <3>1, <3>2, <3>3 DEF MayPass, Deficit
    <3>5. QED BY <1>3, <1>9, <3>4, BeatsEnough
  <2>4. Rewarded' = Rewarded \cup {s} BY <1>9, GrantRewards
  <2>5. Kind[s] = "ptc" => Most(s) BY <2>3 DEF Most
  <2>6. Rewarded \subseteq Sessions BY DEF Rewarded
  <2>7. QED BY <1>3, <1>5, <1>6, <1>7, <1>9, <2>2, <2>4, <2>5, <2>6
<1>10. QED BY <1>1, <1>2, <1>8, <1>9, OnlyCreditRewards

(* Only sessions that lasted their time and views with 70% of their         *)
(* heartbeats are paid.                                                     *)
THEOREM PaidWasWatched == EarnSpec => []RipeOnly
<1>1. EarnInit => WatchInv
  BY TypeInit DEF EarnInit, MoneyInit, WatchInv, GatePassed, RipeOnly, Rewarded
<1>2. QED BY <1>1, WatchStep, PTL DEF EarnSpec, WatchInv

----------------------------------------------------------------------------
(* The promise about a solve.                                               *)

solves == [c \in Challenges |-> SolveOf(c)]

(* What the invariant says of each captcha: where it is shows in one place. *)
LEMMA WhereSolved ==
  ASSUME SolveInv, NEW c \in Challenges
  PROVE  /\ BeingChecked(c) => challenge[c].status \in {"issued", "expired"}
         /\ Held(c) => challenge[c].status = "consumed" /\ spentOn[c] = {}
         /\ spentOn[c] # {} => challenge[c].status = "consumed"
BY DEF SolveInv, CheckedIsOpen, HolderOwns, SpentIsConsumed, BeingChecked, Held

(* A step that moves no captcha, or loses some.                             *)
LEMMA NoneSolved ==
  ASSUME \A c \in Challenges : SolveOf(c)' = SolveOf(c), Rewarded' = Rewarded
  PROVE  UNCHANGED Promise!promiseVars
<1>1. solves' = solves BY DEF solves
<1>2. QED BY <1>1 DEF Promise!promiseVars, solves

LEMMA SomeLost ==
  ASSUME NEW C \in SUBSET Challenges, Rewarded' = Rewarded,
         \A c \in C : SolveOf(c) \in {"open", "solved"} /\ SolveOf(c)' = "lost",
         \A c \in Challenges \ C : SolveOf(c)' = SolveOf(c)
  PROVE  Promise!SolveNext
<1>1. /\ \A c \in C : solves[c] \in {"open", "solved"}
      /\ solves' = [c \in Challenges |-> IF c \in C THEN "lost" ELSE solves[c]]
  BY DEF solves
<1>2. Promise!Lose(C) BY <1>1 DEF Promise!Lose, solves
<1>3. QED BY <1>2 DEF Promise!SolveNext

(* SolveOf reads the status of the captcha, its checks, holders and history.*)
LEMMA SolveStays ==
  ASSUME NEW c \in Challenges,
         challenge'[c].status = challenge[c].status,
         spentOn'[c] = spentOn[c],
         BeingChecked(c)' <=> BeingChecked(c), Held(c)' <=> Held(c)
  PROVE  SolveOf(c)' = SolveOf(c)
BY DEF SolveOf

(* A verdict solves the captcha or loses it.                                *)
LEMMA VerdictPromise ==
  ASSUME SolveInv, SolveInv', NEW v \in Verifiers, VerifyWrite(v),
         UNCHANGED <<earned, at, claim, spentOn>>
  PROVE  Promise!SolveNext
<1>0. PICK c \in Challenges : c = checking[v].id
  BY DEF VerifyWrite, SolveInv, EarnTypeOK, CaptchaTypeOK, Checks
<1>1. /\ EarnTypeOK /\ CaptchaTypeOK /\ c \in Challenges
      /\ checking[v] # NoCheck /\ BeingChecked(c)
  BY <1>0 DEF VerifyWrite, SolveInv, EarnTypeOK, BeingChecked
<1>2. PICK status \in {"verified", "rejected", "expired"} : SetStatus(c, status)
  BY <1>0 DEF VerifyWrite
<1>3. \A d \in Challenges : challenge'[d].status =
        IF d = c THEN status ELSE challenge[d].status
  BY <1>1, <1>2, SetStatusRow DEF ChallengeStatuses
<1>4. \A w \in Verifiers :
        checking'[w] = IF w = v THEN NoCheck ELSE checking[w]
  BY <1>1 DEF VerifyWrite, CaptchaTypeOK
<1>5. ~ BeingChecked(c)'
  BY <1>0, <1>1, <1>4 DEF BeingChecked, SolveInv, CheckedIsOpen
<1>6. \A d \in Challenges \ {c} : BeingChecked(d)' <=> BeingChecked(d)
  BY <1>0, <1>4 DEF BeingChecked
<1>7. \A d \in Challenges : Held(d)' <=> Held(d) BY DEF Held
<1>8. \A d \in Challenges \ {c} : SolveOf(d)' = SolveOf(d)
  BY <1>3, <1>6, <1>7, SolveStays
<1>9. /\ spentOn[c] = {} /\ ~ Held(c) /\ challenge[c].status # "verified"
      /\ SolveOf(c) = "open"
  BY <1>1, WhereSolved DEF SolveOf
<1>10. Rewarded' = Rewarded BY DEF Rewarded
<1>11. CASE status = "verified"
  <2>1. SolveOf(c)' = "solved"
    BY <1>1, <1>3, <1>7, <1>9, <1>11 DEF SolveOf
  <2>2. solves[c] = "open" /\ solves' = [solves EXCEPT ![c] = "solved"]
    BY <1>1, <1>8, <1>9, <2>1 DEF solves
  <2>3. Promise!Solve(c) BY <1>10, <2>2 DEF Promise!Solve, solves
  <2>4. QED BY <1>1, <2>3 DEF Promise!SolveNext
<1>12. CASE status \in {"rejected", "expired"}
  <2>1. SolveOf(c)' = "lost"
    BY <1>1, <1>3, <1>5, <1>7, <1>9, <1>12 DEF SolveOf
  <2>2. {c} \in SUBSET Challenges BY <1>1
  <2>3. QED BY <1>8, <1>9, <1>10, <2>1, <2>2, SomeLost
<1>13. QED BY <1>2, <1>11, <1>12

(* Issuing changes nothing that is promised; cleaning loses what is open    *)
(* past its time and what was solved and never used.                        *)
LEMMA CaptchaPromise ==
  ASSUME SolveInv, SolveInv', CaptchaStep,
         UNCHANGED <<earned, at, claim, spentOn>>
  PROVE  Promise!SolveNext \/ UNCHANGED Promise!promiseVars
<1>0. CaptchaTypeOK /\ Rewarded' = Rewarded
  BY DEF SolveInv, EarnTypeOK, Rewarded
<1>1. \A d \in Challenges : Held(d)' <=> Held(d) BY DEF Held
<1>2. ASSUME NEW c \in Challenges, Issue(c)
      PROVE UNCHANGED Promise!promiseVars
  <2>1. \A d \in Challenges : challenge'[d].status =
          IF d = c THEN "issued" ELSE challenge[d].status
    BY <1>0, <1>2, SetStatusRow DEF Issue, ChallengeStatuses
  <2>2. \A d \in Challenges : BeingChecked(d)' <=> BeingChecked(d)
    BY <1>2 DEF Issue, BeingChecked
  <2>3. \A d \in Challenges \ {c} : SolveOf(d)' = SolveOf(d)
    BY <1>1, <2>1, <2>2, SolveStays
  <2>4. SolveOf(c) = "open" /\ SolveOf(c)' = "open"
    BY <1>1, <1>2, <2>1, WhereSolved DEF Issue, SolveOf
  <2>5. QED BY <1>0, <2>3, <2>4, NoneSolved
<1>3. ASSUME NEW c \in Challenges, Lapse(c)
      PROVE UNCHANGED Promise!promiseVars
  <2>1. \A d \in Challenges : SolveOf(d)' = SolveOf(d)
    BY <1>1, <1>3, SolveStays DEF Lapse, BeingChecked
  <2>2. QED BY <1>0, <2>1, NoneSolved
<1>4. ASSUME NEW c \in Challenges, CleanupPrune(c)
      PROVE Promise!SolveNext \/ UNCHANGED Promise!promiseVars
  <2>1. \A d \in Challenges : challenge'[d].status =
          IF d = c THEN "pruned" ELSE challenge[d].status
    BY <1>0, <1>4, SetStatusRow DEF CleanupPrune, ChallengeStatuses
  <2>2. \A d \in Challenges : BeingChecked(d)' <=> BeingChecked(d)
    BY <1>4 DEF CleanupPrune, BeingChecked
  <2>3. \A d \in Challenges \ {c} : SolveOf(d)' = SolveOf(d)
    BY <1>1, <2>1, <2>2, SolveStays
  <2>4. /\ challenge[c].status \in {"verified", "rejected", "expired"}
        /\ ~ BeingChecked(c) /\ ~ Held(c) /\ spentOn[c] = {}
    BY <1>4, WhereSolved DEF CleanupPrune, Resolved
  <2>5. SolveOf(c)' = "lost" BY <1>1, <2>1, <2>2, <2>4 DEF SolveOf
  <2>6. SolveOf(c) \in {"solved", "lost"} BY <2>4 DEF SolveOf
  <2>7. CASE SolveOf(c) = "lost" BY <1>0, <2>3, <2>5, <2>7, NoneSolved
  <2>8. CASE SolveOf(c) = "solved"
    <3>1. {c} \in SUBSET Challenges OBVIOUS
    <3>2. QED BY <1>0, <2>3, <2>5, <2>8, <3>1, SomeLost
  <2>9. QED BY <2>6, <2>7, <2>8
<1>5. ASSUME NEW v \in Verifiers, NEW c \in Challenges, VerifyRead(v, c)
      PROVE UNCHANGED Promise!promiseVars
  <2>1. challenge' = challenge /\ challenge[c].status = "issued"
        /\ checking[v] = NoCheck
    BY <1>5 DEF VerifyRead, Open
  <2>2. \A w \in Verifiers :
          IF w = v THEN checking'[w] # NoCheck /\ checking'[w].id = c
                   ELSE checking'[w] = checking[w]
    BY <1>0, <1>5 DEF VerifyRead, CaptchaTypeOK, NoCheck
  <2>3. \A d \in Challenges \ {c} : BeingChecked(d)' <=> BeingChecked(d)
    BY <2>1, <2>2 DEF BeingChecked
  <2>4. \A d \in Challenges \ {c} : SolveOf(d)' = SolveOf(d)
    BY <1>1, <2>1, <2>3, SolveStays
  <2>5. SolveOf(c) = "open" /\ SolveOf(c)' = "open"
    BY <1>1, <2>1, WhereSolved DEF SolveOf
  <2>6. QED BY <1>0, <2>4, <2>5, NoneSolved
<1>6. ASSUME CleanupExpire PROVE Promise!SolveNext
  <2> DEFINE C == {c \in late : ~ BeingChecked(c)}
  <2>1. /\ late \subseteq Challenges
        /\ \A c \in late : challenge[c].status = "issued"
    BY <1>0 DEF SolveInv, LateIsIssued, CaptchaTypeOK
  <2>2. \A d \in Challenges : challenge'[d].status =
          IF d \in late THEN "expired" ELSE challenge[d].status
    BY <1>0, <1>6 DEF CleanupExpire, CaptchaTypeOK
  <2>3. \A d \in Challenges : BeingChecked(d)' <=> BeingChecked(d)
    BY <1>6 DEF CleanupExpire, BeingChecked
  <2>4. \A c \in late : /\ spentOn[c] = {} /\ ~ Held(c)
                        /\ SolveOf(c) = "open"
    BY <2>1, WhereSolved DEF SolveOf
  <2>5. \A c \in C : SolveOf(c) = "open" /\ SolveOf(c)' = "lost"
    BY <1>1, <2>1, <2>2, <2>3, <2>4 DEF SolveOf
  <2>6. \A c \in Challenges \ C : SolveOf(c)' = SolveOf(c)
    <3>1. ASSUME NEW c \in late, BeingChecked(c) PROVE SolveOf(c)' = "open"
      BY <1>1, <2>1, <2>2, <2>3, <2>4, <3>1 DEF SolveOf
    <3>2. ASSUME NEW c \in Challenges \ late PROVE SolveOf(c)' = SolveOf(c)
      BY <1>1, <2>2, <2>3, SolveStays
    <3>3. QED BY <2>4, <3>1, <3>2
  <2>7. C \in SUBSET Challenges BY <2>1
  <2> HIDE DEF C
  <2>8. QED BY <1>0, <2>5, <2>6, <2>7, SomeLost
<1>7. QED
  BY <1>2, <1>3, <1>4, <1>5, <1>6, VerdictPromise DEF CaptchaStep

(* A request that keeps its captcha, or had none, moves nothing.            *)
LEMMA HoldersStay ==
  ASSUME UNCHANGED <<earned, challenge, checking, spentOn>>,
         \A r \in Requests :
           /\ at'[r] \in Holding <=> at[r] \in Holding
           /\ at[r] \in Holding => claim'[r] = claim[r]
  PROVE  UNCHANGED Promise!promiseVars
<1>1. \A c \in Challenges : Held(c)' <=> Held(c) BY DEF Held
<1>2. \A c \in Challenges : SolveOf(c)' = SolveOf(c)
  BY <1>1, SolveStays DEF BeingChecked
<1>3. Rewarded' = Rewarded BY DEF Rewarded
<1>4. QED BY <1>2, <1>3, NoneSolved

(* A request that answers while it holds a captcha loses it.                *)
LEMMA HolderLost ==
  ASSUME SolveInv, NEW r \in Requests, at[r] \in Holding, Answer(r),
         UNCHANGED <<earned, challenge, checking, spentOn>>
  PROVE  Promise!SolveNext
<1>1. PICK c \in Challenges : c = claim[r].c
  BY ClaimFields DEF SolveInv, Holding
<1>2. /\ challenge[c].status = "consumed" /\ spentOn[c] = {}
      /\ \A q \in Requests : at[q] \in Holding /\ claim[q].c = c => q = r
  BY <1>1 DEF SolveInv, HolderOwns
<1>3. \A q \in Requests :
        /\ at'[q] = IF q = r THEN "idle" ELSE at[q]
        /\ q # r => claim'[q] = claim[q]
  BY DEF Answer, SolveInv, EarnTypeOK
<1>4. ~ Held(c)' BY <1>2, <1>3 DEF Held, Holding
<1>5. \A d \in Challenges \ {c} : Held(d)' <=> Held(d)
  BY <1>1, <1>3 DEF Held, Holding
<1>6. \A d \in Challenges : BeingChecked(d)' <=> BeingChecked(d)
  BY DEF BeingChecked
<1>7. \A d \in Challenges \ {c} : SolveOf(d)' = SolveOf(d)
  BY <1>5, <1>6, SolveStays
<1>8. SolveOf(c) = "solved" BY <1>1, <1>2 DEF SolveOf, Held
<1>9. SolveOf(c)' = "lost"
  BY <1>1, <1>2, <1>4, <1>6, WhereSolved DEF SolveOf
<1>10. Rewarded' = Rewarded /\ {c} \in SUBSET Challenges
  BY <1>1 DEF Rewarded
<1>11. QED BY <1>7, <1>8, <1>9, <1>10, SomeLost

(* A consumed or returned captcha stays a solved one.                       *)
LEMMA ConsumePromise ==
  ASSUME SolveInv, NEW r \in Requests, ConsumeCaptcha(r)
  PROVE  UNCHANGED Promise!promiseVars
<1>1. CASE Answer(r) /\ UNCHANGED captchaVars
  BY <1>1, HoldersStay
     DEF ConsumeCaptcha, Answer, SolveInv, EarnTypeOK, Holding
<1>2. CASE Consume(claim[r].c, SessionUser[claim[r].s]) /\ Goto(r, "gate")
  <2>1. PICK c \in Challenges : c = claim[r].c
    BY ClaimFields DEF ConsumeCaptcha, SolveInv
  <2>2. /\ challenge[c].status = "verified" /\ SetStatus(c, "consumed")
        /\ UNCHANGED <<checking, spentOn, claim, earned>>
    BY <1>2, <2>1 DEF Consume, Consumable, Goto, ConsumeCaptcha
  <2>3. \A d \in Challenges : challenge'[d].status =
          IF d = c THEN "consumed" ELSE challenge[d].status
    BY <2>2, SetStatusRow DEF SolveInv, EarnTypeOK, ChallengeStatuses
  <2>4. \A q \in Requests : at'[q] = IF q = r THEN "gate" ELSE at[q]
    BY <1>2 DEF Goto, SolveInv, EarnTypeOK
  <2>5. \A d \in Challenges : BeingChecked(d)' <=> BeingChecked(d)
    BY <2>2 DEF BeingChecked
  <2>6. \A d \in Challenges \ {c} : Held(d)' <=> Held(d)
    BY <2>1, <2>2, <2>4, <1>2 DEF Held, ConsumeCaptcha, Holding
  <2>7. Held(c)' BY <2>1, <2>2, <2>4 DEF Held, Holding
  <2>8. \A d \in Challenges \ {c} : SolveOf(d)' = SolveOf(d)
    BY <2>2, <2>3, <2>5, <2>6, SolveStays
  <2>9. SolveOf(c) = "solved" /\ SolveOf(c)' = "solved"
    BY <2>2, <2>7, WhereSolved DEF SolveOf
  <2>10. Rewarded' = Rewarded BY <2>2 DEF Rewarded
  <2>11. QED BY <2>8, <2>9, <2>10, NoneSolved
<1>3. QED BY <1>1, <1>2 DEF ConsumeCaptcha

LEMMA UndoPromise ==
  ASSUME SolveInv, NEW r \in Requests, Undo(r)
  PROVE  UNCHANGED Promise!promiseVars
<1>1. PICK c \in Challenges : c = claim[r].c
  BY ClaimFields DEF Undo, SolveInv
<1>2. /\ challenge[c].status = "consumed"
      /\ challenge[c].owner = SessionUser[claim[r].s]
      /\ spentOn[c] = {} /\ Held(c)
      /\ \A q \in Requests : at[q] \in Holding /\ claim[q].c = c => q = r
  BY <1>1 DEF SolveInv, HolderOwns, Holding, Undo, Held
<1>3. SetStatus(c, "verified") /\ UNCHANGED <<checking, spentOn, earned>>
  BY <1>1, <1>2 DEF Undo, Unconsume
<1>4. \A d \in Challenges : challenge'[d].status =
        IF d = c THEN "verified" ELSE challenge[d].status
  BY <1>3, SetStatusRow DEF SolveInv, EarnTypeOK, ChallengeStatuses
<1>5. \A q \in Requests :
        /\ at'[q] = IF q = r THEN "idle" ELSE at[q]
        /\ q # r => claim'[q] = claim[q]
  BY DEF Undo, Answer, SolveInv, EarnTypeOK
<1>6. \A d \in Challenges : BeingChecked(d)' <=> BeingChecked(d)
  BY <1>3 DEF BeingChecked
<1>7. \A d \in Challenges \ {c} : Held(d)' <=> Held(d)
  BY <1>1, <1>5 DEF Held, Holding
<1>8. \A d \in Challenges \ {c} : SolveOf(d)' = SolveOf(d)
  BY <1>3, <1>4, <1>6, <1>7, SolveStays
<1>9. SolveOf(c) = "solved" /\ SolveOf(c)' = "solved"
  BY <1>2, <1>3, <1>4 DEF SolveOf
<1>10. Rewarded' = Rewarded BY <1>3 DEF Rewarded
<1>11. QED BY <1>8, <1>9, <1>10, NoneSolved

(* The credit spends it, on a session that was not rewarded.                *)
LEMMA CreditPromise ==
  ASSUME SolveInv, NEW r \in Requests, Credit(r)
  PROVE  Promise!SolveNext \/ UNCHANGED Promise!promiseVars
<1>1. CASE Goto(r, "undo") /\ UNCHANGED <<moneyVars, spentOn>>
  BY <1>1, HoldersStay DEF Credit, Goto, SolveInv, EarnTypeOK, Holding
<1>2. CASE /\ Grant(claim[r].s) /\ Answer(r)
           /\ spentOn' = [spentOn EXCEPT ![claim[r].c] = @ \cup {claim[r].s}]
  <2>1. PICK c \in Challenges, s \in Events :
          c = claim[r].c /\ s = claim[r].s
    BY ClaimFields DEF Credit, SolveInv
  <2>2. /\ challenge[c].status = "consumed" /\ spentOn[c] = {} /\ Held(c)
        /\ \A q \in Requests : at[q] \in Holding /\ claim[q].c = c => q = r
    BY <2>1 DEF SolveInv, HolderOwns, Holding, Credit, Held
  <2>3. \A d \in Challenges :
          spentOn'[d] = IF d = c THEN {s} ELSE spentOn[d]
    BY <1>2, <2>1, <2>2 DEF SolveInv, EarnTypeOK
  <2>4. \A q \in Requests :
          /\ at'[q] = IF q = r THEN "idle" ELSE at[q]
          /\ q # r => claim'[q] = claim[q]
    BY <1>2 DEF Answer, SolveInv, EarnTypeOK
  <2>5. \A d \in Challenges \ {c} :
          (Held(d)' <=> Held(d)) /\ (BeingChecked(d)' <=> BeingChecked(d))
    BY <2>1, <2>4 DEF Held, Holding, Credit, BeingChecked
  <2>6. \A d \in Challenges \ {c} : SolveOf(d)' = SolveOf(d)
    BY <2>3, <2>5, SolveStays DEF Credit
  <2>7. SolveOf(c) = "solved" /\ SolveOf(c)' = "spent"
    BY <2>2, <2>3 DEF SolveOf
  <2>8. solves[c] = "solved" /\ solves' = [solves EXCEPT ![c] = "spent"]
    BY <2>6, <2>7 DEF solves
  <2>9. s \notin Rewarded /\ Rewarded' = Rewarded \cup {s}
    BY <1>2, <2>1, GrantRewards DEF Grant, RewardRows, Rewarded
  <2>10. Promise!Spend(c, s) BY <2>8, <2>9 DEF Promise!Spend, solves
  <2>11. QED BY <2>10 DEF Promise!SolveNext
<1>3. QED BY <1>1, <1>2 DEF Credit

LEMMA SolvePromiseStep ==
  ASSUME SolveInv, SolveInv', [EarnNext]_earnVars
  PROVE  Promise!SolveNext \/ UNCHANGED Promise!promiseVars
<1>0. EarnTypeOK BY DEF SolveInv
<1>1. CASE CaptchaStep /\ UNCHANGED <<earned, at, claim, spentOn>>
  BY <1>1, CaptchaPromise
<1>2. ASSUME NEW s \in Sessions, Start(s) \/ Heartbeat(s) \/ Ripen(s)
      PROVE UNCHANGED Promise!promiseVars
  BY <1>2, HoldersStay DEF Start, Heartbeat, Ripen
<1>3. ASSUME NEW r \in Requests, NEW s \in Sessions, NEW c \in Challenges,
             Load(r, s, c)
      PROVE UNCHANGED Promise!promiseVars
  BY <1>0, <1>3, HoldersStay DEF Load, EarnTypeOK, Holding
<1>4. ASSUME NEW r \in Requests, Gate(r)
      PROVE Promise!SolveNext \/ UNCHANGED Promise!promiseVars
  <2>1. CASE Goto(r, "credit")
    BY <1>0, <1>4, <2>1, HoldersStay DEF Gate, Goto, EarnTypeOK, Holding
  <2>2. CASE Answer(r) BY <1>4, <2>2, HolderLost DEF Gate, Holding
  <2>3. QED BY <1>4, <2>1, <2>2 DEF Gate
<1>5. ASSUME NEW r \in Requests, CreditFails(r)
      PROVE UNCHANGED Promise!promiseVars
  BY <1>0, <1>5, HoldersStay DEF CreditFails, Goto, EarnTypeOK, Holding
<1>6. ASSUME NEW r \in Requests, Die(r)
      PROVE Promise!SolveNext \/ UNCHANGED Promise!promiseVars
  <2>1. CASE at[r] \in Holding BY <1>6, <2>1, HolderLost DEF Die
  <2>2. CASE at[r] \notin Holding
    BY <1>0, <1>6, <2>2, HoldersStay DEF Die, Answer, EarnTypeOK, Holding
  <2>3. QED BY <2>1, <2>2
<1>7. CASE UNCHANGED earnVars BY <1>7, HoldersStay DEF earnVars
<1>8. QED
  BY <1>1, <1>2, <1>3, <1>4, <1>5, <1>6, <1>7, ConsumePromise, CreditPromise,
     UndoPromise DEF EarnNext, RequestStep

(* The claim pipeline implements SolvePromise while no two traces of one    *)
(* captcha are in flight: a solve is spent once, on a session not rewarded  *)
(* before, or lost, for good (EarnSessionClaimService:80-167).              *)
THEOREM SolveKept == ~ OverlappingVerify /\ EarnSpec => KeepsSolvePromise
<1>1. EarnInit => Promise!SolveInit
  <2>1. ASSUME EarnInit, NEW c \in Challenges PROVE SolveOf(c) = "open"
    BY <2>1 DEF EarnInit, CaptchaInit, SolveOf, Held, Holding
  <2>2. EarnInit => Rewarded = {} BY DEF EarnInit, MoneyInit, Rewarded
  <2>3. QED BY <2>1, <2>2 DEF Promise!SolveInit
<1>2. SolveInv /\ SolveInv' /\ [EarnNext]_earnVars
        => [Promise!SolveNext]_(Promise!promiseVars)
  BY SolvePromiseStep
<1>3. QED
  BY <1>1, <1>2, SolveInvariant, PTL
     DEF EarnSpec, KeepsSolvePromise, Promise!SolveSpec
============================================================================
