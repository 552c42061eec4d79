----------------------------- MODULE PtcViewer -----------------------------
(***************************************************************************)
(* PtcViewer of resources/js/ptc/viewer.ts: the countdown of a paid ad and *)
(* its heartbeats, against the view the server keeps and its two gates at  *)
(* completion.  Times are in ticks of one clock, which counts from start().*)
(* A timer fires at most Lag after it is due: time does not pass it by.    *)
(* The fetch of a heartbeat has no timeout: an answer may take any time,   *)
(* and one that takes longer than MaxTrip is only remembered.              *)
(***************************************************************************)
EXTENDS Naturals

CONSTANTS
    Second,   \* ticks of one second
    AdSecs,   \* duration_sec of the ad
    Waits,    \* the jittered waits between heartbeats: 1.5 to 2.5 seconds
    Lag,      \* how late the browser may run a timer
    MaxTrip,  \* a heartbeat that is answered later is slow
    MinSolve, \* what the captcha takes at least after the countdown
    MaxLost,  \* bound on heartbeats lost on the network
    Horizon   \* bound on the clock

ASSUME TimesAssumption ==
    /\ Second \in Nat \ {0} /\ AdSecs \in Nat \ {0} /\ Waits \subseteq Nat
    /\ Lag \in Nat /\ MaxTrip \in Nat /\ MinSolve \in Nat
    /\ MaxLost \in Nat /\ Horizon \in Nat
(* The jitter is bounded.                                                   *)
ASSUME WaitsAssumption == \E w \in Waits : \A v \in Waits : v <= w

VARIABLES
    now,       \* the clock
    slow,      \* some heartbeat was not answered within MaxTrip
    ticking,   \* intervalId # null
    nextTick,  \* when the interval is due
    remaining, \* seconds still to watch
    done,      \* the countdown has ended
    doneAt,    \* when it did
    pulse,     \* where the heartbeat loop is
    due,       \* of its timer, or of the answer it awaits
    sent,      \* heartbeats posted
    received,  \* heartbeats_received of the view
    lost,      \* heartbeats that never arrived
    verdict    \* of the completion: none yet, ok, heartbeat_deficit, too_fast

clockVars == <<now, slow>>
countdownVars == <<ticking, nextTick, remaining, done, doneAt>>
pulseVars == <<pulse, due, sent>>
viewVars == <<received, lost, verdict>>
viewerVars == <<clockVars, countdownVars, pulseVars, viewVars>>

Phases == {"off",      \* no timer, no fetch
           "waiting",  \* heartbeatId is set
           "posted",   \* the fetch has left, the server has not seen it
           "answered"} \* received or lost; sendHeartbeat has not returned

ViewerTypeOK ==
    /\ now \in Nat /\ nextTick \in Nat /\ doneAt \in Nat /\ due \in Nat
    /\ ticking \in BOOLEAN /\ done \in BOOLEAN /\ slow \in BOOLEAN
    /\ remaining \in 0..AdSecs
    /\ pulse \in Phases
    /\ sent \in Nat /\ received \in Nat /\ lost \in Nat
    /\ verdict \in {"none", "ok", "heartbeat_deficit", "too_fast"}

(* scheduleHeartbeat(): a fresh timer, unless the countdown has ended.      *)
Schedule_Always ==                           \* mutant of Schedule
    pulse' = "waiting" /\ \E w \in Waits : due' = now + w
Schedule ==
    \/ done /\ pulse' = "off" /\ UNCHANGED due
    \/ ~ done /\ pulse' = "waiting" /\ \E w \in Waits : due' = now + w

(* start(): one interval and the heartbeat loop.  The page calls it once.   *)
ViewerInit ==
    /\ now = 0 /\ slow = FALSE
    /\ ticking = TRUE /\ nextTick = Second
    /\ remaining = AdSecs
    /\ done = FALSE /\ doneAt = 0
    /\ pulse = "waiting" /\ due \in Waits
    /\ sent = 0
    /\ received = 0 /\ lost = 0 /\ verdict = "none"

(* stop(): both timers are cleared; a heartbeat that is being awaited is    *)
(* not, and the loop goes on when it returns.                               *)
ClearPulse == /\ pulse' = IF pulse = "waiting" THEN "off" ELSE pulse
              /\ UNCHANGED <<due, sent>>

Stop ==
    /\ ~ done
    /\ ticking
    /\ ticking' = FALSE
    /\ ClearPulse
    /\ UNCHANGED <<clockVars, nextTick, remaining, done, doneAt, viewVars>>

(* tick(): every second, and at zero done, stop() and onComplete().         *)
Tick_GoesOn ==                               \* mutant of Tick
    /\ ticking
    /\ now >= nextTick
    /\ nextTick' = nextTick + Second
    /\ remaining' = remaining - 1
    /\ done' = (done \/ remaining = 1)
    /\ UNCHANGED <<clockVars, ticking, doneAt, pulseVars, viewVars>>
Tick ==
    /\ ticking
    /\ now >= nextTick
    /\ nextTick' = nextTick + Second
    /\ remaining' = remaining - 1
    /\ \/ /\ remaining > 1
          /\ UNCHANGED <<ticking, done, doneAt, pulseVars>>
       \/ /\ remaining = 1
          /\ done' = TRUE
          /\ doneAt' = now
          /\ ticking' = FALSE
          /\ ClearPulse
    /\ UNCHANGED <<clockVars, viewVars>>

(* The heartbeat's timer fires: sendHeartbeat() posts.                      *)
Beat ==
    /\ pulse = "waiting"
    /\ now >= due
    /\ pulse' = "posted"
    /\ due' = now
    /\ sent' = sent + 1
    /\ UNCHANGED <<clockVars, countdownVars, viewVars>>

(* PtcController::runHeartbeat, while the view is pending; afterwards it is *)
(* refused, which the viewer does not look at.                              *)
Arrive ==
    /\ pulse = "posted"
    /\ pulse' = "answered"
    /\ received' = IF verdict = "none" THEN received + 1 ELSE received
    /\ UNCHANGED <<clockVars, countdownVars, due, sent, lost, verdict>>

LoseBeat ==
    /\ pulse = "posted"
    /\ lost < MaxLost
    /\ lost' = lost + 1
    /\ pulse' = "answered"
    /\ UNCHANGED <<clockVars, countdownVars, due, sent, received, verdict>>

(* The await ends, by an answer or by an exception that is swallowed.       *)
Return ==
    /\ pulse = "answered"
    /\ Schedule
    /\ UNCHANGED <<clockVars, countdownVars, sent, viewVars>>

(* The server's arithmetic at the start and at the completion of a view.    *)
Ceil(n, d) == (n + d - 1) \div d
AtLeast(n, m) == IF n < m THEN m ELSE n
Expected  == AtLeast(Ceil(AdSecs, 2), 3)
Required  == Ceil(7 * Expected, 10)
MinAge    == (AdSecs - 1) * Second

(* onComplete opens the captcha; once it is solved the view is completed,   *)
(* and the gates of finishView and claim() look at it.                      *)
Complete_Above ==                            \* mutant of Complete
    /\ done
    /\ verdict = "none"
    /\ now >= doneAt + MinSolve
    /\ verdict' = IF received <= Required THEN "heartbeat_deficit"
                  ELSE IF now < MinAge THEN "too_fast" ELSE "ok"
    /\ UNCHANGED <<clockVars, countdownVars, pulseVars, received, lost>>
Complete ==
    /\ done
    /\ verdict = "none"
    /\ now >= doneAt + MinSolve
    /\ verdict' = IF received < Required THEN "heartbeat_deficit"
                  ELSE IF now < MinAge THEN "too_fast" ELSE "ok"
    /\ UNCHANGED <<clockVars, countdownVars, pulseVars, received, lost>>

(* Time stands still at a timer that can wait no longer.                    *)
Urgent ==
    \/ ticking /\ now >= nextTick + Lag
    \/ pulse = "waiting" /\ now >= due + Lag

TimePasses ==
    /\ ~ Urgent
    /\ now < Horizon
    /\ now' = now + 1
    /\ slow' = (slow \/ (pulse \in {"posted", "answered"} /\ now >= due + MaxTrip))
    /\ UNCHANGED <<countdownVars, pulseVars, viewVars>>

ViewerNext ==
    \/ Stop \/ Tick \/ Beat \/ Arrive \/ LoseBeat \/ Return
    \/ Complete \/ TimePasses

(* A fetch is answered or fails, and the function that awaits it goes on.   *)
ViewerFairness ==
    /\ WF_viewerVars(Arrive \/ LoseBeat)
    /\ WF_viewerVars(Return)

ViewerSpec == ViewerInit /\ [][ViewerNext]_viewerVars /\ ViewerFairness

----------------------------------------------------------------------------
(* The longest a round of the heartbeat loop takes if no answer is slow.    *)
MaxWait == CHOOSE w \in Waits : \A v \in Waits : v <= w
Round   == MaxWait + Lag + MaxTrip

(* Whether the ad is long enough for the slowest jitter to post as often as *)
(* the server requires before the countdown ends, and for the last of these *)
(* to arrive before the captcha is solved: not every duration_sec is.       *)
LongEnough ==
    /\ (Required - 1) * Round + MaxWait + Lag < AdSecs * Second
    /\ Required * Round < AdSecs * Second + MinSolve

(* A viewer that watched to the end, lost no heartbeat on the way and had   *)
(* none answered slowly is credited, whatever the jitter and the lateness   *)
(* of the timers: 70% of a heartbeat every other second is within what the  *)
(* loop can do, and the view does not need the heartbeat that is still in   *)
(* flight at its completion and is refused then.                            *)
HonestViewerCredited ==
    verdict # "none" /\ lost = 0 /\ ~ slow /\ LongEnough => verdict = "ok"

(* A share of heartbeats below 70% "means the user opened the tab in the   *)
(* background or scripted past the timer" (PtcController:174-177): who      *)
(* watched with exact timers, lost no heartbeat and had each one answered   *)
(* at once is never turned down.                                            *)
DeficitMeansAway ==
    verdict = "heartbeat_deficit" =>
        lost > 0 \/ slow \/ Lag > 0 \/ MaxTrip > 0

(* Once the countdown has ended the loop falls silent, also when a          *)
(* heartbeat was being awaited.                                             *)
PulseEnds == done ~> [](pulse = "off")
=============================================================================
