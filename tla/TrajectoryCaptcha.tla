------------------------- MODULE TrajectoryCaptcha -------------------------
(***************************************************************************)
(* TrajectoryCaptcha of resources/js/captcha/trajectory-trace.ts: the      *)
(* challenge on the canvas, the pointer samples, the animation, and the    *)
(* two requests.  One callback runs at a time; requests end in any order.  *)
(* A sample is what the properties tell of it: the challenge that was      *)
(* active when it was taken, its time stamp and its true time.             *)
(***************************************************************************)
EXTENDS Naturals, Sequences, Functions

CONSTANTS
    Challenges,  \* ids the server may issue to this page
    None,        \* no challenge, no animation
    CurveMs,     \* durationMs of each challenge, in ticks
    MaxPoints,   \* bound on the samples of one trace
    MaxClock     \* bound on the clock

ASSUME NoneAssumption  == None \notin Challenges
ASSUME CurveAssumption == CurveMs \in [Challenges -> Nat \ {0}]
ASSUME CaptchaBounds ==
    MaxPoints \in Nat /\ MaxClock \in Nat

VARIABLES
    clock,       \* performance.now()
    issued,      \* challenges whose request has been sent
    issuing,     \* those not answered yet
    challenge,   \* this.challenge
    points,      \* this.points
    startedAt,   \* this.startedAt
    capturing,   \* this.capturing
    frames,      \* animation loops with a frame requested, and their start
    animationId, \* the loop that requested a frame last
    shown,       \* what the canvas shows: a challenge and its trail
    answeredAt,  \* history: when each challenge arrived
    posted       \* history: the challenge and the trace verified last

requestVars == <<issued, issuing, posted>>
traceVars == <<challenge, points, startedAt, capturing, answeredAt>>
screenVars == <<frames, animationId, shown>>
trajectoryVars == <<clock, requestVars, traceVars, screenVars>>

Maybe == Challenges \cup {None}
Sample == [on : Maybe, t : Nat, at : Nat]
Trace == Seq(Sample)
Blank == [on |-> None, trail |-> <<>>]

TraceTypeOK ==
    /\ clock \in Nat /\ startedAt \in Nat /\ capturing \in BOOLEAN
    /\ issuing \subseteq issued /\ issued \subseteq Challenges
    /\ challenge \in Maybe /\ animationId \in Maybe
    /\ points \in Trace
    /\ DOMAIN frames \subseteq Challenges
    /\ \A c \in DOMAIN frames : frames[c] \in Nat
    /\ shown.on \in Maybe /\ shown.trail \in Trace
    /\ answeredAt \in [Challenges -> Nat]
    /\ posted.on \in Maybe /\ posted.trail \in Trace

TraceInit ==
    /\ clock = 0
    /\ issued = {} /\ issuing = {} /\ posted = Blank
    /\ challenge = None /\ points = <<>> /\ startedAt = 0
    /\ capturing = FALSE
    /\ answeredAt = [c \in Challenges |-> 0]
    /\ frames = <<>> /\ animationId = None
    /\ shown = Blank

(* draw(): everything anew, for the challenge and the samples there are.    *)
Draw(c, trail) == shown' = [on |-> c, trail |-> trail]

(* startAnimation(): a loop of its own; an earlier one is not cancelled.    *)
StartAnimation(c) ==
    /\ frames' = [l \in DOMAIN frames \cup {c} |->
                    IF l = c THEN clock ELSE frames[l]]
    /\ animationId' = c

(* stopAnimation(): cancels the frame that was requested last.              *)
StopAnimation ==
    /\ frames' = Restrict(frames, DOMAIN frames \ {animationId})
    /\ animationId' = None

(* issue(): the request.                                                    *)
IssueCall(c) ==
    /\ c \notin issued
    /\ issued' = issued \cup {c}
    /\ issuing' = issuing \cup {c}
    /\ UNCHANGED <<clock, posted, traceVars, screenVars>>

(* issue(): its answer replaces whatever challenge there is.                *)
IssueReply_KeepPoints(c) ==                  \* mutant of IssueReply
    /\ c \in issuing
    /\ issuing' = issuing \ {c}
    /\ challenge' = c
    /\ startedAt' = clock
    /\ answeredAt' = [answeredAt EXCEPT ![c] = clock]
    /\ Draw(c, points)
    /\ StartAnimation(c)
    /\ UNCHANGED <<clock, issued, posted, points, capturing>>
IssueReply(c) ==
    /\ c \in issuing
    /\ issuing' = issuing \ {c}
    /\ challenge' = c
    /\ points' = <<>>
    /\ startedAt' = clock
    /\ answeredAt' = [answeredAt EXCEPT ![c] = clock]
    /\ Draw(c, <<>>)
    /\ StartAnimation(c)
    /\ UNCHANGED <<clock, issued, posted, capturing>>

(* issue(): a failure leaves everything as it was.                          *)
IssueFails(c) ==
    /\ c \in issuing
    /\ issuing' = issuing \ {c}
    /\ UNCHANGED <<clock, issued, posted, traceVars, screenVars>>

(* recordPoint().                                                           *)
RecordPoint ==
    /\ Len(points) < MaxPoints
    /\ points' = Append(points, [on |-> challenge, t |-> clock - startedAt,
                                 at |-> clock])

PointerDown ==
    /\ challenge # None
    /\ capturing' = TRUE
    /\ RecordPoint
    /\ UNCHANGED <<clock, requestVars, challenge, startedAt, answeredAt,
                   screenVars>>

PointerMove ==
    /\ capturing
    /\ RecordPoint
    /\ UNCHANGED <<clock, requestVars, challenge, startedAt, capturing,
                   answeredAt, screenVars>>

(* pointerup and pointercancel.                                             *)
PointerUp ==
    /\ capturing
    /\ capturing' = FALSE
    /\ RecordPoint
    /\ UNCHANGED <<clock, requestVars, challenge, startedAt, answeredAt,
                   screenVars>>

(* verify(): posted the samples of now; the challenge stays, and nothing     *)
(* keeps a second call from posting it again.                               *)
Verify ==
    /\ challenge # None
    /\ StopAnimation
    /\ posted' = [on |-> challenge, trail |-> points]
    /\ UNCHANGED <<clock, issued, issuing, traceVars, shown>>

(* reset(): the pointer may still be held, and requests be in flight.       *)
Reset ==
    /\ points' = <<>>
    /\ startedAt' = 0
    /\ challenge' = None
    /\ StopAnimation
    /\ shown' = Blank
    /\ UNCHANGED <<clock, requestVars, capturing, answeredAt>>

(* A frame of loop l: it ends without a challenge or at the end of the      *)
(* curve, which is measured with the duration of the challenge of now.      *)
AtEnd(l) == challenge # None => clock - frames[l] >= CurveMs[challenge]
Frame_Cycles(l) ==                           \* mutant of Frame
    /\ l \in DOMAIN frames
    /\ challenge # None
    /\ Draw(challenge, points)
    /\ animationId' = l
    /\ UNCHANGED <<clock, requestVars, traceVars, frames>>
Frame(l) ==
    /\ l \in DOMAIN frames
    /\ \/ challenge = None /\ UNCHANGED shown
       \/ challenge # None /\ Draw(challenge, points)
    /\ \/ /\ ~ AtEnd(l)
          /\ animationId' = l
          /\ UNCHANGED frames
       \/ /\ AtEnd(l)
          /\ frames' = Restrict(frames, DOMAIN frames \ {l})
          /\ UNCHANGED animationId
    /\ UNCHANGED <<clock, requestVars, traceVars>>

ClockTicks ==
    /\ clock < MaxClock
    /\ clock' = clock + 1
    /\ UNCHANGED <<requestVars, traceVars, screenVars>>

TraceNext ==
    \/ \E c \in Challenges :
         IssueCall(c) \/ IssueReply(c) \/ IssueFails(c) \/ Frame(c)
    \/ PointerDown \/ PointerMove \/ PointerUp
    \/ Verify \/ Reset \/ ClockTicks

(* The browser goes on drawing frames and its clock goes on.                *)
TraceFairness ==
    /\ WF_trajectoryVars(ClockTicks)
    /\ \A c \in Challenges : WF_trajectoryVars(Frame(c))

TraceSpec == TraceInit /\ [][TraceNext]_trajectoryVars /\ TraceFairness

----------------------------------------------------------------------------
(* The samples of a trace that challenge c was active for, each stamped     *)
(* with the time since c arrived, in the order they were taken.             *)
TraceOf(c, trace) ==
    /\ \A i \in DOMAIN trace :
          trace[i].on = c /\ trace[i].t = trace[i].at - answeredAt[c]
    /\ \A i, j \in DOMAIN trace : i < j => trace[i].t <= trace[j].t

(* However issue(), reset(), a held pointer and verify() interleave, a      *)
(* verification posts only samples taken while its challenge was on the     *)
(* canvas, timed from its arrival, and the canvas shows no other trail: a   *)
(* trace that mixes two challenges would fail the server's checks of speed  *)
(* and of the way to the goal, and its author be taken for a bot.           *)
TraceOfItsChallenge ==
    /\ posted.on # None => TraceOf(posted.on, posted.trail)
    /\ shown.on # None => TraceOf(shown.on, shown.trail)

(* Every animation loop comes to its end, also one that a second issue()    *)
(* left without a handle and stopAnimation() cannot cancel any more.        *)
InTime(c) == \A d \in Challenges : frames[c] + CurveMs[d] <= MaxClock
AnimationEnds ==
    \A c \in Challenges :
        c \in DOMAIN frames /\ InTime(c) ~> c \notin DOMAIN frames
============================================================================
