-------------------------- MODULE ApiClients_proofs --------------------------
(***************************************************************************)
(* The clients of the HTTP interface, each for every value of its          *)
(* constants: the telemetry beacon, the trajectory captcha, the viewer of  *)
(* an ad and the server of BitcoTasks; then the four of them together.     *)
(***************************************************************************)
EXTENDS ApiClients, Earnings_proofs

-----------------------------------------------------------------------------
(***************************************************************************)
(* The beacon: for every buffer size, limit and number of events it keeps  *)
(* its types, its batches fit the endpoint, and it implements EventLog.    *)
(***************************************************************************)

(* The buffer stays below its limit, and a batch was never larger.          *)
SizeInv ==
    /\ IsFiniteSet(buffer) /\ Cardinality(buffer) < MaxBufferSize
    /\ \A b \in posts : /\ IsFiniteSet(b) /\ b # {}
                        /\ Cardinality(b) <= MaxBufferSize

(* An event is in one place: the buffer or a single batch.                  *)
ApartInv ==
    /\ \A b \in posts : b \cap buffer = {}
    /\ \A b, d \in posts : b # d => b \cap d = {}

BeaconInv == BeaconTypeOK /\ SizeInv /\ ApartInv

LEMMA InitBeacon == BeaconInit => BeaconInv
<1> SUFFICES ASSUME BeaconInit PROVE BeaconInv OBVIOUS
<1>1. BeaconTypeOK BY DEF BeaconInit, BeaconTypeOK
<1>2. SizeInv
  BY FS_EmptySet, BufferAssumption, LimitAssumption DEF BeaconInit, SizeInv
<1>3. ApartInv BY DEF BeaconInit, ApartInv
<1>4. QED BY <1>1, <1>2, <1>3 DEF BeaconInv

(* The buffer with one event more: still within the limit, and new to every *)
(* batch.                                                                   *)
LEMMA OneMoreInBuffer ==
  ASSUME BeaconInv
  PROVE  LET b == buffer \cup {recorded + 1}
         IN  /\ IsFiniteSet(b) /\ b # {} /\ b \subseteq 1..(recorded + 1)
             /\ Cardinality(b) <= MaxBufferSize
             /\ \A d \in posts : d \cap b = {}
<1> DEFINE b == buffer \cup {recorded + 1}
<1>1. recorded \in Nat /\ buffer \subseteq 1..recorded
      /\ \A d \in posts : d \subseteq 1..recorded
  BY DEF BeaconInv, BeaconTypeOK
<1>2. recorded + 1 \notin 1..recorded BY <1>1
<1>3. IsFiniteSet(b) /\ Cardinality(b) = Cardinality(buffer) + 1
  BY <1>1, <1>2, FS_AddElement DEF BeaconInv, SizeInv
<1>4. Cardinality(buffer) \in Nat
  BY FS_CardinalityType DEF BeaconInv, SizeInv
<1>5. Cardinality(b) <= MaxBufferSize
  BY <1>3, <1>4, BufferAssumption DEF BeaconInv, SizeInv
<1>6. b # {} /\ b \subseteq 1..(recorded + 1) BY <1>1
<1>7. \A d \in posts : d \cap b = {}
  BY <1>1, <1>2 DEF BeaconInv, ApartInv
<1>8. QED BY <1>3, <1>5, <1>6, <1>7

LEMMA PushKeeps ==
  ASSUME BeaconInv, Push, open' \in BOOLEAN, throttled' \in BOOLEAN,
         UNCHANGED <<stored, dropped>>
  PROVE  BeaconInv'
<1> DEFINE b == buffer \cup {recorded + 1}
<1>1. /\ IsFiniteSet(b) /\ b # {} /\ b \subseteq 1..(recorded + 1)
      /\ Cardinality(b) <= MaxBufferSize
      /\ \A d \in posts : d \cap b = {}
  BY OneMoreInBuffer
<1>2. recorded \in Nat /\ recorded' = recorded + 1 /\ recorded' \in Nat
  BY DEF Push, BeaconInv, BeaconTypeOK
<1>3. 1..recorded \subseteq 1..recorded' BY <1>2
<1>4. /\ stored' \subseteq 1..recorded' /\ dropped' \subseteq 1..recorded'
      /\ posts \subseteq SUBSET (1..recorded')
  BY <1>3 DEF BeaconInv, BeaconTypeOK
<1>5. CASE Cardinality(b) >= MaxBufferSize /\ Flush(b)
  <2>1. posts' = posts \cup {b} /\ buffer' = {} BY <1>5 DEF Flush
  <2>2. BeaconTypeOK' BY <2>1, <1>1, <1>2, <1>4 DEF BeaconTypeOK
  <2>3. SizeInv'
    <3> HIDE DEF b
    <3>1. IsFiniteSet(buffer') /\ Cardinality(buffer') < MaxBufferSize
      BY <2>1, FS_EmptySet, BufferAssumption, LimitAssumption
    <3>2. \A d \in posts' : /\ IsFiniteSet(d) /\ d # {}
                            /\ Cardinality(d) <= MaxBufferSize
      BY <2>1, <1>1 DEF BeaconInv, SizeInv
    <3>3. QED BY <3>1, <3>2 DEF SizeInv
  <2>4. ApartInv' BY <2>1, <1>1 DEF BeaconInv, ApartInv
  <2>5. QED BY <2>2, <2>3, <2>4 DEF BeaconInv
<1>6. CASE Cardinality(b) < MaxBufferSize /\ buffer' = b /\ UNCHANGED posts
  <2>1. BeaconTypeOK' BY <1>6, <1>1, <1>2, <1>4 DEF BeaconTypeOK
  <2>2. SizeInv' BY <1>6, <1>1 DEF BeaconInv, SizeInv
  <2>3. ApartInv' BY <1>6, <1>1 DEF BeaconInv, ApartInv
  <2>4. QED BY <2>1, <2>2, <2>3 DEF BeaconInv
<1>7. QED BY <1>5, <1>6 DEF Push

LEMMA FlushKeeps == BeaconInv /\ FlushTimer => BeaconInv'
<1> SUFFICES ASSUME BeaconInv, FlushTimer PROVE BeaconInv' OBVIOUS
<1>1. posts' = posts \cup {buffer} /\ buffer' = {} /\ buffer # {}
  BY DEF FlushTimer, Flush
<1>2. UNCHANGED <<open, recorded, throttled, stored, dropped>>
  BY DEF FlushTimer
<1>3. BeaconTypeOK' BY <1>1, <1>2 DEF BeaconInv, BeaconTypeOK
<1>4. Cardinality(buffer) \in Nat
  BY FS_CardinalityType DEF BeaconInv, SizeInv
<1>5. SizeInv'
  BY <1>1, <1>4, FS_EmptySet, BufferAssumption, LimitAssumption
     DEF BeaconInv, SizeInv
<1>6. ApartInv' BY <1>1 DEF BeaconInv, ApartInv
<1>7. QED BY <1>3, <1>5, <1>6 DEF BeaconInv

LEMMA UnloadKeeps == BeaconInv /\ Unload => BeaconInv'
<1> SUFFICES ASSUME BeaconInv, Unload PROVE BeaconInv' OBVIOUS
<1>1. BeaconTypeOK' BY DEF BeaconInv, BeaconTypeOK, Unload
<1>2. SizeInv'
  BY FS_EmptySet, BufferAssumption, LimitAssumption
     DEF BeaconInv, SizeInv, Unload
<1>3. ApartInv' BY DEF BeaconInv, ApartInv, Unload
<1>4. QED BY <1>1, <1>2, <1>3 DEF BeaconInv

LEMMA EndKeeps ==
  ASSUME BeaconInv, NEW b \in posts, Store(b) \/ Drop(b)
  PROVE  BeaconInv'
<1>1. /\ posts' = posts \ {b} /\ UNCHANGED <<open, recorded, throttled, buffer>>
      /\ stored' \subseteq stored \cup b /\ dropped' \subseteq dropped \cup b
  BY DEF Store, Drop
<1>2. BeaconTypeOK' BY <1>1 DEF BeaconInv, BeaconTypeOK
<1>3. SizeInv' BY <1>1 DEF BeaconInv, SizeInv
<1>4. ApartInv' BY <1>1 DEF BeaconInv, ApartInv
<1>5. QED BY <1>2, <1>3, <1>4 DEF BeaconInv

LEMMA NextBeacon == BeaconInv /\ [BeaconNext]_beaconVars => BeaconInv'
<1> SUFFICES ASSUME BeaconInv, [BeaconNext]_beaconVars PROVE BeaconInv'
  OBVIOUS
<1>1. CASE Record \/ MouseMove
  <2>1. open \in BOOLEAN /\ throttled \in BOOLEAN
    BY DEF BeaconInv, BeaconTypeOK
  <2>2. QED BY <1>1, <2>1, PushKeeps DEF Record, MouseMove
<1>2. CASE ThrottleEnds
  BY <1>2 DEF ThrottleEnds, BeaconInv, BeaconTypeOK, SizeInv, ApartInv
<1>3. CASE FlushTimer BY <1>3, FlushKeeps
<1>4. CASE Unload BY <1>4, UnloadKeeps
<1>5. CASE \E b \in posts : Store(b) \/ Drop(b) BY <1>5, EndKeeps
<1>6. CASE UNCHANGED beaconVars
  BY <1>6 DEF beaconVars, BeaconInv, BeaconTypeOK, SizeInv, ApartInv
<1>7. QED BY <1>1, <1>2, <1>3, <1>4, <1>5, <1>6 DEF BeaconNext

LEMMA BeaconInvariant == BeaconSpec => []BeaconInv
BY InitBeacon, NextBeacon, PTL DEF BeaconSpec

(* The variables of the beacon keep their types (telemetry.ts).             *)
THEOREM BeaconTypeCorrect == BeaconSpec => []BeaconTypeOK
<1>1. BeaconInv => BeaconTypeOK BY DEF BeaconInv
<1>2. QED BY <1>1, BeaconInvariant, PTL

LEMMA BatchFits == BeaconInv => BatchAccepted
<1> SUFFICES ASSUME BeaconInv, NEW b \in posts
    PROVE b # {} /\ Cardinality(b) <= ServerLimit
  BY DEF BatchAccepted
<1>1. b # {} /\ Cardinality(b) <= MaxBufferSize /\ Cardinality(b) \in Nat
  BY FS_CardinalityType DEF BeaconInv, SizeInv
<1>2. QED BY <1>1, BufferAssumption, LimitAssumption

(* A batch is never empty and never longer than the endpoint takes, for     *)
(* every buffer size within its limit (push(), BeaconController::store).    *)
THEOREM BatchesAccepted == BeaconSpec => []BatchAccepted
BY BatchFits, BeaconInvariant, PTL

----------------------------------------------------------------------------
(* Refinement of EventLog.                                                  *)

LEMMA InitLog == BeaconInit => Log!LogInit
BY DEF BeaconInit, Log!LogInit

(* A batch that ends leaves the pending events: no other batch and not the  *)
(* buffer hold any of its events.                                           *)
LEMMA EndTakesBatch ==
  ASSUME BeaconInv, NEW b \in posts,
         posts' = posts \ {b}, buffer' = buffer
  PROVE  /\ b \in SUBSET (buffer \cup UNION posts)
         /\ (buffer \cup UNION posts)' = (buffer \cup UNION posts) \ b
BY DEF BeaconInv, ApartInv

LEMMA StepLog ==
  BeaconInv /\ [BeaconNext]_beaconVars => [Log!LogNext]_(Log!logVars)
<1> SUFFICES ASSUME BeaconInv, [BeaconNext]_beaconVars
    PROVE [Log!LogNext]_(Log!logVars)
  OBVIOUS
<1> DEFINE pending == buffer \cup UNION posts
<1>1. CASE Record \/ MouseMove
  <2>1. Push /\ UNCHANGED <<stored, dropped>> BY <1>1 DEF Record, MouseMove
  <2>2. recorded' = recorded + 1 BY <2>1 DEF Push
  <2>3. (buffer \cup UNION posts)' = pending \cup {recorded + 1}
    BY <2>1 DEF Push, Flush
  <2>4. Log!Observe BY <2>1, <2>2, <2>3 DEF Log!Observe
  <2>5. QED BY <2>4 DEF Log!LogNext
<1>2. CASE ThrottleEnds BY <1>2 DEF ThrottleEnds, Log!logVars
<1>3. CASE FlushTimer
  <2>1. (buffer \cup UNION posts)' = pending BY <1>3 DEF FlushTimer, Flush
  <2>2. QED BY <1>3, <2>1 DEF FlushTimer, Log!logVars
<1>4. CASE Unload
  <2>1. (buffer \cup UNION posts)' = pending \ buffer
    BY <1>4 DEF Unload, BeaconInv, ApartInv
  <2>2. Log!GiveUp(buffer) BY <1>4, <2>1 DEF Unload, Log!GiveUp
  <2>3. QED BY <2>2 DEF Log!LogNext
<1>5. CASE \E b \in posts : Store(b) \/ Drop(b)
  <2>1. PICK b \in posts : Store(b) \/ Drop(b) BY <1>5
  <2>2. posts' = posts \ {b} /\ buffer' = buffer BY <2>1 DEF Store, Drop
  <2>3. b \in SUBSET pending /\ (buffer \cup UNION posts)' = pending \ b
    BY <2>2, EndTakesBatch
  <2>4. Log!Keep(b) \/ Log!GiveUp(b)
    BY <2>1, <2>3 DEF Store, Drop, Log!Keep, Log!GiveUp
  <2>5. QED BY <2>3, <2>4 DEF Log!LogNext
<1>6. CASE UNCHANGED beaconVars BY <1>6 DEF beaconVars, Log!logVars
<1>7. QED BY <1>1, <1>2, <1>3, <1>4, <1>5, <1>6 DEF BeaconNext

(* The beacon implements EventLog: with any number of overlapping flushes,  *)
(* an event is stored at most once or given up at most once, never both     *)
(* (push(), flush(), telemetry.ts:41-98).                                   *)
THEOREM LogKept == BeaconSpec => KeepsLog
BY InitLog, StepLog, BeaconInvariant, PTL DEF BeaconSpec, KeepsLog, Log!LogSpec

-----------------------------------------------------------------------------
(***************************************************************************)
(* The captcha: for any challenges, curves and length of a trace, what is  *)
(* posted and what is drawn are samples of the challenge they are posted   *)
(* and drawn with.                                                         *)
(***************************************************************************)

(* A challenge that is on the page, drawn or posted has been answered, and  *)
(* is not answered again.                                                   *)
Answered(c) == c = None \/ c \in issued \ issuing

(* The samples at hand: of the challenge there is, timed from its arrival,  *)
(* none later than now.                                                     *)
PointsInv ==
    /\ startedAt <= clock
    /\ \A i \in DOMAIN points : points[i].at <= clock
    /\ challenge # None =>
         /\ startedAt = answeredAt[challenge]
         /\ TraceOf(challenge, points)

TraceInv ==
    /\ TraceTypeOK
    /\ Answered(challenge) /\ Answered(posted.on) /\ Answered(shown.on)
    /\ PointsInv
    /\ TraceOfItsChallenge

(* TraceOf looks at answeredAt[c] only.                                     *)
LEMMA TraceOfStays ==
  ASSUME NEW c, NEW trace, TraceOf(c, trace), answeredAt'[c] = answeredAt[c]
  PROVE  TraceOf(c, trace)'
BY DEF TraceOf

LEMMA EmptyTrace ==
  ASSUME NEW c PROVE TraceOf(c, <<>>) /\ <<>> \in Trace
BY DEF TraceOf, Trace

(* One more sample of the same challenge, not earlier than the others.      *)
LEMMA OneMoreSample ==
  ASSUME NEW c \in Challenges, NEW trace \in Trace, NEW s \in Sample,
         answeredAt \in [Challenges -> Nat],
         TraceOf(c, trace), s.on = c, s.t = s.at - answeredAt[c],
         \A i \in DOMAIN trace : trace[i].at <= s.at
  PROVE  TraceOf(c, Append(trace, s))
<1> DEFINE new == Append(trace, s)
           n == Len(trace)
<1>1. /\ n \in Nat /\ DOMAIN trace = 1..n /\ DOMAIN new = 1..(n + 1)
      /\ new[n + 1] = s /\ \A i \in 1..n : new[i] = trace[i]
  BY DEF Trace
<1>2. \A i \in 1..n : trace[i] \in Sample BY <1>1 DEF Trace
<1>3. \A i \in 1..n : trace[i].on = c /\ trace[i].t = trace[i].at - answeredAt[c]
  BY <1>1 DEF TraceOf
<1>4. \A i \in 1..(n + 1) : new[i].on = c /\ new[i].t = new[i].at - answeredAt[c]
  BY <1>1, <1>3
<1>5. ASSUME NEW i \in 1..(n + 1), NEW j \in 1..(n + 1), i < j
      PROVE new[i].t <= new[j].t
  <2>1. i \in 1..n BY <1>1, <1>5
  <2>2. CASE j \in 1..n BY <2>1, <2>2, <1>1, <1>5 DEF TraceOf
  <2>3. CASE j = n + 1
    <3>1. /\ trace[i].at \in Nat /\ s.at \in Nat /\ answeredAt[c] \in Nat
          /\ trace[i].at <= s.at /\ trace[i].t = trace[i].at - answeredAt[c]
      BY <2>1, <1>1, <1>2, <1>3 DEF Sample
    <3>2. trace[i].t <= s.t BY <3>1
    <3>3. QED BY <3>2, <2>1, <2>3, <1>1
  <2>4. QED BY <1>1, <2>2, <2>3
<1>6. QED BY <1>1, <1>4, <1>5 DEF TraceOf
----------------------------------------------------------------------------

LEMMA InitTrace == TraceInit => TraceInv
<1> SUFFICES ASSUME TraceInit PROVE TraceInv OBVIOUS
<1>1. Blank.on = None /\ Blank.trail = <<>> BY DEF Blank
<1>2. TraceTypeOK
  <2>1. DOMAIN frames \subseteq Challenges
        /\ \A c \in DOMAIN frames : frames[c] \in Nat
    BY DEF TraceInit
  <2>2. QED BY <1>1, <2>1, EmptyTrace DEF TraceInit, TraceTypeOK, Maybe
<1>3. Answered(challenge) /\ Answered(posted.on) /\ Answered(shown.on)
  BY <1>1 DEF TraceInit, Answered
<1>4. PointsInv BY DEF TraceInit, PointsInv
<1>5. TraceOfItsChallenge BY <1>1 DEF TraceInit, TraceOfItsChallenge
<1>6. QED BY <1>2, <1>3, <1>4, <1>5 DEF TraceInv

LEMMA AnimationTypes ==
  ASSUME TraceTypeOK,
         \/ StopAnimation
         \/ \E c \in Challenges : StartAnimation(c)
  PROVE  /\ DOMAIN frames' \subseteq Challenges
         /\ \A c \in DOMAIN frames' : frames'[c] \in Nat
         /\ animationId' \in Maybe
BY DEF TraceTypeOK, StopAnimation, StartAnimation, Restrict, Maybe

(* issue(), the request and its failure: nothing answered becomes open.     *)
LEMMA RequestKeeps ==
  ASSUME TraceInv, NEW c \in Challenges, IssueCall(c) \/ IssueFails(c)
  PROVE  TraceInv'
<1>1. UNCHANGED <<clock, posted, traceVars, screenVars>>
  BY DEF IssueCall, IssueFails
<1>2. TraceTypeOK'
  BY <1>1 DEF IssueCall, IssueFails, TraceInv, TraceTypeOK, traceVars, screenVars
<1>3. ASSUME NEW d, Answered(d) PROVE Answered(d)'
  BY <1>3 DEF IssueCall, IssueFails, Answered
<1>4. Answered(challenge)' /\ Answered(posted.on)' /\ Answered(shown.on)'
  BY <1>1, <1>3 DEF TraceInv, Answered, traceVars, screenVars
<1>5. PointsInv' /\ TraceOfItsChallenge'
  BY <1>1 DEF TraceInv, PointsInv, TraceOfItsChallenge, TraceOf, traceVars,
              screenVars
<1>6. QED BY <1>2, <1>4, <1>5 DEF TraceInv

LEMMA ReplyKeeps ==
  ASSUME TraceInv, NEW c \in Challenges, IssueReply(c) PROVE TraceInv'
<1>1. /\ challenge' = c /\ points' = <<>> /\ startedAt' = clock
      /\ answeredAt' = [answeredAt EXCEPT ![c] = clock]
      /\ shown' = [on |-> c, trail |-> <<>>]
      /\ issuing' = issuing \ {c} /\ c \in issuing
      /\ UNCHANGED <<clock, issued, posted, capturing>>
  BY DEF IssueReply, Draw
<1>2. clock \in Nat /\ answeredAt \in [Challenges -> Nat]
      /\ issuing \subseteq issued
  BY DEF TraceInv, TraceTypeOK
<1>3. answeredAt'[c] = clock /\ answeredAt' \in [Challenges -> Nat]
      /\ \A d \in Challenges : d # c => answeredAt'[d] = answeredAt[d]
  BY <1>1, <1>2
<1>4. TraceTypeOK'
  <2>1. /\ DOMAIN frames' \subseteq Challenges
        /\ \A d \in DOMAIN frames' : frames'[d] \in Nat
        /\ animationId' \in Maybe
    BY AnimationTypes DEF IssueReply, TraceInv
  <2>2. QED
    BY <1>1, <1>2, <1>3, <2>1, EmptyTrace DEF TraceInv, TraceTypeOK, Maybe
<1>5. Answered(challenge)' /\ Answered(posted.on)' /\ Answered(shown.on)'
  BY <1>1, <1>2 DEF TraceInv, Answered
<1>6. PointsInv' BY <1>1, <1>2, <1>3 DEF PointsInv, TraceOf
<1>7. TraceOfItsChallenge'
  <2>1. TraceOf(shown.on, shown.trail)' BY <1>1 DEF TraceOf
  <2>2. ASSUME posted.on # None PROVE TraceOf(posted.on, posted.trail)'
    <3>1. posted.on \in Challenges /\ posted.on # c
      BY <1>1, <1>2, <2>2 DEF TraceInv, TraceTypeOK, Maybe, Answered
    <3>2. TraceOf(posted.on, posted.trail)
      BY <2>2 DEF TraceInv, TraceOfItsChallenge
    <3>3. QED BY <1>1, <1>3, <3>1, <3>2 DEF TraceOf
  <2>3. QED BY <1>1, <2>1, <2>2 DEF TraceOfItsChallenge
<1>8. QED BY <1>4, <1>5, <1>6, <1>7 DEF TraceInv

(* The pointer: a sample of now, of the challenge there is.                 *)
LEMMA PointerKeeps ==
  ASSUME TraceInv, PointerDown \/ PointerMove \/ PointerUp PROVE TraceInv'
<1> DEFINE s == [on |-> challenge, t |-> clock - startedAt, at |-> clock]
<1>1. /\ points' = Append(points, s) /\ capturing' \in BOOLEAN
      /\ UNCHANGED <<clock, requestVars, challenge, startedAt, answeredAt,
                     screenVars>>
  BY DEF PointerDown, PointerMove, PointerUp, RecordPoint, TraceInv, TraceTypeOK
<1>2. s \in Sample
  BY DEF TraceInv, TraceTypeOK, PointsInv, Sample
<1>3. points' \in Trace
  BY <1>1, <1>2 DEF TraceInv, TraceTypeOK, Trace
<1>4. TraceTypeOK'
  BY <1>1, <1>3 DEF TraceInv, TraceTypeOK, requestVars, screenVars
<1>5. Answered(challenge)' /\ Answered(posted.on)' /\ Answered(shown.on)'
  BY <1>1 DEF TraceInv, Answered, requestVars, screenVars
<1>6. PointsInv'
  <2>1. \A i \in DOMAIN points' : points'[i].at <= clock'
    <3>1. points \in Seq(Sample) BY DEF TraceInv, TraceTypeOK, Trace
    <3>2. \A i \in DOMAIN points : points[i].at <= clock
      BY DEF TraceInv, PointsInv
    <3>3. clock \in Nat /\ s.at = clock BY DEF TraceInv, TraceTypeOK
    <3> HIDE DEF s
    <3>4. QED BY <1>1, <1>2, <3>1, <3>2, <3>3
  <2>2. ASSUME challenge # None PROVE TraceOf(challenge, points')
    <3>1. challenge \in Challenges /\ points \in Trace
          /\ answeredAt \in [Challenges -> Nat]
      BY <2>2 DEF TraceInv, TraceTypeOK, Maybe
    <3>2. /\ startedAt = answeredAt[challenge] /\ TraceOf(challenge, points)
          /\ \A i \in DOMAIN points : points[i].at <= clock
      BY <2>2 DEF TraceInv, PointsInv
    <3>3. QED BY <1>1, <1>2, <3>1, <3>2, OneMoreSample
  <2>3. QED BY <1>1, <2>1, <2>2 DEF TraceInv, PointsInv, TraceOf
<1>7. TraceOfItsChallenge'
  BY <1>1 DEF TraceInv, TraceOfItsChallenge, TraceOf, requestVars, screenVars
<1>8. QED BY <1>4, <1>5, <1>6, <1>7 DEF TraceInv

(* verify(), reset() and a frame move the trace at hand to a request or to  *)
(* the canvas, or throw it away.                                            *)
LEMMA VerifyKeeps == TraceInv /\ Verify => TraceInv'
<1> SUFFICES ASSUME TraceInv, Verify PROVE TraceInv' OBVIOUS
<1>1. /\ challenge # None /\ posted' = [on |-> challenge, trail |-> points]
      /\ UNCHANGED <<clock, issued, issuing, traceVars, shown>>
  BY DEF Verify
<1>2. TraceTypeOK'
  BY <1>1, AnimationTypes DEF Verify, TraceInv, TraceTypeOK, traceVars
<1>3. Answered(challenge)' /\ Answered(posted.on)' /\ Answered(shown.on)'
  BY <1>1 DEF TraceInv, Answered, traceVars
<1>4. PointsInv' BY <1>1 DEF TraceInv, PointsInv, TraceOf, traceVars
<1>5. TraceOfItsChallenge'
  BY <1>1 DEF TraceInv, PointsInv, TraceOfItsChallenge, TraceOf, traceVars
<1>6. QED BY <1>2, <1>3, <1>4, <1>5 DEF TraceInv

LEMMA ResetKeeps == TraceInv /\ Reset => TraceInv'
<1> SUFFICES ASSUME TraceInv, Reset PROVE TraceInv' OBVIOUS
<1>1. /\ points' = <<>> /\ startedAt' = 0 /\ challenge' = None
      /\ shown' = [on |-> None, trail |-> <<>>]
      /\ UNCHANGED <<clock, requestVars, capturing, answeredAt>>
  BY DEF Reset, Blank
<1>2. TraceTypeOK'
  <2>1. /\ DOMAIN frames' \subseteq Challenges
        /\ \A d \in DOMAIN frames' : frames'[d] \in Nat
        /\ animationId' \in Maybe
    BY AnimationTypes DEF Reset, TraceInv
  <2>2. QED
    BY <1>1, <2>1, EmptyTrace DEF TraceInv, TraceTypeOK, Maybe, requestVars
<1>3. Answered(challenge)' /\ Answered(posted.on)' /\ Answered(shown.on)'
  BY <1>1 DEF TraceInv, Answered, requestVars
<1>4. PointsInv' BY <1>1 DEF TraceInv, TraceTypeOK, PointsInv
<1>5. TraceOfItsChallenge'
  BY <1>1 DEF TraceInv, TraceOfItsChallenge, TraceOf, requestVars
<1>6. QED BY <1>2, <1>3, <1>4, <1>5 DEF TraceInv

LEMMA FrameKeeps ==
  ASSUME TraceInv, NEW c \in Challenges, Frame(c) PROVE TraceInv'
<1>1. /\ \/ shown' = shown
         \/ challenge # None /\ shown' = [on |-> challenge, trail |-> points]
      /\ UNCHANGED <<clock, requestVars, traceVars>>
  BY DEF Frame, Draw
<1>2. /\ DOMAIN frames' \subseteq DOMAIN frames
      /\ \A d \in DOMAIN frames' : frames'[d] = frames[d]
      /\ animationId' \in {animationId, c}
  BY DEF Frame, Restrict
<1>3. TraceTypeOK'
  BY <1>1, <1>2 DEF TraceInv, TraceTypeOK, requestVars, traceVars, Maybe
<1>4. Answered(challenge)' /\ Answered(posted.on)' /\ Answered(shown.on)'
  BY <1>1 DEF TraceInv, Answered, requestVars, traceVars
<1>5. PointsInv' BY <1>1 DEF TraceInv, PointsInv, TraceOf, traceVars
<1>6. TraceOfItsChallenge'
  BY <1>1 DEF TraceInv, PointsInv, TraceOfItsChallenge, TraceOf, traceVars,
              requestVars
<1>7. QED BY <1>3, <1>4, <1>5, <1>6 DEF TraceInv

LEMMA ClockKeeps == TraceInv /\ ClockTicks => TraceInv'
<1> SUFFICES ASSUME TraceInv, ClockTicks PROVE TraceInv' OBVIOUS
<1>1. /\ clock \in Nat /\ clock' = clock + 1
      /\ UNCHANGED <<requestVars, traceVars, screenVars>>
  BY DEF ClockTicks, TraceInv, TraceTypeOK
<1>2. TraceTypeOK'
  BY <1>1 DEF TraceInv, TraceTypeOK, requestVars, traceVars, screenVars
<1>3. Answered(challenge)' /\ Answered(posted.on)' /\ Answered(shown.on)'
  BY <1>1 DEF TraceInv, Answered, requestVars, traceVars, screenVars
<1>4. PointsInv'
  <2>1. startedAt \in Nat /\ points \in Seq(Sample)
    BY DEF TraceInv, TraceTypeOK, Trace
  <2>2. \A i \in DOMAIN points : points[i].at \in Nat
    <3>1. \A i \in DOMAIN points : points[i] \in Sample BY <2>1
    <3>2. \A x \in Sample : x.at \in Nat BY DEF Sample
    <3>3. QED BY <3>1, <3>2
  <2>3. startedAt <= clock' /\ \A i \in DOMAIN points : points[i].at <= clock'
    BY <1>1, <2>1, <2>2 DEF TraceInv, PointsInv
  <2>4. QED BY <1>1, <2>3 DEF TraceInv, PointsInv, TraceOf, traceVars
<1>5. TraceOfItsChallenge'
  BY <1>1 DEF TraceInv, TraceOfItsChallenge, TraceOf, requestVars, traceVars,
              screenVars
<1>6. QED BY <1>2, <1>3, <1>4, <1>5 DEF TraceInv

LEMMA NextTrace == TraceInv /\ [TraceNext]_trajectoryVars => TraceInv'
<1> SUFFICES ASSUME TraceInv, [TraceNext]_trajectoryVars PROVE TraceInv'
  OBVIOUS
<1>1. CASE TraceNext
  BY <1>1, RequestKeeps, ReplyKeeps, PointerKeeps, VerifyKeeps, ResetKeeps,
     FrameKeeps, ClockKeeps DEF TraceNext
<1>2. CASE UNCHANGED trajectoryVars
  BY <1>2
     DEF trajectoryVars, requestVars, traceVars, screenVars, TraceInv,
         TraceTypeOK, Answered, PointsInv, TraceOfItsChallenge, TraceOf
<1>3. QED BY <1>1, <1>2

LEMMA TraceInvariant == TraceSpec => []TraceInv
BY InitTrace, NextTrace, PTL DEF TraceSpec

(* The variables of the captcha keep their types (trajectory-trace.ts).     *)
THEOREM TraceTypeCorrect == TraceSpec => []TraceTypeOK
<1>1. TraceInv => TraceTypeOK BY DEF TraceInv
<1>2. QED BY <1>1, TraceInvariant, PTL

(* However issue(), reset(), verify() and the pointer interleave, a trace   *)
(* is posted and drawn with the challenge it was taken for, timed from its  *)
(* arrival (trajectory-trace.ts:83-182).                                    *)
THEOREM TracesPure == TraceSpec => []TraceOfItsChallenge
<1>1. TraceInv => TraceOfItsChallenge BY DEF TraceInv
<1>2. QED BY <1>1, TraceInvariant, PTL

-----------------------------------------------------------------------------
(***************************************************************************)
(* The viewer: who watched to the end, lost no heartbeat and had none      *)
(* answered slowly is credited, for any length of the ad, jitter, lateness *)
(* of the timers, bound on a timely answer and time the captcha takes for  *)
(* which the ad is long enough.                                            *)
(***************************************************************************)

(* The clock after n rounds of the heartbeat loop that take the longest,    *)
(* and after n seconds.                                                     *)
Rounds(n)  == n * Round
Seconds(n) == n * Second

(* The heartbeat loop keeps pace while no answer is slow: the n-th post is  *)
(* made within n rounds.                                                    *)
PaceInv ==
    /\ pulse = "waiting" => now <= due + Lag
    /\ pulse = "waiting" /\ ~ slow => due <= Rounds(sent) + MaxWait
    /\ pulse \in {"posted", "answered"} => sent > 0 /\ due <= now
    /\ pulse \in {"posted", "answered"} /\ ~ slow =>
         /\ due <= Rounds(sent - 1) + MaxWait + Lag
         /\ now <= due + MaxTrip
    /\ ticking => pulse # "off"

(* The interval counts the seconds, and is cleared with the countdown.      *)
CountdownInv ==
    /\ ticking => /\ ~ done
                  /\ remaining > 0
                  /\ nextTick = Seconds(AdSecs - remaining + 1)
    /\ done => doneAt >= Seconds(AdSecs) /\ doneAt <= now

(* At the end of the countdown enough has been posted, and nothing is       *)
(* posted after it.                                                         *)
EndInv ==
    done => /\ pulse # "waiting"
            /\ LongEnough /\ ~ slow => sent >= Required

(* Every heartbeat is on its way, counted by the server or lost.            *)
CountInv ==
    verdict = "none" =>
        sent = received + lost + (IF pulse = "posted" THEN 1 ELSE 0)

ViewerInv ==
    /\ ViewerTypeOK /\ PaceInv /\ CountdownInv /\ EndInv /\ CountInv
    /\ HonestViewerCredited
----------------------------------------------------------------------------

LEMMA TimesNat ==
  /\ MaxWait \in Nat /\ Round \in Nat /\ Lag \in Nat /\ MaxTrip \in Nat
  /\ Round = MaxWait + Lag + MaxTrip
  /\ \A w \in Waits : w \in Nat /\ w <= MaxWait
<1>1. PICK w \in Waits : \A v \in Waits : v <= w BY WaitsAssumption
<1>2. MaxWait \in Waits /\ \A v \in Waits : v <= MaxWait
  BY <1>1 DEF MaxWait
<1>3. QED BY <1>2, TimesAssumption DEF Round

LEMMA RequiredNat ==
  Required \in Nat /\ Required > 0
<1>1. AdSecs \in Nat BY TimesAssumption
<1>2. Ceil(AdSecs, 2) \in Nat BY <1>1 DEF Ceil
<1>3. Expected \in Nat /\ Expected >= 3 BY <1>2 DEF Expected, AtLeast
<1>4. QED BY <1>3 DEF Required, Ceil

(* Multiplication is all there is to know of Rounds and Seconds.            *)
LEMMA Product ==
  ASSUME NEW k \in Nat, NEW m \in Nat, NEW n \in Nat
  PROVE  /\ n * k \in Nat
         /\ (n + 1) * k = n * k + k
         /\ m <= n => m * k <= n * k
<1>1. n * k \in Nat /\ (n + 1) * k = n * k + k OBVIOUS
<1>2. ASSUME m <= n PROVE m * k <= n * k
  <2>1. PICK d \in Nat : n = m + d
    <3>1. n - m \in Nat /\ n = m + (n - m) BY <1>2
    <3>2. QED BY <3>1
  <2>2. n * k = m * k + d * k BY <2>1
  <2>3. m * k \in Nat /\ d * k \in Nat BY <2>1
  <2>4. QED BY <2>2, <2>3
<1>3. QED BY <1>1, <1>2

LEMMA RoundsFacts ==
  ASSUME NEW m \in Nat, NEW n \in Nat
  PROVE  /\ Rounds(n) \in Nat
         /\ Rounds(n + 1) = Rounds(n) + Round
         /\ Rounds(m) < Rounds(n) => m < n
<1>1. /\ Rounds(n) \in Nat /\ Rounds(m) \in Nat
      /\ Rounds(n + 1) = Rounds(n) + Round
      /\ n <= m => Rounds(n) <= Rounds(m)
  BY Product, TimesNat DEF Rounds
<1>2. QED BY <1>1

LEMMA SecondsFacts ==
  ASSUME NEW n \in Nat
  PROVE  /\ Seconds(n) \in Nat
         /\ Seconds(n + 1) = Seconds(n) + Second
BY Product, TimesAssumption DEF Seconds

(* Seven tenths of the heartbeats are made by the end of an ad that is long *)
(* enough for them, whichever step the loop is at.                          *)
LEMMA EnoughPosted ==
  ASSUME ViewerTypeOK, PaceInv, pulse # "off", now >= Seconds(AdSecs),
         LongEnough, ~ slow
  PROVE  sent >= Required
<1>1. /\ sent \in Nat /\ due \in Nat /\ now \in Nat
      /\ Required \in Nat /\ Required - 1 \in Nat
      /\ Lag \in Nat /\ MaxWait \in Nat /\ MaxTrip \in Nat
      /\ Round = MaxWait + Lag + MaxTrip
  BY TimesNat, RequiredNat DEF ViewerTypeOK
<1>2. Seconds(AdSecs) \in Nat /\ Rounds(sent) \in Nat
      /\ Rounds(Required - 1) \in Nat
  BY <1>1, RoundsFacts, SecondsFacts, TimesAssumption
<1>3. Rounds(Required - 1) + MaxWait + Lag < Seconds(AdSecs)
  BY Zenon DEF LongEnough, Rounds, Seconds
<1>4. Rounds(Required - 1) < Rounds(sent)
  <2>1. CASE pulse = "waiting"
    <3>1. now <= Rounds(sent) + MaxWait + Lag
      BY <2>1, <1>1, <1>2 DEF PaceInv
    <3>2. QED BY <3>1, <1>1, <1>2, <1>3
  <2>2. CASE pulse \in {"posted", "answered"}
    <3>1. sent - 1 \in Nat /\ sent = (sent - 1) + 1
      BY <2>2, <1>1 DEF PaceInv
    <3>2. Rounds(sent - 1) \in Nat /\ Rounds(sent) = Rounds(sent - 1) + Round
      BY <3>1, RoundsFacts
    <3>3. now <= Rounds(sent - 1) + MaxWait + Lag + MaxTrip
      BY <2>2, <3>2, <1>1 DEF PaceInv
    <3>4. QED BY <3>2, <3>3, <1>1, <1>2, <1>3
  <2>3. QED BY <2>1, <2>2 DEF ViewerTypeOK, Phases
<1>5. Required - 1 < sent BY <1>1, <1>4, RoundsFacts
<1>6. QED BY <1>1, <1>5
----------------------------------------------------------------------------

LEMMA InitViewer == ViewerInit => ViewerInv
<1> SUFFICES ASSUME ViewerInit PROVE ViewerInv OBVIOUS
<1>1. /\ due \in Nat /\ due <= MaxWait /\ Lag \in Nat /\ MaxWait \in Nat
      /\ Second \in Nat /\ AdSecs \in Nat /\ AdSecs > 0
  BY TimesNat, TimesAssumption DEF ViewerInit
<1>2. ViewerTypeOK
  <2>1. now \in Nat /\ nextTick \in Nat /\ doneAt \in Nat /\ sent \in Nat
        /\ received \in Nat /\ lost \in Nat /\ remaining \in 0..AdSecs
    BY <1>1 DEF ViewerInit
  <2>2. QED BY <1>1, <2>1, Zenon DEF ViewerInit, ViewerTypeOK, Phases
<1>3. PaceInv BY <1>1, RoundsFacts DEF ViewerInit, PaceInv
<1>4. CountdownInv
  <2>1. AdSecs - remaining + 1 = 1 BY <1>1 DEF ViewerInit
  <2>2. Seconds(1) = Second BY <1>1 DEF Seconds
  <2>3. QED BY <1>1, <2>1, <2>2 DEF ViewerInit, CountdownInv
<1>5. EndInv /\ CountInv /\ HonestViewerCredited
  BY DEF ViewerInit, EndInv, CountInv, HonestViewerCredited
<1>6. QED BY <1>2, <1>3, <1>4, <1>5 DEF ViewerInv

(* stop(): a countdown that was stopped never ends.                         *)
LEMMA StopKeeps == ViewerInv /\ Stop => ViewerInv'
<1> SUFFICES ASSUME ViewerInv, Stop PROVE ViewerInv' OBVIOUS
<1>1. /\ ~ done /\ ticking' = FALSE
      /\ pulse' = IF pulse = "waiting" THEN "off" ELSE pulse
      /\ UNCHANGED <<now, slow, nextTick, remaining, done, doneAt, due, sent,
                     received, lost, verdict>>
  BY DEF Stop, ClearPulse, clockVars, viewVars
<1>2. ViewerTypeOK' BY <1>1 DEF ViewerInv, ViewerTypeOK, Phases
<1>3. PaceInv' BY <1>1 DEF ViewerInv, PaceInv
<1>4. CountdownInv' /\ EndInv' /\ CountInv' /\ HonestViewerCredited'
  BY <1>1 DEF ViewerInv, CountdownInv, EndInv, CountInv, HonestViewerCredited
<1>5. QED BY <1>2, <1>3, <1>4 DEF ViewerInv

(* tick(): the last one finds enough heartbeats posted.                     *)
LEMMA TickKeeps == ViewerInv /\ Tick => ViewerInv'
<1> SUFFICES ASSUME ViewerInv, Tick PROVE ViewerInv' OBVIOUS
<1>1. /\ ticking /\ ~ done /\ now >= nextTick
      /\ nextTick' = nextTick + Second /\ remaining' = remaining - 1
      /\ UNCHANGED <<now, slow, due, sent, received, lost, verdict>>
  BY DEF Tick, ViewerInv, CountdownInv, ClearPulse, clockVars, pulseVars,
         viewVars
<1>2. /\ now \in Nat /\ nextTick \in Nat /\ remaining \in 1..AdSecs
      /\ AdSecs \in Nat /\ Second \in Nat
      /\ nextTick = Seconds(AdSecs - remaining + 1) /\ pulse # "off"
  BY <1>1, TimesAssumption
     DEF ViewerInv, ViewerTypeOK, CountdownInv, PaceInv
<1>3. CASE remaining > 1
  <2>1. UNCHANGED <<ticking, done, doneAt, pulse>>
    <3>1. remaining # 1 BY <1>2, <1>3
    <3>2. QED BY <3>1 DEF Tick, pulseVars
  <2>2. nextTick' = Seconds(AdSecs - remaining' + 1)
    <3>1. AdSecs - remaining + 1 \in Nat
          /\ AdSecs - remaining' + 1 = (AdSecs - remaining + 1) + 1
      BY <1>1, <1>2
    <3>2. QED BY <1>1, <1>2, <3>1, SecondsFacts
  <2>3. remaining' \in 0..AdSecs /\ remaining' > 0 /\ nextTick' \in Nat
    BY <1>1, <1>2, <1>3
  <2>4. ViewerTypeOK' BY <1>1, <2>1, <2>3 DEF ViewerInv, ViewerTypeOK
  <2>5. CountdownInv' BY <1>1, <2>1, <2>2, <2>3 DEF CountdownInv
  <2>6. PaceInv' /\ EndInv' /\ CountInv' /\ HonestViewerCredited'
    BY <1>1, <2>1
       DEF ViewerInv, PaceInv, EndInv, CountInv, HonestViewerCredited
  <2>7. QED BY <2>4, <2>5, <2>6 DEF ViewerInv
<1>4. CASE remaining = 1
  <2>1. /\ done' = TRUE /\ doneAt' = now /\ ticking' = FALSE
        /\ pulse' = IF pulse = "waiting" THEN "off" ELSE pulse
    BY <1>4, <1>2 DEF Tick, ClearPulse
  <2>2. remaining' \in 0..AdSecs /\ nextTick' \in Nat BY <1>1, <1>2, <1>4
  <2>3. ViewerTypeOK'
    BY <1>1, <1>2, <2>1, <2>2 DEF ViewerInv, ViewerTypeOK, Phases
  <2>4. now >= Seconds(AdSecs)
    <3>1. AdSecs - remaining + 1 = AdSecs BY <1>2, <1>4
    <3>2. QED BY <1>1, <1>2, <3>1
  <2>5. CountdownInv' BY <1>1, <1>2, <2>1, <2>4 DEF CountdownInv
  <2>6. PaceInv' BY <1>1, <2>1 DEF ViewerInv, PaceInv
  <2>7. LongEnough /\ ~ slow => sent >= Required
    BY <1>2, <2>4, EnoughPosted DEF ViewerInv
  <2>8. EndInv' BY <1>1, <2>1, <2>7 DEF ViewerInv, PaceInv, EndInv, LongEnough
  <2>9. CountInv' /\ HonestViewerCredited'
    BY <1>1, <2>1 DEF ViewerInv, CountInv, HonestViewerCredited
  <2>10. QED BY <2>3, <2>5, <2>6, <2>8, <2>9 DEF ViewerInv
<1>5. QED BY <1>2, <1>3, <1>4

(* A post is late by no more than the timer is.                             *)
LEMMA BeatKeeps == ViewerInv /\ Beat => ViewerInv'
<1> SUFFICES ASSUME ViewerInv, Beat PROVE ViewerInv' OBVIOUS
<1>1. /\ pulse = "waiting" /\ pulse' = "posted" /\ due' = now
      /\ sent' = sent + 1
      /\ UNCHANGED <<now, slow, ticking, nextTick, remaining, done, doneAt,
                     received, lost, verdict>>
  BY DEF Beat, clockVars, countdownVars, viewVars
<1>2. /\ sent \in Nat /\ now \in Nat /\ due \in Nat /\ received \in Nat
      /\ lost \in Nat /\ Rounds(sent) \in Nat
      /\ Lag \in Nat /\ MaxWait \in Nat /\ MaxTrip \in Nat
  BY TimesNat, RoundsFacts DEF ViewerInv, ViewerTypeOK
<1>3. ~ done BY <1>1 DEF ViewerInv, EndInv
<1>4. ViewerTypeOK' BY <1>1, <1>2 DEF ViewerInv, ViewerTypeOK, Phases
<1>5. PaceInv'
  <2>1. sent' - 1 = sent /\ sent' > 0 BY <1>1, <1>2
  <2>2. ~ slow => due' <= Rounds(sent' - 1) + MaxWait + Lag
    BY <1>1, <1>2, <2>1 DEF ViewerInv, PaceInv
  <2>3. due' <= now' /\ now' <= due' + MaxTrip BY <1>1, <1>2
  <2>4. QED BY <1>1, <2>1, <2>2, <2>3 DEF PaceInv
<1>6. CountdownInv' /\ EndInv' /\ HonestViewerCredited'
  BY <1>1, <1>3 DEF ViewerInv, CountdownInv, EndInv, HonestViewerCredited
<1>7. CountInv' BY <1>1, <1>2 DEF ViewerInv, CountInv
<1>8. QED BY <1>4, <1>5, <1>6, <1>7 DEF ViewerInv

(* A heartbeat reaches the server or is lost.                               *)
LEMMA ArrivalKeeps == ViewerInv /\ (Arrive \/ LoseBeat) => ViewerInv'
<1> SUFFICES ASSUME ViewerInv, Arrive \/ LoseBeat PROVE ViewerInv' OBVIOUS
<1>1. /\ pulse = "posted" /\ pulse' = "answered"
      /\ UNCHANGED <<now, slow, ticking, nextTick, remaining, done, doneAt, due,
                     sent, verdict>>
  BY DEF Arrive, LoseBeat, clockVars, countdownVars
<1>2. received \in Nat /\ lost \in Nat
      /\ \/ /\ received' = IF verdict = "none" THEN received + 1 ELSE received
            /\ lost' = lost
         \/ lost' = lost + 1 /\ received' = received
  BY DEF Arrive, LoseBeat, ViewerInv, ViewerTypeOK
<1>3. ViewerTypeOK' BY <1>1, <1>2 DEF ViewerInv, ViewerTypeOK, Phases
<1>4. PaceInv' /\ CountdownInv' /\ EndInv'
  BY <1>1 DEF ViewerInv, PaceInv, CountdownInv, EndInv, LongEnough
<1>5. CountInv' /\ HonestViewerCredited'
  BY <1>1, <1>2 DEF ViewerInv, CountInv, HonestViewerCredited, LongEnough
<1>6. QED BY <1>3, <1>4, <1>5 DEF ViewerInv

(* The next timer is set at the end of a round that may take the longest.   *)
LEMMA ReturnKeeps == ViewerInv /\ Return => ViewerInv'
<1> SUFFICES ASSUME ViewerInv, Return PROVE ViewerInv' OBVIOUS
<1>1. /\ pulse = "answered"
      /\ UNCHANGED <<now, slow, ticking, nextTick, remaining, done, doneAt, sent,
                     received, lost, verdict>>
  BY DEF Return, clockVars, countdownVars, viewVars
<1>2. CountInv' /\ HonestViewerCredited' /\ CountdownInv'
  <2>1. pulse' # "posted" BY DEF Return, Schedule
  <2>2. QED BY <1>1, <2>1
          DEF ViewerInv, CountInv, HonestViewerCredited, CountdownInv
<1>3. CASE done
  <2>1. pulse' = "off" /\ due' = due BY <1>3 DEF Return, Schedule
  <2>2. ViewerTypeOK' BY <1>1, <2>1 DEF ViewerInv, ViewerTypeOK, Phases
  <2>3. PaceInv' /\ EndInv'
    BY <1>1, <1>3, <2>1 DEF ViewerInv, PaceInv, EndInv, CountdownInv
  <2>4. QED BY <1>2, <2>2, <2>3 DEF ViewerInv
<1>4. CASE ~ done
  <2>1. PICK w \in Waits : pulse' = "waiting" /\ due' = now + w
    BY <1>4 DEF Return, Schedule
  <2>2. /\ w \in Nat /\ w <= MaxWait /\ now \in Nat /\ due \in Nat
        /\ sent \in Nat /\ sent > 0 /\ Lag \in Nat /\ MaxWait \in Nat
        /\ MaxTrip \in Nat /\ Round = MaxWait + Lag + MaxTrip
        /\ ~ slow => /\ due <= Rounds(sent - 1) + MaxWait + Lag
                     /\ now <= due + MaxTrip
    BY <1>1, <2>1, TimesNat DEF ViewerInv, ViewerTypeOK, PaceInv
  <2>3. ViewerTypeOK' BY <1>1, <2>1, <2>2 DEF ViewerInv, ViewerTypeOK, Phases
  <2>4. Rounds(sent - 1) \in Nat /\ Rounds(sent) = Rounds(sent - 1) + Round
    <3>1. sent - 1 \in Nat /\ sent = (sent - 1) + 1 BY <2>2
    <3>2. QED BY <3>1, RoundsFacts
  <2>5. /\ now <= due' + Lag
        /\ ~ slow => due' <= Rounds(sent) + MaxWait
    BY <2>1, <2>2, <2>4
  <2>6. PaceInv' BY <1>1, <2>1, <2>5 DEF PaceInv
  <2>7. EndInv' BY <1>1, <1>4 DEF EndInv
  <2>8. QED BY <1>2, <2>3, <2>6, <2>7 DEF ViewerInv
<1>5. QED BY <1>3, <1>4

(* When the view is completed enough heartbeats have arrived: the captcha   *)
(* was solved after the last required one was due to, so that one still on  *)
(* its way, which will be refused, was posted after it.                     *)
LEMMA CompleteKeeps == ViewerInv /\ Complete => ViewerInv'
<1> SUFFICES ASSUME ViewerInv, Complete PROVE ViewerInv' OBVIOUS
<1>1. /\ done /\ verdict = "none" /\ now >= doneAt + MinSolve
      /\ verdict' = IF received < Required THEN "heartbeat_deficit"
                    ELSE IF now < MinAge THEN "too_fast" ELSE "ok"
      /\ UNCHANGED <<now, slow, ticking, nextTick, remaining, done, doneAt, pulse,
                     due, sent, received, lost>>
  BY DEF Complete, clockVars, countdownVars, pulseVars
<1>2. /\ now \in Nat /\ doneAt \in Nat /\ due \in Nat /\ sent \in Nat
      /\ received \in Nat /\ lost \in Nat /\ Required \in Nat
      /\ MaxTrip \in Nat /\ MinSolve \in Nat
  BY TimesNat, RequiredNat, TimesAssumption DEF ViewerInv, ViewerTypeOK
<1>3. ViewerTypeOK' BY <1>1 DEF ViewerInv, ViewerTypeOK
<1>4. PaceInv' /\ CountdownInv' /\ EndInv'
  BY <1>1 DEF ViewerInv, PaceInv, CountdownInv, EndInv, LongEnough
<1>5. CountInv'
  <2>1. verdict' # "none" BY <1>1
  <2>2. QED BY <2>1 DEF CountInv
<1>6. HonestViewerCredited'
  <2>1. SUFFICES ASSUME lost = 0, ~ slow, LongEnough PROVE verdict' = "ok"
    BY <1>1 DEF HonestViewerCredited, LongEnough
  <2>2. /\ sent >= Required
        /\ sent = received + IF pulse = "posted" THEN 1 ELSE 0
    BY <1>1, <1>2, <2>1 DEF ViewerInv, EndInv, CountInv
  <2>3. received >= Required
    <3>1. CASE pulse # "posted" BY <1>2, <2>2, <3>1
    <3>2. CASE pulse = "posted"
      <4>1. /\ sent - 1 \in Nat /\ sent = (sent - 1) + 1
            /\ due <= Rounds(sent - 1) + MaxWait + Lag
            /\ now <= due + MaxTrip
        BY <1>2, <2>1, <3>2 DEF ViewerInv, PaceInv
      <4>2. /\ Rounds(sent - 1) \in Nat
            /\ Rounds(sent) = Rounds(sent - 1) + Round
        BY <4>1, RoundsFacts
      <4>3. now <= Rounds(sent)
        BY <1>2, <4>1, <4>2, TimesNat
      <4>4. now >= Seconds(AdSecs) + MinSolve /\ Seconds(AdSecs) \in Nat
        BY <1>1, <1>2, SecondsFacts, TimesAssumption
           DEF ViewerInv, CountdownInv
      <4>5. Rounds(Required) < Seconds(AdSecs) + MinSolve
        BY <2>1, Zenon DEF LongEnough, Rounds, Seconds
      <4>6. Rounds(Required) < Rounds(sent)
        <5>1. Rounds(Required) \in Nat /\ Rounds(sent) \in Nat
          BY <1>2, RoundsFacts
        <5>2. QED BY <1>2, <4>3, <4>4, <4>5, <5>1
      <4>7. Required < sent BY <1>2, <4>6, RoundsFacts
      <4>8. QED BY <1>2, <2>2, <3>2, <4>7
    <3>3. QED BY <3>1, <3>2
  <2>4. now >= MinAge
    <3>1. now >= Seconds(AdSecs) /\ Seconds(AdSecs) \in Nat
      BY <1>1, <1>2, SecondsFacts, TimesAssumption
         DEF ViewerInv, CountdownInv
    <3>2. AdSecs - 1 \in Nat /\ AdSecs = (AdSecs - 1) + 1 /\ Second \in Nat
      BY TimesAssumption
    <3>3. Seconds(AdSecs) = Seconds(AdSecs - 1) + Second
          /\ Seconds(AdSecs - 1) \in Nat
      BY <3>2, SecondsFacts
    <3>4. MinAge = Seconds(AdSecs - 1) BY DEF MinAge, Seconds
    <3>5. QED BY <1>2, <3>1, <3>2, <3>3, <3>4
  <2>5. MinAge \in Nat
    <3>1. AdSecs - 1 \in Nat BY TimesAssumption
    <3>2. QED BY <3>1, SecondsFacts DEF MinAge, Seconds
  <2>6. QED BY <1>1, <1>2, <2>3, <2>4, <2>5
<1>7. QED BY <1>3, <1>4, <1>5, <1>6 DEF ViewerInv

(* The clock waits for a timer; what it does not wait for is slow.          *)
LEMMA TimeKeeps == ViewerInv /\ TimePasses => ViewerInv'
<1> SUFFICES ASSUME ViewerInv, TimePasses PROVE ViewerInv' OBVIOUS
<1>1. /\ ~ Urgent /\ now' = now + 1
      /\ slow' = (slow \/ (pulse \in {"posted", "answered"} /\ now >= due + MaxTrip))
      /\ UNCHANGED <<ticking, nextTick, remaining, done, doneAt, pulse, due,
                     sent, received, lost, verdict>>
  BY DEF TimePasses, countdownVars, pulseVars, viewVars
<1>2. /\ now \in Nat /\ due \in Nat /\ doneAt \in Nat
      /\ Lag \in Nat /\ MaxTrip \in Nat
  BY TimesNat DEF ViewerInv, ViewerTypeOK
<1>3. ViewerTypeOK' BY <1>1, <1>2 DEF ViewerInv, ViewerTypeOK
<1>4. PaceInv'
  <2>1. pulse = "waiting" => now' <= due + Lag BY <1>1, <1>2 DEF Urgent
  <2>2. pulse \in {"posted", "answered"} =>
          due <= now' /\ (~ slow' => ~ slow /\ now' <= due + MaxTrip)
    <3> SUFFICES ASSUME pulse \in {"posted", "answered"}
                 PROVE due <= now' /\ (~ slow' => ~ slow /\ now' <= due + MaxTrip)
      OBVIOUS
    <3>1. due <= now BY DEF ViewerInv, PaceInv
    <3>2. ~ slow' => ~ slow /\ ~ (now >= due + MaxTrip) BY <1>1
    <3>3. ~ (now >= due + MaxTrip) => now' <= due + MaxTrip BY <1>1, <1>2
    <3>4. due <= now' BY <1>1, <1>2, <3>1
    <3>5. QED BY <3>2, <3>3, <3>4
  <2>3. QED BY <1>1, <2>1, <2>2 DEF ViewerInv, PaceInv
<1>5. CountdownInv'
  <2>1. done => doneAt <= now' BY <1>1, <1>2 DEF ViewerInv, CountdownInv
  <2>2. QED BY <1>1, <2>1 DEF ViewerInv, CountdownInv
<1>6. EndInv' /\ CountInv' /\ HonestViewerCredited'
  BY <1>1
     DEF ViewerInv, EndInv, CountInv, HonestViewerCredited, LongEnough
<1>7. QED BY <1>3, <1>4, <1>5, <1>6 DEF ViewerInv

LEMMA NextViewer == ViewerInv /\ [ViewerNext]_viewerVars => ViewerInv'
<1> SUFFICES ASSUME ViewerInv, [ViewerNext]_viewerVars PROVE ViewerInv'
  OBVIOUS
<1>1. CASE ViewerNext
  BY <1>1, StopKeeps, TickKeeps, BeatKeeps, ArrivalKeeps, ReturnKeeps,
     CompleteKeeps, TimeKeeps DEF ViewerNext
<1>2. CASE UNCHANGED viewerVars
  BY <1>2
     DEF viewerVars, clockVars, countdownVars, pulseVars, viewVars, ViewerInv,
         ViewerTypeOK, PaceInv, CountdownInv, EndInv, CountInv,
         HonestViewerCredited, LongEnough
<1>3. QED BY <1>1, <1>2

LEMMA ViewerInvariant == ViewerSpec => []ViewerInv
BY InitViewer, NextViewer, PTL DEF ViewerSpec

(* The variables of the viewer and of its view keep their types             *)
(* (viewer.ts, PtcController.php).                                          *)
THEOREM ViewerTypeCorrect == ViewerSpec => []ViewerTypeOK
<1>1. ViewerInv => ViewerTypeOK BY DEF ViewerInv
<1>2. QED BY <1>1, ViewerInvariant, PTL

(* Who watched to the end, lost no heartbeat and had each answered within   *)
(* MaxTrip is credited, whatever MaxTrip is, if the ad is long enough for   *)
(* rounds that take so long: also when a heartbeat is still in flight at    *)
(* the completion (viewer.ts:44-85, PtcController.php:137-205).             *)
THEOREM WatchedIsCredited == ViewerSpec => []HonestViewerCredited
<1>1. ViewerInv => HonestViewerCredited BY DEF ViewerInv
<1>2. QED BY <1>1, ViewerInvariant, PTL

-----------------------------------------------------------------------------
(***************************************************************************)
(* The server of BitcoTasks: for any postbacks, transIds and number of     *)
(* copies in flight a transId moves money once, and what is sent no more   *)
(* is in the ledger.                                                       *)
(***************************************************************************)

(* What holds of a postback that is no longer sent holds as soon as its ok  *)
(* has left.                                                                *)
OkMeansLedgered ==
    \A p \in replies \cup stopped :
        converts /\ Outcome[p] # "ignored" => Taken(p)

PostbackInv == PostbackTypeOK /\ OnePerTrans /\ OkMeansLedgered

(* What a step does to the ledger: nothing, or one row for a postback whose *)
(* transId had none.                                                        *)
Unchanged == \A q \in Events : Ledgered(q)' <=> Ledgered(q)
Enters(p) ==
    ~ Taken(p) /\ \A q \in Events : Ledgered(q)' <=> Ledgered(q) \/ q = p

LEMMA InitPostback == PostbackInit => PostbackInv
<1> SUFFICES ASSUME PostbackInit PROVE PostbackInv OBVIOUS
<1>1. PostbackTypeOK
  <2>1. wallet \in [Users -> Int] BY DEF PostbackInit, MoneyInit
  <2>2. copies \in [Events -> 0..MaxCopies]
    BY CopiesAssumption DEF PostbackInit
  <2>3. QED BY <2>1, <2>2 DEF PostbackInit, MoneyInit, PostbackTypeOK
<1>2. OnePerTrans
  BY DEF PostbackInit, MoneyInit, OnePerTrans, Ledgered
<1>3. OkMeansLedgered BY DEF PostbackInit, OkMeansLedgered
<1>4. QED BY <1>1, <1>2, <1>3 DEF PostbackInv

LEMMA CopiesType ==
  ASSUME PostbackTypeOK, NEW p \in Events,
         Receive(p) \/ Post(p) \/ copies' = copies
  PROVE  copies' \in [Events -> 0..MaxCopies]
BY CopiesAssumption DEF PostbackTypeOK, Receive, Post

LEMMA CreditEnters ==
  ASSUME PostbackTypeOK, NEW p \in Events, Credit(p)
  PROVE  /\ Enters(p)
         /\ earned' \subseteq
              {"reward", "referral_commission", "chargeback"} \X Events
         /\ wallet' \in [Users -> Int]
<1>1. earned' = earned \cup RewardRows(p)
      /\ wallet' = [u \in Users |-> wallet[u] + Gain(u, p)]
  BY DEF Credit, Grant
<1>2. RewardRows(p) \subseteq {"reward", "referral_commission"} \X Events
  BY DEF RewardRows
<1>3. \A u \in Users : wallet[u] + Gain(u, p) \in Int
  BY ShareIsNat DEF PostbackTypeOK
<1>4. ASSUME NEW q \in Events
      PROVE Ledgered(q)' <=> Ledgered(q) \/ q = p
  BY <1>1 DEF Ledgered, RewardRows
<1>5. ~ Taken(p) BY DEF Credit
<1>6. QED BY <1>1, <1>2, <1>3, <1>4, <1>5 DEF PostbackTypeOK, Enters

LEMMA ChargebackEnters ==
  ASSUME PostbackTypeOK, NEW p \in Events, Chargeback(p)
  PROVE  /\ Enters(p)
         /\ earned' \subseteq
              {"reward", "referral_commission", "chargeback"} \X Events
         /\ wallet' \in [Users -> Int]
<1>1. Reward[p] \in Int /\ Earner[p] \in Users
  BY RewardAssumption, EarnerAssumption
<1>2. wallet' \in [Users -> Int]
  <2>1. wallet[Earner[p]] - Reward[p] \in Int BY <1>1 DEF PostbackTypeOK
  <2>2. QED BY <1>1, <2>1 DEF Chargeback, PostbackTypeOK
<1>3. ASSUME NEW q \in Events
      PROVE Ledgered(q)' <=> Ledgered(q) \/ q = p
  BY DEF Chargeback, Ledgered
<1>4. QED BY <1>2, <1>3 DEF Chargeback, PostbackTypeOK, Enters

(* Every other step leaves the ledger and the balances alone.               *)
LEMMA OthersLeaveLedger ==
  ASSUME NEW p \in Events,
         \/ Post(p) \/ ReadOk(p) \/ LoseReply(p)
         \/ Refuse(p) \/ Ignore(p) \/ Shrug(p) \/ Duplicate(p)
  PROVE  Unchanged /\ UNCHANGED moneyVars
BY DEF Post, ReadOk, LoseReply, Refuse, Ignore, Shrug, Duplicate, Unchanged,
       Ledgered, moneyVars

LEMMA OneStays ==
  ASSUME OnePerTrans, Unchanged \/ \E p \in Events : Enters(p)
  PROVE  OnePerTrans'
<1>1. CASE Unchanged BY <1>1 DEF OnePerTrans, Unchanged
<1>2. CASE \E p \in Events : Enters(p)
  BY <1>2 DEF OnePerTrans, Enters, Taken
<1>3. QED BY <1>1, <1>2

(* A transId that is taken stays taken.                                     *)
LEMMA TakenStays ==
  ASSUME Unchanged \/ \E p \in Events : Enters(p), NEW q \in Events, Taken(q)
  PROVE  Taken(q)'
BY DEF Unchanged, Enters, Taken

LEMMA EnteredIsTaken ==
  ASSUME NEW p \in Events, Enters(p) PROVE Taken(p)'
BY DEF Enters, Taken

LEMMA StepPostback ==
  ASSUME PostbackInv, NEW p \in Events,
         \/ Post(p) \/ ReadOk(p) \/ LoseReply(p)
         \/ Refuse(p) \/ Ignore(p) \/ Shrug(p)
         \/ Duplicate(p) \/ Credit(p) \/ Chargeback(p)
  PROVE  PostbackInv'
<1>1. Unchanged \/ Enters(p)
  BY CreditEnters, ChargebackEnters, OthersLeaveLedger DEF PostbackInv
<1>2. PostbackTypeOK'
  <2>1. copies' \in [Events -> 0..MaxCopies]
    BY CopiesType
       DEF PostbackInv, ReadOk, LoseReply, Refuse, Ignore, Shrug, Duplicate,
           Credit, Chargeback
  <2>2. /\ earned' \subseteq
             {"reward", "referral_commission", "chargeback"} \X Events
        /\ wallet' \in [Users -> Int]
    BY CreditEnters, ChargebackEnters, OthersLeaveLedger
       DEF PostbackInv, PostbackTypeOK, moneyVars
  <2>3. /\ replies' \subseteq replies \cup {p} /\ stopped' \subseteq stopped \cup {p}
        /\ converts' = converts
    BY DEF Post, ReadOk, LoseReply, Refuse, Ignore, Shrug, Duplicate, Credit,
           Chargeback, Ok, NotOk
  <2>4. QED BY <2>1, <2>2, <2>3 DEF PostbackInv, PostbackTypeOK
<1>3. OnePerTrans' BY <1>1, OneStays DEF PostbackInv
<1>4. OkMeansLedgered'
  <2>1. ASSUME NEW q \in replies \cup stopped,
               converts, Outcome[q] # "ignored"
        PROVE Taken(q)'
    BY <1>1, <2>1, TakenStays
       DEF PostbackInv, OkMeansLedgered, PostbackTypeOK
  <2>2. CASE \/ Post(p) \/ LoseReply(p) \/ Refuse(p)
    <3>1. /\ replies' \cup stopped' \subseteq replies \cup stopped
          /\ converts' = converts
      BY <2>2 DEF Post, LoseReply, Refuse, NotOk
    <3>2. QED BY <2>1, <3>1 DEF OkMeansLedgered
  <2>3. CASE ReadOk(p)
    <3>1. /\ replies' \cup stopped' = replies \cup stopped
          /\ converts' = converts
      BY <2>3 DEF ReadOk
    <3>2. QED BY <2>1, <3>1 DEF OkMeansLedgered
  <2>4. CASE Ignore(p) \/ Shrug(p) \/ Duplicate(p) \/ Credit(p) \/ Chargeback(p)
    <3>1. /\ replies' \cup stopped' = replies \cup stopped \cup {p}
          /\ converts' = converts
      BY <2>4 DEF Ignore, Shrug, Duplicate, Credit, Chargeback, Ok
    <3>2. converts /\ Outcome[p] # "ignored" => Taken(p)'
      <4>1. CASE Ignore(p) \/ Shrug(p) BY <4>1 DEF Ignore, Shrug
      <4>2. CASE Duplicate(p) BY <4>2, <1>1, TakenStays DEF Duplicate
      <4>3. CASE Credit(p) \/ Chargeback(p)
        BY <4>3, CreditEnters, ChargebackEnters, EnteredIsTaken DEF PostbackInv
      <4>4. QED BY <2>4, <4>1, <4>2, <4>3
    <3>3. QED BY <2>1, <3>1, <3>2 DEF OkMeansLedgered
  <2>5. QED BY <2>2, <2>3, <2>4
<1>5. QED BY <1>2, <1>3, <1>4 DEF PostbackInv

LEMMA NextPostback == PostbackInv /\ [PostbackNext]_postbackVars => PostbackInv'
<1> SUFFICES ASSUME PostbackInv, [PostbackNext]_postbackVars
    PROVE PostbackInv'
  OBVIOUS
<1>1. CASE PostbackNext BY <1>1, StepPostback DEF PostbackNext
<1>2. CASE UNCHANGED postbackVars
  BY <1>2
     DEF postbackVars, moneyVars, deliveryVars, PostbackInv, PostbackTypeOK,
         OnePerTrans, OkMeansLedgered, Taken, Ledgered
<1>3. QED BY <1>1, <1>2

LEMMA PostbackInvariant == PostbackSpec => []PostbackInv
BY InitPostback, NextPostback, PTL DEF PostbackSpec

(* Every variable of the postback model keeps its type; balances may be     *)
(* negative after a chargeback.                                             *)
THEOREM PostbackTypeCorrect == PostbackSpec => []PostbackTypeOK
<1>1. PostbackInv => PostbackTypeOK BY DEF PostbackInv
<1>2. QED BY <1>1, PostbackInvariant, PTL

(* Resent, overlapping and reordered postbacks: a transId moves money once  *)
(* (BitcoTaskCallbackController:102-146).                                   *)
THEOREM TransCountsOnce == PostbackSpec => []OnePerTrans
<1>1. PostbackInv => OnePerTrans BY DEF PostbackInv
<1>2. QED BY <1>1, PostbackInvariant, PTL

(* A reply of ok is given only for what is in the ledger: nothing is lost   *)
(* when BitcoTasks stops sending (BitcoTaskCallbackController:137-148).     *)
THEOREM StoppedIsLedgered == PostbackSpec => []StoppedMeansLedgered
<1>1. PostbackInv => StoppedMeansLedgered
  BY DEF PostbackInv, OkMeansLedgered, StoppedMeansLedgered
<1>2. QED BY <1>1, PostbackInvariant, PTL

(* The balances of the offerwall.  A chargeback takes back the amount of    *)
(* its postback and nothing of a commission.                                *)

ChargedBack == {p \in Events : <<"chargeback", p>> \in earned}
TakenBack(u) == {p \in ChargedBack : Earner[p] = u}

PostbackBalances ==
    \A u \in Users : wallet[u] = Due(u) - RewardSum(TakenBack(u))

PostbackBooks ==
    /\ IsFiniteSet(Rewarded) /\ IsFiniteSet(Commissioned)
    /\ IsFiniteSet(ChargedBack)
    /\ PostbackBalances

LEMMA PostbackBooksOpen == PostbackInit => PostbackBooks
<1> SUFFICES ASSUME PostbackInit PROVE PostbackBooks OBVIOUS
<1>1. LedgerInv BY LedgerOpens DEF PostbackInit
<1>2. ChargedBack = {} BY DEF PostbackInit, MoneyInit, ChargedBack
<1>3. RewardSum({}) = 0 BY SumOfRewards, SumEmpty, FS_EmptySet
<1>4. ASSUME NEW u \in Users
      PROVE  wallet[u] = Due(u) - RewardSum(TakenBack(u))
  <2>1. wallet[u] = Due(u) /\ wallet[u] = 0
    BY <1>1, EarnedSums DEF LedgerInv, Due, PostbackInit, MoneyInit
  <2>2. TakenBack(u) = {} BY <1>2 DEF TakenBack
  <2>3. QED BY <1>3, <2>1, <2>2
<1>5. QED BY <1>1, <1>2, <1>4, FS_EmptySet DEF LedgerInv, PostbackBooks,
             PostbackBalances

(* Balances are stated of the next state with every sum written out.        *)
LEMMA NextPostbackBalances ==
  (\A u \in Users :
      wallet'[u] = (RewardSum(OwnEvents(u)') + ShareSum(ReferredBy(u)'))
                   - RewardSum(TakenBack(u)'))
    => PostbackBalances'
BY DEF PostbackBalances, Due, RewardSum, ShareSum, OwnEvents, ReferredBy,
   TakenBack, MapThenSumSet, MapThenFoldSet

LEMMA CreditBooks ==
  ASSUME PostbackTypeOK, PostbackBooks, NEW p \in Events, Credit(p)
  PROVE  PostbackBooks'
<1>1. Grant(p) BY DEF Credit
<1>2. ChargedBack' = ChargedBack
  BY <1>1 DEF ChargedBack, Grant, RewardRows
<1>3. ASSUME NEW u \in Users
      PROVE  wallet'[u] = (RewardSum(OwnEvents(u)') + ShareSum(ReferredBy(u)'))
                          - RewardSum(TakenBack(u)')
  <2>1. /\ Due(u) \in Int
        /\ RewardSum(OwnEvents(u)') + ShareSum(ReferredBy(u)')
             = Due(u) + Gain(u, p)
    BY <1>1, GrantSums DEF PostbackBooks
  <2>2. wallet'[u] = wallet[u] + Gain(u, p) BY <1>1 DEF Grant
  <2>3. TakenBack(u)' = TakenBack(u) BY <1>2 DEF TakenBack
  <2>4. wallet[u] = Due(u) - RewardSum(TakenBack(u))
    BY DEF PostbackBooks, PostbackBalances
  <2>5. RewardSum(TakenBack(u)) \in Int
    <3>1. TakenBack(u) \subseteq ChargedBack /\ TakenBack(u) \subseteq Events
      BY DEF TakenBack, ChargedBack
    <3>2. IsFiniteSet(TakenBack(u)) BY <3>1, FS_Subset DEF PostbackBooks
    <3>3. QED BY <3>1, <3>2, SumOfRewards, SumType
  <2>6. Gain(u, p) \in Nat BY ShareIsNat
  <2>7. QED BY <2>1, <2>2, <2>3, <2>4, <2>5, <2>6
<1>4. PostbackBalances' BY <1>3, NextPostbackBalances
<1>5. QED BY <1>1, <1>2, <1>4, GrantSums DEF PostbackBooks

LEMMA ChargebackBooks ==
  ASSUME PostbackTypeOK, PostbackBooks, NEW p \in Events, Chargeback(p)
  PROVE  PostbackBooks'
<1>1. /\ earned' = earned \cup {<<"chargeback", p>>}
      /\ wallet' = [wallet EXCEPT ![Earner[p]] = @ - Reward[p]]
      /\ <<"chargeback", p>> \notin earned
  BY DEF Chargeback, Taken, Ledgered
<1>2. /\ Rewarded' = Rewarded /\ Commissioned' = Commissioned
      /\ ChargedBack' = ChargedBack \cup {p} /\ p \notin ChargedBack
  BY <1>1 DEF Rewarded, Commissioned, ChargedBack
<1>3. Earner[p] \in Users /\ Reward[p] \in Nat
  BY EarnerAssumption, RewardAssumption
<1>4. ASSUME NEW u \in Users
      PROVE  wallet'[u] = (RewardSum(OwnEvents(u)') + ShareSum(ReferredBy(u)'))
                          - RewardSum(TakenBack(u)')
  <2>1. OwnEvents(u)' = OwnEvents(u) /\ ReferredBy(u)' = ReferredBy(u)
    BY <1>1 DEF OwnEvents, Rewarded, ReferredBy
  <2>2. /\ wallet[u] = Due(u) - RewardSum(TakenBack(u)) /\ wallet[u] \in Int
    BY DEF PostbackBooks, PostbackBalances, PostbackTypeOK
  <2>3. Due(u) \in Int
    <3>1. /\ OwnEvents(u) \subseteq Rewarded /\ OwnEvents(u) \subseteq Events
          /\ ReferredBy(u) \subseteq Commissioned
          /\ ReferredBy(u) \subseteq Events
      BY DEF OwnEvents, Rewarded, ReferredBy, Commissioned
    <3>2. IsFiniteSet(OwnEvents(u)) /\ IsFiniteSet(ReferredBy(u))
      BY <3>1, FS_Subset DEF PostbackBooks
    <3>3. RewardSum(OwnEvents(u)) \in Int
      BY <3>1, <3>2, SumOfRewards, SumType
    <3>4. ShareSum(ReferredBy(u)) \in Int
      BY <3>1, <3>2, SumOfShares, SumType
    <3>5. QED BY <3>3, <3>4 DEF Due
  <2>4. /\ TakenBack(u) \subseteq ChargedBack /\ TakenBack(u) \subseteq Events
        /\ p \notin TakenBack(u)
    BY <1>2 DEF TakenBack, ChargedBack
  <2>5. /\ RewardSum(TakenBack(u)) \in Int
        /\ RewardSum(TakenBack(u) \cup {p})
             = RewardSum(TakenBack(u)) + Reward[p]
    BY <2>4, FS_Subset, OneMoreEvent DEF PostbackBooks
  <2>6. CASE u = Earner[p]
    <3>1. TakenBack(u)' = TakenBack(u) \cup {p}
      BY <1>2, <2>6 DEF TakenBack
    <3>2. wallet'[u] = wallet[u] - Reward[p]
      BY <1>1, <1>3, <2>6 DEF PostbackTypeOK
    <3>3. RewardSum(TakenBack(u)') = RewardSum(TakenBack(u)) + Reward[p]
      BY <2>5, <3>1
    <3>4. RewardSum(OwnEvents(u)') + ShareSum(ReferredBy(u)') = Due(u)
      BY <2>1 DEF Due
    <3>5. QED BY <1>3, <2>2, <2>3, <2>5, <3>2, <3>3, <3>4
  <2>7. CASE u # Earner[p]
    <3>1. TakenBack(u)' = TakenBack(u) BY <1>2, <2>7 DEF TakenBack
    <3>2. wallet'[u] = wallet[u]
      BY <1>1, <1>3, <2>7 DEF PostbackTypeOK
    <3>3. QED BY <2>1, <2>2, <3>1, <3>2 DEF Due
  <2>8. QED BY <2>6, <2>7
<1>5. PostbackBalances' BY <1>4, NextPostbackBalances
<1>6. QED BY <1>2, <1>5, FS_AddElement DEF PostbackBooks

LEMMA PostbackBooksStay ==
  ASSUME PostbackBooks, UNCHANGED moneyVars PROVE PostbackBooks'
<1>1. /\ Rewarded' = Rewarded /\ Commissioned' = Commissioned
      /\ ChargedBack' = ChargedBack /\ wallet' = wallet
      /\ \A u : /\ OwnEvents(u)' = OwnEvents(u)
                /\ ReferredBy(u)' = ReferredBy(u)
                /\ TakenBack(u)' = TakenBack(u)
  BY DEF moneyVars, Rewarded, Commissioned, ChargedBack, OwnEvents,
         ReferredBy, TakenBack
<1>2. PostbackBalances'
  BY <1>1, NextPostbackBalances DEF PostbackBooks, PostbackBalances, Due
<1>3. QED BY <1>1, <1>2 DEF PostbackBooks

LEMMA NextBooks ==
  ASSUME PostbackInv, PostbackBooks, [PostbackNext]_postbackVars
  PROVE  PostbackBooks'
<1>1. ASSUME NEW p \in Events,
             \/ Post(p) \/ ReadOk(p) \/ LoseReply(p)
             \/ Refuse(p) \/ Ignore(p) \/ Shrug(p) \/ Duplicate(p)
      PROVE  PostbackBooks'
  BY <1>1, OthersLeaveLedger, PostbackBooksStay
<1>2. ASSUME NEW p \in Events, Credit(p) \/ Chargeback(p)
      PROVE  PostbackBooks'
  BY <1>2, CreditBooks, ChargebackBooks DEF PostbackInv
<1>3. CASE UNCHANGED postbackVars
  BY <1>3, PostbackBooksStay DEF postbackVars
<1>4. QED BY <1>1, <1>2, <1>3 DEF PostbackNext

(* However postbacks repeat, overlap and are refused, a balance is what the *)
(* ledger's credits and commissions add up to, less its chargebacks: each   *)
(* row moved money once (BitcoTaskCallbackController:102-146).              *)
THEOREM OfferwallBalances == PostbackSpec => []PostbackBalances
<1>1. PostbackInv /\ PostbackBooks /\ [PostbackNext]_postbackVars
        => PostbackBooks'
  BY NextBooks
<1>2. PostbackBooks => PostbackBalances BY DEF PostbackBooks
<1>3. QED
  BY <1>1, <1>2, PostbackBooksOpen, PostbackInvariant, PTL DEF PostbackSpec

-----------------------------------------------------------------------------
(***************************************************************************)
(* The four of them: a behaviour of ClientsSpec follows one client, and    *)
(* the others stay as they were, so the invariant of each holds of it.     *)
(***************************************************************************)
ClientsInv == ViewerInv /\ BeaconInv /\ TraceInv /\ PostbackInv

LEMMA InitClients == ClientsInit => ClientsInv
BY InitViewer, InitBeacon, InitTrace, InitPostback DEF ClientsInit, ClientsInv

LEMMA NextClients == ClientsInv /\ [ClientsNext]_clientVars => ClientsInv'
<1> SUFFICES ASSUME ClientsInv, [ClientsNext]_clientVars PROVE ClientsInv'
  OBVIOUS
<1>1. [ViewerNext]_viewerVars BY DEF ClientsNext, clientVars
<1>2. [BeaconNext]_beaconVars BY DEF ClientsNext, clientVars
<1>3. [TraceNext]_trajectoryVars BY DEF ClientsNext, clientVars
<1>4. [PostbackNext]_postbackVars BY DEF ClientsNext, clientVars
<1>5. QED
  BY <1>1, <1>2, <1>3, <1>4, NextViewer, NextBeacon, NextTrace, NextPostback
     DEF ClientsInv

LEMMA ClientsInvariant == ClientsSpec => []ClientsInv
BY InitClients, NextClients, PTL DEF ClientsSpec

(* Whichever client is followed, every variable keeps its type.             *)
THEOREM ClientsTypeCorrect == ClientsSpec => []ClientsTypeOK
<1>1. ClientsInv => ClientsTypeOK
  BY DEF ClientsInv, ClientsTypeOK, ViewerInv, BeaconInv, TraceInv, PostbackInv
<1>2. QED BY <1>1, ClientsInvariant, PTL

(* So what is proved of each client holds whichever of them is followed.    *)
THEOREM ClientsKeep ==
  ClientsSpec => /\ [](HonestViewerCredited /\ TraceOfItsChallenge)
                 /\ [](BatchAccepted /\ OnePerTrans /\ StoppedMeansLedgered)
                 /\ KeepsLog
<1>1. ClientsInv => HonestViewerCredited /\ TraceOfItsChallenge
  BY DEF ClientsInv, ViewerInv, TraceInv
<1>2. ClientsInv => OnePerTrans /\ StoppedMeansLedgered
  BY DEF ClientsInv, PostbackInv, OkMeansLedgered, StoppedMeansLedgered
<1>3. ClientsInv => BatchAccepted BY BatchFits DEF ClientsInv
<1>4. ClientsInit => Log!LogInit BY InitLog DEF ClientsInit
<1>5. ClientsInv /\ [ClientsNext]_clientVars => [Log!LogNext]_(Log!logVars)
  <2> SUFFICES ASSUME ClientsInv, [ClientsNext]_clientVars
      PROVE  [Log!LogNext]_(Log!logVars)
    OBVIOUS
  <2>1. [BeaconNext]_beaconVars BY DEF ClientsNext, clientVars
  <2>2. QED BY <2>1, StepLog DEF ClientsInv
<1>6. QED
  BY <1>1, <1>2, <1>3, <1>4, <1>5, ClientsInvariant, PTL
  DEF ClientsSpec, KeepsLog, Log!LogSpec
=============================================================================
