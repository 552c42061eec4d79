-------------------------- MODULE TelemetryBeacon --------------------------
(***************************************************************************)
(* TelemetryBeacon of resources/js/beacon/telemetry.ts and the endpoint it *)
(* posts to.  An event is its number; what it says (a position, a key, a   *)
(* fingerprint) is left out.  A buffer and a batch are sets of events:     *)
(* their order is that of the numbers.                                     *)
(***************************************************************************)
EXTENDS Naturals, FiniteSets

CONSTANTS
    MaxBufferSize, \* maxBufferSize
    ServerLimit,   \* the most events one post may carry (BeaconController)
    MaxEvents      \* bound on the events of one page

ASSUME BufferAssumption ==
    MaxBufferSize \in Nat /\ ServerLimit \in Nat /\ MaxEvents \in Nat
ASSUME LimitAssumption == 1 <= MaxBufferSize /\ MaxBufferSize <= ServerLimit

VARIABLES
    open,      \* the page is open
    recorded,  \* events so far
    throttled, \* a mouse sample was taken less than 80 ms ago
    buffer,    \* events not yet posted
    posts,     \* batches whose fetch has not ended
    stored,    \* events inserted into behavioral_events
    dropped    \* events of failed posts, and those the page took with it

beaconVars == <<open, recorded, throttled, buffer, posts, stored, dropped>>

BeaconTypeOK ==
    /\ open \in BOOLEAN /\ throttled \in BOOLEAN
    /\ recorded \in Nat
    /\ buffer \subseteq 1..recorded
    /\ posts \subseteq SUBSET (1..recorded)
    /\ stored \subseteq 1..recorded
    /\ dropped \subseteq 1..recorded

BeaconInit ==
    /\ open = TRUE
    /\ recorded = 0
    /\ throttled = FALSE
    /\ buffer = {}
    /\ posts = {}
    /\ stored = {}
    /\ dropped = {}

(* flush(): splice empties the buffer before the fetch is awaited, so what  *)
(* is recorded meanwhile starts a new batch.                                *)
Flush_Keep(b) ==                             \* mutant of Flush
    /\ posts' = posts \cup {b}
    /\ buffer' = b
Flush(b) ==
    /\ posts' = posts \cup {b}
    /\ buffer' = {}

(* push(): a full buffer is flushed at once, whatever is still in flight.   *)
Push_NoLimit ==                              \* mutant of Push
    /\ recorded < MaxEvents
    /\ recorded' = recorded + 1
    /\ buffer' = buffer \cup {recorded + 1}
    /\ UNCHANGED posts
Push ==
    LET b == buffer \cup {recorded + 1}
    IN  /\ recorded < MaxEvents
        /\ recorded' = recorded + 1
        /\ \/ Cardinality(b) >= MaxBufferSize /\ Flush(b)
           \/ Cardinality(b) < MaxBufferSize /\ buffer' = b /\ UNCHANGED posts

(* focus, blur, keydown, recordFingerprint, recordHeartbeat.                *)
Record ==
    /\ open
    /\ Push
    /\ UNCHANGED <<open, throttled, stored, dropped>>

(* mousemove: a sample within 80 ms of the last one is ignored.             *)
MouseMove ==
    /\ open
    /\ ~ throttled
    /\ throttled' = TRUE
    /\ Push
    /\ UNCHANGED <<open, stored, dropped>>

ThrottleEnds ==
    /\ throttled
    /\ throttled' = FALSE
    /\ UNCHANGED <<open, recorded, buffer, posts, stored, dropped>>

FlushTimer ==
    /\ open
    /\ buffer # {}
    /\ Flush(buffer)
    /\ UNCHANGED <<open, recorded, throttled, stored, dropped>>

(* The page goes away: nothing flushes the buffer, while the posts in       *)
(* flight are kept alive.                                                   *)
Unload ==
    /\ open
    /\ open' = FALSE
    /\ dropped' = dropped \cup buffer
    /\ buffer' = {}
    /\ UNCHANGED <<recorded, throttled, posts, stored>>

(* BeaconController::store: one INSERT for the whole batch.  Whether the    *)
(* reply comes back is all the same to the page.                            *)
Store(b) ==
    /\ b \in posts
    /\ Cardinality(b) <= ServerLimit
    /\ posts' = posts \ {b}
    /\ stored' = stored \cup b
    /\ UNCHANGED <<open, recorded, throttled, buffer, dropped>>

(* The network or the throttle of 120 posts a minute refuses the batch, or  *)
(* it is too long; flush() neither looks at the status nor tries again.     *)
Drop(b) ==
    /\ b \in posts
    /\ posts' = posts \ {b}
    /\ dropped' = dropped \cup b
    /\ UNCHANGED <<open, recorded, throttled, buffer, stored>>

BeaconNext ==
    \/ Record \/ MouseMove \/ ThrottleEnds \/ FlushTimer \/ Unload
    \/ \E b \in posts : Store(b) \/ Drop(b)

BeaconSpec == BeaconInit /\ [][BeaconNext]_beaconVars

----------------------------------------------------------------------------
(* However fast events come and however slow the posts are, no batch is     *)
(* empty or longer than the endpoint takes: none is refused for its length. *)
BatchAccepted ==
    \A b \in posts : b # {} /\ Cardinality(b) <= ServerLimit

(* At most once: overlapping flushes, by the timer and by a full buffer,    *)
(* neither store an event twice nor both store it and give it up.           *)
Log == INSTANCE EventLog
          WITH count <- recorded, pending <- buffer \cup UNION posts,
               kept <- stored, lost <- dropped
KeepsLog == Log!LogSpec
============================================================================
