------------------------------ MODULE EventLog ------------------------------
(***************************************************************************)
(* What the telemetry of a page promises: an event is kept by the server   *)
(* at most once, it is given up at most once, and never both.              *)
(***************************************************************************)
EXTENDS Naturals

VARIABLES
    count,   \* events recorded so far; an event is its number
    pending, \* not yet decided
    kept,    \* rows of behavioral_events
    lost     \* never to arrive

logVars == <<count, pending, kept, lost>>

LogInit ==
    /\ count = 0
    /\ pending = {}
    /\ kept = {}
    /\ lost = {}

Observe ==
    /\ count' = count + 1
    /\ pending' = pending \cup {count + 1}
    /\ UNCHANGED <<kept, lost>>

Keep(S) ==
    /\ pending' = pending \ S
    /\ kept' = kept \cup S
    /\ UNCHANGED <<count, lost>>

GiveUp(S) ==
    /\ pending' = pending \ S
    /\ lost' = lost \cup S
    /\ UNCHANGED <<count, kept>>

LogNext ==
    \/ Observe
    \/ \E S \in SUBSET pending : Keep(S) \/ GiveUp(S)

LogSpec == LogInit /\ [][LogNext]_logVars
=============================================================================
