----------------------------- MODULE ApiClients -----------------------------
(***************************************************************************)
(* The clients of the HTTP interface: the three classes of resources/js    *)
(* and the server of BitcoTasks.  Each talks to an endpoint of its own;    *)
(* they share no state and call nothing of each other, so a behaviour      *)
(* follows one of them, and which one is chosen at the start.              *)
(***************************************************************************)
EXTENDS PtcViewer, TelemetryBeacon, TrajectoryCaptcha, PostbackCallback

VARIABLE client \* "ad", "beacon", "captcha" or "offerwall"

clientVars == <<client, viewerVars, beaconVars, trajectoryVars, postbackVars>>

(* The first wait and the exchange rate are of no interest to the clients   *)
(* that do not look at them.                                                *)
ClientsInit ==
    /\ client \in {"ad", "beacon", "captcha", "offerwall"}
    /\ ViewerInit /\ BeaconInit /\ TraceInit /\ PostbackInit
    /\ client # "ad" => due = MaxWait
    /\ client # "offerwall" => converts

ClientsNext ==
    \/ /\ client = "ad" /\ ViewerNext
       /\ UNCHANGED <<client, beaconVars, trajectoryVars, postbackVars>>
    \/ /\ client = "beacon" /\ BeaconNext
       /\ UNCHANGED <<client, viewerVars, trajectoryVars, postbackVars>>
    \/ /\ client = "captcha" /\ TraceNext
       /\ UNCHANGED <<client, viewerVars, beaconVars, postbackVars>>
    \/ /\ client = "offerwall" /\ PostbackNext
       /\ UNCHANGED <<client, viewerVars, beaconVars, trajectoryVars>>

(* ViewerFairness and TraceFairness for the client that was chosen.         *)
Goes(c, A) == client = c /\ A /\ ClientsNext

ClientsSpec ==
    /\ ClientsInit /\ [][ClientsNext]_clientVars
    /\ WF_clientVars(Goes("ad", Arrive \/ LoseBeat))
    /\ WF_clientVars(Goes("ad", Return))
    /\ WF_clientVars(Goes("captcha", ClockTicks))
    /\ \A c \in Challenges : WF_clientVars(Goes("captcha", Frame(c)))

ClientsTypeOK ==
    ViewerTypeOK /\ BeaconTypeOK /\ TraceTypeOK /\ PostbackTypeOK
=============================================================================
