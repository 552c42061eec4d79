SPECIFICATION ViewerSpec
CONSTANTS
    Second = 4
    AdSecs = 5
    Waits = {6, 8, 10}
    Lag = 0
    MaxTrip = 0
    MinSolve = 1
    MaxLost = 0
    Horizon = 24
INVARIANTS
    DeficitMeansAway
CHECK_DEADLOCK FALSE
