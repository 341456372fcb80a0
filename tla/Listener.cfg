CONSTANTS
    Device = {"playstation", "wii"}
    UserSource = {"tv"}
    MaxChecks = 1
    MaxReady = 2
    MaxReports = 1
SPECIFICATION ListenerFairSpec
INVARIANTS UpIsChecked BeliefCatchesUp
PROPERTIES ReallyUpWasUp LinkSettles CheckEnds
CHECK_DEADLOCK FALSE
