CONSTANTS
    vol = vol
    src = src
    none = none
    Code <- MCCode
    Has <- MCHas
    Cases <- AllCases
    Says <- MCSays
    NoValue = NoValue
    MaxLines = 2
    MayDisable = TRUE
SPECIFICATION CliFairSpec
INVARIANTS SubscribedWhileWaiting ShowsTheLatest
PROPERTIES StatusEnds
CHECK_DEADLOCK FALSE
