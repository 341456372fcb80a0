CONSTANTS
    vol = vol
    src = src
    none = none
    Code <- MCCode
    Has <- MCHas
    Cases <- TwoCases
    Says <- MCSaysOnce
    NoValue = NoValue
    MaxLines = 2
    MayDisable = FALSE
SPECIFICATION CliSpec
INVARIANTS RepliesExpected
CHECK_DEADLOCK FALSE
