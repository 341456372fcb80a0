CONSTANTS
    p1 = p1
    p2 = p2
    Pid = {p1, p2}
    NoPid = NoPid
    Code = {0, 1}
    Signum = {9, 15}
    InSigwait = {"taken", "default"}
SPECIFICATION BosFairSpec
INVARIANTS NoneLeftBehind HealthyChildSpared ExitCodeIsLastChilds
PROPERTIES TerminationFinal TerminationCompletes DeathNoticed
CHECK_DEADLOCK FALSE
