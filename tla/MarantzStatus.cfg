CONSTANTS
    a1 = a1
    a2 = a2
    askVol = askVol
    askMenu = askMenu
    press = press
    vol = vol
    slp = slp
    mnu = mnu
    cur = cur
    Addr = {a1, a2}
    Msg <- MCMsg
    Ask <- MCAsk
    AstOf <- MCAstOf
    AnswerTo <- MCAnswerTo
    Info = {vol, slp, mnu, cur}
    LayerOf <- MCLayerOf
    NoUpdateFunc = {cur}
    End = End
    BeforeBegin = BeforeBegin
    OutThrottle = 1
    ThrottleOf <- MCThrottleOf
    MaxIncoming = 2
SPECIFICATION MaSpec
INVARIANTS BeliefFollowsReceiver
PROPERTIES NoLayerDropped
CONSTRAINT Bounded
SYMMETRY AddrSymmetry
CHECK_DEADLOCK FALSE
