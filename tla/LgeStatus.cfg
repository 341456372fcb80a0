CONSTANTS
    a1 = a1
    a2 = a2
    a3 = a3
    ka = ka
    ma = ma
    kc = kc
    Addr = {a1, a2, a3}
    Msg <- MCMsg
    End = End
    BeforeBegin = BeforeBegin
    OutThrottle = 0
    ThrottleOf <- MCThrottleOf
    FirstOf <- MCFirstOf
    SecondOf <- MCSecondOf
    Code <- MCCode
    RequestOf <- MCRequestOf
    NoMsg = NoMsg
    MaxInflight = 3
SPECIFICATION LgeSpec
INVARIANTS ListIsWhatTvOwes OwedAnswersRemembered
PROPERTIES AnswersNamedRight AnswersFindTheirCommand
CONSTRAINT Bounded
SYMMETRY AddrSymmetry
CHECK_DEADLOCK FALSE
