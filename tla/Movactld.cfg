CONSTANTS
    c1 = c1
    c2 = c2
    s1 = s1
    n1 = n1
    n2 = n2
    a1 = a1
    a2 = a2
    ka = ka
    ma = ma
    pwr = pwr
    Addr = {a1, a2}
    Msg <- MCMsg
    End = End
    BeforeBegin = BeforeBegin
    OutThrottle = 1
    ThrottleOf <- MCThrottleOf
    FirstOf <- MCFirstOf
    SecondOf <- MCSecondOf
    Code = {pwr}
    RequestOf <- MCRequestOf
    NoMsg = NoMsg
    Conn = {c1, c2}
    Server = {s1}
    NameOf <- MCNameOf
    NoNode = NoNode
    NoServer = NoServer
    NoLine = NoLine
    AfterErase = {"continues"}
    ListenerNode = {n1, n2}
    ClientLines <- MCClientLines
    MaxInflight = 2
SPECIFICATION DaemonSpec
PROPERTIES AnswersReachSubscribers QueriesAnswered
CHECK_DEADLOCK FALSE
