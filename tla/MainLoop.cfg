CONSTANTS
    a1 = a1
    a2 = a2
    volume = volume
    own = own
    other = other
    Addr = {a1, a2}
    Msg = {volume}
    End = End
    BeforeBegin = BeforeBegin
    OutThrottle = 1
    Device = {own, other}
    Own = own
    Report = {0}
    Nul = Nul
    Sep = Sep
    MaxBytes = 2
CONSTANT ThrottleOf <- MCThrottleOf
SPECIFICATION MainSpec
INVARIANTS PacketsAreSent IteratorsValid
PROPERTIES RestRespected ImplementsOutputLine TerminationEnds LineComesBack SettlesDown
CHECK_DEADLOCK FALSE
