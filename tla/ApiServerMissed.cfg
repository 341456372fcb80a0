CONSTANTS
    c1 = c1
    c2 = c2
    s1 = s1
    s2 = s2
    pwr = pwr
    vol = vol
    a1 = a1
    a2 = a2
    a3 = a3
    Conn = {c1, c2}
    Server = {s1}
    NameOf <- OneName
    Code = {pwr}
    Reportable = {pwr}
    Addr = {a1, a2, a3}
    NoNode = NoNode
    NoServer = NoServer
    NoLine = NoLine
    AfterErase = {"stops"}
    PartLines = {}
    ClientLines <- MCClientLines
    MaxOwed = 2
SPECIFICATION Spec
PROPERTIES EveryListenerTold
CHECK_DEADLOCK FALSE
