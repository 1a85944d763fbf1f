CONSTANTS
    Addresses = {"ip1", "ip2"}
    ProxyIp = "proxy"
    MaxLine = 6
    Headers <- MCHeaders
    Messages <- MCMessages
SPECIFICATION Spec
INVARIANT HandOverIsExact
INVARIANT ProxyIsBelieved
INVARIANT PiecesDoNotMatter
PROPERTY EndIsSeen
CHECK_DEADLOCK FALSE
