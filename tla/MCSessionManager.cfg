CONSTANTS
    IPs = {ip1, ip2, ip3}
    NoIp = NoIp
    Shells = {s1, s2}
    MaxSessions = 2
    Ttl = 1
    MaxRecords = 3
SPECIFICATION LiveSpec
INVARIANT StoreOrdered
INVARIANT Isolated
PROPERTY DroppedOnlyWhenDue
PROPERTY DroppedForGood
PROPERTY IdleIsForgotten
