CONSTANTS
    IPs = {ip1, ip2}
    Leases = {l1, l2, l3}
    NoIp = NoIp
    NoEntry = NoEntry
    MaxConnections = 2
    MaxPerIp = 1
    TokensMax = 4
    RefillPerTick = 1
    TokenCost = 2
    SweepInterval = 2
    StaleTtl = 4
    MaxTime = 5
SYMMETRY Sym
SPECIFICATION WSpec
INVARIANT TypeOK
INVARIANT LeaseAccounting
INVARIANT AdmissionCaps
INVARIANT WindowBound
PROPERTY ImplementsAdmissionControl
