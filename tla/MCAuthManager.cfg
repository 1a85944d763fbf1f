CONSTANTS
    IPs = {ip1, ip2, ip3}
    NoIp = NoIp
    Conns = {c1, c2}
    MaxAttempts = 2
    MaxPins = 2
    PinTtl = 1
    AttemptTtl = 2
    Tarpit = 1
SYMMETRY Sym
SPECIFICATION Spec
INVARIANT StoresOrdered
INVARIANT GuessLimit
INVARIANT LockoutIsTimed
PROPERTY NoGuessWhenSpent
