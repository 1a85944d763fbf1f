CONSTANTS
    IPs = {ip1, ip2}
    NoIp = NoIp
    Shells = {s1, s2}
    MaxSessions = 2
    Ttl = 1
    MaxRecords = 3
SPECIFICATION LiveSpec
PROPERTY SweepSparesActive
