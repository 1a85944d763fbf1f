CONSTANTS
    Requests = {"iptables -a", "iptables -'a'", "iptables !", "timedatectl"}
    UsageCode <- MCUsage
    Shells = {s1}
    LineOf <- MCLineOf
    Typed = {"self"}
    Comment = "#"
    Noise = "noise"
    Binary = {"zeros"}
    BaseFiles <- MCSelfFiles
    Device = "dev"
    None = "none"
    Uncacheable = {"timedatectl"}
    Unsafe = {"iptables !"}
    Joined <- MCJoined
    Codes <- MCCodes
    MaxScriptDepth = 3
    MaxScriptLines = 2
    MaxLines = 2
    MaxFrames = 20
    Alphabet = {}
    MaxLength = 0
CHECK_DEADLOCK FALSE
SPECIFICATION Spec
INVARIANT NestingBounded
