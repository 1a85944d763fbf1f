CONSTANTS
    Requests = {"iptables -a", "iptables -'a'", "iptables !", "timedatectl"}
    UsageCode <- MCUsage
    Shells = {s1, s2}
    LineOf <- MCLineOf
    Typed = {"nest", "feed", "ask", "leave", "wipe", "fill"}
    Comment = "#"
    Noise = "noise"
    Binary = {"zeros"}
    BaseFiles <- MCFiles
    Device = "dev"
    None = "none"
    Uncacheable = {"timedatectl"}
    Unsafe = {"iptables !"}
    Joined <- MCJoined
    Codes <- MCCodes
    MaxScriptDepth = 2
    MaxScriptLines = 2
    MaxLines = 2
    MaxFrames = 20
    Alphabet <- MCAlphabet
    MaxLength = 4
CHECK_DEADLOCK FALSE
SPECIFICATION Spec
INVARIANT EveryCommandLogged
INVARIANT DepthBalanced
INVARIANT StatusIsLast
INVARIANT SplitsAgree
INVARIANT ArtifactsExact
INVARIANT CacheIsSound
PROPERTY ExitIsFinal
PROPERTY LineEnds
