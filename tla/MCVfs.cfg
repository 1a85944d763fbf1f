CONSTANTS
    Names = {"a", "b"}
    MaxDepth = 2
    Base <- MCBase
    DevNull <- MCDevNull
    DevZero <- MCDevZero
    MaxFile = 2
    MaxTotal = 3
    ReadChunk = 1
    Sizes = {0, 1}
    Shells = {s1}
SPECIFICATION Spec
INVARIANT FailureIsAtomic
INVARIANT TreeIsSound
PROPERTY StreamEnds
