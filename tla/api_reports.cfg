SPECIFICATION FairSpec
CONSTANTS
    Half = 64
    Second = 4
    Default = 4
    Cap = 8
    Buffer = 2
    Requests = {0, 7, 9, 15, 20, 35}
    Streams = {s1, s2}
    Flushable = TRUE
    Faults = {"start", "startLost", "describe", "result"}
INVARIANTS
    OutcomesAgree
    BufferKept
PROPERTIES
    StreamsClose
