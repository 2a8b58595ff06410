SPECIFICATION FairSpec
CONSTANTS
    Sandboxes = {s1, s2}
    Sessions = {k1, k2}
    Callers = {c1}
    Releasers = {r1}
    Collectors = {g1}
    Warmers = {w1}
    Heartbeats = TRUE
    Faults = {"createLost", "deleteError", "vanish"}
    MaxSize = 1
    MinReady = 1
    IdleTimeout = 0
    MaxTime = 1
    None = None
INVARIANTS
    IndexCoherence
    NothingForgotten
PROPERTIES
    CallsReturn
    OverdueCollected
