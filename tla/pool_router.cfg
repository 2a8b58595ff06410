SPECIFICATION Spec
CONSTANTS
    Sandboxes = {s1, s2, s3}
    Sessions = {k1, k2, k3}
    Callers = {c1, c2}
    Releasers = {}
    Collectors = {g1}
    Warmers = {w1}
    Heartbeats = TRUE
    Faults = {"createLost", "deleteError", "deleteLost"}
    MaxSize = 2
    MinReady = 2
    IdleTimeout = 1
    MaxTime = 2
    None = None
SYMMETRY Symmetry
INVARIANTS
    TypeOK
    ExclusiveGrant
    IndexCoherence
    OvershootBound
    WarmBound
    OfferedIsLive
PROPERTIES
    NeverReused
    OwnershipSpec
