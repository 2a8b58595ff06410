SPECIFICATION Spec
CONSTANTS
    Sandboxes = {s1, s2}
    Sessions = {k1, k2}
    Callers = {c1}
    Releasers = {}
    Collectors = {g1}
    Warmers = {w1}
    Heartbeats = FALSE
    Faults = {}
    MaxSize = 2
    MinReady = 1
    IdleTimeout = 0
    MaxTime = 1
    None = None
SYMMETRY Symmetry
PROPERTIES
    GrantIsUsable
