SPECIFICATION Spec
CONSTANTS
    Tasks = {t1, t2}
    Workers = {w1, w2}
    Sandboxes = {s1, s2, s3, s4}
    Schemas = {t1}
    MaxSize = 1
    Faults = {"lost", "deleteError", "executionTimeout", "crash"}
    None = None
SYMMETRY Symmetry
INVARIANTS
    TypeOK
    HonestResult
    LeaksExplained
    UnnamedBounded
PROPERTIES
    AttemptsBounded
