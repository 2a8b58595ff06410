SPECIFICATION FairSpec
CONSTANTS
    Creators = {c1, c2}
    GcTimeout = 0
    MaxTime = 1
    MaxSkew = 1
    SweepSkew = 0
    Faults = {"createLost", "cancel", "deleteError", "deleteLost", "crash"}
    MaxMishaps = 2
    None = None
INVARIANTS
    TypeOK
    OneCreatorPerClaim
    StrandedByMishaps
PROPERTIES
    NoForeignDelete
    SweepsOnlyOldTerminal
    TerminalCollected
