SPECIFICATION Spec
CONSTANTS
    Keys = {k1}
    Handlers = {h1, h2}
    Sizes = {1, 2}
    RPM = 3
    TPM = 4
    Window = 4
    Second = 2
    MaxTime = 9
    None = None
SYMMETRY Symmetry
INVARIANTS
    Aligned
    LimitsKept
    RetryHonoured
