SPECIFICATION Spec
CONSTANTS
    Clients = {c1, c2}
    Sessions = {k1, k2, k3}
    Notifiers = {n1, n2}
    Audit = {TRUE, FALSE}
    MaxSize = 1
    MaxTickets = 3
    None = None
SYMMETRY Symmetry
INVARIANTS
    TypeOK
    ServedInTurn
    SendNeverBlocks
CHECK_DEADLOCK FALSE
