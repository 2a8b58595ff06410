SPECIFICATION Spec
CONSTANTS
    Clients = {c1, c2}
    Sessions = {k1, k2, k3, k4, k5, k6}
    Notifiers = {}
    Audit = {TRUE}
    MaxSize = 1
    MaxTickets = 2
    None = None
PROPERTIES
    InUseKept
