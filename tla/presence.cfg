\* Two occupants, the hooks of either, a removal that may be cut, and a status.
SPECIFICATION Spec
CHECK_DEADLOCK FALSE
CONSTANTS
    a1 = a1
    a2 = a2
    h1 = h1
    h2 = h2
    None = None
    Agents = {a1, a2}
    Hooks = {h1, h2}
    IdleWindow = 0
    MaxTime = 1
    MaxFaults = 1
INVARIANT EventsKept
INVARIANT OwnActivity
INVARIANT ReportOfOne
SYMMETRY Alike
