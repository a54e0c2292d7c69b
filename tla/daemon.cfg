\* Two starts, a stop and a forced stop over one port.
SPECIFICATION FairSpec
CHECK_DEADLOCK FALSE
CONSTANTS
    d1 = d1
    d2 = d2
    s1 = s1
    s2 = s2
    t1 = t1
    t2 = t2
    Outsider = Outsider
    None = None
    Daemons = {d1, d2}
    Starts = {s1, s2}
    Stops = {t1, t2}
    Forced = {t2}
    MaxFaults = 1
INVARIANT NamedHoldsPort
INVARIANT UnnamedOnlyIfOverlapped
INVARIANT OthersUnharmed
PROPERTY SignalledEnds
