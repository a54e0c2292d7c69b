\* Two rings of one seat, of each listener type and one that has no notifier.
SPECIFICATION FairSpec
CHECK_DEADLOCK FALSE
CONSTANTS
    r1 = r1
    r2 = r2
    s1 = s1
    s2 = s2
    None = None
    Rings = {r1, r2}
    Sessions = {s1, s2}
    Named = s1
    Types = {"tmux", "herdr", "claude", "webhook", "none", "pager"}
    Window = 1
    MaxTime = 1
    MaxEvents = 3
    MaxFaults = 1
INVARIANT TypeOK
INVARIANT NothingAstray
INVARIANT ResultTrue
INVARIANT OutcomeProven
PROPERTY RingEnds
PROPERTY CourierWindow
