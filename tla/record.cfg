\* A send, two occupants, a bell and a reader across a midnight.
SPECIFICATION Spec
CHECK_DEADLOCK FALSE
CONSTANTS
    m1 = m1
    m2 = m2
    None = None
    Msgs = {m1}
    Results = {"failed", "held"}
    MaxTries = 2
    TicksPerSecond = 2
    SecondsPerDay = 1
    MaxTime = 2
    MaxTrials = 2
    MaxSeatings = 2
    MaxFaults = 1
INVARIANT TypeOK
INVARIANT OutcomesTrue
INVARIANT WaitingIsListed
INVARIANT VainBellShown
INVARIANT HeldSinceFirst
