\* Two messages and one that is declined, two bells, two calls and a fault.
SPECIFICATION FairSpec
CHECK_DEADLOCK FALSE
CONSTANTS
    m1 = m1
    m2 = m2
    m3 = m3
    None = None
    Msgs = {m1, m2, m3}
    Declined = {m3}
    MaxBells = 2
    MaxCalls = 2
    MaxFaults = 1
INVARIANT TypeOK
INVARIANT TakenIsFound
INVARIANT PassedOrNamed
INVARIANT ClosedIsQuiet
PROPERTY BellDrains
