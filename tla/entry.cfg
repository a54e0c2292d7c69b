\* Three signals, to the group or to the launched process, and two faults.
SPECIFICATION EntryFairSpec
CHECK_DEADLOCK FALSE
CONSTANTS
    None = None
    MaxSignals = 3
    MaxFaults = 2
INVARIANT NothingStranded
PROPERTY HeardEnds
