\* A read, a peek and a tool's read against one cursor, with one fault: what is
\* safe throughout, and that every message is shown once the fault is over.
SPECIFICATION FairSpec
CONSTANTS
    m1 = m1
    m2 = m2
    r1 = r1
    p1 = p1
    t1 = t1
    None = None
    Nobody = Nobody
    Msgs = {m1, m2}
    Envelopes = {m1}
    Readers = {r1}
    Peekers = {p1}
    Tools = {t1}
    MaxFaults = 1
INVARIANT TypeOK
INVARIANT ShownBeforeGone
INVARIANT RecordedIsGone
PROPERTY EndedHoldsNothing
PROPERTY IsMailbox
PROPERTY EveryMailShown
