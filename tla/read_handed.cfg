\* The tool's error leaves no line.
SPECIFICATION Spec
CONSTANTS
    m1 = m1
    m2 = m2
    r1 = r1
    p1 = p1
    t1 = t1
    None = None
    Nobody = Nobody
    Msgs = {m1, m2}
    Envelopes = {m1}
    Readers = {}
    Peekers = {}
    Tools = {t1}
    MaxFaults = 1
PROPERTY HandedIsLogged
