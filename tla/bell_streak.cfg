\* Overlapping tries of one seat, every answer, and clock roll-overs; no outage.
SPECIFICATION Spec
CONSTANTS
    m1 = m1  m2 = m2  m3 = m3  a = a  b = b
    Msgs = {m1, m2}
    Senders = {a, b}
    From <- FromMixed
    NoName = NoName
    Main = Main  Link = Link
    Timers = {t1, t2}
    MaxTries = 2
    PerMin = 1
    PerHour = 2
    MinutesPerHour = 1
    MaxClock = 1
    MaxFlaps = 0
    Answers <- AnyAnswer
    UnreadFails = TRUE
INVARIANTS BreakerCap NoLostWake ExhaustedGivesUp StopIsFinal
CHECK_DEADLOCK FALSE
