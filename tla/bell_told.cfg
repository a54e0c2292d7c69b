\* Every message is announced through an outage, and the tries run out.
SPECIFICATION FairSpec
CONSTANTS
    m1 = m1  m2 = m2  m3 = m3  a = a  b = b
    Msgs = {m1}
    Senders = {a, b}
    From <- FromOne
    NoName = NoName
    Main = Main  Link = Link
    Timers = {t1}
    MaxTries = 2
    PerMin = 1
    PerHour = 1
    MinutesPerHour = 1
    MaxClock = 0
    MaxFlaps = 1
    Answers <- RangRefusedOrNever
    UnreadFails = FALSE
INVARIANTS NoLostWake
PROPERTIES EveryMailTold FallsSilent
CHECK_DEADLOCK FALSE
