\* A server and a clerk of another runtime across two stops of the broker.
SPECIFICATION FairSpec
CHECK_DEADLOCK FALSE
CONSTANTS
    s1 = s1
    s2 = s2
    s3 = s3
    c1 = c1
    c2 = c2
    r1 = r1
    r2 = r2
    Sweeper = Sweeper
    Medium = Medium
    None = None
    Servers = {s1}
    Clerks = {c2}
    Runtimes = {r1, r2}
    m1 = m1
    Msgs = {}
    RuntimeOf <- TwoRuntimes
    Verbs <- AllVerbs
    MaxRestarts = 2
PROPERTY Reconciles
