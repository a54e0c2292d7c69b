\* Servers of one runtime, an unsubscribe from the command line, the sweep and a send.
SPECIFICATION Spec
CHECK_DEADLOCK FALSE
CONSTANTS
    s1 = s1
    s2 = s2
    s3 = s3
    c1 = c1
    c2 = c2
    r1 = r1
    r2 = r2
    Sweeper = Sweeper
    Medium = Medium
    None = None
    Servers = {s1, s2}
    Clerks = {c1}
    Runtimes = {r1}
    m1 = m1
    Msgs = {m1}
    RuntimeOf <- OneRuntime
    Verbs = {"unsubscribe"}
    MaxRestarts = 0
INVARIANT MailAccounted
SYMMETRY SameServers
