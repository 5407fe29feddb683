\* Every scenario of the acceptance script with the attempts on two hosts and
\* any single or repeated failure of a process, a worker or the clock.
SPECIFICATION HostSpec
CONSTANTS
    h1 = h1
    h2 = h2
    s1 = s1
    s2 = s2
    a1 = a1
    a2 = a2
    Hosts = {h1, h2}
    Changing = {}
    Attempts = {a1, a2}
    First = a1
    Second = a2
    Gated = {}
    Sessions = {s1, s2}
    NoSession = NoSession
    NoHost = NoHost
    Operator = Operator
    LeaseTerms = {1, 2}
    RecoveryTerm = 1
    MaxTime = 2
    ShortTerm = 1
    LongTerm = 2
    HostOf <- Placed
    SessionOf <- Named
CHECK_DEADLOCK FALSE
INVARIANTS
    SingleWorker
    ResultOnDisk
    PassesUnharmed
PROPERTIES
    NoOrphans
