\* One gated attempt of one host.
SPECIFICATION Spec
CONSTANTS
    Hosts = {h1}
    Changing = {}
    Attempts = {a1}
    Second = a1
    Gated = {a1}
    Sessions = {s1, s2}
    NoSession = NoSession
    NoHost = NoHost
    Operator = Operator
    LeaseTerms = {1}
    RecoveryTerm = 1
    MaxTime = 3
SYMMETRY SessionSymmetry
CHECK_DEADLOCK FALSE
INVARIANTS
    ReplayIsSafe
