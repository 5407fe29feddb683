\* One gated attempt, two hosts, one of which registers and is granted, revoked
\* and disabled at any time; a second attempt of the goal in a smaller scope.
SPECIFICATION Spec
CONSTANTS
    Hosts = {h1, h2}
    Changing = {h1}
    Attempts = {a1, a2}
    Second = a2
    Gated = {a1}
    Sessions = {s1, s2}
    NoSession = NoSession
    NoHost = NoHost
    Operator = Operator
    LeaseTerms = {1, 2}
    RecoveryTerm = 1
    MaxTime = 4
SYMMETRY SessionSymmetry
CONSTRAINT Scope
CHECK_DEADLOCK FALSE
INVARIANTS
    TypeOK
    SessionExclusive
    CancellationReaches
PROPERTIES
    LapsedTokenStaysDead
    ExpiryProvesNothing
    ImplementsExclusive
