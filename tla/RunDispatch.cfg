SPECIFICATION Spec
CONSTANTS
    g1 = g1
    g2 = g2
    c1 = c1
    c2 = c2
    r1 = r1
    Goals = {g1, g2}
    Callers = {c1, c2}
    Reviewers = {r1}
    Scope <- Scopes
    Requests = {q1}
    NoRequest = NoRequest
    NoItem = NoItem
    NoTx = NoTx
    MaxVisits = 2
    MaxAttempts = 2
    MaxRuns = 2
CONSTRAINT Focus
INVARIANTS
    AnsweredOnce
    ReservedAsReviewed
    ReservedTogether
PROPERTIES
    RefusedReservedNothing
