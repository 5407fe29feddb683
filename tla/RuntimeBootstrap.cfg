\* Two homes of one database initialised by two commands and a Studio server.
SPECIFICATION Spec
CONSTANTS
    p1 = p1
    p2 = p2
    n1 = n1
    n2 = n2
    Homes = {h1, h2}
    Names = {n1, n2}
    Bundled = {b1}
    Custom = {c1}
    OtherSlugs = {s1}
    Commands = {p1, p2}
    Studio = Studio
    MaxContexts = 2
    MaxEdits = 2
    MaxFaults = 1
CONSTRAINT Scope
CHECK_DEADLOCK FALSE
INVARIANTS
    InitializedHome
PROPERTIES
    AuthoringSurvives
    StudioComesUp
