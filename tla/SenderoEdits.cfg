\* Edits of drafts, their publication and an editor that reviews before it publishes.
SPECIFICATION Spec
CONSTANTS
    Start = Start
    End = End
    NoFork = NoFork
    AnyOutcome = AnyOutcome
    NoOutcome = NoOutcome
    Inherit = Inherit
    Unseen = Unseen
    a = a
    b = b
    c = c
    worker = worker
    strict = strict
    Plain = plain
    Names = {a, b, c}
    Agents = {worker}
    Bodies = {short, long}
    Policies = {plain, strict}
    Editors = {editor}
    Seeds <- OldAndForked
    Drawings <- SwappedOrSplit
    MaxVersions = 3
    MaxEdits = 2
CHECK_DEADLOCK FALSE
INVARIANTS
    TypeOK
    PublishedExecutable
    ReviewedPublished
PROPERTIES
    PublishedFrozen
    PoliciesStay
