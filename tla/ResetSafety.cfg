SPECIFICATION Spec
CONSTANTS
    resetA = resetA
    resetB = resetB
    writer = writer
    starter = starter
    Resetters <- TwoResets
    Clients <- BothClients
    Starters <- OneStarter
    Original = Original
    NoOne = NoOne
    MaxOutages = 1
SYMMETRY Alike
INVARIANTS
    NothingLost
    CooperativeFence
    OneReset
PROPERTIES
    ActiveWorkStays
CHECK_DEADLOCK FALSE
