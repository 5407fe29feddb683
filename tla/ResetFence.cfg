SPECIFICATION Spec
CONSTANTS
    resetA = resetA
    resetB = resetB
    writer = writer
    starter = starter
    Resetters <- OneResetter
    Clients <- BothClients
    Starters <- OneStarter
    Original = Original
    NoOne = NoOne
    MaxOutages = 0
INVARIANT FenceHolds
CHECK_DEADLOCK FALSE
