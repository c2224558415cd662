SPECIFICATION FairSpec
CONSTANTS
    Drivers <- MCDrivers
    VQ_SIZE = 2
    IDX_MOD = 4
    MAX_CALLS = 5
    MAX_OWED = 3
    MAX_FRAMES = 4
    MAX_EVENTS = 6
INVARIANTS VirtioInv OwnAnswer
PROPERTIES CallReturns KeepsReceiving
CHECK_DEADLOCK FALSE
