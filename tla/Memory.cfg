SPECIFICATION Spec
CONSTANTS
    Agents = {1, 2}
    HEAP_SIZE = 24
    PAGE = 2
    STACK = 4
    PT_PAGES = 8
    HEAP_PAGES = 2
    PAGE_BYTES = 2
    Programs <- MCPrograms
    Values = {1}
    MAX_STEPS = 5
INVARIANTS MemoryInv CowPrivate LoadedImage
PROPERTIES FaultMended
CHECK_DEADLOCK FALSE
