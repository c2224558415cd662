SPECIFICATION FairSpec
CONSTANTS
    MAX_AGENTS = 4
    NCPU = 1
    Started <- OneService
    Ops = {"exit", "send", "recv", "create", "destroy"}
    Spawners <- AllSlots
    SendsEarly = TRUE
    INBOX_CAPACITY = 2
    MAX_SENDS = 2
    MAX_PROGS = 5
INVARIANTS OwnContext GoneNeverRuns
PROPERTIES QueueFair
CHECK_DEADLOCK FALSE
