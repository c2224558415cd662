SPECIFICATION OrderedSpec
CONSTANTS
    MAX_AGENTS = 4
    NCPU = 2
    Started <- NoServices
    Ops = {"exit", "send", "recv", "create"}
    Spawners <- InitOnly
    SendsEarly = FALSE
    INBOX_CAPACITY = 1
    MAX_SENDS = 1
    MAX_PROGS = 6
INVARIANTS TypeOK NoDoubleRun LockExclusion RunnableQueued
CHECK_DEADLOCK FALSE
