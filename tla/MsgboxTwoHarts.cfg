SPECIFICATION OrderedSpec
CONSTANTS
    Harts = {h0, h1}
    Messages <- MCMessages
    Keeps <- MCKeeps
    MSG_CAPACITY = 2
    MSG_STEER_CAPACITY = 1
    Ops = {"push", "pop", "compact", "init"}
    Inited0 = FALSE
INVARIANTS TypeOK BoxExclusion RingConsistent
PROPERTY Linearizable
