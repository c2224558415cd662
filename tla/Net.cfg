SPECIFICATION FairSpec
CONSTANTS
    Hosts <- MCHosts
    Addr <- MCAddr
    Local <- MCLocal
    Gw = "ipgw"
    Servers <- MCServers
    Doh = "ipdns"
    Fake = "fake"
    Owner <- MCOwner
    Units = 3
    RX_SIZE = 1
    Literals <- MCLiterals
    LlmHost = "llm"
    Plans <- MCPlans
    BUF = 2
INVARIANTS NetInv AnswerRight ConnectionReleased
PROPERTIES CallReturns
CHECK_DEADLOCK FALSE
