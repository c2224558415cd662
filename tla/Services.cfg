SPECIFICATION FairSpec
CONSTANTS
    Builds = {"v1", "edge", "router", "net", "net_prod", "console_orch", "console_session", "desktop"}
    Urls <- MCUrls
    CachePath <- MCCachePath
    BOX = 2
    PROD_QUOTA_MAX = 4
    MAX_POLLS = 2
    MAX_LINES <- MCLines
INVARIANTS ServicesInv AnswersRight
PROPERTIES CallReturns PipelineEnds ServicesStop
CHECK_DEADLOCK FALSE
