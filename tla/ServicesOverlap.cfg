SPECIFICATION FairSpec
CONSTANTS
    Builds = {"storage2"}
    Urls <- MCUrls
    CachePath <- MCCachePath
    BOX = 2
    PROD_QUOTA_MAX = 4
    MAX_POLLS = 2
    MAX_LINES <- MCLines
INVARIANT ReadBack
CHECK_DEADLOCK FALSE
