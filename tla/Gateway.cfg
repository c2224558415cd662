\* An application and a storage service sharing ramfs, and up to six calls.
SPECIFICATION Spec
CONSTANTS
    app = app  svc = svc
    RAMFS_MAX_FILES = 7
    RAMFS_FILE_SIZE = 10
    SysFiles <- MCSysFiles
    TENANT_SESSION_QUOTA = 8
    SUMMARY_MAX = 3
    NL = "nl"  SEMI = ";"  SUMMARY = "summary:"
    AUDIT_QUOTA_BYTES = 3
    AUDIT_KEEP = 1
    AUDIT_KEEP_MAX = 2
    POLICY_DENY_MAX = 2
    POLICY_NET_ALLOW_MAX = 1
    SeedPolicy <- MCSeedPolicy
    Agents = {app, svc}
    Caps <- MCCaps
    InitAgent = app
    DisplayAgent = svc
    QUOTA_IPC_MAX = 2
    QUOTA_TOOL_MAX = 4
    QUOTA_FS_FILES = 1
    NAMESPACE_HOME_QUOTA = 2
    MSG_CAPACITY = 1
    Contents <- MCContents
    Texts <- MCTexts
    UserPaths <- MCUserPaths
    DeviceCalls <- MCDeviceCalls
    RuledTools <- MCRuledTools
    Packages <- MCPackages
    Entries <- MCEntries
    Mixes <- MCMixes
INVARIANTS GatewayInv AuditTrail PolicyInForce
PROPERTIES QuotasBind OwnFilesOnly
CHECK_DEADLOCK FALSE
