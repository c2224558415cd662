\* Two programs, the owner and another agent, two channels, packages good and
\* bad; ramfs has room for all but the last file of an installation.
SPECIFICATION Spec
CONSTANTS
    RAMFS_MAX_FILES = 10
    RAMFS_FILE_SIZE = 4
    SysFiles <- MCSysFiles
    Names = {"worker", "tool"}
    Agents = {"1", "2"}
    Owner = "1"
    Channels = {"stable", "beta"}
    Stable = "stable"
    Indexes <- MCIndexes
    Packages <- MCPackages
    Versions <- MCVersions
    Seeds <- MCSeeds
    MAX_CALLS = 6
INVARIANTS CatalogInv RollbackRestores
PROPERTIES FailureKeepsProgram
CHECK_DEADLOCK FALSE
