\* Two user files on a device that is blank, AOS1 or AOS2 at the first boot.
SPECIFICATION Spec
CONSTANTS
    a = a  b = b  c = c  x = x  y = y  z = z  sysv = sysv
    RAMFS_MAX_FILES = 3
    RAMFS_FILE_SIZE = 3
    DiskSectors = 8
    SysFiles <- MCSysFiles
    Paths <- MCPaths2
    Contents <- MCContents
    FirstImages <- MCImages
    MAX_WRITES = 3
    MAX_SYNCS = 2
    MAX_BOOTS = 3
INVARIANTS PersistInv RestoresLastSync
PROPERTIES SuperLast
CHECK_DEADLOCK FALSE
