SPECIFICATION Spec
CONSTANTS
    none = none
    Nothing = none
    Command <- MCCommand
    File <- MCFile
    Build <- MCBuild
    Attempt <- MCAttempt
    Links <- MCLinks
    Contents <- MCContents
    Installer = {"i"}
    MaxScans = 2
    MaxChanges = 2
    MaxRemovals = 1
INVARIANTS
    CompilersTypeOK
    RunsAsNamed
    StoreReadable
    NoSecondPackage
    ScanComplete
CHECK_DEADLOCK FALSE
