CONSTANTS
    upload = upload
    local = local
    inner = inner
    uploadDir = uploadDir
    outerDir = outerDir
    innerDir = innerDir
    zipped = zipped
    upper = upper
    lower = lower
    Repos = {upload, local, inner}
    Paths = {uploadDir, outerDir, innerDir}
    Managed = {upload}
    NoRepo = NoRepo
    Calls = {c1, c2}
    Jobs = {j1, j2}
    Files = {zipped, upper, lower}
    MaxDelete = 1
    MaxFaults = 1
    MaxCrashes = 1
    Deadline = TRUE
    PathOf <- Directories
    FilesIn <- Walks
    Under <- Contents
CHECK_DEADLOCK FALSE
SPECIFICATION Spec
ACTION_CONSTRAINT Bound
SYMMETRY Symmetry
INVARIANTS
    TypeOK
    NoStuck
    SettledStaysGone
    NoOrphanDirs
    CompleteIndexed
PROPERTIES
    ImplementsCatalog
    ChunksKept
