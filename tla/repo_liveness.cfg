CONSTANTS
    upload = upload
    local = local
    inner = inner
    uploadDir = uploadDir
    outerDir = outerDir
    innerDir = innerDir
    zipped = zipped
    upper = upper
    lower = lower
    Repos = {upload}
    Paths = {uploadDir}
    Managed = {upload}
    NoRepo = NoRepo
    Calls = {c1}
    Jobs = {j1, j2}
    Files = {zipped}
    MaxDelete = 1
    MaxFaults = 1
    MaxCrashes = 1
    Deadline = TRUE
    PathOf <- Directories
    FilesIn <- Walks
    Under <- Contents
CHECK_DEADLOCK FALSE
SPECIFICATION FairSpec
PROPERTIES
    Settles
