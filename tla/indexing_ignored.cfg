CONSTANTS
    Parts = {"jobs"}
    Jobs = {j1, j2}
    MaxEdits = 0
    Repos = {"A", "B"}
    Files <- TheFiles
    Tree <- TreeOf
    Gitignore <- GitignoreOf
    Comment = "#"
    Patterns = {"*_gen.go", "a.go"}
    Matches <- Matching
    Excluded = {"a.git"}
    Supported = {"a.go", "a_gen.go", "b.go"}
    Sizes <- SizesOf
    BatchSize = 2
    MaxDelete = 2
    Versions = {"plain", "moved", "groups", "local", "broken", "gone"}
    Invalid = {"broken"}
    Text <- TextOf
    Decls <- DeclsOf
    MaxChanges = 3
    MaxRuns = 3
    Lines <- SampleLines
    MaxLines = 5
    MinSize = 2
    MaxSize = 4
SPECIFICATION PartsSpec
SYMMETRY JobSymmetry
CHECK_DEADLOCK FALSE
INVARIANTS
    IgnoredStaysOut
