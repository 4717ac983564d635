SPECIFICATION Spec
CONSTANTS
    Paths = {"a", "b", "lib"}
    Binary = {"lib"}
    Names = {"a", "b", "up", "lib"}
    Absolute = {"b"}
    Dirs = {"main", "sub"}
    Cwd = "main"
    DirOf <- MCDirOf
    Resolve <- MCResolve
    NoPath = "no such file"
    FramesMax = 3
    MaxTries = 1
    MaxChunks = 3
INVARIANTS
    CodeResumesWhereItWas
    OneValuePerPath
    CalledCodeIsAlive
