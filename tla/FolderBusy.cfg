\* Two files, the beat alone in its process.
SPECIFICATION Spec
CONSTANTS
    Names = {n1, n2}
    Processes <- OneProcess
    Sweepers <- OneSweeper
    ProcessOf <- OneProcessOf
    PoolOf <- OnePoolOf
    Others = {}
    MaxDrops = 2
    MaxFaults = 0
    MaxDepth = 2
    None = None
PROPERTIES
    FolderServed
