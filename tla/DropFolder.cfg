\* Two files, the beat and two people who pick up now, one fault.
SPECIFICATION Spec
CONSTANTS
    Names = {n1, n2}
    Processes <- MCProcesses
    Sweepers <- MCSweepers
    ProcessOf <- MCProcessOf
    PoolOf <- MCPoolOf
    Others = {"api"}
    MaxDrops = 2
    MaxFaults = 1
    MaxDepth = 2
    None = None
INVARIANTS
    TypeOK
    OneSweepAtATime
    TakenOnce
    NoneLost
