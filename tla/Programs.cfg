SPECIFICATION ProgSpec
CONSTANTS
    Inputs <- MCInputs
    Readers = {"cat", "wc"}
    Writers = {"cat", "echo"}
    WriteLen = 2
    PipeSize = 1
    MaxArgs = 3
    MAX_THREADS = 4
    Functions = {"f", "g"}
    Limit = 23
    Capacity = 1
    MaxProcs = 11
    Requests = {1, 2, 3}
    MoreUnits = 4
    HeapLimit = 12
INVARIANTS Wired ThreadsSound SieveSound HeapTiled FoundExactly
PROPERTIES PromptReturns Terminates
CHECK_DEADLOCK FALSE
