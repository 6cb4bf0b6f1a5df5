CONSTANTS
    Host = {"node-03"}
    ReadTool = {"search"}
    MaxTurns = 2
    MaxRounds = 2
    Parallel = 2
    Keep = 2
SPECIFICATION Spec
CHECK_DEADLOCK FALSE
INVARIANTS
    EveryCallAnswered
    OldestElided
    OneRebootPerApproval
    
PROPERTIES
    HistoryKept
