CONSTANTS
    Slots <- MCSlots
    Services <- MCServices
    Backend = {"rag", "placement", "host-control"}
    Probed = {"rag", "placement"}
    SlotTries = 2
    HealTries = 2
    EndTries = 1
    MaxFaults = 2
SPECIFICATION Spec
INVARIANTS
    
    OneAllocation
PROPERTIES
    CommandEnds
