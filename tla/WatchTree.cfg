CONSTANTS
    Debounce = 2
    ScanInterval = 4
    MaxPass = 2
    MaxVersion = 2
    MaxManuals = 1
    MaxFails = 1
    MaxKills = 1
    MaxWait = 7
    Observers = {"sound", "lossy"}
SPECIFICATION Spec
INVARIANTS
    NoLostWakeup
    BoundedStaleness
PROPERTIES
    Settles
    EventPassesStop
