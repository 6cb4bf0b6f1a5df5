CONSTANTS
    small = small
    large = large
    legacy = legacy
    NoModel = NoModel
    Model <- MCModel
    Weight <- MCWeight
    Shipped <- MCShipped
    LegacyPreset <- MCLegacyPreset
    NumSlots = 2
    KvTarget = {1}
    Ceiling = 5
    AutoStart = {0}
    Admin = {1}
SPECIFICATION Spec
INVARIANTS
    TypeOK
    
    
    

    
