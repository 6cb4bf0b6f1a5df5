CONSTANTS
    Format = {"md", "txt", "docx", "xlsx", "csv", "other"}
    Line <- MCLine
    Title = {"A", "B"}
    MaxLines = 5
    Target = 3
    Ceiling = 4
    Overlap = 2
    NumCols = 4
    Parts = 12
    RowKind <- MCRowKind
    MaxRows = 3
    Layout <- MCLayout
    ScanRows = 25
    ProbeRows = 8
    MaxTables = 5
SPECIFICATION Spec
CHECK_DEADLOCK FALSE
INVARIANTS
    TypeOK
    
    RowsTellTheSheet
    TablesReadAsWritten
