SPECIFICATION Spec
CONSTANTS
    None = None
    Blank = Blank
    BadDate = BadDate
    p1 = p1
    p2 = p2
    a1 = a1
    a2 = a2
    quoted = quoted
    blanks = blanks
    x1 = x1
    x2 = x2
    x3 = x3
    x4 = x4
    Parcels = {p1, p2}
    Apns = {a1, a2}
    RawApns = {a1, a2, quoted, blanks}
    Canon <- Spelled
    Dates = {1, 2, 3}
    Snapshots = {x1, x2, x3, x4}
    Export <- Exports
    InitApn <- OneEach
    InitFacts <- OldFacts
    MaxLoads = 4
    MaxMoves = 2
INVARIANTS
    FactsMatchExport
    LostIsOpen
PROPERTIES
    NeverRetired
    RerunIsQuiet
CHECK_DEADLOCK FALSE
