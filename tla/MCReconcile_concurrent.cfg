SPECIFICATION Spec
CONSTANTS
    None = None
    f1 = f1
    f2 = f2
    a1 = a1
    a2 = a2
    blank = blank
    placeholder = placeholder
    g1 = g1
    g2 = g2
    point = point
    s1 = s1
    s2 = s2
    s3 = s3
    s4 = s4
    Loaders = {l1, l2}
    Features <- ConcurrentFeatures
    Apns = {a1, a2}
    BadApns = {blank, placeholder}
    EmptyApns = {blank}
    GoodGeoms = {g1, g2}
    BadGeoms = {point}
    Snapshots <- ConcurrentSnapshots
    Content <- ConcurrentContent
    Stored <- ConcurrentStored
    MaxFetches = 0
    MaxLoads = 4
    MaxFaults = 1
INVARIANTS
    Provenance
PROPERTIES
    HistoryKept
    TerminalJobsStay
CHECK_DEADLOCK FALSE
