SPECIFICATION Spec
CONSTANTS
    None = None
    Torn = Torn
    p1 = p1
    p2 = p2
    parcels = parcels
    zoning = zoning
    permits = permits
    file1 = file1
    file2 = file2
    file3 = file3
    file4 = file4
    Fetchers = {p1, p2}
    Sources = {parcels, zoning, permits}
    Owned <- NoPack
    Checked = {parcels, zoning}
    SourceOf <- OneSource
    Bodies = {b1, b2}
    Files = {file1, file2}
    Path <- OneDisk
    MaxRuns = 4
    MaxFaults = 0
INVARIANTS
    RowsHaveBytes
CHECK_DEADLOCK FALSE
