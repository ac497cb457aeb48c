SPECIFICATION FairSpec
CONSTANTS
    None = None
    p1 = p1
    good = good
    ring = ring
    a = a
    b = b
    x1 = x1
    x3 = x3
    z1 = z1
    z2 = z2
    ringself = ringself
    Workers = {w1, w2}
    Parcels = {p1}
    Geoms = {good, ring}
    ReasonOf <- Why
    Points = {a, b}
    PointOf <- Inside
    Snapshots = {x1, x3}
    Torn = {x3}
    Invalid <- Polygons
    Around <- Contained
    InitGeom <- GoodFirst
    MaxRuns = 4
    MaxMoves = 2
    MaxFaults = 1
INVARIANTS
    OneZoningFlag
    ParcelFlagsExact
    ZoningFlagsComplete
PROPERTIES
    RepeatIsQuiet
    EveryRunEnds
CHECK_DEADLOCK FALSE
