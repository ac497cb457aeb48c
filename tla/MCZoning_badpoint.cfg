SPECIFICATION Spec
CONSTANTS
    None = None
    Blank = Blank
    p1 = p1
    p2 = p2
    square = square
    el = el
    bowtie = bowtie
    sliver = sliver
    a = a
    b = b
    outside = outside
    r1 = r1
    r2 = r2
    x1 = x1
    x2 = x2
    x3 = x3
    Parcels = {p1}
    Geoms = {square, el, bowtie, sliver}
    Usable = {square, el, sliver}
    Points = {a, b, outside}
    PointOf <- TwoPoints
    Interior <- TwoInteriors
    Snapshots = {x1, x2, x3}
    Zonings = {r1, r2}
    Candidates <- ThreeSnapshots
    InitGeom <- SquareOnly
    InitPoints <- NoPoint
    InitFacts <- NoFacts
    MaxLoads = 2
    MaxMoves = 1
INVARIANTS
    BadPointHasNoFact
CHECK_DEADLOCK FALSE
