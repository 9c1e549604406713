CONSTANTS
    basis = basis  plus = plus  w1 = w1  w2 = w2  w3 = w3  q1 = q1  q2 = q2
    Plan = {basis, plus}
    DefaultCatalog <- Growing
    FirstPlan = basis
    FirstStatus = "active"
    HardCap = 2
    Watch = {w1, w2, w3}
    Request = {q1, q2}
    ForcedPlans = {}
    CatalogEdits <- NoEdits
    WatchMoves = {"paused"}
    MaxPeriod = 0
    None = None
SYMMETRY Swaps
SPECIFICATION Spec
INVARIANTS WatchesWithinPlan
