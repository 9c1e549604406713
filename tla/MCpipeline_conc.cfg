CONSTANTS
    r1 = r1  r2 = r2  r3 = r3  w1 = w1  w2 = w2  c1 = c1  c2 = c2
    v1 = v1  v2 = v2  v3 = v3  o1 = o1  o2 = o2  j1 = j1  j2 = j2
    None = None
    Register = {r1, r3}
    Connected = {r1}
    Watch = {w1, w2}
    Cand = {c1}
    Version = {v1, v2}
    Org = {o1, o2}
    Job = {j1, j2}
    WatchRegister <- FarWatch
    WatchOrg <- OwnOrg
    CandRegister <- AllOnR1Cand
    Content <- ExtendingContent
    Invalid <- Nothing
    MustMatch <- Nothing
    MayMatch <- OfOthers
    TicksPerDay = 1
    MaxPages = 2
    MaxFeed = 2
    MaxRuns = 2
    MaxTime = 1
    WatchMoves = {"active"}
    Eligible = {w1, w2}
    Decisions = {"dismissed"}
SYMMETRY Slots
SPECIFICATION Spec
INVARIANTS
    TypeOK
    StoreFollowsLog
    RunsAccounted
    MatchesGrounded
PROPERTIES
    ReviewKept
    DispatchesOnce
CONSTRAINTS
    NearSynced
    FarFirst
