CONSTANTS
    r1 = r1  r2 = r2  r3 = r3  w1 = w1  w2 = w2  c1 = c1  c2 = c2
    v1 = v1  v2 = v2  v3 = v3  o1 = o1  o2 = o2  j1 = j1  j2 = j2
    None = None
    Register = {r1, r2, r3}
    Connected = {r1, r2}
    Watch = {w1, w2}
    Cand = {c1, c2}
    Version = {v1, v2}
    Org = {o1, o2}
    Job = {j1}
    WatchRegister <- FarWatch
    WatchOrg <- OwnOrg
    CandRegister <- SplitCand
    Content <- ShiftingContent
    Invalid <- BadSecond
    MustMatch <- OfOthers
    MayMatch <- OfSecond
    TicksPerDay = 1
    MaxPages = 2
    MaxFeed = 1
    MaxRuns = 2
    MaxTime = 0
    WatchMoves = {"active"}
    Eligible = {w1, w2}
    Decisions = {}
SPECIFICATION FairSpec
PROPERTIES
    SyncReachesEveryRegister
