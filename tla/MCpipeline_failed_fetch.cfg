CONSTANTS
    r1 = r1  r2 = r2  r3 = r3  w1 = w1  w2 = w2  c1 = c1  c2 = c2
    v1 = v1  v2 = v2  v3 = v3  o1 = o1  o2 = o2  j1 = j1  j2 = j2
    None = None
    Register = {r1}
    Connected = {r1}
    Watch = {w1}
    Cand = {c1}
    Version = {v1, v2}
    Org = {o1}
    Job = {j1}
    WatchRegister <- AllOnR1Watch
    WatchOrg <- OwnOrg
    CandRegister <- AllOnR1Cand
    Content <- ShiftingContent
    Invalid <- Nothing
    MustMatch <- OfOthers
    MayMatch <- OfSecond
    TicksPerDay = 1
    MaxPages = 2
    MaxFeed = 3
    MaxRuns = 3
    MaxTime = 0
    WatchMoves = {"active", "paused"}
    Eligible = {w1}
    Decisions = {"dismissed"}
SPECIFICATION Spec
PROPERTIES FailedSyncStillMatches
