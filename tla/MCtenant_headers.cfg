CONSTANTS
    a1 = a1
    a2 = a2
    f1 = f1
    f2 = f2
    s1 = s1
    p1 = p1
    boip = boip
    other = other
    o1 = o1
    o2 = o2
    q1 = q1
    q2 = q2
    u1 = u1
    u2 = u2
    x = x
    y = y
    h1 = h1
    Assessors = {a1, a2}
    Scopes = {s1}
    PairKeys = {p1}
    Configured = TRUE
    Limit = 2
    MaxCost = 1
    CacheTtl = 1
    MonthLength = 3
    MaxHours = 4
    Fetchers = {f1, f2}
    Lifetimes = {2, 4}
    Margin = 2
    MaxSeconds = 7
    Ways = {"live", "delta", "indexed", "counted", "whole"}
    Days = {1, 2, 3, 4}
    PageSize = 2
    Faults = 1
    Registers = {boip, other}
    Boip = boip
    Organizations <- MCOrganizations
    Requests = {q1, q2}
    CatalogPatches <- MCPatches
    MaxJobs = 1
    MaxTrail = 2
    Users = {u1, u2}
    Tenants = {x, y}
    Seed = u1
    DemoRows <- MCDemoRows
    Hooks = {h1}
    NoOne = NoOne
    Components = {"text", "nice"}
    DefaultWeights <- MCDefaultWeights
    Publishable <- MCPublishable
    Shares = {0, 55, 140}
    Opinions <- MCOpinions
    Scorings = {p1}
    MaxProfiles = 3
    Letters = {"c", "k", "s"}
    MaxLetters = 3
    SignShares = {0, 79, 90}
    MarkClasses = {{}, {25}, {35}}
    GoodsTerms = {"g", "h"}
    MarkTokens = {"t"}
    Prices = {0, 1, 2, 3, 4, 5, 6, 7, 8, 9, 10, 11, 12, 13, 50, 149, 250, 4900, 14900, 123456}
    MaxLines = 3
    Openings <- MCOpenings
    MomentsADay = 2
    DaysWalked = 95
    Payers = {o1}
    Orderable = {boip, other}
    Searched = boip
    ScopeLists <- ScopesOrdered
    CatalogEntries <- CatalogEdits
    FirstPrice = 1
    FreeCredits = 1
    HitsFound = 1
    MaxInvoices = 2
    MaxOrders = 1
    MaxSessions = 2
    MaxCheckouts = 1
SPECIFICATION Spec
CHECK_DEADLOCK FALSE
INVARIANTS
    ActorIsUser
