CONSTANTS
    founder = founder  jurist = jurist  m1 = m1  m2 = m2  m3 = m3  operator = operator
    t1 = t1  t2 = t2  u1 = u1  u2 = u2
    w1 = w1  w2 = w2  w3 = w3  r1 = r1  r2 = r2
    a = a  q1 = q1  q2 = q2
    Member = {founder, jurist, m1, m2, m3}
    Founder = founder
    FirstJurist = jurist
    Outsider = operator
    NoRole = NoRole
    Tenants = {t1, t2}
    Users = {u1, u2}
    Operators = {u2, operator}
    ChatTenants = {t1, t2}
    MaxThreads = 2
    MaxMessages = 4
    MaxNotices = 2
    Watched = {w1}
    Addresses = {r1, r2}
    Writers = {q1, q2}
    WatchScore = 1
    Scores = {1, 2}
    NewRecipients <- RecipientsAdded
    RecipientPatches <- RecipientEdits
    Seats = 1
    Moves = {"active", "paused"}
    Request = {q1, q2}
    Match = {a}
    Deadline <- Deadlines
    TicksPerDay = 2
    Decisions = {"new", "opposition_filed"}
    MaxTime = 2
    MaxNotes = 2
    None = None
    Customers = {t1, t2}
    Staff = {u1, u2}
    Others = {operator}
    Desk = {q1, q2}
    MaxChanges = 2
    AuditShown = 1
    MaxVersion = 2
    Searchable = {"boip", "euipo"}
    Preselected = "boip"
    Classes = {9}
    Preferred = {9}
    MaxAsked = 2
    Numbers = {"n1", "n2"}
    Conversation = {t1, t2}
    MaxSaid = 3
    Field = {"first", "second"}
    Content = {"blank", "filled"}
    Blank = "blank"
    Tickable = {w1, w2, w3}
SPECIFICATION Spec
CHECK_DEADLOCK FALSE
INVARIANTS
    OrganizationTypeOK
    AdminRemains
    ActsAttributed
    ScreenIsCurrent
    SentIsShown
    MadeAsShown
PROPERTIES
    OwnerLeavesOnly
    SettingsKept
    DecisionsGrounded
    AnnotationsKept
    DraftsKept
