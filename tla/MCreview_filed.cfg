CONSTANTS
    a = a  b = b  q1 = q1  q2 = q2
    Request = {q1}
    Match = {a}
    Deadline <- Deadlines
    TicksPerDay = 2
    Decisions = {"opposition_filed"}
    MaxTime = 2
    MaxNotes = 0
    None = None
SPECIFICATION ReviewSpec
PROPERTIES FiledNotExpired
