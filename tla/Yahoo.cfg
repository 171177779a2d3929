SPECIFICATION FairSpec
CONSTANTS
    m1 = m1
    m2 = m2
    m3 = m3
    Messages = {m1, m2, m3}
    Junk = {m1, m3}
    Threats = {m2}
    Unreadable = {m2}
    Nameless = {m3}
    QuarantineValidity = 1
    SyncLimit = 1
    Limit = 1
    Destinations = {"quarantine"}
    MaxEvents = 4
INVARIANTS TypeOK NamesAreTrue MoveHitsJudged LearnedBehindCursor
PROPERTY RestoreIsLearned
CHECK_DEADLOCK FALSE
