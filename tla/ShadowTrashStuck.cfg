SPECIFICATION FairSpec
CONSTANTS
    m1 = m1
    m2 = m2
    Messages = {m1, m2}
    NoMessage = NoMessage
    Limit = 1
    Family <- OneFamily
    CleanupFamilies = {"advertising"}
    ReadQuery <- FoundWhenRead
    Signals <- WeakAndClear
    Policies = {"p1"}
    Settings <- TrashSchedule
    Vocabulary <- SafetyVocabulary
    InitialBoxes <- FreshMail
    MaxFaults = 0
    MaxMarkerFaults = 0
    MaxActs = 1
PROPERTY PendingSettles
