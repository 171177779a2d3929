SPECIFICATION Spec
CONSTANTS
    m1 = m1
    m2 = m2
    Messages = {m1, m2}
    NoMessage = NoMessage
    Limit = 1
    Family <- OneFamily
    CleanupFamilies = {"advertising"}
    ReadQuery <- FoundWhenRead
    Signals <- WeakAndClear
    Policies = {"p1", "p2"}
    Settings <- SafetySettings
    Vocabulary <- SafetyVocabulary
    InitialBoxes <- FreshMail
    MaxFaults = 1
    MaxMarkerFaults = 0
    MaxActs = 1
INVARIANTS TypeOK CompleteMeansFinished CorrectionWins MovesAccounted
PROPERTY ImplementsCleanup
