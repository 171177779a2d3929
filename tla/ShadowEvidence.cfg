SPECIFICATION Spec
CONSTANTS
    m1 = m1
    m2 = m2
    Messages = {m1, m2}
    NoMessage = NoMessage
    Limit = 1
    Family <- TwoFamilies
    CleanupFamilies = {"advertising"}
    ReadQuery <- FoundWhenRead
    Signals <- AlertAndClear
    Policies = {"p1", "p2"}
    Settings <- EvidenceSettings
    Vocabulary <- EvidenceVocabulary
    InitialBoxes <- ReadOrFresh
    MaxFaults = 0
    MaxMarkerFaults = 1
    MaxActs = 1
INVARIANTS InFlightJustified MarkerNotForgotten HighThreatOnlyByProof
