SPECIFICATION FairSpec
CONSTANTS
    Limit = 1
    ChunkSize = 1
    Fresh = 1
    Unclassifiable = 0
    MaxRecords = 2
    FirstRecords = 1
    Questions = 2
    MaxRuns = 2
    MaxMishaps = 1
    Unlimited = {"desktop"}
INVARIANTS TypeOK ReceiptsNeverUnderstate NoRecordLost ForcedWasAsked AtMostOneAhead
PROPERTIES ScanEnds CancelEnds PanelCatchesUp
CHECK_DEADLOCK FALSE
