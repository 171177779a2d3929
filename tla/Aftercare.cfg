SPECIFICATION Spec
CONSTANTS
    m1 = m1
    Messages = {m1}
    NoMessage = NoMessage
    NoCursor = NoCursor
    Delay = 1
    FinalLimit = 1
    InitialBoxes <- Mail
    UserGestures = {"read", "unlabel", "to inbox", "to trash"}
    MaxActs = 2
    MaxDay = 1
INVARIANTS LearnedBehindCursor RestoreHasCause
PROPERTY UndoneStays
