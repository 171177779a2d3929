SPECIFICATION FairSpec
CONSTANTS
    m1 = m1
    m2 = m2
    m3 = m3
    m4 = m4
    Messages = {m1, m2, m3, m4}
    NoMessage = NoMessage
    NoDecision = NoDecision
    NoNode = NoNode
    Kind <- ParcelAndOffer
    Week <- Weeks
    Related <- Parcel
    Supported = {m4}
    Verdicts <- MixedVerdicts
    Limit = 2
    Graph = {TRUE, FALSE}
    MaxMishaps = 1
INVARIANTS TypeOK WitnessStands ClosureFound
PROPERTIES ImplementsFilter EveryRowCompletes
CHECK_DEADLOCK FALSE
