CONSTANTS
    p1 = p1
    p2 = p2
    Publishers = {p1, p2}
    NoPublisher = NoPublisher
    g1 = g1
    g2 = g2
    Ids = {g1, g2}
    NoId = NoId
    b1 = b1
    b2 = b2
    Bytes = {b1, b2}
    NoBytes = NoBytes
    StrayAfterCompare = FALSE
    MaxPublications = 4
    MaxDeaths = 2
    MaxStrays = 1
    MaxRenameErrors = 1
SPECIFICATION PublisherSpec
SYMMETRY Symmetry
INVARIANTS PointerIsExact RaisesForAReason PublishesOwnBytes
CHECK_DEADLOCK FALSE
