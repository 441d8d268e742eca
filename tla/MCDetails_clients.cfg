\* Writers of every kind, a client of one post and a list, with a Redis that may fail.
CONSTANTS
    w1 = w1  w2 = w2  w3 = w3
    r1 = r1  r2 = r2
    Writer = {w1, w2, w3}
    KindOf <- MCKindOf
    Reader = {r1, r2}
    Single = {r1}
    TTL = 1
    FetchTicks = 1
    MaxVersion = 2
    RedisFails = TRUE
    None = None
    NoWriter = NoWriter
SPECIFICATION DetailSpec
INVARIANTS
    DetailTypeOK
    StaleOnlyByRace
    NotModifiedOnlyByRace
PROPERTIES
    BoundedStaleness
    EventuallyFresh
