\* A post, a comment and a report, and the superusers' shutdown.
CONSTANTS
    p1 = p1  k1 = k1  e1 = e1
    c1 = c1  c2 = c2  c3 = c3  c4 = c4
    Request = {p1, k1, e1}
    Command = {c1, c2, c3}
    Kind <- MixedKind
    Telegram = TRUE
    WaitTicks = 1
    NoRequest = NoRequest
SPECIFICATION ServiceSpec
INVARIANTS
    ServiceTypeOK
    ExitNeedsThree
PROPERTIES
    NoFalseTimeout
    RequestsEnd
