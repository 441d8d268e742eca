\* Two connections of one token, that replace each other, and two requests.
CONSTANTS
    t1 = t1
    c1 = c1  c2 = c2
    r1 = r1  r2 = r2
    Token = {t1}
    Client = {c1, c2}
    TokenOf <- TwoTokenOf
    Request = {r1, r2}
    Devices <- TwoRequests
    NoClient = NoClient
SPECIFICATION Spec
INVARIANTS
    TypeOK
    ChannelClosedOnce
    TargetStaysRegistered
PROPERTIES
    RequestsEnd
    GoroutinesEnd
    DeadClientsLeave
