\* Two requests for a code and two tries at a time.
CONSTANTS
    k1 = k1  k2 = k2  s1 = s1  s2 = s2  t1 = t1  t2 = t2
    Code = {k1, k2}
    NoCode = NoCode
    Sender = {s1, s2}
    Try = {t1, t2}
    Window = 1  Promise = 2  Expiry = 3
    MaxFailed = 2  FailedCap = 4
SPECIFICATION Spec
INVARIANTS
    TypeOK
    AcceptedWasMailed
PROPERTIES
    LockoutEnds
