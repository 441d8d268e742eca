\* Two logins at a time and everything that ends a device, and a lookup.
CONSTANTS
    t1 = t1  t2 = t2  t3 = t3
    l1 = l1  l2 = l2  x1 = x1  r1 = r1
    Token = {t1, t2, t3}
    MaxDevices = 1
    Login = {l1, l2}
    Terminator = {x1}
    Reader = {r1}
    TTL = 1
    FetchTicks = 1
    MaxFailures = 1
    None = None
SPECIFICATION Spec
SYMMETRY Alike
CONSTRAINT Apart
INVARIANTS
    TypeOK
    DevicesBounded
    OldSessionsBounded
    RevokedInTime
