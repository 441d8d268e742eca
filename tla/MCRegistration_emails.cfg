\* Registrations of a new user and of one of the v2 site, with an unregistration and
\* a change of the password, by key keepers that may be missing.
CONSTANTS
    e1 = e1  e2 = e2  c1 = c1  c2 = c2  d1 = d1  x1 = x1
    p1 = p1  p2 = p2
    Email = {e1, e2}
    OldUser = {e2}
    OldId <- MCOldId
    OldSuper <- MCOldSuper
    Creator = {c1, c2}
    Deleter = {d1}
    Changer = {x1}
    Asks <- MCAsks
    Password = {p1, p2}
    Misconfigures = TRUE
    MaxId = 5
    NoTx = NoTx  NoEmail = NoEmail  NoPassword = NoPassword
SPECIFICATION Spec
SYMMETRY Alike
INVARIANTS
    TypeOK
    EmailsMatchUsers
    OneAccountPerEmail
    EmailsDecryptable
