\* Comments, attentions and votes of three users.
CONSTANTS
    dz = dz  u1 = u1  u2 = u2  h1 = h1  h2 = h2
    User = {dz, u1, u2}
    Dz = dz
    Viewer = {dz}
    Option = {"yes"}
    Handler = {h1, h2}
    Asks <- MCAsks
    MaxComment = 3
    MaxDrift = 2
    Words = 1
    Extra = Extra
    NoTx = NoTx  NoRequest = NoRequest
SPECIFICATION Spec
SYMMETRY Newcomers
INVARIANTS
    TypeOK
    NamesIdentify
    CountersMatch
    VotesCounted
