\* Two users report a post and its comment.
CONSTANTS
    u1 = u1  u2 = u2  d = d  e = e  a = a
    p = p  k = k
    h1 = h1  h2 = h2  nsfw = nsfw
    User = {u1, u2}
    Item = {p, k}
    Handler = {h1, h2}
    MaxReport = 3
    Fails = {}
    Asks <- MCAsks
    RoleOf <- MCRoleOf
    BanLimit <- MCBanLimit
    Parent <- MCParent
    Author <- MCAuthor
    Reason = {NoTag, nsfw}
    Tags = {nsfw}
    Threshold = 2
    NoTag = NoTag  NoTx = NoTx  NoRequest = NoRequest
SPECIFICATION Spec
INVARIANT DeletedByOwnReports
