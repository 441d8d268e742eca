\* Users, a deleter, an undeleter and an administrator judge a post and a comment.
CONSTANTS
    u1 = u1  u2 = u2  d = d  e = e  a = a
    p = p  k = k
    h1 = h1  h2 = h2  nsfw = nsfw
    User = {u1, u2, d, e, a}
    Item = {p, k}
    Handler = {h1, h2}
    MaxReport = 3
    Fails = {"cache"}
    Asks <- MCAsks
    RoleOf <- MCRoleOf
    BanLimit <- MCBanLimit
    Parent <- MCParent
    Author <- MCAuthor
    Reason = {NoTag, nsfw}
    Tags = {nsfw}
    Threshold = 2
    NoTag = NoTag  NoTx = NoTx  NoRequest = NoRequest
SPECIFICATION Spec
SYMMETRY Alike
INVARIANTS
    TypeOK
    NoDuplicateReport
    ReplyNumMatches
    BansMatchLog
    LimitBounded
    LogExplainsState
    TwoFoldsTag
