\* A comment with two messages, both of which are pushed.
CONSTANTS
    dz = dz  u2 = u2  u3 = u3  k1 = k1  k2 = k2  k3 = k3
    User = {dz, u2, u3}
    Dz = dz
    Attention <- MCAttention
    Comment = {k1}
    AuthorOf <- MCAuthorOf
    ReplyTo <- MCReplyTo
    FirstSettings <- MCFirstSettings
    Offered <- MCOffered
    MaxSet = 0
    NoUser = NoUser  NoSettings = NoSettings
SPECIFICATION MessageSpec
INVARIANTS
    RightMessage
