\* An answer by the author and one by a watcher, sent and recalled in any order.
CONSTANTS
    dz = dz  u2 = u2  u3 = u3  k1 = k1  k2 = k2  k3 = k3
    User = {dz, u2, u3}
    Dz = dz
    Attention <- AllAttention
    Comment = {k2, k3}
    AuthorOf <- MCAuthorOf
    ReplyTo <- MCReplyTo
    FirstSettings <- MCFirstSettings
    Offered <- MCOffered
    MaxSet = 1
    NoUser = NoUser  NoSettings = NoSettings
SPECIFICATION MessageSpec
INVARIANTS
    MessageTypeOK
    RowsAreAudience
    WantedOnly
