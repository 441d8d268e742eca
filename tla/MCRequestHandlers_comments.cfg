\* Comments with pictures: their context is cancelled with the transaction.
CONSTANTS
    k1 = k1  k2 = k2
    Request = {k1, k2}
    Kind <- CommentsKind
    Telegram = TRUE
    WaitTicks = 2
    NoRequest = NoRequest
SPECIFICATION Spec
PROPERTIES
    CommentsWait
