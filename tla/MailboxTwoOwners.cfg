\* Two clients JOIN a new mailbox, nothing fails.
SPECIFICATION Spec
CONSTANTS
    Alice = Alice
    Bob = Bob
    Carol = Carol
    NoCode = NoCode
    NoClient = NoClient
    a1 = a1
    t1 = t1
    t2 = t2
    w1 = w1
    w2 = w2
    Clients = {Alice, Bob}
    Tokens = {t1, t2}
    MsgIds = {}
    InitialRole <- NewMailbox
    MaxUses = 1
    MaxPerRecipient = 0
    MessageTTL = 1
    InviteTTL = 1
    MaxTime = 0
    MaxStoreErrors = 0
    MaxWriteErrors = 0
    MaxCrashes = 0
    Workers = {w1, w2}
    Commands = {"JOIN"}
    SerialClients = FALSE
    Admins = {a1}
    AdminOps = {"init"}
SYMMETRY Interchangeable
INVARIANT SingleOwner
