\* Clients on one connection at a time, who ask again when a shutdown has cut them
\* off or has closed the store under their request; messages may expire.
SPECIFICATION Spec
CONSTANTS
    Alice = Alice
    Bob = Bob
    Carol = Carol
    NoCode = NoCode
    NoClient = NoClient
    i1 = i1
    i2 = i2
    t1 = t1
    w1 = w1
    w2 = w2
    Clients = {Alice, Bob}
    Tokens = {t1}
    MsgIds = {i1, i2}
    InitialRole <- AliceOwns
    MaxUses = 1
    MaxPerRecipient = 0
    MessageTTL = 1
    InviteTTL = 1
    MaxTime = 1
    MaxStoreErrors = 0
    MaxWriteErrors = 0
    MaxCrashes = 1
    Workers = {w1, w2}
    Commands = {"JOIN", "INVITE_REQ", "LEAVE", "DEPOSIT", "FETCH"}
    SerialClients = TRUE
    Admins = {}
    AdminOps = {}
SYMMETRY Interchangeable
INVARIANT NoUseLost
INVARIANT JoinIdempotent
INVARIANT DeliveredOnce
PROPERTY ImplementsMailDrop
