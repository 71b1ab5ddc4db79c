\* A DEPOSIT while its recipient leaves, nothing fails.
SPECIFICATION Spec
CONSTANTS
    Alice = Alice
    Bob = Bob
    Carol = Carol
    NoCode = NoCode
    NoClient = NoClient
    i1 = i1
    i2 = i2
    w1 = w1
    w2 = w2
    Clients = {Alice, Bob}
    Tokens = {}
    MsgIds = {i1, i2}
    InitialRole <- AllJoined
    MaxUses = 1
    MaxPerRecipient = 0
    MessageTTL = 1
    InviteTTL = 1
    MaxTime = 0
    MaxStoreErrors = 0
    MaxWriteErrors = 0
    MaxCrashes = 0
    Workers = {w1, w2}
    Commands = {"DEPOSIT", "LEAVE"}
    SerialClients = FALSE
    Admins = {}
    AdminOps = {}
SYMMETRY Interchangeable
INVARIANT LeavePurges
