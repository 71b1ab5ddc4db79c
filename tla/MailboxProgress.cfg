\* Two connections, one message, one failed store call, and the expiry ticker,
\* under the fairness of goroutines.  No symmetry: liveness is checked.
SPECIFICATION FairSpec
CONSTANTS
    Alice = Alice
    Bob = Bob
    Carol = Carol
    NoCode = NoCode
    NoClient = NoClient
    i1 = i1
    w1 = w1
    w2 = w2
    Clients = {Alice, Bob}
    Tokens = {}
    MsgIds = {i1}
    InitialRole <- AllJoined
    MaxUses = 1
    MaxPerRecipient = 0
    MessageTTL = 1
    InviteTTL = 1
    MaxTime = 1
    MaxStoreErrors = 1
    MaxWriteErrors = 1
    MaxCrashes = 0
    Workers = {w1, w2}
    Commands = {"DEPOSIT", "FETCH", "LEAVE"}
    SerialClients = FALSE
    Admins = {}
    AdminOps = {}
PROPERTY ConnectionsEnd
PROPERTY ExpiredMailSwept
PROPERTY NoSilentLoss
