\* The response of a FETCH does not reach the client.
SPECIFICATION Spec
CONSTANTS
    Alice = Alice
    Bob = Bob
    Carol = Carol
    NoCode = NoCode
    NoClient = NoClient
    i1 = i1
    w1 = w1
    w2 = w2
    Clients = {Alice, Bob}
    Tokens = {}
    MsgIds = {i1}
    InitialRole <- AllJoined
    MaxUses = 1
    MaxPerRecipient = 0
    MessageTTL = 1
    InviteTTL = 1
    MaxTime = 0
    MaxStoreErrors = 0
    MaxWriteErrors = 1
    MaxCrashes = 0
    Workers = {w1, w2}
    Commands = {"DEPOSIT", "FETCH"}
    SerialClients = FALSE
    Admins = {}
    AdminOps = {}
SYMMETRY Interchangeable
INVARIANT FetchedMailArrives
