\* One mailbox with room for one message, three connections and one failed store
\* call.
SPECIFICATION Spec
CONSTANTS
    Alice = Alice
    Bob = Bob
    Carol = Carol
    NoCode = NoCode
    NoClient = NoClient
    i1 = i1
    i2 = i2
    i3 = i3
    w1 = w1
    w2 = w2
    w3 = w3
    Clients = {Alice}
    Tokens = {}
    MsgIds = {i1, i2, i3}
    InitialRole <- AllJoined
    MaxUses = 1
    MaxPerRecipient = 1
    MessageTTL = 1
    InviteTTL = 1
    MaxTime = 0
    MaxStoreErrors = 1
    MaxWriteErrors = 0
    MaxCrashes = 0
    Workers = {w1, w2, w3}
    Commands = {"DEPOSIT", "FETCH", "LIST", "PING"}
    SerialClients = FALSE
    Admins = {}
    AdminOps = {}
SYMMETRY Interchangeable
INVARIANT QuotaOvershoot
INVARIANT DeliveredIsGone
INVARIANT DeliveriesBounded
INVARIANT FetchedMailArrives
