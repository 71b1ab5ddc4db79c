\* A new database with two clients, two tokens and one administrator's session:
\* bootstrap, invites, joins, departures, removals, with one failed store call.
\* Mail has no bearing on these properties and is switched off.
SPECIFICATION Spec
CONSTANTS
    Alice = Alice
    Bob = Bob
    Carol = Carol
    NoCode = NoCode
    NoClient = NoClient
    a1 = a1
    t1 = t1
    t2 = t2
    w1 = w1
    w2 = w2
    Clients = {Alice, Bob}
    Tokens = {t1, t2}
    MsgIds = {}
    InitialRole <- NewMailbox
    MaxUses = 2
    MaxPerRecipient = 0
    MessageTTL = 1
    InviteTTL = 1
    MaxTime = 0
    MaxStoreErrors = 1
    MaxWriteErrors = 0
    MaxCrashes = 0
    Workers = {w1, w2}
    Commands = {"JOIN", "LEAVE", "REVOKE", "INVITE_REQ"}
    SerialClients = FALSE
    Admins = {a1}
    AdminOps = {"init", "invite", "kick", "revoke"}
SYMMETRY InterchangeableClients
INVARIANT TypeOK
INVARIANT OwnerOutOfReach
INVARIANT NothingBeforeOwner
INVARIANT BootstrapCodeIsOwner
INVARIANT AdmittedWithinUses
PROPERTY OwnerStays
PROPERTY ImplementsLedger
