---------------------------- MODULE MailboxStore ----------------------------
(***************************************************************************)
(* The SQLite store (internal/storage): the tables members, invites and    *)
(* messages, and what each method of SQLiteStore reads or writes.          *)
(*                                                                         *)
(* The pool holds a single connection (SetMaxOpenConns(1)), so every call  *)
(* is atomic: one SQL statement, or the one transaction of ConsumeInvite.  *)
(* RemoveMember is the exception; it makes two calls, and the modules that *)
(* use it take two steps.  Public keys are Clients, a pubkey_hash is the   *)
(* client it belongs to, tokens and message ids are model values, and      *)
(* payloads, senders and display names are left out.                       *)
(***************************************************************************)
EXTENDS Integers, FiniteSets

CONSTANTS
    Clients,            \* the key pairs that talk to the mailbox
    Tokens,             \* supply of invite tokens (bound)
    MsgIds,             \* supply of message ids (bound)
    NoClient,           \* no client: nothing received, nobody picked
    NoCode,             \* no token: a JOIN without an invite code
    InitialRole,        \* the members table of the database that is opened
    MaxUses,            \* largest use limit an administrator types (bound)
    MaxPerRecipient,    \* limits.max_messages_per_recipient, 0 = no limit
    MessageTTL,         \* effective lifetime of a blob, in clock units
    InviteTTL,          \* lifetime of an expiring invite, in clock units
    MaxTime,            \* last value of the clock (bound)
    MaxStoreErrors,     \* store calls that may fail (bound)
    MaxWriteErrors,     \* responses that may not reach the client (bound)
    MaxCrashes          \* daemon stops and restarts (bound)

Roles == {"owner", "member"}

ASSUME CodeAssumption == NoCode \notin Tokens
ASSUME ClientAssumption == NoClient \notin Clients

ASSUME BoundAssumption ==
    /\ MaxUses \in Nat \ {0}
    /\ MaxPerRecipient \in Nat
    /\ MessageTTL \in Nat \ {0}
    /\ InviteTTL \in Nat \ {0}
    /\ MaxTime \in Nat
    /\ MaxStoreErrors \in Nat /\ MaxWriteErrors \in Nat /\ MaxCrashes \in Nat

\* A database comes from earlier runs of this program: its first member was an
\* owner and an owner is never removed (theorem OwnerNeverVanishes).
ASSUME DatabaseAssumption ==
    /\ InitialRole \in [Clients -> Roles \cup {"none"}]
    /\ (\E c \in Clients : InitialRole[c] = "member")
          => \E c \in Clients : InitialRole[c] = "owner"

VARIABLES
    members,    \* table members: the role of each client, "none" = no row
    invites,    \* table invites: a row for each token, or NoInvite
    issued,     \* tokens handed out so far: random, so never issued twice
    messages,   \* table messages: a set of rows
    clock,      \* time.Now().Unix()
    spent,      \* mishaps so far, by kind
    admitted,   \* history: members each token has added
    delivered,  \* history: responses that carried each message to a client
    removedBy,  \* history: what removed each message from the table
    missed      \* history: Deletes of each message by a FETCH that failed

tables == <<members, invites, issued, messages>>
storeVars == <<tables, clock, spent, admitted, delivered, removedBy, missed>>

NoInvite == [role |-> "none", maxUses |-> 0, uses |-> 0, expiresAt |-> 0]

InviteRow == [role : Roles \cup {"none"}, maxUses : Nat, uses : Nat, expiresAt : Nat]
MessageRow == [id : MsgIds, recipient : Clients, receivedAt : Nat, expiresAt : Nat]

StoreInit ==
    /\ members = InitialRole
    /\ invites = [t \in Tokens |-> NoInvite]
    /\ issued = {}
    /\ messages = {}
    /\ clock = 0
    /\ spent = [k \in {"store", "write", "crash"} |-> 0]
    /\ admitted = [t \in Tokens |-> 0]
    /\ delivered = [i \in MsgIds |-> 0]
    /\ removedBy = [i \in MsgIds |-> "nobody"]
    /\ missed = [i \in MsgIds |-> 0]

-----------------------------------------------------------------------------
(* Members.                                                                *)

HasOwner == \E c \in Clients : members[c] = "owner"
IsOwner(c) == members[c] = "owner"
IsMember(c) == members[c] # "none"

\* The primary key refuses a second row for the same client.
CanAddMember(c) == members[c] = "none"
AddMember(c, role) == members' = [members EXCEPT ![c] = role]

\* The two calls of RemoveMember: the look-up that refuses an owner, and the
\* DELETE, which removes whatever row the client then has.
BugRemovable(c) == members[c] # "none"   \* forgets that the owner is refused
Removable(c) == members[c] = "member"
DeleteMember(c) == members' = [members EXCEPT ![c] = "none"]

-----------------------------------------------------------------------------
(* Invites.                                                                *)

FreshTokens == Tokens \ issued

CreateInvite(t, role, maxUses, expiresAt) ==
    /\ invites' = [invites EXCEPT ![t] =
          [role |-> role, maxUses |-> maxUses, uses |-> 0, expiresAt |-> expiresAt]]
    /\ issued' = issued \cup {t}

InviteExists(t) == invites[t].role # "none"
Unused(t) == invites[t].uses < invites[t].maxUses
Expired(t) == invites[t].expiresAt > 0 /\ clock > invites[t].expiresAt

BugConsumable(t) == InviteExists(t) /\ ~Expired(t)   \* forgets the use limit
Consumable(t) == InviteExists(t) /\ ~Expired(t) /\ Unused(t)
BugConsumeInvite(t) == invites' = [invites EXCEPT ![t].uses = @ - 1]   \* counts down
ConsumeInvite(t) == invites' = [invites EXCEPT ![t].uses = @ + 1]
RevokeInvite(t) == invites' = [invites EXCEPT ![t] = NoInvite]

-----------------------------------------------------------------------------
(* Messages.                                                               *)

Live(m) == m.expiresAt > clock

BugPending(c) == {m \in messages : Live(m)}   \* forgets the recipient
\* Fetch: the live rows of a recipient.
Pending(c) == {m \in messages : m.recipient = c /\ Live(m)}

FreshIds == {i \in MsgIds : removedBy[i] = "nobody" /\ \A m \in messages : m.id # i}

\* Deposit: the row of a blob stamped at time `now`.
Deposit(i, c, now) ==
    messages' = messages \cup
        {[id |-> i, recipient |-> c, receivedAt |-> now, expiresAt |-> now + MessageTTL]}

\* Mistaken variant of Delete: clears the mailbox the row is in.
BugDelete(m, reason) ==
    /\ messages' = {x \in messages : x.recipient # m.recipient}
    /\ removedBy' = [i \in MsgIds |->
          IF \E x \in messages : x.id = i /\ x.recipient = m.recipient
          THEN reason ELSE removedBy[i]]

\* Delete: removes the row with this id; without such a row it is an error
\* that both callers ignore.
Delete(m, reason) ==
    /\ messages' = {x \in messages : x.id # m.id}
    /\ removedBy' = IF \E x \in messages : x.id = m.id
                    THEN [removedBy EXCEPT ![m.id] = reason]
                    ELSE removedBy

\* Mistaken variant of Expire: sweeps the mail of members only.
BugExpire ==
    /\ messages' = {m \in messages : Live(m) \/ ~IsMember(m.recipient)}
    /\ removedBy' = [i \in MsgIds |->
          IF \E m \in messages : m.id = i /\ ~Live(m) /\ IsMember(m.recipient)
          THEN "expiry" ELSE removedBy[i]]

\* Expire: one DELETE of every row past its lifetime.
Expire ==
    /\ messages' = {m \in messages : Live(m)}
    /\ removedBy' = [i \in MsgIds |->
          IF \E m \in messages : m.id = i /\ ~Live(m) THEN "expiry" ELSE removedBy[i]]

-----------------------------------------------------------------------------
(* Mishaps: each kind happens a bounded number of times.                   *)

Mishap(kind, limit) ==
    /\ spent[kind] < limit
    /\ spent' = [spent EXCEPT ![kind] = @ + 1]

\* A store call returns an error and changes no row.
StoreError == Mishap("store", MaxStoreErrors) /\ UNCHANGED tables

Tick ==
    /\ clock < MaxTime
    /\ clock' = clock + 1
    /\ UNCHANGED <<tables, spent, admitted, delivered, removedBy, missed>>

TypeOKStore ==
    /\ members \in [Clients -> Roles \cup {"none"}]
    /\ invites \in [Tokens -> InviteRow]
    /\ issued \subseteq Tokens
    /\ messages \subseteq MessageRow
    /\ clock \in Nat
    /\ spent \in [{"store", "write", "crash"} -> Nat]
    /\ admitted \in [Tokens -> Nat]
    /\ delivered \in [MsgIds -> Nat]
    /\ removedBy \in [MsgIds -> {"nobody", "fetch", "leave", "expiry"}]
    /\ missed \in [MsgIds -> Nat]
=============================================================================
