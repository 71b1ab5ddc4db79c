---------------------------- MODULE MailboxServer ----------------------------
(***************************************************************************)
(* The TCP server (internal/transport/server.go).  Each accepted           *)
(* connection is served by a goroutine of its own: it reads one frame,     *)
(* runs the handler of its command, writes one response and closes.  A     *)
(* handler is a sequence of store calls; each call is one action, since    *)
(* the other goroutines may use the store between two of them.             *)
(*                                                                         *)
(* Requests are those whose authentication block has been verified (module *)
(* ReplayGuard models that check).  An invite code is NoCode or a token    *)
(* that has been handed out: tokens are 32 random bytes, so nobody holds   *)
(* one before it is generated.                                             *)
(***************************************************************************)
EXTENDS MailboxStore

CONSTANTS
    Workers,        \* connections served at a time (bound)
    Commands,       \* the commands clients send in this instance (bound)
    SerialClients   \* TRUE: a client has one connection at a time

ASSUME CommandAssumption ==
    /\ Commands \subseteq {"PING", "JOIN", "DEPOSIT", "FETCH", "LEAVE",
                           "INVITE_REQ", "REVOKE", "LIST"}
    /\ SerialClients \in BOOLEAN

\* The process has finitely many connections open at a time.
ASSUME WorkerAssumption == IsFiniteSet(Workers)

VARIABLES
    pc,     \* the store call each goroutine makes next
    req,    \* the request each goroutine serves
    loc     \* the local variables of each handler

serverVars == <<pc, req, loc>>

\* The first call of each handler.
Start == [JOIN |-> "join_lookup", DEPOSIT |-> "dep_sender", FETCH |-> "fetch_member",
          LEAVE |-> "leave_lookup", INVITE_REQ |-> "invite_owner",
          REVOKE |-> "revoke_owner", LIST |-> "list_owner", PING |-> "reply"]

Labels == {Start[x] : x \in DOMAIN Start} \cup
          {"idle", "join_hasowner", "join_consume", "join_add",
           "dep_recipient", "dep_quota", "dep_insert",
           "fetch_query", "leave_query", "delete",
           "remove_lookup", "remove_delete", "invite_create", "list_members"}

NoLocals == [hasOwner |-> FALSE, role |-> "none", since |-> 0,
             batch |-> {}, todo |-> {}, reply |-> "none"]

Request == [cmd : DOMAIN Start, from : Clients, to : Clients, code : Tokens \cup {NoCode}]
Local == [hasOwner : BOOLEAN, role : Roles \cup {"none"}, since : Nat,
          batch : SUBSET MessageRow, todo : SUBSET MessageRow,
          reply : {"none", "ok", "error", "closed"}]

\* The requests a client can send: it aims at another client's key only with
\* DEPOSIT and REVOKE, and carries an invite code only with JOIN.
Requests ==
    {r \in [cmd : Commands, from : Clients, to : Clients, code : issued \cup {NoCode}] :
        /\ r.cmd \notin {"DEPOSIT", "REVOKE"} => r.to = r.from
        /\ r.cmd # "JOIN" => r.code = NoCode}

\* The connection waits for a frame.
NoRequest == [cmd |-> "none", from |-> NoClient, to |-> NoClient, code |-> NoCode]

ServerInit ==
    /\ pc = [w \in Workers |-> "idle"]
    /\ req = [w \in Workers |-> NoRequest]
    /\ loc = [w \in Workers |-> NoLocals]

-----------------------------------------------------------------------------
(* Steps shared by the handlers.                                           *)

At(w, label) == pc[w] = label
Goto(w, label) == pc' = [pc EXCEPT ![w] = label] /\ UNCHANGED req

\* The handler returns its response; only the blobs it carries matter later.
Answer(w, outcome) ==
    /\ Goto(w, "reply")
    /\ loc' = [loc EXCEPT ![w] =
          [NoLocals EXCEPT !.batch = loc[w].batch, !.reply = outcome]]

KeepTables == UNCHANGED tables
KeepHistory == UNCHANGED <<clock, admitted, delivered, removedBy, missed>>
Keep == KeepTables /\ KeepHistory /\ UNCHANGED spent

\* A call fails and the handler gives up with an error response.
FailWith(w, outcome) == StoreError /\ KeepHistory /\ Answer(w, outcome)

\* A connection delivers a complete frame.
Accept(w, r) ==
    /\ At(w, "idle")
    /\ SerialClients => \A v \in Workers : At(v, "idle") \/ req[v].from # r.from
    /\ pc' = [pc EXCEPT ![w] = Start[r.cmd]]
    /\ req' = [req EXCEPT ![w] = r]
    /\ loc' = [loc EXCEPT ![w] = NoLocals]
    /\ Keep

-----------------------------------------------------------------------------
(* JOIN.                                                                   *)

\* Mistaken variant of JoinLookup: does not look the client up.
BugJoinLookup(w) ==
    At(w, "join_lookup") /\ Goto(w, "join_hasowner") /\ UNCHANGED loc /\ Keep

\* GetMember: a row means the client is a member already and its role is
\* returned; an error of the look-up counts as no row.
JoinLookup(w) ==
    /\ At(w, "join_lookup")
    /\ \/ IsMember(req[w].from) /\ Answer(w, "ok") /\ Keep
       \/ ~IsMember(req[w].from) /\ Goto(w, "join_hasowner") /\ UNCHANGED loc /\ Keep
       \/ StoreError /\ KeepHistory /\ Goto(w, "join_hasowner") /\ UNCHANGED loc

\* HasOwner; then a request without an invite code is turned away.
JoinHasOwner(w) ==
    /\ At(w, "join_hasowner")
    /\ \/ /\ req[w].code # NoCode
          /\ Goto(w, "join_consume")
          /\ loc' = [loc EXCEPT ![w].hasOwner = HasOwner]
          /\ Keep
       \/ req[w].code = NoCode /\ Answer(w, "error") /\ Keep
       \/ FailWith(w, "error")

\* ConsumeInvite; then the role.  `hasOwner` was read two calls ago.  Without
\* an owner the invite has to be an owner invite, and it is used up if not.
JoinConsume(w) ==
    LET t == req[w].code IN
    /\ At(w, "join_consume")
    /\ \/ /\ Consumable(t)
          /\ ConsumeInvite(t)
          /\ UNCHANGED <<members, issued, messages, spent>> /\ KeepHistory
          /\ IF loc[w].hasOwner \/ invites[t].role = "owner"
             THEN Goto(w, "join_add") /\ loc' = [loc EXCEPT ![w].role = invites[t].role]
             ELSE Answer(w, "error")
       \/ ~Consumable(t) /\ Answer(w, "error") /\ Keep
       \/ FailWith(w, "error")

\* Mistaken variant of JoinAdd: adds a plain member whatever the invite says.
BugJoinAdd(w) ==
    /\ At(w, "join_add")
    /\ CanAddMember(req[w].from)
    /\ AddMember(req[w].from, "member")
    /\ admitted' = [admitted EXCEPT ![req[w].code] = @ + 1]
    /\ UNCHANGED <<invites, issued, messages, clock, spent, delivered, removedBy, missed>>
    /\ Answer(w, "ok")

\* AddMember; a client that became a member meanwhile is a key conflict.
JoinAdd(w) ==
    LET c == req[w].from IN
    /\ At(w, "join_add")
    /\ \/ /\ CanAddMember(c)
          /\ AddMember(c, loc[w].role)
          /\ admitted' = [admitted EXCEPT ![req[w].code] = @ + 1]
          /\ UNCHANGED <<invites, issued, messages, clock, spent, delivered, removedBy, missed>>
          /\ Answer(w, "ok")
       \/ ~CanAddMember(c) /\ Answer(w, "error") /\ Keep
       \/ FailWith(w, "error")

-----------------------------------------------------------------------------
(* DEPOSIT.                                                                *)

\* IsMember of the sender; an error of the call reads as "not a member".
DepSender(w) ==
    /\ At(w, "dep_sender")
    /\ \/ IsMember(req[w].from) /\ Goto(w, "dep_recipient") /\ UNCHANGED loc /\ Keep
       \/ ~IsMember(req[w].from) /\ Answer(w, "error") /\ Keep
       \/ FailWith(w, "error")

\* IsMember of the recipient, then the size limit, which a blob may exceed.
DepRecipient(w) ==
    /\ At(w, "dep_recipient")
    /\ \/ IsMember(req[w].to) /\ Goto(w, "dep_quota") /\ UNCHANGED loc /\ Keep
       \/ Answer(w, "error") /\ Keep
       \/ FailWith(w, "error")

\* Mistaken variant of DepQuota: admits one message more.
BugDepQuota(w) ==
    /\ At(w, "dep_quota")
    /\ IF Cardinality(Pending(req[w].to)) <= MaxPerRecipient
       THEN Goto(w, "dep_insert") /\ loc' = [loc EXCEPT ![w].since = clock]
       ELSE Answer(w, "error")
    /\ Keep

\* The message limit, by the length of Fetch; an error of Fetch reads as an
\* empty mailbox.  No limit, no call.  `since` is the time of this check.
DepQuota(w) ==
    /\ At(w, "dep_quota")
    /\ \/ /\ MaxPerRecipient = 0 \/ Cardinality(Pending(req[w].to)) < MaxPerRecipient
          /\ Goto(w, "dep_insert")
          /\ loc' = [loc EXCEPT ![w].since = clock]
          /\ Keep
       \/ /\ MaxPerRecipient > 0
          /\ Cardinality(Pending(req[w].to)) >= MaxPerRecipient
          /\ Answer(w, "error")
          /\ Keep
       \/ /\ MaxPerRecipient > 0
          /\ StoreError
          /\ KeepHistory
          /\ Goto(w, "dep_insert")
          /\ loc' = [loc EXCEPT ![w].since = clock]

\* Deposit, stamped with a clock reading taken after the check.
DepInsert(w) ==
    /\ At(w, "dep_insert")
    /\ \/ \E i \in FreshIds, now \in loc[w].since .. clock :
             /\ Deposit(i, req[w].to, now)
             /\ UNCHANGED <<members, invites, issued, spent>> /\ KeepHistory
             /\ Answer(w, "ok")
       \/ FreshIds = {} /\ Answer(w, "error") /\ Keep   \* supply bound reached
       \/ FailWith(w, "error")

-----------------------------------------------------------------------------
(* FETCH, and the purge it shares with LEAVE.                              *)

FetchMember(w) ==
    /\ At(w, "fetch_member")
    /\ \/ IsMember(req[w].from) /\ Goto(w, "fetch_query") /\ UNCHANGED loc /\ Keep
       \/ ~IsMember(req[w].from) /\ Answer(w, "error") /\ Keep
       \/ FailWith(w, "error")

\* Mistaken variant of FetchQuery: leaves the rows to a later acknowledgement.
BugFetchQuery(w) ==
    /\ At(w, "fetch_query")
    /\ Goto(w, "reply")
    /\ loc' = [loc EXCEPT ![w].batch = Pending(req[w].from), ![w].reply = "ok"]
    /\ Keep

\* Fetch: the rows read are the response, and are deleted one by one.
FetchQuery(w) ==
    LET rows == Pending(req[w].from) IN
    /\ At(w, "fetch_query")
    /\ \/ rows = {} /\ Answer(w, "ok") /\ Keep
       \/ /\ rows # {}
          /\ Goto(w, "delete")
          /\ loc' = [loc EXCEPT ![w].batch = rows, ![w].todo = rows]
          /\ Keep
       \/ FailWith(w, "error")

\* The oldest rows left to delete: Fetch orders them by received_at.
Oldest(rows) == {m \in rows : \A x \in rows : m.receivedAt <= x.receivedAt}

\* Mistaken variant of AfterDelete: the loop ends after the first row.
BugAfterDelete(w, m) ==
    IF req[w].cmd = "FETCH"
    THEN Answer(w, "ok")
    ELSE Goto(w, "remove_lookup") /\ loc' = [loc EXCEPT ![w].todo = {}]

\* Where the handler goes when row m is dealt with.
AfterDelete(w, m) ==
    IF loc[w].todo # {m}
    THEN Goto(w, "delete") /\ loc' = [loc EXCEPT ![w].todo = @ \ {m}]
    ELSE IF req[w].cmd = "FETCH"
         THEN Answer(w, "ok")
         ELSE Goto(w, "remove_lookup") /\ loc' = [loc EXCEPT ![w].todo = {}]

\* Mistaken variant of DeleteOne: tries again until a row has been deleted.
BugDeleteOne(w) ==
    /\ At(w, "delete")
    /\ \E m \in Oldest(loc[w].todo) :
          IF m \in messages
          THEN /\ Delete(m, IF req[w].cmd = "FETCH" THEN "fetch" ELSE "leave")
               /\ AfterDelete(w, m)
               /\ UNCHANGED <<members, invites, issued, clock, spent, admitted, delivered, missed>>
          ELSE UNCHANGED <<storeVars, serverVars>>

\* The Delete of row m fails; a FETCH answers with the row nevertheless.
Miss(w, m) ==
    missed' = IF req[w].cmd = "FETCH" THEN [missed EXCEPT ![m.id] = @ + 1] ELSE missed

\* Delete of one row, whose error is ignored.
DeleteOne(w) ==
    /\ At(w, "delete")
    /\ \E m \in Oldest(loc[w].todo) :
          /\ AfterDelete(w, m)
          /\ \/ /\ Delete(m, IF req[w].cmd = "FETCH" THEN "fetch" ELSE "leave")
                /\ UNCHANGED <<members, invites, issued, clock, spent, admitted, delivered, missed>>
             \/ /\ StoreError
                /\ Miss(w, m)
                /\ UNCHANGED <<clock, admitted, delivered, removedBy>>

-----------------------------------------------------------------------------
(* LEAVE, REVOKE_MEMBER and the RemoveMember they share.                   *)

\* GetMember: an error, no row and the owner's row all end the request.
LeaveLookup(w) ==
    /\ At(w, "leave_lookup")
    /\ \/ Removable(req[w].from) /\ Goto(w, "leave_query") /\ UNCHANGED loc /\ Keep
       \/ ~Removable(req[w].from) /\ Answer(w, "error") /\ Keep
       \/ FailWith(w, "error")

\* Fetch of the pending rows; after an error nothing is purged.
LeaveQuery(w) ==
    LET rows == Pending(req[w].from) IN
    /\ At(w, "leave_query")
    /\ \/ rows = {} /\ Goto(w, "remove_lookup") /\ UNCHANGED loc /\ Keep
       \/ /\ rows # {}
          /\ Goto(w, "delete")
          /\ loc' = [loc EXCEPT ![w].todo = rows]
          /\ Keep
       \/ StoreError /\ KeepHistory /\ Goto(w, "remove_lookup") /\ UNCHANGED loc

\* IsOwner of the requester; an error of the call reads as "not the owner".
RevokeOwner(w) ==
    /\ At(w, "revoke_owner")
    /\ \/ IsOwner(req[w].from) /\ Goto(w, "remove_lookup") /\ UNCHANGED loc /\ Keep
       \/ ~IsOwner(req[w].from) /\ Answer(w, "error") /\ Keep
       \/ FailWith(w, "error")

\* RemoveMember, first call: GetMember refuses an owner or an absent row.
RemoveLookup(w) ==
    /\ At(w, "remove_lookup")
    /\ \/ Removable(req[w].to) /\ Goto(w, "remove_delete") /\ UNCHANGED loc /\ Keep
       \/ ~Removable(req[w].to) /\ Answer(w, "error") /\ Keep
       \/ FailWith(w, "error")

\* RemoveMember, second call: DELETE by pubkey_hash.
RemoveDelete(w) ==
    /\ At(w, "remove_delete")
    /\ \/ /\ DeleteMember(req[w].to)
          /\ UNCHANGED <<invites, issued, messages, spent>> /\ KeepHistory
          /\ Answer(w, "ok")
       \/ FailWith(w, "error")

-----------------------------------------------------------------------------
(* INVITE_REQUEST and LIST_MEMBERS.                                        *)

InviteOwner(w) ==
    /\ At(w, "invite_owner")
    /\ \/ /\ IsOwner(req[w].from)
          /\ Goto(w, "invite_create")
          /\ loc' = [loc EXCEPT ![w].since = clock]
          /\ Keep
       \/ ~IsOwner(req[w].from) /\ Answer(w, "error") /\ Keep
       \/ FailWith(w, "error")

\* CreateInvite: a member invite for one use, which expires.
InviteCreate(w) ==
    /\ At(w, "invite_create")
    /\ \/ \E t \in FreshTokens, now \in loc[w].since .. clock :
             /\ CreateInvite(t, "member", 1, now + InviteTTL)
             /\ UNCHANGED <<members, messages, spent>> /\ KeepHistory
             /\ Answer(w, "ok")
       \/ FreshTokens = {} /\ Answer(w, "error") /\ Keep   \* supply bound reached
       \/ FailWith(w, "error")

ListOwner(w) ==
    /\ At(w, "list_owner")
    /\ \/ IsOwner(req[w].from) /\ Goto(w, "list_members") /\ UNCHANGED loc /\ Keep
       \/ ~IsOwner(req[w].from) /\ Answer(w, "error") /\ Keep
       \/ FailWith(w, "error")

ListMembers(w) ==
    /\ At(w, "list_members")
    /\ \/ Answer(w, "ok") /\ Keep
       \/ FailWith(w, "error")

-----------------------------------------------------------------------------
(* The end of a connection.                                                *)

CloseConn(w) ==
    /\ pc' = [pc EXCEPT ![w] = "idle"]
    /\ req' = [req EXCEPT ![w] = NoRequest]
    /\ loc' = [loc EXCEPT ![w] = NoLocals]

\* WriteFrame reaches the client, or fails, which is only logged.
Reply(w) ==
    /\ At(w, "reply")
    /\ CloseConn(w)
    /\ \/ /\ delivered' = [i \in MsgIds |->
                IF \E m \in loc[w].batch : m.id = i THEN delivered[i] + 1 ELSE delivered[i]]
          /\ UNCHANGED <<tables, clock, spent, admitted, removedBy, missed>>
       \/ Mishap("write", MaxWriteErrors) /\ KeepTables /\ KeepHistory

\* The handler of the connection takes its next step.
WorkerStep(w) ==
    \/ JoinLookup(w) \/ JoinHasOwner(w) \/ JoinConsume(w) \/ JoinAdd(w)
    \/ DepSender(w) \/ DepRecipient(w) \/ DepQuota(w) \/ DepInsert(w)
    \/ FetchMember(w) \/ FetchQuery(w) \/ DeleteOne(w)
    \/ LeaveLookup(w) \/ LeaveQuery(w) \/ RevokeOwner(w)
    \/ RemoveLookup(w) \/ RemoveDelete(w)
    \/ InviteOwner(w) \/ InviteCreate(w) \/ ListOwner(w) \/ ListMembers(w)
    \/ Reply(w)

\* What handler w still answers when the store is closed under it: its calls
\* fail from now on.  A FETCH does not look at the errors of its Deletes and
\* answers with all it has read; every other handler ends in an error.
ClosedAnswer(w) ==
    IF At(w, "reply") THEN loc[w]
    ELSE IF At(w, "delete") /\ req[w].cmd = "FETCH"
    THEN [NoLocals EXCEPT !.batch = loc[w].batch, !.reply = "ok"]
    ELSE [NoLocals EXCEPT !.reply = "closed"]

\* The Deletes of message i that FETCHes among the handlers S have not made yet.
Unmade(S, i) == {w \in S : At(w, "delete") /\ req[w].cmd = "FETCH" /\ \E m \in loc[w].todo : m.id = i}

\* The process stops.  A shutdown waits for no handler: it returns, which closes
\* the store, and the handlers run on beside it until the process exits.  The
\* late ones come as far as their response in that time, the others are cut off;
\* in a crash all are.  The database stays as it is, and is opened again.
ServerStop ==
    /\ Mishap("crash", MaxCrashes)
    /\ \E late \in SUBSET {w \in Workers : ~At(w, "idle")} :
          /\ pc' = [w \in Workers |-> IF w \in late THEN "reply" ELSE "idle"]
          /\ req' = [w \in Workers |-> IF w \in late THEN req[w] ELSE NoRequest]
          /\ loc' = [w \in Workers |-> IF w \in late THEN ClosedAnswer(w) ELSE NoLocals]
          /\ missed' = [i \in MsgIds |-> missed[i] + Cardinality(Unmade(late, i))]
    /\ KeepTables /\ UNCHANGED <<clock, admitted, delivered, removedBy>>

TypeOKServer ==
    /\ pc \in [Workers -> Labels]
    /\ req \in [Workers -> Request \cup {NoRequest}]
    /\ \A w \in Workers : pc[w] # "idle" => req[w] \in Request
    /\ \A w \in Workers : pc[w] \in {"join_consume", "join_add"} => req[w].code # NoCode
    /\ loc \in [Workers -> Local]
=============================================================================
