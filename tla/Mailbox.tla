------------------------------- MODULE Mailbox -------------------------------
(***************************************************************************)
(* The mailbox: the server's connections, the administrator's sessions,    *)
(* the expiry ticker and the clock, around one store.                      *)
(***************************************************************************)
EXTENDS MailboxServer, MailboxAdmin

vars == <<storeVars, serverVars, adminVars>>

Init == StoreInit /\ ServerInit /\ AdminInit

\* runExpiry: one sweep.  The hourly ticker is slow against the handlers, so
\* a sweep may come at any time; a sweep whose DELETE fails is logged only.
Sweep ==
    /\ \E m \in messages : ~Live(m)
    /\ \/ Expire /\ UNCHANGED <<members, invites, issued, spent>>
       \/ StoreError /\ UNCHANGED removedBy
    /\ UNCHANGED <<clock, admitted, delivered, missed>>

Connect(w) == \E r \in Requests : Accept(w, r) /\ UNCHANGED adminVars
Serve(w) == WorkerStep(w) /\ UNCHANGED adminVars
Administer(a) == AdminStep(a) /\ UNCHANGED serverVars
Restart == ServerStop /\ UNCHANGED adminVars
Pass == Tick /\ UNCHANGED <<serverVars, adminVars>>
RunExpiry == Sweep /\ UNCHANGED <<serverVars, adminVars>>

Next ==
    \/ \E w \in Workers : Connect(w) \/ Serve(w)
    \/ \E a \in Admins : Administer(a)
    \/ Restart
    \/ Pass
    \/ RunExpiry

Spec == Init /\ [][Next]_vars

\* A goroutine that can run is scheduled in the end, a store call returns (the
\* connection is lent to one call at a time), and the ticker keeps firing.
\* Nothing obliges a client to connect or an administrator to act.
Fairness ==
    /\ \A w \in Workers : WF_vars(Serve(w))
    /\ WF_vars(RunExpiry)

FairSpec == Spec /\ Fairness

TypeOK == TypeOKStore /\ TypeOKServer /\ TypeOKAdmin

-----------------------------------------------------------------------------
(* Membership.                                                             *)

Serving(w, cmd) == ~At(w, "idle") /\ req[w].cmd = cmd
Answered(w, cmd, outcome) == At(w, "reply") /\ Serving(w, cmd) /\ loc[w].reply = outcome
HandlersAt(label) == {w \in Workers : At(w, label)}

\* Once the mailbox has an owner it always has one.  RemoveMember looks the
\* role up and deletes by hash in two calls, LEAVE, REVOKE_MEMBER and kicks
\* interleave with JOINs that make owners, and no code path restores an owner.
OwnerStays == [][HasOwner => HasOwner']_vars

\* Condemned(c): a RemoveMember of client c is between its two calls.
Condemned(c) ==
    \/ \E w \in HandlersAt("remove_delete") : req[w].to = c
    \/ \E a \in Admins : AdminAt(a, "kick_delete") /\ kicking[a] = c

\* Why the owner stays: what a JOIN has seen of an owner stays true until it
\* adds its member, members and removals exist only beside an owner, and one
\* owner is out of reach of every removal under way.
OwnerOutOfReach ==
    /\ \A w \in Workers : loc[w].hasOwner => HasOwner
    /\ \A w \in HandlersAt("join_add") : loc[w].role = "member" => HasOwner
    /\ \A c \in Clients : members[c] = "member" \/ Condemned(c) => HasOwner
    /\ HasOwner => \E c \in Clients : IsOwner(c) /\ ~Condemned(c)

\* Before there is an owner nobody is a member, and every invite is a bootstrap
\* invite that cannot expire: so `init` may show a used or unused owner invite
\* again without looking at its expiry.
NothingBeforeOwner ==
    ~HasOwner =>
        /\ \A c \in Clients : ~IsMember(c)
        /\ \A t \in Tokens : InviteExists(t) =>
              invites[t].role = "owner" /\ invites[t].expiresAt = 0 /\ invites[t].maxUses = 1

\* A JOIN that saw no owner, however long ago, and still has a usable code holds
\* an owner invite: "invalid owner bootstrap invite" never burns a member's.
BootstrapCodeIsOwner ==
    \A w \in HandlersAt("join_consume") :
        ~loc[w].hasOwner /\ Consumable(req[w].code) => invites[req[w].code].role = "owner"

\* A token adds at most as many members as its use limit, whatever JOINs race,
\* fail or are cut off: the uses counted in the table cover the members it has
\* added and those that JOINs past ConsumeInvite are about to add.
AdmittedWithinUses ==
    \A t \in Tokens :
        InviteExists(t) =>
            /\ admitted[t] + Cardinality({w \in HandlersAt("join_add") : req[w].code = t})
                  <= invites[t].uses
            /\ invites[t].uses <= invites[t].maxUses

\* No use of an invite is lost, as long as each client is on one connection at
\* a time: each use counted in the table was turned into a member, is held by a
\* JOIN that is about to, or is owed to a failed call or a stop of the daemon.
NoUseLost ==
    \A t \in Tokens :
        InviteExists(t) =>
            invites[t].uses <=
                admitted[t] + Cardinality({w \in HandlersAt("join_add") : req[w].code = t})
                    + spent["store"] + Cardinality(Workers) * spent["crash"]

\* server.go:116 calls JOIN idempotent: a client that is a member is not
\* rejected.  A store that is closed under a JOIN rejects anybody.
JoinIdempotent ==
    \A w \in Workers : Answered(w, "JOIN", "error") => ~IsMember(req[w].from)

\* store.go:16: exactly one member has the role owner, so never two.
SingleOwner == \A c, d \in Clients : IsOwner(c) /\ IsOwner(d) => c = d

-----------------------------------------------------------------------------
(* Mail.                                                                   *)

\* DEPOSITs for client c that have passed the quota check.
Admitting(c) == {w \in HandlersAt("dep_insert") : req[w].to = c}

\* The limit is checked in one call and used in another, and an error of the
\* check reads as an empty mailbox: a mailbox may overshoot by one message for
\* each other handler that passed the check meanwhile and each failed check.
QuotaOvershoot ==
    MaxPerRecipient > 0 =>
        \A c \in Clients :
            Cardinality(Pending(c)) + Cardinality(Admitting(c))
                <= MaxPerRecipient - 1 + Cardinality(Workers) + spent["store"]

Holds(w, m, cmd) ==
    At(w, "delete") /\ req[w].cmd = cmd /\ req[w].from = m.recipient /\ m \in loc[w].todo

\* A row leaves the messages table only when it has expired, when a FETCH of
\* its recipient carries it, or when its recipient's LEAVE purges it.
NoSilentLoss ==
    [][\A m \in messages \ messages' :
          \/ ~Live(m)
          \/ \E w \in Workers : Holds(w, m, "FETCH") \/ Holds(w, m, "LEAVE")]_vars

\* A message that has been delivered is gone, unless a Delete of it failed, by
\* itself or on the store that a shutdown has closed: while it is stored, it has
\* been delivered no more often than FETCH has ignored such an error.
DeliveredIsGone == \A m \in messages : delivered[m.id] <= missed[m.id]

\* Concurrent FETCHes of one client may carry the same message, but it is
\* delivered at most once by each connection and once for each ignored error of
\* a Delete of it, stops of the daemon included.
DeliveriesBounded == \A i \in MsgIds : delivered[i] <= Cardinality(Workers) + missed[i]

\* A client on one connection at a time gets each message once, and again only
\* as often as a Delete of that message failed under a FETCH: it may be fetched
\* again after a failed call, or after a shutdown that closed the store between
\* the Delete and the response, and for no other reason.
DeliveredOnce == \A i \in MsgIds : delivered[i] <= 1 + missed[i]

\* Carried i: a FETCH has read message i and not yet written its response.
Carried(i) ==
    \E w \in Workers : Serving(w, "FETCH") /\ \E m \in loc[w].batch : m.id = i

\* A message removed by FETCH has reached its recipient or is still in the
\* response of some FETCH, as long as no response is lost and the daemon does
\* not stop.  sqlite.go:125 promises it always: a message is deleted after
\* confirmed delivery.
FetchedMailArrives ==
    \A i \in MsgIds : removedBy[i] = "fetch" => delivered[i] > 0 \/ Carried(i)

\* server.go:349: pending blobs are purged on leave.
LeavePurges ==
    \A w \in Workers : Answered(w, "LEAVE", "ok") => Pending(req[w].from) = {}

-----------------------------------------------------------------------------
(* Refinement.                                                             *)

\* What is left of an invite, and the role a JOIN past ConsumeInvite holds.
Offered(t) == [role |-> invites[t].role, left |-> invites[t].maxUses - invites[t].uses]
Ticket(w) == IF At(w, "join_add") THEN loc[w].role ELSE "none"

Ledger == INSTANCE MemberLedger WITH
    Connections <- Workers,
    roles <- members,
    known <- issued,
    offers <- [t \in Tokens |-> Offered(t)],
    tickets <- [w \in Workers |-> Ticket(w)]

\* The handlers and sessions, with their separate store calls, stale look-ups
\* and failures, make up the steps of MemberLedger: a token grants what it
\* offered, nothing is granted, offered or taken for a plain member before there
\* is an owner, and the last owner never goes.  One of two owners can: a client
\* who is being removed may LEAVE and JOIN as an owner before the DELETE.
ImplementsLedger == Ledger!Spec

\* What became of a message that is neither stored, carried nor delivered.
Fate == [nobody |-> "unwritten", fetch |-> "lost", leave |-> "dropped", expiry |-> "dropped"]

\* Where message i is: stuck if a FETCH failed to delete it, else in the response
\* of a FETCH, else delivered, else a row of its recipient, else what removed it.
Whereabouts(i) ==
    IF missed[i] > 0 THEN [at |-> "stuck", of |-> NoClient]
    ELSE IF Carried(i)
    THEN [at |-> "way", of |-> req[CHOOSE w \in Workers :
             Serving(w, "FETCH") /\ \E m \in loc[w].batch : m.id = i].from]
    ELSE IF delivered[i] > 0 THEN [at |-> "arrived", of |-> NoClient]
    ELSE IF \E m \in messages : m.id = i
    THEN [at |-> "box", of |-> (CHOOSE m \in messages : m.id = i).recipient]
    ELSE [at |-> Fate[removedBy[i]], of |-> NoClient]

Letterbox == INSTANCE MailDrop WITH
    Letters <- MsgIds,
    Nobody <- NoClient,
    place <- [i \in MsgIds |-> Whereabouts(i)]

\* FETCH reads all rows of a mailbox, deletes them one by one and then writes
\* its response, and LEAVE, the sweep, lost responses, failed calls and stops
\* that close the store under it come between: to clients on one connection at a
\* time all this amounts to the steps of MailDrop.
ImplementsMailDrop == Letterbox!Spec

-----------------------------------------------------------------------------
(* Liveness.                                                               *)

\* Every connection that has sent its request comes to an end: no handler
\* waits for another one, and a purge ends although others delete the rows.
ConnectionsEnd == \A w \in Workers : ~At(w, "idle") ~> At(w, "idle")

\* A message that is still stored when it expires is removed in the end, even
\* if a sweep fails, provided the daemon is up long enough to sweep (the first
\* tick comes an hour after the start).
ExpiredMailSwept ==
    \A i \in MsgIds :
        (\E m \in messages : m.id = i /\ ~Live(m)) ~> ~(\E m \in messages : m.id = i)
=============================================================================
