--------------------------- MODULE MembershipProofs ---------------------------
(***************************************************************************)
(* Proofs about members and invites: what holds before there is an owner,  *)
(* the uses of invites, and that Mailbox implements MemberLedger.          *)
(*                                                                         *)
(* Few steps matter to them.  The first part sorts the steps of handlers   *)
(* and sessions into kinds; the later parts have one case for each kind.   *)
(***************************************************************************)
EXTENDS MailboxProofs

(* The kinds of steps.                                                     *)

RowsKept == UNCHANGED <<members, invites, issued, admitted>>

\* Only handler w moves, and goes to `label`; it keeps its request.
Moves(w, label) ==
    /\ pc' = [pc EXCEPT ![w] = label]
    /\ UNCHANGED req
    /\ \A v \in Workers \ {w} : loc'[v] = loc[v]

Joining == {"join_hasowner", "join_consume", "join_add"}
Failed == spent'["store"] = spent["store"] + 1 /\ spent'["crash"] = spent["crash"]
NothingFailed == spent'["store"] = spent["store"] /\ spent'["crash"] = spent["crash"]

\* A handler goes on with nothing that concerns invites, or ends.  If that ends
\* a JOIN past ConsumeInvite, a call failed or the client is a member already.
Aside(w) ==
    /\ ~At(w, "idle") /\ RowsKept
    /\ pc'[w] \notin Joining \cup {"invite_create"}
    /\ \A v \in Workers \ {w} : pc'[v] = pc[v] /\ req'[v] = req[v] /\ loc'[v] = loc[v]
    /\ req'[w] \in {req[w], NoRequest}
    /\ pc'[w] # "idle" => req'[w] = req[w]
    /\ Failed \/ (NothingFailed /\ (At(w, "join_add") => IsMember(req[w].from)))

\* A JOIN that has not found its client, or failed to look it up.
LooksUp(w) ==
    /\ At(w, "join_lookup") /\ Moves(w, "join_hasowner") /\ RowsKept
    /\ Failed \/ (NothingFailed /\ ~IsMember(req[w].from))

SeesOwner(w) ==
    /\ At(w, "join_hasowner") /\ Moves(w, "join_consume") /\ RowsKept /\ NothingFailed
    /\ req[w].code # NoCode
    /\ loc'[w].hasOwner = HasOwner

\* ConsumeInvite of a JOIN that goes on, and of one that is turned away.
CountsUse(w) ==
    /\ At(w, "join_consume") /\ NothingFailed
    /\ Consumable(req[w].code) /\ ConsumeInvite(req[w].code)
    /\ UNCHANGED <<members, issued, admitted>>
    /\ loc[w].hasOwner \/ invites[req[w].code].role = "owner"
    /\ Moves(w, "join_add") /\ loc'[w].role = invites[req[w].code].role

BurnsUse(w) ==
    /\ At(w, "join_consume")
    /\ Consumable(req[w].code) /\ ~loc[w].hasOwner /\ invites[req[w].code].role # "owner"

Admits(w) ==
    /\ At(w, "join_add") /\ Moves(w, "reply") /\ NothingFailed
    /\ CanAddMember(req[w].from) /\ AddMember(req[w].from, loc[w].role)
    /\ admitted' = [admitted EXCEPT ![req[w].code] = @ + 1]
    /\ UNCHANGED <<invites, issued>>

Removes(w) ==
    /\ At(w, "remove_delete") /\ Moves(w, "reply") /\ NothingFailed
    /\ DeleteMember(req[w].to)
    /\ UNCHANGED <<invites, issued, admitted>>

SeesItself(w) ==
    /\ At(w, "invite_owner") /\ Moves(w, "invite_create") /\ RowsKept /\ NothingFailed
    /\ IsOwner(req[w].from)

Issues(w) ==
    /\ At(w, "invite_create") /\ Moves(w, "reply") /\ NothingFailed
    /\ UNCHANGED <<members, admitted>>
    /\ \E t \in FreshTokens, expiresAt \in Nat : CreateInvite(t, "member", 1, expiresAt)

\* These are all the kinds of handlers' steps.
LEMMA HandlerKinds ==
    ASSUME TypeOK, NEW w \in Workers, WorkerStep(w)
    PROVE  \/ Aside(w) \/ LooksUp(w) \/ SeesOwner(w) \/ CountsUse(w) \/ BurnsUse(w)
           \/ Admits(w) \/ Removes(w) \/ SeesItself(w) \/ Issues(w)
<1> USE DEF TypeOK
<1>b. loc \in [Workers -> Local] /\ loc[w] \in Local /\ pc \in [Workers -> Labels]
  BY DEF TypeOKServer
<1>r. \A label : At(w, label) /\ label # "idle" => req[w] \in Request
  BY DEF At, TypeOKServer
<1>n. ~At(w, "idle")
  BY DEF WorkerStep, At, JoinLookup, JoinHasOwner, JoinConsume, JoinAdd, DepSender, DepRecipient,
         DepQuota, DepInsert, FetchMember, FetchQuery, DeleteOne, LeaveLookup, LeaveQuery,
         RevokeOwner, RemoveLookup, RemoveDelete, InviteOwner, InviteCreate, ListOwner,
         ListMembers, Reply
<1>k. Keep => RowsKept /\ NothingFailed
  BY DEF Keep, KeepTables, KeepHistory, tables, RowsKept, NothingFailed
<1>e. StoreError /\ KeepHistory => RowsKept /\ Failed
  BY DEF StoreError, Mishap, KeepHistory, tables, RowsKept, Failed, TypeOKStore
<1>o. ASSUME NEW label, Goto(w, label), label \notin Joining \cup {"invite_create"},
             \A v \in Workers \ {w} : loc'[v] = loc[v], RowsKept,
             Failed \/ (NothingFailed /\ (At(w, "join_add") => IsMember(req[w].from)))
      PROVE  Aside(w)
  BY <1>o, <1>b, <1>n DEF Goto, Aside
<1>u. ASSUME NEW label, Goto(w, label), label \notin Joining \cup {"invite_create"},
             \A v \in Workers \ {w} : loc'[v] = loc[v], ~At(w, "join_add"),
             Keep \/ (StoreError /\ KeepHistory)
      PROVE  Aside(w)
  BY <1>u, <1>o, <1>k, <1>e
<1>a. ASSUME NEW outcome, Answer(w, outcome)
      PROVE  /\ Goto(w, "reply") /\ Moves(w, "reply")
             /\ \A v \in Workers \ {w} : loc'[v] = loc[v]
  BY <1>a, <1>b DEF Answer, Goto, Moves
<1>p. "reply" \notin Joining \cup {"invite_create"}
  BY DEF Joining
<1>w. \* an answer after a call that changed no row
      ASSUME NEW outcome, Answer(w, outcome), Keep \/ (StoreError /\ KeepHistory),
             At(w, "join_add") /\ Keep => IsMember(req[w].from)
      PROVE  Aside(w)
  BY <1>w, <1>a, <1>p, <1>o, <1>k, <1>e
<1>f. FailWith(w, "error") => Aside(w)
  BY <1>a, <1>p, <1>o, <1>e DEF FailWith
<1>s. ASSUME NEW label, Goto(w, label), label \notin Joining \cup {"invite_create"},
             UNCHANGED loc, ~At(w, "join_add"), Keep \/ (StoreError /\ KeepHistory)
      PROVE  Aside(w)
  BY <1>s, <1>u
<1>1. CASE JoinLookup(w)
  <2>1. Goto(w, "join_hasowner") /\ UNCHANGED loc => Moves(w, "join_hasowner")
    BY DEF Goto, Moves
  <2> QED
    BY <1>1, <2>1, <1>w, <1>k, <1>e DEF JoinLookup, LooksUp, At
<1>2. CASE JoinHasOwner(w)
  <2>1. ASSUME Goto(w, "join_consume"), loc' = [loc EXCEPT ![w].hasOwner = HasOwner]
        PROVE  Moves(w, "join_consume") /\ loc'[w].hasOwner = HasOwner
    BY <2>1, <1>b DEF Goto, Moves, Local
  <2> QED
    BY <1>2, <2>1, <1>w, <1>f, <1>k DEF JoinHasOwner, SeesOwner, At
<1>3. CASE JoinConsume(w)
  <2> DEFINE t == req[w].code
  <2>1. ASSUME Goto(w, "join_add"), loc' = [loc EXCEPT ![w].role = invites[t].role]
        PROVE  Moves(w, "join_add") /\ loc'[w].role = invites[t].role
    BY <2>1, <1>b DEF Goto, Moves, Local
  <2>2. CASE /\ Consumable(t)
             /\ ConsumeInvite(t)
             /\ UNCHANGED <<members, issued, messages, spent>> /\ KeepHistory
             /\ IF loc[w].hasOwner \/ invites[t].role = "owner"
                THEN Goto(w, "join_add") /\ loc' = [loc EXCEPT ![w].role = invites[t].role]
                ELSE Answer(w, "error")
    <3>1. CASE loc[w].hasOwner \/ invites[t].role = "owner"
      BY <1>3, <2>1, <2>2, <3>1 DEF JoinConsume, CountsUse, KeepHistory, NothingFailed
    <3>2. CASE ~(loc[w].hasOwner \/ invites[t].role = "owner")
      BY <1>3, <2>2, <3>2 DEF JoinConsume, BurnsUse
    <3> QED
      BY <3>1, <3>2
  <2> QED
    BY <1>3, <2>2, <1>w, <1>f DEF JoinConsume, At
<1>4. CASE JoinAdd(w)
  <2>1. req[w].from \in Clients
    BY <1>4, <1>r DEF JoinAdd, Request
  <2>2. ~CanAddMember(req[w].from) => IsMember(req[w].from)
    BY DEF CanAddMember, IsMember
  <2> QED
    BY <1>4, <2>2, <1>a, <1>w, <1>f DEF JoinAdd, Admits, NothingFailed
<1>5. CASE DepSender(w)
  BY <1>5, <1>s, <1>w, <1>f DEF DepSender, At, Joining
<1>6. CASE DepRecipient(w)
  BY <1>6, <1>s, <1>w, <1>f DEF DepRecipient, At, Joining
<1>c. \* the other locals do not concern invites
      ASSUME NEW label, Goto(w, label), label \notin Joining \cup {"invite_create"},
             ~At(w, "join_add"), RowsKept, Failed \/ NothingFailed,
             \/ loc' = [loc EXCEPT ![w].since = clock]
             \/ \E rows : \/ loc' = [loc EXCEPT ![w].batch = rows, ![w].todo = rows]
                          \/ loc' = [loc EXCEPT ![w].todo = rows]
      PROVE  Aside(w)
  <2>1. \A v \in Workers \ {w} : loc'[v] = loc[v]
    BY <1>b, <1>c
  <2> QED
    BY <1>c, <2>1, <1>o
<1>7. CASE DepQuota(w)
  BY <1>7, <1>c, <1>w, <1>k, <1>e DEF DepQuota, At, Joining
<1>8. CASE DepInsert(w)
  <2>1. UNCHANGED <<members, invites, issued, spent>> /\ KeepHistory => RowsKept /\ NothingFailed
    BY DEF KeepHistory, RowsKept, NothingFailed
  <2> QED
    BY <1>8, <2>1, <1>a, <1>p, <1>o, <1>w, <1>f DEF DepInsert, At
<1>9. CASE FetchMember(w)
  BY <1>9, <1>s, <1>w, <1>f DEF FetchMember, At, Joining
<1>10. CASE FetchQuery(w)
  BY <1>10, <1>c, <1>w, <1>f, <1>k DEF FetchQuery, At, Joining
<1>11. CASE DeleteOne(w)
  <2>1. RowsKept /\ (Failed \/ NothingFailed) /\ ~At(w, "join_add")
    BY <1>11 DEF DeleteOne, StoreError, Mishap, tables, TypeOKStore, RowsKept, Failed, NothingFailed, At
  <2>2. PICK m : AfterDelete(w, m)
    BY <1>11 DEF DeleteOne
  <2>3. CASE Goto(w, "delete") /\ loc' = [loc EXCEPT ![w].todo = @ \ {m}]
    BY <1>c, <2>1, <2>3 DEF Joining
  <2>4. CASE Answer(w, "ok")
    BY <1>a, <1>p, <1>o, <2>1, <2>4
  <2>5. CASE Goto(w, "remove_lookup") /\ loc' = [loc EXCEPT ![w].todo = {}]
    BY <1>c, <2>1, <2>5 DEF Joining
  <2> QED
    BY <2>2, <2>3, <2>4, <2>5 DEF AfterDelete
<1>12. CASE LeaveLookup(w)
  BY <1>12, <1>s, <1>w, <1>f DEF LeaveLookup, At, Joining
<1>13. CASE LeaveQuery(w)
  BY <1>13, <1>c, <1>s, <1>k DEF LeaveQuery, At, Joining
<1>14. CASE RevokeOwner(w)
  BY <1>14, <1>s, <1>w, <1>f DEF RevokeOwner, At, Joining
<1>15. CASE RemoveLookup(w)
  BY <1>15, <1>s, <1>w, <1>f DEF RemoveLookup, At, Joining
<1>16. CASE RemoveDelete(w)
  BY <1>16, <1>a, <1>f DEF RemoveDelete, Removes, KeepHistory, NothingFailed
<1>17. CASE InviteOwner(w)
  <2>1. Goto(w, "invite_create") /\ loc' = [loc EXCEPT ![w].since = clock]
           => Moves(w, "invite_create")
    BY <1>b DEF Goto, Moves
  <2> QED
    BY <1>17, <2>1, <1>w, <1>f, <1>k DEF InviteOwner, SeesItself, At
<1>18. CASE InviteCreate(w)
  <2>1. \A now \in loc[w].since .. clock : now + InviteTTL \in Nat
    BY <1>b, BoundAssumption DEF Local, TypeOKStore
  <2>2. UNCHANGED <<members, messages, spent>> /\ KeepHistory
           => UNCHANGED <<members, admitted>> /\ NothingFailed
    BY DEF KeepHistory, NothingFailed
  <2> QED
    BY <1>18, <2>1, <2>2, <1>a, <1>w, <1>f DEF InviteCreate, Issues, At
<1>19. CASE ListOwner(w)
  BY <1>19, <1>s, <1>w, <1>f DEF ListOwner, At, Joining
<1>20. CASE ListMembers(w)
  BY <1>20, <1>w, <1>f DEF ListMembers, At
<1>21. CASE Reply(w)
  <2>1. RowsKept /\ NothingFailed
    BY <1>21 DEF Reply, Mishap, KeepTables, KeepHistory, tables, RowsKept, NothingFailed, TypeOKStore
  <2> QED
    BY <1>21, <1>b, <1>n, <2>1 DEF Reply, CloseConn, Aside, At, Joining, TypeOKServer
<1> QED
  BY <1>1, <1>2, <1>3, <1>4, <1>5, <1>6, <1>7, <1>8, <1>9, <1>10, <1>11, <1>12, <1>13, <1>14,
     <1>15, <1>16, <1>17, <1>18, <1>19, <1>20, <1>21 DEF WorkerStep

\* Only session a moves, and goes to `label`.
Turns(a, label) ==
    /\ apc' = [apc EXCEPT ![a] = label]
    /\ \A b \in Admins \ {a} : inviting'[b] = inviting[b]

\* A session goes on with nothing that concerns invites, or ends.
AdminAside(a) ==
    /\ RowsKept /\ (Failed \/ NothingFailed)
    /\ \E label \in AdminLabels \ {"invite_recheck", "invite_create"} : Turns(a, label)

Invites(a) ==
    /\ RowsKept /\ NothingFailed
    /\ HasOwner
    /\ \E label \in {"invite_recheck", "invite_create"} : Turns(a, label)
    /\ inviting'[a].role \in Roles

Rechecks(a) ==
    /\ AdminAt(a, "invite_recheck")
    /\ RowsKept /\ (Failed \/ NothingFailed)
    /\ AdminGoto(a, "invite_create")

\* The last step of a session that writes.
Writes(a) == Turns(a, "idle") /\ NothingFailed

AdminIssues(a) ==
    /\ Writes(a) /\ UNCHANGED <<members, admitted>>
    /\ \E t \in FreshTokens :
          \/ CreateInvite(t, "owner", 1, 0)
          \/ /\ AdminAt(a, "invite_create")
             /\ \E uses \in Nat \ {0}, expiresAt \in Nat :
                   CreateInvite(t, inviting[a].role, uses, expiresAt)

AdminRemoves(a) ==
    /\ Writes(a) /\ AdminAt(a, "kick_delete")
    /\ DeleteMember(kicking[a]) /\ UNCHANGED <<invites, issued, admitted>>

AdminRevokes(a) ==
    /\ Writes(a) /\ RevokeInvite(revoking[a]) /\ UNCHANGED <<members, issued, admitted>>

\* These are all the kinds of sessions' steps.
LEMMA SessionKinds ==
    ASSUME TypeOK, NEW a \in Admins, AdminStep(a)
    PROVE  \/ AdminAside(a) \/ Invites(a) \/ Rechecks(a)
           \/ AdminIssues(a) \/ AdminRemoves(a) \/ AdminRevokes(a)
<1> USE DEF TypeOK
<1>t. /\ apc \in [Admins -> AdminLabels] /\ clock \in Nat
      /\ inviting \in [Admins -> [role : Roles \cup {"none"}, since : Nat]]
  BY DEF TypeOKAdmin, TypeOKStore
<1>k. AdminKeep => RowsKept /\ NothingFailed
  BY DEF AdminKeep, storeVars, tables, RowsKept, NothingFailed
<1>e. AdminError => RowsKept /\ Failed
  BY DEF AdminError, StoreError, Mishap, AdminKeepHistory, tables, RowsKept, Failed, TypeOKStore
<1>h. AdminKeepHistory /\ UNCHANGED spent => UNCHANGED admitted /\ NothingFailed
  BY DEF AdminKeepHistory, NothingFailed
<1>d. AdminDone(a) => Turns(a, "idle")
  BY <1>t DEF AdminDone, Turns
<1>g. \A label : AdminGoto(a, label) => Turns(a, label)
  BY DEF AdminGoto, Turns
<1>l. {"idle", "init_list", "init_create", "kick_lookup", "kick_delete", "revoke_invite"}
         \subseteq AdminLabels \ {"invite_recheck", "invite_create"}
  BY DEF AdminLabels
<1>o. AdminDone(a) /\ (AdminKeep \/ AdminError) => AdminAside(a)
  BY <1>d, <1>k, <1>e, <1>l DEF AdminAside
<1>m. ASSUME NEW label \in AdminLabels \ {"invite_recheck", "invite_create"},
             AdminGoto(a, label), AdminKeep \/ AdminError
      PROVE  AdminAside(a)
  BY <1>m, <1>g, <1>k, <1>e DEF AdminAside
<1>1. CASE InitHasOwner(a) \/ InitList(a)
  BY <1>1, <1>o, <1>m, <1>l DEF InitHasOwner, InitList
<1>2. CASE InitCreate(a)
  BY <1>2, <1>d, <1>h DEF InitCreate, AdminIssues, Writes
<1>3. CASE InviteHasOwner(a)
  <2>1. PICK role \in Roles :
           /\ inviting' = [inviting EXCEPT ![a] = [role |-> role, since |-> clock]]
           /\ apc' = [apc EXCEPT ![a] =
                 IF role = "owner" THEN "invite_recheck" ELSE "invite_create"]
    BY <1>3 DEF InviteHasOwner
  <2>2. \E label \in {"invite_recheck", "invite_create"} : Turns(a, label)
    BY <2>1, <1>t DEF Turns
  <2>3. inviting'[a].role \in Roles
    BY <2>1, <1>t
  <2> QED
    BY <1>3, <1>k, <2>2, <2>3 DEF InviteHasOwner, Invites
<1>4. CASE InviteRecheck(a)
  BY <1>4, <1>o, <1>k, <1>e DEF InviteRecheck, Rechecks
<1>5. CASE AdminInviteCreate(a)
  <2>1. PICK t \in FreshTokens, uses \in 1 .. MaxUses,
             expiresAt \in {0} \cup {now + InviteTTL : now \in inviting[a].since .. clock} :
           CreateInvite(t, inviting[a].role, uses, expiresAt)
    BY <1>5 DEF AdminInviteCreate
  <2>2. expiresAt \in Nat /\ uses \in Nat \ {0}
    BY <1>t, BoundAssumption
  <2> QED
    BY <1>5, <1>d, <1>h, <2>1, <2>2 DEF AdminInviteCreate, AdminIssues, Writes
<1>6. CASE KickPick(a)
  BY <1>6, <1>k, <1>l DEF KickPick, AdminAside, Turns
<1>7. CASE KickLookup(a)
  BY <1>7, <1>o, <1>m, <1>l DEF KickLookup
<1>8. CASE KickDelete(a)
  BY <1>8, <1>d, <1>h DEF KickDelete, AdminRemoves, Writes
<1>9. CASE RevokePick(a)
  BY <1>9, <1>k, <1>l DEF RevokePick, AdminAside, Turns
<1>10. CASE RevokeDelete(a)
  BY <1>10, <1>d, <1>h DEF RevokeDelete, AdminRevokes, Writes
<1>11. CASE AdminQuit(a)
  BY <1>11, <1>o DEF AdminQuit
<1> QED
  BY <1>1, <1>2, <1>3, <1>4, <1>5, <1>6, <1>7, <1>8, <1>9, <1>10, <1>11 DEF AdminStep

\* A stop cuts handler w off, or closes the store before it answers.
Halts(w) ==
    \/ pc'[w] = "idle" /\ req'[w] = NoRequest /\ loc'[w] = NoLocals
    \/ ~At(w, "idle") /\ pc'[w] = "reply" /\ req'[w] = req[w] /\ loc'[w] = ClosedAnswer(w)

\* A stop halts every handler and leaves the rest as it is.
LEMMA RestartKind ==
    ASSUME TypeOK, Restart
    PROVE  /\ RowsKept /\ UNCHANGED adminVars
           /\ spent'["store"] = spent["store"] /\ spent'["crash"] = spent["crash"] + 1
           /\ \A w \in Workers : Halts(w)
<1>1. ServerStop /\ UNCHANGED adminVars
  BY DEF Restart
<1>2. spent'["store"] = spent["store"] /\ spent'["crash"] = spent["crash"] + 1
  BY <1>1 DEF ServerStop, Mishap, TypeOK, TypeOKStore
<1> QED
  BY <1>1, <1>2, StopKinds DEF TypeOK, RowsKept, Halts, tables, At

\* The clock, the sweep and a stuttering step touch nothing of this.
LEMMA RestKind ==
    ASSUME TypeOK, Pass \/ RunExpiry \/ UNCHANGED vars
    PROVE  RowsKept /\ (Failed \/ NothingFailed) /\ UNCHANGED <<serverVars, adminVars>>
<1>1. CASE Pass
  BY <1>1 DEF Pass, Tick, tables, RowsKept, NothingFailed
<1>2. CASE RunExpiry
  BY <1>2 DEF RunExpiry, Sweep, Expire, StoreError, Mishap, tables, RowsKept, Failed,
              NothingFailed, TypeOK, TypeOKStore
<1>3. CASE UNCHANGED vars
  BY <1>3 DEF vars, storeVars, tables, RowsKept, NothingFailed
<1> QED
  BY <1>1, <1>2, <1>3

-----------------------------------------------------------------------------
(* Before there is an owner.                                               *)

\* Rows, uses and codes are those of tokens that have been handed out.
CodesIssued ==
    /\ \A t \in Tokens : InviteExists(t) \/ admitted[t] > 0 => t \in issued
    /\ \A w \in Workers : ~At(w, "idle") => req[w].code \in issued \cup {NoCode}

\* Whoever is past the check of an invitation saw an owner, and knows the role.
InvitersBesideOwner ==
    /\ \A w \in HandlersAt("invite_create") : HasOwner
    /\ \A a \in Admins : apc[a] \in {"invite_recheck", "invite_create"} =>
          HasOwner /\ inviting[a].role \in Roles

\* Without an owner there are bootstrap invites only, and the code of a JOIN that
\* saw no owner was handed out before there was one.
BootstrapRows ==
    /\ ~HasOwner => \A t \in Tokens : InviteExists(t) =>
          invites[t].role = "owner" /\ invites[t].expiresAt = 0 /\ invites[t].maxUses = 1
    /\ \A w \in HandlersAt("join_consume") :
          ~loc[w].hasOwner /\ InviteExists(req[w].code) => invites[req[w].code].role = "owner"

RoleHeld == \A w \in HandlersAt("join_add") : loc[w].role \in Roles

\* The inductive invariant.
Founded == CodesIssued /\ InvitersBesideOwner /\ BootstrapRows /\ RoleHeld

\* It implies the two invariants.
LEMMA FoundedImplies ==
    ASSUME TypeOK, OwnerOutOfReach, Founded
    PROVE  NothingBeforeOwner /\ BootstrapCodeIsOwner
<1>1. ~HasOwner => \A c \in Clients : ~IsMember(c)
  BY DEF TypeOK, TypeOKStore, OwnerOutOfReach, HasOwner, IsMember, Roles
<1> QED
  BY <1>1 DEF Founded, BootstrapRows, NothingBeforeOwner, BootstrapCodeIsOwner, Consumable

\* A handler's step keeps it.
LEMMA FoundedServe ==
    ASSUME TypeOK, TypeOK', OwnerOutOfReach, Founded, HasOwner => HasOwner',
           NEW w \in Workers, Serve(w)
    PROVE  Founded'
<1> USE DEF TypeOK, HandlersAt
<1>a. UNCHANGED <<apc, inviting>>
  BY DEF Serve, adminVars
<1>t. /\ pc \in [Workers -> Labels] /\ invites \in [Tokens -> InviteRow]
      /\ admitted \in [Tokens -> Nat] /\ issued \subseteq Tokens
      /\ \A v \in Workers : ~At(v, "idle") => req[v] \in Request
  BY DEF TypeOKServer, TypeOKStore, At
<1>s. InvitersBesideOwner /\ (\A v \in Workers \ {w} : pc'[v] = pc[v])
         /\ (pc'[w] = "invite_create" => HasOwner) => InvitersBesideOwner'
  BY <1>a DEF InvitersBesideOwner, At
<1>m. ASSUME NEW label, Moves(w, label)
      PROVE  pc'[w] = label /\ \A v \in Workers \ {w} : pc'[v] = pc[v] /\ loc'[v] = loc[v]
  BY <1>m, <1>t DEF Moves
<1>k. \* nothing changes in the tables, and the handler has not read anything
      ASSUME RowsKept, \A v \in Workers \ {w} : pc'[v] = pc[v] /\ req'[v] = req[v] /\ loc'[v] = loc[v],
             req'[w] \in {req[w], NoRequest}, ~At(w, "idle"),
             pc'[w] = "join_consume" => req'[w] = req[w] /\ loc'[w].hasOwner = HasOwner,
             pc'[w] # "join_add", pc'[w] = "invite_create" => HasOwner
      PROVE  Founded'
  <2>1. CodesIssued'
    BY <1>k DEF Founded, CodesIssued, RowsKept, InviteExists, At, NoRequest
  <2>2. InvitersBesideOwner'
    BY <1>k, <1>s DEF Founded
  <2>3. HasOwner' = HasOwner
    BY <1>k DEF RowsKept, HasOwner
  <2>4. BootstrapRows'
    <3>1. ~HasOwner' => \A t \in Tokens : InviteExists(t)' =>
             invites'[t].role = "owner" /\ invites'[t].expiresAt = 0 /\ invites'[t].maxUses = 1
      BY <1>k, <2>3 DEF Founded, BootstrapRows, RowsKept, InviteExists
    <3>2. ASSUME NEW v \in Workers, pc'[v] = "join_consume", ~loc'[v].hasOwner,
                 InviteExists(req[v].code)'
          PROVE  invites'[req'[v].code].role = "owner"
      <4>1. CASE v = w
        <5>1. req[w].code \in Tokens /\ InviteExists(req[w].code)
          BY <1>k, <2>1, <3>2, <4>1 DEF RowsKept, InviteExists, TypeOKServer, Request
        <5> QED
          BY <1>k, <3>2, <4>1, <5>1 DEF Founded, BootstrapRows, RowsKept
      <4>2. CASE v # w
        BY <1>k, <3>2, <4>2 DEF Founded, BootstrapRows, RowsKept, InviteExists, At
      <4> QED
        BY <4>1, <4>2
    <3> QED
      BY <3>1, <3>2 DEF BootstrapRows, At
  <2>5. RoleHeld'
    BY <1>k DEF Founded, RoleHeld, At
  <2> QED
    BY <2>1, <2>2, <2>4, <2>5 DEF Founded
<1>1. CASE Aside(w)
  BY <1>1, <1>k DEF Aside, Joining
<1>2. CASE LooksUp(w)
  BY <1>2, <1>k, <1>m DEF LooksUp, Moves, At
<1>3. CASE SeesOwner(w)
  BY <1>3, <1>k, <1>m DEF SeesOwner, Moves, At
<1>4. CASE SeesItself(w)
  <2>1. HasOwner
    BY <1>4, <1>t DEF SeesItself, IsOwner, HasOwner, At, Request
  <2> QED
    BY <1>4, <2>1, <1>k, <1>m DEF SeesItself, Moves, At
<1> DEFINE t == req[w].code
<1>5. CASE CountsUse(w)
  <2>1. t \in Tokens /\ invites[t] \in InviteRow /\ invites[t].role \in Roles
    BY <1>5, <1>t DEF CountsUse, At, TypeOKServer, Request, InviteRow, Consumable, InviteExists
  <2>2. \A x \in Tokens :
           /\ invites'[x].role = invites[x].role /\ invites'[x].maxUses = invites[x].maxUses
           /\ invites'[x].expiresAt = invites[x].expiresAt
    BY <1>5, <1>t, <2>1 DEF CountsUse, ConsumeInvite, InviteRow
  <2>3. HasOwner' = HasOwner /\ UNCHANGED <<issued, admitted, req>>
    BY <1>5 DEF CountsUse, HasOwner, Moves
  <2>4. /\ pc'[w] = "join_add" /\ At(w, "join_consume") /\ loc'[w].role \in Roles
        /\ \A v \in Workers \ {w} : pc'[v] = pc[v] /\ loc'[v] = loc[v]
    BY <1>5, <1>m, <2>1 DEF CountsUse
  <2>5. CodesIssued'
    BY <2>2, <2>3, <2>4 DEF Founded, CodesIssued, InviteExists, At
  <2>6. InvitersBesideOwner'
    BY <2>4, <1>s DEF Founded
  <2>7. BootstrapRows'
    <3>1. \A v \in Workers : pc'[v] = "join_consume" => v # w /\ req[v].code \in Tokens
      BY <2>4, <1>t DEF At, TypeOKServer, Request
    <3> QED
      BY <2>2, <2>3, <2>4, <3>1 DEF Founded, BootstrapRows, InviteExists, At
  <2>8. RoleHeld'
    BY <2>4 DEF Founded, RoleHeld, At
  <2> QED
    BY <2>5, <2>6, <2>7, <2>8 DEF Founded
<1>6. CASE BurnsUse(w)
  BY <1>6 DEF BurnsUse, Founded, BootstrapRows, Consumable
<1>7. CASE Admits(w)
  <2>1. t \in Tokens /\ At(w, "join_add")
    BY <1>7, <1>t DEF Admits, At, TypeOKServer, Request
  <2>2. t \in issued
    BY <2>1, CodeAssumption DEF Founded, CodesIssued, At
  <2>3. UNCHANGED <<invites, issued, req>> /\ \A x \in Tokens \ {t} : admitted'[x] = admitted[x]
    BY <1>7, <1>t DEF Admits, Moves
  <2>4. pc'[w] = "reply" /\ \A v \in Workers \ {w} : pc'[v] = pc[v] /\ loc'[v] = loc[v]
    BY <1>7, <1>m DEF Admits
  <2>5. CodesIssued'
    BY <2>1, <2>2, <2>3, <2>4 DEF Founded, CodesIssued, InviteExists, At
  <2>6. InvitersBesideOwner'
    BY <2>4, <1>s DEF Founded
  <2>7. BootstrapRows'
    BY <2>3, <2>4 DEF Founded, BootstrapRows, InviteExists, At
  <2>8. RoleHeld'
    BY <2>4 DEF Founded, RoleHeld, At
  <2> QED
    BY <2>5, <2>6, <2>7, <2>8 DEF Founded
<1>8. CASE Removes(w)
  <2>1. UNCHANGED <<invites, issued, admitted, req>> /\ At(w, "remove_delete")
    BY <1>8 DEF Removes, Moves
  <2>2. pc'[w] = "reply" /\ \A v \in Workers \ {w} : pc'[v] = pc[v] /\ loc'[v] = loc[v]
    BY <1>8, <1>m DEF Removes
  <2>3. CodesIssued'
    BY <2>1, <2>2 DEF Founded, CodesIssued, InviteExists, At
  <2>4. InvitersBesideOwner'
    BY <2>2, <1>s DEF Founded
  <2>5. BootstrapRows'
    BY <2>1, <2>2 DEF Founded, BootstrapRows, InviteExists, At
  <2>6. RoleHeld'
    BY <2>2 DEF Founded, RoleHeld, At
  <2> QED
    BY <2>3, <2>4, <2>5, <2>6 DEF Founded
<1>9. CASE Issues(w)
  <2>1. PICK x \in FreshTokens, expiresAt \in Nat : CreateInvite(x, "member", 1, expiresAt)
    BY <1>9 DEF Issues
  <2>2. HasOwner /\ HasOwner'
    BY <1>9 DEF Issues, Founded, InvitersBesideOwner
  <2>3. UNCHANGED <<req, admitted>> /\ At(w, "invite_create")
    BY <1>9 DEF Issues, Moves
  <2>4. pc'[w] = "reply" /\ \A v \in Workers \ {w} : pc'[v] = pc[v] /\ loc'[v] = loc[v]
    BY <1>9, <1>m DEF Issues
  <2>5. /\ issued' = issued \cup {x} /\ x \notin issued
        /\ \A y \in Tokens \ {x} : invites'[y] = invites[y]
    BY <2>1, <1>t DEF CreateInvite, FreshTokens
  <2>6. CodesIssued'
    BY <2>3, <2>4, <2>5 DEF Founded, CodesIssued, InviteExists, At
  <2>7. InvitersBesideOwner'
    BY <2>4, <1>s DEF Founded
  <2>8. BootstrapRows'
    <3>1. \A v \in Workers : pc'[v] = "join_consume" =>
             v # w /\ req[v].code \in Tokens \ {x}
      BY <2>4, <2>5, <1>t DEF At, TypeOKServer, Request, Founded, CodesIssued
    <3> QED
      BY <2>2, <2>3, <2>4, <2>5, <3>1 DEF Founded, BootstrapRows, InviteExists, At
  <2>9. RoleHeld'
    BY <2>4 DEF Founded, RoleHeld, At
  <2> QED
    BY <2>6, <2>7, <2>8, <2>9 DEF Founded
<1> QED
  BY <1>1, <1>2, <1>3, <1>4, <1>5, <1>6, <1>7, <1>8, <1>9, HandlerKinds DEF Serve

\* A session's step keeps it.
LEMMA FoundedAdminister ==
    ASSUME TypeOK, OwnerOutOfReach, Founded, HasOwner => HasOwner',
           NEW a \in Admins, Administer(a)
    PROVE  Founded'
<1> USE DEF TypeOK, HandlersAt
<1>u. UNCHANGED <<pc, req, loc>>
  BY DEF Administer, serverVars
<1>t. /\ apc \in [Admins -> AdminLabels] /\ invites \in [Tokens -> InviteRow]
      /\ issued \subseteq Tokens
      /\ \A v \in Workers : ~At(v, "idle") => req[v] \in Request
  BY DEF TypeOKServer, TypeOKStore, TypeOKAdmin, At
<1>h. RoleHeld'
  BY <1>u DEF Founded, RoleHeld, At
<1>s. ASSUME \A b \in Admins \ {a} : apc'[b] = apc[b] /\ inviting'[b] = inviting[b],
             apc'[a] \in {"invite_recheck", "invite_create"} =>
                HasOwner /\ inviting'[a].role \in Roles
      PROVE  InvitersBesideOwner'
  BY <1>s, <1>u DEF Founded, InvitersBesideOwner, At
<1>m. ASSUME NEW label, Turns(a, label)
      PROVE  apc'[a] = label
             /\ \A b \in Admins \ {a} : apc'[b] = apc[b] /\ inviting'[b] = inviting[b]
  BY <1>m, <1>t DEF Turns
<1>r. UNCHANGED <<invites, issued, admitted>> => CodesIssued' /\ BootstrapRows'
  BY <1>u DEF Founded, CodesIssued, BootstrapRows, InviteExists, At
<1>1. CASE AdminAside(a)
  BY <1>1, <1>h, <1>s, <1>m, <1>r DEF AdminAside, RowsKept, Founded
<1>2. CASE Invites(a)
  BY <1>2, <1>h, <1>s, <1>m, <1>r DEF Invites, RowsKept, Founded
<1>3. CASE Rechecks(a)
  <2>1. HasOwner /\ inviting[a].role \in Roles
    BY <1>3 DEF Rechecks, AdminAt, Founded, InvitersBesideOwner
  <2>2. inviting' = inviting /\ \A b \in Admins \ {a} : apc'[b] = apc[b]
    BY <1>3, <1>t DEF Rechecks, AdminGoto
  <2> QED
    BY <1>3, <2>1, <2>2, <1>h, <1>s, <1>r DEF Rechecks, RowsKept, Founded
<1>4. CASE AdminIssues(a)
  <2>0. PICK x \in FreshTokens : \E role, uses, expiresAt :
           /\ CreateInvite(x, role, uses, expiresAt)
           /\ HasOwner \/ (role = "owner" /\ uses = 1 /\ expiresAt = 0)
    BY <1>4 DEF AdminIssues, AdminAt, Founded, InvitersBesideOwner
  <2>1. PICK role, uses, expiresAt :
           /\ CreateInvite(x, role, uses, expiresAt)
           /\ HasOwner \/ (role = "owner" /\ uses = 1 /\ expiresAt = 0)
    BY <2>0
  <2>2. /\ issued' = issued \cup {x} /\ x \in Tokens /\ x \notin issued
        /\ \A y \in Tokens \ {x} : invites'[y] = invites[y]
        /\ invites'[x] = [role |-> role, maxUses |-> uses, uses |-> 0, expiresAt |-> expiresAt]
    BY <2>1, <1>t DEF CreateInvite, FreshTokens
  <2>3. UNCHANGED <<members, admitted>>
    BY <1>4 DEF AdminIssues
  <2>4. CodesIssued'
    BY <1>u, <2>2, <2>3 DEF Founded, CodesIssued, InviteExists, At
  <2>5. InvitersBesideOwner'
    BY <1>4, <1>m, <1>s DEF AdminIssues, Writes
  <2>6. BootstrapRows'
    <3>1. \A v \in Workers : pc[v] = "join_consume" => req[v].code \in Tokens \ {x}
      BY <2>2, <1>t DEF At, TypeOKServer, Request, Founded, CodesIssued
    <3>2. ~HasOwner' => ~HasOwner
      OBVIOUS
    <3>3. ~HasOwner' => \A y \in Tokens : InviteExists(y)' =>
             invites'[y].role = "owner" /\ invites'[y].expiresAt = 0 /\ invites'[y].maxUses = 1
      BY <2>1, <2>2, <3>2 DEF Founded, BootstrapRows, InviteExists
    <3> QED
      BY <1>u, <2>2, <3>1, <3>3 DEF Founded, BootstrapRows, InviteExists, At
  <2> QED
    BY <1>h, <2>4, <2>5, <2>6 DEF Founded
<1>5. CASE AdminRemoves(a)
  BY <1>5, <1>h, <1>s, <1>m, <1>r DEF AdminRemoves, Writes, Founded
<1>6. CASE AdminRevokes(a)
  <2>1. UNCHANGED <<issued, admitted>> /\ HasOwner' = HasOwner
    BY <1>6 DEF AdminRevokes, HasOwner
  <2>2. \A y \in Tokens : invites'[y] \in {invites[y], NoInvite}
    BY <1>6, <1>t DEF AdminRevokes, RevokeInvite
  <2>3. \A y \in Tokens : InviteExists(y)' => InviteExists(y) /\ invites'[y] = invites[y]
    BY <2>2 DEF InviteExists, NoInvite
  <2>4. CodesIssued'
    BY <1>u, <2>1, <2>3 DEF Founded, CodesIssued, At
  <2>5. InvitersBesideOwner'
    BY <1>6, <1>m, <1>s DEF AdminRevokes, Writes
  <2>6. BootstrapRows'
    <3>1. \A v \in Workers : pc[v] = "join_consume" => req[v].code \in Tokens
      BY <1>t DEF At, TypeOKServer, Request
    <3> QED
      BY <1>u, <2>1, <2>3, <3>1 DEF Founded, BootstrapRows, At
  <2> QED
    BY <1>h, <2>4, <2>5, <2>6 DEF Founded
<1> QED
  BY <1>1, <1>2, <1>3, <1>4, <1>5, <1>6, SessionKinds DEF Administer

\* So does every other step.
LEMMA FoundedStep ==
    ASSUME TypeOK, TypeOK', OwnerOutOfReach, Founded, [Next]_vars
    PROVE  Founded'
<1> USE DEF TypeOK, HandlersAt
<1>o. HasOwner => HasOwner'
  BY OwnerStep
<1>t. pc \in [Workers -> Labels]
  BY DEF TypeOKServer
<1>1. ASSUME NEW w \in Workers, Connect(w) PROVE Founded'
  <2>1. PICK r \in Requests : Accept(w, r) /\ UNCHANGED adminVars
    BY <1>1 DEF Connect
  <2>2. Start[r.cmd] \notin {"join_consume", "join_add", "invite_create"}
    BY StartFirst DEF Requests
  <2>3. RowsKept /\ HasOwner' = HasOwner /\ r.code \in issued \cup {NoCode}
    BY <2>1 DEF Accept, Keep, KeepTables, KeepHistory, tables, RowsKept, HasOwner, Requests
  <2>4. /\ pc'[w] = Start[r.cmd] /\ req'[w] = r
        /\ \A v \in Workers \ {w} : pc'[v] = pc[v] /\ req'[v] = req[v] /\ loc'[v] = loc[v]
    BY <2>1, <1>t DEF Accept, TypeOKServer
  <2>5. CodesIssued'
    BY <2>3, <2>4 DEF Founded, CodesIssued, RowsKept, InviteExists, At
  <2>6. InvitersBesideOwner'
    BY <2>1, <2>2, <2>3, <2>4 DEF Founded, InvitersBesideOwner, adminVars, At
  <2>7. BootstrapRows' /\ RoleHeld'
    BY <2>2, <2>3, <2>4 DEF Founded, BootstrapRows, RoleHeld, RowsKept, InviteExists, At
  <2> QED
    BY <2>5, <2>6, <2>7 DEF Founded
<1>2. ASSUME NEW w \in Workers, Serve(w) PROVE Founded'
  BY <1>2, <1>o, FoundedServe
<1>3. ASSUME NEW a \in Admins, Administer(a) PROVE Founded'
  BY <1>3, <1>o, FoundedAdminister
<1>4. CASE Restart
  <2>1. RowsKept /\ UNCHANGED adminVars /\ HasOwner' = HasOwner
    BY <1>4, RestartKind DEF RowsKept, HasOwner
  <2>2. \A w \in Workers : pc'[w] = "idle" \/ (pc'[w] = "reply" /\ ~At(w, "idle") /\ req'[w] = req[w])
    BY <1>4, RestartKind DEF Halts
  <2>3. CodesIssued'
    BY <2>1, <2>2 DEF Founded, CodesIssued, RowsKept, InviteExists, At
  <2> QED
    BY <2>1, <2>2, <2>3 DEF Founded, InvitersBesideOwner, BootstrapRows, RoleHeld,
                            RowsKept, InviteExists, adminVars, At
<1>5. CASE Pass \/ RunExpiry \/ UNCHANGED vars
  <2>1. RowsKept /\ UNCHANGED <<serverVars, adminVars>>
    BY <1>5, RestKind
  <2> QED
    BY <2>1 DEF Founded, CodesIssued, InvitersBesideOwner, BootstrapRows, RoleHeld, HasOwner,
                RowsKept, InviteExists, serverVars, adminVars, At
<1> QED
  BY <1>1, <1>2, <1>3, <1>4, <1>5 DEF Next

\* The inductive invariant holds in every state.
THEOREM AllIsFounded == Spec => []Founded
<1>1. Init => Founded
  BY DEF Init, StoreInit, ServerInit, AdminInit, NoInvite, InviteExists, HandlersAt, At,
         Founded, CodesIssued, InvitersBesideOwner, BootstrapRows, RoleHeld
<1>2. TypeOK /\ TypeOK' /\ OwnerOutOfReach /\ Founded /\ [Next]_vars => Founded'
  BY FoundedStep
<1> QED
  BY <1>1, <1>2, TypeCorrect, OwnerIsOutOfReach, PTL DEF Spec

\* Before there is an owner there are no members, and only bootstrap invites:
\* what `init` relies on when it shows an old owner invite again.
THEOREM BootstrapBeforeOwner == Spec => []NothingBeforeOwner
BY AllIsFounded, TypeCorrect, OwnerIsOutOfReach, FoundedImplies, PTL

\* A JOIN that saw no owner never uses up a member's invite.
THEOREM StaleJoinHoldsOwnerInvite == Spec => []BootstrapCodeIsOwner
BY AllIsFounded, TypeCorrect, OwnerIsOutOfReach, FoundedImplies, PTL

-----------------------------------------------------------------------------
(* Mailbox implements MemberLedger.                                        *)

Offers == [t \in Tokens |-> Offered(t)]
Tickets == [w \in Workers |-> Ticket(w)]

\* What the tables say decides what is offered.
LEMMA OffersKept == UNCHANGED invites => Offers' = Offers
BY DEF Offers, Offered

\* A ticket is held from ConsumeInvite to AddMember.
LEMMA TicketsOf ==
    ASSUME TypeOK, Founded
    PROVE  /\ Tickets \in [Workers -> Roles \cup {"none"}]
           /\ \A w \in Workers : Tickets[w] = IF At(w, "join_add") THEN loc[w].role ELSE "none"
BY DEF Tickets, Ticket, Founded, RoleHeld, HandlersAt

\* One handler moves and gets the ticket `role`.
LEMMA TicketGoes ==
    ASSUME TypeOK, TypeOK', Founded, Founded', NEW w \in Workers, NEW role,
           \A v \in Workers \ {w} : pc'[v] = pc[v] /\ loc'[v] = loc[v],
           role = IF pc'[w] = "join_add" THEN loc'[w].role ELSE "none"
    PROVE  Tickets' = [Tickets EXCEPT ![w] = role]
BY DEF Tickets, Ticket, At

\* A step of a handler is a step of the ledger.
LEMMA LedgerServe ==
    ASSUME TypeOK, TypeOK', OwnerOutOfReach, Founded, Founded', NEW w \in Workers, Serve(w)
    PROVE  [Ledger!Next]_<<members, issued, Offers, Tickets>>
<1> DEFINE t == req[w].code
<1> USE DEF TypeOK
<1>t. /\ pc \in [Workers -> Labels] /\ invites \in [Tokens -> InviteRow]
      /\ members \in [Clients -> Roles \cup {"none"}]
      /\ \A v \in Workers : ~At(v, "idle") => req[v] \in Request
  BY DEF TypeOKServer, TypeOKStore, At
<1>m. ASSUME NEW label, Moves(w, label)
      PROVE  pc'[w] = label /\ \A v \in Workers \ {w} : pc'[v] = pc[v] /\ loc'[v] = loc[v]
  BY <1>m, <1>t DEF Moves
<1>q. \* a move between two calls that hold no ticket
      ASSUME NEW label, Moves(w, label), label # "join_add", ~At(w, "join_add")
      PROVE  Tickets' = Tickets
  BY <1>m, <1>q, TicketsOf, TicketGoes
<1>1. CASE Aside(w)
  <2>1. Tickets' = [Tickets EXCEPT ![w] = "none"]
    BY <1>1, TicketGoes DEF Aside, Joining
  <2>2. Tickets' \in [Workers -> Roles \cup {"none"}]
        /\ \A k \in Workers : Tickets'[k] \in {Tickets[k], "none"}
    BY <2>1, TicketsOf
  <2>3. Offers' = Offers
    BY <1>1, OffersKept DEF Aside, RowsKept
  <2>4. Ledger!Lose
    BY <1>1, <2>2, <2>3 DEF Ledger!Lose, Offers, Tickets, Aside, RowsKept, Roles
  <2> QED
    BY <2>4 DEF Ledger!Next
<1>2. CASE LooksUp(w) \/ SeesOwner(w) \/ SeesItself(w)
  BY <1>2, <1>q, OffersKept DEF LooksUp, SeesOwner, SeesItself, RowsKept, At
<1>3. CASE CountsUse(w)
  <2>1. t \in Tokens /\ invites[t] \in InviteRow
    BY <1>3, <1>t DEF CountsUse, At, TypeOKServer, Request
  <2>2. Offers[t].left > 0
    BY <1>3, <2>1 DEF CountsUse, Consumable, Unused, Offers, Offered, InviteRow
  <2>3. Offers' = [Offers EXCEPT ![t].left = @ - 1]
    <3>1. \A x \in Tokens : Offers'[x] = [Offers EXCEPT ![t].left = @ - 1][x]
      BY <1>3, <1>t, <2>1 DEF CountsUse, ConsumeInvite, Offers, Offered, InviteRow
    <3> QED
      BY <3>1 DEF Offers
  <2>4. Offers[t].role \in Roles /\ (Offers[t].role = "owner" \/ HasOwner)
    BY <1>3, <2>1 DEF CountsUse, Consumable, InviteExists, InviteRow, Offers, Offered,
                      OwnerOutOfReach
  <2>5. Tickets[w] = "none"
    BY <1>3, TicketsOf DEF CountsUse, At
  <2>6. Tickets' = [Tickets EXCEPT ![w] = Offers[t].role]
    BY <1>3, <1>m, <2>1, TicketGoes DEF CountsUse, Offers, Offered
  <2>7. Ledger!Take(w, t)
    BY <1>3, <2>2, <2>3, <2>4, <2>5, <2>6
       DEF Ledger!Take, Ledger!Legitimate, Ledger!Owned, Offers, Tickets, CountsUse, HasOwner, Roles
  <2> QED
    BY <2>1, <2>7 DEF Ledger!Next
<1>4. CASE BurnsUse(w)
  BY <1>4 DEF BurnsUse, Founded, BootstrapRows, Consumable, HandlersAt
<1>5. CASE Admits(w)
  <2> DEFINE c == req[w].from
  <2>1. c \in Clients
    BY <1>5, <1>t DEF Admits, At, TypeOKServer, Request
  <2>2. Tickets[w] = loc[w].role /\ Tickets[w] \in Roles /\ (Tickets[w] = "owner" \/ HasOwner)
    BY <1>5, TicketsOf DEF Admits, Founded, RoleHeld, HandlersAt, OwnerOutOfReach, Roles
  <2>3. Tickets' = [Tickets EXCEPT ![w] = "none"]
    BY <1>5, <1>m, TicketGoes DEF Admits
  <2>4. Offers' = Offers
    BY <1>5, OffersKept DEF Admits
  <2>5. Ledger!Admit(w, c)
    BY <1>5, <2>2, <2>3, <2>4
       DEF Ledger!Admit, Ledger!Legitimate, Ledger!Owned, Offers, Tickets, Admits, CanAddMember,
           AddMember, HasOwner, Roles
  <2> QED
    BY <2>1, <2>5 DEF Ledger!Next
<1>6. CASE Removes(w)
  <2> DEFINE c == req[w].to
  <2>1. c \in Clients /\ Condemned(c)
    BY <1>6, <1>t DEF Removes, At, TypeOKServer, Request, Condemned, HandlersAt
  <2>2. \E d \in Clients \ {c} : members[d] = "owner"
    BY <2>1 DEF OwnerOutOfReach, IsOwner
  <2>3. Tickets' = Tickets /\ Offers' = Offers
    BY <1>6, <1>q, OffersKept DEF Removes, At
  <2>4. Ledger!Depart(c)
    BY <1>6, <2>2, <2>3 DEF Ledger!Depart, Offers, Tickets, Removes, DeleteMember
  <2> QED
    BY <2>1, <2>4 DEF Ledger!Next
<1>7. CASE Issues(w)
  <2>1. PICK x \in FreshTokens, expiresAt \in Nat : CreateInvite(x, "member", 1, expiresAt)
    BY <1>7 DEF Issues
  <2>2. HasOwner
    BY <1>7 DEF Issues, Founded, InvitersBesideOwner, HandlersAt
  <2>3. Offers' = [Offers EXCEPT ![x] = [role |-> "member", left |-> 1 - 0]]
    <3>1. \A y \in Tokens :
             Offers'[y] = [Offers EXCEPT ![x] = [role |-> "member", left |-> 1 - 0]][y]
      BY <1>t, <2>1 DEF CreateInvite, FreshTokens, Offers, Offered
    <3> QED
      BY <3>1 DEF Offers
  <2>4. Tickets' = Tickets
    BY <1>7, <1>q DEF Issues, At
  <2>5. Offers' = [Offers EXCEPT ![x] = Offers'[x]]
        /\ Offers'[x].role = "member" /\ Offers'[x].left > 0
    <3>1. Offers'[x] = [role |-> "member", left |-> 1 - 0]
      BY <2>3 DEF FreshTokens, Offers
    <3>2. Offers'[x].role = "member" /\ Offers'[x].left > 0
      BY <3>1
    <3>3. Offers' = [Offers EXCEPT ![x] = Offers'[x]]
      BY <2>3, <3>1, Zenon
    <3> QED
      BY <3>2, <3>3
  <2>6. Ledger!Offer(x)
    BY <1>7, <2>1, <2>2, <2>4, <2>5
       DEF Ledger!Offer, Ledger!Legitimate, Ledger!Owned, Offers, Tickets, Issues, CreateInvite,
           FreshTokens, HasOwner
  <2> QED
    BY <2>1, <2>6 DEF Ledger!Next, FreshTokens
<1> QED
  BY <1>1, <1>2, <1>3, <1>4, <1>5, <1>6, <1>7, HandlerKinds DEF Serve

\* What a session issues: an owner's place, or any place beside an owner.
LEMMA IssuedRow ==
    ASSUME Founded, NEW a \in Admins, AdminIssues(a)
    PROVE  \E x \in FreshTokens, role \in Roles, uses \in Nat \ {0}, expiresAt \in Nat :
              CreateInvite(x, role, uses, expiresAt) /\ (role = "owner" \/ HasOwner)
<1>1. 1 \in Nat \ {0} /\ 0 \in Nat /\ "owner" \in Roles
  BY DEF Roles
<1> QED
  BY <1>1 DEF AdminIssues, AdminAt, Founded, InvitersBesideOwner

\* A step of a session is a step of the ledger.
LEMMA LedgerAdminister ==
    ASSUME TypeOK, OwnerOutOfReach, Founded, NEW a \in Admins, Administer(a)
    PROVE  [Ledger!Next]_<<members, issued, Offers, Tickets>>
<1> USE DEF TypeOK
<1>t. invites \in [Tokens -> InviteRow] /\ members \in [Clients -> Roles \cup {"none"}]
  BY DEF TypeOKStore
<1>u. Tickets' = Tickets
  BY DEF Administer, serverVars, Tickets, Ticket, At
<1>1. CASE AdminAside(a) \/ Invites(a) \/ Rechecks(a)
  BY <1>1, <1>u, OffersKept DEF AdminAside, Invites, Rechecks, RowsKept
<1>2. CASE AdminIssues(a)
  <2>1. PICK x \in FreshTokens, role \in Roles, uses \in Nat \ {0}, expiresAt \in Nat :
           CreateInvite(x, role, uses, expiresAt) /\ (role = "owner" \/ HasOwner)
    BY <1>2, IssuedRow
  <2>2. Offers' = [Offers EXCEPT ![x] = [role |-> role, left |-> uses - 0]]
    <3>1. \A y \in Tokens :
             Offers'[y] = [Offers EXCEPT ![x] = [role |-> role, left |-> uses - 0]][y]
      BY <1>t, <2>1 DEF CreateInvite, FreshTokens, Offers, Offered
    <3> QED
      BY <3>1 DEF Offers
  <2>3. Offers'[x] = [role |-> role, left |-> uses - 0]
    BY <2>2 DEF FreshTokens, Offers
  <2>4. Offers'[x].role = role /\ Offers'[x].left > 0
    BY <2>3
  <2>5. Offers' = [Offers EXCEPT ![x] = Offers'[x]]
    BY <2>2, <2>3, Zenon
  <2>6. Ledger!Offer(x)
    BY <1>2, <1>u, <2>1, <2>4, <2>5
       DEF Ledger!Offer, Ledger!Legitimate, Ledger!Owned, Offers, Tickets, AdminIssues,
           CreateInvite, FreshTokens, HasOwner, Roles
  <2> QED
    BY <2>6 DEF Ledger!Next, FreshTokens
<1>3. CASE AdminRemoves(a)
  <2> DEFINE c == kicking[a]
  <2>1. Offers' = Offers
    BY <1>3, OffersKept DEF AdminRemoves
  <2>2. CASE c \in Clients
    <3>1. \E d \in Clients \ {c} : members[d] = "owner"
      BY <1>3, <2>2 DEF AdminRemoves, Condemned, OwnerOutOfReach, IsOwner
    <3>2. Ledger!Depart(c)
      BY <1>3, <1>u, <2>1, <3>1 DEF Ledger!Depart, Offers, Tickets, AdminRemoves, DeleteMember
    <3> QED
      BY <2>2, <3>2 DEF Ledger!Next
  <2>3. CASE c \notin Clients
    <3>1. UNCHANGED members
      BY <1>3, <1>t, <2>3 DEF AdminRemoves, DeleteMember
    <3> QED
      BY <1>3, <1>u, <2>1, <3>1 DEF AdminRemoves
  <2> QED
    BY <2>2, <2>3
<1>4. CASE AdminRevokes(a)
  <2> DEFINE t == revoking[a]
  <2>1. CASE t \in Tokens
    <3>1. Offers' = [Offers EXCEPT ![t] = [role |-> "none", left |-> 0]]
      <4>1. \A y \in Tokens :
               Offers'[y] = [Offers EXCEPT ![t] = [role |-> "none", left |-> 0]][y]
        BY <1>4, <1>t, <2>1 DEF AdminRevokes, RevokeInvite, NoInvite, Offers, Offered
      <4> QED
        BY <4>1 DEF Offers
    <3>2. Ledger!Withdraw(t)
      BY <1>4, <1>u, <3>1 DEF Ledger!Withdraw, Ledger!NoOffer, Offers, Tickets, AdminRevokes
    <3> QED
      BY <2>1, <3>2 DEF Ledger!Next
  <2>2. CASE t \notin Tokens
    <3>1. UNCHANGED invites
      BY <1>4, <1>t, <2>2 DEF AdminRevokes, RevokeInvite
    <3> QED
      BY <1>4, <1>u, <3>1, OffersKept DEF AdminRevokes
  <2> QED
    BY <2>1, <2>2
<1> QED
  BY <1>1, <1>2, <1>3, <1>4, SessionKinds DEF Administer

\* So is every other step.
LEMMA LedgerStep ==
    ASSUME TypeOK, TypeOK', OwnerOutOfReach, Founded, Founded', [Next]_vars
    PROVE  [Ledger!Next]_<<members, issued, Offers, Tickets>>
<1>1. ASSUME NEW w \in Workers, Connect(w)
      PROVE  UNCHANGED <<members, issued, Offers, Tickets>>
  <2>1. PICK r \in Requests : Accept(w, r) /\ UNCHANGED adminVars
    BY <1>1 DEF Connect
  <2>2. Start[r.cmd] # "join_add"
    BY StartFirst DEF Requests
  <2>3. Tickets' = [Tickets EXCEPT ![w] = "none"]
    <3>1. pc'[w] # "join_add" /\ \A v \in Workers \ {w} : pc'[v] = pc[v] /\ loc'[v] = loc[v]
      BY <2>1, <2>2 DEF Accept, TypeOK, TypeOKServer
    <3> QED
      BY <3>1, TicketGoes
  <2>4. Tickets' = Tickets
    BY <2>1, <2>3, TicketsOf DEF Accept, At
  <2> QED
    BY <2>1, <2>4, OffersKept DEF Accept, Keep, KeepTables, tables
<1>2. CASE Restart
  <2>1. \A w \in Workers : Tickets'[w] = "none"
    BY <1>2, RestartKind DEF Halts, Tickets, Ticket, At
  <2>2. Tickets' \in [Workers -> {"none", "member", "owner"}]
        /\ \A k \in Workers : Tickets'[k] \in {Tickets[k], "none"}
    BY <2>1 DEF Tickets
  <2>3. RowsKept /\ Offers' = Offers
    BY <1>2, RestartKind, OffersKept DEF RowsKept
  <2>4. Ledger!Lose
    BY <2>2, <2>3 DEF Ledger!Lose, Offers, Tickets, RowsKept
  <2> QED
    BY <2>4 DEF Ledger!Next
<1>3. CASE Pass \/ RunExpiry \/ UNCHANGED vars
  <2>1. RowsKept /\ UNCHANGED serverVars
    BY <1>3, RestKind
  <2>2. Tickets' = Tickets
    BY <2>1 DEF serverVars, Tickets, Ticket, At
  <2> QED
    BY <2>1, <2>2, OffersKept DEF RowsKept
<1> QED
  BY <1>1, <1>2, <1>3, LedgerServe, LedgerAdminister DEF Next

\* A new mailbox, or one in use that has an owner, is a ledger without offers.
LEMMA LedgerInit == Init => Ledger!Init
<1> SUFFICES ASSUME Init PROVE Ledger!Init
  OBVIOUS
<1>1. \A t \in Tokens : Offered(t) = [role |-> "none", left |-> 0]
  BY DEF Init, StoreInit, Offered, NoInvite
<1>2. \A w \in Workers : Ticket(w) = "none"
  BY DEF Init, ServerInit, Ticket, At
<1>3. members \in [Clients -> Roles \cup {"none"}] /\ issued = {}
      /\ ((\E c \in Clients : members[c] = "member") => \E c \in Clients : members[c] = "owner")
  BY DatabaseAssumption DEF Init, StoreInit
<1> QED
  BY <1>1, <1>2, <1>3
     DEF Ledger!Init, Ledger!NoOffer, Ledger!Legitimate, Ledger!Owned, Roles

\* The mailbox, with its separate store calls, stale look-ups, failed calls and
\* restarts, keeps the promises of the ledger.
THEOREM MailboxIsLedger == Spec => ImplementsLedger
<1>1. Init => Ledger!Init
  BY LedgerInit
<1>2. TypeOK /\ TypeOK' /\ OwnerOutOfReach /\ Founded /\ Founded' /\ [Next]_vars
         => [Ledger!Next]_(Ledger!ledger)
  BY LedgerStep DEF Ledger!ledger, Offers, Tickets
<1> QED
  BY <1>1, <1>2, TypeCorrect, OwnerIsOutOfReach, AllIsFounded, PTL
     DEF Spec, ImplementsLedger, Ledger!Spec

-----------------------------------------------------------------------------
(* Uses of invites.                                                        *)

Holders(t) == {w \in HandlersAt("join_add") : req[w].code = t}

\* Counting the handlers in a set.
LEMMA Counting ==
    ASSUME NEW S \in SUBSET Workers
    PROVE  /\ Cardinality(S) \in Nat /\ Cardinality(S) <= Cardinality(Workers)
           /\ S = {} => Cardinality(S) = 0
           /\ \A w \in S : Cardinality(S \ {w}) = Cardinality(S) - 1
           /\ \A w \in Workers \ S : Cardinality(S \cup {w}) = Cardinality(S) + 1
           /\ \A T \in SUBSET S : Cardinality(T) \in Nat /\ Cardinality(T) <= Cardinality(S)
<1>1. IsFiniteSet(S) /\ Cardinality(S) <= Cardinality(Workers)
  BY WorkerAssumption, FS_Subset
<1> QED
  BY <1>1, FS_CardinalityType, FS_EmptySet, FS_AddElement, FS_RemoveElement, FS_Subset

\* Only handler w moves: the holders of a token stay, or w joins or leaves them.
LEMMA HoldersGo ==
    ASSUME TypeOK, TypeOK', NEW w \in Workers, NEW t \in Tokens,
           \A v \in Workers \ {w} : pc'[v] = pc[v] /\ req'[v] = req[v]
    PROVE  /\ Cardinality(Holders(t)) \in Nat
           /\ pc'[w] # "join_add" =>
                 Cardinality(Holders(t)') =
                    Cardinality(Holders(t)) - (IF w \in Holders(t) THEN 1 ELSE 0)
           /\ ~At(w, "join_add") /\ pc'[w] = "join_add" =>
                 Cardinality(Holders(t)') =
                    Cardinality(Holders(t)) + (IF req'[w].code = t THEN 1 ELSE 0)
<1> USE DEF Holders, HandlersAt, At
<1>1. Holders(t) \in SUBSET Workers
  OBVIOUS
<1>2. pc'[w] # "join_add" => Holders(t)' = Holders(t) \ {w}
  OBVIOUS
<1>3. ~At(w, "join_add") /\ pc'[w] = "join_add" =>
         Holders(t)' = IF req'[w].code = t THEN Holders(t) \cup {w} ELSE Holders(t)
  OBVIOUS
<1>4. w \notin Holders(t) => Holders(t) \ {w} = Holders(t)
  OBVIOUS
<1>5. ~At(w, "join_add") => w \notin Holders(t)
  OBVIOUS
<1> HIDE DEF Holders
<1> QED
  BY <1>1, <1>2, <1>3, <1>4, <1>5, Counting

\* Nobody holds a use of a token that has not been handed out.
LEMMA FreshUnheld ==
    ASSUME TypeOK, Founded, NEW t \in FreshTokens
    PROVE  Holders(t) = {} /\ admitted[t] = 0
<1>1. \A w \in Workers : At(w, "join_add") => req[w].code \in issued
  BY DEF TypeOK, TypeOKServer, Founded, CodesIssued, At
<1>2. admitted[t] \in Nat /\ ~(admitted[t] > 0)
  BY DEF TypeOK, TypeOKStore, Founded, CodesIssued, FreshTokens
<1> QED
  BY <1>1, <1>2 DEF Holders, HandlersAt, FreshTokens

\* The uses counted for a token cover its members and the uses that are held.
Covered(t) ==
    /\ admitted[t] + Cardinality(Holders(t)) <= invites[t].uses
    /\ invites[t].uses <= invites[t].maxUses

\* A step of a handler keeps each token covered.
LEMMA CoveredServe ==
    ASSUME TypeOK, TypeOK', Founded, NEW t \in Tokens, InviteExists(t) => Covered(t),
           NEW w \in Workers, Serve(w), InviteExists(t)'
    PROVE  Covered(t)'
<1> DEFINE code == req[w].code
<1>t. /\ pc \in [Workers -> Labels] /\ invites \in [Tokens -> InviteRow]
      /\ admitted \in [Tokens -> Nat] /\ issued \subseteq Tokens
      /\ \A v \in Workers : ~At(v, "idle") => req[v] \in Request
  BY DEF TypeOK, TypeOKServer, TypeOKStore, At
<1>n. admitted[t] \in Nat /\ invites[t].uses \in Nat /\ invites[t].maxUses \in Nat
  BY <1>t DEF InviteRow
<1>m. ASSUME NEW label, Moves(w, label)
      PROVE  pc'[w] = label /\ \A v \in Workers \ {w} : pc'[v] = pc[v] /\ req'[v] = req[v]
  BY <1>m, <1>t DEF Moves
<1>k. \* the handler leaves or keeps off AddMember, and nothing changes in the row
      ASSUME UNCHANGED <<invites, admitted>>, pc'[w] # "join_add",
             \A v \in Workers \ {w} : pc'[v] = pc[v] /\ req'[v] = req[v]
      PROVE  Covered(t)'
  BY <1>k, <1>n, HoldersGo DEF Covered, InviteExists
<1>1. CASE Aside(w)
  BY <1>1, <1>k DEF Aside, RowsKept, Joining
<1>2. CASE LooksUp(w) \/ SeesOwner(w) \/ SeesItself(w)
  BY <1>2, <1>k, <1>m DEF LooksUp, SeesOwner, SeesItself, RowsKept
<1>3. CASE CountsUse(w)
  <2>1. pc'[w] = "join_add" /\ ~At(w, "join_add") /\ req' = req /\ admitted' = admitted
        /\ \A v \in Workers \ {w} : pc'[v] = pc[v]
    BY <1>3, <1>m DEF CountsUse, Moves, At
  <2>2. Cardinality(Holders(t)) \in Nat
        /\ Cardinality(Holders(t)') = Cardinality(Holders(t)) + (IF code = t THEN 1 ELSE 0)
    BY <2>1, HoldersGo
  <2>3. /\ invites'[t].uses = invites[t].uses + (IF code = t THEN 1 ELSE 0)
        /\ invites'[t].maxUses = invites[t].maxUses /\ invites'[t].role = invites[t].role
    BY <1>3, <1>t DEF CountsUse, ConsumeInvite, InviteRow
  <2>4. code = t => invites[t].uses < invites[t].maxUses
    BY <1>3 DEF CountsUse, Consumable, Unused
  <2>5. Covered(t)
    BY <2>3 DEF InviteExists
  <2> QED
    BY <1>n, <2>1, <2>2, <2>3, <2>4, <2>5 DEF Covered
<1>4. CASE BurnsUse(w)
  BY <1>4 DEF BurnsUse, Founded, BootstrapRows, Consumable, HandlersAt
<1>5. CASE Admits(w)
  <2>1. /\ pc'[w] = "reply" /\ At(w, "join_add") /\ req' = req /\ invites' = invites
        /\ \A v \in Workers \ {w} : pc'[v] = pc[v]
    BY <1>5, <1>m DEF Admits, Moves
  <2>2. Cardinality(Holders(t)) \in Nat
        /\ Cardinality(Holders(t)') = Cardinality(Holders(t)) - (IF code = t THEN 1 ELSE 0)
    BY <2>1, HoldersGo DEF Holders, HandlersAt
  <2>3. admitted'[t] = admitted[t] + (IF code = t THEN 1 ELSE 0)
    BY <1>5, <1>t DEF Admits
  <2> QED
    BY <1>n, <2>1, <2>2, <2>3 DEF Covered, InviteExists
<1>6. CASE Removes(w)
  BY <1>6, <1>k, <1>m DEF Removes
<1>7. CASE Issues(w)
  <2>1. PICK x \in FreshTokens, expiresAt \in Nat : CreateInvite(x, "member", 1, expiresAt)
    BY <1>7 DEF Issues
  <2>2. /\ admitted' = admitted /\ pc'[w] = "reply" /\ At(w, "invite_create")
        /\ \A v \in Workers \ {w} : pc'[v] = pc[v] /\ req'[v] = req[v]
    BY <1>7, <1>m DEF Issues
  <2>3. Cardinality(Holders(t)) \in Nat /\ Cardinality(Holders(t)') = Cardinality(Holders(t))
    BY <2>2, HoldersGo DEF Holders, HandlersAt, At
  <2>4. CASE t = x
    <3>1. invites'[t].uses = 0 /\ invites'[t].maxUses = 1
      BY <1>t, <2>1, <2>4 DEF CreateInvite
    <3>2. admitted[t] = 0 /\ Cardinality(Holders(t)) = 0
      BY <2>4, FreshUnheld, Counting DEF Holders, HandlersAt
    <3> QED
      BY <2>2, <2>3, <3>1, <3>2 DEF Covered
  <2>5. CASE t # x
    BY <1>t, <2>1, <2>2, <2>3, <2>5 DEF CreateInvite, Covered, InviteExists, FreshTokens
  <2> QED
    BY <2>4, <2>5
<1> QED
  BY <1>1, <1>2, <1>3, <1>4, <1>5, <1>6, <1>7, HandlerKinds DEF Serve

\* So does a step of a session.
LEMMA CoveredAdminister ==
    ASSUME TypeOK, Founded, NEW t \in Tokens, InviteExists(t) => Covered(t),
           NEW a \in Admins, Administer(a), InviteExists(t)'
    PROVE  Covered(t)'
<1>t. invites \in [Tokens -> InviteRow] /\ issued \subseteq Tokens
  BY DEF TypeOK, TypeOKStore
<1>u. Holders(t)' = Holders(t)
  BY DEF Administer, serverVars, Holders, HandlersAt, At
<1>k. UNCHANGED <<invites, admitted>> => Covered(t)'
  BY <1>u DEF Covered, InviteExists
<1>1. CASE AdminAside(a) \/ Invites(a) \/ Rechecks(a) \/ AdminRemoves(a)
  BY <1>1, <1>k DEF AdminAside, Invites, Rechecks, AdminRemoves, RowsKept
<1>2. CASE AdminIssues(a)
  <2>1. PICK x \in FreshTokens, role \in Roles, uses \in Nat \ {0}, expiresAt \in Nat :
           CreateInvite(x, role, uses, expiresAt)
    BY <1>2, IssuedRow
  <2>2. admitted' = admitted
    BY <1>2 DEF AdminIssues
  <2>3. CASE t = x
    <3>1. invites'[t].uses = 0 /\ invites'[t].maxUses = uses
      BY <1>t, <2>1, <2>3 DEF CreateInvite
    <3>2. admitted[t] = 0 /\ Cardinality(Holders(t)) = 0
      BY <2>3, FreshUnheld, Counting DEF Holders, HandlersAt
    <3> QED
      BY <1>u, <2>2, <3>1, <3>2 DEF Covered
  <2>4. CASE t # x
    BY <1>t, <1>u, <2>1, <2>2, <2>4 DEF CreateInvite, Covered, InviteExists, FreshTokens
  <2> QED
    BY <2>3, <2>4
<1>3. CASE AdminRevokes(a)
  <2>1. invites'[t] = invites[t] \/ invites'[t] = NoInvite
    BY <1>3, <1>t DEF AdminRevokes, RevokeInvite
  <2> QED
    BY <1>3, <1>u, <2>1 DEF AdminRevokes, Covered, InviteExists, NoInvite
<1> QED
  BY <1>1, <1>2, <1>3, SessionKinds DEF Administer

\* So does every other step.
LEMMA CoveredStep ==
    ASSUME TypeOK, TypeOK', Founded, AdmittedWithinUses, [Next]_vars
    PROVE  AdmittedWithinUses'
<1> SUFFICES ASSUME NEW t \in Tokens, InviteExists(t)' PROVE Covered(t)'
  BY DEF AdmittedWithinUses, Covered, Holders
<1>t. InviteExists(t) => Covered(t)
  BY DEF AdmittedWithinUses, Covered, Holders
<1>1. ASSUME NEW w \in Workers, Connect(w) PROVE Covered(t)'
  <2>1. PICK r \in Requests : Accept(w, r)
    BY <1>1 DEF Connect
  <2>2. Start[r.cmd] # "join_add"
    BY StartFirst DEF Requests
  <2>3. /\ pc'[w] # "join_add" /\ At(w, "idle")
        /\ \A v \in Workers \ {w} : pc'[v] = pc[v] /\ req'[v] = req[v]
    BY <2>1, <2>2 DEF Accept, TypeOK, TypeOKServer
  <2>4. Cardinality(Holders(t)) \in Nat /\ Cardinality(Holders(t)') = Cardinality(Holders(t))
    BY <2>3, HoldersGo DEF Holders, HandlersAt, At
  <2> QED
    BY <1>t, <2>1, <2>4
       DEF Accept, Keep, KeepTables, KeepHistory, tables, Covered, InviteExists
<1>2. ASSUME NEW w \in Workers, Serve(w) PROVE Covered(t)'
  BY <1>2, <1>t, CoveredServe
<1>3. ASSUME NEW a \in Admins, Administer(a) PROVE Covered(t)'
  BY <1>3, <1>t, CoveredAdminister
<1>4. CASE Restart
  <2>1. UNCHANGED <<invites, admitted>>
    BY <1>4, RestartKind DEF RowsKept
  <2>2. Holders(t)' = {} /\ Holders(t) \in SUBSET Workers
    BY <1>4, RestartKind DEF Halts, Holders, HandlersAt, At
  <2>3. Cardinality(Holders(t)') = 0 /\ Cardinality(Holders(t)) \in Nat
    BY <2>2, FS_EmptySet, Counting
  <2>4. admitted[t] \in Nat /\ invites[t].uses \in Nat
    BY DEF TypeOK, TypeOKStore, InviteRow
  <2> QED
    BY <1>t, <2>1, <2>3, <2>4 DEF Covered, InviteExists
<1>5. CASE Pass \/ RunExpiry \/ UNCHANGED vars
  BY <1>5, <1>t, RestKind DEF RowsKept, serverVars, Covered, Holders, HandlersAt, At, InviteExists
<1> QED
  BY <1>1, <1>2, <1>3, <1>4, <1>5 DEF Next

\* A token never adds more members than its use limit, whatever JOINs race or
\* are cut off.
THEOREM NoInviteOverused == Spec => []AdmittedWithinUses
<1>1. Init => AdmittedWithinUses
  BY DEF Init, StoreInit, NoInvite, InviteExists, AdmittedWithinUses
<1>2. TypeOK /\ TypeOK' /\ Founded /\ AdmittedWithinUses /\ [Next]_vars => AdmittedWithinUses'
  BY CoveredStep
<1> QED
  BY <1>1, <1>2, TypeCorrect, AllIsFounded, PTL DEF Spec

-----------------------------------------------------------------------------
(* Clients on one connection at a time.                                    *)

OneConnection ==
    \A v, w \in Workers :
        ~At(v, "idle") /\ ~At(w, "idle") /\ req[v].from = req[w].from => v = w

\* A handler keeps its request until its connection closes.
LEMMA KeepsRequest ==
    ASSUME TypeOK, NEW w \in Workers, Serve(w)
    PROVE  /\ ~At(w, "idle")
           /\ \A v \in Workers \ {w} : pc'[v] = pc[v] /\ req'[v] = req[v]
           /\ pc'[w] # "idle" => req'[w] = req[w]
<1>1. pc \in [Workers -> Labels]
  BY DEF TypeOK, TypeOKServer
<1>2. \A label : Moves(w, label) => req' = req /\ \A v \in Workers \ {w} : pc'[v] = pc[v]
  BY <1>1 DEF Moves
<1>3. CASE Aside(w)
  BY <1>3 DEF Aside
<1>4. CASE LooksUp(w) \/ SeesOwner(w) \/ CountsUse(w) \/ Admits(w) \/ Removes(w)
           \/ SeesItself(w) \/ Issues(w)
  BY <1>2, <1>4 DEF LooksUp, SeesOwner, CountsUse, Admits, Removes, SeesItself, Issues, At
<1>5. CASE JoinConsume(w)
  BY <1>1, <1>5 DEF JoinConsume, Goto, Answer, FailWith, At
<1>6. BurnsUse(w) => JoinConsume(w)
  BY DEF Serve, WorkerStep, BurnsUse, At, JoinLookup, JoinHasOwner, JoinAdd, DepSender,
         DepRecipient, DepQuota, DepInsert, FetchMember, FetchQuery, DeleteOne, LeaveLookup,
         LeaveQuery, RevokeOwner, RemoveLookup, RemoveDelete, InviteOwner, InviteCreate,
         ListOwner, ListMembers, Reply
<1> QED
  BY <1>3, <1>4, <1>5, <1>6, HandlerKinds DEF Serve

LEMMA OneConnectionStep ==
    ASSUME SerialClients, TypeOK, OneConnection, [Next]_vars
    PROVE  OneConnection'
<1>1. ASSUME NEW w \in Workers, Connect(w) PROVE OneConnection'
  <2>1. PICK r \in Requests : Accept(w, r)
    BY <1>1 DEF Connect
  <2>2. /\ req'[w] = r
        /\ \A v \in Workers \ {w} : pc'[v] = pc[v] /\ req'[v] = req[v]
        /\ \A v \in Workers : At(v, "idle") \/ req[v].from # r.from
    BY <2>1 DEF Accept, TypeOK, TypeOKServer
  <2> QED
    BY <2>2 DEF OneConnection, At
<1>2. ASSUME NEW w \in Workers, Serve(w) PROVE OneConnection'
  BY <1>2, KeepsRequest DEF OneConnection, At
<1>3. CASE Restart
  BY <1>3, RestartKind DEF Halts, OneConnection, At
<1>4. ASSUME UNCHANGED serverVars PROVE OneConnection'
  BY <1>4 DEF serverVars, OneConnection, At
<1> QED
  BY <1>1, <1>2, <1>3, <1>4, RestKind DEF Next, Administer

\* The requests under way are those of different clients.
LEMMA ClientsAreSerial == ASSUME SerialClients PROVE Spec => []OneConnection
<1>1. Init => OneConnection
  BY DEF Init, ServerInit, OneConnection, At
<1>2. TypeOK /\ OneConnection /\ [Next]_vars => OneConnection'
  BY OneConnectionStep
<1> QED
  BY <1>1, <1>2, TypeCorrect, PTL DEF Spec

\* JOINs with token t that will meet their client's row.
Doomed(t) ==
    {w \in Workers : pc[w] \in Joining /\ req[w].code = t /\ IsMember(req[w].from)}

\* Each use counted for a token, and each that a JOIN is about to waste, is a
\* member, is held, or is owed to a failed call or a stop.
Owed(t) ==
    invites[t].uses + Cardinality(Doomed(t)) <=
        admitted[t] + Cardinality(Holders(t)) + spent["store"] + Cardinality(Workers) * spent["crash"]

UsesOwed == \A t \in Tokens : InviteExists(t) => Owed(t)

LEMMA OwedTypes ==
    ASSUME TypeOK, NEW t \in Tokens
    PROVE  /\ invites[t].uses \in Nat /\ admitted[t] \in Nat
           /\ spent["store"] \in Nat /\ spent["crash"] \in Nat
           /\ Cardinality(Workers) \in Nat /\ Cardinality(Workers) * spent["crash"] \in Nat
           /\ Doomed(t) \in SUBSET Workers /\ Cardinality(Doomed(t)) \in Nat
           /\ Holders(t) \in SUBSET Workers /\ Cardinality(Holders(t)) \in Nat
<1>1. Doomed(t) \in SUBSET Workers /\ Holders(t) \in SUBSET Workers
  BY DEF Doomed, Holders, HandlersAt
<1>2. invites[t].uses \in Nat /\ admitted[t] \in Nat /\ spent["store"] \in Nat
      /\ spent["crash"] \in Nat
  BY DEF TypeOK, TypeOKStore, InviteRow
<1>3. Cardinality(Workers) \in Nat
  BY WorkerAssumption, FS_CardinalityType
<1>4. Cardinality(Workers) * spent["crash"] \in Nat
  BY <1>2, <1>3
<1> QED
  BY <1>1, <1>2, <1>3, <1>4, Counting

\* A handler that is not in a JOIN after its step dooms nothing more.
LEMMA DoomedGo ==
    ASSUME TypeOK, NEW t \in Tokens, NEW w \in Workers, pc'[w] \notin Joining,
           \A v \in Workers \ {w} :
              /\ pc'[v] = pc[v] /\ req'[v] = req[v]
              /\ pc[v] \in Joining /\ IsMember(req[v].from)' => IsMember(req[v].from)
    PROVE  /\ Cardinality(Doomed(t)') \in Nat
           /\ Cardinality(Doomed(t)') <=
                 Cardinality(Doomed(t)) - (IF w \in Doomed(t) THEN 1 ELSE 0)
<1>1. Doomed(t) \in SUBSET Workers
  BY DEF Doomed
<1>2. Doomed(t)' \in SUBSET (Doomed(t) \ {w})
  BY DEF Doomed, IsMember
<1>3. CASE w \in Doomed(t)
  <2>1. Cardinality(Doomed(t) \ {w}) = Cardinality(Doomed(t)) - 1
    BY <1>1, <1>3, Counting
  <2>2. Cardinality(Doomed(t)') \in Nat
        /\ Cardinality(Doomed(t)') <= Cardinality(Doomed(t) \ {w})
    <3>1. Doomed(t) \ {w} \in SUBSET Workers
      BY <1>1
    <3> QED
      BY <1>2, <3>1, Counting
  <2> QED
    BY <1>3, <2>1, <2>2
<1>4. CASE w \notin Doomed(t)
  <2>1. Doomed(t)' \in SUBSET Doomed(t)
    BY <1>2
  <2> QED
    BY <1>1, <1>4, <2>1, Counting
<1> QED
  BY <1>3, <1>4

\* A step of a handler leaves the uses owed.
LEMMA OwedServe ==
    ASSUME TypeOK, TypeOK', Founded, OneConnection,
           NEW t \in Tokens, InviteExists(t) => Owed(t),
           NEW w \in Workers, Serve(w), InviteExists(t)'
    PROVE  Owed(t)'
<1> DEFINE code == req[w].code
           U == invites[t].uses
           D == Cardinality(Doomed(t))
           H == Cardinality(Holders(t))
           W == Cardinality(Workers)
<1>t. /\ pc \in [Workers -> Labels] /\ invites \in [Tokens -> InviteRow]
      /\ admitted \in [Tokens -> Nat] /\ members \in [Clients -> Roles \cup {"none"}]
      /\ \A v \in Workers : ~At(v, "idle") => req[v] \in Request
  BY DEF TypeOK, TypeOKServer, TypeOKStore, At
<1>n. /\ U \in Nat /\ admitted[t] \in Nat /\ spent["store"] \in Nat
      /\ spent["crash"] \in Nat /\ W \in Nat /\ W * spent["crash"] \in Nat
      /\ D \in Nat /\ H \in Nat
  BY OwedTypes
<1>o. InviteExists(t) => U + D <= admitted[t] + H + spent["store"] + W * spent["crash"]
  BY DEF Owed
<1>m. ASSUME NEW label, Moves(w, label)
      PROVE  /\ pc'[w] = label /\ req' = req
             /\ \A v \in Workers \ {w} : pc'[v] = pc[v] /\ req'[v] = req[v]
  BY <1>m, <1>t DEF Moves
<1>v. \A v \in Workers \ {w} : pc'[v] = pc[v] /\ req'[v] = req[v]
  BY KeepsRequest
<1>h. pc'[w] # "join_add" => H' = H - (IF w \in Holders(t) THEN 1 ELSE 0)
  BY <1>v, HoldersGo
<1>d. UNCHANGED members /\ pc'[w] \notin Joining =>
         D' \in Nat /\ D' <= D - (IF w \in Doomed(t) THEN 1 ELSE 0)
  BY <1>v, DoomedGo DEF IsMember
<1> HIDE DEF D, H, W, U
<1>s. \* it is enough to compare the sums
      ASSUME InviteExists(t),
             U' + D' <= admitted'[t] + H' + spent'["store"] + W * spent'["crash"]
      PROVE  Owed(t)'
  BY <1>s DEF Owed, U, D, H, W
<1>1. CASE Aside(w)
  <2>1. /\ UNCHANGED <<members, invites, admitted>> /\ InviteExists(t)
        /\ pc'[w] \notin Joining /\ pc'[w] # "join_add"
    BY <1>1 DEF Aside, RowsKept, Joining, InviteExists
  <2>2. w \in Holders(t) =>
           \/ spent'["store"] = spent["store"] + 1
           \/ w \in Doomed(t)
    BY <1>1 DEF Aside, Failed, NothingFailed, Holders, HandlersAt, Doomed, Joining, At
  <2>3. spent'["crash"] = spent["crash"] /\ spent'["store"] \in {spent["store"], spent["store"] + 1}
    BY <1>1 DEF Aside, Failed, NothingFailed
  <2>4. U' = U
    BY <2>1 DEF U
  <2> QED
    BY <1>n, <1>o, <1>h, <1>d, <1>s, <2>1, <2>2, <2>3, <2>4
<1>2. CASE LooksUp(w)
  <2>1. /\ UNCHANGED <<members, invites, admitted>> /\ InviteExists(t)
        /\ pc'[w] = "join_hasowner" /\ ~At(w, "join_add") /\ req' = req
    BY <1>2, <1>m DEF LooksUp, RowsKept, InviteExists, At
  <2>2. H' = H
    BY <1>h, <1>n, <2>1 DEF Holders, HandlersAt
  <2>3. D' <= D + (IF IsMember(req[w].from) THEN 1 ELSE 0) /\ D' \in Nat
    <3>1. Doomed(t) \in SUBSET Workers /\ w \notin Doomed(t)
      BY <1>2 DEF LooksUp, Doomed, Joining, At
    <3>2. Doomed(t)' = Doomed(t) \/ (Doomed(t)' = Doomed(t) \cup {w} /\ IsMember(req[w].from))
      BY <1>v, <2>1 DEF Doomed, IsMember, Joining
    <3> QED
      BY <1>n, <3>1, <3>2, Counting DEF D
  <2>4. Failed \/ (NothingFailed /\ ~IsMember(req[w].from))
    BY <1>2 DEF LooksUp
  <2>5. U' = U
    BY <2>1 DEF U
  <2> QED
    BY <1>n, <1>o, <1>s, <2>1, <2>2, <2>3, <2>4, <2>5 DEF Failed, NothingFailed
<1>3. CASE SeesOwner(w) \/ CountsUse(w)
  <2>1. /\ req' = req /\ members' = members /\ admitted' = admitted /\ NothingFailed
        /\ pc[w] \in Joining /\ pc'[w] \in Joining /\ ~At(w, "join_add")
    BY <1>3, <1>m DEF SeesOwner, CountsUse, RowsKept, Joining, At
  <2>2. D' = D
    BY <1>v, <2>1 DEF D, Doomed, IsMember
  <2>3. /\ U' = U + (IF CountsUse(w) /\ code = t THEN 1 ELSE 0)
        /\ InviteExists(t)
    BY <1>3, <1>t DEF SeesOwner, CountsUse, RowsKept, ConsumeInvite, InviteRow, InviteExists, U, At
  <2>4. H' = H + (IF CountsUse(w) /\ code = t THEN 1 ELSE 0)
    <3>1. CASE CountsUse(w)
      <4>1. pc'[w] = "join_add"
        BY <1>m, <3>1 DEF CountsUse
      <4> QED
        BY <1>v, <2>1, <3>1, <4>1, HoldersGo DEF H
    <3>2. CASE ~CountsUse(w)
      BY <1>3, <1>h, <1>m, <1>n, <2>1, <3>2 DEF SeesOwner, Holders, HandlersAt
    <3> QED
      BY <3>1, <3>2
  <2> QED
    BY <1>n, <1>o, <1>s, <2>1, <2>2, <2>3, <2>4 DEF NothingFailed
<1>4. CASE BurnsUse(w)
  BY <1>4 DEF BurnsUse, Founded, BootstrapRows, Consumable, HandlersAt
<1>5. CASE Admits(w)
  <2>1. /\ pc'[w] = "reply" /\ At(w, "join_add") /\ invites' = invites /\ NothingFailed
        /\ req[w].from \in Clients /\ pc'[w] \notin Joining
    BY <1>5, <1>m, <1>t DEF Admits, At, TypeOK, TypeOKServer, Request, Joining
  <2>2. H' = H - (IF code = t THEN 1 ELSE 0)
    BY <1>h, <2>1 DEF Holders, HandlersAt
  <2>3. admitted'[t] = admitted[t] + (IF code = t THEN 1 ELSE 0)
    BY <1>5, <1>t DEF Admits
  <2>4. \A v \in Workers \ {w} :
           pc[v] \in Joining /\ IsMember(req[v].from)' => IsMember(req[v].from)
    <3>1. \A v \in Workers \ {w} : pc[v] \in Joining =>
             req[v].from # req[w].from /\ req[v] \in Request
      BY <1>t, <2>1 DEF OneConnection, Joining, At
    <3>2. \A c \in Clients : c # req[w].from => members'[c] = members[c]
      BY <1>5, <1>t DEF Admits, AddMember
    <3> QED
      BY <1>v, <3>1, <3>2 DEF IsMember, Request
  <2>5. D' \in Nat /\ D' <= D
    BY <1>n, <1>v, <2>1, <2>4, DoomedGo DEF D
  <2>6. InviteExists(t) /\ U' = U
    BY <2>1 DEF InviteExists, U
  <2> QED
    BY <1>n, <1>o, <1>s, <2>1, <2>2, <2>3, <2>5, <2>6 DEF NothingFailed
<1>6. CASE Removes(w)
  <2>1. /\ pc'[w] = "reply" /\ At(w, "remove_delete") /\ UNCHANGED <<invites, admitted>>
        /\ NothingFailed /\ pc'[w] \notin Joining
    BY <1>6, <1>m DEF Removes, Joining
  <2>2. \A c : IsMember(c)' => IsMember(c) \/ c \notin Clients
    BY <1>6, <1>t DEF Removes, DeleteMember, IsMember
  <2>3. \A v \in Workers \ {w} :
           pc[v] \in Joining /\ IsMember(req[v].from)' => IsMember(req[v].from)
    BY <1>t, <1>v, <2>2 DEF Joining, At, Request, IsMember
  <2>4. D' \in Nat /\ D' <= D
    BY <1>n, <1>v, <2>1, <2>3, DoomedGo DEF D
  <2>5. H' = H /\ U' = U /\ InviteExists(t)
    BY <1>h, <1>n, <2>1 DEF Holders, HandlersAt, At, U, InviteExists
  <2> QED
    BY <1>n, <1>o, <1>s, <2>1, <2>4, <2>5 DEF NothingFailed
<1>7. CASE SeesItself(w)
  <2>1. /\ pc'[w] = "invite_create" /\ At(w, "invite_owner") /\ pc'[w] \notin Joining
        /\ UNCHANGED <<members, invites, admitted>> /\ NothingFailed
    BY <1>7, <1>m DEF SeesItself, RowsKept, Joining
  <2>2. H' = H /\ U' = U /\ InviteExists(t) /\ D' \in Nat /\ D' <= D
    BY <1>h, <1>d, <1>n, <2>1 DEF Holders, HandlersAt, At, U, InviteExists
  <2> QED
    BY <1>n, <1>o, <1>s, <2>1, <2>2 DEF NothingFailed
<1>8. CASE Issues(w)
  <2>1. PICK x \in FreshTokens, expiresAt \in Nat : CreateInvite(x, "member", 1, expiresAt)
    BY <1>8 DEF Issues
  <2>2. /\ UNCHANGED <<members, admitted>> /\ pc'[w] = "reply" /\ At(w, "invite_create")
        /\ pc'[w] \notin Joining /\ NothingFailed
    BY <1>8, <1>m DEF Issues, Joining
  <2>3. H' = H /\ D' \in Nat /\ D' <= D
    BY <1>h, <1>d, <1>n, <2>2 DEF Holders, HandlersAt, At
  <2>4. CASE t = x
    <3>1. U' = 0
      BY <1>t, <2>1, <2>4 DEF CreateInvite, U
    <3>2. D = 0
      <4>1. \A v \in Workers : pc[v] \in Joining => req[v].code # t
        BY <2>4, CodeAssumption DEF Founded, CodesIssued, FreshTokens, Joining, At
      <4>2. Doomed(t) = {}
        BY <4>1 DEF Doomed
      <4> QED
        BY <4>2, FS_EmptySet DEF D
    <3>3. U' + D' <= admitted'[t] + H' + spent'["store"] + W * spent'["crash"]
      BY <1>n, <2>2, <2>3, <3>1, <3>2 DEF NothingFailed
    <3> QED
      BY <3>3 DEF Owed, U, D, H, W
  <2>5. CASE t # x
    <3>1. U' = U /\ InviteExists(t)
      BY <1>t, <2>1, <2>5 DEF CreateInvite, InviteExists, FreshTokens, U
    <3> QED
      BY <1>n, <1>o, <1>s, <2>2, <2>3, <3>1 DEF NothingFailed
  <2> QED
    BY <2>4, <2>5
<1> QED
  BY <1>1, <1>2, <1>3, <1>4, <1>5, <1>6, <1>7, <1>8, HandlerKinds DEF Serve

\* No JOIN holds the code of a token that has not been handed out.
LEMMA FreshUndoomed ==
    ASSUME Founded, NEW t \in FreshTokens
    PROVE  Doomed(t) = {}
<1>1. \A v \in Workers : pc[v] \in Joining => req[v].code # t
  BY CodeAssumption DEF Founded, CodesIssued, FreshTokens, Joining, At
<1> QED
  BY <1>1 DEF Doomed

\* Nor does a step of a session.
LEMMA OwedAdminister ==
    ASSUME TypeOK, TypeOK', Founded, NEW t \in Tokens, InviteExists(t) => Owed(t),
           NEW a \in Admins, Administer(a), InviteExists(t)'
    PROVE  Owed(t)'
<1> DEFINE U == invites[t].uses
           D == Cardinality(Doomed(t))
           H == Cardinality(Holders(t))
           W == Cardinality(Workers)
<1>t. /\ invites \in [Tokens -> InviteRow] /\ members \in [Clients -> Roles \cup {"none"}]
      /\ \A v \in Workers : ~At(v, "idle") => req[v] \in Request
  BY DEF TypeOK, TypeOKServer, TypeOKStore, At
<1>n. /\ U \in Nat /\ admitted[t] \in Nat /\ spent["store"] \in Nat
      /\ spent["crash"] \in Nat /\ W \in Nat /\ W * spent["crash"] \in Nat
      /\ D \in Nat /\ H \in Nat
  BY OwedTypes
<1>u. UNCHANGED <<pc, req>>
  BY DEF Administer, serverVars
<1>h. H' = H
  BY <1>u DEF Holders, HandlersAt, At
<1>d. ASSUME \A c \in Clients : IsMember(c)' => IsMember(c)
      PROVE  D' \in Nat /\ D' <= D
  <2>1. \A v \in Workers : pc[v] \in Joining => req[v].from \in Clients
    BY <1>t DEF Joining, At, Request
  <2>2. Doomed(t)' \in SUBSET Doomed(t) /\ Doomed(t) \in SUBSET Workers
    BY <1>d, <1>u, <2>1 DEF Doomed, IsMember
  <2> QED
    BY <2>2, Counting
<1> HIDE DEF D, H, W, U
<1>o. InviteExists(t) => U + D <= admitted[t] + H + spent["store"] + W * spent["crash"]
  BY DEF Owed, U, D, H, W
<1>f. Failed \/ NothingFailed =>
         /\ spent'["crash"] = spent["crash"]
         /\ spent'["store"] \in {spent["store"], spent["store"] + 1}
  BY DEF Failed, NothingFailed
<1>k. ASSUME UNCHANGED admitted, U' = U, InviteExists(t), Failed \/ NothingFailed,
             \A c \in Clients : IsMember(c)' => IsMember(c)
      PROVE  Owed(t)'
  <2>1. U' + D' <= admitted'[t] + H' + spent'["store"] + W * spent'["crash"]
    BY <1>k, <1>d, <1>f, <1>h, <1>n, <1>o
  <2> QED
    BY <2>1 DEF Owed, U, D, H, W
<1>1. CASE AdminAside(a) \/ Invites(a) \/ Rechecks(a)
  <2>1. RowsKept /\ (Failed \/ NothingFailed)
    BY <1>1 DEF AdminAside, Invites, Rechecks
  <2> QED
    BY <1>k, <2>1 DEF RowsKept, U, InviteExists, IsMember
<1>2. CASE AdminRemoves(a)
  <2>1. UNCHANGED <<admitted, invites>> /\ NothingFailed
    BY <1>2 DEF AdminRemoves, Writes
  <2>2. \A c \in Clients : IsMember(c)' => IsMember(c)
    BY <1>2, <1>t DEF AdminRemoves, DeleteMember, IsMember
  <2> QED
    BY <1>k, <2>1, <2>2 DEF U, InviteExists
<1>3. CASE AdminRevokes(a)
  <2>1. UNCHANGED <<admitted, members>> /\ NothingFailed
    BY <1>3 DEF AdminRevokes, Writes
  <2>2. invites'[t] = invites[t]
    BY <1>3, <1>t DEF AdminRevokes, RevokeInvite, InviteExists, NoInvite
  <2> QED
    BY <1>k, <2>1, <2>2 DEF U, InviteExists, IsMember
<1>4. CASE AdminIssues(a)
  <2>1. PICK x \in FreshTokens, role \in Roles, uses \in Nat \ {0}, expiresAt \in Nat :
           CreateInvite(x, role, uses, expiresAt)
    BY <1>4, IssuedRow
  <2>2. UNCHANGED <<admitted, members>> /\ NothingFailed
    BY <1>4 DEF AdminIssues, Writes
  <2>3. CASE t = x
    <3>1. U' = 0
      BY <1>t, <2>1, <2>3 DEF CreateInvite, U
    <3>2. D = 0
      BY <2>3, FreshUndoomed, FS_EmptySet DEF D
    <3>3. D' \in Nat /\ D' <= D
      BY <1>d, <2>2 DEF IsMember
    <3>4. U' + D' <= admitted'[t] + H' + spent'["store"] + W * spent'["crash"]
      BY <1>h, <1>n, <2>2, <3>1, <3>2, <3>3 DEF NothingFailed
    <3> QED
      BY <3>4 DEF Owed, U, D, H, W
  <2>4. CASE t # x
    <3>1. U' = U /\ InviteExists(t)
      BY <1>t, <2>1, <2>4 DEF CreateInvite, InviteExists, FreshTokens, U
    <3> QED
      BY <1>k, <2>2, <3>1 DEF IsMember
  <2> QED
    BY <2>3, <2>4
<1> QED
  BY <1>1, <1>2, <1>3, <1>4, SessionKinds DEF Administer

\* Nor does any other step.
LEMMA OwedStep ==
    ASSUME TypeOK, TypeOK', Founded, OneConnection, UsesOwed, [Next]_vars
    PROVE  UsesOwed'
<1> SUFFICES ASSUME NEW t \in Tokens, InviteExists(t)' PROVE Owed(t)'
  BY DEF UsesOwed
<1>t. InviteExists(t) => Owed(t)
  BY DEF UsesOwed
<1>1. ASSUME NEW w \in Workers, Connect(w) PROVE Owed(t)'
  <2>1. PICK r \in Requests : Accept(w, r)
    BY <1>1 DEF Connect
  <2>2. pc'[w] = Start[r.cmd] /\ Start[r.cmd] \notin Joining /\ At(w, "idle")
    BY <2>1, StartFirst DEF Requests, Joining, Accept, TypeOK, TypeOKServer
  <2>3. UNCHANGED <<members, invites, spent, admitted>>
        /\ \A v \in Workers \ {w} : pc'[v] = pc[v] /\ req'[v] = req[v]
    BY <2>1 DEF Accept, Keep, KeepTables, KeepHistory, tables, TypeOK, TypeOKServer
  <2>4. Holders(t)' = Holders(t) /\ Doomed(t)' = Doomed(t)
    BY <2>2, <2>3 DEF Holders, HandlersAt, At, Joining, Doomed, IsMember
  <2> QED
    BY <1>t, <2>3, <2>4 DEF Owed, InviteExists
<1>2. ASSUME NEW w \in Workers, Serve(w) PROVE Owed(t)'
  BY <1>2, <1>t, OwedServe
<1>3. ASSUME NEW a \in Admins, Administer(a) PROVE Owed(t)'
  BY <1>3, <1>t, OwedAdminister
<1>4. CASE Restart
  <2> DEFINE U == invites[t].uses
             D == Cardinality(Doomed(t))
             H == Cardinality(Holders(t))
             W == Cardinality(Workers)
  <2>1. /\ UNCHANGED <<invites, admitted>> /\ spent'["store"] = spent["store"]
        /\ spent'["crash"] = spent["crash"] + 1
    BY <1>4, RestartKind DEF RowsKept
  <2>2. Holders(t)' = {} /\ Doomed(t)' = {}
    BY <1>4, RestartKind DEF Halts, Holders, HandlersAt, Doomed, Joining, At
  <2>3. H' = 0 /\ D' = 0
    BY <2>2, FS_EmptySet
  <2>4. /\ U \in Nat /\ admitted[t] \in Nat /\ spent["store"] \in Nat
        /\ spent["crash"] \in Nat /\ W \in Nat /\ W * spent["crash"] \in Nat
        /\ D \in Nat /\ H \in Nat /\ H <= W
    BY OwedTypes, Counting
  <2>5. U' = U /\ U + D <= admitted[t] + H + spent["store"] + W * spent["crash"]
    BY <1>t, <2>1 DEF Owed, InviteExists
  <2> HIDE DEF D, H, W, U
  <2>6. W * (spent["crash"] + 1) = W * spent["crash"] + W
    BY <2>4
  <2>7. U' + D' <= admitted'[t] + H' + spent'["store"] + W * spent'["crash"]
    BY <2>1, <2>3, <2>4, <2>5, <2>6
  <2> QED
    BY <2>7 DEF Owed, U, D, H, W
<1>5. CASE Pass \/ RunExpiry \/ UNCHANGED vars
  <2>1. /\ Holders(t)' = Holders(t) /\ Doomed(t)' = Doomed(t)
        /\ UNCHANGED <<invites, admitted>> /\ (Failed \/ NothingFailed)
    BY <1>5, RestKind DEF RowsKept, serverVars, Holders, HandlersAt, At, Doomed, IsMember
  <2> QED
    BY <1>t, <2>1, OwedTypes DEF Owed, Failed, NothingFailed, InviteExists
<1> QED
  BY <1>1, <1>2, <1>3, <1>4, <1>5 DEF Next

\* If a client is on one connection at a time, no use of an invite is lost but to
\* a failed call or a stop.
THEOREM UsesAreAccountedFor == ASSUME SerialClients PROVE Spec => []NoUseLost
<1>1. Init => UsesOwed
  BY DEF Init, StoreInit, NoInvite, InviteExists, UsesOwed
<1>2. TypeOK /\ TypeOK' /\ Founded /\ OneConnection /\ UsesOwed /\ [Next]_vars => UsesOwed'
  BY OwedStep
<1>3. TypeOK /\ UsesOwed => NoUseLost
  <2> SUFFICES ASSUME TypeOK, NEW t \in Tokens, Owed(t)
               PROVE  invites[t].uses <= admitted[t] + Cardinality(Holders(t))
                         + spent["store"] + Cardinality(Workers) * spent["crash"]
    BY DEF UsesOwed, NoUseLost, Holders
  <2> QED
    BY OwedTypes DEF Owed
<1> QED
  BY <1>1, <1>2, <1>3, ClientsAreSerial, TypeCorrect, AllIsFounded, PTL DEF Spec

-----------------------------------------------------------------------------
(* The path of each handler.                                               *)

\* The calls that may follow one another; any handler may answer, or close.
Follows(w) ==
    \/ <<pc[w], pc'[w]>> \in
          {<<"join_lookup", "join_hasowner">>, <<"join_hasowner", "join_consume">>,
           <<"join_consume", "join_add">>, <<"dep_sender", "dep_recipient">>,
           <<"dep_recipient", "dep_quota">>, <<"dep_quota", "dep_insert">>,
           <<"fetch_member", "fetch_query">>, <<"fetch_query", "delete">>,
           <<"leave_lookup", "leave_query">>, <<"leave_query", "delete">>,
           <<"delete", "delete">>, <<"leave_query", "remove_lookup">>,
           <<"revoke_owner", "remove_lookup">>, <<"remove_lookup", "remove_delete">>,
           <<"invite_owner", "invite_create">>, <<"list_owner", "list_members">>}
    \/ pc[w] = "delete" /\ pc'[w] = "remove_lookup" /\ req[w].cmd # "FETCH"
    \/ pc[w] # "reply" /\ pc'[w] = "reply"
    \/ pc[w] = "reply" /\ pc'[w] = "idle"

\* A handler's step goes on to a call that may follow.
LEMMA HandlerFollows ==
    ASSUME TypeOK, NEW w \in Workers, Serve(w)
    PROVE  Follows(w)
<1>t. pc \in [Workers -> Labels]
  BY DEF TypeOK, TypeOKServer
<1>g. \A label : Goto(w, label) => pc'[w] = label
  BY <1>t DEF Goto
<1>a. \A outcome : (Answer(w, outcome) \/ FailWith(w, outcome)) /\ pc[w] # "reply" => Follows(w)
  BY <1>g DEF Answer, FailWith, Follows
<1>1. CASE JoinLookup(w) \/ JoinHasOwner(w) \/ JoinConsume(w) \/ JoinAdd(w)
  BY <1>1, <1>g, <1>a DEF JoinLookup, JoinHasOwner, JoinConsume, JoinAdd, Follows, At
<1>2. CASE DepSender(w) \/ DepRecipient(w) \/ DepQuota(w) \/ DepInsert(w)
  BY <1>2, <1>g, <1>a DEF DepSender, DepRecipient, DepQuota, DepInsert, Follows, At
<1>3. CASE FetchMember(w) \/ FetchQuery(w)
  BY <1>3, <1>g, <1>a DEF FetchMember, FetchQuery, Follows, At
<1>4. CASE DeleteOne(w)
  <2>1. PICK m : AfterDelete(w, m)
    BY <1>4 DEF DeleteOne
  <2> QED
    BY <1>4, <1>g, <1>a, <2>1 DEF DeleteOne, AfterDelete, Follows, At
<1>5. CASE LeaveLookup(w) \/ LeaveQuery(w) \/ RevokeOwner(w) \/ RemoveLookup(w) \/ RemoveDelete(w)
  BY <1>5, <1>g, <1>a DEF LeaveLookup, LeaveQuery, RevokeOwner, RemoveLookup, RemoveDelete,
                          Follows, At
<1>6. CASE InviteOwner(w) \/ InviteCreate(w) \/ ListOwner(w) \/ ListMembers(w)
  BY <1>6, <1>g, <1>a DEF InviteOwner, InviteCreate, ListOwner, ListMembers, Follows, At
<1>7. CASE Reply(w)
  BY <1>7, <1>t DEF Reply, CloseConn, Follows, At
<1> QED
  BY <1>1, <1>2, <1>3, <1>4, <1>5, <1>6, <1>7 DEF Serve, WorkerStep

\* Each command keeps to its own calls.
OnPath(w) ==
    /\ Serving(w, "PING") => At(w, "reply")
    /\ Serving(w, "JOIN") => pc[w] \in {"join_lookup", "reply"} \cup Joining
    /\ Serving(w, "DEPOSIT") =>
          pc[w] \in {"dep_sender", "dep_recipient", "dep_quota", "dep_insert", "reply"}
    /\ Serving(w, "FETCH") => pc[w] \in {"fetch_member", "fetch_query", "delete", "reply"}
    /\ Serving(w, "LEAVE") =>
          /\ pc[w] \in {"leave_lookup", "leave_query", "delete", "remove_lookup",
                        "remove_delete", "reply"}
          /\ req[w].to = req[w].from
    /\ Serving(w, "INVITE_REQ") => pc[w] \in {"invite_owner", "invite_create", "reply"}
    /\ Serving(w, "REVOKE") =>
          pc[w] \in {"revoke_owner", "remove_lookup", "remove_delete", "reply"}
    /\ Serving(w, "LIST") => pc[w] \in {"list_owner", "list_members", "reply"}

\* Each step keeps the handlers on their paths.
LEMMA OnPathStep ==
    ASSUME TypeOK, \A w \in Workers : OnPath(w), [Next]_vars
    PROVE  \A w \in Workers : OnPath(w)'
<1>t. \A w \in Workers : ~At(w, "idle") => req[w].cmd \in DOMAIN Start
  BY DEF TypeOK, TypeOKServer, Request, At
<1>1. ASSUME NEW w \in Workers, Connect(w), NEW v \in Workers PROVE OnPath(v)'
  <2>1. PICK r \in Requests : Accept(w, r)
    BY <1>1 DEF Connect
  <2>2. CASE v = w
    <3>1. pc'[w] = Start[r.cmd] /\ req'[w] = r /\ r.cmd \in DOMAIN Start
          /\ (r.cmd = "LEAVE" => r.to = r.from)
      BY <2>1, StartFirst DEF Accept, Requests, TypeOK, TypeOKServer
    <3> QED
      BY <2>2, <3>1 DEF OnPath, Serving, At, Start
  <2>3. CASE v # w
    <3>1. pc'[v] = pc[v] /\ req'[v] = req[v]
      BY <2>1, <2>3 DEF Accept, TypeOK, TypeOKServer
    <3> QED
      BY <3>1 DEF OnPath, Serving, At
  <2> QED
    BY <2>2, <2>3
<1>2. ASSUME NEW w \in Workers, Serve(w), NEW v \in Workers PROVE OnPath(v)'
  <2>1. CASE v = w
    <3>1. OnPath(w) /\ Follows(w) /\ ~At(w, "idle") /\ (pc'[w] # "idle" => req'[w] = req[w])
      BY <1>2, HandlerFollows, KeepsRequest
    <3> QED
      BY <2>1, <3>1 DEF OnPath, Serving, At, Follows, Joining
  <2>2. CASE v # w
    <3>1. pc'[v] = pc[v] /\ req'[v] = req[v]
      BY <1>2, <2>2, KeepsRequest
    <3> QED
      BY <3>1 DEF OnPath, Serving, At
  <2> QED
    BY <2>1, <2>2
<1>3. CASE Restart
  BY <1>3, RestartKind DEF Halts, OnPath, Serving, At
<1>4. ASSUME UNCHANGED serverVars PROVE \A v \in Workers : OnPath(v)'
  BY <1>4 DEF serverVars, OnPath, Serving, At
<1> QED
  BY <1>1, <1>2, <1>3, <1>4, RestKind DEF Next, Administer

LEMMA HandlersOnPath == Spec => [](\A w \in Workers : OnPath(w))
<1>1. Init => \A w \in Workers : OnPath(w)
  BY DEF Init, ServerInit, OnPath, Serving, At
<1>2. TypeOK /\ (\A w \in Workers : OnPath(w)) /\ [Next]_vars => (\A w \in Workers : OnPath(w))'
  BY OnPathStep
<1> QED
  BY <1>1, <1>2, TypeCorrect, PTL DEF Spec

-----------------------------------------------------------------------------
(* A JOIN does not fail because of its own client's row.                   *)

\* A JOIN that is past the look-up, or has been rejected.
Outsider(w) == pc[w] \in Joining \/ Answered(w, "JOIN", "error")

NoSecondJoin == \A w \in Workers : Outsider(w) => ~IsMember(req[w].from)

JoinsWelcome == spent["store"] = 0 => NoSecondJoin

\* At a label, a handler takes the step of that label.
LEMMA JoinSteps ==
    ASSUME NEW w \in Workers, Serve(w)
    PROVE  /\ At(w, "join_lookup") => JoinLookup(w)
           /\ At(w, "join_add") => JoinAdd(w)
BY DEF Serve, WorkerStep, At, JoinLookup, JoinHasOwner, JoinConsume, JoinAdd, DepSender,
       DepRecipient, DepQuota, DepInsert, FetchMember, FetchQuery, DeleteOne, LeaveLookup,
       LeaveQuery, RevokeOwner, RemoveLookup, RemoveDelete, InviteOwner, InviteCreate,
       ListOwner, ListMembers, Reply

\* While no call fails, a handler's step leaves the client of a JOIN outside
\* until that JOIN adds it.
LEMMA NoSecondJoinServe ==
    ASSUME TypeOK, Founded, OneConnection, \A v \in Workers : OnPath(v), NoSecondJoin,
           NEW w \in Workers, Serve(w), spent'["store"] = spent["store"]
    PROVE  NoSecondJoin'
<1> SUFFICES ASSUME NEW v \in Workers, Outsider(v)' PROVE ~IsMember(req[v].from)'
  BY DEF NoSecondJoin
<1> DEFINE c == req[v].from
<1>t. /\ pc \in [Workers -> Labels] /\ members \in [Clients -> Roles \cup {"none"}]
      /\ loc \in [Workers -> Local]
      /\ \A x \in Workers : ~At(x, "idle") => req[x] \in Request
  BY DEF TypeOK, TypeOKServer, TypeOKStore, At
<1>f. ~StoreError /\ \A outcome : ~FailWith(w, outcome)
  BY DEF FailWith, StoreError, Mishap, TypeOK, TypeOKStore
<1>a. Answer(w, "ok") => pc'[w] = "reply" /\ loc'[w].reply = "ok"
  BY <1>t DEF Answer, Goto, NoLocals
<1>o. Answer(w, "ok") => v # w
  BY <1>a DEF Outsider, Answered, At, Joining
<1>1. ~At(v, "idle") /\ req'[v] = req[v]
  BY KeepsRequest DEF Outsider, Answered, At, Joining
<1>2. ~IsMember(c)
  <2>1. CASE v # w
    <3>1. pc'[v] = pc[v] /\ req'[v] = req[v] /\ loc'[v] = loc[v]
      <4>1. BurnsUse(w) => FALSE
        BY DEF BurnsUse, Founded, BootstrapRows, Consumable, HandlersAt
      <4> QED
        BY <2>1, <4>1, KeepsRequest, HandlerKinds
           DEF Serve, Aside, LooksUp, SeesOwner, CountsUse, Admits, Removes, SeesItself, Issues,
               Moves
    <3> QED
      BY <3>1 DEF NoSecondJoin, Outsider, Answered, Serving, At
  <2>2. CASE v = w
    <3>1. pc[w] \in {"join_lookup"} \cup Joining
      <4>1. Follows(w) /\ OnPath(w)
        BY HandlerFollows
      <4> QED
        BY <1>1, <2>2, <4>1 DEF Outsider, Answered, Serving, At, Joining, Follows, OnPath
    <3>2. CASE At(w, "join_lookup")
      BY <1>f, <1>o, <2>2, <3>2, JoinSteps DEF JoinLookup
    <3>3. CASE pc[w] \in Joining
      BY <2>2, <3>3 DEF NoSecondJoin, Outsider
    <3> QED
      BY <3>1, <3>2, <3>3 DEF At
  <2> QED
    BY <2>1, <2>2
<1>3. ~IsMember(c)'
  <2>1. CASE Admits(w)
    <3>1. At(w, "join_add") /\ CanAddMember(req[w].from) /\ members' = [members EXCEPT ![req[w].from] = loc[w].role]
      BY <2>1 DEF Admits, AddMember
    <3>2. v # w
      BY <1>f, <1>o, <3>1, JoinSteps DEF JoinAdd
    <3>3. req[v].from # req[w].from
      BY <1>1, <3>1, <3>2 DEF OneConnection, At
    <3> QED
      BY <1>1, <1>2, <1>t, <3>1, <3>3 DEF IsMember, Request
  <2>2. CASE Removes(w)
    BY <1>1, <1>2, <1>t, <2>2 DEF Removes, DeleteMember, IsMember
  <2>3. CASE BurnsUse(w)
    BY <2>3 DEF BurnsUse, Founded, BootstrapRows, Consumable, HandlersAt
  <2>4. CASE UNCHANGED members
    BY <1>1, <1>2, <2>4 DEF IsMember
  <2> QED
    BY <2>1, <2>2, <2>3, <2>4, HandlerKinds
       DEF Serve, Aside, LooksUp, SeesOwner, CountsUse, SeesItself, Issues, RowsKept
<1> QED
  BY <1>1, <1>3

\* So does every step.
LEMMA NoSecondJoinStep ==
    ASSUME TypeOK, Founded, OneConnection, \A v \in Workers : OnPath(v),
           spent["store"] = 0 => NoSecondJoin, [Next]_vars, spent'["store"] = 0
    PROVE  NoSecondJoin'
<1>t. /\ spent["store"] \in Nat /\ members \in [Clients -> Roles \cup {"none"}]
      /\ \A x \in Workers : ~At(x, "idle") => req[x] \in Request
  BY DEF TypeOK, TypeOKStore, TypeOKServer, At
<1>a. ASSUME spent["store"] = 0, UNCHANGED serverVars,
             \A c \in Clients : IsMember(c)' => IsMember(c)
      PROVE  NoSecondJoin'
  <2> SUFFICES ASSUME NEW v \in Workers, Outsider(v)' PROVE ~IsMember(req[v].from)'
    BY DEF NoSecondJoin
  <2>1. Outsider(v) /\ req'[v] = req[v]
    BY <1>a DEF serverVars, Outsider, Answered, Serving, At
  <2>2. req[v].from \in Clients
    BY <1>t, <2>1 DEF Outsider, Answered, Joining, At, Request
  <2> QED
    BY <1>a, <2>1, <2>2 DEF NoSecondJoin, IsMember
<1>1. ASSUME NEW w \in Workers, Connect(w) PROVE NoSecondJoin'
  <2>1. PICK r \in Requests : Accept(w, r)
    BY <1>1 DEF Connect
  <2>2. UNCHANGED <<spent, members>>
        /\ \A v \in Workers \ {w} : pc'[v] = pc[v] /\ req'[v] = req[v] /\ loc'[v] = loc[v]
    BY <2>1 DEF Accept, Keep, KeepTables, tables, TypeOK, TypeOKServer
  <2>3. ~Outsider(w)'
    BY <2>1, StartFirst DEF Accept, Requests, Outsider, Answered, Joining, NoLocals, TypeOK, TypeOKServer
  <2> QED
    BY <2>2, <2>3 DEF NoSecondJoin, Outsider, Answered, Serving, At, IsMember
<1>2. ASSUME NEW w \in Workers, Serve(w) PROVE NoSecondJoin'
  <2>1. spent'["store"] \in {spent["store"], spent["store"] + 1}
    <3>1. BurnsUse(w) => FALSE
      BY DEF BurnsUse, Founded, BootstrapRows, Consumable, HandlersAt
    <3> QED
      BY <1>2, <3>1, HandlerKinds DEF Serve, Aside, LooksUp, SeesOwner, CountsUse, Admits, Removes, SeesItself,
         Issues, Failed, NothingFailed
  <2>2. spent["store"] = 0
    BY <1>t, <2>1
  <2> QED
    BY <1>2, <2>2, NoSecondJoinServe
<1>3. ASSUME NEW a \in Admins, Administer(a) PROVE NoSecondJoin'
  <2>1. UNCHANGED serverVars
    BY <1>3 DEF Administer
  <2>2. \A c \in Clients : IsMember(c)' => IsMember(c)
    BY <1>3, <1>t, SessionKinds
       DEF Administer, AdminAside, Invites, Rechecks, AdminIssues, AdminRemoves, AdminRevokes,
           RowsKept, DeleteMember, IsMember
  <2>3. spent'["store"] \in {spent["store"], spent["store"] + 1}
    BY <1>3, SessionKinds
       DEF Administer, AdminAside, Invites, Rechecks, AdminIssues, AdminRemoves, AdminRevokes,
           Writes, Failed, NothingFailed
  <2> QED
    BY <1>a, <1>t, <2>1, <2>2, <2>3
<1>4. CASE Restart
  <2>1. UNCHANGED members /\ spent'["store"] = spent["store"]
    BY <1>4, RestartKind DEF RowsKept
  <2>2. \A w \in Workers : Outsider(w)' => Outsider(w) /\ req'[w] = req[w]
    <3>1. \A w \in Workers : ClosedAnswer(w).reply = "error" => At(w, "reply") /\ ClosedAnswer(w) = loc[w]
      BY DEF ClosedAnswer, NoLocals
    <3> QED
      BY <1>4, <3>1, RestartKind DEF Halts, Outsider, Answered, Serving, Joining, At
  <2> QED
    BY <1>a, <1>t, <2>1, <2>2 DEF NoSecondJoin, IsMember
<1>5. CASE Pass \/ RunExpiry \/ UNCHANGED vars
  BY <1>5, <1>a, <1>t, RestKind DEF RowsKept, Failed, NothingFailed, IsMember
<1> QED
  BY <1>1, <1>2, <1>3, <1>4, <1>5 DEF Next

\* If a client is on one connection at a time, its JOIN is rejected only while it
\* is no member, unless a store call has failed.
THEOREM JoinNeverConflicts ==
    ASSUME SerialClients
    PROVE  Spec => [](spent["store"] = 0 => JoinIdempotent)
<1>1. Init => JoinsWelcome
  BY DEF Init, ServerInit, JoinsWelcome, NoSecondJoin, Outsider, Answered, Serving, Joining, At
<1>2. TypeOK /\ Founded /\ OneConnection /\ (\A w \in Workers : OnPath(w)) /\ JoinsWelcome
         /\ [Next]_vars => JoinsWelcome'
  BY NoSecondJoinStep DEF JoinsWelcome
<1>3. JoinsWelcome => (spent["store"] = 0 => JoinIdempotent)
  BY DEF JoinsWelcome, NoSecondJoin, Outsider, JoinIdempotent
<1> QED
  BY <1>1, <1>2, <1>3, ClientsAreSerial, HandlersOnPath, TypeCorrect, AllIsFounded, PTL DEF Spec
=============================================================================
