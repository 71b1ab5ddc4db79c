---------------------------- MODULE MailboxProofs ----------------------------
(***************************************************************************)
(* Proofs about Mailbox, for every number of clients, connections,         *)
(* sessions, tokens and messages and for every bound.                      *)
(***************************************************************************)
EXTENDS Mailbox, FiniteSetTheorems, TLAPS

(* Type correctness.                                                       *)

\* A request starts with a label of its handler, never with "idle".
LEMMA StartLabels == \A x \in DOMAIN Start : Start[x] \in Labels /\ Start[x] # "idle"
BY DEF Start, Labels

\* No handler starts with a call that has to be prepared.
LEMMA StartFirst ==
    \A x \in Commands :
        x \in DOMAIN Start /\ Start[x] \notin
            {"join_hasowner", "join_consume", "join_add", "remove_delete", "invite_create", "delete",
             "dep_insert"}
<1>1. Commands \subseteq DOMAIN Start
  BY CommandAssumption DEF Start
<1>2. \A x \in DOMAIN Start : Start[x] \notin
         {"join_hasowner", "join_consume", "join_add", "remove_delete", "invite_create", "delete",
          "dep_insert"}
  BY DEF Start
<1> QED
  BY <1>1, <1>2

\* The labels the handlers go to are labels.
LEMMA OtherLabels ==
    {"idle", "reply", "join_hasowner", "join_consume", "join_add",
     "dep_recipient", "dep_quota", "dep_insert",
     "fetch_query", "leave_query", "delete",
     "remove_lookup", "remove_delete", "invite_create", "list_members"} \subseteq Labels
<1>1. "reply" = Start["PING"] /\ "PING" \in DOMAIN Start
  BY DEF Start
<1> QED
  BY <1>1 DEF Labels

\* A call that changes nothing keeps the types of the store.
LEMMA KeepType == ASSUME TypeOKStore, Keep PROVE TypeOKStore'
BY DEF TypeOKStore, Keep, KeepTables, KeepHistory, tables

\* So does a call that fails.
LEMMA StoreErrorType == ASSUME TypeOKStore, StoreError, KeepHistory PROVE TypeOKStore'
BY DEF TypeOKStore, StoreError, Mishap, KeepHistory, tables

\* A handler moves on, possibly with new locals.
LEMMA GotoType ==
    ASSUME TypeOKServer, NEW w \in Workers, pc[w] # "idle",
           NEW label \in Labels, Goto(w, label), loc' \in [Workers -> Local],
           label \in {"join_consume", "join_add"} => req[w].code # NoCode
    PROVE  TypeOKServer'
BY DEF TypeOKServer, Goto

\* A handler that answers keeps the types.
LEMMA AnswerType ==
    ASSUME TypeOKServer, NEW w \in Workers, pc[w] # "idle",
           NEW outcome \in {"ok", "error"}, Answer(w, outcome)
    PROVE  TypeOKServer'
<1>1. loc' \in [Workers -> Local]
  BY DEF TypeOKServer, Answer, NoLocals, Local
<1> QED
  BY <1>1, GotoType, OtherLabels DEF Answer

\* So does one that gives up after a failed call.
LEMMA FailType ==
    ASSUME TypeOKStore, TypeOKServer, NEW w \in Workers, pc[w] # "idle", FailWith(w, "error")
    PROVE  TypeOKStore' /\ TypeOKServer'
BY StoreErrorType, AnswerType DEF FailWith

\* Fetch returns rows of the table.
LEMMA PendingType ==
    ASSUME TypeOKStore, NEW c PROVE Pending(c) \in SUBSET MessageRow
BY DEF TypeOKStore, Pending

\* Each step of a handler keeps the types.
LEMMA ServeType ==
    ASSUME TypeOKStore, TypeOKServer, NEW w \in Workers, WorkerStep(w)
    PROVE  TypeOKStore' /\ TypeOKServer'
<1> DEFINE Typed == TypeOKStore' /\ TypeOKServer'
<1> USE OtherLabels
<1>a. \A label : At(w, label) /\ label # "idle" => pc[w] # "idle" /\ req[w] \in Request
  BY DEF At, TypeOKServer
<1>b. loc \in [Workers -> Local] /\ loc[w] \in Local
  BY DEF TypeOKServer
<1>c. \A label \in Labels \ {"join_consume", "join_add"} :
         pc[w] # "idle" /\ Goto(w, label) /\ UNCHANGED loc => TypeOKServer'
  BY <1>b, GotoType
<1>1. CASE JoinLookup(w)
  BY <1>1, <1>a, <1>c, KeepType, StoreErrorType, AnswerType DEF JoinLookup
<1>2. CASE JoinHasOwner(w)
  <2>1. CASE /\ req[w].code # NoCode /\ Goto(w, "join_consume")
             /\ loc' = [loc EXCEPT ![w].hasOwner = HasOwner] /\ Keep
    <3>1. loc' \in [Workers -> Local]
      BY <1>b, <2>1 DEF HasOwner, Local
    <3> QED
      BY <1>2, <1>a, <2>1, <3>1, GotoType, KeepType DEF JoinHasOwner
  <2> QED
    BY <1>2, <1>a, <2>1, KeepType, AnswerType, FailType DEF JoinHasOwner
<1>3. CASE JoinConsume(w)
  <2> DEFINE t == req[w].code
  <2>1. t \in Tokens /\ invites[t] \in InviteRow
    BY <1>3, <1>a DEF JoinConsume, At, TypeOKServer, TypeOKStore, Request
  <2>2. ASSUME ConsumeInvite(t), UNCHANGED <<members, issued, messages, spent>>, KeepHistory
        PROVE  TypeOKStore'
    <3>1. [invites[t] EXCEPT !.uses = @ + 1] \in InviteRow
      BY <2>1 DEF InviteRow
    <3>2. invites' \in [Tokens -> InviteRow]
      BY <2>1, <2>2, <3>1 DEF ConsumeInvite, TypeOKStore
    <3> QED
      BY <2>2, <3>2 DEF TypeOKStore, KeepHistory
  <2>3. loc' = [loc EXCEPT ![w].role = invites[t].role] => loc' \in [Workers -> Local]
    BY <1>b, <2>1 DEF Local, InviteRow
  <2> QED
    BY <1>3, <1>a, <2>1, <2>2, <2>3, CodeAssumption, GotoType, KeepType, AnswerType, FailType
       DEF JoinConsume
<1>4. CASE JoinAdd(w)
  <2>0. req[w].from \in Clients /\ req[w].code \in Tokens
    BY <1>4, <1>a DEF JoinAdd, At, TypeOKServer, Request
  <2>1. ASSUME AddMember(req[w].from, loc[w].role),
               admitted' = [admitted EXCEPT ![req[w].code] = @ + 1],
               UNCHANGED <<invites, issued, messages, clock, spent, delivered, removedBy, missed>>
        PROVE  TypeOKStore'
    <3>1. loc[w].role \in Roles \cup {"none"}
      BY <1>b DEF Local
    <3>2. members' \in [Clients -> Roles \cup {"none"}]
      BY <2>0, <2>1, <3>1 DEF TypeOKStore, AddMember
    <3>3. admitted' \in [Tokens -> Nat]
      BY <2>0, <2>1 DEF TypeOKStore
    <3> QED
      BY <2>1, <3>2, <3>3 DEF TypeOKStore
  <2> QED
    BY <1>4, <1>a, <2>1, KeepType, AnswerType, FailType DEF JoinAdd
<1>5. CASE DepSender(w)
  BY <1>5, <1>a, <1>c, KeepType, AnswerType, FailType DEF DepSender
<1>6. CASE DepRecipient(w)
  BY <1>6, <1>a, <1>c, KeepType, AnswerType, FailType DEF DepRecipient
<1>7. CASE DepQuota(w)
  <2>1. loc' = [loc EXCEPT ![w].since = clock] => loc' \in [Workers -> Local]
    BY <1>b DEF Local, TypeOKStore
  <2> QED
    BY <1>7, <1>a, <2>1, GotoType, KeepType, StoreErrorType, AnswerType DEF DepQuota
<1>8. CASE DepInsert(w)
  <2>1. ASSUME NEW i \in FreshIds, NEW now \in loc[w].since .. clock,
               Deposit(i, req[w].to, now),
               UNCHANGED <<members, invites, issued, spent>>, KeepHistory
        PROVE  TypeOKStore'
    <3>1. loc[w].since \in Nat /\ clock \in Nat /\ req[w].to \in Clients
      BY <1>8, <1>a, <1>b DEF DepInsert, Local, Request, TypeOKStore
    <3>2. now \in Nat /\ now + MessageTTL \in Nat
      BY <3>1, BoundAssumption
    <3>3. [id |-> i, recipient |-> req[w].to, receivedAt |-> now, expiresAt |-> now + MessageTTL]
             \in MessageRow
      BY <3>1, <3>2 DEF FreshIds, MessageRow
    <3> QED
      BY <2>1, <3>3 DEF TypeOKStore, Deposit, KeepHistory
  <2> QED
    BY <1>8, <1>a, <2>1, KeepType, AnswerType, FailType DEF DepInsert
<1>9. CASE FetchMember(w)
  BY <1>9, <1>a, <1>c, KeepType, AnswerType, FailType DEF FetchMember
<1>10. CASE FetchQuery(w)
  <2> DEFINE rows == Pending(req[w].from)
  <2>1. loc' = [loc EXCEPT ![w].batch = rows, ![w].todo = rows] => loc' \in [Workers -> Local]
    <3>1. rows \in SUBSET MessageRow
      BY PendingType
    <3>2. [loc[w] EXCEPT !.batch = rows, !.todo = rows] \in Local
      BY <1>b, <3>1 DEF Local
    <3> QED
      BY <1>b, <3>2
  <2> QED
    BY <1>10, <1>a, <2>1, GotoType, KeepType, AnswerType, FailType DEF FetchQuery
<1>11. CASE DeleteOne(w)
  <2>1. PICK m \in Oldest(loc[w].todo) :
           /\ AfterDelete(w, m)
           /\ \/ /\ Delete(m, IF req[w].cmd = "FETCH" THEN "fetch" ELSE "leave")
                 /\ UNCHANGED <<members, invites, issued, clock, spent, admitted, delivered, missed>>
              \/ /\ StoreError
                 /\ Miss(w, m)
                 /\ UNCHANGED <<clock, admitted, delivered, removedBy>>
    BY <1>11 DEF DeleteOne
  <2>2. pc[w] # "idle"
    BY <1>11, <1>a DEF DeleteOne
  <2>3. TypeOKServer'
    <3>1. loc' = [loc EXCEPT ![w].todo = @ \ {m}] => loc' \in [Workers -> Local]
      BY <1>b DEF Local
    <3>2. loc' = [loc EXCEPT ![w].todo = {}] => loc' \in [Workers -> Local]
      BY <1>b DEF Local
    <3> QED
      BY <2>1, <2>2, <3>1, <3>2, GotoType, AnswerType DEF AfterDelete
  <2>4. ASSUME NEW reason \in {"fetch", "leave"}, Delete(m, reason),
               UNCHANGED <<members, invites, issued, clock, spent, admitted, delivered, missed>>
        PROVE  TypeOKStore'
    BY <2>4 DEF TypeOKStore, Delete
  <2>5. ASSUME StoreError, Miss(w, m), UNCHANGED <<clock, admitted, delivered, removedBy>>
        PROVE  TypeOKStore'
    <3>1. m.id \in MsgIds
      BY <1>b DEF Oldest, Local, MessageRow
    <3>2. missed' \in [MsgIds -> Nat]
      BY <2>5, <3>1 DEF Miss, TypeOKStore
    <3> QED
      BY <2>5, <3>2 DEF TypeOKStore, StoreError, Mishap, tables
  <2> QED
    BY <2>1, <2>3, <2>4, <2>5
<1>12. CASE LeaveLookup(w)
  BY <1>12, <1>a, <1>c, KeepType, AnswerType, FailType DEF LeaveLookup
<1>13. CASE LeaveQuery(w)
  <2> DEFINE rows == Pending(req[w].from)
  <2>1. loc' = [loc EXCEPT ![w].todo = rows] => loc' \in [Workers -> Local]
    BY <1>b, PendingType DEF Local
  <2> QED
    BY <1>13, <1>a, <1>c, <2>1, GotoType, KeepType, StoreErrorType DEF LeaveQuery
<1>14. CASE RevokeOwner(w)
  BY <1>14, <1>a, <1>c, KeepType, AnswerType, FailType DEF RevokeOwner
<1>15. CASE RemoveLookup(w)
  BY <1>15, <1>a, <1>c, KeepType, AnswerType, FailType DEF RemoveLookup
<1>16. CASE RemoveDelete(w)
  <2>1. ASSUME DeleteMember(req[w].to), UNCHANGED <<invites, issued, messages, spent>>, KeepHistory
        PROVE  TypeOKStore'
    BY <2>1 DEF TypeOKStore, DeleteMember, KeepHistory
  <2> QED
    BY <1>16, <1>a, <2>1, AnswerType, FailType DEF RemoveDelete
<1>17. CASE InviteOwner(w)
  <2>1. loc' = [loc EXCEPT ![w].since = clock] => loc' \in [Workers -> Local]
    BY <1>b DEF Local, TypeOKStore
  <2> QED
    BY <1>17, <1>a, <2>1, GotoType, KeepType, AnswerType, FailType DEF InviteOwner
<1>18. CASE InviteCreate(w)
  <2>1. ASSUME NEW t \in FreshTokens, NEW now \in loc[w].since .. clock,
               CreateInvite(t, "member", 1, now + InviteTTL),
               UNCHANGED <<members, messages, spent>>, KeepHistory
        PROVE  TypeOKStore'
    <3>1. now + InviteTTL \in Nat
      BY <1>b, BoundAssumption DEF Local, TypeOKStore
    <3> QED
      BY <2>1, <3>1 DEF TypeOKStore, CreateInvite, FreshTokens, KeepHistory, InviteRow, Roles
  <2> QED
    BY <1>18, <1>a, <2>1, KeepType, AnswerType, FailType DEF InviteCreate
<1>19. CASE ListOwner(w)
  BY <1>19, <1>a, <1>c, KeepType, AnswerType, FailType DEF ListOwner
<1>20. CASE ListMembers(w)
  BY <1>20, <1>a, KeepType, AnswerType, FailType DEF ListMembers
<1>21. CASE Reply(w)
  <2>1. TypeOKServer'
    BY <1>21 DEF Reply, CloseConn, TypeOKServer, NoLocals, Local
  <2>2. TypeOKStore'
    BY <1>21 DEF Reply, Mishap, KeepTables, KeepHistory, TypeOKStore, tables
  <2> QED
    BY <2>1, <2>2
<1> QED
  BY <1>1, <1>2, <1>3, <1>4, <1>5, <1>6, <1>7, <1>8, <1>9, <1>10, <1>11, <1>12, <1>13, <1>14,
     <1>15, <1>16, <1>17, <1>18, <1>19, <1>20, <1>21 DEF WorkerStep

\* Each step of a session keeps the types of the store and of the sessions.
LEMMA AdministerType ==
    ASSUME TypeOKStore, TypeOKAdmin, NEW a \in Admins, AdminStep(a)
    PROVE  TypeOKStore' /\ TypeOKAdmin'
<1>1. AdminDone(a) => TypeOKAdmin'
  BY DEF AdminDone, TypeOKAdmin, AdminLabels, NoInvitation
<1>2. \A label \in AdminLabels : AdminGoto(a, label) => TypeOKAdmin'
  BY DEF AdminGoto, TypeOKAdmin
<1>3. AdminKeep => TypeOKStore'
  BY DEF AdminKeep, storeVars, tables, TypeOKStore
<1>4. AdminError => TypeOKStore'
  BY DEF AdminError, StoreError, Mishap, AdminKeepHistory, tables, TypeOKStore
<1>5. ASSUME NEW t \in FreshTokens, NEW role \in Roles \cup {"none"}, NEW uses \in Nat,
             NEW expiresAt \in Nat, CreateInvite(t, role, uses, expiresAt),
             UNCHANGED <<members, messages, spent>>, AdminKeepHistory
      PROVE  TypeOKStore'
  BY <1>5 DEF CreateInvite, FreshTokens, AdminKeepHistory, TypeOKStore, InviteRow
<1>6. CASE InitHasOwner(a)
  BY <1>2, <1>3, <1>4, <1>6 DEF InitHasOwner, AdminLabels
<1>7. CASE InitList(a)
  BY <1>1, <1>2, <1>3, <1>4, <1>7 DEF InitList, AdminLabels
<1>8. CASE InitCreate(a)
  BY <1>1, <1>5, <1>8 DEF InitCreate, Roles
<1>9. CASE InviteHasOwner(a)
  <2>1. TypeOKAdmin'
    BY <1>9 DEF InviteHasOwner, TypeOKAdmin, AdminLabels, Roles, TypeOKStore
  <2> QED
    BY <1>3, <1>9, <2>1 DEF InviteHasOwner
<1>10. CASE InviteRecheck(a)
  BY <1>1, <1>2, <1>3, <1>4, <1>10 DEF InviteRecheck, AdminLabels
<1>11. CASE AdminInviteCreate(a)
  <2>1. inviting[a].role \in Roles \cup {"none"} /\ inviting[a].since \in Nat
    BY DEF TypeOKAdmin
  <2>2. \A uses \in 1 .. MaxUses : uses \in Nat
    BY BoundAssumption
  <2>3. {0} \cup {now + InviteTTL : now \in inviting[a].since .. clock} \subseteq Nat
    BY <2>1, BoundAssumption DEF TypeOKStore
  <2> QED
    BY <1>1, <1>5, <1>11, <2>1, <2>2, <2>3 DEF AdminInviteCreate
<1>12. CASE KickPick(a)
  <2>1. TypeOKAdmin'
    BY <1>12 DEF KickPick, TypeOKAdmin, AdminLabels
  <2> QED
    BY <1>3, <1>12, <2>1 DEF KickPick
<1>13. CASE KickLookup(a)
  BY <1>1, <1>2, <1>3, <1>13 DEF KickLookup, AdminLabels
<1>14. CASE KickDelete(a)
  <2>1. TypeOKStore'
    BY <1>14 DEF KickDelete, DeleteMember, AdminKeepHistory, TypeOKStore
  <2> QED
    BY <1>1, <1>14, <2>1 DEF KickDelete
<1>15. CASE RevokePick(a)
  <2>1. TypeOKAdmin'
    BY <1>15 DEF RevokePick, TypeOKAdmin, AdminLabels
  <2> QED
    BY <1>3, <1>15, <2>1 DEF RevokePick
<1>16. CASE RevokeDelete(a)
  <2>1. NoInvite \in InviteRow
    BY DEF NoInvite, InviteRow
  <2>2. \A t : RevokeInvite(t) => invites' \in [Tokens -> InviteRow]
    BY <2>1 DEF RevokeInvite, TypeOKStore
  <2>3. TypeOKStore'
    BY <1>16, <2>2 DEF RevokeDelete, AdminKeepHistory, TypeOKStore
  <2> QED
    BY <1>1, <1>16, <2>3 DEF RevokeDelete
<1>17. CASE AdminQuit(a)
  BY <1>1, <1>3, <1>17 DEF AdminQuit
<1> QED
  BY <1>6, <1>7, <1>8, <1>9, <1>10, <1>11, <1>12, <1>13, <1>14, <1>15, <1>16, <1>17 DEF AdminStep

\* A stop leaves each handler idle, or with a response to write.
LEMMA StopKinds ==
    ASSUME TypeOKServer, ServerStop
    PROVE  /\ UNCHANGED <<tables, clock, admitted, delivered, removedBy>>
           /\ pc' \in [Workers -> {"idle", "reply"}]
           /\ req' \in [Workers -> Request \cup {NoRequest}]
           /\ loc' \in [Workers -> Local]
           /\ \A w \in Workers :
                 \/ pc'[w] = "idle" /\ req'[w] = NoRequest /\ loc'[w] = NoLocals
                 \/ pc[w] # "idle" /\ pc'[w] = "reply" /\ req'[w] = req[w] /\ loc'[w] = ClosedAnswer(w)
<1>1. PICK late \in SUBSET {w \in Workers : ~At(w, "idle")} :
         /\ pc' = [w \in Workers |-> IF w \in late THEN "reply" ELSE "idle"]
         /\ req' = [w \in Workers |-> IF w \in late THEN req[w] ELSE NoRequest]
         /\ loc' = [w \in Workers |-> IF w \in late THEN ClosedAnswer(w) ELSE NoLocals]
  BY DEF ServerStop
<1>2. \A w \in Workers : ClosedAnswer(w) \in Local
  BY DEF ClosedAnswer, TypeOKServer, NoLocals, Local
<1>3. NoLocals \in Local
  BY DEF NoLocals, Local
<1> QED
  BY <1>1, <1>2, <1>3 DEF ServerStop, KeepTables, At, TypeOKServer

\* A stop keeps the types of the server.
LEMMA StopServerType == ASSUME TypeOKServer, ServerStop PROVE TypeOKServer'
BY StopKinds, OtherLabels DEF TypeOKServer

\* It counts the Deletes that handlers fail to make, and keeps the types of the store.
LEMMA StopStoreType == ASSUME TypeOKStore, ServerStop PROVE TypeOKStore'
<1>1. PICK late \in SUBSET {w \in Workers : ~At(w, "idle")} :
         missed' = [i \in MsgIds |-> missed[i] + Cardinality(Unmade(late, i))]
  BY DEF ServerStop
<1>2. \A i \in MsgIds : Cardinality(Unmade(late, i)) \in Nat
  BY <1>1, WorkerAssumption, FS_Subset, FS_CardinalityType DEF Unmade
<1>3. missed' \in [MsgIds -> Nat]
  BY <1>1, <1>2 DEF TypeOKStore
<1> QED
  BY <1>3 DEF ServerStop, Mishap, KeepTables, tables, TypeOKStore

\* Each variable keeps its type through every step.
THEOREM TypeCorrect == Spec => []TypeOK
<1>1. Init => TypeOK
  <2> SUFFICES ASSUME Init PROVE TypeOK
    OBVIOUS
  <2>1. TypeOKStore
    BY DatabaseAssumption DEF Init, StoreInit, TypeOKStore, NoInvite, InviteRow
  <2>2. TypeOKServer
    BY OtherLabels DEF Init, ServerInit, TypeOKServer, NoLocals, Local
  <2>3. TypeOKAdmin
    BY DEF Init, AdminInit, TypeOKAdmin, AdminLabels, NoInvitation
  <2> QED
    BY <2>1, <2>2, <2>3 DEF TypeOK
<1>2. TypeOK /\ [Next]_vars => TypeOK'
  <2> SUFFICES ASSUME TypeOK, [Next]_vars PROVE TypeOK'
    OBVIOUS
  <2> USE DEF TypeOK
  <2>1. UNCHANGED serverVars => TypeOKServer'
    BY DEF serverVars, TypeOKServer
  <2>2. UNCHANGED adminVars => TypeOKAdmin'
    BY DEF adminVars, TypeOKAdmin
  <2>3. ASSUME NEW w \in Workers, Connect(w) PROVE TypeOK'
    <3>1. PICK r \in Requests : Accept(w, r) /\ UNCHANGED adminVars
      BY <2>3 DEF Connect
    <3>2. r \in Request
      <4>1. Commands \subseteq DOMAIN Start
        BY StartFirst
      <4>2. issued \cup {NoCode} \subseteq Tokens \cup {NoCode}
        BY DEF TypeOKStore
      <4> QED
        BY <4>1, <4>2 DEF Requests, Request
    <3>3. Start[r.cmd] \in Labels /\ Start[r.cmd] \notin {"join_consume", "join_add"}
      BY StartLabels, StartFirst DEF Requests
    <3>4. TypeOKServer'
      BY <3>1, <3>2, <3>3 DEF Accept, TypeOKServer, NoLocals, Local
    <3> QED
      BY <2>2, <3>1, <3>4, KeepType DEF Accept
  <2>4. ASSUME NEW w \in Workers, Serve(w) PROVE TypeOK'
    BY <2>2, <2>4, ServeType DEF Serve
  <2>5. ASSUME NEW a \in Admins, Administer(a) PROVE TypeOK'
    BY <2>1, <2>5, AdministerType DEF Administer
  <2>6. CASE Restart
    <3>1. TypeOKServer'
      BY <2>6, StopServerType DEF Restart
    <3>2. TypeOKStore'
      BY <2>6, StopStoreType DEF Restart
    <3> QED
      BY <2>2, <2>6, <3>1, <3>2 DEF Restart
  <2>7. CASE Pass
    <3>1. TypeOKStore'
      BY <2>7 DEF Pass, Tick, tables, TypeOKStore
    <3> QED
      BY <2>1, <2>2, <2>7, <3>1 DEF Pass
  <2>8. CASE RunExpiry
    <3>1. TypeOKStore'
      BY <2>8 DEF RunExpiry, Sweep, Expire, StoreError, Mishap, tables, TypeOKStore
    <3> QED
      BY <2>1, <2>2, <2>8, <3>1 DEF RunExpiry
  <2>9. CASE UNCHANGED vars
    <3>1. TypeOKStore'
      BY <2>9 DEF vars, storeVars, tables, TypeOKStore
    <3> QED
      BY <2>1, <2>2, <2>9, <3>1 DEF vars
  <2> QED
    BY <2>3, <2>4, <2>5, <2>6, <2>7, <2>8, <2>9 DEF Next
<1> QED
  BY <1>1, <1>2, PTL DEF Spec

-----------------------------------------------------------------------------
(* The owner stays.                                                        *)

\* What a step lets a handler or a session conclude is founded on the state:
\* it saw an owner that is there, it decided on the role member beside an owner,
\* and it starts to delete only a client that was a plain member.
GroundedHandlers ==
    \A w \in Workers :
        /\ loc'[w].hasOwner => HasOwner
        /\ pc'[w] = "join_add" /\ loc'[w].role = "member" => HasOwner
        /\ pc'[w] = "remove_delete" =>
              Condemned(req'[w].to) \/ members[req'[w].to] = "member"

GroundedSessions ==
    \A a \in Admins :
        apc'[a] = "kick_delete" =>
            Condemned(kicking'[a]) \/ members[kicking'[a]] = "member"

\* After a grounded step only clients that were condemned, or are members that
\* were looked up in this step, are condemned.
LEMMA CondemnedNext ==
    ASSUME GroundedHandlers, GroundedSessions, NEW c, Condemned(c)'
    PROVE  Condemned(c) \/ members[c] = "member"
BY DEF GroundedHandlers, GroundedSessions, Condemned, HandlersAt, At, AdminAt

\* Grounded steps that leave the members alone keep the invariant.
LEMMA GroundedStep ==
    ASSUME OwnerOutOfReach, GroundedHandlers, GroundedSessions, UNCHANGED members
    PROVE  OwnerOutOfReach' /\ (HasOwner => HasOwner')
<1>1. HasOwner' <=> HasOwner
  BY DEF HasOwner
<1>2. \A c \in Clients : members'[c] = "member" \/ Condemned(c)' => HasOwner
  BY CondemnedNext DEF OwnerOutOfReach
<1>3. HasOwner => \E c \in Clients : IsOwner(c)' /\ ~Condemned(c)'
  BY CondemnedNext DEF OwnerOutOfReach, IsOwner
<1> QED
  BY <1>1, <1>2, <1>3 DEF OwnerOutOfReach, GroundedHandlers, HandlersAt, At

\* A JOIN adds a client that was absent, as a member only beside an owner.
LEMMA AddStep ==
    ASSUME TypeOKStore, OwnerOutOfReach, GroundedHandlers, GroundedSessions,
           NEW c \in Clients, NEW role, members[c] = "none", AddMember(c, role),
           role = "member" => HasOwner
    PROVE  OwnerOutOfReach' /\ (HasOwner => HasOwner')
<1>1. members' = [members EXCEPT ![c] = role] /\ members \in [Clients -> Roles \cup {"none"}]
  BY DEF AddMember, TypeOKStore
<1>2. CASE HasOwner
  <2>1. PICK o \in Clients : IsOwner(o) /\ ~Condemned(o)
    BY <1>2 DEF OwnerOutOfReach
  <2>2. IsOwner(o)' /\ ~Condemned(o)' /\ HasOwner'
    BY <1>1, <2>1, CondemnedNext DEF IsOwner, HasOwner
  <2> QED
    BY <2>2 DEF OwnerOutOfReach
<1>3. CASE ~HasOwner
  <2>1. \A d \in Clients : members[d] # "member" /\ ~Condemned(d)'
    BY <1>3, CondemnedNext DEF OwnerOutOfReach
  <2>2. \A d \in Clients : members'[d] # "member"
    BY <1>1, <1>3, <2>1
  <2> QED
    BY <1>3, <2>1, <2>2
       DEF OwnerOutOfReach, HasOwner, IsOwner, GroundedHandlers, HandlersAt, At
<1> QED
  BY <1>2, <1>3

\* The second call of a RemoveMember deletes a condemned client.
LEMMA RemoveStep ==
    ASSUME TypeOKStore, OwnerOutOfReach, GroundedHandlers, GroundedSessions,
           NEW c \in Clients, Condemned(c), DeleteMember(c)
    PROVE  OwnerOutOfReach' /\ (HasOwner => HasOwner')
<1>1. PICK o \in Clients : IsOwner(o) /\ ~Condemned(o)
  BY DEF OwnerOutOfReach
<1>2. IsOwner(o)' /\ ~Condemned(o)'
  BY <1>1, CondemnedNext DEF IsOwner, DeleteMember, TypeOKStore
<1>3. HasOwner'
  BY <1>2 DEF HasOwner, IsOwner
<1> QED
  BY <1>2, <1>3 DEF OwnerOutOfReach

-----------------------------------------------------------------------------

\* Other handlers stay as they are; for the one that moves it is enough to look
\* at its own new label and locals.
LEMMA GotoGrounded ==
    ASSUME TypeOKServer, OwnerOutOfReach, NEW w \in Workers, NEW label, Goto(w, label),
           \A v \in Workers \ {w} : loc'[v] = loc[v],
           loc'[w].hasOwner => HasOwner,
           label = "join_add" /\ loc'[w].role = "member" => HasOwner,
           label = "remove_delete" => members[req[w].to] = "member"
    PROVE  GroundedHandlers
<1> SUFFICES ASSUME NEW v \in Workers
             PROVE  /\ loc'[v].hasOwner => HasOwner
                    /\ pc'[v] = "join_add" /\ loc'[v].role = "member" => HasOwner
                    /\ pc'[v] = "remove_delete" =>
                          Condemned(req'[v].to) \/ members[req'[v].to] = "member"
  BY DEF GroundedHandlers
<1>1. CASE v = w
  BY <1>1 DEF Goto, TypeOKServer
<1>2. CASE v # w
  BY <1>2 DEF Goto, TypeOKServer, OwnerOutOfReach, Condemned, HandlersAt, At
<1> QED
  BY <1>1, <1>2

\* A move that changes no locals is grounded.
LEMMA StayGrounded ==
    ASSUME TypeOKServer, OwnerOutOfReach, NEW w \in Workers, NEW label, Goto(w, label),
           label \notin {"join_add", "remove_delete"}, UNCHANGED loc
    PROVE  GroundedHandlers
BY GotoGrounded DEF OwnerOutOfReach

\* A handler that answers forgets what it has seen.
LEMMA AnswerGrounded ==
    ASSUME TypeOKServer, OwnerOutOfReach, NEW w \in Workers, NEW outcome, Answer(w, outcome)
    PROVE  GroundedHandlers
<1>1. loc'[w].hasOwner = FALSE /\ \A v \in Workers \ {w} : loc'[v] = loc[v]
  BY DEF Answer, NoLocals, TypeOKServer
<1> QED
  BY <1>1, GotoGrounded DEF Answer

\* So does one that gives up, and no row changes.
LEMMA FailGrounded ==
    ASSUME TypeOKServer, OwnerOutOfReach, NEW w \in Workers, FailWith(w, "error")
    PROVE  GroundedHandlers /\ UNCHANGED members
BY AnswerGrounded DEF FailWith, StoreError, tables

\* Sessions that do not move look nobody up.
LEMMA IdleSessions == ASSUME UNCHANGED adminVars PROVE GroundedSessions
BY DEF adminVars, GroundedSessions, Condemned, AdminAt

\* A handler's step keeps the invariant.
LEMMA ServeOwner ==
    ASSUME TypeOKStore, TypeOKServer, OwnerOutOfReach, UNCHANGED adminVars,
           NEW w \in Workers, WorkerStep(w)
    PROVE  OwnerOutOfReach' /\ (HasOwner => HasOwner')
<1> DEFINE Goal == OwnerOutOfReach' /\ (HasOwner => HasOwner')
<1>s. GroundedSessions
  BY IdleSessions
<1>k. Keep => UNCHANGED members
  BY DEF Keep, KeepTables, tables
<1>e. StoreError => UNCHANGED members
  BY DEF StoreError, tables
<1>a. GroundedHandlers /\ UNCHANGED members => Goal
  BY <1>s, GroundedStep
<1>b. loc \in [Workers -> Local] /\ loc[w] \in Local
  BY DEF TypeOKServer
<1>r. \A label : At(w, label) /\ label # "idle" => req[w] \in Request
  BY DEF At, TypeOKServer
<1>1. CASE JoinLookup(w)
  BY <1>1, <1>k, <1>e, <1>a, StayGrounded, AnswerGrounded DEF JoinLookup
<1>2. CASE JoinHasOwner(w)
  <2>1. ASSUME Goto(w, "join_consume"), loc' = [loc EXCEPT ![w].hasOwner = HasOwner]
        PROVE  GroundedHandlers
    <3>1. loc'[w].hasOwner = HasOwner /\ \A v \in Workers \ {w} : loc'[v] = loc[v]
      BY <1>b, <2>1 DEF Local
    <3> QED
      BY <2>1, <3>1, GotoGrounded
  <2> QED
    BY <1>2, <2>1, <1>k, <1>a, AnswerGrounded, FailGrounded DEF JoinHasOwner
<1>3. CASE JoinConsume(w)
  <2>1. ASSUME Goto(w, "join_add"),
               loc' = [loc EXCEPT ![w].role = invites[req[w].code].role],
               loc[w].hasOwner \/ invites[req[w].code].role = "owner"
        PROVE  GroundedHandlers
    <3>1. /\ loc'[w].role = invites[req[w].code].role
          /\ loc'[w].hasOwner = loc[w].hasOwner
          /\ \A v \in Workers \ {w} : loc'[v] = loc[v]
      BY <1>b, <2>1 DEF Local
    <3>2. loc[w].hasOwner => HasOwner
      BY DEF OwnerOutOfReach
    <3> QED
      BY <2>1, <3>1, <3>2, GotoGrounded
  <2> QED
    BY <1>3, <2>1, <1>k, <1>a, AnswerGrounded, FailGrounded DEF JoinConsume
<1>4. CASE JoinAdd(w)
  <2>1. req[w].from \in Clients
    BY <1>4, <1>r DEF JoinAdd, Request
  <2>2. loc[w].role = "member" => HasOwner
    BY <1>4 DEF JoinAdd, OwnerOutOfReach, HandlersAt
  <2> QED
    BY <1>4, <2>1, <2>2, <1>s, <1>k, <1>a, AddStep, AnswerGrounded, FailGrounded
       DEF JoinAdd, CanAddMember
<1>5. CASE DepSender(w)
  BY <1>5, <1>k, <1>a, StayGrounded, AnswerGrounded, FailGrounded DEF DepSender
<1>6. CASE DepRecipient(w)
  BY <1>6, <1>k, <1>a, StayGrounded, AnswerGrounded, FailGrounded DEF DepRecipient
<1>c. \* the other locals say nothing of owners and roles
      ASSUME NEW label, Goto(w, label), label \notin {"join_add", "remove_delete"},
             \/ loc' = [loc EXCEPT ![w].since = clock]
             \/ \E rows : \/ loc' = [loc EXCEPT ![w].batch = rows, ![w].todo = rows]
                          \/ loc' = [loc EXCEPT ![w].todo = rows]
      PROVE  GroundedHandlers
  <2>1. loc'[w].hasOwner = loc[w].hasOwner /\ \A v \in Workers \ {w} : loc'[v] = loc[v]
    BY <1>b, <1>c DEF Local
  <2> QED
    BY <1>c, <2>1, GotoGrounded DEF OwnerOutOfReach
<1>7. CASE DepQuota(w)
  BY <1>7, <1>c, <1>k, <1>e, <1>a, AnswerGrounded DEF DepQuota
<1>8. CASE DepInsert(w)
  BY <1>8, <1>k, <1>a, AnswerGrounded, FailGrounded DEF DepInsert
<1>9. CASE FetchMember(w)
  BY <1>9, <1>k, <1>a, StayGrounded, AnswerGrounded, FailGrounded DEF FetchMember
<1>10. CASE FetchQuery(w)
  BY <1>10, <1>c, <1>k, <1>a, AnswerGrounded, FailGrounded DEF FetchQuery
<1>11. CASE DeleteOne(w)
  <2>1. UNCHANGED members
    BY <1>11, <1>e DEF DeleteOne
  <2>2. PICK m : AfterDelete(w, m)
    BY <1>11 DEF DeleteOne
  <2>3. CASE Goto(w, "delete") /\ loc' = [loc EXCEPT ![w].todo = @ \ {m}]
    BY <1>a, <1>c, <2>1, <2>3
  <2>4. CASE Answer(w, "ok")
    BY <1>a, <2>1, <2>4, AnswerGrounded
  <2>5. CASE Goto(w, "remove_lookup") /\ loc' = [loc EXCEPT ![w].todo = {}]
    BY <1>a, <1>c, <2>1, <2>5
  <2> QED
    BY <2>2, <2>3, <2>4, <2>5 DEF AfterDelete
<1>12. CASE LeaveLookup(w)
  BY <1>12, <1>k, <1>a, StayGrounded, AnswerGrounded, FailGrounded DEF LeaveLookup
<1>13. CASE LeaveQuery(w)
  BY <1>13, <1>c, <1>k, <1>e, <1>a, StayGrounded DEF LeaveQuery
<1>14. CASE RevokeOwner(w)
  BY <1>14, <1>k, <1>a, StayGrounded, AnswerGrounded, FailGrounded DEF RevokeOwner
<1>15. CASE RemoveLookup(w)
  <2>1. ASSUME Removable(req[w].to), Goto(w, "remove_delete"), UNCHANGED loc
        PROVE  GroundedHandlers
    BY <2>1, GotoGrounded DEF Removable, OwnerOutOfReach
  <2> QED
    BY <1>15, <2>1, <1>k, <1>a, AnswerGrounded, FailGrounded DEF RemoveLookup
<1>16. CASE RemoveDelete(w)
  <2>1. req[w].to \in Clients /\ Condemned(req[w].to)
    BY <1>16, <1>r DEF RemoveDelete, Request, Condemned, HandlersAt
  <2> QED
    BY <1>16, <2>1, <1>s, <1>a, RemoveStep, AnswerGrounded, FailGrounded DEF RemoveDelete
<1>17. CASE InviteOwner(w)
  BY <1>17, <1>c, <1>k, <1>a, AnswerGrounded, FailGrounded DEF InviteOwner
<1>18. CASE InviteCreate(w)
  BY <1>18, <1>k, <1>a, AnswerGrounded, FailGrounded DEF InviteCreate
<1>19. CASE ListOwner(w)
  BY <1>19, <1>k, <1>a, StayGrounded, AnswerGrounded, FailGrounded DEF ListOwner
<1>20. CASE ListMembers(w)
  BY <1>20, <1>k, <1>a, AnswerGrounded, FailGrounded DEF ListMembers
<1>21. CASE Reply(w)
  <2>1. UNCHANGED members
    BY <1>21 DEF Reply, KeepTables, tables
  <2>2. GroundedHandlers
    BY <1>21 DEF Reply, CloseConn, NoLocals, TypeOKServer, GroundedHandlers, OwnerOutOfReach,
                 Condemned, HandlersAt, At
  <2> QED
    BY <1>a, <2>1, <2>2
<1> QED
  BY <1>1, <1>2, <1>3, <1>4, <1>5, <1>6, <1>7, <1>8, <1>9, <1>10, <1>11, <1>12, <1>13, <1>14,
     <1>15, <1>16, <1>17, <1>18, <1>19, <1>20, <1>21 DEF WorkerStep

\* A session's step keeps the invariant.
LEMMA AdministerOwner ==
    ASSUME TypeOKStore, TypeOKAdmin, OwnerOutOfReach, UNCHANGED serverVars,
           NEW a \in Admins, AdminStep(a)
    PROVE  OwnerOutOfReach' /\ (HasOwner => HasOwner')
<1>1. GroundedHandlers
  BY DEF serverVars, GroundedHandlers, OwnerOutOfReach, Condemned, HandlersAt, At
<1>2. ASSUME NEW label, apc' = [apc EXCEPT ![a] = label],
             \A b \in Admins \ {a} : kicking'[b] = kicking[b],
             label = "kick_delete" => members[kicking'[a]] = "member"
      PROVE  GroundedSessions
  BY <1>2 DEF TypeOKAdmin, GroundedSessions, Condemned, AdminAt
<1>3. AdminDone(a) => GroundedSessions
  BY <1>2 DEF AdminDone, TypeOKAdmin
<1>4. \A label : AdminGoto(a, label) /\ label # "kick_delete" => GroundedSessions
  BY <1>2 DEF AdminGoto
<1>5. AdminKeep \/ AdminError => UNCHANGED members
  BY DEF AdminKeep, AdminError, StoreError, storeVars, tables
<1>6. GroundedSessions /\ UNCHANGED members => OwnerOutOfReach' /\ (HasOwner => HasOwner')
  BY <1>1, GroundedStep
<1>7. CASE InitHasOwner(a) \/ InitList(a) \/ InitCreate(a)
  BY <1>3, <1>4, <1>5, <1>6, <1>7 DEF InitHasOwner, InitList, InitCreate
<1>8. CASE InviteHasOwner(a)
  <2>1. PICK label \in {"invite_recheck", "invite_create"} : apc' = [apc EXCEPT ![a] = label]
    BY <1>8 DEF InviteHasOwner
  <2> QED
    BY <1>2, <1>5, <1>6, <1>8, <2>1 DEF InviteHasOwner
<1>9. CASE InviteRecheck(a) \/ AdminInviteCreate(a)
  BY <1>3, <1>4, <1>5, <1>6, <1>9 DEF InviteRecheck, AdminInviteCreate
<1>10. CASE KickPick(a)
  BY <1>2, <1>5, <1>6, <1>10 DEF KickPick, TypeOKAdmin
<1>11. CASE KickLookup(a)
  <2>1. CASE Removable(kicking[a]) /\ AdminGoto(a, "kick_delete")
    BY <1>2, <1>5, <1>6, <1>11, <2>1 DEF KickLookup, AdminGoto, Removable
  <2> QED
    BY <1>3, <1>5, <1>6, <1>11, <2>1 DEF KickLookup
<1>12. CASE KickDelete(a)
  <2>1. Condemned(kicking[a])
    BY <1>12 DEF KickDelete, Condemned
  <2>2. CASE kicking[a] \in Clients
    BY <1>1, <1>3, <1>12, <2>1, <2>2, RemoveStep DEF KickDelete
  <2>3. CASE kicking[a] \notin Clients
    BY <1>3, <1>6, <1>12, <2>3 DEF KickDelete, DeleteMember, TypeOKStore
  <2> QED
    BY <2>2, <2>3
<1>13. CASE RevokePick(a)
  BY <1>2, <1>5, <1>6, <1>13 DEF RevokePick
<1>14. CASE RevokeDelete(a) \/ AdminQuit(a)
  BY <1>3, <1>5, <1>6, <1>14 DEF RevokeDelete, AdminQuit
<1> QED
  BY <1>7, <1>8, <1>9, <1>10, <1>11, <1>12, <1>13, <1>14 DEF AdminStep

\* Every step keeps the invariant, and with it the owner.
LEMMA OwnerStep ==
    ASSUME TypeOK, OwnerOutOfReach, [Next]_vars
    PROVE  OwnerOutOfReach' /\ (HasOwner => HasOwner')
<1> DEFINE Goal == OwnerOutOfReach' /\ (HasOwner => HasOwner')
<1> USE DEF TypeOK
<1>1. UNCHANGED serverVars => GroundedHandlers
  BY DEF serverVars, GroundedHandlers, OwnerOutOfReach, Condemned, HandlersAt, At
<1>2. ASSUME NEW w \in Workers, Connect(w) PROVE Goal
  <2>1. PICK r \in Requests : Accept(w, r) /\ UNCHANGED adminVars
    BY <1>2 DEF Connect
  <2>2. Start[r.cmd] \notin {"join_add", "remove_delete"}
    BY StartFirst DEF Requests
  <2>3. GroundedHandlers
    BY <2>1, <2>2 DEF Accept, NoLocals, TypeOKServer, GroundedHandlers, OwnerOutOfReach,
                 Condemned, HandlersAt, At
  <2> QED
    BY <2>1, <2>3, IdleSessions, GroundedStep DEF Accept, Keep, KeepTables, tables
<1>3. ASSUME NEW w \in Workers, Serve(w) PROVE Goal
  BY <1>3, ServeOwner DEF Serve
<1>4. ASSUME NEW a \in Admins, Administer(a) PROVE Goal
  BY <1>4, AdministerOwner DEF Administer
<1>5. CASE Restart
  <2>0. ServerStop /\ UNCHANGED adminVars
    BY <1>5 DEF Restart
  <2>1. GroundedHandlers
    <3> SUFFICES ASSUME NEW w \in Workers
                 PROVE  pc'[w] \in {"idle", "reply"} /\ (loc'[w].hasOwner => HasOwner)
      BY DEF GroundedHandlers
    <3>1. ClosedAnswer(w).hasOwner => HasOwner
      BY DEF ClosedAnswer, NoLocals, OwnerOutOfReach
    <3> QED
      BY <2>0, <3>1, StopKinds DEF NoLocals
  <2> QED
    BY <2>0, <2>1, StopKinds, IdleSessions, GroundedStep DEF tables
<1>6. CASE Pass
  BY <1>1, <1>6, IdleSessions, GroundedStep DEF Pass, Tick, tables
<1>7. CASE RunExpiry
  BY <1>1, <1>7, IdleSessions, GroundedStep DEF RunExpiry, Sweep, StoreError, tables
<1>8. CASE UNCHANGED vars
  BY <1>1, <1>8, IdleSessions, GroundedStep DEF vars, storeVars, tables
<1> QED
  BY <1>2, <1>3, <1>4, <1>5, <1>6, <1>7, <1>8 DEF Next

\* In every state an owner, if there is one, is out of reach of the removals
\* under way.
THEOREM OwnerIsOutOfReach == Spec => []OwnerOutOfReach
<1>1. Init => OwnerOutOfReach
  BY DatabaseAssumption
     DEF Init, StoreInit, ServerInit, AdminInit, NoLocals, OwnerOutOfReach, HasOwner, IsOwner,
         Condemned, HandlersAt, At, AdminAt
<1>2. TypeOK /\ OwnerOutOfReach /\ [Next]_vars => OwnerOutOfReach'
  BY OwnerStep
<1> QED
  BY <1>1, <1>2, TypeCorrect, PTL DEF Spec

\* A mailbox that has an owner has one ever after.
THEOREM OwnerNeverVanishes == Spec => OwnerStays
<1>1. TypeOK /\ OwnerOutOfReach /\ [Next]_vars => [HasOwner => HasOwner']_vars
  BY OwnerStep
<1> QED
  BY <1>1, TypeCorrect, OwnerIsOutOfReach, PTL DEF Spec, OwnerStays
=============================================================================
