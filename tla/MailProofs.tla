----------------------------- MODULE MailProofs -----------------------------
(***************************************************************************)
(* Proofs about mail: which rows leave the table, how often a message is   *)
(* delivered, that what FETCH removed arrives, the quota, and that Mailbox *)
(* implements MailDrop.                                                    *)
(*                                                                         *)
(* As in MembershipProofs, the steps are first sorted into kinds.          *)
(***************************************************************************)
EXTENDS MembershipProofs

(* The kinds of steps.                                                     *)

MailKept == UNCHANGED <<messages, removedBy, delivered, missed>>

\* A call fails, which is not a response that gets lost; or nothing fails.
Faulted == Failed /\ spent'["write"] = spent["write"]
Unharmed == UNCHANGED spent

\* Only handler w moves; the rows it has read stay with it.
Alone(w) ==
    \A v \in Workers \ {w} : pc'[v] = pc[v] /\ req'[v] = req[v] /\ loc'[v] = loc[v]
Carries(w) == req'[w] = req[w] /\ loc'[w].batch = loc[w].batch

\* A step that has to do with no mail.
Routine(w) ==
    /\ Alone(w) /\ Carries(w) /\ MailKept
    /\ pc[w] \notin {"idle", "delete", "reply"} /\ pc'[w] \notin {"idle", "delete"}
    /\ pc'[w] = "dep_insert" => At(w, "dep_quota")
    /\ At(w, "dep_insert") => pc'[w] = "reply"
    /\ Unharmed \/ Faulted

\* DEPOSIT passes the quota: it found room, or its check failed.
Passes(w) ==
    /\ Routine(w) /\ At(w, "dep_quota") /\ pc'[w] = "dep_insert"
    /\ UNCHANGED clock
    /\ \/ MaxPerRecipient = 0
       \/ Cardinality(Pending(req[w].to)) < MaxPerRecipient
       \/ Faulted

\* DEPOSIT adds a row.
Deposits(w) ==
    /\ Alone(w) /\ Carries(w) /\ At(w, "dep_insert") /\ pc'[w] = "reply" /\ Unharmed
    /\ \E i \in FreshIds, now \in Nat : Deposit(i, req[w].to, now)
    /\ UNCHANGED <<removedBy, delivered, missed, clock>>

\* FETCH reads the rows it will answer with, and LEAVE those it will delete.
Reads(w) ==
    /\ Alone(w) /\ MailKept /\ Unharmed /\ UNCHANGED clock
    /\ At(w, "fetch_query") /\ pc'[w] = "delete" /\ req'[w] = req[w]
    /\ loc'[w].batch = Pending(req[w].from) /\ loc'[w].todo = Pending(req[w].from)

Collects(w) ==
    /\ Alone(w) /\ Carries(w) /\ MailKept /\ Unharmed /\ UNCHANGED clock
    /\ At(w, "leave_query") /\ pc'[w] = "delete"
    /\ loc'[w].todo = Pending(req[w].from)

\* FETCH or LEAVE deals with one of the rows; its Delete succeeds or fails.
Clears(w, m) ==
    /\ Alone(w) /\ Carries(w) /\ At(w, "delete") /\ m \in loc[w].todo
    /\ \/ pc'[w] = "delete" /\ loc'[w].todo = loc[w].todo \ {m}
       \/ loc[w].todo = {m} /\ pc'[w] \notin {"idle", "delete"}
    /\ pc'[w] # "dep_insert"
    /\ \/ Delete(m, IF req[w].cmd = "FETCH" THEN "fetch" ELSE "leave") /\ Unharmed /\ UNCHANGED missed
       \/ UNCHANGED <<messages, removedBy>> /\ Faulted /\ Miss(w, m)
    /\ UNCHANGED <<delivered, clock>>

\* The response reaches the client, or does not.
Closes(w) ==
    /\ Alone(w) /\ At(w, "reply") /\ pc'[w] = "idle" /\ loc'[w].batch = {}
    /\ UNCHANGED <<messages, removedBy, missed>>
Delivers(w) ==
    /\ Closes(w) /\ Unharmed
    /\ delivered' = [i \in MsgIds |->
          IF \E m \in loc[w].batch : m.id = i THEN delivered[i] + 1 ELSE delivered[i]]
Drops(w) ==
    /\ Closes(w) /\ UNCHANGED delivered
    /\ spent'["write"] = spent["write"] + 1 /\ NothingFailed

\* These are all the kinds of handlers' steps.
LEMMA MailKinds ==
    ASSUME TypeOK, NEW w \in Workers, Serve(w)
    PROVE  \/ Routine(w) /\ pc'[w] # "dep_insert"
           \/ Passes(w) \/ Deposits(w) \/ Reads(w) \/ Collects(w)
           \/ \E m : Clears(w, m)
           \/ Delivers(w) \/ Drops(w)
<1> USE DEF TypeOK
<1>b. /\ loc \in [Workers -> Local] /\ loc[w] \in Local /\ pc \in [Workers -> Labels]
      /\ req \in [Workers -> Request \cup {NoRequest}]
  BY DEF TypeOKServer
<1>k. Keep => MailKept /\ Unharmed /\ UNCHANGED clock
  BY DEF Keep, KeepTables, KeepHistory, tables, MailKept, Unharmed
<1>e. StoreError /\ KeepHistory => MailKept /\ Faulted /\ UNCHANGED clock
  BY DEF StoreError, Mishap, KeepHistory, tables, MailKept, Faulted, Failed, TypeOKStore
<1>g. \A label : Goto(w, label) =>
         /\ pc'[w] = label /\ req'[w] = req[w]
         /\ \A v \in Workers \ {w} : pc'[v] = pc[v] /\ req'[v] = req[v]
  BY <1>b DEF Goto
<1>l. UNCHANGED loc => \A v \in Workers : loc'[v].batch = loc[v].batch /\ loc'[v] = loc[v]
  OBVIOUS
<1>a. \A outcome : Answer(w, outcome) => pc'[w] = "reply" /\ Alone(w) /\ Carries(w)
  BY <1>b, <1>g DEF Answer, Alone, Carries, NoLocals
<1>w. ASSUME NEW outcome, Answer(w, outcome), MailKept, Unharmed \/ Faulted,
             pc[w] \notin {"idle", "delete", "reply"}
      PROVE  Routine(w) /\ pc'[w] # "dep_insert"
  BY <1>w, <1>a DEF Routine
<1>f. FailWith(w, "error") /\ pc[w] \notin {"idle", "delete", "reply"}
         => Routine(w) /\ pc'[w] # "dep_insert"
  BY <1>w, <1>e DEF FailWith
<1>m. ASSUME NEW label, Goto(w, label), MailKept, Unharmed \/ Faulted,
             \A v \in Workers \ {w} : loc'[v] = loc[v], loc'[w].batch = loc[w].batch,
             pc[w] \notin {"idle", "delete", "reply", "dep_insert"},
             label \notin {"idle", "delete", "dep_insert"}
      PROVE  Routine(w) /\ pc'[w] # "dep_insert"
  BY <1>m, <1>g DEF Routine, Alone, Carries, At
<1>1. CASE JoinLookup(w)
  BY <1>1, <1>k, <1>e, <1>w, <1>m, <1>l DEF JoinLookup, At
<1>2. CASE JoinHasOwner(w)
  <2>1. loc' = [loc EXCEPT ![w].hasOwner = HasOwner] =>
           loc'[w].batch = loc[w].batch /\ \A v \in Workers \ {w} : loc'[v] = loc[v]
    BY <1>b DEF Local
  <2> QED
    BY <1>2, <1>k, <1>f, <1>w, <1>m, <2>1 DEF JoinHasOwner, At
<1>3. CASE JoinConsume(w)
  <2>1. loc' = [loc EXCEPT ![w].role = invites[req[w].code].role] =>
           loc'[w].batch = loc[w].batch /\ \A v \in Workers \ {w} : loc'[v] = loc[v]
    BY <1>b DEF Local
  <2>2. UNCHANGED <<members, issued, messages, spent>> /\ KeepHistory => MailKept /\ Unharmed
    BY DEF KeepHistory, MailKept, Unharmed
  <2> QED
    BY <1>3, <1>k, <1>f, <1>w, <1>m, <2>1, <2>2 DEF JoinConsume, At
<1>4. CASE JoinAdd(w)
  <2>1. UNCHANGED <<invites, issued, messages, clock, spent, delivered, removedBy, missed>>
           => MailKept /\ Unharmed
    BY DEF MailKept, Unharmed
  <2> QED
    BY <1>4, <1>k, <1>f, <1>w, <2>1 DEF JoinAdd, At
<1>5. CASE DepSender(w) \/ DepRecipient(w)
  BY <1>5, <1>k, <1>f, <1>w, <1>m, <1>l DEF DepSender, DepRecipient, At
<1>s. loc' = [loc EXCEPT ![w].since = clock] =>
         loc'[w].batch = loc[w].batch /\ \A v \in Workers \ {w} : loc'[v] = loc[v]
  BY <1>b DEF Local
<1>7. CASE DepQuota(w)
  <2>1. ASSUME Goto(w, "dep_insert"), loc' = [loc EXCEPT ![w].since = clock],
               MailKept, UNCHANGED clock, Unharmed \/ Faulted,
               \/ MaxPerRecipient = 0
               \/ Cardinality(Pending(req[w].to)) < MaxPerRecipient
               \/ Faulted
        PROVE  Passes(w)
    BY <1>7, <1>g, <1>s, <2>1 DEF DepQuota, Passes, Routine, Alone, Carries, At
  <2> QED
    BY <1>7, <1>k, <1>e, <1>w, <2>1 DEF DepQuota, At
<1>8. CASE DepInsert(w)
  <2>1. \A now \in loc[w].since .. clock : now \in Nat
    BY <1>b DEF Local, TypeOKStore
  <2>2. UNCHANGED <<members, invites, issued, spent>> /\ KeepHistory
           => UNCHANGED <<removedBy, delivered, missed, clock>> /\ Unharmed
    BY DEF KeepHistory, Unharmed
  <2> QED
    BY <1>8, <1>k, <1>f, <1>w, <1>a, <2>1, <2>2 DEF DepInsert, Deposits, At
<1>9. CASE FetchMember(w)
  BY <1>9, <1>k, <1>f, <1>w, <1>m, <1>l DEF FetchMember, At
<1>10. CASE FetchQuery(w)
  <2> DEFINE rows == Pending(req[w].from)
  <2>1. loc' = [loc EXCEPT ![w].batch = rows, ![w].todo = rows] =>
           /\ loc'[w].batch = rows /\ loc'[w].todo = rows
           /\ \A v \in Workers \ {w} : loc'[v] = loc[v]
    BY <1>b DEF Local
  <2> QED
    BY <1>10, <1>k, <1>f, <1>w, <1>g, <2>1 DEF FetchQuery, Reads, Alone, At
<1>11. CASE DeleteOne(w)
  <2>1. PICK m \in Oldest(loc[w].todo) :
           /\ AfterDelete(w, m)
           /\ \/ /\ Delete(m, IF req[w].cmd = "FETCH" THEN "fetch" ELSE "leave")
                 /\ UNCHANGED <<members, invites, issued, clock, spent, admitted, delivered, missed>>
              \/ /\ StoreError
                 /\ Miss(w, m)
                 /\ UNCHANGED <<clock, admitted, delivered, removedBy>>
    BY <1>11 DEF DeleteOne
  <2>2. \/ Delete(m, IF req[w].cmd = "FETCH" THEN "fetch" ELSE "leave") /\ Unharmed /\ UNCHANGED missed
        \/ UNCHANGED <<messages, removedBy>> /\ Faulted /\ Miss(w, m)
    BY <2>1 DEF Unharmed, StoreError, Mishap, tables, Faulted, Failed, TypeOKStore
  <2>3. UNCHANGED <<delivered, clock>>
    BY <2>1
  <2>4. \A rows : loc' = [loc EXCEPT ![w].todo = rows] =>
           /\ loc'[w].batch = loc[w].batch /\ loc'[w].todo = rows
           /\ \A v \in Workers \ {w} : loc'[v] = loc[v]
    BY <1>b DEF Local
  <2>5. loc' = [loc EXCEPT ![w].todo = @ \ {m}] => loc' = [loc EXCEPT ![w].todo = loc[w].todo \ {m}]
    BY <1>b DEF Local
  <2>6. Alone(w) /\ Carries(w) /\ pc'[w] # "dep_insert"
        /\ \/ pc'[w] = "delete" /\ loc'[w].todo = loc[w].todo \ {m}
           \/ loc[w].todo = {m} /\ pc'[w] \notin {"idle", "delete"}
    BY <1>a, <1>g, <2>1, <2>4, <2>5 DEF AfterDelete, Alone, Carries
  <2> QED
    BY <1>11, <2>1, <2>2, <2>3, <2>6 DEF DeleteOne, Clears, Oldest
<1>12. CASE LeaveLookup(w)
  BY <1>12, <1>k, <1>f, <1>w, <1>m, <1>l DEF LeaveLookup, At
<1>13. CASE LeaveQuery(w)
  <2> DEFINE rows == Pending(req[w].from)
  <2>1. loc' = [loc EXCEPT ![w].todo = rows] =>
           /\ loc'[w].batch = loc[w].batch /\ loc'[w].todo = rows
           /\ \A v \in Workers \ {w} : loc'[v] = loc[v]
    BY <1>b DEF Local
  <2> QED
    BY <1>13, <1>k, <1>e, <1>m, <1>l, <1>g, <2>1 DEF LeaveQuery, Collects, Alone, Carries, At
<1>14. CASE RevokeOwner(w) \/ RemoveLookup(w)
  BY <1>14, <1>k, <1>f, <1>w, <1>m, <1>l DEF RevokeOwner, RemoveLookup, At
<1>16. CASE RemoveDelete(w)
  <2>1. UNCHANGED <<invites, issued, messages, spent>> /\ KeepHistory => MailKept /\ Unharmed
    BY DEF KeepHistory, MailKept, Unharmed
  <2> QED
    BY <1>16, <1>f, <1>w, <2>1 DEF RemoveDelete, At
<1>17. CASE InviteOwner(w)
  BY <1>17, <1>k, <1>f, <1>w, <1>m, <1>s DEF InviteOwner, At
<1>18. CASE InviteCreate(w)
  <2>1. UNCHANGED <<members, messages, spent>> /\ KeepHistory => MailKept /\ Unharmed
    BY DEF KeepHistory, MailKept, Unharmed
  <2> QED
    BY <1>18, <1>k, <1>f, <1>w, <2>1 DEF InviteCreate, At
<1>19. CASE ListOwner(w) \/ ListMembers(w)
  BY <1>19, <1>k, <1>f, <1>w, <1>m, <1>l DEF ListOwner, ListMembers, At
<1>21. CASE Reply(w)
  <2>1. /\ Alone(w) /\ At(w, "reply") /\ pc'[w] = "idle" /\ loc'[w].batch = {}
        /\ UNCHANGED <<messages, removedBy, missed>>
    BY <1>21, <1>b DEF Reply, CloseConn, Alone, NoLocals, KeepTables, KeepHistory, tables
  <2>2. Mishap("write", MaxWriteErrors) /\ KeepHistory =>
           spent'["write"] = spent["write"] + 1 /\ NothingFailed /\ UNCHANGED delivered
    BY DEF Mishap, KeepHistory, NothingFailed, TypeOKStore
  <2> QED
    BY <1>21, <2>1, <2>2 DEF Reply, Closes, Delivers, Drops, Unharmed
<1> QED
  BY <1>1, <1>2, <1>3, <1>4, <1>5, <1>7, <1>8, <1>9, <1>10, <1>11, <1>12, <1>13, <1>14,
     <1>16, <1>17, <1>18, <1>19, <1>21 DEF Serve, WorkerStep

\* A connection opens with a request.
Opens(w) ==
    /\ Alone(w) /\ MailKept /\ Unharmed /\ UNCHANGED clock
    /\ At(w, "idle") /\ pc'[w] \notin {"idle", "delete", "dep_insert"} /\ loc'[w].batch = {}

\* The daemon stops.  The handlers `late` still answer: a FETCH with all it has
\* read, although it cannot delete the rest.  The others are cut off.
Stops(late) ==
    /\ UNCHANGED <<messages, removedBy, delivered, clock>>
    /\ spent'["store"] = spent["store"] /\ spent'["crash"] = spent["crash"] + 1
    /\ \A w \in Workers \ late : pc'[w] = "idle" /\ loc'[w].batch = {}
    /\ \A w \in late :
          /\ ~At(w, "idle") /\ pc'[w] = "reply" /\ req'[w] = req[w]
          /\ loc'[w].batch \in {loc[w].batch, {}}
          /\ req[w].cmd = "FETCH" /\ pc[w] \in {"delete", "reply"} => loc'[w].batch = loc[w].batch
    /\ \A i \in MsgIds : missed'[i] = missed[i] + Cardinality(Unmade(late, i))

\* The sweep removes what has expired.
Sweeps == Expire /\ Unharmed /\ UNCHANGED <<delivered, missed, clock>> /\ UNCHANGED serverVars

\* A session acts, time passes, a sweep fails, or nothing happens.
Elsewhere ==
    /\ MailKept /\ UNCHANGED serverVars /\ (Unharmed \/ Faulted)
    /\ clock' \in {clock, clock + 1}

\* These are all the kinds of the other steps.
LEMMA OtherMailKinds ==
    ASSUME TypeOK, [Next]_vars
    PROVE  \/ \E w \in Workers : Serve(w) \/ Opens(w)
           \/ \E late \in SUBSET Workers : Stops(late)
           \/ Sweeps \/ Elsewhere
<1> USE DEF TypeOK
<1>1. ASSUME NEW w \in Workers, Connect(w) PROVE Opens(w)
  <2>1. PICK r \in Requests : Accept(w, r)
    BY <1>1 DEF Connect
  <2>2. Start[r.cmd] \notin {"idle", "delete", "dep_insert"}
    <3>1. r.cmd \in Commands
      BY DEF Requests
    <3> QED
      BY <3>1, StartFirst, StartLabels
  <2> QED
    BY <2>1, <2>2 DEF Accept, Keep, KeepTables, KeepHistory, tables, TypeOKServer, Opens, Alone,
                      MailKept, Unharmed, NoLocals
<1>2. ASSUME NEW a \in Admins, Administer(a) PROVE Elsewhere
  <2>1. AdminKeep => MailKept /\ Unharmed /\ UNCHANGED clock
    BY DEF AdminKeep, storeVars, tables, MailKept, Unharmed
  <2>2. AdminError => MailKept /\ Faulted /\ UNCHANGED clock
    BY DEF AdminError, StoreError, Mishap, AdminKeepHistory, tables, MailKept, Faulted, Failed,
           TypeOKStore
  <2>3. AdminKeepHistory /\ UNCHANGED <<messages, spent>> => MailKept /\ Unharmed /\ UNCHANGED clock
    BY DEF AdminKeepHistory, MailKept, Unharmed
  <2>4. CASE InitHasOwner(a) \/ InitList(a) \/ InitCreate(a)
    BY <1>2, <2>1, <2>2, <2>3, <2>4
       DEF InitHasOwner, InitList, InitCreate, Administer, Elsewhere
  <2>5. CASE InviteHasOwner(a) \/ InviteRecheck(a) \/ AdminInviteCreate(a)
    BY <1>2, <2>1, <2>2, <2>3, <2>5
       DEF InviteHasOwner, InviteRecheck, AdminInviteCreate, Administer, Elsewhere
  <2>6. CASE KickPick(a) \/ KickLookup(a) \/ KickDelete(a) \/ RevokePick(a) \/ RevokeDelete(a)
             \/ AdminQuit(a)
    BY <1>2, <2>1, <2>2, <2>3, <2>6
       DEF KickPick, KickLookup, KickDelete, RevokePick, RevokeDelete, AdminQuit, Administer,
           Elsewhere
  <2> QED
    BY <1>2, <2>4, <2>5, <2>6 DEF Administer, AdminStep
<1>3. CASE Restart
  <2>1. PICK late \in SUBSET {w \in Workers : ~At(w, "idle")} :
           /\ pc' = [w \in Workers |-> IF w \in late THEN "reply" ELSE "idle"]
           /\ req' = [w \in Workers |-> IF w \in late THEN req[w] ELSE NoRequest]
           /\ loc' = [w \in Workers |-> IF w \in late THEN ClosedAnswer(w) ELSE NoLocals]
           /\ missed' = [i \in MsgIds |-> missed[i] + Cardinality(Unmade(late, i))]
    BY <1>3 DEF Restart, ServerStop
  <2>2. /\ UNCHANGED <<messages, removedBy, delivered, clock>>
        /\ spent'["store"] = spent["store"] /\ spent'["crash"] = spent["crash"] + 1
    BY <1>3, RestartKind DEF Restart, ServerStop, KeepTables, tables
  <2>3. \A w \in Workers :
           /\ ClosedAnswer(w).batch \in {loc[w].batch, {}}
           /\ req[w].cmd = "FETCH" /\ pc[w] \in {"delete", "reply"} => ClosedAnswer(w).batch = loc[w].batch
    BY DEF ClosedAnswer, NoLocals, At
  <2>4. Stops(late)
    BY <2>1, <2>2, <2>3 DEF Stops, NoLocals, At
  <2> QED
    BY <2>4
<1>4. CASE Pass
  BY <1>4 DEF Pass, Tick, tables, Elsewhere, MailKept, Unharmed
<1>5. CASE RunExpiry
  <2>1. StoreError /\ UNCHANGED <<removedBy, clock, delivered, missed>> => MailKept /\ Faulted
    BY DEF StoreError, Mishap, tables, MailKept, Faulted, Failed, TypeOKStore
  <2> QED
    BY <1>5, <2>1 DEF RunExpiry, Sweep, Sweeps, Unharmed, Elsewhere
<1>6. CASE UNCHANGED vars
  BY <1>6 DEF vars, storeVars, tables, Elsewhere, MailKept, Unharmed
<1> QED
  BY <1>1, <1>2, <1>3, <1>4, <1>5, <1>6 DEF Next

\* A step of a handler takes no time.
LEMMA ServeKeepsClock == ASSUME NEW w \in Workers, Serve(w) PROVE clock' = clock
BY DEF Serve, WorkerStep, JoinLookup, JoinHasOwner, JoinConsume, JoinAdd, DepSender,
       DepRecipient, DepQuota, DepInsert, FetchMember, FetchQuery, DeleteOne, LeaveLookup,
       LeaveQuery, RevokeOwner, RemoveLookup, RemoveDelete, InviteOwner, InviteCreate,
       ListOwner, ListMembers, Reply, Keep, KeepHistory, FailWith

-----------------------------------------------------------------------------
(* Rows and what handlers have read of them.                               *)

\* A row that has been read is in the table, or its removal is on record.
Known(m) == m \in messages \/ removedBy[m.id] # "nobody"

OneRowPerId ==
    /\ \A m, x \in messages : m.id = x.id => m = x
    /\ \A m \in messages : removedBy[m.id] = "nobody"

\* What FETCH and LEAVE hold are rows of their client.
RowsRead ==
    \A w \in Workers :
        /\ \A m \in loc[w].batch :
              /\ Known(m) /\ m.recipient = req[w].from
              /\ req[w].cmd = "FETCH" /\ pc[w] \in {"delete", "reply"}
        /\ At(w, "delete") =>
              /\ \A m \in loc[w].todo : Known(m) /\ m.recipient = req[w].from
              /\ req[w].cmd = "FETCH" => loc[w].todo \subseteq loc[w].batch

OneRowRead ==
    \A v, w \in Workers : \A m \in loc[v].batch, x \in loc[w].batch : m.id = x.id => m = x

DeliveredRead == \A i \in MsgIds : delivered[i] > 0 \/ missed[i] > 0 => i \notin FreshIds

\* The inductive invariant.
Sorted ==
    /\ IsFiniteSet(messages)
    /\ OneRowPerId /\ RowsRead /\ OneRowRead /\ DeliveredRead

\* A row that has been read is the only one with its id.
LEMMA KnownRow ==
    ASSUME OneRowPerId, NEW m, Known(m), NEW x \in messages, x.id = m.id
    PROVE  x = m
BY DEF OneRowPerId, Known

\* What happens to the table in a step: rows go, which is recorded, or one comes.
TableMoves ==
    \/ UNCHANGED <<messages, removedBy>>
    \/ /\ messages' \subseteq messages
       /\ \A m \in messages' : removedBy'[m.id] = removedBy[m.id]
       /\ \A m \in messages \ messages' : removedBy'[m.id] # "nobody"
       /\ \A i \in MsgIds : removedBy[i] # "nobody" => removedBy'[i] # "nobody"
    \/ /\ UNCHANGED removedBy
       /\ \E x : x.id \in FreshIds /\ messages' = messages \cup {x}

\* So rows stay single and known, and ids that were used are used for good.
LEMMA TableStaysSorted ==
    ASSUME TypeOK, IsFiniteSet(messages), OneRowPerId, TableMoves
    PROVE  /\ IsFiniteSet(messages') /\ OneRowPerId'
           /\ \A m \in MessageRow : Known(m) => Known(m)'
           /\ \A i \in MsgIds : i \notin FreshIds => i \notin FreshIds'
<1> USE DEF OneRowPerId, Known, FreshIds
<1>t. messages \subseteq MessageRow /\ \A m \in MessageRow : m.id \in MsgIds
  BY DEF TypeOK, TypeOKStore, MessageRow
<1>1. CASE UNCHANGED <<messages, removedBy>>
  BY <1>1
<1>2. CASE /\ messages' \subseteq messages
           /\ \A m \in messages' : removedBy'[m.id] = removedBy[m.id]
           /\ \A m \in messages \ messages' : removedBy'[m.id] # "nobody"
           /\ \A i \in MsgIds : removedBy[i] # "nobody" => removedBy'[i] # "nobody"
  <2>1. IsFiniteSet(messages')
    BY <1>2, FS_Subset
  <2> QED
    BY <1>2, <1>t, <2>1
<1>3. ASSUME NEW x, x.id \in FreshIds, messages' = messages \cup {x}, UNCHANGED removedBy
      PROVE  /\ IsFiniteSet(messages') /\ OneRowPerId'
             /\ \A m \in MessageRow : Known(m) => Known(m)'
             /\ \A i \in MsgIds : i \notin FreshIds => i \notin FreshIds'
  <2>1. IsFiniteSet(messages')
    BY <1>3, FS_AddElement
  <2> QED
    BY <1>3, <2>1
<1> QED
  BY <1>1, <1>2, <1>3 DEF TableMoves

\* Deleting a row that has been read removes that row at most.
LEMMA DeleteRow ==
    ASSUME TypeOK, OneRowPerId, NEW m \in MessageRow, Known(m), NEW reason \in {"fetch", "leave"},
           Delete(m, reason)
    PROVE  /\ messages' = messages \ {m}
           /\ m \in messages => removedBy' = [removedBy EXCEPT ![m.id] = reason]
           /\ m \notin messages => removedBy' = removedBy
           /\ TableMoves
<1>t. /\ messages \subseteq MessageRow /\ m.id \in MsgIds
      /\ removedBy \in [MsgIds -> {"nobody", "fetch", "leave", "expiry"}]
  BY DEF TypeOK, TypeOKStore, MessageRow
<1>1. \A x \in messages : x.id = m.id <=> x = m
  BY KnownRow
<1>2. messages' = messages \ {m}
  BY <1>1 DEF Delete
<1>3. /\ m \in messages => removedBy' = [removedBy EXCEPT ![m.id] = reason]
      /\ m \notin messages => removedBy' = removedBy
  BY <1>1 DEF Delete
<1>4. TableMoves
  <2>1. \A x \in messages' : removedBy'[x.id] = removedBy[x.id]
    <3>1. \A x \in messages' : x.id \in MsgIds /\ (m \in messages => x.id # m.id)
      BY <1>t, <1>1, <1>2, KnownRow DEF OneRowPerId, MessageRow
    <3> QED
      BY <1>t, <1>3, <3>1
  <2>2. \A x \in messages \ messages' : removedBy'[x.id] # "nobody"
    <3>1. \A x \in messages \ messages' : x = m /\ m \in messages
      BY <1>2
    <3>2. m \in messages => removedBy'[m.id] = reason
      BY <1>t, <1>3
    <3> QED
      BY <3>1, <3>2
  <2>3. \A i \in MsgIds : removedBy[i] # "nobody" => removedBy'[i] # "nobody"
    BY <1>t, <1>3
  <2> QED
    BY <1>2, <2>1, <2>2, <2>3 DEF TableMoves
<1> QED
  BY <1>2, <1>3, <1>4

\* The sweep removes expired rows.
LEMMA SweepRows ==
    ASSUME TypeOK, OneRowPerId, Expire
    PROVE  TableMoves /\ \A m \in messages \ messages' : ~Live(m) /\ removedBy'[m.id] = "expiry"
<1>t. /\ messages \subseteq MessageRow /\ \A m \in MessageRow : m.id \in MsgIds
      /\ removedBy \in [MsgIds -> {"nobody", "fetch", "leave", "expiry"}]
  BY DEF TypeOK, TypeOKStore, MessageRow
<1>1. messages' \subseteq messages /\ \A m \in messages : m \in messages' <=> Live(m)
  BY DEF Expire
<1>2. \A m \in messages' : removedBy'[m.id] = removedBy[m.id]
  BY <1>t, <1>1 DEF Expire, OneRowPerId
<1>3. \A m \in messages \ messages' : ~Live(m) /\ removedBy'[m.id] = "expiry"
  BY <1>t, <1>1 DEF Expire
<1>4. \A i \in MsgIds : removedBy[i] # "nobody" => removedBy'[i] # "nobody"
  BY <1>t DEF Expire
<1> QED
  BY <1>1, <1>2, <1>3, <1>4 DEF TableMoves

\* Only FETCH reads rows to answer with.
LEMMA FetchReads ==
    ASSUME TypeOK, NEW w \in Workers, OnPath(w)
    PROVE  /\ At(w, "fetch_query") => req[w].cmd = "FETCH"
           /\ At(w, "leave_query") => req[w].cmd = "LEAVE"
           /\ At(w, "delete") => req[w].cmd \in {"FETCH", "LEAVE"}
<1>1. ~At(w, "idle") => req[w].cmd \in DOMAIN Start
  BY DEF TypeOK, TypeOKServer, Request, At
<1> QED
  BY <1>1 DEF OnPath, Serving, At, Start, Joining

\* A handler has no rows before it reads them.
LEMMA NoRowsYet ==
    ASSUME RowsRead, NEW w \in Workers, pc[w] \notin {"delete", "reply"}
    PROVE  loc[w].batch = {}
BY DEF RowsRead

\* What a step does to the rows handlers hold keeps the invariant, if it keeps
\* the table sorted.
LEMMA SortedServe ==
    ASSUME TypeOK, TypeOK', \A w \in Workers : OnPath(w), Sorted, NEW w \in Workers, Serve(w)
    PROVE  Sorted' /\ TableMoves
<1> USE DEF Sorted
<1>t. /\ messages \subseteq MessageRow /\ \A m \in MessageRow : m.id \in MsgIds
      /\ delivered \in [MsgIds -> Nat]
      /\ \A v \in Workers : loc[v].batch \subseteq MessageRow /\ loc[v].todo \subseteq MessageRow
  BY DEF TypeOK, TypeOKStore, TypeOKServer, MessageRow, Local
<1>k. TableMoves =>
         /\ IsFiniteSet(messages') /\ OneRowPerId'
         /\ \A m \in MessageRow : Known(m) => Known(m)'
         /\ \A i \in MsgIds : i \notin FreshIds => i \notin FreshIds'
  BY TableStaysSorted
<1>d. TableMoves /\ UNCHANGED <<delivered, missed>> => DeliveredRead'
  BY <1>k DEF DeliveredRead
<1>a. \* the handler keeps its rows
      ASSUME TableMoves, Alone(w), loc'[w].batch \in {loc[w].batch, {}},
             loc'[w].batch # {} => pc'[w] \in {"delete", "reply"} /\ req'[w] = req[w],
             pc'[w] = "delete" =>
                /\ req'[w] = req[w] /\ (req[w].cmd = "FETCH" => loc'[w].todo \subseteq loc'[w].batch)
                /\ \A m \in loc'[w].todo : m \in MessageRow /\ Known(m) /\ m.recipient = req[w].from
      PROVE  RowsRead' /\ OneRowRead'
  <2>1. \A v \in Workers : loc'[v].batch \subseteq loc[v].batch
    BY <1>a DEF Alone
  <2>2. OneRowRead'
    BY <2>1 DEF OneRowRead
  <2>3. ASSUME NEW v \in Workers, NEW m \in loc'[v].batch
        PROVE  /\ Known(m)' /\ m.recipient = req'[v].from
               /\ req'[v].cmd = "FETCH" /\ pc'[v] \in {"delete", "reply"}
    <3>1. m \in MessageRow /\ Known(m) /\ m.recipient = req[v].from
          /\ req[v].cmd = "FETCH" /\ pc[v] \in {"delete", "reply"}
      BY <1>t, <2>1, <2>3 DEF RowsRead
    <3> QED
      BY <1>a, <1>k, <2>3, <3>1 DEF Alone
  <2>4. ASSUME NEW v \in Workers, pc'[v] = "delete"
        PROVE  /\ \A m \in loc'[v].todo : Known(m)' /\ m.recipient = req'[v].from
               /\ req'[v].cmd = "FETCH" => loc'[v].todo \subseteq loc'[v].batch
    <3>1. CASE v = w
      BY <1>a, <1>k, <2>4, <3>1
    <3>2. CASE v # w
      BY <1>a, <1>k, <1>t, <2>4, <3>2 DEF Alone, RowsRead, At
    <3> QED
      BY <3>1, <3>2
  <2> QED
    BY <2>2, <2>3, <2>4 DEF RowsRead, At
<1>r. MailKept => TableMoves /\ UNCHANGED <<delivered, missed>>
  BY DEF MailKept, TableMoves
<1>1. CASE Routine(w)
  <2>1. loc[w].batch = {}
    BY <1>1, NoRowsYet DEF Routine
  <2> QED
    BY <1>1, <1>a, <1>d, <1>k, <1>r, <2>1 DEF Routine, Carries
<1>2. CASE Deposits(w)
  <2>1. TableMoves
    BY <1>2 DEF Deposits, Deposit, TableMoves
  <2>2. loc[w].batch = {}
    BY <1>2, NoRowsYet DEF Deposits, At
  <2> QED
    BY <1>2, <1>a, <1>d, <1>k, <2>1, <2>2 DEF Deposits, Carries
<1>3. CASE Reads(w)
  <2>1. /\ req[w].cmd = "FETCH" /\ req'[w] = req[w] /\ pc'[w] = "delete"
        /\ loc'[w].batch = Pending(req[w].from) /\ loc'[w].todo = Pending(req[w].from)
        /\ Alone(w) /\ UNCHANGED <<messages, removedBy, delivered>>
    BY <1>3, FetchReads DEF Reads, MailKept
  <2>2. \A m \in Pending(req[w].from) : m \in messages /\ m.recipient = req[w].from
    BY DEF Pending
  <2>3. OneRowRead'
    <3> SUFFICES ASSUME NEW u \in Workers, NEW v \in Workers, NEW m \in loc'[u].batch,
                        NEW x \in loc'[v].batch, m.id = x.id
                 PROVE  m = x
      BY DEF OneRowRead
    <3>1. CASE u = w
      <4>1. m \in messages /\ Known(x)
        BY <2>1, <2>2, <3>1 DEF Alone, RowsRead, Known
      <4> QED
        BY <4>1, KnownRow
    <3>2. CASE v = w
      <4>1. x \in messages /\ Known(m)
        BY <2>1, <2>2, <3>2 DEF Alone, RowsRead, Known
      <4> QED
        BY <4>1, KnownRow
    <3>3. CASE u # w /\ v # w
      BY <2>1, <3>3 DEF Alone, OneRowRead
    <3> QED
      BY <3>1, <3>2, <3>3
  <2>4. RowsRead'
    <3>1. ASSUME NEW v \in Workers, v # w
          PROVE  pc'[v] = pc[v] /\ req'[v] = req[v] /\ loc'[v] = loc[v]
      BY <2>1, <3>1 DEF Alone
    <3> QED
      BY <2>1, <2>2, <3>1 DEF RowsRead, Known, At
  <2> QED
    BY <1>3, <1>d, <1>k, <1>r, <2>3, <2>4 DEF Reads
<1>4. CASE Collects(w)
  <2>1. req[w].cmd = "LEAVE" /\ req'[w] = req[w] /\ loc[w].batch = {} /\ loc'[w].batch = {}
    BY <1>4, FetchReads, NoRowsYet DEF Collects, Carries, At
  <2>2. \A m \in loc'[w].todo : m \in MessageRow /\ Known(m) /\ m.recipient = req[w].from
    BY <1>4, <1>t DEF Collects, Pending, Known
  <2> QED
    BY <1>4, <1>a, <1>d, <1>k, <1>r, <2>1, <2>2 DEF Collects
<1>5. ASSUME NEW m, Clears(w, m) PROVE Sorted' /\ TableMoves
  <2>1. /\ At(w, "delete") /\ m \in loc[w].todo /\ m \in MessageRow /\ Known(m)
        /\ req'[w] = req[w] /\ loc'[w].batch = loc[w].batch
    BY <1>5, <1>t DEF Clears, Carries, RowsRead
  <2>2. TableMoves
    <3>1. CASE Delete(m, IF req[w].cmd = "FETCH" THEN "fetch" ELSE "leave")
      BY <2>1, <3>1, DeleteRow
    <3>2. CASE UNCHANGED <<messages, removedBy>>
      BY <3>2 DEF TableMoves
    <3> QED
      BY <1>5, <3>1, <3>2 DEF Clears
  <2>3. loc'[w].batch # {} => pc'[w] \in {"delete", "reply"}
    <3>1. loc[w].batch # {} => req[w].cmd = "FETCH"
      BY DEF RowsRead
    <3>2. Follows(w)
      BY HandlerFollows
    <3> QED
      BY <2>1, <3>1, <3>2 DEF Follows, At
  <2>4. pc'[w] = "delete" => loc'[w].todo \subseteq loc[w].todo
    BY <1>5 DEF Clears
  <2>5. RowsRead' /\ OneRowRead'
    <3>1. pc'[w] = "delete" =>
             /\ req[w].cmd = "FETCH" => loc'[w].todo \subseteq loc'[w].batch
             /\ \A x \in loc'[w].todo : x \in MessageRow /\ Known(x) /\ x.recipient = req[w].from
      BY <1>t, <2>1, <2>4 DEF RowsRead
    <3> QED
      BY <1>5, <1>a, <2>1, <2>2, <2>3, <3>1 DEF Clears
  <2>6. DeliveredRead'
    <3>1. CASE UNCHANGED missed
      BY <1>5, <1>d, <2>2, <3>1 DEF Clears
    <3>2. CASE Miss(w, m)
      <4>1. Known(m)' /\ m.id \in MsgIds
        BY <1>k, <1>t, <2>1, <2>2
      <4>2. m.id \notin FreshIds'
        BY <4>1 DEF Known, FreshIds
      <4>3. \A i \in MsgIds \ {m.id} : missed'[i] = missed[i]
        BY <3>2 DEF Miss, TypeOK, TypeOKStore
      <4> QED
        BY <1>5, <1>k, <2>2, <4>2, <4>3 DEF Clears, DeliveredRead
    <3> QED
      BY <1>5, <3>1, <3>2 DEF Clears
  <2> QED
    BY <1>k, <2>2, <2>5, <2>6
<1>6. CASE Closes(w) /\ UNCHANGED delivered
  BY <1>6, <1>a, <1>d, <1>k DEF Closes, TableMoves
<1>7. CASE Delivers(w)
  <2>1. TableMoves
    BY <1>7 DEF Delivers, Closes, TableMoves
  <2>2. DeliveredRead'
    <3> SUFFICES ASSUME NEW i \in MsgIds, delivered'[i] > 0 \/ missed'[i] > 0 PROVE i \notin FreshIds'
      BY DEF DeliveredRead
    <3>1. CASE \E m \in loc[w].batch : m.id = i
      BY <1>k, <2>1, <3>1 DEF RowsRead, Known, FreshIds
    <3>2. CASE ~\E m \in loc[w].batch : m.id = i
      BY <1>7, <1>k, <2>1, <3>2 DEF Delivers, Closes, DeliveredRead
    <3> QED
      BY <3>1, <3>2
  <2> QED
    BY <1>7, <1>a, <1>k, <2>1, <2>2 DEF Delivers, Closes
<1> QED
  BY <1>1, <1>2, <1>3, <1>4, <1>5, <1>6, <1>7, MailKinds DEF Passes, Drops

\* So does every other step.
LEMMA SortedStep ==
    ASSUME TypeOK, TypeOK', \A w \in Workers : OnPath(w), Sorted, [Next]_vars
    PROVE  Sorted' /\ TableMoves
<1> USE DEF Sorted
<1>t. \A v \in Workers : loc[v].batch \subseteq MessageRow /\ loc[v].todo \subseteq MessageRow
  BY DEF TypeOK, TypeOKServer, Local
<1>k. TableMoves =>
         /\ IsFiniteSet(messages') /\ OneRowPerId'
         /\ \A m \in MessageRow : Known(m) => Known(m)'
         /\ UNCHANGED <<delivered, missed>> => DeliveredRead'
  BY TableStaysSorted DEF DeliveredRead
<1>r. MailKept => TableMoves /\ UNCHANGED <<delivered, missed>>
  BY DEF MailKept, TableMoves
<1>1. ASSUME NEW w \in Workers, Opens(w) PROVE Sorted' /\ TableMoves
  <2>1. TableMoves /\ UNCHANGED <<delivered, missed>>
    BY <1>1, <1>r DEF Opens
  <2>2. RowsRead' /\ OneRowRead'
    <3>1. \A v \in Workers \ {w} : pc'[v] = pc[v] /\ req'[v] = req[v] /\ loc'[v] = loc[v]
      BY <1>1 DEF Opens, Alone
    <3>2. loc'[w].batch = {} /\ pc'[w] # "delete"
      BY <1>1 DEF Opens
    <3>3. OneRowRead'
      BY <3>1, <3>2 DEF OneRowRead
    <3> QED
      BY <1>k, <1>t, <2>1, <3>1, <3>2, <3>3 DEF RowsRead, At
  <2> QED
    BY <1>k, <2>1, <2>2
<1>2. ASSUME NEW late \in SUBSET Workers, Stops(late) PROVE Sorted' /\ TableMoves
  <2>1. TableMoves /\ UNCHANGED <<messages, removedBy, delivered>>
    BY <1>2 DEF Stops, TableMoves
  <2>2. \A w \in Workers : loc'[w].batch \subseteq loc[w].batch
           /\ (loc'[w].batch # {} => pc'[w] = "reply" /\ req'[w] = req[w])
           /\ pc'[w] # "delete"
    BY <1>2 DEF Stops
  <2>3. OneRowRead'
    BY <2>2 DEF OneRowRead
  <2>4. RowsRead'
    BY <2>1, <2>2 DEF RowsRead, Known, At
  <2>5. DeliveredRead'
    <3> SUFFICES ASSUME NEW i \in MsgIds, delivered'[i] > 0 \/ missed'[i] > 0 PROVE i \notin FreshIds'
      BY DEF DeliveredRead
    <3>1. FreshIds' = FreshIds
      BY <2>1 DEF FreshIds
    <3>2. CASE Unmade(late, i) = {}
      <4>1. missed'[i] = missed[i]
        <5>1. missed'[i] = missed[i] + Cardinality({}) /\ missed[i] \in Nat
          BY <1>2, <3>2 DEF Stops, TypeOK, TypeOKStore
        <5> QED
          BY <5>1, FS_EmptySet
      <4> QED
        BY <2>1, <3>1, <4>1 DEF DeliveredRead
    <3>3. CASE Unmade(late, i) # {}
      <4>1. PICK w \in Workers : At(w, "delete") /\ \E m \in loc[w].todo : m.id = i
        BY <3>3 DEF Unmade
      <4>2. \E m : Known(m) /\ m.id = i
        BY <4>1 DEF RowsRead
      <4> QED
        BY <3>1, <4>2 DEF Known, FreshIds
    <3> QED
      BY <3>2, <3>3
  <2> QED
    BY <1>k, <2>1, <2>3, <2>4, <2>5
<1>3. ASSUME TableMoves, UNCHANGED <<serverVars, delivered, missed>> PROVE Sorted' /\ TableMoves
  <2>1. RowsRead' /\ OneRowRead'
    BY <1>3, <1>k, <1>t DEF serverVars, RowsRead, OneRowRead, At
  <2> QED
    BY <1>3, <1>k, <2>1
<1>4. CASE Elsewhere
  BY <1>4, <1>3, <1>r DEF Elsewhere
<1>5. CASE Sweeps
  BY <1>5, <1>3, SweepRows DEF Sweeps
<1> QED
  BY <1>1, <1>2, <1>4, <1>5, SortedServe, OtherMailKinds

\* Message ids are used once, and handlers hold rows of their client.
THEOREM RowsAreSorted == Spec => []Sorted
<1>1. Init => Sorted
  BY FS_EmptySet
     DEF Init, StoreInit, ServerInit, NoLocals, Sorted, OneRowPerId, RowsRead, OneRowRead,
         DeliveredRead, At
<1>2. TypeOK /\ TypeOK' /\ (\A w \in Workers : OnPath(w)) /\ Sorted /\ [Next]_vars => Sorted'
  BY SortedStep
<1> QED
  BY <1>1, <1>2, TypeCorrect, HandlersOnPath, PTL DEF Spec

-----------------------------------------------------------------------------
(* Which rows leave the table.                                             *)

Explained(m) ==
    \/ ~Live(m)
    \/ \E w \in Workers : Holds(w, m, "FETCH") \/ Holds(w, m, "LEAVE")

\* Every row that a step removes from the table has an explanation.
LEMMA LossExplained ==
    ASSUME TypeOK, \A w \in Workers : OnPath(w), Sorted, [Next]_vars,
           NEW m \in messages \ messages'
    PROVE  Explained(m)
<1> USE DEF Sorted
<1>1. ASSUME NEW w \in Workers, Serve(w) PROVE Explained(m)
  <2>1. ASSUME NEW x, Clears(w, x) PROVE Explained(m)
    <3>1. /\ At(w, "delete") /\ x \in loc[w].todo /\ Known(x)
          /\ x.recipient = req[w].from
      BY <2>1 DEF Clears, RowsRead
    <3>2. x = m
      <4>1. m.id = x.id
        BY <2>1 DEF Clears, Delete
      <4> QED
        BY <3>1, <4>1, KnownRow
    <3>3. req[w].cmd \in {"FETCH", "LEAVE"}
      BY <3>1, FetchReads
    <3> QED
      BY <3>1, <3>2, <3>3 DEF Explained, Holds
  <2>2. Deposits(w) => m \in messages'
    BY DEF Deposits, Deposit
  <2> QED
    BY <1>1, <2>1, <2>2, MailKinds
       DEF Passes, Routine, MailKept, Reads, Collects, Delivers, Drops, Closes
<1>2. CASE Sweeps
  BY <1>2, SweepRows DEF Sweeps, Explained
<1>3. ~((\E late \in SUBSET Workers : Stops(late)) \/ Elsewhere \/ \E w \in Workers : Opens(w))
  BY DEF Stops, Elsewhere, Opens, MailKept
<1> QED
  BY <1>1, <1>2, <1>3, OtherMailKinds

\* A message that is still live leaves the table only in the hands of a FETCH or
\* a LEAVE of its recipient.
THEOREM NothingSilentlyLost == Spec => NoSilentLoss
<1> DEFINE Loss == \A m \in messages \ messages' :
               \/ ~Live(m)
               \/ \E w \in Workers : Holds(w, m, "FETCH") \/ Holds(w, m, "LEAVE")
<1>1. TypeOK /\ (\A w \in Workers : OnPath(w)) /\ Sorted /\ [Next]_vars => [Loss]_vars
  BY LossExplained DEF Explained
<1> QED
  BY <1>1, TypeCorrect, HandlersOnPath, RowsAreSorted, PTL DEF Spec, NoSilentLoss

-----------------------------------------------------------------------------
(* What FETCH removed arrives.                                             *)

CarriesId(w, i) == \E m \in loc[w].batch : m.id = i

\* While no response is lost and the daemon does not stop.
NothingLost == spent["write"] = 0 /\ spent["crash"] = 0

OnItsWay == \A i \in MsgIds :
    removedBy[i] = "fetch" => delivered[i] > 0 \/ \E w \in Workers : CarriesId(w, i)

\* A step of a handler that loses no response keeps what FETCH removed on its way.
LEMMA OnItsWayServe ==
    ASSUME TypeOK, TypeOK', \A w \in Workers : OnPath(w), Sorted, OnItsWay,
           NEW w \in Workers, Serve(w), NothingLost, NothingLost'
    PROVE  OnItsWay'
<1> USE DEF Sorted
<1>t. /\ delivered \in [MsgIds -> Nat] /\ removedBy \in [MsgIds -> {"nobody", "fetch", "leave", "expiry"}]
      /\ \A v \in Workers : loc[v].batch \subseteq MessageRow /\ loc[v].todo \subseteq MessageRow
  BY DEF TypeOK, TypeOKStore, TypeOKServer, Local
<1>a. \* the handlers keep what they carry
      ASSUME Alone(w), loc'[w].batch = loc[w].batch \/ loc[w].batch = {}, UNCHANGED delivered,
             \A i \in MsgIds : removedBy'[i] = "fetch" => removedBy[i] = "fetch" \/ CarriesId(w, i)
      PROVE  OnItsWay'
  BY <1>a DEF Alone, OnItsWay, CarriesId
<1>1. CASE Routine(w)
  BY <1>1, <1>a DEF Routine, Carries, MailKept
<1>2. CASE Deposits(w)
  BY <1>2, <1>a DEF Deposits, Carries
<1>3. CASE Reads(w) \/ Collects(w)
  BY <1>3, <1>a, NoRowsYet DEF Reads, Collects, MailKept, At
<1>4. ASSUME NEW m, Clears(w, m) PROVE OnItsWay'
  <2>1. /\ At(w, "delete") /\ m \in loc[w].todo /\ m \in MessageRow /\ Known(m)
        /\ req[w].cmd = "FETCH" => m \in loc[w].batch
    BY <1>4, <1>t DEF Clears, RowsRead
  <2>2. ASSUME NEW i \in MsgIds, removedBy'[i] = "fetch"
        PROVE  removedBy[i] = "fetch" \/ CarriesId(w, i)
    <3>1. CASE Delete(m, IF req[w].cmd = "FETCH" THEN "fetch" ELSE "leave")
      <4> DEFINE reason == IF req[w].cmd = "FETCH" THEN "fetch" ELSE "leave"
      <4>1. removedBy' = [removedBy EXCEPT ![m.id] = reason] \/ removedBy' = removedBy
        BY <3>1 DEF Delete
      <4>2. removedBy'[i] = removedBy[i] \/ (i = m.id /\ reason = "fetch")
        BY <1>t, <2>2, <4>1
      <4> QED
        BY <2>1, <2>2, <4>2 DEF CarriesId
    <3>2. CASE UNCHANGED removedBy
      BY <2>2, <3>2
    <3> QED
      BY <1>4, <3>1, <3>2 DEF Clears
  <2> QED
    BY <1>4, <1>a, <2>2 DEF Clears, Carries
<1>5. CASE Delivers(w)
  <2>1. \A i \in MsgIds : delivered'[i] = IF CarriesId(w, i) THEN delivered[i] + 1 ELSE delivered[i]
    BY <1>5 DEF Delivers, CarriesId
  <2>2. removedBy' = removedBy /\ \A v \in Workers \ {w} : loc'[v] = loc[v]
    BY <1>5 DEF Delivers, Closes, Alone
  <2> QED
    BY <1>t, <2>1, <2>2 DEF OnItsWay, CarriesId
<1>6. ~Drops(w)
  BY DEF Drops, NothingLost, TypeOK, TypeOKStore
<1> QED
  BY <1>1, <1>2, <1>3, <1>4, <1>5, <1>6, MailKinds DEF Passes

\* So does every step in which no response is lost and the daemon does not stop.
LEMMA OnItsWayStep ==
    ASSUME TypeOK, TypeOK', \A w \in Workers : OnPath(w), Sorted,
           NothingLost => OnItsWay, [Next]_vars, NothingLost'
    PROVE  OnItsWay'
<1>t. spent \in [{"store", "write", "crash"} -> Nat]
  BY DEF TypeOK, TypeOKStore
<1>1. ASSUME NEW w \in Workers, Serve(w) PROVE OnItsWay'
  <2>1. NothingLost
    BY <1>1, <1>t, MailKinds
       DEF NothingLost, Passes, Routine, Deposits, Reads, Collects, Clears, Delivers, Drops,
           Unharmed, Faulted, Failed, NothingFailed
  <2> QED
    BY <1>1, <2>1, OnItsWayServe
<1>2. ASSUME NEW w \in Workers, Opens(w) PROVE OnItsWay'
  <2>1. NothingLost /\ loc[w].batch = {} /\ UNCHANGED <<delivered, removedBy>>
        /\ \A v \in Workers \ {w} : loc'[v] = loc[v]
    BY <1>2, NoRowsYet DEF Opens, Alone, MailKept, Unharmed, NothingLost, Sorted, At
  <2> QED
    BY <2>1 DEF OnItsWay, CarriesId
<1>3. ~\E late \in SUBSET Workers : Stops(late)
  BY <1>t DEF Stops, NothingLost
<1>4. CASE Sweeps \/ Elsewhere
  <2>1. NothingLost
    BY <1>4, <1>t DEF Sweeps, Elsewhere, Unharmed, Faulted, Failed, NothingLost
  <2>2. UNCHANGED <<loc, delivered>>
    BY <1>4 DEF Sweeps, Elsewhere, serverVars, MailKept
  <2>3. \A i \in MsgIds : removedBy'[i] = "fetch" => removedBy[i] = "fetch"
    BY <1>4 DEF Sweeps, Elsewhere, MailKept, Expire
  <2> QED
    BY <2>1, <2>2, <2>3 DEF OnItsWay, CarriesId
<1> QED
  BY <1>1, <1>2, <1>3, <1>4, OtherMailKinds

\* A message that FETCH removed has arrived or is on its way, as long as no
\* response is lost and the daemon does not stop.
THEOREM FetchedIsOnItsWay ==
    Spec => [](spent["write"] = 0 /\ spent["crash"] = 0 => FetchedMailArrives)
<1> DEFINE Inv == NothingLost => OnItsWay
<1>1. Init => Inv
  BY DEF Init, StoreInit, OnItsWay
<1>2. TypeOK /\ TypeOK' /\ (\A w \in Workers : OnPath(w)) /\ Sorted /\ Inv /\ [Next]_vars => Inv'
  BY OnItsWayStep
<1>3. Sorted /\ Inv => (spent["write"] = 0 /\ spent["crash"] = 0 => FetchedMailArrives)
  BY DEF Sorted, RowsRead, NothingLost, OnItsWay, CarriesId, FetchedMailArrives, Carried, Serving, At
<1> HIDE DEF Inv
<1> QED
  BY <1>1, <1>2, <1>3, TypeCorrect, HandlersOnPath, RowsAreSorted, PTL DEF Spec

-----------------------------------------------------------------------------
(* A message that has been delivered is gone.                              *)

\* The rows a FETCH answers with and has tried to delete already, and the
\* handlers that have done so with message i.
Done(w) == IF At(w, "delete") THEN loc[w].batch \ loc[w].todo ELSE loc[w].batch
Dealt(i) == {w \in Workers : \E m \in Done(w) : m.id = i}
Stored(i) == \E m \in messages : m.id = i
Carriers(i) == {w \in Workers : CarriesId(w, i)}

\* The store errors of a step.
LEMMA ErrorsGo ==
    ASSUME TypeOK, [Next]_vars
    PROVE  /\ spent["store"] \in Nat
           /\ spent'["store"] \in {spent["store"], spent["store"] + 1}
<1>1. spent["store"] \in Nat
  BY DEF TypeOK, TypeOKStore
<1>2. ASSUME NEW w \in Workers, Serve(w)
      PROVE  spent'["store"] \in {spent["store"], spent["store"] + 1}
  BY <1>2, MailKinds
     DEF Passes, Routine, Deposits, Reads, Collects, Clears, Delivers, Drops, Unharmed, Faulted,
         Failed, NothingFailed
<1> QED
  BY <1>1, <1>2, OtherMailKinds
     DEF Opens, Stops, Sweeps, Elsewhere, Unharmed, Faulted, Failed

\* A message that is stored has been delivered, or is about to be by those who
\* have dealt with it, no more often than a Delete of it failed.
Excused(i) == delivered[i] + Cardinality(Dealt(i)) <= missed[i]
StoredExcused == \A i \in MsgIds : Stored(i) => Excused(i)

\* The numbers in this.
LEMMA MailNumbers ==
    ASSUME TypeOK, NEW i \in MsgIds
    PROVE  /\ delivered[i] \in Nat /\ missed[i] \in Nat
           /\ Dealt(i) \in SUBSET Workers /\ Cardinality(Dealt(i)) \in Nat
           /\ Carriers(i) \in SUBSET Workers /\ Cardinality(Carriers(i)) \in Nat
           /\ \A late \in SUBSET Workers :
                 Unmade(late, i) \in SUBSET Workers /\ Cardinality(Unmade(late, i)) \in Nat
<1>1. Dealt(i) \in SUBSET Workers /\ Carriers(i) \in SUBSET Workers
  BY DEF Dealt, Carriers
<1>2. \A late \in SUBSET Workers : Unmade(late, i) \in SUBSET Workers
  BY DEF Unmade
<1> QED
  BY <1>1, <1>2, Counting DEF TypeOK, TypeOKStore

\* A handler's step in terms of one message: it goes, or a handler has dealt
\* with it in vain, or a response ends, or no more has been tried.
LEMMA DealtServe ==
    ASSUME TypeOK, \A w \in Workers : OnPath(w), Sorted, NEW w \in Workers, Serve(w),
           NEW i \in MsgIds, Stored(i)'
    PROVE  \/ Dealt(i)' = {} /\ delivered'[i] = 0
           \/ /\ Stored(i) /\ Dealt(i)' \subseteq Dealt(i)
              /\ delivered'[i] = delivered[i] /\ missed'[i] = missed[i]
           \/ /\ Stored(i) /\ Dealt(i)' \subseteq Dealt(i) \cup {w}
              /\ delivered'[i] = delivered[i] /\ missed'[i] = missed[i] + 1
           \/ /\ Stored(i) /\ Dealt(i)' = Dealt(i) \ {w} /\ missed'[i] = missed[i]
              /\ delivered'[i] \in {delivered[i], delivered[i] + (IF w \in Dealt(i) THEN 1 ELSE 0)}
<1> USE DEF Sorted
<1>t. /\ messages \subseteq MessageRow /\ \A m \in MessageRow : m.id \in MsgIds
      /\ delivered \in [MsgIds -> Nat] /\ missed \in [MsgIds -> Nat]
      /\ \A v \in Workers : loc[v].batch \subseteq MessageRow /\ loc[v].todo \subseteq MessageRow
  BY DEF TypeOK, TypeOKStore, TypeOKServer, MessageRow, Local
<1>a. Alone(w) => \A v \in Workers \ {w} : Done(v)' = Done(v)
  BY DEF Alone, Done, At
<1>k. \* nothing more has been tried, nor delivered
      ASSUME Alone(w), \A m \in Done(w)' : m.id = i => m \in Done(w), Stored(i),
             UNCHANGED <<delivered, missed>>
      PROVE  /\ Stored(i) /\ Dealt(i)' \subseteq Dealt(i)
             /\ delivered'[i] = delivered[i] /\ missed'[i] = missed[i]
  BY <1>k, <1>a DEF Dealt
<1>1. CASE Routine(w)
  <2>1. Done(w)' = {} /\ Stored(i)
    BY <1>1, NoRowsYet DEF Routine, Carries, MailKept, Done, At, Stored
  <2> QED
    BY <1>1, <1>k, <2>1 DEF Routine, MailKept
<1>2. CASE Deposits(w)
  <2>1. Done(w)' = {} /\ UNCHANGED <<delivered, missed>> /\ Alone(w)
    BY <1>2, NoRowsYet DEF Deposits, Carries, Done, At
  <2>2. PICK x : x.id \in FreshIds /\ messages' = messages \cup {x}
    BY <1>2 DEF Deposits, Deposit
  <2>3. CASE Stored(i)
    BY <1>k, <2>1, <2>3
  <2>4. CASE ~Stored(i)
    <3>1. i \in FreshIds
      BY <2>2, <2>4 DEF Stored
    <3>2. delivered[i] = 0
      BY <1>t, <3>1 DEF DeliveredRead
    <3>3. ASSUME NEW v \in Workers, NEW m \in loc[v].batch, m.id = i PROVE FALSE
      BY <3>1, <3>3 DEF RowsRead, Known, FreshIds
    <3>4. \A v \in Workers : Done(v) \subseteq loc[v].batch
      BY DEF Done
    <3> QED
      BY <1>a, <2>1, <3>2, <3>3, <3>4 DEF Dealt
  <2> QED
    BY <2>3, <2>4
<1>3. CASE Reads(w) \/ Collects(w)
  <2>1. Done(w)' = {} /\ Stored(i)
    BY <1>3, NoRowsYet DEF Reads, Collects, Carries, MailKept, Done, At, Stored
  <2> QED
    BY <1>3, <1>k, <2>1 DEF Reads, Collects, MailKept
<1>4. ASSUME NEW m, Clears(w, m)
      PROVE  \/ /\ Stored(i) /\ Dealt(i)' \subseteq Dealt(i)
                /\ delivered'[i] = delivered[i] /\ missed'[i] = missed[i]
             \/ /\ Stored(i) /\ Dealt(i)' \subseteq Dealt(i) \cup {w}
                /\ delivered'[i] = delivered[i] /\ missed'[i] = missed[i] + 1
  <2>1. /\ At(w, "delete") /\ m \in loc[w].todo /\ Alone(w) /\ UNCHANGED delivered
        /\ m \in MessageRow /\ m.id \in MsgIds
    BY <1>4, <1>t DEF Clears
  <2>2. Done(w)' \subseteq Done(w) \cup {m}
    BY <1>4 DEF Clears, Carries, Done, At
  <2>3. CASE Delete(m, IF req[w].cmd = "FETCH" THEN "fetch" ELSE "leave") /\ UNCHANGED missed
    <3>1. m.id # i /\ Stored(i)
      BY <2>3 DEF Delete, Stored
    <3> QED
      BY <1>k, <2>1, <2>2, <2>3, <3>1
  <2>4. CASE UNCHANGED messages /\ Miss(w, m)
    <3>1. Stored(i)
      BY <2>4 DEF Stored
    <3>2. CASE req[w].cmd # "FETCH"
      <4>1. UNCHANGED missed /\ loc[w].batch = {} /\ loc'[w].batch = {}
        BY <1>4, <2>4, <3>2 DEF Miss, Clears, Carries, RowsRead
      <4>2. Done(w)' = {}
        BY <4>1 DEF Done
      <4> QED
        BY <1>k, <2>1, <3>1, <4>1, <4>2
    <3>3. CASE req[w].cmd = "FETCH" /\ m.id = i
      <4>1. missed'[i] = missed[i] + 1
        BY <1>t, <2>1, <2>4, <3>3 DEF Miss
      <4>2. Dealt(i)' \subseteq Dealt(i) \cup {w}
        BY <1>a, <2>1 DEF Dealt
      <4> QED
        BY <2>1, <3>1, <4>1, <4>2
    <3>4. CASE req[w].cmd = "FETCH" /\ m.id # i
      <4>1. missed'[i] = missed[i]
        BY <1>t, <2>1, <2>4, <3>4 DEF Miss
      <4>2. Dealt(i)' \subseteq Dealt(i)
        BY <1>a, <2>1, <2>2, <3>4 DEF Dealt
      <4> QED
        BY <2>1, <3>1, <4>1, <4>2
    <3> QED
      BY <3>2, <3>3, <3>4
  <2> QED
    BY <1>4, <2>3, <2>4 DEF Clears
<1>5. CASE Closes(w)
  <2>1. Done(w)' = {} /\ Alone(w) /\ Stored(i) /\ missed'[i] = missed[i]
    BY <1>5 DEF Closes, Done, At, Stored
  <2>2. Dealt(i)' = Dealt(i) \ {w}
    BY <1>a, <2>1 DEF Dealt
  <2>3. w \in Dealt(i) <=> \E m \in loc[w].batch : m.id = i
    BY <1>5 DEF Closes, Dealt, Done, At
  <2>4. Delivers(w) \/ UNCHANGED delivered
    BY <1>5, MailKinds
       DEF Closes, Drops, Passes, Routine, Deposits, Reads, Collects, Clears, At
  <2> QED
    BY <2>1, <2>2, <2>3, <2>4 DEF Delivers
<1> QED
  BY <1>1, <1>2, <1>3, <1>4, <1>5, MailKinds DEF Passes, Delivers, Drops

\* A stop in terms of one message: those who answer late have dealt with it, or
\* now fail to.
LEMMA DealtStops ==
    ASSUME TypeOK, Sorted, NEW late \in SUBSET Workers, Stops(late), NEW i \in MsgIds
    PROVE  Dealt(i)' \subseteq Dealt(i) \cup Unmade(late, i)
<1> SUFFICES ASSUME NEW w \in Workers, NEW m \in Done(w)', m.id = i
             PROVE  w \in Dealt(i) \cup Unmade(late, i)
  BY DEF Dealt
<1>1. w \in late /\ m \in loc[w].batch
  BY DEF Stops, Done
<1>2. req[w].cmd = "FETCH" /\ pc[w] \in {"delete", "reply"}
  BY <1>1 DEF Sorted, RowsRead
<1>3. CASE m \in Done(w)
  BY <1>3 DEF Dealt
<1>4. CASE m \notin Done(w)
  BY <1>1, <1>2, <1>4 DEF Done, Unmade, At
<1> QED
  BY <1>3, <1>4

\* Every step keeps the account of deliveries and failed Deletes of a stored row.
LEMMA StoredExcusedStep ==
    ASSUME TypeOK, TypeOK', \A w \in Workers : OnPath(w), Sorted, StoredExcused, [Next]_vars
    PROVE  StoredExcused'
<1> SUFFICES ASSUME NEW i \in MsgIds, Stored(i)' PROVE Excused(i)'
  BY DEF StoredExcused
<1>t. /\ delivered[i] \in Nat /\ missed[i] \in Nat
      /\ Dealt(i) \in SUBSET Workers /\ Cardinality(Dealt(i)) \in Nat
      /\ delivered'[i] \in Nat /\ missed'[i] \in Nat
      /\ Dealt(i)' \in SUBSET Workers /\ Cardinality(Dealt(i)') \in Nat
  BY MailNumbers, Counting DEF TypeOK, TypeOKStore, Dealt
<1>e. Stored(i) => delivered[i] + Cardinality(Dealt(i)) <= missed[i]
  BY DEF StoredExcused, Excused
<1>k. ASSUME Stored(i), Dealt(i)' \subseteq Dealt(i), delivered'[i] = delivered[i],
             missed'[i] = missed[i]
      PROVE  Excused(i)'
  <2>1. Cardinality(Dealt(i)') <= Cardinality(Dealt(i))
    BY <1>t, <1>k, Counting
  <2> QED
    BY <1>t, <1>e, <1>k, <2>1 DEF Excused
<1>1. ASSUME NEW w \in Workers, Serve(w) PROVE Excused(i)'
  <2>1. CASE Dealt(i)' = {} /\ delivered'[i] = 0
    BY <1>t, <2>1, FS_EmptySet DEF Excused
  <2>2. CASE /\ Stored(i) /\ Dealt(i)' \subseteq Dealt(i) \cup {w}
             /\ delivered'[i] = delivered[i] /\ missed'[i] = missed[i] + 1
    <3>1. Cardinality(Dealt(i)') <= Cardinality(Dealt(i)) + 1
      <4>1. CASE w \in Dealt(i)
        BY <1>t, <2>2, <4>1, Counting
      <4>2. CASE w \notin Dealt(i)
        <5>1. Cardinality(Dealt(i) \cup {w}) = Cardinality(Dealt(i)) + 1
          BY <1>t, <4>2, Counting
        <5>2. Dealt(i) \cup {w} \in SUBSET Workers
          BY <1>t
        <5>3. Cardinality(Dealt(i)') <= Cardinality(Dealt(i) \cup {w})
          BY <2>2, <5>2, Counting
        <5> QED
          BY <5>1, <5>3
      <4> QED
        BY <4>1, <4>2
    <3> QED
      BY <1>t, <1>e, <2>2, <3>1 DEF Excused
  <2>3. CASE /\ Stored(i) /\ Dealt(i)' = Dealt(i) \ {w} /\ missed'[i] = missed[i]
             /\ delivered'[i] \in {delivered[i], delivered[i] + (IF w \in Dealt(i) THEN 1 ELSE 0)}
    <3>1. CASE w \in Dealt(i)
      <4>1. Cardinality(Dealt(i)') = Cardinality(Dealt(i)) - 1
        BY <1>t, <2>3, <3>1, Counting
      <4> QED
        BY <1>t, <1>e, <2>3, <3>1, <4>1 DEF Excused
    <3>2. CASE w \notin Dealt(i)
      BY <1>t, <1>k, <2>3, <3>2
    <3> QED
      BY <3>1, <3>2
  <2> QED
    BY <1>1, <1>k, <2>1, <2>2, <2>3, DealtServe
<1>2. ASSUME NEW w \in Workers, Opens(w) PROVE Excused(i)'
  <2>1. Done(w)' = {} /\ \A v \in Workers \ {w} : Done(v)' = Done(v)
    BY <1>2 DEF Opens, Alone, Done, At
  <2> QED
    BY <1>2, <1>k, <2>1 DEF Opens, MailKept, Dealt, Stored
<1>3. ASSUME NEW late \in SUBSET Workers, Stops(late) PROVE Excused(i)'
  <2> DEFINE U == Unmade(late, i)
  <2>1. /\ Stored(i) /\ delivered'[i] = delivered[i] /\ missed'[i] = missed[i] + Cardinality(U)
        /\ Dealt(i)' \subseteq Dealt(i) \cup U
    BY <1>3, DealtStops DEF Stops, Stored
  <2>2. U \in SUBSET Workers /\ Cardinality(U) \in Nat
    BY MailNumbers
  <2> HIDE DEF U
  <2>3. Cardinality(Dealt(i)') <= Cardinality(Dealt(i)) + Cardinality(U)
    <3>1. IsFiniteSet(Dealt(i)) /\ IsFiniteSet(U)
      BY <1>t, <2>2, FS_Subset, WorkerAssumption
    <3>2. /\ Cardinality(Dealt(i) \cup U) =
                Cardinality(Dealt(i)) + Cardinality(U) - Cardinality(Dealt(i) \cap U)
          /\ IsFiniteSet(Dealt(i) \cup U)
      BY <3>1, FS_Union
    <3>3. Cardinality(Dealt(i) \cap U) \in Nat /\ Cardinality(Dealt(i) \cup U) \in Nat
      BY <3>1, <3>2, FS_Subset, FS_CardinalityType
    <3>4. Cardinality(Dealt(i)') <= Cardinality(Dealt(i) \cup U)
      BY <2>1, <3>2, FS_Subset
    <3> QED
      BY <1>t, <2>2, <3>2, <3>3, <3>4
  <2> QED
    BY <1>t, <1>e, <2>1, <2>2, <2>3 DEF Excused
<1>4. CASE Sweeps \/ Elsewhere
  <2>1. \A v \in Workers : Done(v)' = Done(v)
    BY <1>4 DEF Sweeps, Elsewhere, serverVars, Done, At
  <2> QED
    BY <1>4, <1>k, <2>1 DEF Sweeps, Elsewhere, Expire, MailKept, Dealt, Stored
<1> QED
  BY <1>1, <1>2, <1>3, <1>4, OtherMailKinds

\* The account holds in every reachable state.
LEMMA StoredAreExcused == Spec => []StoredExcused
<1>1. Init => StoredExcused
  BY DEF Init, StoreInit, StoredExcused, Stored
<1>2. TypeOK /\ TypeOK' /\ (\A w \in Workers : OnPath(w)) /\ Sorted /\ StoredExcused /\ [Next]_vars
         => StoredExcused'
  BY StoredExcusedStep
<1> QED
  BY <1>1, <1>2, TypeCorrect, HandlersOnPath, RowsAreSorted, PTL DEF Spec

\* A message that is still stored has been delivered no more often than a Delete
\* of it failed, by itself or on the store that a shutdown closed.
THEOREM DeliveredLeavesTable == Spec => []DeliveredIsGone
<1>1. TypeOK /\ StoredExcused => DeliveredIsGone
  <2> SUFFICES ASSUME TypeOK, StoredExcused, NEW m \in messages
               PROVE  delivered[m.id] <= missed[m.id]
    BY DEF DeliveredIsGone
  <2>1. m.id \in MsgIds /\ Stored(m.id)
    BY DEF TypeOK, TypeOKStore, MessageRow, Stored
  <2>2. Excused(m.id)
    BY <2>1 DEF StoredExcused
  <2> QED
    BY <2>1, <2>2, MailNumbers DEF Excused
<1> QED
  BY <1>1, TypeCorrect, StoredAreExcused, PTL

-----------------------------------------------------------------------------
(* How often a message is delivered.                                       *)

\* A handler comes to carry a stored message of its client, or delivers what it
\* carries, or nothing happens to those who carry message i.
LEMMA CarriersGo ==
    ASSUME TypeOK, Sorted, NEW w \in Workers, Serve(w), NEW i \in MsgIds
    PROVE  \/ Carriers(i)' = Carriers(i) /\ delivered'[i] = delivered[i]
           \/ /\ Carriers(i)' = Carriers(i) \cup {w} /\ delivered'[i] = delivered[i]
              /\ \E m \in messages : m.id = i /\ m.recipient = req[w].from
           \/ /\ Carriers(i)' = Carriers(i) \ {w}
              /\ delivered'[i] \in {delivered[i], delivered[i] + (IF w \in Carriers(i) THEN 1 ELSE 0)}
<1>a. ASSUME Alone(w), loc'[w].batch = loc[w].batch PROVE Carriers(i)' = Carriers(i)
  BY <1>a DEF Alone, Carriers, CarriesId
<1>1. CASE Routine(w) \/ Deposits(w) \/ Collects(w) \/ \E m : Clears(w, m)
  BY <1>1, <1>a DEF Routine, Deposits, Collects, Clears, Carries, MailKept
<1>2. CASE Reads(w)
  <2>1. loc[w].batch = {} /\ loc'[w].batch = Pending(req[w].from) /\ Alone(w)
        /\ delivered' = delivered
    BY <1>2, NoRowsYet DEF Reads, MailKept, Sorted, At
  <2>2. \A m \in Pending(req[w].from) : m \in messages /\ m.recipient = req[w].from
    BY DEF Pending
  <2> QED
    BY <2>1, <2>2 DEF Alone, Carriers, CarriesId
<1>3. CASE Closes(w)
  <2>1. Carriers(i)' = Carriers(i) \ {w}
    BY <1>3 DEF Closes, Alone, Carriers, CarriesId
  <2>2. Delivers(w) \/ UNCHANGED delivered
    BY <1>3, MailKinds
       DEF Closes, Drops, Passes, Routine, Deposits, Reads, Collects, Clears, At
  <2> QED
    BY <2>1, <2>2 DEF Delivers, Carriers, CarriesId
<1> QED
  BY <1>1, <1>2, <1>3, MailKinds DEF Passes, Delivers, Drops

\* No other step makes anybody carry or deliver a message.
LEMMA CarriersElsewhere ==
    ASSUME TypeOK, [Next]_vars, NEW i \in MsgIds, Sorted,
           ~\E w \in Workers : Serve(w)
    PROVE  Carriers(i)' \subseteq Carriers(i) /\ delivered'[i] = delivered[i]
<1>1. ASSUME NEW w \in Workers, Opens(w)
      PROVE  Carriers(i)' \subseteq Carriers(i) /\ delivered'[i] = delivered[i]
  BY <1>1 DEF Opens, Alone, MailKept, Carriers, CarriesId
<1>2. ASSUME NEW late \in SUBSET Workers, Stops(late)
      PROVE  Carriers(i)' \subseteq Carriers(i) /\ delivered'[i] = delivered[i]
  <2>1. \A w \in Workers : loc'[w].batch \in {loc[w].batch, {}}
    BY <1>2 DEF Stops
  <2> QED
    BY <1>2, <2>1 DEF Stops, Carriers, CarriesId
<1>3. CASE Sweeps \/ Elsewhere
  BY <1>3 DEF Sweeps, Elsewhere, MailKept, serverVars, Carriers, CarriesId
<1> QED
  BY <1>1, <1>2, <1>3, OtherMailKinds

\* Failed Deletes are counted for good.
LEMMA MissedGrows ==
    ASSUME TypeOK, [Next]_vars, NEW i \in MsgIds
    PROVE  missed'[i] >= missed[i]
<1>t. missed \in [MsgIds -> Nat] /\ missed[i] \in Nat
  BY DEF TypeOK, TypeOKStore
<1>1. ASSUME NEW w \in Workers, Serve(w) PROVE missed'[i] >= missed[i]
  <2>1. ASSUME NEW m, Miss(w, m) PROVE missed'[i] >= missed[i]
    BY <1>t, <2>1 DEF Miss
  <2> QED
    BY <1>1, <1>t, <2>1, MailKinds
       DEF Passes, Routine, Deposits, Reads, Collects, Clears, Delivers, Drops, Closes, MailKept
<1>2. ASSUME NEW late \in SUBSET Workers, Stops(late) PROVE missed'[i] >= missed[i]
  BY <1>2, <1>t, MailNumbers DEF Stops
<1> QED
  BY <1>1, <1>2, <1>t, OtherMailKinds DEF Opens, Sweeps, Elsewhere, MailKept

\* If at most n handlers carry a message at a time, it is delivered at most n
\* times, and again as often as a Delete of it failed.
Rationed(n, i) == delivered[i] + Cardinality(Carriers(i)) <= n + missed[i]

\* Every step keeps the ration, if it leaves no more carriers than the ration.
LEMMA RationedStep ==
    ASSUME TypeOK, TypeOK', Sorted, StoredExcused, [Next]_vars, NEW i \in MsgIds, NEW n \in Nat,
           Rationed(n, i), Cardinality(Carriers(i)') <= n
    PROVE  Rationed(n, i)'
<1>t. /\ delivered[i] \in Nat /\ delivered'[i] \in Nat /\ missed[i] \in Nat /\ missed'[i] \in Nat
      /\ Carriers(i) \in SUBSET Workers /\ Carriers(i)' \in SUBSET Workers
      /\ Cardinality(Carriers(i)) \in Nat /\ Cardinality(Carriers(i)') \in Nat
      /\ Cardinality(Dealt(i)) \in Nat
  BY MailNumbers, Counting DEF TypeOK, TypeOKStore, Carriers
<1>m. missed'[i] >= missed[i]
  BY MissedGrows
<1>r. delivered[i] + Cardinality(Carriers(i)) <= n + missed[i]
  BY DEF Rationed
<1>1. ASSUME Carriers(i)' \subseteq Carriers(i), delivered'[i] = delivered[i]
      PROVE  Rationed(n, i)'
  <2>1. Cardinality(Carriers(i)') <= Cardinality(Carriers(i))
    BY <1>1, <1>t, Counting
  <2> QED
    BY <1>1, <1>t, <1>m, <1>r, <2>1 DEF Rationed
<1>2. ASSUME NEW w \in Workers, Serve(w) PROVE Rationed(n, i)'
  <2>1. CASE (\E m \in messages : m.id = i) /\ delivered'[i] = delivered[i]
    <3>1. delivered[i] + Cardinality(Dealt(i)) <= missed[i]
      BY <2>1 DEF StoredExcused, Excused, Stored
    <3> QED
      BY <1>t, <1>m, <2>1, <3>1 DEF Rationed
  <2>2. CASE /\ Carriers(i)' = Carriers(i) \ {w}
             /\ delivered'[i] \in {delivered[i], delivered[i] + (IF w \in Carriers(i) THEN 1 ELSE 0)}
    <3>1. CASE w \in Carriers(i)
      <4>1. Cardinality(Carriers(i)') = Cardinality(Carriers(i)) - 1
        BY <1>t, <2>2, <3>1, Counting
      <4> QED
        BY <1>t, <1>m, <1>r, <2>2, <4>1 DEF Rationed
    <3>2. CASE w \notin Carriers(i)
      BY <1>t, <1>1, <2>2, <3>2
    <3> QED
      BY <3>1, <3>2
  <2> QED
    BY <1>1, <1>2, <2>1, <2>2, CarriersGo
<1> QED
  BY <1>1, <1>2, CarriersElsewhere

\* At the start nothing is carried or delivered.
LEMMA RationedInit == ASSUME Init, NEW i \in MsgIds, NEW n \in Nat PROVE Rationed(n, i)
<1>1. Carriers(i) = {} /\ delivered[i] = 0 /\ missed[i] = 0
  BY DEF Init, StoreInit, ServerInit, NoLocals, Carriers, CarriesId
<1> QED
  BY <1>1, FS_EmptySet DEF Rationed

\* No more handlers carry a message than there are.
WorkersRationed == \A i \in MsgIds : Rationed(Cardinality(Workers), i)

\* Concurrent FETCHes deliver a message at most once each, and again as often as
\* a Delete of it failed.
THEOREM EachDeliversOnce == Spec => []DeliveriesBounded
<1>w. Cardinality(Workers) \in Nat
  BY WorkerAssumption, FS_CardinalityType
<1>1. Init => WorkersRationed
  BY <1>w, RationedInit DEF WorkersRationed
<1>2. TypeOK /\ TypeOK' /\ Sorted /\ StoredExcused /\ WorkersRationed /\ [Next]_vars
         => WorkersRationed'
  <2> SUFFICES ASSUME TypeOK, TypeOK', Sorted, StoredExcused, WorkersRationed, [Next]_vars,
                      NEW i \in MsgIds
               PROVE  Rationed(Cardinality(Workers), i)'
    BY DEF WorkersRationed
  <2>1. Cardinality(Carriers(i)') <= Cardinality(Workers)
    <3>1. Carriers(i)' \in SUBSET Workers
      BY DEF Carriers
    <3> QED
      BY <3>1, Counting
  <2>2. Rationed(Cardinality(Workers), i)
    BY DEF WorkersRationed
  <2> QED
    BY <1>w, <2>1, <2>2, RationedStep
<1>3. TypeOK /\ WorkersRationed => DeliveriesBounded
  <2> SUFFICES ASSUME TypeOK, WorkersRationed, NEW i \in MsgIds
               PROVE  delivered[i] <= Cardinality(Workers) + missed[i]
    BY DEF DeliveriesBounded
  <2>1. Rationed(Cardinality(Workers), i)
    BY DEF WorkersRationed
  <2> QED
    BY <1>w, <2>1, MailNumbers DEF Rationed
<1> QED
  BY <1>1, <1>2, <1>3, TypeCorrect, RowsAreSorted, StoredAreExcused, PTL DEF Spec

\* Nobody else carries the same message.
LEMMA OneCarrier ==
    ASSUME Sorted, OneConnection, NEW i \in MsgIds, NEW u \in Carriers(i), NEW v \in Carriers(i)
    PROVE  u = v
<1>1. PICK m \in loc[u].batch : m.id = i
  BY DEF Carriers, CarriesId
<1>2. PICK x \in loc[v].batch : x.id = i
  BY DEF Carriers, CarriesId
<1>3. u \in Workers /\ v \in Workers
  BY DEF Carriers
<1>4. m = x
  BY <1>1, <1>2, <1>3 DEF Sorted, OneRowRead
<1>5. req[u].from = req[v].from /\ ~At(u, "idle") /\ ~At(v, "idle")
  BY <1>1, <1>2, <1>3, <1>4 DEF Sorted, RowsRead, At
<1> QED
  BY <1>3, <1>5 DEF OneConnection

\* So one handler at most carries it.
InTurn == \A i \in MsgIds : Cardinality(Carriers(i)) <= 1

\* With one connection for each client the carriers of a message take turns.
LEMMA CarriersInTurn == ASSUME Sorted, OneConnection PROVE InTurn
<1> SUFFICES ASSUME NEW i \in MsgIds PROVE Cardinality(Carriers(i)) <= 1
  BY DEF InTurn
<1>1. CASE Carriers(i) = {}
  BY <1>1, FS_EmptySet
<1>2. CASE Carriers(i) # {}
  <2>1. PICK w : Carriers(i) = {w}
    BY <1>2, OneCarrier
  <2>2. Cardinality({w}) = 1
    BY FS_Singleton
  <2> QED
    BY <2>1, <2>2
<1> QED
  BY <1>1, <1>2

\* A client on one connection at a time gets a message once, and again as often
\* as a Delete of it failed.
OneJourney == \A i \in MsgIds : Rationed(1, i)

\* Serial clients keep to a ration of one journey.
LEMMA JourneysAreSingle == ASSUME SerialClients PROVE Spec => []OneJourney
<1>1. Init => OneJourney
  BY RationedInit DEF OneJourney
<1>2. TypeOK /\ TypeOK' /\ Sorted /\ StoredExcused /\ InTurn' /\ OneJourney /\ [Next]_vars
         => OneJourney'
  BY RationedStep DEF InTurn, OneJourney
<1>3. Sorted /\ OneConnection => InTurn
  BY CarriersInTurn
<1> QED
  BY <1>1, <1>2, <1>3, TypeCorrect, RowsAreSorted, StoredAreExcused, ClientsAreSerial, PTL DEF Spec

\* A client on one connection at a time gets each message at most once, unless a
\* Delete of that message failed, by itself or on the store that a shutdown closed.
THEOREM DeliveredAtMostOnce ==
    ASSUME SerialClients
    PROVE  Spec => []DeliveredOnce
<1>1. TypeOK /\ OneJourney => DeliveredOnce
  <2> SUFFICES ASSUME TypeOK, OneJourney, NEW i \in MsgIds PROVE delivered[i] <= 1 + missed[i]
    BY DEF DeliveredOnce
  <2>1. Rationed(1, i)
    BY DEF OneJourney
  <2> QED
    BY <2>1, MailNumbers DEF Rationed
<1> QED
  BY <1>1, TypeCorrect, JourneysAreSingle, PTL

-----------------------------------------------------------------------------
(* The quota.                                                              *)

\* Mail stored for client c and about to be, and how much that may be.
Within(c) ==
    Cardinality(Pending(c)) + Cardinality(Admitting(c))
        <= MaxPerRecipient - 1 + Cardinality(Workers) + spent["store"]

\* The counts that the limit compares are numbers.
LEMMA QuotaTypes ==
    ASSUME TypeOK, IsFiniteSet(messages), NEW c
    PROVE  /\ Pending(c) \subseteq messages /\ IsFiniteSet(Pending(c))
           /\ Cardinality(Pending(c)) \in Nat
           /\ Admitting(c) \in SUBSET Workers /\ Cardinality(Admitting(c)) \in Nat
           /\ Cardinality(Admitting(c)) <= Cardinality(Workers)
           /\ Cardinality(Workers) \in Nat /\ spent["store"] \in Nat
<1>1. Pending(c) \subseteq messages /\ Admitting(c) \in SUBSET Workers
  BY DEF Pending, Admitting, HandlersAt
<1>2. IsFiniteSet(Pending(c))
  BY <1>1, FS_Subset
<1> QED
  BY <1>1, <1>2, FS_CardinalityType, Counting, WorkerAssumption DEF TypeOK, TypeOKStore

\* Less mail stays within the limit.
LEMMA LessIsWithin ==
    ASSUME TypeOK, IsFiniteSet(messages), NEW c, Within(c), [Next]_vars,
           Pending(c)' \subseteq Pending(c), Admitting(c)' \subseteq Admitting(c)
    PROVE  Within(c)'
<1>1. /\ Cardinality(Pending(c)') \in Nat /\ Cardinality(Pending(c)') <= Cardinality(Pending(c))
      /\ Cardinality(Admitting(c)') \in Nat
      /\ Cardinality(Admitting(c)') <= Cardinality(Admitting(c))
  BY QuotaTypes, FS_Subset, FS_CardinalityType, Counting
<1> QED
  BY <1>1, QuotaTypes, ErrorsGo, BoundAssumption DEF Within

\* A step of a handler keeps each mailbox within its overshoot.
LEMMA WithinServe ==
    ASSUME TypeOK, IsFiniteSet(messages), MaxPerRecipient > 0, NEW c, Within(c), OneRowPerId,
           NEW w \in Workers, Serve(w)
    PROVE  Within(c)'
<1>n. [Next]_vars
  BY DEF Next
<1>c. clock' = clock
  BY ServeKeepsClock
<1>a. \* nobody else passes or stores
      ASSUME Alone(w), pc'[w] # "dep_insert"
      PROVE  Admitting(c)' = Admitting(c) \ {w}
  BY <1>a DEF Alone, Admitting, HandlersAt, At
<1>p. messages' \subseteq messages => Pending(c)' \subseteq Pending(c)
  BY <1>c DEF Pending, Live
<1>k. Alone(w) /\ pc'[w] # "dep_insert" /\ messages' \subseteq messages => Within(c)'
  BY <1>a, <1>n, <1>p, LessIsWithin
<1>1. CASE Routine(w) /\ pc'[w] # "dep_insert"
  BY <1>1, <1>k DEF Routine, MailKept
<1>2. CASE Reads(w) \/ Collects(w) \/ Closes(w)
  BY <1>2, <1>k DEF Reads, Collects, Closes, MailKept
<1>3. ASSUME NEW m, Clears(w, m) PROVE Within(c)'
  BY <1>3, <1>k DEF Clears, Delete
<1>4. CASE Passes(w)
  <2>1. /\ Alone(w) /\ req'[w] = req[w] /\ messages' = messages /\ pc'[w] = "dep_insert"
        /\ ~At(w, "dep_insert")
    BY <1>4 DEF Passes, Routine, Carries, MailKept, At
  <2>2. Pending(c)' = Pending(c)
    BY <1>c, <2>1 DEF Pending, Live
  <2>3. CASE req[w].to # c
    <3>1. Admitting(c)' = Admitting(c)
      BY <2>1, <2>3 DEF Alone, Admitting, HandlersAt, At
    <3> QED
      BY <1>n, <2>2, <3>1, LessIsWithin
  <2>4. CASE req[w].to = c
    <3>1. Admitting(c)' = Admitting(c) \cup {w} /\ w \notin Admitting(c)
      BY <2>1, <2>4 DEF Alone, Admitting, HandlersAt, At
    <3>2. /\ Cardinality(Admitting(c)') = Cardinality(Admitting(c)) + 1
          /\ Cardinality(Admitting(c)') <= Cardinality(Workers)
      <4>1. Admitting(c) \in SUBSET Workers /\ Admitting(c) \cup {w} \in SUBSET Workers
        BY QuotaTypes
      <4> QED
        BY <3>1, <4>1, Counting
    <3>3. Cardinality(Pending(c)) < MaxPerRecipient \/ Faulted
      BY <1>4, <2>4, BoundAssumption DEF Passes
    <3>4. CASE Cardinality(Pending(c)) < MaxPerRecipient
      BY <1>n, <2>2, <3>2, <3>4, QuotaTypes, ErrorsGo, BoundAssumption DEF Within
    <3>5. CASE Faulted
      BY <2>2, <3>2, <3>5, QuotaTypes, BoundAssumption DEF Within, Faulted, Failed
    <3> QED
      BY <3>3, <3>4, <3>5
  <2> QED
    BY <2>3, <2>4
<1>5. CASE Deposits(w)
  <2>1. /\ Alone(w) /\ pc'[w] # "dep_insert" /\ At(w, "dep_insert") /\ UNCHANGED spent
    BY <1>5 DEF Deposits, Unharmed
  <2>2. PICK x : messages' = messages \cup {x} /\ x.recipient = req[w].to
    <3>1. PICK i \in FreshIds, now \in Nat : Deposit(i, req[w].to, now)
      BY <1>5 DEF Deposits
    <3> DEFINE row == [id |-> i, recipient |-> req[w].to, receivedAt |-> now,
                       expiresAt |-> now + MessageTTL]
    <3>2. messages' = messages \cup {row}
      BY <3>1 DEF Deposit
    <3>3. row.recipient = req[w].to
      OBVIOUS
    <3> QED
      BY <3>2, <3>3
  <2>3. CASE req[w].to # c
    <3>1. Pending(c)' = Pending(c)
      BY <1>c, <2>2, <2>3 DEF Pending, Live
    <3> QED
      BY <1>a, <1>n, <2>1, <3>1, LessIsWithin
  <2>4. CASE req[w].to = c
    <3>1. Cardinality(Admitting(c)') = Cardinality(Admitting(c)) - 1
      <4>1. w \in Admitting(c) /\ Admitting(c) \in SUBSET Workers
        BY <2>1, <2>4, QuotaTypes DEF Admitting, HandlersAt
      <4> QED
        BY <1>a, <2>1, <4>1, Counting
    <3>2. Pending(c)' \subseteq Pending(c) \cup {x}
      BY <1>c, <2>2 DEF Pending, Live
    <3>3. /\ IsFiniteSet(Pending(c) \cup {x})
          /\ Cardinality(Pending(c) \cup {x}) \in
                {Cardinality(Pending(c)), Cardinality(Pending(c)) + 1}
      BY QuotaTypes, FS_AddElement
    <3>4. /\ Cardinality(Pending(c)') \in Nat
          /\ Cardinality(Pending(c)') <= Cardinality(Pending(c) \cup {x})
      BY <3>2, <3>3, FS_Subset, FS_CardinalityType
    <3> QED
      BY <2>1, <3>1, <3>3, <3>4, QuotaTypes, BoundAssumption DEF Within
  <2> QED
    BY <2>3, <2>4
<1> QED
  BY <1>1, <1>2, <1>3, <1>4, <1>5, MailKinds DEF Delivers, Drops

\* So does every step.
LEMMA WithinStep ==
    ASSUME TypeOK, Sorted, QuotaOvershoot, [Next]_vars
    PROVE  QuotaOvershoot'
<1> SUFFICES ASSUME MaxPerRecipient > 0, NEW c \in Clients, Within(c) PROVE Within(c)'
  BY DEF QuotaOvershoot, Within
<1> USE DEF Sorted
<1>1. ASSUME NEW w \in Workers, Opens(w) PROVE Within(c)'
  <2>1. Pending(c)' = Pending(c) /\ Admitting(c)' \subseteq Admitting(c)
    BY <1>1 DEF Opens, Alone, MailKept, Pending, Live, Admitting, HandlersAt, At
  <2> QED
    BY <2>1, LessIsWithin
<1>2. ASSUME NEW late \in SUBSET Workers, Stops(late) PROVE Within(c)'
  <2>1. Pending(c)' = Pending(c) /\ Admitting(c)' = {}
    BY <1>2 DEF Stops, Pending, Live, Admitting, HandlersAt, At
  <2> QED
    BY <2>1, LessIsWithin
<1>3. CASE Sweeps \/ Elsewhere
  <2>1. Admitting(c)' = Admitting(c)
    BY <1>3 DEF Sweeps, Elsewhere, serverVars, Admitting, HandlersAt, At
  <2>2. \A m \in messages : Live(m)' => Live(m)
    <3>1. clock \in Nat /\ \A m \in messages : m.expiresAt \in Nat
      BY DEF TypeOK, TypeOKStore, MessageRow
    <3> QED
      BY <1>3, <3>1 DEF Sweeps, Elsewhere, Live
  <2>3. Pending(c)' \subseteq Pending(c)
    BY <1>3, <2>2 DEF Sweeps, Elsewhere, MailKept, Expire, Pending, Live
  <2> QED
    BY <2>1, <2>3, LessIsWithin
<1> QED
  BY <1>1, <1>2, <1>3, WithinServe, OtherMailKinds

\* The mail of a client exceeds the limit by at most one message for each other
\* handler and each failed call.
THEOREM OvershootIsBounded == Spec => []QuotaOvershoot
<1>1. Init => QuotaOvershoot
  <2> SUFFICES ASSUME Init, MaxPerRecipient > 0, NEW c \in Clients PROVE Within(c)
    BY DEF QuotaOvershoot, Within
  <2>1. Pending(c) = {} /\ Admitting(c) = {} /\ spent["store"] = 0
    BY DEF Init, StoreInit, ServerInit, Pending, Admitting, HandlersAt, At
  <2> QED
    BY <2>1, FS_EmptySet, WorkerAssumption, FS_CardinalityType, BoundAssumption DEF Within
<1>2. TypeOK /\ Sorted /\ QuotaOvershoot /\ [Next]_vars => QuotaOvershoot'
  BY WithinStep
<1> QED
  BY <1>1, <1>2, TypeCorrect, RowsAreSorted, PTL DEF Spec

-----------------------------------------------------------------------------
(* The mailbox is a mail drop.                                             *)

Place == [i \in MsgIds |-> Whereabouts(i)]

\* A FETCH could not delete message i, or all of them could.
Stuck(i) == missed[i] > 0
Loose(i) == missed[i] = 0

\* Where a message is, by its failed Deletes, who carries it, whether it has
\* arrived, and its row.
Placement ==
    \A i \in MsgIds :
        /\ Stuck(i) => Place[i] = Letterbox!Nowhere("stuck")
        /\ Loose(i) =>
              /\ \A w \in Carriers(i) : Place[i] = Letterbox!Way(req[w].from)
              /\ Carriers(i) = {} /\ delivered[i] > 0 => Place[i] = Letterbox!Nowhere("arrived")
              /\ Carriers(i) = {} /\ delivered[i] = 0 =>
                    /\ \A m \in messages : m.id = i => Place[i] = Letterbox!Box(m.recipient)
                    /\ (\A m \in messages : m.id # i)
                          => Place[i] = Letterbox!Nowhere(Fate[removedBy[i]])

\* A message is one or the other.
LEMMA StuckOrLoose == ASSUME TypeOK, NEW i \in MsgIds PROVE Loose(i) <=> ~Stuck(i)
BY DEF TypeOK, TypeOKStore, Stuck, Loose

\* A stuck message is placed as stuck.
LEMMA PlacedStuck == ASSUME NEW i \in MsgIds, Stuck(i) PROVE Place[i] = Letterbox!Nowhere("stuck")
BY DEF Stuck, Place, Whereabouts, Letterbox!Nowhere

\* A loose message is placed by its carrier, its deliveries, its row and what removed it.
LEMMA PlacedLoose ==
    ASSUME TypeOK, Sorted, NEW i \in MsgIds, Loose(i)
    PROVE  /\ \A w \in Carriers(i) : Place[i] = Letterbox!Way(req[w].from)
           /\ Carriers(i) = {} /\ delivered[i] > 0 => Place[i] = Letterbox!Nowhere("arrived")
           /\ Carriers(i) = {} /\ delivered[i] = 0 =>
                 /\ \A m \in messages : m.id = i => Place[i] = Letterbox!Box(m.recipient)
                 /\ (\A m \in messages : m.id # i)
                       => Place[i] = Letterbox!Nowhere(Fate[removedBy[i]])
<1>l. ~(missed[i] > 0)
  BY DEF Loose
<1>t. delivered[i] \in Nat
  BY DEF TypeOK, TypeOKStore
<1>1. \A w \in Workers :
         CarriesId(w, i) <=> Serving(w, "FETCH") /\ \E m \in loc[w].batch : m.id = i
  BY DEF Sorted, RowsRead, CarriesId, Serving, At
<1>2. Carried(i) <=> Carriers(i) # {}
  BY <1>1 DEF Carried, Carriers
<1>3. ASSUME NEW w \in Carriers(i) PROVE Place[i] = Letterbox!Way(req[w].from)
  <2> DEFINE v == CHOOSE u \in Workers : Serving(u, "FETCH") /\ \E m \in loc[u].batch : m.id = i
  <2>1. v \in Workers /\ CarriesId(v, i) /\ w \in Workers /\ CarriesId(w, i)
    BY <1>1, <1>3 DEF Carriers
  <2> HIDE DEF v
  <2>2. PICK m \in loc[v].batch : m.id = i
    BY <2>1 DEF CarriesId
  <2>3. PICK x \in loc[w].batch : x.id = i
    BY <2>1 DEF CarriesId
  <2>4. req[v].from = req[w].from
    BY <2>1, <2>2, <2>3 DEF Sorted, OneRowRead, RowsRead
  <2>5. Place[i] = [at |-> "way", of |-> req[v].from]
    BY <1>2, <1>3, <1>l DEF Place, Whereabouts, v
  <2> QED
    BY <2>4, <2>5 DEF Letterbox!Way
<1>4. CASE Carriers(i) = {}
  <2>1. delivered[i] > 0 => Place[i] = Letterbox!Nowhere("arrived")
    BY <1>2, <1>4, <1>l DEF Place, Whereabouts, Letterbox!Nowhere
  <2>2. ASSUME delivered[i] = 0, NEW m \in messages, m.id = i
        PROVE  Place[i] = Letterbox!Box(m.recipient)
    <3>1. (CHOOSE x \in messages : x.id = i) = m
      BY <2>2 DEF Sorted, OneRowPerId
    <3>2. Place[i] = [at |-> "box", of |-> (CHOOSE x \in messages : x.id = i).recipient]
      BY <1>2, <1>4, <1>l, <2>2 DEF Place, Whereabouts
    <3> QED
      BY <3>1, <3>2 DEF Letterbox!Box
  <2>3. delivered[i] = 0 /\ (\A m \in messages : m.id # i)
           => Place[i] = Letterbox!Nowhere(Fate[removedBy[i]])
    BY <1>2, <1>4, <1>l DEF Place, Whereabouts, Letterbox!Nowhere
  <2> QED
    BY <1>4, <2>1, <2>2, <2>3
<1> QED
  BY <1>3, <1>4

\* The placement follows from the order of the rows.
LEMMA Placed == TypeOK /\ Sorted => Placement
BY PlacedStuck, PlacedLoose DEF Placement

\* Where clients are on one connection at a time.
Orderly ==
    /\ TypeOK /\ Sorted /\ Placement /\ OneConnection
    /\ StoredExcused /\ OneJourney

\* A loose message that is stored has not been delivered, and nobody who carries
\* it has tried to delete it.
LEMMA StoredUntouched ==
    ASSUME Orderly, NEW i \in MsgIds, Loose(i), Stored(i)
    PROVE  delivered[i] = 0 /\ Dealt(i) = {}
<1> USE DEF Orderly
<1>1. delivered[i] + Cardinality(Dealt(i)) <= 0
  BY DEF StoredExcused, Excused, Loose
<1>2. delivered[i] = 0 /\ Cardinality(Dealt(i)) = 0 /\ IsFiniteSet(Dealt(i))
  BY <1>1, MailNumbers, FS_Subset, WorkerAssumption
<1> QED
  BY <1>2, FS_EmptySet

\* A carried message is known, nobody else carries it, and it is undelivered.
LEMMA CarriedRow ==
    ASSUME Orderly, NEW i \in MsgIds, NEW w \in Carriers(i)
    PROVE  /\ w \in Workers /\ pc[w] \in {"delete", "reply"} /\ req[w].cmd = "FETCH"
           /\ Carriers(i) = {w} /\ req[w].from \in Clients
           /\ Loose(i) => delivered[i] = 0 /\ Place[i] = Letterbox!Way(req[w].from)
           /\ \E m \in loc[w].batch :
                 /\ m.id = i /\ m.recipient = req[w].from
                 /\ m \in messages \/ removedBy[i] # "nobody"
                 /\ \A x \in messages : x.id = i => x = m
<1> USE DEF Orderly
<1>1. PICK m \in loc[w].batch : m.id = i
  BY DEF Carriers, CarriesId
<1>2. w \in Workers
  BY DEF Carriers
<1>3. Known(m) /\ m.recipient = req[w].from /\ pc[w] \in {"delete", "reply"} /\ req[w].cmd = "FETCH"
  BY <1>1, <1>2 DEF Sorted, RowsRead
<1>4. \A x \in messages : x.id = i => x = m
  BY <1>1, <1>3, KnownRow DEF Sorted
<1>6. Carriers(i) = {w}
  BY OneCarrier
<1>5. Loose(i) => delivered[i] = 0
  <2>1. Cardinality(Carriers(i)) = 1
    BY <1>6, FS_Singleton
  <2>2. delivered[i] + 1 <= 1 + missed[i]
    BY <2>1 DEF OneJourney, Rationed
  <2> QED
    BY <2>2, MailNumbers DEF Loose
<1>7. m \in MessageRow
  BY <1>1, <1>2 DEF TypeOK, TypeOKServer, Local
<1> QED
  BY <1>1, <1>2, <1>3, <1>4, <1>5, <1>6, <1>7 DEF Known, Placement, MessageRow

\* A stuck message stays stuck.
LEMMA StuckStays ==
    ASSUME Orderly, TypeOK', Placement', [Next]_vars, NEW i \in MsgIds, Stuck(i)
    PROVE  Stuck(i)' /\ Place'[i] = Place[i] /\ Place[i] = Letterbox!Nowhere("stuck")
<1>1. missed'[i] >= missed[i] /\ missed[i] \in Nat /\ missed'[i] \in Nat
  BY MissedGrows DEF Orderly, TypeOK, TypeOKStore
<1>2. Stuck(i)'
  BY <1>1 DEF Stuck
<1> QED
  BY <1>2 DEF Orderly, Placement

\* A message that is the same carriers' business, or nobody's, stays.
LEMMA PlaceStays ==
    ASSUME Orderly, TypeOK', Placement', [Next]_vars, NEW i \in MsgIds, missed'[i] = missed[i],
           Carriers(i)' = Carriers(i), \A w \in Carriers(i) : req'[w] = req[w],
           \/ Carriers(i) # {}
           \/ /\ delivered'[i] = delivered[i] /\ removedBy'[i] = removedBy[i]
              /\ \A m \in messages \cup messages' : m.id = i => m \in messages /\ m \in messages'
    PROVE  Place'[i] = Place[i]
<1>t. delivered[i] \in Nat
  BY DEF Orderly, TypeOK, TypeOKStore
<1>1. CASE Stuck(i)
  BY <1>1, StuckStays
<1>2. CASE Loose(i)
  <2>0. Loose(i)'
    BY <1>2 DEF Loose
  <2>1. CASE Carriers(i) # {}
    <3>1. PICK w \in Carriers(i) : TRUE
      BY <2>1
    <3>2. Place[i] = Letterbox!Way(req[w].from)
      BY <1>2 DEF Orderly, Placement
    <3>3. Place'[i] = Letterbox!Way(req'[w].from)
      BY <2>0 DEF Placement
    <3> QED
      BY <3>2, <3>3
  <2>2. CASE Carriers(i) = {}
    BY <1>t, <1>2, <2>0, <2>2 DEF Orderly, Placement
  <2> QED
    BY <2>1, <2>2
<1> QED
  BY <1>1, <1>2, StuckOrLoose DEF Orderly

\* The places of all messages are as a step of MailDrop leaves them.
LEMMA DropPost ==
    ASSUME NEW i \in MsgIds, NEW c \in Clients, Place[i] = Letterbox!Nowhere("unwritten"),
           Place'[i] = Letterbox!Box(c), \A j \in MsgIds \ {i} : Place'[j] = Place[j]
    PROVE  Letterbox!Next
<1>1. Place' = [Place EXCEPT ![i] = Letterbox!Box(c)]
  BY DEF Place
<1> QED
  BY <1>1 DEF Letterbox!Next, Letterbox!Post, Place

\* Messages of one box that are on their way to its owner afterwards have set out.
LEMMA DropSetOut ==
    ASSUME NEW S \in SUBSET MsgIds, NEW c \in Clients, \A i \in S : Place[i] = Letterbox!Box(c),
           \A i \in MsgIds : Place'[i] = IF i \in S THEN Letterbox!Way(c) ELSE Place[i]
    PROVE  Letterbox!Next
<1>1. Place' = [i \in MsgIds |-> IF i \in S THEN Letterbox!Way(c) ELSE Place[i]]
  BY DEF Place
<1>2. Letterbox!SetOut(S, c)
  BY <1>1 DEF Letterbox!SetOut, Place
<1> QED
  BY <1>2 DEF Letterbox!Next

\* Messages on their way to a client that have arrived afterwards make an arrival.
LEMMA DropArrive ==
    ASSUME NEW c \in Clients,
           \A i \in MsgIds : Place'[i] = IF Place[i] = Letterbox!Way(c)
                                         THEN Letterbox!Nowhere("arrived") ELSE Place[i]
    PROVE  Letterbox!Next
<1>1. Place' = [i \in MsgIds |-> IF Place[i] = Letterbox!Way(c)
                                 THEN Letterbox!Nowhere("arrived") ELSE Place[i]]
  BY DEF Place
<1>2. Letterbox!Arrive(c)
  BY <1>1 DEF Letterbox!Arrive, Place
<1> QED
  BY <1>2 DEF Letterbox!Next

\* Messages in a box that are dropped afterwards make a drop.
LEMMA DropDrop ==
    ASSUME NEW S \in SUBSET MsgIds, \A i \in S : Place[i].at = "box",
           \A i \in MsgIds : Place'[i] = IF i \in S THEN Letterbox!Nowhere("dropped") ELSE Place[i]
    PROVE  Letterbox!Next
<1>1. Place' = [i \in MsgIds |-> IF i \in S THEN Letterbox!Nowhere("dropped") ELSE Place[i]]
  BY DEF Place
<1>2. Letterbox!Drop(S)
  BY <1>1 DEF Letterbox!Drop, Place
<1> QED
  BY <1>2 DEF Letterbox!Next

\* Messages that stay, or come off their way, make a foundering.
LEMMA DropFounder ==
    ASSUME \A i \in MsgIds :
              /\ Place'[i] \in Letterbox!Somewhere
              /\ \/ Place'[i] = Place[i]
                 \/ /\ Place[i].at = "way"
                    /\ Place'[i] \in {Letterbox!Box(Place[i].of), Letterbox!Nowhere("lost"),
                                      Letterbox!Nowhere("dropped"), Letterbox!Nowhere("stuck")}
    PROVE  Letterbox!Next
<1>1. Place' \in [MsgIds -> Letterbox!Somewhere]
  BY DEF Place
<1>2. Letterbox!Founder
  BY <1>1 DEF Letterbox!Founder, Place
<1> QED
  BY <1>2 DEF Letterbox!Next

\* What is stuck or not carried is at home.
LEMMA NotOnItsWay ==
    ASSUME Orderly, NEW i \in MsgIds, Stuck(i) \/ Carriers(i) = {}
    PROVE  Place[i].at # "way" /\ Place[i] \in Letterbox!Somewhere
<1>t. delivered[i] \in Nat /\ removedBy[i] \in {"nobody", "fetch", "leave", "expiry"}
      /\ \A m \in messages : m.recipient \in Clients
  BY DEF Orderly, TypeOK, TypeOKStore, MessageRow
<1>1. \A what \in {"unwritten", "arrived", "lost", "dropped", "stuck"} :
         Letterbox!Nowhere(what).at # "way" /\ Letterbox!Nowhere(what) \in Letterbox!Somewhere
  BY DEF Letterbox!Nowhere, Letterbox!Somewhere
<1>2. \A c \in Clients : Letterbox!Box(c).at # "way" /\ Letterbox!Box(c) \in Letterbox!Somewhere
  BY DEF Letterbox!Box, Letterbox!Somewhere
<1>3. Fate[removedBy[i]] \in {"unwritten", "lost", "dropped"}
  BY <1>t DEF Fate
<1>4. \/ Place[i] = Letterbox!Nowhere("arrived")
      \/ Place[i] = Letterbox!Nowhere("stuck")
      \/ \E m \in messages : Place[i] = Letterbox!Box(m.recipient)
      \/ Place[i] = Letterbox!Nowhere(Fate[removedBy[i]])
  BY <1>t, StuckOrLoose DEF Orderly, Placement
<1> QED
  BY <1>t, <1>1, <1>2, <1>3, <1>4

\* Every message is at a place that MailDrop knows.
LEMMA PlaceIsSomewhere ==
    ASSUME Orderly, NEW i \in MsgIds
    PROVE  Place[i] \in Letterbox!Somewhere
<1>1. ASSUME Loose(i), NEW w \in Carriers(i) PROVE Place[i] \in Letterbox!Somewhere
  <2>1. req[w].from \in Clients /\ Place[i] = Letterbox!Way(req[w].from)
    BY <1>1, CarriedRow
  <2> QED
    BY <2>1 DEF Letterbox!Way, Letterbox!Somewhere
<1> QED
  BY <1>1, NotOnItsWay, StuckOrLoose DEF Orderly

\* What a handler's response carries and is not stuck is on the way to its
\* client, and nothing else is.
LEMMA OnWayTo ==
    ASSUME Orderly, NEW w \in Workers, ~At(w, "idle"), NEW i \in MsgIds
    PROVE  Place[i] = Letterbox!Way(req[w].from) <=> Loose(i) /\ Carriers(i) = {w}
<1>1. ASSUME Place[i] = Letterbox!Way(req[w].from) PROVE Loose(i) /\ Carriers(i) = {w}
  <2>1. Carriers(i) # {} /\ Loose(i)
    BY <1>1, NotOnItsWay, StuckOrLoose DEF Letterbox!Way, Orderly
  <2>2. PICK v \in Carriers(i) : TRUE
    BY <2>1
  <2>3. v \in Workers /\ ~At(v, "idle") /\ Place[i] = Letterbox!Way(req[v].from)
        /\ Carriers(i) = {v}
    BY <2>1, <2>2, CarriedRow DEF At
  <2>4. req[v].from = req[w].from
    BY <1>1, <2>3 DEF Letterbox!Way
  <2> QED
    BY <2>1, <2>3, <2>4 DEF Orderly, OneConnection
<1> QED
  BY <1>1, CarriedRow

\* A step of a handler is a step of MailDrop.
LEMMA MailDropServe ==
    ASSUME Orderly, TypeOK', Placement', NEW w \in Workers, Serve(w)
    PROVE  [Letterbox!Next]_Place
<1> USE DEF Orderly
<1>t. /\ messages \subseteq MessageRow /\ \A m \in MessageRow : m.id \in MsgIds
      /\ delivered \in [MsgIds -> Nat] /\ missed \in [MsgIds -> Nat]
      /\ removedBy \in [MsgIds -> {"nobody", "fetch", "leave", "expiry"}]
      /\ \A v \in Workers : loc[v].batch \subseteq MessageRow /\ loc[v].todo \subseteq MessageRow
  BY DEF TypeOK, TypeOKStore, TypeOKServer, MessageRow, Local
<1>n. [Next]_vars
  BY DEF Next
<1>l. \A i \in MsgIds : Stuck(i) \/ Loose(i)
  BY StuckOrLoose
<1>s. (\A i \in MsgIds : Place'[i] = Place[i]) => Place' = Place
  BY DEF Place
<1>a. ASSUME Alone(w), Carries(w), NEW i \in MsgIds
      PROVE  Carriers(i)' = Carriers(i) /\ \A v \in Carriers(i) : req'[v] = req[v]
  BY <1>a DEF Alone, Carries, Carriers, CarriesId
<1>1. CASE Routine(w) \/ Collects(w)
  BY <1>1, <1>a, <1>n, <1>s, PlaceStays DEF Routine, Collects, MailKept
<1>2. CASE Deposits(w)
  <2>1. PICK i \in FreshIds, now \in Nat : Deposit(i, req[w].to, now)
    BY <1>2 DEF Deposits
  <2> DEFINE row == [id |-> i, recipient |-> req[w].to, receivedAt |-> now,
                     expiresAt |-> now + MessageTTL]
  <2>2. messages' = messages \cup {row} /\ row.id = i /\ row.recipient = req[w].to
    BY <2>1 DEF Deposit
  <2> HIDE DEF row
  <2>3. i \in MsgIds /\ removedBy[i] = "nobody" /\ \A m \in messages : m.id # i
    BY DEF FreshIds
  <2>4. Carriers(i) = {} /\ delivered[i] = 0 /\ Loose(i) /\ Loose(i)'
    <3>1. Carriers(i) = {}
      BY <2>3, CarriedRow
    <3>2. delivered[i] = 0 /\ missed[i] = 0
      BY <1>t, <2>3 DEF Sorted, DeliveredRead
    <3> QED
      BY <1>2, <3>1, <3>2 DEF Deposits, Loose
  <2>5. Place[i] = Letterbox!Nowhere("unwritten")
    BY <2>3, <2>4 DEF Placement, Fate
  <2>6. Place'[i] = Letterbox!Box(req[w].to)
    BY <1>2, <1>a, <2>2, <2>3, <2>4 DEF Placement, Deposits
  <2>7. \A j \in MsgIds \ {i} : Place'[j] = Place[j]
    BY <1>2, <1>a, <1>n, <2>2, PlaceStays DEF Deposits
  <2>8. req[w].to \in Clients
    BY <1>2 DEF Deposits, TypeOK, TypeOKServer, At, Request
  <2> QED
    BY <2>3, <2>5, <2>6, <2>7, <2>8, DropPost
<1>3. CASE Reads(w)
  <2> DEFINE c == req[w].from
             S == {i \in MsgIds : Loose(i) /\ \E m \in Pending(c) : m.id = i}
  <2>1. loc[w].batch = {} /\ loc'[w].batch = Pending(c) /\ Alone(w) /\ req'[w] = req[w]
    BY <1>3, NoRowsYet DEF Reads, Sorted, At
  <2>2. c \in Clients /\ ~At(w, "idle")
    BY <1>3 DEF Reads, TypeOK, TypeOKServer, At, Request
  <2> HIDE DEF c
  <2>3. ASSUME NEW i \in S PROVE Place[i] = Letterbox!Box(c) /\ Place'[i] = Letterbox!Way(c)
    <3>1. PICK m \in messages : m \in Pending(c) /\ m.id = i /\ m.recipient = c
      BY DEF Pending
    <3>2. delivered[i] = 0 /\ Loose(i) /\ Loose(i)'
      BY <1>3, <3>1, StoredUntouched DEF Stored, Reads, MailKept, Loose
    <3>3. Carriers(i) = {}
      <4> SUFFICES ASSUME NEW v \in Carriers(i) PROVE FALSE
        OBVIOUS
      <4>1. v \in Workers /\ req[v].from = c /\ ~At(v, "idle") /\ \E x \in loc[v].batch : TRUE
        BY <3>1, CarriedRow DEF At
      <4>2. v = w
        BY <2>2, <4>1 DEF OneConnection, c
      <4> QED
        BY <2>1, <4>1, <4>2
    <3>4. w \in Carriers(i)'
      BY <2>1, <3>1 DEF Carriers, CarriesId
    <3> QED
      BY <2>1, <3>1, <3>2, <3>3, <3>4 DEF Placement, c
  <2>4. ASSUME NEW i \in MsgIds \ S PROVE Place'[i] = Place[i]
    <3>1. CASE Stuck(i)
      BY <1>n, <3>1, StuckStays
    <3>2. CASE Loose(i)
      <4>1. Carriers(i)' = Carriers(i) /\ w \notin Carriers(i)
        BY <2>1, <3>2 DEF Alone, Carriers, CarriesId
      <4>2. \A v \in Carriers(i) : req'[v] = req[v]
        BY <2>1, <4>1 DEF Alone, Carriers
      <4> QED
        BY <1>3, <1>n, <4>1, <4>2, PlaceStays DEF Reads, MailKept
    <3> QED
      BY <1>l, <3>1, <3>2
  <2>5. S \in SUBSET MsgIds
    OBVIOUS
  <2>6. \A i \in MsgIds : Place'[i] = IF i \in S THEN Letterbox!Way(c) ELSE Place[i]
    BY <2>3, <2>4
  <2> HIDE DEF S
  <2> QED
    BY <2>2, <2>3, <2>5, <2>6, DropSetOut
<1>4. ASSUME NEW m, Clears(w, m) PROVE [Letterbox!Next]_Place
  <2>1. /\ At(w, "delete") /\ m \in loc[w].todo /\ m \in MessageRow /\ Known(m)
        /\ m.recipient = req[w].from /\ (req[w].cmd = "FETCH" => m \in loc[w].batch)
    BY <1>4, <1>t DEF Clears, Sorted, RowsRead
  <2>2. \A i \in MsgIds : Carriers(i)' = Carriers(i) /\ \A v \in Carriers(i) : req'[v] = req[v]
    BY <1>4, <1>a DEF Clears
  <2> DEFINE reason == IF req[w].cmd = "FETCH" THEN "fetch" ELSE "leave"
  <2>3. CASE UNCHANGED <<messages, removedBy, missed>>
    BY <1>4, <1>n, <1>s, <2>2, <2>3, PlaceStays DEF Clears
  <2>5. CASE UNCHANGED <<messages, removedBy>> /\ Miss(w, m)
    <3>1. CASE req[w].cmd # "FETCH"
      BY <2>3, <2>5, <3>1 DEF Miss
    <3>2. CASE req[w].cmd = "FETCH"
      <4>1. /\ m.id \in MsgIds /\ missed'[m.id] = missed[m.id] + 1
            /\ \A i \in MsgIds \ {m.id} : missed'[i] = missed[i]
        BY <1>t, <2>1, <2>5, <3>2 DEF Miss
      <4>2. \A i \in MsgIds \ {m.id} : Place'[i] = Place[i]
        BY <1>4, <1>n, <2>2, <2>5, <4>1, PlaceStays DEF Clears
      <4>3. Stuck(m.id)' /\ Place'[m.id] = Letterbox!Nowhere("stuck")
        BY <1>t, <4>1 DEF Stuck, Placement
      <4>4. Place'[m.id] = Place[m.id] \/ Place[m.id].at = "way"
        <5>1. CASE Stuck(m.id)
          BY <1>n, <4>1, <5>1, StuckStays
        <5>2. CASE Loose(m.id)
          <6>1. w \in Carriers(m.id)
            BY <2>1, <3>2 DEF Carriers, CarriesId
          <6>2. Place[m.id] = Letterbox!Way(req[w].from)
            BY <4>1, <5>2, <6>1, CarriedRow
          <6> QED
            BY <6>2 DEF Letterbox!Way
        <5> QED
          BY <1>l, <4>1, <5>1, <5>2
      <4>5. \A i \in MsgIds : Place'[i] \in Letterbox!Somewhere
        <5>1. Letterbox!Nowhere("stuck") \in Letterbox!Somewhere
          BY DEF Letterbox!Nowhere, Letterbox!Somewhere
        <5> QED
          BY <4>2, <4>3, <5>1, PlaceIsSomewhere
      <4> QED
        BY <4>2, <4>3, <4>4, <4>5, DropFounder
    <3> QED
      BY <3>1, <3>2
  <2>4. CASE Delete(m, reason) /\ UNCHANGED missed
    <3>1. /\ messages' = messages \ {m}
          /\ m \in messages => removedBy' = [removedBy EXCEPT ![m.id] = reason]
          /\ m \notin messages => removedBy' = removedBy
      <4>1. reason \in {"fetch", "leave"}
        OBVIOUS
      <4> QED
        BY <2>1, <2>4, <4>1, DeleteRow DEF Sorted
    <3>2. CASE m \notin messages
      <4>1. UNCHANGED <<messages, removedBy, missed>>
        BY <2>4, <3>1, <3>2
      <4> QED
        BY <2>3, <4>1
    <3>3. CASE m \in messages
      <4>1. \A x \in messages : x.id = m.id => x = m
        BY <2>1, KnownRow DEF Sorted
      <4>2. \A i \in MsgIds \ {m.id} : Place'[i] = Place[i]
        <5>1. \A i \in MsgIds \ {m.id} : removedBy'[i] = removedBy[i]
          BY <1>t, <3>1, <3>3
        <5> QED
          BY <1>4, <1>n, <2>2, <2>4, <3>1, <5>1, PlaceStays DEF Clears
      <4>6. CASE Stuck(m.id)
        <5>1. m.id \in MsgIds
          BY <1>t, <2>1
        <5>2. Place'[m.id] = Place[m.id]
          BY <1>n, <4>6, <5>1, StuckStays
        <5> QED
          BY <1>s, <4>2, <5>2
      <4> SUFFICES ASSUME Loose(m.id) PROVE [Letterbox!Next]_Place
        BY <1>l, <1>t, <2>1, <4>6
      <4>3. m.id \in MsgIds /\ delivered[m.id] = 0 /\ delivered'[m.id] = 0 /\ Loose(m.id)'
        BY <1>4, <1>t, <2>1, <2>4, <3>3, StoredUntouched DEF Clears, Stored, Loose
      <4>4. CASE req[w].cmd = "FETCH"
        <5>1. w \in Carriers(m.id)
          BY <2>1, <4>4 DEF Carriers, CarriesId
        <5>2. Place'[m.id] = Place[m.id]
          BY <1>n, <2>2, <2>4, <4>3, <5>1, PlaceStays
        <5> QED
          BY <1>s, <4>2, <5>2
      <4>5. CASE req[w].cmd # "FETCH"
        <5>1. Carriers(m.id) = {}
          <6> SUFFICES ASSUME NEW v \in Carriers(m.id) PROVE FALSE
            OBVIOUS
          <6>1. /\ v \in Workers /\ ~At(v, "idle") /\ req[v].from = m.recipient
                /\ \E x \in loc[v].batch : TRUE
            BY <3>3, <4>3, CarriedRow DEF At
          <6>2. req[v].cmd = "FETCH"
            BY <6>1 DEF Sorted, RowsRead
          <6>3. v = w
            BY <2>1, <6>1 DEF OneConnection, At
          <6> QED
            BY <4>5, <6>2, <6>3
        <5>2. Place[m.id] = Letterbox!Box(m.recipient)
          BY <3>3, <4>3, <5>1 DEF Placement
        <5>3. Place'[m.id] = Letterbox!Nowhere("dropped")
          <6>1. removedBy'[m.id] = "leave"
            BY <1>t, <3>1, <3>3, <4>3, <4>5
          <6>2. \A x \in messages' : x.id # m.id
            BY <3>1, <4>1
          <6> QED
            BY <2>2, <4>3, <5>1, <6>1, <6>2 DEF Placement, Fate
        <5>4. \A i \in MsgIds :
                 Place'[i] = IF i \in {m.id} THEN Letterbox!Nowhere("dropped") ELSE Place[i]
          BY <4>2, <5>3
        <5>5. {m.id} \in SUBSET MsgIds /\ \A i \in {m.id} : Place[i].at = "box"
          BY <4>3, <5>2 DEF Letterbox!Box
        <5> QED
          BY <5>4, <5>5, DropDrop
      <4> QED
        BY <4>4, <4>5
    <3> QED
      BY <3>2, <3>3
  <2> QED
    BY <1>4, <2>4, <2>5 DEF Clears
<1>5. ASSUME Closes(w), NEW i \in MsgIds
      PROVE  /\ Carriers(i) = {w} => Carriers(i)' = {}
             /\ Carriers(i) # {w} => Carriers(i)' = Carriers(i)
                                     /\ \A v \in Carriers(i) : req'[v] = req[v]
  <2>1. w \in Carriers(i) => Carriers(i) = {w}
    BY CarriedRow
  <2>2. Carriers(i)' = Carriers(i) \ {w}
    BY <1>5 DEF Closes, Alone, Carriers, CarriesId
  <2>3. \A v \in Carriers(i) \ {w} : req'[v] = req[v]
    BY <1>5 DEF Closes, Alone, Carriers
  <2> QED
    BY <2>1, <2>2, <2>3
<1>6. CASE Delivers(w)
  <2>1. Closes(w) /\ ~At(w, "idle") /\ req[w].from \in Clients
    BY <1>6 DEF Delivers, Closes, At, TypeOK, TypeOKServer, Request
  <2>2. ASSUME NEW i \in MsgIds
        PROVE  Place'[i] = IF Place[i] = Letterbox!Way(req[w].from)
                           THEN Letterbox!Nowhere("arrived") ELSE Place[i]
    <3>0. missed'[i] = missed[i]
      BY <2>1 DEF Closes
    <3>1. CASE Loose(i) /\ Carriers(i) = {w}
      <4>1. CarriesId(w, i) /\ delivered[i] = 0
        BY <3>1, CarriedRow DEF Carriers
      <4>2. delivered'[i] = 1
        BY <1>6, <4>1 DEF Delivers, CarriesId
      <4>3. Carriers(i)' = {}
        BY <1>5, <2>1, <3>1
      <4>4. Place'[i] = Letterbox!Nowhere("arrived")
        BY <3>0, <3>1, <4>2, <4>3 DEF Placement, Loose
      <4> QED
        BY <2>1, <3>1, <4>4, OnWayTo
    <3>2. CASE Carriers(i) # {w}
      <4>1. w \notin Carriers(i)
        BY <3>2, CarriedRow
      <4>2. delivered'[i] = delivered[i]
        BY <1>6, <4>1 DEF Delivers, Carriers, CarriesId
      <4>3. Place'[i] = Place[i]
        BY <1>5, <1>n, <2>1, <3>2, <4>2, PlaceStays DEF Closes
      <4> QED
        BY <2>1, <3>2, <4>3, OnWayTo
    <3>3. CASE Stuck(i)
      <4>1. ~Loose(i)
        BY <3>3, StuckOrLoose
      <4> QED
        BY <1>n, <2>1, <3>3, <4>1, StuckStays, OnWayTo
    <3> QED
      BY <1>l, <3>1, <3>2, <3>3
  <2> QED
    BY <2>1, <2>2, DropArrive
<1>7. CASE Drops(w)
  <2>1. Closes(w) /\ ~At(w, "idle") /\ req[w].from \in Clients
    BY <1>7 DEF Drops, Closes, At, TypeOK, TypeOKServer, Request
  <2>2. ASSUME NEW i \in MsgIds, Loose(i), Carriers(i) = {w}
        PROVE  /\ Place[i].at = "way"
               /\ Place'[i] \in {Letterbox!Nowhere("lost"), Letterbox!Nowhere("dropped")}
    <3>1. w \in Carriers(i)
      BY <2>2
    <3>2. PICK m \in loc[w].batch :
             /\ m.id = i /\ (m \in messages \/ removedBy[i] # "nobody")
             /\ \A x \in messages : x.id = i => x = m
      BY <3>1, CarriedRow
    <3>3. m \notin messages
      <4>1. w \in Dealt(i)
        BY <2>1, <3>2 DEF Dealt, Done, Closes, At
      <4> QED
        BY <2>2, <3>2, <4>1, StoredUntouched DEF Stored
    <3>4. removedBy'[i] \in {"fetch", "leave", "expiry"} /\ \A x \in messages' : x.id # i
      BY <1>t, <2>1, <3>2, <3>3 DEF Closes
    <3>5. Carriers(i)' = {} /\ delivered'[i] = 0
      BY <1>5, <1>7, <2>1, <2>2, <3>1, CarriedRow DEF Drops
    <3>9. Loose(i)'
      BY <2>1, <2>2 DEF Closes, Loose
    <3>6. Place'[i] = Letterbox!Nowhere(Fate[removedBy'[i]])
      BY <3>4, <3>5, <3>9 DEF Placement
    <3>7. Fate[removedBy'[i]] \in {"lost", "dropped"}
      BY <3>4 DEF Fate
    <3>8. Place[i] = Letterbox!Way(req[w].from)
      BY <2>2, <3>1, CarriedRow
    <3> QED
      BY <3>6, <3>7, <3>8 DEF Letterbox!Way
  <2>3. ASSUME NEW i \in MsgIds, Stuck(i) \/ Carriers(i) # {w} PROVE Place'[i] = Place[i]
    <3>1. CASE Stuck(i)
      BY <1>n, <3>1, StuckStays
    <3>2. CASE Carriers(i) # {w}
      BY <1>5, <1>7, <1>n, <2>1, <3>2, PlaceStays DEF Drops, Closes
    <3> QED
      BY <2>3, <3>1, <3>2
  <2>4. \A i \in MsgIds : Place'[i] \in Letterbox!Somewhere
    <3>1. Letterbox!Nowhere("lost") \in Letterbox!Somewhere
          /\ Letterbox!Nowhere("dropped") \in Letterbox!Somewhere
      BY DEF Letterbox!Nowhere, Letterbox!Somewhere
    <3> QED
      BY <1>l, <2>2, <2>3, <3>1, PlaceIsSomewhere
  <2> QED
    BY <1>l, <2>2, <2>3, <2>4, DropFounder
<1> QED
  BY <1>1, <1>2, <1>3, <1>4, <1>6, <1>7, MailKinds DEF Passes

\* So is every other step.
LEMMA MailDropStep ==
    ASSUME Orderly, TypeOK', Placement', [Next]_vars
    PROVE  [Letterbox!Next]_Place
<1> USE DEF Orderly
<1>t. /\ messages \subseteq MessageRow /\ \A m \in MessageRow : m.id \in MsgIds
      /\ delivered \in [MsgIds -> Nat] /\ missed \in [MsgIds -> Nat]
      /\ removedBy \in [MsgIds -> {"nobody", "fetch", "leave", "expiry"}]
  BY DEF TypeOK, TypeOKStore, MessageRow
<1>l. \A i \in MsgIds : Stuck(i) \/ Loose(i)
  BY StuckOrLoose
<1>s. (\A i \in MsgIds : Place'[i] = Place[i]) => Place' = Place
  BY DEF Place
<1>1. ASSUME NEW w \in Workers, Opens(w) PROVE Place' = Place
  <2>1. loc[w].batch = {} /\ loc'[w].batch = {}
        /\ \A v \in Workers \ {w} : req'[v] = req[v] /\ loc'[v] = loc[v]
    BY <1>1, NoRowsYet DEF Opens, Alone, Sorted, At
  <2>2. \A i \in MsgIds : Carriers(i)' = Carriers(i) /\ \A v \in Carriers(i) : req'[v] = req[v]
    BY <2>1 DEF Carriers, CarriesId
  <2> QED
    BY <1>1, <1>s, <2>2, PlaceStays DEF Opens, MailKept
<1>2. CASE Elsewhere
  <2>1. \A i \in MsgIds : Carriers(i)' = Carriers(i) /\ \A v \in Carriers(i) : req'[v] = req[v]
    BY <1>2 DEF Elsewhere, serverVars, Carriers, CarriesId
  <2> QED
    BY <1>2, <1>s, <2>1, PlaceStays DEF Elsewhere, MailKept
<1>3. ASSUME NEW late \in SUBSET Workers, Stops(late) PROVE Letterbox!Next
  <2>1. /\ UNCHANGED <<messages, removedBy, delivered>>
        /\ \A i \in MsgIds : missed'[i] = missed[i] + Cardinality(Unmade(late, i))
    BY <1>3 DEF Stops
  <2>2. \A i \in MsgIds : Carriers(i)' \subseteq Carriers(i)
    <3>1. \A w \in Workers : loc'[w].batch \in {loc[w].batch, {}}
      BY <1>3 DEF Stops
    <3> QED
      BY <3>1 DEF Carriers, CarriesId
  <2> DEFINE Foundered(i) ==
               /\ Place'[i] \in Letterbox!Somewhere
               /\ \/ Place'[i] = Place[i]
                  \/ /\ Place[i].at = "way"
                     /\ Place'[i] \in {Letterbox!Box(Place[i].of), Letterbox!Nowhere("lost"),
                                       Letterbox!Nowhere("dropped"), Letterbox!Nowhere("stuck")}
  <2>n. \A what \in {"lost", "dropped", "stuck"} : Letterbox!Nowhere(what) \in Letterbox!Somewhere
    BY DEF Letterbox!Nowhere, Letterbox!Somewhere
  <2>k. \A i \in MsgIds : Place'[i] = Place[i] => Foundered(i)
    BY PlaceIsSomewhere
  <2>3. ASSUME NEW i \in MsgIds, Loose(i), Carriers(i) = {} PROVE Foundered(i)
    <3>1. Unmade(late, i) = {}
      <4> SUFFICES ASSUME NEW v \in Unmade(late, i) PROVE FALSE
        OBVIOUS
      <4>1. v \in Carriers(i)
        BY DEF Unmade, Sorted, RowsRead, Carriers, CarriesId
      <4> QED
        BY <2>3, <4>1
    <3>2. missed'[i] = missed[i]
      <4>1. missed'[i] = missed[i] + Cardinality({}) /\ missed[i] \in Nat
        BY <1>t, <2>1, <3>1
      <4> QED
        BY <4>1, FS_EmptySet
    <3> QED
      BY <2>1, <2>2, <2>3, <2>k, <3>2, PlaceStays
  <2>4. ASSUME NEW i \in MsgIds, Loose(i), NEW w \in Carriers(i) PROVE Foundered(i)
    <3>0. Place[i] = Letterbox!Way(req[w].from) /\ req[w].from \in Clients /\ Carriers(i) = {w}
          /\ w \in Workers /\ delivered'[i] = 0
      BY <2>1, <2>4, CarriedRow
    <3>1. CASE Unmade(late, i) # {}
      <4>1. Cardinality(Unmade(late, i)) > 0
        <5>1. IsFiniteSet(Unmade(late, i))
          BY MailNumbers, FS_Subset, WorkerAssumption
        <5> QED
          BY <3>1, <5>1, MailNumbers, FS_EmptySet
      <4>2. Stuck(i)'
        BY <1>t, <2>1, <4>1, MailNumbers DEF Stuck
      <4>3. Place'[i] = Letterbox!Nowhere("stuck")
        BY <4>2 DEF Placement
      <4> QED
        BY <2>n, <3>0, <4>3 DEF Letterbox!Way
    <3>2. CASE Unmade(late, i) = {}
      <4>1. Loose(i)' /\ missed'[i] = missed[i]
        <5>1. missed'[i] = 0 + Cardinality({}) /\ missed[i] = 0
          BY <2>1, <2>4, <3>2 DEF Loose
        <5> QED
          BY <5>1, FS_EmptySet DEF Loose
      <4>2. CASE w \in late
        <5>1. w \in Carriers(i)' /\ req'[w] = req[w]
          <6>1. req[w].cmd = "FETCH" /\ pc[w] \in {"delete", "reply"}
            BY CarriedRow
          <6> QED
            BY <1>3, <4>2, <6>1 DEF Stops, Carriers, CarriesId
        <5>2. Place'[i] = Place[i]
          BY <3>0, <4>1, <5>1 DEF Placement
        <5> QED
          BY <2>k, <5>2
      <4>3. CASE w \notin late
        <5>1. Carriers(i)' = {}
          <6>1. w \notin Carriers(i)'
            BY <1>3, <3>0, <4>3 DEF Stops, Carriers, CarriesId
          <6> QED
            BY <2>2, <3>0, <6>1
        <5>2. PICK m \in loc[w].batch :
                 /\ m.id = i /\ m.recipient = req[w].from
                 /\ m \in messages \/ removedBy[i] # "nobody"
                 /\ \A x \in messages : x.id = i => x = m
          BY CarriedRow
        <5>3. CASE m \in messages
          <6>1. Place'[i] = Letterbox!Box(req[w].from)
            BY <2>1, <3>0, <4>1, <5>1, <5>2, <5>3 DEF Placement
          <6> QED
            BY <3>0, <6>1 DEF Letterbox!Way, Letterbox!Box, Letterbox!Somewhere
        <5>4. CASE m \notin messages
          <6>1. removedBy'[i] \in {"fetch", "leave", "expiry"} /\ \A x \in messages' : x.id # i
            BY <1>t, <2>1, <5>2, <5>4
          <6>2. Place'[i] = Letterbox!Nowhere(Fate[removedBy'[i]])
            BY <3>0, <4>1, <5>1, <6>1 DEF Placement
          <6>3. Fate[removedBy'[i]] \in {"lost", "dropped"}
            BY <6>1 DEF Fate
          <6> QED
            BY <2>n, <3>0, <6>2, <6>3 DEF Letterbox!Way
        <5> QED
          BY <5>3, <5>4
      <4> QED
        BY <4>2, <4>3
    <3> QED
      BY <3>1, <3>2
  <2>5. ASSUME NEW i \in MsgIds, Stuck(i) PROVE Foundered(i)
    BY <2>5, <2>k, StuckStays
  <2>6. \A i \in MsgIds : Foundered(i)
    BY <1>l, <2>3, <2>4, <2>5
  <2> QED
    BY <2>6, DropFounder
<1>4. CASE Sweeps
  <2> DEFINE Dead(i) == \E m \in messages : m.id = i /\ ~Live(m)
             S == {i \in MsgIds : Loose(i) /\ Dead(i) /\ Carriers(i) = {}}
  <2>1. \A i \in MsgIds : Carriers(i)' = Carriers(i) /\ \A v \in Carriers(i) : req'[v] = req[v]
    BY <1>4 DEF Sweeps, serverVars, Carriers, CarriesId
  <2>2. /\ \A m \in messages : m \in messages' <=> Live(m)
        /\ messages' \subseteq messages /\ delivered' = delivered /\ missed' = missed
        /\ \A i \in MsgIds : removedBy'[i] = IF Dead(i) THEN "expiry" ELSE removedBy[i]
    BY <1>4 DEF Sweeps, Expire
  <2> HIDE DEF Dead
  <2>3. ASSUME NEW i \in S
        PROVE  Place[i].at = "box" /\ Place'[i] = Letterbox!Nowhere("dropped")
    <3>1. PICK m \in messages : m.id = i /\ ~Live(m)
      BY DEF Dead
    <3>2. delivered[i] = 0 /\ Loose(i) /\ Loose(i)'
      BY <2>2, <3>1, StoredUntouched DEF Stored, Loose
    <3>3. \A x \in messages : x.id = i => x = m
      BY <3>1 DEF Sorted, OneRowPerId
    <3>4. Place[i] = Letterbox!Box(m.recipient)
      BY <3>1, <3>2 DEF Placement
    <3>5. Place'[i] = Letterbox!Nowhere(Fate["expiry"])
      BY <2>1, <2>2, <3>1, <3>2, <3>3 DEF Placement
    <3> QED
      BY <3>4, <3>5 DEF Letterbox!Box, Fate
  <2>4. ASSUME NEW i \in MsgIds \ S PROVE Place'[i] = Place[i]
    <3>1. CASE Carriers(i) # {}
      BY <2>1, <2>2, <3>1, PlaceStays
    <3>2. CASE ~Dead(i)
      <4>1. \A m \in messages : m.id = i => Live(m)
        BY <3>2 DEF Dead
      <4> QED
        BY <2>1, <2>2, <3>2, <4>1, PlaceStays
    <3>3. CASE Stuck(i)
      BY <3>3, StuckStays
    <3> QED
      BY <1>l, <3>1, <3>2, <3>3
  <2>5. \A i \in MsgIds :
           Place'[i] = IF i \in S THEN Letterbox!Nowhere("dropped") ELSE Place[i]
    BY <2>3, <2>4
  <2>6. S \in SUBSET MsgIds
    OBVIOUS
  <2> HIDE DEF S
  <2> QED
    BY <2>3, <2>5, <2>6, DropDrop
<1> QED
  BY <1>1, <1>2, <1>3, <1>4, MailDropServe, OtherMailKinds

\* To clients on one connection at a time the mailbox keeps the promises of the
\* mail drop: FETCH reads, deletes and answers in separate steps, and LEAVE, the
\* sweep, lost responses, failed calls and stops that close the store may come
\* between any two of them.
THEOREM MailboxIsMailDrop ==
    ASSUME SerialClients
    PROVE  Spec => ImplementsMailDrop
<1>1. Init => Letterbox!Init
  <2> SUFFICES ASSUME Init PROVE Letterbox!Init
    OBVIOUS
  <2>1. \A i \in MsgIds : Whereabouts(i) = Letterbox!Nowhere("unwritten")
    BY DEF Init, StoreInit, ServerInit, NoLocals, Whereabouts, Carried, Serving, At, Fate,
           Letterbox!Nowhere
  <2> QED
    BY <2>1 DEF Letterbox!Init
<1>2. TypeOK /\ Sorted /\ OneConnection /\ StoredExcused /\ OneJourney => Orderly
  BY Placed DEF Orderly
<1>3. Orderly /\ Orderly' /\ [Next]_vars => [Letterbox!Next]_Place
  <2>1. Orderly' => TypeOK' /\ Placement'
    BY DEF Orderly
  <2> QED
    BY <2>1, MailDropStep
<1>4. Orderly /\ Orderly' /\ [Next]_vars
         => [Letterbox!Next]_([i \in MsgIds |-> Whereabouts(i)])
  BY <1>3 DEF Place
<1> QED
  BY <1>1, <1>2, <1>4, TypeCorrect, RowsAreSorted, StoredAreExcused, ClientsAreSerial,
     JourneysAreSingle, PTL DEF Spec, ImplementsMailDrop, Letterbox!Spec
=============================================================================
