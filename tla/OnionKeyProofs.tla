-------------------------- MODULE OnionKeyProofs --------------------------
(***************************************************************************)
(* Proofs about OnionKey, for every number of keys, passphrases and        *)
(* processes, however they and the installer overlap.  A process looks for *)
(* a key in one step and saves one three steps later: a key that is stored *)
(* while nobody else is between the two is safe, and any other is counted  *)
(* as disputed.                                                            *)
(***************************************************************************)
EXTENDS OnionKey, TLAPS

\* The place a process uses depends on its own locals only.
LEMMA PlaceType ==
    ASSUME NEW d \in Daemons PROVE PlaceOf(d) \in Places
BY DEF PlaceOf, Places

\* ADD_ONION, seen from the variables it changes.
LEMMA PublishEffect ==
    ASSUME TypeOK, NEW d \in Daemons, NEW k \in Keys, Publish(d, k)
    PROVE  /\ loc' \in [Daemons -> Locals]
           /\ onion' \in [Daemons -> Keys \cup {NoKey}]
           /\ served' \in [Places -> SUBSET Keys]
           /\ loc'[d].key = k
           /\ loc'[d].protection = loc[d].protection
           /\ loc'[d].passphrase = loc[d].passphrase
           /\ loc'[d].credential = loc[d].credential
           /\ \A e \in Daemons \ {d} : loc'[e] = loc[e]
           /\ \A p \in Places : served'[p] =
                 IF p = PlaceOf(d) THEN served[p] \cup {k} ELSE served[p]
<1>1. loc[d] \in Locals /\ [loc[d] EXCEPT !.key = k] \in Locals
  BY DEF TypeOK, Locals
<1>2. loc' = [loc EXCEPT ![d] = [loc[d] EXCEPT !.key = k]]
  BY DEF Publish, TypeOK
<1>3. loc'[d] = [loc[d] EXCEPT !.key = k] /\ \A e \in Daemons \ {d} : loc'[e] = loc[e]
  BY <1>2 DEF TypeOK
<1>4. loc' \in [Daemons -> Locals]
  BY <1>1, <1>2 DEF TypeOK
<1> QED
  BY <1>1, <1>3, <1>4, PlaceType DEF Publish, TypeOK, Locals

\* resolveOnionKey, seen from the process: it has read its place, or runs on
\* without a hidden service.
LEMMA ResolveEffect ==
    ASSUME TypeOK, NEW d \in Daemons, Resolve(d)
    PROVE  /\ loc'[d].protection = loc[d].protection
           /\ loc'[d].passphrase = loc[d].passphrase
           /\ loc'[d].credential = loc[d].credential
           /\ \A e \in Daemons \ {d} : loc'[e] = loc[e] /\ phase'[e] = phase[e]
           /\ \/ phase'[d] = "up" /\ loc'[d].key = loc[d].key
              \/ /\ phase'[d] = "register"
                 /\ loc'[d].key = IF Content(d) \in {Absent, Empty} THEN NoKey ELSE Content(d)
                 /\ PlaceOf(d) = "enc" => files["enc"] = Absent \/ Opens(loc[d].passphrase)
<1> DEFINE key == IF Content(d) \in {Absent, Empty} THEN NoKey ELSE Content(d)
<1>1. CASE /\ phase' = [phase EXCEPT ![d] = "register"]
           /\ loc' = [loc EXCEPT ![d].key = key]
           /\ PlaceOf(d) = "enc" => files["enc"] = Absent \/ Opens(loc[d].passphrase)
  <2>1. loc' = [loc EXCEPT ![d] = [loc[d] EXCEPT !.key = key]]
    BY <1>1
  <2>2. loc'[d] = [loc[d] EXCEPT !.key = key] /\ \A e \in Daemons \ {d} : loc'[e] = loc[e]
    BY <2>1 DEF TypeOK
  <2> HIDE DEF key
  <2>3. /\ loc'[d].key = key /\ loc'[d].protection = loc[d].protection
        /\ loc'[d].passphrase = loc[d].passphrase /\ loc'[d].credential = loc[d].credential
    BY <2>2 DEF TypeOK, Locals
  <2> QED
    BY <1>1, <2>2, <2>3 DEF TypeOK, key
<1>2. CASE phase' = [phase EXCEPT ![d] = "up"] /\ UNCHANGED loc
  BY <1>2 DEF TypeOK
<1> QED
  BY <1>1, <1>2 DEF Resolve

\* The initial values are of their types.
LEMMA InitialTypes == Init => TypeOK
<1> USE KeyAssumption, DaemonAssumption
<1> SUFFICES ASSUME Init PROVE TypeOK
  OBVIOUS
<1>1. sealing \in BOOLEAN
  BY DEF Init
<1>2. /\ mode \in Modes /\ lock = NoPassphrase /\ meta = NoKey
      /\ served = [p \in Places |-> {}] /\ fate = [k \in Keys |-> "unused"]
      /\ files = [p \in Places |-> Absent] /\ onion = [d \in Daemons |-> NoKey]
      /\ phase = [d \in Daemons |-> "down"] /\ loc = [d \in Daemons |-> NoLocals]
  BY DEF Init
<1>3. NoLocals \in Locals
  BY DEF NoLocals, Locals, Modes, Contents
<1> QED
  BY <1>1, <1>2, <1>3 DEF TypeOK, Places, Contents, Fates

\* Each variable keeps its type through every step.
THEOREM TypeCorrect == Spec => []TypeOK
<1> USE KeyAssumption, DaemonAssumption
<1>1. Init => TypeOK
  BY InitialTypes
<1>2. TypeOK /\ [Next]_vars => TypeOK'
  <2> SUFFICES ASSUME TypeOK, [Next]_vars PROVE TypeOK'
    OBVIOUS
  <2> USE DEF TypeOK
  <2>1. ASSUME NEW d \in Daemons, Start(d) PROVE TypeOK'
    <3>1. Credential(d) \in Contents
      BY DEF Credential, Contents, Places
    <3> QED
      BY <2>1, <3>1 DEF Start, Locals, Prompt
  <2>2. ASSUME NEW d \in Daemons, TorUnavailable(d) PROVE TypeOK'
    BY <2>2 DEF TorUnavailable
  <2>3. ASSUME NEW d \in Daemons, Resolve(d) PROVE TypeOK'
    <3>1. Content(d) \in Contents
      BY DEF Content, PlaceOf, Places, Locals
    <3> DEFINE key == IF Content(d) \in {Absent, Empty} THEN NoKey ELSE Content(d)
    <3>2. key \in Keys \cup {NoKey, Torn}
      BY <3>1 DEF Contents
    <3>3. loc' = loc \/ loc' = [loc EXCEPT ![d].key = key]
      BY <2>3 DEF Resolve
    <3>4. loc' \in [Daemons -> Locals]
      <4> HIDE DEF key
      <4> QED
        BY <3>2, <3>3 DEF Locals
    <3>5. \A e \in Daemons : phase'[e] \in {"save", "write", "announce"} =>
              e # d /\ phase'[e] = phase[e] /\ loc'[e] = loc[e]
      BY <2>3 DEF Resolve
    <3> QED
      BY <2>3, <3>4, <3>5 DEF Resolve
  <2>4. ASSUME NEW d \in Daemons, RegisterNew(d) PROVE TypeOK'
    <3>1. PICK k \in Keys : Publish(d, k) /\ fate' = [fate EXCEPT ![k] = "created"]
      BY <2>4 DEF RegisterNew
    <3> QED
      BY <2>4, <3>1, PublishEffect DEF RegisterNew, Fates
  <2>5. ASSUME NEW d \in Daemons, RegisterOld(d) PROVE TypeOK'
    <3>1. CASE Publish(d, loc[d].key) /\ loc[d].key \in Keys
      BY <2>5, <3>1, PublishEffect DEF RegisterOld
    <3> QED
      BY <2>5, <3>1 DEF RegisterOld
  <2>6. ASSUME NEW d \in Daemons, Save(d) PROVE TypeOK'
    BY <2>6 DEF Save, Abandon, PlaceOf, Places, Contents, Fates
  <2>7. ASSUME NEW d \in Daemons, Write(d) PROVE TypeOK'
    <3>1. loc[d].key \in Keys /\ loc[d].passphrase \in Passphrases \cup {NoPassphrase}
      BY <2>7 DEF Write, Locals
    <3>2. files' \in [Places -> Contents]
      BY <2>7, <3>1, PlaceType DEF Write, CutShort, Contents
    <3>3. fate' \in [Keys -> Fates]
      BY <2>7, <3>1 DEF Write, Abandon, Stored, Fates
    <3>4. lock' \in Passphrases \cup {NoPassphrase}
      BY <2>7, <3>1 DEF Write
    <3> QED
      BY <2>7, <3>1, <3>2, <3>3, <3>4 DEF Write, Abandon, Stored
  <2>8. ASSUME NEW d \in Daemons, Announce(d) PROVE TypeOK'
    BY <2>8 DEF Announce
  <2>9. ASSUME NEW d \in Daemons, Stop(d) PROVE TypeOK'
    BY <2>9, PlaceType DEF Stop, CutShort, NoLocals, Locals, Modes, Contents
  <2>10. CASE TorRestarts
    BY <2>10 DEF TorRestarts
  <2>11. CASE Choose
    BY <2>11 DEF Choose
  <2>12. CASE Seal
    BY <2>12 DEF Seal, Places, Contents, Fates
  <2>13. CASE Destroy
    BY <2>13 DEF Destroy, Places, Contents
  <2>14. ASSUME NEW d \in Daemons, WriteRemoved(d) PROVE TypeOK'
    BY <2>14 DEF WriteRemoved, Abandon, Fates
  <2>15. CASE UNCHANGED vars
    BY <2>15 DEF vars
  <2> QED
    BY <2>1, <2>2, <2>3, <2>4, <2>5, <2>6, <2>7, <2>8, <2>9, <2>10, <2>11, <2>12, <2>13,
       <2>14, <2>15 DEF Next
<1> QED
  BY <1>1, <1>2, PTL DEF Spec

-----------------------------------------------------------------------------

\* Keys that were in a key file, whole.
Known == {k \in Keys : fate[k] \in {"stored", "disputed", "replaced"}}

\* A key file holds a key that was stored undisputed.
Safe(p) == files[p] \in Keys /\ fate[files[p]] = "stored"

\* A process that will save a key will not overwrite a safe one, and holds no
\* credential.
Room ==
    \A d \in Daemons :
        /\ Saving(d) /\ PlaceOf(d) # "cred" => ~Safe(PlaceOf(d))
        /\ phase[d] \in {"write", "removed"} => PlaceOf(d) # "cred"

\* What the installer is about to destroy is in the credential, if it is safe.
Sealed == sealing /\ Safe("plain") => files["cred"] = files["plain"]

\* A process that has a new key and has not saved it yet.
Holding(d) == phase[d] \in {"save", "write", "removed"}

\* A key that is being saved is new, and was served from no other place.
AtRisk ==
    \A d \in Daemons :
        Holding(d) =>
            /\ fate[loc[d].key] = "created"
            /\ \A p \in Places \ {PlaceOf(d)} : loc[d].key \notin served[p]

\* No two processes hold the same new key.
Distinct ==
    \A d, e \in Daemons : Holding(d) /\ Holding(e) /\ loc[d].key = loc[e].key => d = e

\* A process has no key before it looks for one, and then one that was stored,
\* and is in its place still if it is safe.
Held ==
    \A d \in Daemons :
        /\ phase[d] = "connect" => loc[d].key = NoKey
        /\ phase[d] = "register" /\ loc[d].key \in Keys =>
              /\ loc[d].key \in Known
              /\ fate[loc[d].key] = "stored" => loc[d].key \in Kept(PlaceOf(d))

\* So was the key in a credential that systemd has handed over.
Handed ==
    \A d \in Daemons :
        loc[d].credential \in Keys =>
            /\ loc[d].credential \in Known
            /\ fate[loc[d].credential] = "stored" => files["cred"] = loc[d].credential

FilesKnown == \A p \in Places : files[p] \in Keys => files[p] \in Known

ServedUsed == \A p \in Places : \A k \in served[p] : fate[k] # "unused"

\* An address whose key was stored undisputed is that of the key in its place.
AddressKept == \A p \in Places : \A k \in served[p] : fate[k] = "stored" => k \in Kept(p)

\* What has become of a key is settled before it is announced.
Settled(k) == fate[k] \notin {"unused", "created"}

KeySettled ==
    \A d \in Daemons :
        phase[d] \in {"announce", "up"} /\ loc[d].key \in Keys => Settled(loc[d].key)

LinkSettled == meta \in Keys => Settled(meta)

\* OpensAgain, from the moment the key is loaded.
OpensLoaded ==
    \A d \in Daemons :
        /\ phase[d] \in {"register", "announce", "up"}
        /\ loc[d].protection = "passphrase"
        /\ loc[d].key \in Keys /\ fate[loc[d].key] = "stored"
        => files["enc"] = loc[d].key /\ Opens(loc[d].passphrase)

IInv ==
    /\ TypeOK /\ Room /\ Sealed /\ AtRisk /\ Distinct /\ Held /\ Handed
    /\ FilesKnown /\ ServedUsed /\ KeySettled /\ LinkSettled
    /\ OpensLoaded /\ AddressKept

\* IInv is inductive.
THEOREM Inductive == IInv /\ TypeOK' /\ [Next]_vars => IInv'
<1> SUFFICES ASSUME IInv, TypeOK', [Next]_vars PROVE IInv'
  OBVIOUS
<1> USE KeyAssumption, DaemonAssumption DEF IInv, TypeOK
<1>1. ASSUME NEW d \in Daemons, Start(d) PROVE IInv'
  <2>1. \A e \in Daemons \ {d} : phase'[e] = phase[e] /\ loc'[e] = loc[e]
    BY <1>1 DEF Start
  <2>2. phase'[d] = "connect" /\ loc'[d].key = NoKey
    BY <1>1 DEF Start
  <2>3. loc'[d].credential \in Keys => loc'[d].credential = files["cred"]
    BY <1>1 DEF Start, Credential
  <2>4. UNCHANGED <<files, lock, sealing, meta, served, fate>>
    BY <1>1 DEF Start
  <2>5. Handed'
    BY <2>1, <2>3, <2>4 DEF Handed, Known, Places, FilesKnown
  <2>6. Room' /\ AtRisk' /\ Distinct' /\ Held'
    BY <2>1, <2>2, <2>4 DEF Room, Saving, Safe, PlaceOf, AtRisk, Holding, Distinct, Held, Known, Kept
  <2>7. KeySettled' /\ OpensLoaded'
    BY <2>1, <2>2, <2>4 DEF KeySettled, Settled, OpensLoaded, Opens
  <2>8. Sealed' /\ FilesKnown' /\ ServedUsed' /\ LinkSettled' /\ AddressKept'
    BY <2>4 DEF Sealed, Safe, FilesKnown, Known, ServedUsed, LinkSettled, Settled, AddressKept, Kept
  <2> QED
    BY <2>5, <2>6, <2>7, <2>8
<1>2. ASSUME NEW d \in Daemons, TorUnavailable(d) PROVE IInv'
  <2>1. KeySettled'
    BY <1>2 DEF TorUnavailable, KeySettled, Settled, Held, Known
  <2>2. OpensLoaded'
    BY <1>2 DEF TorUnavailable, OpensLoaded, Opens, Held
  <2>3. Room' /\ AtRisk' /\ Distinct' /\ Held' /\ Handed'
    BY <1>2 DEF TorUnavailable, Room, Saving, Safe, PlaceOf, AtRisk, Holding, Distinct,
       Held, Known, Kept, Handed
  <2>4. Sealed' /\ FilesKnown' /\ ServedUsed' /\ LinkSettled' /\ AddressKept'
    BY <1>2 DEF TorUnavailable, Sealed, Safe, FilesKnown, Known, ServedUsed, LinkSettled,
       Settled, AddressKept, Kept
  <2> QED
    BY <2>1, <2>2, <2>3, <2>4
<1>3. ASSUME NEW d \in Daemons, Resolve(d) PROVE IInv'
  <2>1. \A e \in Daemons :
           /\ PlaceOf(e)' = PlaceOf(e)
           /\ loc'[e].credential = loc[e].credential
           /\ loc'[e].protection = loc[e].protection
           /\ loc'[e].passphrase = loc[e].passphrase
    BY <1>3, ResolveEffect DEF PlaceOf
  <2>2. /\ phase'[d] = "up" => loc'[d].key = NoKey
        /\ phase'[d] = "register" /\ loc'[d].key \in Keys =>
              /\ loc'[d].key = IF PlaceOf(d) = "cred" THEN loc[d].credential ELSE files[PlaceOf(d)]
              /\ PlaceOf(d) = "enc" => Opens(loc[d].passphrase)
        /\ phase'[d] \in {"up", "register"}
        /\ phase'[d] = "register" /\ loc'[d].key = NoKey /\ PlaceOf(d) # "cred" =>
              files[PlaceOf(d)] \notin Keys
        /\ \A e \in Daemons \ {d} : phase'[e] = phase[e] /\ loc'[e] = loc[e]
    BY <1>3, ResolveEffect DEF Content, Held, Resolve
  <2>3. Room'
    BY <2>1, <2>2, PlaceType, <1>3 DEF Resolve, Room, Saving, Safe
  <2>4. Held'
    BY <2>1, <2>2, PlaceType, <1>3 DEF Resolve, Held, Known, Kept, Handed, FilesKnown
  <2>5. KeySettled'
    BY <2>1, <2>2, PlaceType, <1>3 DEF Resolve, KeySettled, Settled
  <2>6. OpensLoaded'
    BY <2>1, <2>2, PlaceType, <1>3 DEF Resolve, OpensLoaded, Opens, PlaceOf
  <2>7. AtRisk' /\ Distinct' /\ Handed'
    BY <2>1, <2>2, PlaceType, <1>3 DEF Resolve, AtRisk, Holding, Distinct, Handed, Known
  <2>8. Sealed' /\ FilesKnown' /\ ServedUsed' /\ LinkSettled' /\ AddressKept'
    BY <1>3 DEF Resolve, Sealed, Safe, FilesKnown, Known, ServedUsed, LinkSettled, Settled,
       AddressKept, Kept
  <2> QED
    BY <2>3, <2>4, <2>5, <2>6, <2>7, <2>8
<1>4. ASSUME NEW d \in Daemons, RegisterNew(d) PROVE IInv'
  <2>1. PICK k \in Keys : fate[k] = "unused" /\ fate' = [fate EXCEPT ![k] = "created"] /\ Publish(d, k)
    BY <1>4 DEF RegisterNew
  <2>2. \A e \in Daemons :
           /\ PlaceOf(e)' = PlaceOf(e)
           /\ loc'[e].credential = loc[e].credential
           /\ e # d => loc'[e] = loc[e] /\ phase'[e] = phase[e]
    BY <1>4, <2>1, PublishEffect DEF PlaceOf, RegisterNew
  <2>3. phase[d] = "register" /\ loc[d].key = NoKey /\ phase'[d] = "save" /\ loc'[d].key = k
    BY <1>4, <2>1, PublishEffect DEF RegisterNew
  <2>4. UNCHANGED <<files, lock, sealing, meta>> /\ \A x \in Keys \ {k} : fate'[x] = fate[x]
    BY <1>4, <2>1 DEF RegisterNew
  <2>5. \A p \in Places : served'[p] = IF p = PlaceOf(d) THEN served[p] \cup {k} ELSE served[p]
    BY <2>1, PublishEffect
  <2>6. \A p \in Places : k \notin served[p]
    BY <2>1 DEF ServedUsed
  <2>7. fate[k] = "unused" /\ fate'[k] = "created"
    BY <2>1
  <2>8. AtRisk'
    BY <2>2, <2>3, <2>4, <2>5, <2>6, <2>7 DEF AtRisk, Holding
  <2>9. Distinct'
    BY <2>2, <2>3, <2>7 DEF Distinct, Holding, AtRisk
  <2>10. Room'
    BY <2>2, <2>3, <2>4, <2>7 DEF Room, Saving, Safe
  <2>11. Held' /\ Handed'
    <3>1. \A x \in Keys : x \in Known => x # k /\ x \in Known' /\ fate'[x] = fate[x]
      BY <2>4, <2>7 DEF Known
    <3>2. \A p \in Places : Kept(p)' = Kept(p)
      BY <2>4 DEF Kept
    <3>3. Held'
      BY <2>2, <2>3, <3>1, <3>2, PlaceType DEF Held
    <3>4. Handed'
      BY <2>2, <2>4, <3>1 DEF Handed
    <3> QED
      BY <3>3, <3>4
  <2>12. FilesKnown' /\ Sealed'
    BY <2>4, <2>7 DEF FilesKnown, Known, Sealed, Safe
  <2>13. ServedUsed' /\ AddressKept'
    BY <2>4, <2>5, <2>7 DEF ServedUsed, AddressKept, Kept
  <2>14. KeySettled' /\ LinkSettled'
    BY <2>2, <2>3, <2>4, <2>7 DEF KeySettled, LinkSettled, Settled
  <2>15. OpensLoaded'
    BY <2>2, <2>3, <2>4, <2>7 DEF OpensLoaded, Opens
  <2> QED
    BY <2>8, <2>9, <2>10, <2>11, <2>12, <2>13, <2>14, <2>15
<1>5. ASSUME NEW d \in Daemons, RegisterOld(d) PROVE IInv'
  <2>1. \A e \in Daemons :
           /\ PlaceOf(e)' = PlaceOf(e) /\ loc'[e].key = loc[e].key
           /\ loc'[e].credential = loc[e].credential
           /\ loc'[e].protection = loc[e].protection
           /\ loc'[e].passphrase = loc[e].passphrase
    <3>1. CASE Publish(d, loc[d].key) /\ loc[d].key \in Keys
      BY <3>1, PublishEffect DEF PlaceOf
    <3> QED
      BY <1>5, <3>1 DEF RegisterOld, PlaceOf
  <2>2. \A p \in Places :
           \/ served'[p] = served[p]
           \/ /\ p = PlaceOf(d) /\ loc[d].key \in Keys
              /\ served'[p] = served[p] \cup {loc[d].key}
    <3>1. CASE Publish(d, loc[d].key) /\ loc[d].key \in Keys
      BY <3>1, PublishEffect
    <3> QED
      BY <1>5, <3>1 DEF RegisterOld
  <2>3. AtRisk' /\ Distinct'
    <3>1. \A e \in Daemons : Holding(e)' => Holding(e)
      BY <1>5 DEF RegisterOld, Holding
    <3>2. loc[d].key \in Keys => fate[loc[d].key] # "created"
      BY <1>5 DEF RegisterOld, Held, Known
    <3>3. fate' = fate
      BY <1>5 DEF RegisterOld
    <3>4. AtRisk'
      BY <2>1, <2>2, <3>1, <3>2, <3>3 DEF AtRisk
    <3>5. Distinct'
      BY <2>1, <3>1 DEF Distinct
    <3> QED
      BY <3>4, <3>5
  <2>4. ServedUsed'
    BY <2>1, <2>2, <1>5 DEF RegisterOld, ServedUsed, Held, Known
  <2>5. KeySettled'
    BY <2>1, <2>2, <1>5 DEF RegisterOld, KeySettled, Settled, Held, Known
  <2>6. OpensLoaded'
    BY <2>1, <2>2, <1>5 DEF RegisterOld, OpensLoaded, Opens
  <2>7. AddressKept'
    BY <2>1, <2>2, <1>5 DEF RegisterOld, AddressKept, Kept, Held
  <2>8. Room' /\ Held' /\ Handed'
    BY <2>1, <2>2, <1>5 DEF RegisterOld, Room, Saving, Safe, Held, Known, Kept, Handed
  <2>9. Sealed' /\ FilesKnown' /\ LinkSettled'
    BY <1>5 DEF RegisterOld, Sealed, Safe, FilesKnown, Known, LinkSettled, Settled
  <2> QED
    BY <2>3, <2>4, <2>5, <2>6, <2>7, <2>8, <2>9
<1>6. ASSUME NEW d \in Daemons, Save(d) PROVE IInv'
  <2>1. /\ UNCHANGED <<lock, sealing, meta, loc, served>> /\ phase[d] = "save" /\ Saving(d)
        /\ \A e \in Daemons : PlaceOf(e)' = PlaceOf(e)
        /\ \A e \in Daemons \ {d} : phase'[e] = phase[e]
    BY <1>6 DEF Save, Abandon, PlaceOf, Saving
  <2>2. CASE /\ PlaceOf(d) # "cred" /\ phase'[d] = "write" /\ UNCHANGED fate
             /\ files' = [files EXCEPT ![PlaceOf(d)] = Empty]
    <3>1. /\ ~Safe(PlaceOf(d)) /\ files'[PlaceOf(d)] = Empty
          /\ \A p \in Places \ {PlaceOf(d)} : files'[p] = files[p]
      BY <2>1, <2>2, PlaceType DEF Room
    <3>2. Room' /\ Sealed' /\ FilesKnown'
      BY <2>1, <2>2, <3>1, PlaceType DEF Room, Saving, Safe, Sealed, FilesKnown, Known, Places
    <3>3. AtRisk' /\ Distinct'
      BY <2>1, <2>2, <3>1 DEF AtRisk, Distinct, Holding
    <3>4. Held' /\ Handed' /\ AddressKept'
      BY <2>1, <2>2, <3>1, PlaceType DEF Held, Handed, AddressKept, Safe, Known, Kept, Places
    <3>5. ServedUsed' /\ KeySettled' /\ LinkSettled'
      BY <2>1, <2>2 DEF ServedUsed, KeySettled, LinkSettled, Settled
    <3>6. OpensLoaded'
      BY <2>1, <2>2, <3>1, PlaceType DEF OpensLoaded, Opens, Safe, Places
    <3> QED
      BY <3>2, <3>3, <3>4, <3>5, <3>6
  <2>3. CASE Abandon(d) /\ UNCHANGED files
    <3>1. /\ loc[d].key \in Keys /\ fate[loc[d].key] = "created" /\ phase'[d] = "announce"
          /\ fate'[loc[d].key] = "abandoned"
          /\ \A k \in Keys \ {loc[d].key} : fate'[k] = fate[k]
      BY <2>1, <2>3 DEF Abandon, AtRisk, Holding
    <3>2. Room' /\ Sealed' /\ FilesKnown'
      BY <2>1, <2>3, <3>1 DEF Room, Saving, Safe, Sealed, FilesKnown, Known
    <3>3. AtRisk' /\ Distinct'
      BY <2>1, <3>1 DEF AtRisk, Distinct, Holding
    <3>4. Held' /\ Handed' /\ AddressKept'
      BY <2>1, <2>3, <3>1 DEF Held, Handed, AddressKept, Known, Kept
    <3>5. ServedUsed' /\ KeySettled' /\ LinkSettled'
      BY <2>1, <3>1 DEF ServedUsed, KeySettled, LinkSettled, Settled
    <3>6. OpensLoaded'
      BY <2>1, <2>3, <3>1 DEF OpensLoaded, Opens
    <3> QED
      BY <3>2, <3>3, <3>4, <3>5, <3>6
  <2> QED
    BY <1>6, <2>2, <2>3 DEF Save
<1>7. ASSUME NEW d \in Daemons, Write(d) PROVE IInv'
  <2> DEFINE k == loc[d].key
  <2>1. /\ UNCHANGED <<sealing, meta, loc, served>> /\ phase[d] = "write" /\ Saving(d)
        /\ \A e \in Daemons : PlaceOf(e)' = PlaceOf(e)
        /\ \A e \in Daemons \ {d} : phase'[e] = phase[e]
        /\ phase'[d] = "announce"
    BY <1>7 DEF Write, Stored, Abandon, PlaceOf, Saving
  <2>2. /\ k \in Keys /\ fate[k] = "created" /\ PlaceOf(d) # "cred" /\ PlaceOf(d) \in Places
        /\ ~Safe(PlaceOf(d))
        /\ \A p \in Places \ {PlaceOf(d)} : k \notin served[p]
        /\ \A p \in Places : files[p] # k
    BY <2>1, PlaceType DEF AtRisk, Holding, Room, FilesKnown, Known
  <2>3. \A e \in Daemons \ {d} : Holding(e) => loc[e].key # k
    BY <2>1 DEF Distinct, Holding
  <2>4. /\ fate'[k] \in {"stored", "disputed", "abandoned"}
        /\ \A x \in Keys \ {k} : fate'[x] = fate[x]
        /\ fate'[k] = "stored" => Undisputed(d)
        /\ \/ /\ fate'[k] \in {"stored", "disputed"}
              /\ files'[PlaceOf(d)] = k
              /\ lock' = IF PlaceOf(d) = "enc" THEN loc[d].passphrase ELSE lock
           \/ /\ fate'[k] = "abandoned" /\ lock' = lock
              /\ files'[PlaceOf(d)] \in {files[PlaceOf(d)], Torn}
        /\ \A p \in Places \ {PlaceOf(d)} : files'[p] = files[p]
    BY <1>7, <2>2 DEF Write, Stored, Abandon, CutShort
  <2> HIDE DEF k
  <2>5. Room'
    <3>1. ASSUME NEW e \in Daemons, Saving(e)', PlaceOf(e)' # "cred" PROVE ~Safe(PlaceOf(e))'
      <4>1. e # d /\ Saving(e) /\ PlaceOf(e)' = PlaceOf(e) /\ PlaceOf(e) \in Places
        BY <2>1, <3>1, PlaceType DEF Saving
      <4>2. ~Safe(PlaceOf(e)) /\ files[PlaceOf(e)] # k
        BY <2>2, <3>1, <4>1 DEF Room
      <4>3. CASE PlaceOf(e) = PlaceOf(d)
        BY <2>2, <2>4, <4>1, <4>2, <4>3 DEF Safe, Undisputed
      <4>4. CASE PlaceOf(e) # PlaceOf(d)
        BY <2>4, <4>1, <4>2, <4>4 DEF Safe
      <4> QED
        BY <4>3, <4>4
    <3> QED
      BY <2>1, <3>1 DEF Room
  <2>6. Sealed'
    BY <2>1, <2>2, <2>4 DEF Sealed, Safe, Undisputed, Places
  <2>7. FilesKnown'
    BY <2>2, <2>4 DEF FilesKnown, Known
  <2>8. AtRisk' /\ Distinct'
    BY <2>1, <2>2, <2>3, <2>4 DEF AtRisk, Distinct, Holding
  <2>9. Held' /\ Handed'
    BY <2>1, <2>2, <2>4, PlaceType DEF Held, Handed, Safe, Known, Kept, Places
  <2>10. AddressKept'
    BY <2>1, <2>2, <2>4 DEF AddressKept, Safe, Kept, Places
  <2>11. ServedUsed' /\ LinkSettled'
    BY <2>1, <2>2, <2>4 DEF ServedUsed, LinkSettled, Settled
  <2>12. KeySettled'
    BY <2>1, <2>2, <2>4 DEF KeySettled, Settled, k
  <2>13. OpensLoaded'
    <3> SUFFICES ASSUME NEW e \in Daemons,
                        phase'[e] \in {"register", "announce", "up"},
                        loc[e].protection = "passphrase",
                        loc[e].key \in Keys, fate'[loc[e].key] = "stored"
                 PROVE  files'["enc"] = loc[e].key /\ Opens(loc[e].passphrase)'
      BY <2>1 DEF OpensLoaded, Opens
    <3>1. CASE e = d
      <4>1. PlaceOf(d) = "enc" /\ loc[e].key = k
        BY <3>1 DEF PlaceOf, k
      <4> QED
        BY <2>1, <2>2, <2>4, <3>1, <4>1 DEF Opens
    <3>2. CASE e # d
      <4>1. phase[e] \in {"register", "announce", "up"} /\ loc[e].key # k
        BY <2>1, <2>2, <3>2 DEF KeySettled, Settled, Held, Known
      <4>2. fate[loc[e].key] = "stored"
        BY <2>4, <4>1
      <4>3. files["enc"] = loc[e].key /\ Opens(loc[e].passphrase)
        BY <4>1, <4>2 DEF OpensLoaded
      <4>4. PlaceOf(d) # "enc"
        BY <2>2, <4>2, <4>3 DEF Safe
      <4> QED
        BY <2>1, <2>4, <4>3, <4>4 DEF Opens, Places
    <3> QED
      BY <3>1, <3>2
  <2> QED
    BY <2>5, <2>6, <2>7, <2>8, <2>9, <2>10, <2>11, <2>12, <2>13
<1>8. ASSUME NEW d \in Daemons, WriteRemoved(d) PROVE IInv'
  <2> DEFINE k == loc[d].key
  <2>1. /\ UNCHANGED <<files, lock, sealing, meta, loc, served>> /\ phase[d] = "removed"
        /\ \A e \in Daemons : PlaceOf(e)' = PlaceOf(e)
        /\ \A e \in Daemons \ {d} : phase'[e] = phase[e]
        /\ phase'[d] = "announce"
    BY <1>8 DEF WriteRemoved, Abandon, PlaceOf
  <2>2. k \in Keys /\ fate[k] = "created" /\ \A p \in Places : files[p] # k
    BY <2>1 DEF AtRisk, Holding, FilesKnown, Known
  <2>3. fate'[k] \in {"disputed", "abandoned"} /\ \A x \in Keys \ {k} : fate'[x] = fate[x]
    BY <1>8, <2>2 DEF WriteRemoved, Abandon
  <2>4. \A e \in Daemons \ {d} : Holding(e) => loc[e].key # k
    BY <2>1 DEF Distinct, Holding
  <2> HIDE DEF k
  <2>5. Room' /\ Sealed' /\ FilesKnown'
    BY <2>1, <2>2, <2>3 DEF Room, Saving, Safe, Sealed, FilesKnown, Known
  <2>6. AtRisk' /\ Distinct'
    BY <2>1, <2>3, <2>4 DEF AtRisk, Distinct, Holding
  <2>7. Held' /\ Handed' /\ AddressKept'
    BY <2>1, <2>2, <2>3 DEF Held, Handed, AddressKept, Known, Kept
  <2>8. ServedUsed' /\ LinkSettled'
    BY <2>1, <2>2, <2>3 DEF ServedUsed, LinkSettled, Settled
  <2>9. KeySettled'
    BY <2>1, <2>2, <2>3 DEF KeySettled, Settled, k
  <2>10. OpensLoaded'
    BY <2>1, <2>2, <2>3 DEF OpensLoaded, Opens, k
  <2> QED
    BY <2>5, <2>6, <2>7, <2>8, <2>9, <2>10
<1>9. ASSUME NEW d \in Daemons, Announce(d) PROVE IInv'
  <2>1. LinkSettled'
    BY <1>9 DEF Announce, LinkSettled, Settled, KeySettled
  <2>2. KeySettled'
    BY <1>9 DEF Announce, KeySettled, Settled
  <2>3. OpensLoaded'
    BY <1>9 DEF Announce, OpensLoaded, Opens
  <2>4. Room' /\ AtRisk' /\ Distinct' /\ Held' /\ Handed'
    BY <1>9 DEF Announce, Room, Saving, Safe, PlaceOf, AtRisk, Holding, Distinct, Held,
       Known, Kept, Handed
  <2>5. Sealed' /\ FilesKnown' /\ ServedUsed' /\ AddressKept'
    BY <1>9 DEF Announce, Sealed, Safe, FilesKnown, Known, ServedUsed, AddressKept, Kept
  <2> QED
    BY <2>1, <2>2, <2>3, <2>4, <2>5
<1>10. ASSUME NEW d \in Daemons, Stop(d) PROVE IInv'
  <2>1. /\ UNCHANGED <<lock, sealing, meta, served, fate>> /\ phase'[d] = "down"
        /\ \A e \in Daemons \ {d} : phase'[e] = phase[e] /\ loc'[e] = loc[e]
        /\ loc'[d] = NoLocals
    BY <1>10 DEF Stop
  <2>2. \A e \in Daemons \ {d} : PlaceOf(e)' = PlaceOf(e)
    BY <2>1 DEF PlaceOf
  <2>3. \/ UNCHANGED files
        \/ /\ ~Safe(PlaceOf(d)) /\ PlaceOf(d) \in Places \ {"cred"}
           /\ files'[PlaceOf(d)] = Torn
           /\ \A p \in Places \ {PlaceOf(d)} : files'[p] = files[p]
    BY <1>10, PlaceType DEF Stop, CutShort, Room, Saving
  <2>4. \A p \in Places : files'[p] # Torn => files'[p] = files[p]
    BY <2>3
  <2>5. \A p \in Places : Safe(p) => files'[p] = files[p]
    BY <2>3
  <2>6. files'["cred"] = files["cred"]
    BY <2>3 DEF Places
  <2>7. Room'
    BY <2>1, <2>2, <2>4, PlaceType DEF Room, Saving, Safe
  <2>8. Sealed' /\ FilesKnown'
    BY <2>1, <2>4, <2>6 DEF Sealed, Safe, FilesKnown, Known, Places
  <2>9. AtRisk' /\ Distinct'
    BY <2>1, <2>2 DEF AtRisk, Distinct, Holding
  <2>10. Held' /\ Handed'
    BY <2>1, <2>2, <2>5, <2>6, PlaceType DEF Held, Handed, Safe, NoLocals, Known, Kept
  <2>11. ServedUsed' /\ KeySettled' /\ LinkSettled'
    BY <2>1 DEF ServedUsed, KeySettled, LinkSettled, Settled
  <2>12. OpensLoaded'
    BY <2>1, <2>5 DEF OpensLoaded, Opens, Safe, Places
  <2>13. AddressKept'
    BY <2>1, <2>5, <2>6 DEF AddressKept, Safe, Kept
  <2> QED
    BY <2>7, <2>8, <2>9, <2>10, <2>11, <2>12, <2>13
<1>11. CASE TorRestarts
  BY <1>11 DEF TorRestarts, Room, Saving, Safe, PlaceOf, Sealed, AtRisk, Holding, Distinct,
     Held, Known, Kept, Handed, FilesKnown, ServedUsed, KeySettled, Settled, LinkSettled,
     OpensLoaded, Opens, AddressKept
<1>12. CASE Choose
  BY <1>12 DEF Choose, Room, Saving, Safe, PlaceOf, Sealed, AtRisk, Holding, Distinct,
     Held, Known, Kept, Handed, FilesKnown, ServedUsed, KeySettled, Settled, LinkSettled,
     OpensLoaded, Opens, AddressKept
<1>13. CASE Seal
  <2>1. /\ UNCHANGED <<lock, meta, phase, loc, served>>
        /\ \A e \in Daemons : PlaceOf(e)' = PlaceOf(e)
        /\ files'["cred"] = files["plain"]
        /\ \A p \in Places \ {"cred"} : files'[p] = files[p]
    BY <1>13 DEF Seal, PlaceOf, Places
  <2>2. \A k \in Keys : fate'[k] = IF Replaced(k) THEN "replaced" ELSE fate[k]
    BY <1>13 DEF Seal
  <2>3. \A k \in Keys : Replaced(k) => k \in Known /\ k = files["cred"] /\ k # files["plain"]
    BY DEF Replaced, FilesKnown, Places
  <2>4. \A k \in Keys : k \in Known' <=> k \in Known
    BY <2>2, <2>3 DEF Known
  <2>5. Room'
    BY <2>1, <2>2, PlaceType DEF Room, Saving, Safe
  <2>6. Sealed' /\ FilesKnown'
    BY <2>1, <2>4 DEF Sealed, FilesKnown, Places
  <2>7. AtRisk' /\ Distinct'
    BY <2>1, <2>2, <2>3 DEF AtRisk, Distinct, Holding, Known
  <2>8. Held' /\ Handed'
    BY <2>1, <2>2, <2>4, PlaceType DEF Held, Handed, Replaced, Kept, Places
  <2>9. ServedUsed' /\ KeySettled' /\ LinkSettled'
    BY <2>1, <2>2 DEF ServedUsed, KeySettled, LinkSettled, Settled
  <2>10. OpensLoaded'
    BY <2>1, <2>2 DEF OpensLoaded, Opens, Places
  <2>11. AddressKept'
    BY <2>1, <2>2 DEF AddressKept, Replaced, Kept, Places
  <2> QED
    BY <2>5, <2>6, <2>7, <2>8, <2>9, <2>10, <2>11
<1>14. CASE Destroy
  <2>1. /\ UNCHANGED <<lock, meta, loc, served, fate>> /\ sealing
        /\ \A e \in Daemons : PlaceOf(e)' = PlaceOf(e)
        /\ \A p \in Places \ {"plain"} : files'[p] = files[p]
        /\ files'["plain"] = files["plain"] \/ files'["plain"] \in {Torn, Absent}
    BY <1>14 DEF Destroy, PlaceOf, Places
  <2>2. \A e \in Daemons :
           \/ phase'[e] = phase[e]
           \/ phase[e] = "write" /\ phase'[e] = "removed" /\ PlaceOf(e) = "plain"
    BY <1>14 DEF Destroy
  <2>3. \A p \in Places : files'[p] \in Keys => files'[p] = files[p]
    BY <2>1
  <2>4. Safe("plain") => files["cred"] = files["plain"]
    BY <2>1 DEF Sealed
  <2>5. Room'
    BY <2>1, <2>2, <2>3, PlaceType DEF Room, Saving, Safe
  <2>6. Sealed' /\ FilesKnown'
    BY <2>1, <2>3, <2>4 DEF Sealed, Safe, FilesKnown, Known, Places
  <2>7. AtRisk' /\ Distinct'
    BY <2>1, <2>2 DEF AtRisk, Distinct, Holding
  <2>8. Held' /\ Handed'
    BY <2>1, <2>2, <2>4, PlaceType DEF Held, Handed, Safe, Known, Kept, Places
  <2>9. ServedUsed' /\ KeySettled' /\ LinkSettled'
    BY <2>1, <2>2 DEF ServedUsed, KeySettled, LinkSettled, Settled
  <2>10. OpensLoaded'
    BY <2>1, <2>2 DEF OpensLoaded, Opens, Places
  <2>11. AddressKept'
    BY <2>1, <2>4 DEF AddressKept, Safe, Kept, Places
  <2> QED
    BY <2>5, <2>6, <2>7, <2>8, <2>9, <2>10, <2>11
<1>15. CASE UNCHANGED vars
  BY <1>15 DEF vars, Room, Saving, Safe, PlaceOf, Sealed, AtRisk, Holding, Distinct,
     Held, Known, Kept, Handed, FilesKnown, ServedUsed, KeySettled, Settled, LinkSettled,
     OpensLoaded, Opens, AddressKept
<1> QED
  BY <1>1, <1>2, <1>3, <1>4, <1>5, <1>6, <1>7, <1>8, <1>9, <1>10, <1>11, <1>12,
     <1>13, <1>14, <1>15 DEF Next

\* In the initial state there is no key anywhere.
LEMMA Initially == Init => IInv
<1> USE KeyAssumption
<1>1. Init => TypeOK
  BY InitialTypes
<1>2. Init => /\ Room /\ Sealed /\ AtRisk /\ Distinct /\ Held /\ Handed /\ FilesKnown
              /\ ServedUsed /\ KeySettled /\ LinkSettled /\ OpensLoaded
  BY DEF Init, Room, Saving, Sealed, AtRisk, Holding, Distinct, Held, Handed, NoLocals,
     FilesKnown, ServedUsed, KeySettled, LinkSettled, OpensLoaded
<1>3. Init => AddressKept
  BY DEF Init, AddressKept
<1> QED
  BY <1>1, <1>2, <1>3 DEF IInv

\* The invariant holds in every state.
LEMMA Invariant == Spec => []IInv
BY Initially, TypeCorrect, Inductive, PTL DEF Spec

\* However processes, stops and the installer interleave, an address loses its
\* key for no other reason than that the key was not saved, was disputed by
\* another process or the installer while it was, or was replaced by a further
\* run of the installer's TPM step.
THEOREM NoOtherKeyIsLost == Spec => []NoOtherKeyLost
<1>1. IInv => NoOtherKeyLost
  BY DEF IInv, TypeOK, Fates, ServedUsed, AddressKept, NoOtherKeyLost
<1> QED
  BY <1>1, Invariant, PTL

\* The address in invite links has a key that was stored or given up, never one
\* that is still to be saved.
THEOREM LinkFollowsKey == Spec => []LinkNotBeforeKey
<1>1. IInv => LinkNotBeforeKey
  BY DEF IInv, LinkSettled, Settled, LinkNotBeforeKey
<1> QED
  BY <1>1, Invariant, PTL

\* The passphrase a daemon runs with opens its key at the next start.
THEOREM KeyOpensAgain == Spec => []OpensAgain
<1>1. IInv => OpensAgain
  BY DEF IInv, OpensLoaded, OpensAgain
<1> QED
  BY <1>1, Invariant, PTL

=============================================================================
