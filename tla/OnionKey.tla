----------------------------- MODULE OnionKey -----------------------------
(***************************************************************************)
(* How the daemon gets the address it is reached at: connectTor,           *)
(* resolveOnionKey and saveOnionKey of cmd/daemon.go, the key files of     *)
(* internal/tor/keyprotect.go, ADD_ONION of internal/tor/control.go and    *)
(* what deploy/install.sh does to the key in TPM mode.                     *)
(*                                                                         *)
(* A daemon process is started by systemd (a service) or from a shell, may *)
(* stop between any two steps, and loses its onion service when its        *)
(* control connection or Tor ends.  A key stands for the address that Tor  *)
(* derives from it.  A key file is written in place, in two steps, and     *)
(* nothing keeps two processes, or a process and the installer, apart.     *)
(***************************************************************************)

CONSTANTS
    Keys,           \* keys that Tor may generate (bound)
    Passphrases,    \* what somebody may type at the prompt (bound)
    Daemons,        \* processes, one per way to start the daemon (bound)
    Services,       \* those that systemd starts
    Installer       \* the one that the installer starts, from its shell

Absent == "absent"      \* no such file, or CREDENTIALS_DIRECTORY not set
Empty == "empty"        \* opened for writing and not written
Torn == "torn"          \* written in part
NoKey == "no key"
NoPassphrase == "no passphrase"

ASSUME KeyAssumption == Keys \cap {Absent, Empty, Torn, NoKey} = {}
ASSUME DaemonAssumption == Services \subseteq Daemons /\ Installer \in Daemons \ Services

Modes == {"plaintext", "passphrase", "tpm"}
Places == {"plain", "enc", "cred"}  \* onion.key, onion.key.enc, onion-key.cred
Contents == Keys \cup {Absent, Empty, Torn}
Fates == {"unused", "created", "stored", "abandoned", "disputed", "replaced"}

VARIABLES
    mode,       \* key_protection of the configuration file
    files,      \* the content of each place, decrypted
    lock,       \* the passphrase that onion.key.enc is encrypted with
    sealing,    \* the installer has encrypted onion.key and is to destroy it
    meta,       \* server_meta["onion_address"], which goes into invite links
    phase,      \* where each process is
    loc,        \* its local variables
    onion,      \* what Tor serves on its control connection
    served,     \* history: the addresses of the processes that use a place
    fate        \* history: what has become of each key

vars == <<mode, files, lock, sealing, meta, phase, loc, onion, served, fate>>

NoLocals == [protection |-> "plaintext", passphrase |-> NoPassphrase,
             credential |-> Absent, key |-> NoKey]

Init ==
    /\ mode \in Modes
    /\ files = [p \in Places |-> Absent]
    /\ lock = NoPassphrase
    /\ sealing = FALSE
    /\ meta = NoKey
    /\ phase = [d \in Daemons |-> "down"]
    /\ loc = [d \in Daemons |-> NoLocals]
    /\ onion = [d \in Daemons |-> NoKey]
    /\ served = [p \in Places |-> {}]
    /\ fate = [k \in Keys |-> "unused"]

-----------------------------------------------------------------------------

\* DecryptKey succeeds: the file is whole and the passphrase is the right one.
Opens(p) == files["enc"] \in Keys /\ lock = p

\* systemd decrypts the credential for a service that has one, as it starts.
Credential(d) == IF d \in Services /\ mode = "tpm" THEN files["cred"] ELSE Absent

\* acquirePassphrase: whatever is typed, but not nothing.
Prompt == IF mode = "passphrase" THEN Passphrases ELSE {NoPassphrase}

\* The process reads the configuration and the passphrase.  Where the start
\* fails (no credential for systemd to load, or a key file that the passphrase
\* does not open) nothing has changed.
Start(d) ==
    /\ phase[d] = "down"
    /\ d = Installer => ~sealing
    /\ d \in Services /\ mode = "tpm" => files["cred"] # Absent
    /\ \E p \in Prompt :
          /\ mode = "passphrase" /\ files["enc"] # Absent => Opens(p)
          /\ loc' = [loc EXCEPT ![d] =
                [protection |-> mode, passphrase |-> p,
                 credential |-> Credential(d), key |-> NoKey]]
    /\ phase' = [phase EXCEPT ![d] = "connect"]
    /\ UNCHANGED <<mode, files, lock, sealing, meta, onion, served, fate>>

\* The control port refuses, or ADD_ONION fails: the daemon runs on without
\* a hidden service.
TorUnavailable(d) ==
    /\ phase[d] \in {"connect", "register"}
    /\ phase' = [phase EXCEPT ![d] = "up"]
    /\ UNCHANGED <<mode, files, lock, sealing, meta, loc, onion, served, fate>>

\* The place that the process reads its key from, and saves a new one to.
PlaceOf(d) ==
    IF loc[d].protection = "passphrase" THEN "enc"
    ELSE IF loc[d].protection = "tpm" /\ loc[d].credential # Absent THEN "cred"
    ELSE "plain"

Content(d) == IF PlaceOf(d) = "cred" THEN loc[d].credential ELSE files[PlaceOf(d)]

\* Mistaken variant of Resolve: a blank file is taken for a key.
BugResolve(d) ==
    /\ phase[d] = "connect"
    /\ phase' = [phase EXCEPT ![d] = "register"]
    /\ loc' = [loc EXCEPT ![d].key = IF Content(d) = Absent THEN NoKey ELSE Content(d)]
    /\ UNCHANGED <<mode, files, lock, sealing, meta, onion, served, fate>>

\* resolveOnionKey: a file that is absent, or blank, asks Tor for a new key.  A
\* file that does not open was whole at the start: another process is writing it.
Resolve(d) ==
    /\ phase[d] = "connect"
    /\ IF PlaceOf(d) = "enc" /\ files["enc"] # Absent /\ ~Opens(loc[d].passphrase)
       THEN phase' = [phase EXCEPT ![d] = "up"] /\ UNCHANGED loc
       ELSE /\ phase' = [phase EXCEPT ![d] = "register"]
            /\ loc' = [loc EXCEPT ![d].key =
                  IF Content(d) \in {Absent, Empty} THEN NoKey ELSE Content(d)]
    /\ UNCHANGED <<mode, files, lock, sealing, meta, onion, served, fate>>

\* ADD_ONION publishes key k on the control connection of the process.
Publish(d, k) ==
    /\ loc' = [loc EXCEPT ![d].key = k]
    /\ onion' = [onion EXCEPT ![d] = k]
    /\ served' = [served EXCEPT ![PlaceOf(d)] = @ \cup {k}]

\* ADD_ONION NEW: Tor generates a key, which is to be saved.
RegisterNew(d) ==
    /\ phase[d] = "register" /\ loc[d].key = NoKey
    /\ \E k \in Keys :
          /\ fate[k] = "unused"
          /\ fate' = [fate EXCEPT ![k] = "created"]
          /\ Publish(d, k)
    /\ phase' = [phase EXCEPT ![d] = "save"]
    /\ UNCHANGED <<mode, files, lock, sealing, meta>>

\* ADD_ONION with a key.  Tor refuses a torn one, and one it serves already.
RegisterOld(d) ==
    /\ phase[d] = "register" /\ loc[d].key # NoKey
    /\ IF loc[d].key \in Keys /\ \A e \in Daemons : onion[e] # loc[d].key
       THEN Publish(d, loc[d].key) /\ phase' = [phase EXCEPT ![d] = "announce"]
       ELSE phase' = [phase EXCEPT ![d] = "up"] /\ UNCHANGED <<loc, onion, served>>
    /\ UNCHANGED <<mode, files, lock, sealing, meta, fate>>

\* The daemon goes on although the new key is not saved.
Abandon(d) ==
    /\ fate' = [fate EXCEPT ![loc[d].key] = "abandoned"]
    /\ phase' = [phase EXCEPT ![d] = "announce"]

\* saveOnionKey saves nothing next to a credential.  Otherwise the file is
\* opened, which empties it, or cannot be opened.
Save(d) ==
    /\ phase[d] = "save"
    /\ \/ /\ PlaceOf(d) # "cred"
          /\ files' = [files EXCEPT ![PlaceOf(d)] = Empty]
          /\ phase' = [phase EXCEPT ![d] = "write"]
          /\ UNCHANGED fate
       \/ Abandon(d) /\ UNCHANGED files
    /\ UNCHANGED <<mode, lock, sealing, meta, loc, onion, served>>

\* The process has found no key, and is to save a new one.
Saving(d) ==
    \/ phase[d] = "register" /\ loc[d].key = NoKey
    \/ phase[d] \in {"save", "write"}

\* Nobody else is to save to the same file, or about to destroy it.
Undisputed(d) ==
    /\ \A e \in Daemons \ {d} : Saving(e) => PlaceOf(e) # PlaceOf(d)
    /\ PlaceOf(d) = "plain" => ~sealing

\* The new key of the process is written.
Stored(d) ==
    /\ fate' = [fate EXCEPT ![loc[d].key] = IF Undisputed(d) THEN "stored" ELSE "disputed"]
    /\ phase' = [phase EXCEPT ![d] = "announce"]

\* What becomes of the file when its writing is cut short.
CutShort(d) == {files, [files EXCEPT ![PlaceOf(d)] = Torn]}

\* Mistaken variant of Write: the passphrase is zeroed before the key is sealed.
BugWrite(d) ==
    /\ phase[d] = "write"
    /\ files' = [files EXCEPT ![PlaceOf(d)] = loc[d].key]
    /\ lock' = IF PlaceOf(d) = "enc" THEN NoPassphrase ELSE lock
    /\ Stored(d)
    /\ UNCHANGED <<mode, sealing, meta, loc, onion, served>>

\* os.WriteFile writes the key into the file it has emptied, or fails on the way.
Write(d) ==
    /\ phase[d] = "write"
    /\ \/ /\ files' = [files EXCEPT ![PlaceOf(d)] = loc[d].key]
          /\ lock' = IF PlaceOf(d) = "enc" THEN loc[d].passphrase ELSE lock
          /\ Stored(d)
       \/ /\ files' \in CutShort(d)
          /\ Abandon(d)
          /\ UNCHANGED lock
    /\ UNCHANGED <<mode, sealing, meta, loc, onion, served>>

\* The file was removed while it was open: the key is written, and is nowhere.
WriteRemoved(d) ==
    /\ phase[d] = "removed"
    /\ \/ Abandon(d)
       \/ /\ fate' = [fate EXCEPT ![loc[d].key] = "disputed"]
          /\ phase' = [phase EXCEPT ![d] = "announce"]
    /\ UNCHANGED <<mode, files, lock, sealing, meta, loc, onion, served>>

\* Mistaken variant of Announce: the address is noted as soon as Tor serves it.
BugAnnounce(d) ==
    /\ phase[d] \in {"save", "announce"}
    /\ meta' \in {loc[d].key, meta}
    /\ phase' = [phase EXCEPT ![d] = IF @ = "save" THEN "save" ELSE "up"]
    /\ UNCHANGED <<mode, files, lock, sealing, loc, onion, served, fate>>

\* SetMeta notes the address for invite links; its error is ignored.
Announce(d) ==
    /\ phase[d] = "announce"
    /\ meta' \in {loc[d].key, meta}
    /\ phase' = [phase EXCEPT ![d] = "up"]
    /\ UNCHANGED <<mode, files, lock, sealing, loc, onion, served, fate>>

\* The process ends: the control connection closes and takes the onion service
\* with it.  There is no signal handler until it is up, so a stop may cut a
\* write short, as a power failure does.
Stop(d) ==
    /\ phase[d] # "down"
    /\ files' \in IF phase[d] = "write" THEN CutShort(d) ELSE {files}
    /\ phase' = [phase EXCEPT ![d] = "down"]
    /\ loc' = [loc EXCEPT ![d] = NoLocals]
    /\ onion' = [onion EXCEPT ![d] = NoKey]
    /\ UNCHANGED <<mode, lock, sealing, meta, served, fate>>

\* Tor restarts and forgets its onion services; no daemon connects again.
TorRestarts ==
    /\ onion' = [d \in Daemons |-> NoKey]
    /\ UNCHANGED <<mode, files, lock, sealing, meta, phase, loc, served, fate>>

\* The administrator chooses another key_protection, in the installer or the file.
Choose ==
    /\ mode' \in Modes \ {mode}
    /\ UNCHANGED <<files, lock, sealing, meta, phase, loc, onion, served, fate>>

\* Mistaken variant of Seal: onion.key is to be destroyed though the encryption
\* has failed.
BugSeal ==
    /\ mode = "tpm" /\ files["plain"] # Absent
    /\ phase[Installer] = "down" /\ ~sealing
    /\ sealing' = TRUE
    /\ UNCHANGED <<mode, files, lock, meta, phase, loc, onion, served, fate>>

\* The credential holds another key than onion.key, and is replaced.
Replaced(k) == files["cred"] = k /\ files["plain"] # k

\* The installer's TPM step, when the daemon it started has stopped; others may
\* run.  onion.key, whatever is in it, is encrypted over the old credential.
Seal ==
    /\ mode = "tpm" /\ files["plain"] # Absent
    /\ phase[Installer] = "down" /\ ~sealing
    /\ files' = [files EXCEPT !["cred"] = files["plain"]]
    /\ sealing' = TRUE
    /\ fate' = [k \in Keys |-> IF Replaced(k) THEN "replaced" ELSE fate[k]]
    /\ UNCHANGED <<mode, lock, meta, phase, loc, onion, served>>

\* shred overwrites onion.key, whatever is in it by then, and removes it, from
\* under a process that is writing it too; or the installer is interrupted.
Destroy ==
    /\ sealing
    /\ \/ files' = [files EXCEPT !["plain"] = Torn] /\ UNCHANGED <<sealing, phase>>
       \/ /\ files' = [files EXCEPT !["plain"] = Absent]
          /\ phase' = [d \in Daemons |-> IF phase[d] = "write" /\ PlaceOf(d) = "plain"
                                         THEN "removed" ELSE phase[d]]
          /\ sealing' = FALSE
       \/ sealing' = FALSE /\ UNCHANGED <<files, phase>>
    /\ UNCHANGED <<mode, lock, meta, loc, onion, served, fate>>

Next ==
    \/ \E d \in Daemons : \/ Start(d) \/ TorUnavailable(d) \/ Resolve(d)
                          \/ RegisterNew(d) \/ RegisterOld(d)
                          \/ Save(d) \/ Write(d) \/ WriteRemoved(d)
                          \/ Announce(d) \/ Stop(d)
    \/ TorRestarts \/ Choose \/ Seal \/ Destroy

Spec == Init /\ [][Next]_vars

-----------------------------------------------------------------------------

Locals == [protection : Modes, passphrase : Passphrases \cup {NoPassphrase},
           credential : Contents, key : Keys \cup {NoKey, Torn}]

\* Every variable keeps its type; a process that saves a key has one.
TypeOK ==
    /\ mode \in Modes
    /\ files \in [Places -> Contents]
    /\ lock \in Passphrases \cup {NoPassphrase}
    /\ sealing \in BOOLEAN
    /\ meta \in Keys \cup {NoKey}
    /\ phase \in [Daemons -> {"down", "connect", "register", "save", "write", "removed",
                              "announce", "up"}]
    /\ loc \in [Daemons -> Locals]
    /\ onion \in [Daemons -> Keys \cup {NoKey}]
    /\ served \in [Places -> SUBSET Keys]
    /\ fate \in [Keys -> Fates]
    /\ \A d \in Daemons :
          phase[d] \in {"save", "write", "removed", "announce"} => loc[d].key \in Keys

\* Where a key that was saved to a place may be now: the installer moves what
\* is in onion.key into the credential.
Kept(p) == {files[p], IF p = "plain" THEN files["cred"] ELSE files[p]}

\* An address that a daemon was ever reached at keeps its key, unless
\*   - the key was not saved: not yet ("created"), by a stop in between, or
\*     because saving it failed ("abandoned");
\*   - another process that had found no key either was to save its own to the
\*     same file, or the installer to destroy that file ("disputed"); or
\*   - the installer's TPM step ran again and sealed another key over it: its
\*     daemon has no credentials, makes a new onion.key, and that replaces the
\*     credential ("replaced").
\* Crashes, torn files, wrong passphrases, an unavailable Tor, changes of
\* key_protection, the first TPM step and restarts in any order lose no other.
NoOtherKeyLost ==
    \A p \in Places : \A k \in served[p] :
        \/ k \in Kept(p)
        \/ fate[k] \in {"created", "abandoned", "disputed", "replaced"}

\* An invite link never carries an address whose key is still to be saved: the
\* link and the key cannot be torn apart by a stop between the two.  (It may
\* carry one whose saving has failed, or that was replaced.)
LinkNotBeforeKey == meta \in Keys => fate[meta] # "created"

\* The passphrase that a running daemon was started with opens, at the next
\* start, the very key it has stored undisputed, or loaded.
OpensAgain ==
    \A d \in Daemons :
        /\ phase[d] \in {"announce", "up"} /\ loc[d].protection = "passphrase"
        /\ loc[d].key \in Keys /\ fate[loc[d].key] = "stored"
        => files["enc"] = loc[d].key /\ Opens(loc[d].passphrase)

=============================================================================
