# Fialka Mailbox: formal model

TLA+ modules, TLC configurations and TLAPS proofs about the mailbox daemon of this
repository: a relay behind a Tor hidden service that stores encrypted blobs for a
closed group of members. Every definition is translated from the Go source;
`PROJECT.json` gives, for each one, the lines it stands for. Line references below
are relative to the repository's root.

- [1. The system](#1-the-system)
- [2. Modules and how they correspond to the code](#2-modules-and-how-they-correspond-to-the-code)
- [3. Properties](#3-properties)
- [4. Runs, bounds and fairness](#4-runs-bounds-and-fairness)
- [5. Where the code and its comments disagree](#5-where-the-code-and-its-comments-disagree)
- [6. Proofs](#6-proofs)
- [7. Not modelled](#7-not-modelled)
- [8. Plan](#8-plan)

## 1. The system

| Part | State it keeps | Operations | Interacts with |
|---|---|---|---|
| Store (`internal/storage`) | SQLite tables `members`, `invites`, `messages`, `server_meta` | one method per SQL statement; `ConsumeInvite` is a transaction, `RemoveMember` makes two calls | everybody; one connection in the pool (`sqlite.go:64`) |
| TCP server (`internal/transport/server.go`) | one goroutine per connection, its local variables | PING, JOIN, DEPOSIT, FETCH, LEAVE, INVITE_REQUEST, REVOKE_MEMBER, LIST_MEMBERS | the store; the request guard; clients |
| Request guard (`internal/transport/frame.go`) | nonce cache in memory | timestamp window, nonce look-up with pruning, Ed25519 signature | the clock; the server |
| Shell commands (`cmd/mailbox.go`) | a listing on the screen | `init`, `invite`, `members`, `invites` | the store, from another process |
| Dashboard (`cmd/tui.go`) | log channel, statistics, screen | the same commands, status, quit | the store, in the daemon |
| Daemon (`cmd/daemon.go`) | expiry ticker, signal handler, passphrase | `start`, stop | all of the above, Tor |
| Onion key (`cmd/daemon.go`, `internal/tor`) | `onion.key`, `onion.key.enc`, a systemd credential | load, create, protect, persist | the Tor control port; `deploy/install.sh` |
| Configuration (`internal/config`) | a TOML file | `Load`, `Write` | setup, daemon, commands |
| Setup, uninstall, installer | files, systemd units | one-shot scripts | the operating system |

What is hard about it. There are no tests in the repository. Handlers run
concurrently and make several store calls each; nothing holds a lock or a transaction
across them, except `ConsumeInvite`. Errors of store calls are ignored in many places
and then read as an answer ("not a member", "no owner", "mailbox empty"). Responses may
be lost after the tables have changed, clients then ask again. The daemon may stop
between any two calls. The administrator changes the same tables from other processes.
Clocks of clients differ from the server's, and the nonce cache forgets. `PROJECT.json`
lists these hazards one by one under `hazards`, each at its line with the properties
that would catch it.

What makes the parts correct:

- membership: the owner can never be lost; nothing is granted before there is one; an
  invite admits no more members than its limit and loses none of its uses;
- mail: a live message leaves the table only when its recipient takes it or leaves;
  what was taken arrives; nothing is delivered more often than the failures explain;
  the limit of a mailbox is overshot by a bounded number;
- progress: every connection ends, expired mail is swept;
- guard: a signed request runs once;
- codec and connections: what a handler is given is a frame the client sent; a whole
  request is served, an incomplete one ends;
- daemon: whoever asks it to stop is obeyed, and the service comes up again by itself;
- dashboard: log lines appear once, in order and without gaps but for what met a full
  channel, and the counts on the screen become right;
- removal: what the operator keeps is still there afterwards;
- onion key: the address that members were invited to stays reachable: a key is lost in
  no other way than three that are named, and no link runs ahead of its key.

## 2. Modules and how they correspond to the code

`MailboxStore` is extended by `MailboxServer` and `MailboxAdmin`, which `Mailbox`
composes with the expiry ticker and the clock. `MCMailbox` only adds initial databases
and symmetries for TLC. Its theorems are in `MailboxProofs` (types and the owner),
`MembershipProofs` (invites, and that `Mailbox` implements `MemberLedger`) and
`MailProofs` (mail, and that it implements `MailDrop`), each of which extends the one
before. `ReplayGuard`,
`MCReplayGuard` and `ReplayGuardProofs` stand apart: authentication comes before the
first store call and shares no state with it. So do `OnionKey`, `MCOnionKey` and
`OnionKeyProofs`: the start of the daemon is over when the server accepts its first
connection, and shares one entry of `server_meta` with the commands, which read it.
`Dashboard` and `FrameCodec` are extended by `Daemon`, the process around the handlers;
`MCDaemon` gives its values, `FrameCodecProofs` holds the theorems about the wire format
and `DaemonProofs`, which extends it, those about the process and its dashboard.
`MemberLedger` and `MailDrop` are abstract specifications that `Mailbox` is shown to
implement. `Uninstall` and `UninstallProofs` stand alone.

**`MailboxStore`**: `members` maps each client to its role or `"none"`, `invites` each
token to a row or `NoInvite`, `messages` is a set of rows. A public key, its hash and
its base64 form are all the client itself; tokens and ids are model values, of which
each is handed out once (`FreshTokens`, `FreshIds`: 32 random bytes and UUIDs do not
repeat). Operators have the names of the store's methods, and `RemoveMember` is the two
steps it makes (`Removable`, then `DeleteMember`). The clock reading of a method is the
clock of its step. `Mishap` counts what goes wrong, each kind up to a bound: a failed
store call (`StoreError`, which changes no row), a response that is not delivered, a
stop of the daemon. `admitted`, `delivered`, `removedBy` and `missed` (the Deletes of a
message that failed under a FETCH) are history: no step reads them, except that
`FreshIds` uses `removedBy` to know which ids have been used.

**`MailboxServer`**: a worker is one connection. `Accept` takes a request and jumps to
the first store call of its handler; each later action is one store call with what the
code does up to the next one, its error branch included; `Reply` writes the response and
closes. `loc` holds the local variables that survive a call: `hasOwner` and `role` of
JOIN, the time of the last check (`since`) for calls that read the clock later, the rows
a FETCH carries (`batch`) and those a FETCH or LEAVE has yet to delete (`todo`).
Blobs over the size limit, malformed payloads and unknown commands end a request before
it changes anything; the size limit is the branch of `DepRecipient` that answers an
error. `ServerStop` is a stop of the process. A shutdown waits for no handler
(`daemon.go:221`): its deferred calls close the store (`daemon.go:153`) while handlers
run on, and each of them is cut off anywhere or gets as far as its response first, with
every further call failing. `ClosedAnswer` is what it then has to say. For a FETCH among
its Deletes that is the whole batch (`server.go:338` ignores the errors; `Unmade` counts
them into `missed`), for any other handler an error. Its response is written, or not,
by a later `Reply`, which may come after the daemon is back: the client sees no
difference.

**`MailboxAdmin`**: a session runs one command; `kicking`, `revoking` and `inviting`
are what it has picked from a listing or typed into the form. The shell command and its
dashboard twin make the same store calls. A session may be abandoned at every step
(`AdminQuit`), which is also what an error that ends the command looks like.

**`Mailbox`**: `Next` interleaves connections, sessions, the sweep of `runExpiry`, the
clock and stops of the daemon. The properties are stated here.

**`MemberLedger`** and **`MailDrop`** say what the mailbox promises, without handlers,
sessions, tables or failures of calls. In the ledger an invitation is offered, taken,
and becomes a member or is lost, each in one step, a plain member's place is never
offered or granted before there is an owner, and whoever departs leaves an owner behind.
In the mail drop a message is in the box of its recipient, on its way to it, or
somewhere it never comes back from; or it is stuck, which is the state of a message that
was delivered although it could not be deleted, and that may arrive again. The refinement mappings are in `Mailbox`: `Offered`
is what a token's row still allows, `Ticket` what a connection that has consumed a use is
about to grant, `Whereabouts` combines the table, the rows a FETCH carries and the
history of deliveries and failed Deletes. A FETCH that reads its rows and deletes them one by one is a
single departure of all of them in `MailDrop`, a stop of the daemon in the middle is a
`Founder`.

**`ReplayGuard`**: clients sign requests with their own time; copies of a signed request
arrive at any time and any number of times. `CheckTime` is the window check with its
first clock reading, computed in wrapping integers as in Go, `CheckNonce` is
`checkAndStoreNonce` under its mutex with the second. `executed` counts, since the
start of the daemon, how often a request passed.

**`OnionKey`**: processes started by systemd (`Services`) or from a shell go through the
steps of `runStart` and `connectTor`: `Start` (configuration, passphrase, the early
check that it opens the key file), `Resolve` (`resolveOnionKey`), `RegisterNew` or
`RegisterOld` (`ADD_ONION`), `Save` and `Write` (`saveOnionKey`: `os.WriteFile` empties
the file and then writes it), `Announce` (`SetMeta`). `files` is the content of the three
key places as the daemon would read it: absent, empty, torn or a key. A key stands for
its address. Between any two steps a process may stop, Tor may forget its services, the
administrator may choose another protection and the installer may run its TPM step:
`Seal` encrypts `onion.key` over the credential, `Destroy` shreds and removes it, or the
installer is interrupted. The TPM step waits for the daemon that the installer started
(`Installer`, `install.sh:679`) and for no other; whoever is writing the file then writes
into one that is gone (`WriteRemoved`). Nothing keeps two starts apart either. `served`
and `fate` are history: which addresses were reached at which place, and what became of
each key. A key is *abandoned* by a daemon that goes on without having saved it
(`Abandon`), *disputed* if it is written while another process that found no key is to
write its own to the same file, or the installer to destroy that file (`Undisputed`),
and *replaced* if a TPM step seals the content of another `onion.key` over it.

**`FrameCodec`**: the header and its reading, at their real widths, and what `ReadFrame`
waits for and returns when some bytes have arrived (`Awaited`, `FrameRead`); the sizes
and counts of FETCH_RESP and MEMBER_LIST.

**`Dashboard`**: `logCh` is the channel of `tuiLogWriter`, `waits` and `held` the
goroutines of `tuiWaitForLog` before and after they have a line, `logLines` and `view`
the lines of the model and of the viewport, `chains` the chains of `tuiFetchStats` and
`tuiScheduleStats`. Each message that `Update` handles is an action. Lines are numbered
in the order they are written; what a command prints is one entry, and one number stands
for the three counts.

**`Daemon`**: `proc` is the process, `watcher` the signal goroutine, `serve` and
`listener` belong to `ListenAndServe`, `conns` to `handleConn`. `Exit` ends every
goroutine at once, as a return from `main` does. Around the process are systemd
(`Restart`, with the policy and the clean signals of the unit), other programs on the
port, clients whose bytes arrive in pieces, and the operator. A connection's request is
a sequence of bytes, and `ReadFrame` is the codec's. What a handler does between
`Handle` and `WriteAnswer` is `MailboxServer`.

**`Uninstall`**: what is installed, whether the service runs, and the two lists of the
summary; one action per question of the guided removal, with its refusal, its failure
and what it takes away. `Install` and `Setup` stand for the installer and the wizard.

## 3. Properties

Each is stated in words beside its definition. The ones that carry the weight:

- `OwnerStays`: once there is an owner there always is one. `RemoveMember` looks a role
  up in one call and deletes in the next, LEAVE, REVOKE_MEMBER and kicks interleave with
  JOINs that create owners; nothing could repair the loss.
- `OwnerOutOfReach`: why that holds, as an inductive invariant.
- `NothingBeforeOwner`, `BootstrapCodeIsOwner`: before the first owner only bootstrap
  invites exist, and a JOIN that decides on a stale "no owner" still holds one.
- `AdmittedWithinUses`, `NoUseLost`: the two halves of an exact account of the uses of
  an invite, across races, failures and stops.
- `QuotaOvershoot`, `DeliveredIsGone`, `DeliveriesBounded`, `DeliveredOnce`: how far
  failures and races can carry the system from what it promises, as a function of how
  many there were. Deliveries are counted for each message against the Deletes of that
  very message that failed, whether a call failed or a shutdown had closed the store.
- `NoSilentLoss`, `FetchedMailArrives`: mail is not lost on the way.
- `ConnectionsEnd`, `ExpiredMailSwept`: liveness.
- `ImplementsLedger`, `ImplementsMailDrop`: the two refinements. The first rules out what
  no single invariant says, such as a member whose role is not the one its token offered,
  or a role that changes; the second that a message arrives at anybody else, or comes
  back after it has left its box.
- `FrameIntact`, `WholeFrameServed`, `ConnectionCloses`: requests that arrive in pieces.
  The first is safety against short reads; the other two pull in opposite directions, a
  deadline that ends too much breaks one and a deadline that ends too little the other.
- `StopsOnSignal`: a signal is obeyed whenever it comes. With a terminal there is a
  window, after `signal.Notify` and before the dashboard installs its own handler, in
  which it stops the server and not the dashboard; the property admits that case by name.
- `ServiceComesUp`: whatever failed, under systemd the daemon serves again when the port
  is free. It needs the error of `ListenAndServe` to end the process (`daemon.go:221`),
  which it does not with a terminal.
- `LinesInOrder`, `NoGap`, `ViewFollowsLines`, `LinesShown`: a log line passes a writer, a
  channel, a goroutine and the loop. That there is exactly one goroutine waiting is what
  keeps lines in order and coming.
- `ScreenCatchesUp`: chains of reads overlap and an old result may be shown after a new
  one; when the store rests the screen becomes right and stays so.
- `AtMostOnce`, `ForgottenIsOutdated`: the guard.
- `NoOtherKeyLost`: an address that was served keeps its key, in its place or in the
  credential the installer made of it, but for keys that were not saved, disputed or
  replaced. Those three are losses the code permits, and section 5 lists them; the
  property says that fall-backs, torn files, changes of the protection, restarts and the
  first TPM step add no fourth, and that an overlap of two starts costs no key but those
  saved during it. Each fall-back of `resolveOnionKey` asks for a new key and could.
- `LinkNotBeforeKey`: a stop cannot leave an invite link for an address whose key is gone.
- `OpensAgain`: no start can put a key under a passphrase nobody typed, nor, if nobody
  else was saving, under somebody else's.

For every property of a passing run `PROJECT.json` names a mistaken variant of one
definition (`Bug...` in the modules) under which TLC finds the property violated.

## 4. Runs, bounds and fairness

| Run | Instance | Shows |
|---|---|---|
| `MailboxMembership` | new database, 2 clients, 2 tokens, 2 connections, 1 session, use limits 1 and 2, 1 failed call | the membership properties and `ImplementsLedger` |
| `MailboxRetry` | owner and one other client, 1 token that may expire, 2 messages, 2 connections, 1 stop that may close the store under handlers | `NoUseLost`, `JoinIdempotent`, `DeliveredOnce` for clients that ask again, and `ImplementsMailDrop` |
| `MailboxMail` | 1 mailbox for 1 message, 3 connections, 3 messages, 1 failed call | the limit and the deliveries under concurrency |
| `MailboxProgress` | 2 members, 1 message, 2 connections, 1 failed call, 1 lost response, the clock, under `FairSpec` | liveness, `NoSilentLoss` |
| `MailboxTwoOwners` | 2 clients, 2 tokens, 1 session | counterexample to `SingleOwner` |
| `MailboxLeavePurges` | 2 members, 2 messages | counterexample to `LeavePurges` |
| `MailboxLostResponse` | 1 message, 1 lost response | counterexample to `FetchedMailArrives` |
| `ReplayGuardInStep` | 2 requests, 2 connections, window 2, buffer 2, clock to 8, 1 restart | the guard when clocks and handlers are in step |
| `ReplayGuardFastClock` | buffer 1, a clock ahead by 2 | counterexample to `AtMostOnce` |
| `OnionKeyAddress` | 2 keys, 2 passphrases, the service and the installer's daemon, which may overlap | the address properties |
| `DaemonServes` | 5 streams of bytes that pause in 3 places, 2 connections, 1 crash or failed start, 2 changes of the port; a channel of 1, a screen of 2 and 3 log lines, 1 command, 1 change and 1 failed read of the store | the properties of codec, daemon and dashboard, under `FairSpec` |
| `UninstallKeeps` | the installer, the wizard, and removals without a bound | counterexample to `DataKept` |

Why the bounds are enough. The races are between two or three handlers: two connections
and one session let every pair of handlers interleave at every call, and a session acts
between the two calls of a `RemoveMember` or of a JOIN. Two clients are enough for an
owner and a member who changes role by leaving and joining; two tokens for a bootstrap
invite and another one. In `MailboxMail` a third connection makes the overshoot of the
limit larger than one. One failure of each kind at any call covers every error branch,
and the properties that depend on the number of failures name it. Lifetimes of one
clock unit and a clock up to 2 put every comparison on each side of its boundary and on
it. The guard's clock runs to twice window plus buffer, so a nonce is stored, dropped
and could be stored again.

In `OnionKeyAddress` stops, failures, changes of the protection and TPM steps are not
bounded at all, only the keys Tor hands out: two let a key be stored and sealed, and
another one be made beside it, written over it in a race, or sealed over it. Two
passphrases are a right and a wrong one. A service and the installer's daemon differ in
their credentials and use the same file when the protection is plaintext or a passphrase,
or was when the service started. The theorems have no bound.

In `MailboxRetry` a stop stands for every lost answer: it may come before the response
is written. It also stands for failing Deletes, because it may close the store between
any two of them and let the response go out: a message is then delivered, kept, and
delivered again to the client that asks again. Two messages make a FETCH that is stopped
between its Deletes, with one deleted and one stuck. A Delete that fails by itself is in
`MailboxMail`; that the mail drop is implemented then too is `MailboxIsMailDrop`. Clients
are on one connection at a time, because two FETCHes of one client deliver one message
twice (`MailboxMail`).

`DaemonServes` has bytes pause inside the header, right after it and inside the payload,
and a stream that ends, goes on into the next request, has a wrong magic number or a
length that is too large. A channel of one slot is full after one line and a screen of
two is trimmed by the third. `Scenes` in `MCDaemon` bounds what happens around one
process: clients come and signals; crashes, failed starts, a taken port and signals; log
lines and commands; or changes of the store and commands. The actions do not depend on
the scene, and an instance whose scenes have everything is the whole model, which is
out of TLC's reach as a product of parts that share nothing but the process. The process
may end for good, so the deadlock check is off here.

Symmetry: connections, sessions, tokens, ids, keys and passphrases are interchangeable; clients only in a
new database. It is switched off where liveness is checked. No other run
switches the deadlock check off: a connection can always be opened.

Fairness in `Daemon`: weak fairness of the goroutine of main, of the signal goroutine, of
the listener's, of each connection's (which has the deadline: `SetDeadline` makes a read
return), of each chain of statistics (a timer), of the log goroutines and the event
loop, and of systemd's restart, whose interval keeps it below the start limit. A
goroutine that can run does so long before a deadline of 60 seconds. Nothing is assumed
of clients, which may stall for ever, of the operator or of the port. `ScreenCatchesUp`
rests on the bound of the changes: it speaks of a store that has come to rest.

Fairness (`Fairness` in `Mailbox`): weak fairness of each handler, because the Go
scheduler runs a runnable goroutine in the end and a store call returns; weak fairness
of the sweep, because the ticker keeps firing. Nothing is assumed of clients,
administrators, the clock or failures. `ExpiredMailSwept` therefore speaks of messages
that have expired, not of time passing.

## 5. Where the code and its comments disagree

Each is a run with a counterexample, and an entry under `findings`:

1. `store.go:16` says there is exactly one owner. An `init` between `ConsumeInvite` and
   `AddMember` of the bootstrap JOIN creates a second bootstrap invite, and an owner
   invite makes an owner even if there is one (`server.go:161`).
2. `server.go:349` says pending blobs are purged on leave. A DEPOSIT that has checked
   its recipient inserts its message after the purge.
3. `sqlite.go:125` says messages are deleted after confirmed delivery. FETCH deletes
   them while it builds the response (`server.go:338`).
4. `frame.go:148` says the nonce check prevents replayed requests. The nonce is kept
   for window plus 60 seconds from its arrival, the request is valid until its own time
   plus window: a client clock more than 60 seconds ahead opens a gap.

5. `uninstall.go:29` says every deletion is confirmed individually, and a refusal is
   answered with "Données conservées." (`uninstall.go:231`). `userdel -r` of the user
   fialka (`uninstall.go:278`) then deletes the data directory, which `install.sh:357`
   made its home; and while the service still runs it deletes nothing and is reported as
   done.

Also, without a run of their own:

- The server's logger is copied (`daemon.go:189`) before the dashboard redirects the
  global one (`daemon.go:196`): what handlers and listener log goes to stderr, over the
  screen, although `tui.go:33` and `daemon.go:193` say otherwise. `Dashboard` has the
  lines of `runExpiry` and of the signal goroutine, which go the right way.
- In the user's layout, and in TPM mode, removing the configuration
  (`uninstall.go:195`) removes the onion key too, with one confirmation and no warning.
- `config.Write` leaves out `key_protection`, `cred_name`, `data_dir` and `tor_binary`
  (`config.go:128`), so a wizard that is run again turns a protected key into a plaintext
  configuration that does not find it; that is a change of the protection in `OnionKey`.
  The wizard's data directory moves the database only, the key stays in
  `~/.config/fialka-mailbox/tor` (`setup.go:161`, `daemon.go:247`).
- `members.go:81` says that `RemoveMember` refuses the owner. It refuses what its look-up
  saw: between the look-up and the DELETE the client may LEAVE and JOIN again with an
  owner invite, and the DELETE takes the owner's row. `OwnerStays` survives it, because
  the removal began beside an owner that none has in its reach (`OwnerOutOfReach`,
  `MemberLedger.Depart`).
- A configuration path that does not exist is not an error: defaults are used
  (`config.go:106`).
- The parameters of the database's name (`sqlite.go:57`) are those of another driver, so
  WAL mode and the busy timeout may not be in effect; the models let calls fail.
- A failed read of the store shows as zero on the dashboard (`tui.go:78`).

In TPM mode `daemon.go:338` logs a new key as persisted although a service saves nothing
(`daemon.go:390`); this needs a credential made from an empty `onion.key`, and the model
counts such a key as given up. After the installer's TPM step a daemon started from a
shell finds no key and makes another one in plain (`daemon.go:356`), also when the
installer itself starts it for want of systemd (`install.sh:737`): the old address is
then served only by the service.

Three ways to lose the address of a mailbox, each excepted by name in `NoOtherKeyLost`:

- The installer is run again with TPM protection. Its daemon has no credentials
  directory (`daemon.go:355`), finds no `onion.key`, since the first run destroyed it,
  and makes a new key. `install.sh:692` encrypts that over the old credential, and the
  address that members were invited to is gone.
- Two daemons make their first start at the same time, or a daemon saves its key while the
  installer encrypts and destroys the file: each looks before any of them writes
  (`daemon.go:320`), and the last to write, or shred, wins.
- A new key cannot be saved: the daemon runs on with it and warns (`daemon.go:336`).

A full mailbox may be too large to fetch. FETCH limits neither the number of messages nor
their bytes, and a payload of more than 10 MB is refused by `ReadFrame`
(`frame.go:49`). With messages of 64 KB that is a mailbox of 160 messages or more
(`FullMailboxFits`): the default of `config.go:85`, 100, stays below it, the default the
installer offers and writes, 200 (`install.sh:513`, `install.sh:1127`), makes 13.1 MB. The
messages are deleted while the answer is built, so they are lost.

The limit per recipient (`server.go:239`) is not strictly enforced either;
`QuotaOvershoot` says by how much.

## 6. Proofs

`MailboxProofs`, for every number of clients, connections, sessions, tokens and
messages and every bound, from the assumptions on the constants in `MailboxStore`,
`MailboxServer` and `MailboxAdmin`:

- `TypeCorrect`: `Spec => []TypeOK`, one case per action. `TypeOKServer` also says that
  a busy connection has a request and that a JOIN past its code check has a code, which
  the typing of the table updates needs.
- `OwnerIsOutOfReach` and `OwnerNeverVanishes`. `HasOwner => HasOwner'` is not
  inductive: a removal deletes whatever row its client has, so one needs to know that
  the client is not the last owner. `OwnerOutOfReach` says that some owner is not the
  target of a removal under way (`Condemned`), and, so that this survives the first
  owner's arrival, that members and removals exist only beside an owner, which in turn
  needs that what a JOIN has seen of an owner is still true. The proof factors a step
  into what it makes a handler or session conclude (`GroundedHandlers`,
  `GroundedSessions`: an owner seen is there, a member role is decided beside an owner,
  a removal starts on a plain member) and what it does to the table (`GroundedStep`,
  `AddStep`, `RemoveStep`). `DatabaseAssumption` asks of the database that is opened
  what the theorem then shows of the one that is left: no members without an owner.

`MembershipProofs`, from the same assumptions. Few of the steps of handlers
and sessions matter to members and invites, so it first sorts them into kinds (`Aside`,
`CountsUse`, `Admits`, `Removes`, ...: what a step does to the rows, and where it leaves
its handler); `HandlerKinds` and `SessionKinds` show that there are no others, and every
later proof has one case for each kind.

- `BootstrapBeforeOwner`, `StaleJoinHoldsOwnerInvite` from `Founded`. Neither is
  inductive: a code must be known to have been issued (or the token could be handed out
  again under a waiting JOIN), whoever is about to create an invite must stand beside an
  owner, and a JOIN about to add a member must hold a role.
- `NoInviteOverused`: the uses in the table cover members and JOINs past
  `ConsumeInvite` (`Covered`), a count over the connections.
- `UsesAreAccountedFor`, the other direction, if clients are on one connection at a
  time. A JOIN whose client is already a member will waste a use that has not been
  counted yet, so `Owed` adds those JOINs (`Doomed`) on the side of the uses.
- `JoinNeverConflicts`: a JOIN past its look-up belongs to no member, for serial
  clients and as long as no call has failed: a failed look-up reads as "not a member".
- `MailboxIsLedger`: `Spec => ImplementsLedger`. Each kind is a step of the ledger or a
  stutter under the mapping; that what is taken or admitted is `Legitimate` is `Founded`,
  and that an owner stays behind when a client departs is `OwnerOutOfReach`.

`MailProofs`, in the same way; its kinds are what a step does to a message and to the
rows its handler holds.

- `Sorted`, the invariant the rest stands on: one row for each id, what a handler has
  read is stored or its removal on record, and is its client's. `OnPath` says at which
  calls a command can be.
- `NothingSilentlyLost`, an action property; `FetchedIsOnItsWay` as long as no response
  is lost and the daemon does not stop, the two failures `MailboxLostResponse` and the
  restarts are about.
- `DeliveredLeavesTable`: `StoredExcused` says of each stored message that its
  deliveries, plus the FETCHes that carry it and are past its Delete (`Dealt`), are at
  most its failed Deletes. A stop is the step that moves most: every handler it leaves
  running is dealt with all it carries at once, and `missed` grows by as many.
- `EachDeliversOnce`: deliveries of a message, plus the FETCHes that carry it, are at
  most the connections and its failed Deletes (`Rationed`). A handler can carry a message
  again only when it is still stored, which needs the previous theorem.
  `DeliveredAtMostOnce` is the same with serial clients, where there is one carrier
  (`InTurn`).
- `OvershootIsBounded`: stored mail plus DEPOSITs past the check. A step into the
  check is the hard one: it may be the last of all connections to pass.
- `MailboxIsMailDrop`: `ImplementsMailDrop` for serial clients, with failed calls, lost
  responses and stops. A message with a failed Delete is stuck and stays so
  (`StuckStays`); for the others (`Loose`) `Placement` reads the place off the carriers,
  the deliveries and the row. A delivery of a FETCH is one `Arrive` of all it carries, and
  `StoredUntouched` excludes that one of them lies in its box as well. A stop is one
  `Founder`: what was carried is put back, lost, dropped or stuck.

`WorkerAssumption` is the one assumption these two add: that connections are finitely
many, without which counting them says nothing. The hypotheses are those of the
properties: `SerialClients` restricts the clients and not the mailbox, and a failure
count that is zero, or the number of failures in a bound, is part of what the property
says.

`ReplayGuardProofs`, for every window, buffer and number of requests and connections:

- `WindowIsExact`: in the range of the clocks the wrapping subtraction and negation
  compute the distance.
- `NoDuplicateRuns`, `DroppedNonceIsOutdated`, under `InStep`: what a client is ahead
  plus what a handler stalls is at most the buffer. The inductive invariant relates the
  expiry of a nonce to the time its request carries (`Remembered`) and bounds how long
  ago a handler compared it (`PendingBound`).

`OnionKeyProofs`, for every number of keys, passphrases and processes:

- `TypeCorrect`.
- `NoOtherKeyIsLost`, `LinkFollowsKey` and `KeyOpensAgain`, however processes and the
  installer overlap. None of the three is inductive. What makes them so is what a process
  knows while it starts: `Room` (one that will save a key overwrites none that was stored
  undisputed: it would have been there when it looked, or its writer would have seen it
  coming), `AtRisk` and `Distinct` (a key being saved is new, served from no other place
  and held by nobody else), `Sealed` (what the installer is about to destroy is in the
  credential, unless it is disputed), `Held` and `Handed` (a key in hand was stored, and
  is still in its place if it was undisputed and not replaced), and `Settled` (a key in
  use or in a link is stored or given up, not in between). `Inductive` proves them
  together, one case per action.

`FrameCodecProofs`, for every byte, length and payload, from the definitions alone:

- `HeaderRoundTrip`, `HeaderCanonical`, `FrameRoundTrip`: what is written is read, and an
  accepted header is the written form of exactly one type and length; that a header
  within the limit is accepted is part of `FrameRoundTrip`. The argument splits
  a 32 bit word into its bytes and back (`WordInBytes`, `BytesInWord`); TLC's integers are
  too small for it.
- `ReadIsWritten`, the other direction: whatever bytes are read as a frame, writing that
  frame gives the same bytes.
- `FullMailboxFits`: with messages of at most 64 KB a FETCH_RESP is within 10 MB exactly
  up to 159 of them; 100 fit and 200 do not (section 5). `CountIsExact`: its count of 16
  bits is right below 65536.

`DaemonProofs`, for every number of connections, streams, lines and commands, every
capacity of the channel and every limit of the screen, from the assumptions of
`Daemon` and `Dashboard`. `PanelFits` ties the dashboard to the process, so that each
step is one of a few kinds for the dashboard (`PanelSteps`), and `PanelKinds` proves it.

- `TypeCorrect`; that the lines never exceed the limit by more than the entries of
  commands needs `Trimmed`, which counts the commands.
- `HandlersGetWholeFrames`: in `ConnOK` a frame that was read stands at the beginning of
  the stream. The step is `ReadIsWritten` on the bytes that have arrived, and that those
  are a prefix of the stream.
- `LinesStayInOrder`, `NothingMissing`, from `OnTheirWay`: one goroutine at a time waits
  for a line or holds one (`OneReader`), lines carry the numbers under which they were
  written (`Numbered`), and the channel is in order. `ScreenKeepsOrder` is the common
  step of a line shown, a command and a clearing: what goes is older than what stays,
  which for `Newest` is a lemma on sequences (`OrderedNewest`).
- `ViewIsCurrent`.
- `NoSignalIsLost` and `KeepsServing`, the safety halves of `StopsOnSignal` and
  `ServiceComesUp`: a signal that has not ended the process is in somebody's hands, and
  a server without a terminal goes on listening until somebody asked it to stop
  (`Obedient`). That somebody then acts is fairness, and stays with TLC.

`UninstallProofs`: `OnlyUserdelTakesMore`, in every state of any number of removals. The
inductive invariant says which items the operator can have kept before each step
(`KeptBefore`), so a step never removes one that an earlier step kept, but userdel.

Only model-checked, because the prover does not reach liveness: `ConnectionsEnd`,
`ExpiredMailSwept`, `WholeFrameServed`, `ConnectionCloses`, `StopsOnSignal`,
`ServiceComesUp`, `LinesShown` and `ScreenCatchesUp`. Every invariant, action property
and refinement of a passing run is a theorem.

## 7. Not modelled

- Signatures are valid and keys are not shared; payloads, names and layouts are left
  out; `server_meta` and the statistics decide nothing.
- The client: it sends any request at any time. `SerialClients` restricts it to one
  connection at a time for `MailboxRetry`.
- `ServiceComesUp` is about the unit with `Restart=on-failure`; with passphrase protection
  the installer writes `Restart=no` (`install.sh:603`) and nothing starts the daemon again.
- A failed store call changes nothing. A commit whose error hides a success is not
  modelled.
- The ticker's hour: a sweep may come at any time.
- `limits.max_storage_mb` is read (`config.go:87`) and enforced nowhere.
- The setup wizard's form and the rest of the installer's shell: sequential I/O.
- Configuration: `Load` and `Write` are two functions without steps; what follows from
  them over several starts is in `OnionKey`.
- Scrolling, typing and drawing in the dashboard; its uptime tick.
- Errors of `Accept` other than the closed listener: they are logged and the loop goes on.
- The Tor control protocol beyond its outcomes; a Tor that serves another address for a
  key; keys of other tools in the same place.

## 8. Plan

Done: the core (`MailboxStore`, `MailboxServer`, `MailboxAdmin`, `Mailbox`) and its two
abstract specifications, the guard, the onion key, the codec, the daemon with its
dashboard, and the removal; theorems for every safety property of the passing runs.

Left, in this order:

1. The lemmas behind liveness that are safety: that each handler's remaining calls
   decrease (`ConnectionsEnd` rests on a bounded `todo`), and that a store at rest leaves
   no chain of statistics with an old count but those already read (`ScreenCatchesUp`).
2. `Uninstall`: what a removal reports as done and what it took, for every order of
   answers.
