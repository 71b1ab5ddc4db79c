---------------------------- MODULE ReplayGuard ----------------------------
(***************************************************************************)
(* The duplicate check of VerifyAuthPayload (internal/transport/frame.go). *)
(* A client signs a request together with its own time and a fresh nonce.  *)
(* The signed frame may arrive late, and more than once: a client that got *)
(* no answer sends it again, and a connection may stall.  The server first *)
(* compares the time with its clock, then looks the nonce up in a cache in *)
(* memory.  These are two steps with two clock readings, and handlers of   *)
(* other connections run between them.                                     *)
(*                                                                         *)
(* A request stands for its nonce (16 random bytes) and its signature,     *)
(* which is valid; a frame with an invalid one ends after the same steps   *)
(* and runs no command.  Times are milliseconds in the code.               *)
(***************************************************************************)
EXTENDS Integers

CONSTANTS
    Requests,       \* requests that clients sign (bound)
    Workers,        \* connections served at a time (bound)
    Window,         \* timestampWindowMs
    Buffer,         \* how much longer a nonce is kept, the 60 seconds
    HalfRange,      \* int64 values are -HalfRange .. HalfRange - 1
    MaxAhead,       \* how far a client's clock is ahead of the server's
    MaxBehind,      \* and behind
    MaxStall,       \* how long a handler may wait between its two checks
    MaxTime,        \* last value of the server's clock (bound)
    MaxRestarts     \* restarts of the daemon (bound)

\* The clocks are within the range where a difference does not wrap.
ASSUME TimeAssumption ==
    /\ Window \in Nat /\ Buffer \in Nat
    /\ MaxAhead \in Nat /\ MaxBehind \in Nat /\ MaxStall \in Nat
    /\ MaxTime \in Nat /\ MaxRestarts \in Nat
    /\ HalfRange \in Nat
    /\ MaxTime + MaxAhead < HalfRange /\ MaxTime + MaxBehind < HalfRange

Unsigned == -HalfRange - 1  \* no int64: the request is not signed yet
Absent == -1                \* the nonce is not in the cache

VARIABLES
    now,        \* the server's clock
    stamp,      \* the time each request carries
    cache,      \* nonceCache: when each nonce expires
    pending,    \* the request each handler is checking, as a set of at most one
    checkedAt,  \* when the handler compared its time
    executed,   \* history: how often each request passed both checks since the
                \* daemon started
    restarts    \* restarts so far

vars == <<now, stamp, cache, pending, checkedAt, executed, restarts>>

Init ==
    /\ now = 0
    /\ stamp = [r \in Requests |-> Unsigned]
    /\ cache = [r \in Requests |-> Absent]
    /\ pending = [w \in Workers |-> {}]
    /\ checkedAt = [w \in Workers |-> 0]
    /\ executed = [r \in Requests |-> 0]
    /\ restarts = 0

-----------------------------------------------------------------------------

\* int64 arithmetic on values that are at most one wrap away.
Wrap(x) == IF x >= HalfRange THEN x - 2 * HalfRange
           ELSE IF x < -HalfRange THEN x + 2 * HalfRange ELSE x

\* Mistaken variant of InWindow: any time in the past will do.
BugInWindow(time) == Wrap(now - time) >= -Window

\* The timestamp check: the distance of the two clocks, as the code computes it.
InWindow(time) ==
    LET diff == Wrap(now - time)
        distance == IF diff < 0 THEN Wrap(-diff) ELSE diff
    IN  distance <= Window

\* A client signs a request with the time of its own clock.
Sign(r) ==
    /\ stamp[r] = Unsigned
    /\ \E time \in now - MaxBehind .. now + MaxAhead : stamp' = [stamp EXCEPT ![r] = time]
    /\ UNCHANGED <<now, cache, pending, checkedAt, executed, restarts>>

\* A copy of a signed request arrives; out of the window it is refused.
CheckTime(w, r) ==
    /\ pending[w] = {}
    /\ stamp[r] # Unsigned
    /\ IF InWindow(stamp[r])
       THEN /\ pending' = [pending EXCEPT ![w] = {r}]
            /\ checkedAt' = [checkedAt EXCEPT ![w] = now]
       ELSE UNCHANGED <<pending, checkedAt>>
    /\ UNCHANGED <<now, stamp, cache, executed, restarts>>

\* Mistaken variant of Pruned: drops the entries of the older half.
BugPruned == [r \in Requests |-> IF cache[r] < now + Window THEN Absent ELSE cache[r]]

\* The expired entries are dropped before the look-up.
Pruned == [r \in Requests |-> IF cache[r] < now THEN Absent ELSE cache[r]]

BugRetention(r) == stamp[r] - Window   \* keeps it until the window opens

\* When the nonce of r expires if it is stored now.
Retention(r) == now + Window + Buffer

\* checkAndStoreNonce, under its mutex: prune, look up, store.
CheckNonce(w) ==
    \E r \in pending[w] :
        /\ pending' = [pending EXCEPT ![w] = {}]
        /\ IF Pruned[r] # Absent
           THEN cache' = Pruned /\ UNCHANGED executed
           ELSE /\ cache' = [Pruned EXCEPT ![r] = Retention(r)]
                /\ executed' = [executed EXCEPT ![r] = @ + 1]
        /\ UNCHANGED <<now, stamp, checkedAt, restarts>>

\* The daemon restarts: the cache is in memory only, and `executed` counts anew.
Restart ==
    /\ restarts < MaxRestarts
    /\ restarts' = restarts + 1
    /\ cache' = [r \in Requests |-> Absent]
    /\ pending' = [w \in Workers |-> {}]
    /\ executed' = [r \in Requests |-> 0]
    /\ UNCHANGED <<now, stamp, checkedAt>>

\* Time passes, but no handler stays between its checks longer than MaxStall.
Tick ==
    /\ now < MaxTime
    /\ \A w \in Workers : pending[w] # {} => now < checkedAt[w] + MaxStall
    /\ now' = now + 1
    /\ UNCHANGED <<stamp, cache, pending, checkedAt, executed, restarts>>

Next ==
    \/ \E r \in Requests : Sign(r)
    \/ \E w \in Workers, r \in Requests : CheckTime(w, r)
    \/ \E w \in Workers : CheckNonce(w)
    \/ Restart
    \/ Tick

Spec == Init /\ [][Next]_vars

-----------------------------------------------------------------------------

Times == -HalfRange .. HalfRange - 1

TypeOK ==
    /\ now \in 0 .. MaxTime
    /\ stamp \in [Requests -> Times \cup {Unsigned}]
    /\ cache \in [Requests -> Nat \cup {Absent}]
    /\ pending \in [Workers -> SUBSET Requests]
    /\ checkedAt \in [Workers -> Nat]
    /\ executed \in [Requests -> Nat]
    /\ restarts \in Nat

\* The clocks and the handlers are in step: what a client is ahead and what a
\* handler stalls stays within the buffer.
InStep == MaxAhead + MaxStall <= Buffer

\* frame.go:148: the nonce check prevents a signed request from being run
\* twice while the daemon is up (after a restart it may run once more, the
\* cache being lost).  The nonce is kept from the moment of the first check, not from the
\* time the request carries, so a request from a clock that is ahead stays in
\* the window longer than its nonce in the cache.
AtMostOnce == \A r \in Requests : executed[r] <= 1

\* A request whose nonce has been dropped is out of the window for every
\* handler, also for one that compared its time before the nonce was dropped.
ForgottenIsOutdated ==
    \A r \in Requests :
        executed[r] > 0 /\ cache[r] < now =>
            /\ now > stamp[r] + Window
            /\ \A w \in Workers : r \notin pending[w]
=============================================================================
