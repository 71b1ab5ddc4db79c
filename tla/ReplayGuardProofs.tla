-------------------------- MODULE ReplayGuardProofs --------------------------
(***************************************************************************)
(* Proofs about ReplayGuard, for every window, buffer, number of requests  *)
(* and connections: the clock arithmetic is exact within the assumed       *)
(* range, and a nonce is remembered for as long as its request is accepted *)
(* when clocks and handlers are in step.                                   *)
(***************************************************************************)
EXTENDS ReplayGuard, TLAPS

\* Within the assumed range the int64 distance is the distance: the check of
\* VerifyAuthPayload accepts a time exactly when it is within the window.
LEMMA WindowIsExact ==
    ASSUME now \in 0 .. MaxTime, NEW time \in -MaxBehind .. MaxTime + MaxAhead
    PROVE  InWindow(time) <=> (now - time <= Window /\ time - now <= Window)
BY TimeAssumption DEF InWindow, Wrap

\* A time that a client's clock can show is an int64, and it is not the
\* placeholder of an unsigned request.
LEMMA StampRange ==
    ASSUME now \in 0 .. MaxTime, NEW time \in now - MaxBehind .. now + MaxAhead
    PROVE  time \in -MaxBehind .. MaxTime + MaxAhead /\ time \in Times /\ time # Unsigned
BY TimeAssumption DEF Times, Unsigned

\* Each variable keeps its type through every step.
THEOREM TypeCorrect == Spec => []TypeOK
<1>1. Init => TypeOK
  BY TimeAssumption DEF Init, TypeOK, Unsigned, Absent
<1>2. TypeOK /\ [Next]_vars => TypeOK'
  <2> SUFFICES ASSUME TypeOK, [Next]_vars PROVE TypeOK'
    OBVIOUS
  <2> USE DEF TypeOK
  <2>1. ASSUME NEW r \in Requests, Sign(r) PROVE TypeOK'
    BY <2>1, StampRange DEF Sign
  <2>2. ASSUME NEW w \in Workers, NEW r \in Requests, CheckTime(w, r) PROVE TypeOK'
    BY <2>2 DEF CheckTime
  <2>3. ASSUME NEW w \in Workers, CheckNonce(w) PROVE TypeOK'
    BY <2>3, TimeAssumption DEF CheckNonce, Pruned, Retention, Absent
  <2>4. CASE Restart
    BY <2>4 DEF Restart, Absent
  <2>5. CASE Tick
    BY <2>5, TimeAssumption DEF Tick
  <2>6. CASE UNCHANGED vars
    BY <2>6 DEF vars
  <2> QED
    BY <2>1, <2>2, <2>3, <2>4, <2>5, <2>6 DEF Next
<1> QED
  BY <1>1, <1>2, PTL DEF Spec

-----------------------------------------------------------------------------

\* A signed request carries a time that is not further ahead than MaxAhead.
StampBound ==
    \A r \in Requests :
        stamp[r] # Unsigned => stamp[r] \in -MaxBehind .. MaxTime + MaxAhead
                               /\ stamp[r] <= now + MaxAhead

\* A handler between its two checks has compared a time in the window, and has
\* not stalled longer than MaxStall.
PendingBound ==
    \A w \in Workers : \A r \in pending[w] :
        /\ stamp[r] # Unsigned
        /\ checkedAt[w] <= stamp[r] + Window
        /\ checkedAt[w] <= now /\ now <= checkedAt[w] + MaxStall

\* The nonce of an executed request is in the cache until no handler can
\* hold the request any more.
Remembered ==
    \A r \in Requests :
        /\ executed[r] <= 1
        /\ cache[r] # Absent => executed[r] = 1
        /\ executed[r] = 1 =>
              /\ stamp[r] # Unsigned
              /\ IF cache[r] = Absent
                 THEN now > stamp[r] + Window + MaxStall
                 ELSE cache[r] >= stamp[r] + Window + Buffer - MaxAhead

IInv == TypeOK /\ StampBound /\ PendingBound /\ Remembered

\* The invariant behind AtMostOnce is inductive when clocks and handlers are
\* in step.
THEOREM Inductive == ASSUME InStep PROVE Spec => []IInv
<1> USE TimeAssumption
<1>1. Init => IInv
  BY DEF Init, IInv, TypeOK, StampBound, PendingBound, Remembered, Unsigned, Absent
<1>2. ASSUME IInv, TypeOK', [Next]_vars PROVE IInv'
  <2> USE <1>2 DEF IInv
  <2>1. ASSUME NEW r \in Requests, Sign(r) PROVE IInv'
    <3>1. StampBound'
      BY <2>1, StampRange DEF Sign, StampBound, TypeOK
    <3>2. PendingBound'
      BY <2>1 DEF Sign, PendingBound, TypeOK
    <3>3. Remembered'
      BY <2>1 DEF Sign, Remembered, TypeOK
    <3> QED
      BY <2>1, <3>1, <3>2, <3>3 DEF Sign
  <2>2. ASSUME NEW w \in Workers, NEW r \in Requests, CheckTime(w, r) PROVE IInv'
    <3>1. InWindow(stamp[r]) => now <= stamp[r] + Window
      BY <2>2, WindowIsExact DEF CheckTime, StampBound, TypeOK, Unsigned, Times
    <3>2. PendingBound'
      BY <2>2, <3>1 DEF CheckTime, PendingBound, TypeOK
    <3> QED
      BY <2>2, <3>2 DEF CheckTime, StampBound, Remembered
  <2>3. ASSUME NEW w \in Workers, CheckNonce(w) PROVE IInv'
    <3>1. StampBound' /\ PendingBound'
      BY <2>3 DEF CheckNonce, StampBound, PendingBound, TypeOK
    <3>2. PICK r \in pending[w] :
            IF Pruned[r] # Absent
            THEN cache' = Pruned /\ UNCHANGED executed
            ELSE /\ cache' = [Pruned EXCEPT ![r] = Retention(r)]
                 /\ executed' = [executed EXCEPT ![r] = @ + 1]
      BY <2>3 DEF CheckNonce
    <3>3. r \in Requests /\ UNCHANGED <<now, stamp>>
      BY <2>3, <3>2 DEF CheckNonce, TypeOK
    <3>4. stamp[r] # Unsigned /\ now <= stamp[r] + Window + MaxStall /\ stamp[r] <= now + MaxAhead
      BY <3>2, <3>3 DEF PendingBound, StampBound, TypeOK, Times, Unsigned
    <3>5. \* an entry is dropped only when its request is out of the window
          ASSUME NEW q \in Requests, executed[q] = 1, Pruned[q] = Absent
          PROVE  now > stamp[q] + Window + MaxStall
      BY <3>5 DEF Pruned, Remembered, InStep, TypeOK, Times, Unsigned, Absent
    <3>6. ASSUME Pruned[r] # Absent PROVE Remembered'
      BY <3>2, <3>3, <3>5, <3>6 DEF Pruned, Remembered, TypeOK
    <3>7. ASSUME Pruned[r] = Absent PROVE Remembered'
      <4>1. executed[r] = 0
        BY <3>3, <3>4, <3>5, <3>7 DEF Remembered, TypeOK, Times, Unsigned
      <4>2. cache'[r] = now + Window + Buffer /\ executed'[r] = 1
        BY <3>2, <3>3, <3>7, <4>1 DEF Retention, Pruned, TypeOK
      <4>3. \A q \in Requests \ {r} : cache'[q] = Pruned[q] /\ executed'[q] = executed[q]
        BY <3>2, <3>3, <3>7 DEF Pruned, TypeOK
      <4>4. cache'[r] >= stamp'[r] + Window + Buffer - MaxAhead /\ stamp'[r] # Unsigned
        BY <3>3, <3>4, <4>2 DEF TypeOK, Times, Unsigned
      <4>5. ASSUME NEW q \in Requests
            PROVE  /\ executed'[q] <= 1
                   /\ cache'[q] # Absent => executed'[q] = 1
                   /\ executed'[q] = 1 =>
                        /\ stamp'[q] # Unsigned
                        /\ IF cache'[q] = Absent
                           THEN now' > stamp'[q] + Window + MaxStall
                           ELSE cache'[q] >= stamp'[q] + Window + Buffer - MaxAhead
        <5>1. CASE q = r
          BY <3>3, <4>2, <4>4, <5>1 DEF Absent, TypeOK
        <5>2. CASE q # r
          BY <3>3, <3>5, <4>3, <5>2 DEF Pruned, Remembered
        <5> QED
          BY <5>1, <5>2
      <4> QED
        BY <4>5 DEF Remembered
    <3> QED
      BY <2>3, <3>1, <3>6, <3>7 DEF CheckNonce
  <2>4. CASE Restart
    BY <2>4 DEF Restart, StampBound, PendingBound, Remembered, TypeOK
  <2>5. CASE Tick
    <3>1. now' = now + 1 /\ now \in Nat /\ UNCHANGED <<stamp, cache, pending, checkedAt, executed, restarts>>
      BY <2>5 DEF Tick, TypeOK
    <3>2. StampBound'
      BY <3>1 DEF StampBound, TypeOK, Times, Unsigned
    <3>3. PendingBound'
      BY <2>5, <3>1 DEF Tick, PendingBound, TypeOK
    <3>4. Remembered'
      BY <3>1 DEF Remembered, TypeOK, Times, Unsigned
    <3> QED
      BY <3>1, <3>2, <3>3, <3>4
  <2>6. CASE UNCHANGED vars
    BY <2>6 DEF vars, StampBound, PendingBound, Remembered
  <2> QED
    BY <2>1, <2>2, <2>3, <2>4, <2>5, <2>6 DEF Next
<1> QED
  BY <1>1, <1>2, TypeCorrect, PTL DEF Spec

\* When clocks and handlers are in step, no signed request is run twice by
\* one run of the daemon, however often and however late copies of it arrive.
THEOREM NoDuplicateRuns == ASSUME InStep PROVE Spec => []AtMostOnce
<1>1. IInv => AtMostOnce
  BY DEF IInv, Remembered, AtMostOnce
<1> QED
  BY <1>1, Inductive, PTL

\* When clocks and handlers are in step, a dropped nonce belongs to a request
\* that is out of the window for every handler.
THEOREM DroppedNonceIsOutdated == ASSUME InStep PROVE Spec => []ForgottenIsOutdated
<1>1. IInv => ForgottenIsOutdated
  <2> SUFFICES ASSUME IInv, NEW r \in Requests, executed[r] > 0, cache[r] < now
               PROVE  /\ now > stamp[r] + Window
                      /\ \A w \in Workers : r \notin pending[w]
    BY DEF ForgottenIsOutdated
  <2> USE TimeAssumption DEF IInv, InStep, TypeOK, Times, Unsigned
  <2>1. executed[r] = 1
    BY DEF Remembered
  <2>2. now > stamp[r] + Window + MaxStall
    BY <2>1 DEF Remembered, Absent
  <2>3. now > stamp[r] + Window
    BY <2>1, <2>2 DEF Remembered
  <2>4. \A w \in Workers : r \notin pending[w]
    BY <2>2 DEF PendingBound
  <2> QED
    BY <2>3, <2>4
<1> QED
  BY <1>1, Inductive, PTL
=============================================================================
