\* Client clocks that are ahead, and handlers that stall, by no more than the
\* buffer in sum, and a restart of the daemon: the nonces are kept long enough.
SPECIFICATION Spec
CONSTANTS
    r1 = r1
    r2 = r2
    w1 = w1
    w2 = w2
    Requests = {r1, r2}
    Workers = {w1, w2}
    Window = 2
    Buffer = 2
    HalfRange = 16
    MaxAhead = 1
    MaxBehind = 1
    MaxStall = 1
    MaxTime = 8
    MaxRestarts = 1
SYMMETRY Interchangeable
INVARIANT TypeOK
INVARIANT AtMostOnce
INVARIANT ForgottenIsOutdated
