\* A client whose clock is ahead by more than the buffer: its request is still
\* in the window when its nonce is dropped.
SPECIFICATION Spec
CONSTANTS
    r1 = r1
    r2 = r2
    w1 = w1
    w2 = w2
    Requests = {r1, r2}
    Workers = {w1, w2}
    Window = 2
    Buffer = 1
    HalfRange = 16
    MaxAhead = 2
    MaxBehind = 1
    MaxStall = 0
    MaxTime = 8
    MaxRestarts = 0
SYMMETRY Interchangeable
INVARIANT AtMostOnce
