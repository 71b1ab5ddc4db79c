\* Two connections to the service, a dashboard without clients, one crash or
\* failed start, and another program on the port.  The process may end.
SPECIFICATION FairSpec
CONSTANTS
    k1 = k1
    k2 = k2
    Conns = {k1, k2}
    Streams <- Requests
    Cuts = {3, 7, 8}
    Launches <- Scenes
    MaxFailures = 1
    MaxPortChanges = 2
    LogCap = 1
    tuiMaxLines = 2
    MaxLines = 3
    MaxCommands = 1
    MaxChanges = 1
    MaxReadErrors = 1
INVARIANT TypeOK
INVARIANT FrameIntact
INVARIANT LinesInOrder
INVARIANT NoGap
INVARIANT ViewFollowsLines
PROPERTY WholeFrameServed
PROPERTY ConnectionCloses
PROPERTY StopsOnSignal
PROPERTY ServiceComesUp
PROPERTY LinesShown
PROPERTY ScreenCatchesUp
CHECK_DEADLOCK FALSE
