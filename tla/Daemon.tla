------------------------------- MODULE Daemon -------------------------------
(***************************************************************************)
(* `fialka start` as a process (runStart in cmd/daemon.go and the listener *)
(* and connections of internal/transport/server.go): the signal goroutine, *)
(* the listener, one goroutine for each connection, and the goroutine of   *)
(* main, which waits for the server without a terminal and runs the        *)
(* dashboard (Dashboard) with one.  Bytes of a request arrive in pieces.   *)
(* What the handlers do is in MailboxServer.  Around the process: systemd, *)
(* who else uses the port, the clients, and the operator.                  *)
(***************************************************************************)
EXTENDS Dashboard, FrameCodec

CONSTANTS
    Conns,          \* connections that may be open at a time (bound)
    Streams,        \* what a client may send: sequences of bytes
    Cuts,           \* where the arrival of a stream may pause (bound)
    Launches,       \* how it may be started, and what then happens around it (bound)
    MaxFailures,    \* crashes and failed starts (bound)
    MaxPortChanges  \* times another program takes or leaves the port (bound)

\* What may happen around the process: clients connect, lines are logged, the
\* store changes, somebody stops it, it fails or another program takes its port.
Happenings == {"clients", "lines", "counts", "stop", "trouble"}

ASSUME DaemonAssumption ==
    /\ Launches \subseteq [how : {"service", "once", "terminal"}, around : SUBSET Happenings]
    /\ \A s \in Streams : s \in Seq(Byte)
    /\ Cuts \subseteq Nat
    /\ MaxFailures \in Nat /\ MaxPortChanges \in Nat

VARIABLES
    launch,     \* how it was started: by systemd, once (no restart), or in a terminal
    proc,       \* the process
    watcher,    \* the goroutine that waits for a signal
    cancelled,  \* the context has been cancelled
    serve,      \* where ListenAndServe is
    listener,   \* its listener
    conns,      \* connections: where each is, what it sends, what has arrived
    signalled,  \* somebody asked the daemon to stop
    portFree,   \* no other program has the port
    failures, portChanges

processVars == <<launch, proc, watcher, cancelled>>
serverVars == <<serve, listener, conns>>
worldVars == <<signalled, portFree, failures, portChanges>>
vars == <<processVars, serverVars, worldVars, dashboardVars>>

NoFrame == [type |-> 0, payload |-> <<>>]
NoConn == [phase |-> "none", stream |-> <<>>, arrived |-> 0, frame |-> NoFrame]

Headless == launch.how # "terminal"
May(happening) == happening \in launch.around
Exited == proc \in {"ok", "failed"}

Init ==
    /\ launch \in Launches
    /\ proc = "boot" /\ watcher = "none" /\ cancelled = FALSE
    /\ serve = "none" /\ listener = "none"
    /\ conns = [k \in Conns |-> NoConn]
    /\ signalled = FALSE /\ portFree \in {TRUE, ~May("trouble")}
    /\ failures = 0 /\ portChanges = 0
    /\ DashboardInit

\* The process ends, and with it every goroutine and connection.
Exit(status) ==
    /\ proc' = status
    /\ watcher' = "none" /\ cancelled' = FALSE
    /\ serve' = "none" /\ listener' = "none"
    /\ conns' = [k \in Conns |-> NoConn]
    /\ panel' = IF panel = "off" THEN "off" ELSE "closed"
    /\ UNCHANGED <<launch, logVars, lineVars, commands, statVars, truth, changes>>

-----------------------------------------------------------------------------
(* The goroutine of main.                                                  *)

\* runStart up to the server: it fails on the configuration, the passphrase or
\* the database, or starts the goroutines.
Start ==
    /\ proc = "boot"
    /\ \/ /\ May("trouble") /\ failures < MaxFailures
          /\ failures' = failures + 1
          /\ Exit("failed")
       \/ /\ proc' = "up"
          /\ watcher' = "starting"
          /\ serve' = "binding"
          /\ panel' = IF Headless THEN "off" ELSE "wired"
          /\ UNCHANGED <<launch, cancelled, listener, conns, failures, logVars, lineVars,
                         commands, statVars, truth, changes>>
    /\ UNCHANGED <<signalled, portFree, portChanges>>

\* Mistaken variant of HeadlessFails: the error is dropped, as with a terminal,
\* and main waits for the context.
BugHeadlessFails ==
    /\ Headless /\ proc = "up"
    /\ serve = "failed" /\ cancelled
    /\ Exit("failed")
    /\ UNCHANGED worldVars

\* ListenAndServe returned an error, and so does main.
HeadlessFails ==
    /\ Headless /\ proc = "up"
    /\ serve = "failed"
    /\ Exit("failed")
    /\ UNCHANGED worldVars

\* ListenAndServe returned without one, and the context is cancelled.
HeadlessReturns ==
    /\ Headless /\ proc = "up"
    /\ serve = "done" /\ cancelled
    /\ Exit("ok")
    /\ UNCHANGED worldVars

\* p.Run returned: main cancels the context and returns, whatever the server does.
PanelReturns ==
    /\ proc = "up" /\ panel = "closed"
    /\ Exit("ok")
    /\ UNCHANGED worldVars

\* A step of the dashboard's goroutines.
InPanel(step) == proc = "up" /\ step /\ UNCHANGED <<processVars, serverVars, worldVars>>

-----------------------------------------------------------------------------
(* Signals.                                                                *)

\* log.Info() with a terminal; lines beyond MaxLines are not counted.
LogLine ==
    IF ~Headless /\ written < MaxLines THEN WriteLine ELSE UNCHANGED logVars

\* signal.Notify.
WatchSignals ==
    /\ watcher = "starting"
    /\ watcher' = "watching"
    /\ UNCHANGED <<launch, proc, cancelled, serverVars, worldVars, dashboardVars>>

\* The signal is received: it is logged and the context cancelled.
TakeSignal ==
    /\ watcher = "told"
    /\ watcher' = "done"
    /\ cancelled' = TRUE
    /\ LogLine
    /\ UNCHANGED <<launch, proc, serverVars, worldVars, panel, lineVars, commands, statVars,
                   truth, changes>>

\* SIGINT or SIGTERM, or `systemctl stop` between two starts.  Until somebody
\* has asked for the signal it ends the process, which systemd takes for a clean
\* end; the dashboard asks for it as well, and quits.
Signal ==
    /\ May("stop")
    /\ ~signalled
    /\ signalled' = TRUE
    /\ \/ /\ proc = "boot" \/ (watcher = "starting" /\ panel # "open")
          /\ Exit("ok")
       \/ /\ proc = "up" /\ (watcher # "starting" \/ panel = "open")
          /\ watcher' = IF watcher = "watching" THEN "told" ELSE watcher
          /\ panel' = IF panel = "open" THEN "closing" ELSE panel
          /\ UNCHANGED <<launch, proc, cancelled, serverVars, logVars, lineVars, commands,
                         statVars, truth, changes>>
       \/ /\ proc = "failed"
          /\ UNCHANGED <<processVars, serverVars, dashboardVars>>
    /\ UNCHANGED <<portFree, failures, portChanges>>

\* Ctrl-C, or quit: Update cancels the context and quits.
AskToQuit ==
    /\ May("stop")
    /\ proc = "up" /\ panel = "open"
    /\ panel' = "closing"
    /\ cancelled' = TRUE
    /\ UNCHANGED <<launch, proc, watcher, serverVars, worldVars, logVars, lineVars, commands,
                   statVars, truth, changes>>

-----------------------------------------------------------------------------
(* The listener.                                                           *)

\* net.Listen.
Bind ==
    /\ serve = "binding"
    /\ IF portFree
       THEN serve' = "accepting" /\ listener' = "open"
       ELSE serve' = "failed" /\ UNCHANGED listener
    /\ UNCHANGED <<processVars, conns, worldVars, dashboardVars>>

\* Mistaken variant of CloseListener: does not close it once a client has come.
BugCloseListener ==
    /\ listener = "open" /\ cancelled
    /\ \A k \in Conns : conns[k].phase = "none"
    /\ listener' = "closed"
    /\ UNCHANGED <<processVars, serve, conns, worldVars, dashboardVars>>

\* The context is cancelled: the listener is closed, and connections that nobody
\* has accepted are reset.
CloseListener ==
    /\ listener = "open" /\ cancelled
    /\ listener' = "closed"
    /\ conns' = [k \in Conns |-> IF conns[k].phase = "queued" THEN NoConn ELSE conns[k]]
    /\ UNCHANGED <<processVars, serve, worldVars, dashboardVars>>

\* Accept fails and the context is done; after any other error it goes on.
AcceptEnds ==
    /\ serve = "accepting" /\ listener = "closed"
    /\ serve' = "done"
    /\ UNCHANGED <<processVars, listener, conns, worldVars, dashboardVars>>

\* A connection is accepted, given 60 seconds and a goroutine.
Accept(k) ==
    /\ serve = "accepting" /\ listener = "open"
    /\ conns[k].phase = "queued"
    /\ conns' = [conns EXCEPT ![k].phase = "reading"]
    /\ UNCHANGED <<processVars, serve, listener, worldVars, dashboardVars>>

-----------------------------------------------------------------------------
(* Connections.                                                            *)

\* The bytes that have arrived.
Received(k) == SubSeq(conns[k].stream, 1, conns[k].arrived)

SetConn(k, c) ==
    /\ conns' = [conns EXCEPT ![k] = c]
    /\ UNCHANGED <<processVars, serve, listener, worldVars, dashboardVars>>

\* A client connects, and its bytes arrive in pieces.
Dial(k) ==
    /\ listener = "open" /\ May("clients")
    /\ conns[k].phase = "none"
    /\ \E s \in Streams : SetConn(k, [NoConn EXCEPT !.phase = "queued", !.stream = s])

Arrive(k) ==
    /\ conns[k].phase \in {"queued", "reading"}
    /\ \E n \in Cuts \cup {Len(conns[k].stream)} :
          /\ conns[k].arrived < n /\ n <= Len(conns[k].stream)
          /\ SetConn(k, [conns[k] EXCEPT !.arrived = n])

\* Mistaken variant of ReadFrame: conn.Read for io.ReadFull of the payload.
BugReadFrame(k) ==
    /\ conns[k].phase = "reading"
    /\ Len(Received(k)) >= headerSize
    /\ SetConn(k, IF HeaderAccepted(Received(k))
                  THEN [conns[k] EXCEPT !.phase = "handle", !.frame =
                           [type |-> Received(k)[3],
                            payload |-> [i \in 1 .. PayloadLength(Received(k)) |->
                                IF headerSize + i <= Len(Received(k))
                                THEN Received(k)[headerSize + i] ELSE 0]]]
                  ELSE NoConn)

\* ReadFrame has the bytes it waits for: a frame, or an error.
ReadFrame(k) ==
    /\ conns[k].phase = "reading"
    /\ Len(Received(k)) >= Awaited(Received(k))
    /\ SetConn(k, IF HeaderAccepted(Received(k))
                  THEN [conns[k] EXCEPT !.phase = "handle", !.frame = FrameRead(Received(k))]
                  ELSE NoConn)

\* Mistaken variant of ReadGivesUp: the deadline is set when the header is there.
BugReadGivesUp(k) ==
    /\ conns[k].phase = "reading"
    /\ Len(Received(k)) >= headerSize
    /\ Len(Received(k)) < Awaited(Received(k))
    /\ SetConn(k, NoConn)

\* The deadline passes, or the client hangs up, while ReadFrame waits for bytes.
ReadGivesUp(k) ==
    /\ conns[k].phase = "reading"
    /\ Len(Received(k)) < Awaited(Received(k))
    /\ SetConn(k, NoConn)

\* The handler returns an answer, or the error of an unknown type.
Handle(k) ==
    /\ conns[k].phase = "handle"
    /\ SetConn(k, [conns[k] EXCEPT !.phase = "write"])

\* WriteFrame succeeds, fails, or takes longer than 30 seconds.
WriteAnswer(k) ==
    /\ conns[k].phase = "write"
    /\ SetConn(k, NoConn)

-----------------------------------------------------------------------------
(* Around the process.                                                     *)

\* Restart=on-failure.  A start every RestartSec is below systemd's limit.
Restart ==
    /\ launch.how = "service" /\ proc = "failed" /\ ~signalled
    /\ proc' = "boot"
    /\ UNCHANGED <<launch, watcher, cancelled, serverVars, worldVars, dashboardVars>>

Crash ==
    /\ May("trouble")
    /\ proc = "up"
    /\ failures < MaxFailures
    /\ failures' = failures + 1
    /\ Exit("failed")
    /\ UNCHANGED <<signalled, portFree, portChanges>>

\* Another program takes the port, or leaves it.
PortChanges ==
    /\ May("trouble")
    /\ listener # "open"
    /\ portChanges < MaxPortChanges
    /\ portChanges' = portChanges + 1
    /\ portFree' = ~portFree
    /\ UNCHANGED <<processVars, serverVars, dashboardVars, signalled, failures>>

\* runExpiry logs a line.
LogExpiry ==
    /\ WriteLine
    /\ panel # "off"
    /\ UNCHANGED <<panel, lineVars, commands, statVars, truth, changes>>

-----------------------------------------------------------------------------

Main == Start \/ HeadlessFails \/ HeadlessReturns \/ PanelReturns
Signals == WatchSignals \/ TakeSignal
Listening == Bind \/ CloseListener \/ AcceptEnds
Connection(k) == Accept(k) \/ ReadFrame(k) \/ ReadGivesUp(k) \/ Handle(k) \/ WriteAnswer(k)
Chain(k) == ReadStats(k) \/ ShowStats(k)
PanelLife == OpenPanel \/ ClosePanel
Chains == 0 .. MaxCommands

Next ==
    \/ Main \/ Signals \/ Listening
    \/ \E k \in Conns : Connection(k) \/ Dial(k) \/ Arrive(k)
    \/ \E k \in Chains : InPanel(Chain(k))
    \/ InPanel(TakeLine \/ ShowLine \/ PanelLife)
    \/ May("lines") /\ InPanel(LogExpiry \/ Resize)
    \/ May("counts") /\ InPanel(StoreChanges)
    \/ (May("lines") \/ May("counts")) /\ InPanel(RunCommand)
    \/ Signal \/ AskToQuit \/ Restart \/ Crash \/ PortChanges

\* Goroutines run, deadlines pass, chains tick, and systemd restarts.  Nothing
\* is asked of clients, of the operator, or of the port.
Fairness ==
    /\ WF_vars(Main) /\ WF_vars(Signals) /\ WF_vars(Listening) /\ WF_vars(Restart)
    /\ \A k \in Conns : WF_vars(Connection(k))
    /\ \A k \in Chains : WF_vars(InPanel(Chain(k)))
    /\ WF_vars(InPanel(TakeLine)) /\ WF_vars(InPanel(ShowLine)) /\ WF_vars(InPanel(PanelLife))

FairSpec == Init /\ [][Next]_vars /\ Fairness

TypeOK ==
    /\ launch \in Launches
    /\ proc \in {"boot", "up", "ok", "failed"}
    /\ watcher \in {"none", "starting", "watching", "told", "done"}
    /\ cancelled \in BOOLEAN
    /\ serve \in {"none", "binding", "accepting", "done", "failed"}
    /\ listener \in {"none", "open", "closed"}
    /\ \A k \in Conns :
          /\ conns[k].phase \in {"none", "queued", "reading", "handle", "write"}
          /\ conns[k].stream \in Streams \cup {<<>>}
          /\ conns[k].arrived \in 0 .. Len(conns[k].stream)
          /\ conns[k].frame \in Frames
    /\ signalled \in BOOLEAN /\ portFree \in BOOLEAN
    /\ failures \in 0 .. MaxFailures /\ portChanges \in 0 .. MaxPortChanges
    /\ TypeOKDashboard

-----------------------------------------------------------------------------

\* What a handler is given is a frame the client sent, byte for byte, however
\* its bytes were cut on the way: never a part of one, or one of two requests.
FrameIntact ==
    \A k \in Conns :
        conns[k].phase \in {"handle", "write"} => IsPrefix(Wire(conns[k].frame), conns[k].stream)

\* A client whose bytes have all arrived and begin with a whole frame is served,
\* although deadlines and short reads may end its connection, unless the daemon
\* stops listening.
WholeFrameServed ==
    \A k \in Conns :
        (/\ conns[k].phase \in {"queued", "reading"}
         /\ conns[k].arrived = Len(conns[k].stream)
         /\ Len(conns[k].stream) >= headerSize
         /\ HeaderAccepted(conns[k].stream)
         /\ Len(conns[k].stream) >= headerSize + PayloadLength(conns[k].stream))
            ~> (conns[k].phase = "handle" \/ listener # "open")

\* No client holds a goroutine for ever, whatever it sends or holds back.
ConnectionCloses ==
    \A k \in Conns : conns[k].phase # "none" ~> conns[k].phase = "none"

\* Whoever asks the daemon to stop is obeyed in every state of its start.  With
\* a terminal the signal may come when the daemon watches for it and the
\* dashboard does not yet: then only the server stops.
StopsOnSignal ==
    signalled ~> Exited \/ (~Headless /\ serve \in {"done", "failed"})

\* Under systemd the daemon comes up again and serves whenever the port is free
\* and nobody has stopped it: after a crash, a failed start, or a taken port.
ServiceComesUp ==
    []<>(launch.how = "service" /\ portFree /\ ~signalled => listener = "open")
=============================================================================
