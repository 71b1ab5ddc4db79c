---------------------------- MODULE DaemonProofs ----------------------------
(***************************************************************************)
(* Proofs about the process and its dashboard: types, that a handler is    *)
(* given what its client sent, and that the dashboard shows the log lines  *)
(* in order and without a gap, for every capacity of the channel and every *)
(* number of lines, connections and commands.                              *)
(***************************************************************************)
EXTENDS Daemon, FrameCodecProofs

-----------------------------------------------------------------------------
(* The kinds of steps, by what they do to the dashboard.                   *)

PanelTables == <<lineVars, commands, statVars, truth, changes>>

\* The dashboard's goroutines rest, although the program may start or end.
PanelRests ==
    /\ UNCHANGED <<logVars, PanelTables>>
    /\ \/ panel' = panel
       \/ panel = "off" /\ panel' = "wired"
       \/ panel # "off" /\ panel' \in {"closing", "closed"}

\* A goroutine of the daemon logs a line.
Logs == WriteLine /\ panel # "off" /\ UNCHANGED <<panel, PanelTables>>

PanelSteps ==
    \/ PanelRests \/ Logs
    \/ TakeLine \/ ShowLine \/ Resize \/ RunCommand \/ StoreChanges \/ OpenPanel
    \/ \E k \in Chains : ReadStats(k) \/ ShowStats(k)

\* A process in a terminal that is past its start has a dashboard, no other has
\* one; and signals are waited for by a process that is up.
PanelFits ==
    /\ proc = "boot" \/ Headless => panel = "off"
    /\ proc = "up" /\ ~Headless => panel # "off"
    /\ watcher # "none" => proc = "up"

LEMMA PanelKinds ==
    ASSUME PanelFits, [Next]_vars
    PROVE  PanelSteps
<1>e. ASSUME NEW status, Exit(status) PROVE PanelRests
  BY <1>e DEF Exit, PanelRests, PanelTables
<1>k. ASSUME UNCHANGED dashboardVars PROVE PanelRests
  BY <1>k DEF dashboardVars, PanelRests, PanelTables
<1>1. CASE Start
  BY <1>1, <1>e DEF Start, PanelFits, PanelRests, PanelTables, lineVars, logVars, statVars, PanelSteps
<1>2. CASE HeadlessFails \/ HeadlessReturns \/ PanelReturns
  BY <1>2, <1>e DEF HeadlessFails, HeadlessReturns, PanelReturns, PanelSteps
<1>3. CASE TakeSignal
  BY <1>3 DEF TakeSignal, LogLine, PanelFits, PanelSteps, Logs, PanelRests, PanelTables
<1>4. CASE WatchSignals \/ Listening \/ Restart \/ PortChanges
  BY <1>4, <1>k DEF WatchSignals, Listening, Bind, CloseListener, AcceptEnds, Restart, PortChanges,
                    PanelSteps
<1>5. ASSUME NEW k \in Conns, Connection(k) \/ Dial(k) \/ Arrive(k) PROVE PanelSteps
  BY <1>5, <1>k DEF Connection, Dial, Arrive, Accept, ReadFrame, ReadGivesUp, Handle, WriteAnswer,
                    SetConn, PanelSteps
<1>6. CASE InPanel(LogExpiry)
  BY <1>6 DEF InPanel, LogExpiry, PanelSteps, Logs, PanelTables
<1>7. CASE InPanel(ClosePanel)
  BY <1>7 DEF InPanel, ClosePanel, PanelSteps, PanelRests, PanelTables
<1>8. CASE Signal
  BY <1>8, <1>e, <1>k DEF Signal, PanelSteps, PanelRests, PanelTables
<1>9. CASE AskToQuit
  BY <1>9 DEF AskToQuit, PanelSteps, PanelRests, PanelTables
<1>10. CASE Crash
  BY <1>10, <1>e DEF Crash, PanelSteps
<1>11. CASE UNCHANGED vars
  BY <1>11, <1>k DEF vars, PanelSteps
<1>12. ASSUME NEW k \in Chains, InPanel(Chain(k)) PROVE PanelSteps
  BY <1>12 DEF InPanel, Chain, PanelSteps
<1>13. CASE InPanel(TakeLine) \/ InPanel(ShowLine) \/ InPanel(OpenPanel) \/ InPanel(Resize)
            \/ InPanel(StoreChanges) \/ InPanel(RunCommand)
  BY <1>13 DEF InPanel, PanelSteps
<1> QED
  BY <1>1, <1>2, <1>3, <1>4, <1>5, <1>6, <1>7, <1>8, <1>9, <1>10, <1>11, <1>12, <1>13
     DEF Next, Main, Signals, PanelLife, InPanel

LEMMA PanelFitsStep == ASSUME PanelFits, [Next]_vars PROVE PanelFits'
<1>e. ASSUME NEW status \in {"ok", "failed"}, Exit(status) PROVE PanelFits'
  BY <1>e DEF Exit, PanelFits, Headless
<1>k. ASSUME UNCHANGED <<launch, proc, watcher, panel>> PROVE PanelFits'
  BY <1>k DEF PanelFits, Headless
<1>1. CASE Start
  BY <1>1, <1>e DEF Start, PanelFits, Headless
<1>2. CASE HeadlessFails \/ HeadlessReturns \/ PanelReturns
  BY <1>2, <1>e DEF HeadlessFails, HeadlessReturns, PanelReturns
<1>3. CASE Signals
  BY <1>3 DEF Signals, WatchSignals, TakeSignal, dashboardVars, PanelFits, Headless
<1>4. CASE Listening \/ PortChanges \/ UNCHANGED vars
  BY <1>4, <1>k DEF Listening, Bind, CloseListener, AcceptEnds, PortChanges, vars, processVars,
                    dashboardVars
<1>5. CASE Restart
  BY <1>5 DEF Restart, PanelFits, Headless, dashboardVars
<1>6. ASSUME NEW k \in Conns, Connection(k) \/ Dial(k) \/ Arrive(k) PROVE PanelFits'
  BY <1>6, <1>k DEF Connection, Dial, Arrive, Accept, ReadFrame, ReadGivesUp, Handle, WriteAnswer,
                    SetConn, processVars, dashboardVars
<1>7. CASE Signal
  BY <1>7, <1>e DEF Signal, PanelFits, Headless, processVars, dashboardVars
<1>8. CASE AskToQuit
  BY <1>8 DEF AskToQuit, PanelFits, Headless
<1>9. CASE Crash
  BY <1>9, <1>e DEF Crash
<1>10. ASSUME NEW k \in Chains, InPanel(Chain(k)) PROVE PanelFits'
  BY <1>10, <1>k DEF InPanel, Chain, ReadStats, ShowStats, processVars
<1>11. CASE InPanel(TakeLine) \/ InPanel(ShowLine) \/ InPanel(Resize) \/ InPanel(StoreChanges)
            \/ InPanel(RunCommand) \/ InPanel(LogExpiry)
  BY <1>11, <1>k DEF InPanel, TakeLine, ShowLine, Resize, StoreChanges, RunCommand, LogExpiry,
                     processVars
<1>12. CASE InPanel(OpenPanel) \/ InPanel(ClosePanel)
  BY <1>12 DEF InPanel, OpenPanel, ClosePanel, processVars, PanelFits, Headless
<1> QED
  BY <1>1, <1>2, <1>3, <1>4, <1>5, <1>6, <1>7, <1>8, <1>9, <1>10, <1>11, <1>12
     DEF Next, Main, PanelLife, InPanel

LEMMA PanelsFit == FairSpec => []PanelFits
<1>1. Init => PanelFits
  BY DEF Init, DashboardInit, PanelFits
<1>2. PanelFits /\ [Next]_vars => PanelFits'
  BY PanelFitsStep
<1> QED
  BY <1>1, <1>2, PTL DEF FairSpec

-----------------------------------------------------------------------------
(* Connections.                                                            *)

Conn == [phase : {"none", "queued", "reading", "handle", "write"},
         stream : Streams \cup {<<>>}, arrived : Nat, frame : Frames]

\* A connection whose handler has a frame has one its client sent.
ConnOK(c) ==
    /\ c \in Conn
    /\ c.arrived <= Len(c.stream)
    /\ c.phase \in {"handle", "write"} => IsPrefix(Wire(c.frame), c.stream)

ConnsOK == conns = [k \in Conns |-> conns[k]] /\ \A k \in Conns : ConnOK(conns[k])

\* What ReadFrame returns stands at the beginning of the bytes that arrive.
LEMMA FrameAtStart ==
    ASSUME NEW s \in Seq(Byte), NEW n \in 0 .. Len(s), HeaderAccepted(SubSeq(s, 1, n)),
           Len(SubSeq(s, 1, n)) >= Awaited(SubSeq(s, 1, n))
    PROVE  FrameRead(SubSeq(s, 1, n)) \in Frames /\ IsPrefix(Wire(FrameRead(SubSeq(s, 1, n))), s)
<1> DEFINE r == SubSeq(s, 1, n)
<1>1. r \in Seq(Byte) /\ Len(r) = n /\ n \in Nat /\ n <= Len(s) /\ Len(s) \in Nat
  BY SMT
<1>2. \A m \in 0 .. n : SubSeq(r, 1, m) = SubSeq(s, 1, m)
  <2> SUFFICES ASSUME NEW m \in 0 .. n PROVE SubSeq(r, 1, m) = SubSeq(s, 1, m)
    OBVIOUS
  <2>1. SubSeq(r, 1, m) \in Seq(Byte) /\ SubSeq(s, 1, m) \in Seq(Byte)
        /\ Len(SubSeq(r, 1, m)) = m /\ Len(SubSeq(s, 1, m)) = m
    BY SMT
  <2>2. \A i \in 1 .. m : SubSeq(r, 1, m)[i] = s[i] /\ SubSeq(s, 1, m)[i] = s[i]
    BY SMT
  <2> QED
    BY <2>1, <2>2, SeqEqual
<1> HIDE DEF r
<1>3. Len(r) >= headerSize /\ Len(r) >= headerSize + PayloadLength(r)
  <2>1. HeaderAccepted(r) /\ Len(r) >= Awaited(r)
    BY DEF r
  <2>2. Awaited(r) = IF Len(r) < headerSize THEN headerSize ELSE headerSize + PayloadLength(r)
    BY <2>1, Zenon DEF Awaited
  <2>3. Len(r) >= headerSize
    BY <1>1, <2>1, <2>2, SMT DEF headerSize
  <2> QED
    BY <1>1, <2>1, <2>2, <2>3, SMT DEF headerSize
<1> DEFINE w == Wire(FrameRead(r))
           n7 == headerSize + PayloadLength(r)
<1>4. FrameRead(r) \in Frames /\ PayloadLength(r) \in Nat /\ w = SubSeq(r, 1, n7)
  <2>1. HeaderAccepted(r)
    BY DEF r
  <2> QED
    BY <1>1, <1>3, <2>1, ReadIsWritten, Zenon
<1>5. n7 \in 0 .. n
  BY <1>1, <1>3, <1>4, SMT DEF headerSize
<1> HIDE DEF n7
<1>6. w = SubSeq(s, 1, n7) /\ n7 \in Nat /\ n7 <= Len(s)
  BY <1>1, <1>2, <1>4, <1>5, SMT
<1> HIDE DEF w
<1>7. Len(w) = n7
  BY <1>6, SMT
<1>8. SubSeq(w, 1, n7) = w
  <2>1. w \in Seq(Byte)
    BY <1>6, SMT
  <2> QED
    BY <1>7, <2>1, SubSeqFull
<1> QED
  BY <1>4, <1>6, <1>7, <1>8 DEF IsPrefix, w, r

\* The other actions give a connection no frame.
LEMMA ConnsStep == ASSUME ConnsOK, [Next]_vars PROVE ConnsOK'
<1> USE DEF ConnsOK
<1>n. NoFrame \in Frames /\ ConnOK(NoConn)
  <2>1. NoFrame \in Frames
    BY DEF NoFrame, Frames, Byte
  <2> QED
    BY <2>1 DEF ConnOK, Conn, NoConn
<1>e. ASSUME NEW status, Exit(status) PROVE ConnsOK'
  BY <1>e, <1>n DEF Exit
<1>s. ASSUME NEW k \in Conns, NEW c, ConnOK(c), conns' = [conns EXCEPT ![k] = c] PROVE ConnsOK'
  BY <1>s
<1>k. UNCHANGED conns => ConnsOK'
  OBVIOUS
<1>1. ASSUME NEW k \in Conns, Accept(k) PROVE ConnsOK'
  <2>1. conns' = [conns EXCEPT ![k] = [conns[k] EXCEPT !.phase = "reading"]]
    BY <1>1 DEF Accept
  <2>2. ConnOK([conns[k] EXCEPT !.phase = "reading"])
    BY DEF ConnOK, Conn
  <2> QED
    BY <1>s, <2>1, <2>2
<1>2. ASSUME NEW k \in Conns, Dial(k) PROVE ConnsOK'
  <2>1. PICK s \in Streams : conns' = [conns EXCEPT ![k] = [NoConn EXCEPT !.phase = "queued",
                                                                         !.stream = s]]
    BY <1>2 DEF Dial, SetConn
  <2>2. Len(s) \in Nat
    BY DaemonAssumption
  <2>3. ConnOK([NoConn EXCEPT !.phase = "queued", !.stream = s])
    <3> DEFINE c == [NoConn EXCEPT !.phase = "queued", !.stream = s]
    <3>1. c \in Conn
      BY <1>n DEF ConnOK, Conn
    <3>2. c.phase = "queued" /\ c.stream = s /\ c.arrived = 0
      BY DEF NoConn
    <3> HIDE DEF c
    <3>3. ConnOK(c)
      BY <2>2, <3>1, <3>2 DEF ConnOK
    <3> QED
      BY <3>3 DEF c
  <2> QED
    BY <1>s, <2>1, <2>3
<1>3. ASSUME NEW k \in Conns, Arrive(k) PROVE ConnsOK'
  <2>1. conns[k].stream \in Seq(Byte) /\ ConnOK(conns[k]) /\ conns[k].phase \in {"queued", "reading"}
    BY <1>3, DaemonAssumption DEF ConnOK, Conn, Arrive
  <2>2. PICK n \in Cuts \cup {Len(conns[k].stream)} :
           n <= Len(conns[k].stream) /\ conns' = [conns EXCEPT ![k] = [conns[k] EXCEPT !.arrived = n]]
    BY <1>3 DEF Arrive, SetConn
  <2>3. n \in Nat
    BY <2>1, <2>2, DaemonAssumption
  <2>4. ConnOK([conns[k] EXCEPT !.arrived = n])
    BY <2>1, <2>2, <2>3 DEF ConnOK, Conn
  <2> QED
    BY <1>s, <2>2, <2>4
<1>4. ASSUME NEW k \in Conns, ReadFrame(k) PROVE ConnsOK'
  <2>1. ConnOK(conns[k]) /\ conns[k].stream \in Seq(Byte)
    <3>1. ConnOK(conns[k])
      OBVIOUS
    <3> QED
      BY <3>1, DaemonAssumption, EmptySeq DEF ConnOK, Conn
  <2> DEFINE r == Received(k)
             c == [conns[k] EXCEPT !.phase = "handle", !.frame = FrameRead(r)]
  <2>2. Len(r) >= Awaited(r)
        /\ conns' = [conns EXCEPT ![k] = IF HeaderAccepted(r) THEN c ELSE NoConn]
    BY <1>4 DEF ReadFrame, SetConn
  <2>3. HeaderAccepted(r) => FrameRead(r) \in Frames /\ IsPrefix(Wire(FrameRead(r)), conns[k].stream)
    <3>1. conns[k].arrived \in 0 .. Len(conns[k].stream)
      BY <2>1 DEF ConnOK, Conn
    <3> QED
      BY <2>1, <2>2, <3>1, FrameAtStart DEF Received
  <2> HIDE DEF r
  <2>4. HeaderAccepted(r) => ConnOK(c)
    BY <2>1, <2>3 DEF ConnOK, Conn
  <2> HIDE DEF c
  <2> QED
    BY <1>n, <1>s, <2>2, <2>4
<1>5. ASSUME NEW k \in Conns, ReadGivesUp(k) \/ WriteAnswer(k) PROVE ConnsOK'
  BY <1>5, <1>n, <1>s DEF ReadGivesUp, WriteAnswer, SetConn
<1>6. ASSUME NEW k \in Conns, Handle(k) PROVE ConnsOK'
  <2>1. conns' = [conns EXCEPT ![k] = [conns[k] EXCEPT !.phase = "write"]]
        /\ ConnOK(conns[k]) /\ conns[k].phase = "handle"
    BY <1>6 DEF Handle, SetConn
  <2>2. ConnOK([conns[k] EXCEPT !.phase = "write"])
    BY <2>1 DEF ConnOK, Conn
  <2> QED
    BY <1>s, <2>1, <2>2
<1>7. CASE CloseListener
  BY <1>7, <1>n DEF CloseListener
<1>8. CASE Main
  BY <1>8, <1>e, <1>k DEF Main, Start, HeadlessFails, HeadlessReturns, PanelReturns
<1>9. CASE Signals \/ Bind \/ AcceptEnds \/ AskToQuit \/ Restart \/ PortChanges
  BY <1>9, <1>k DEF Signals, WatchSignals, TakeSignal, Bind, AcceptEnds, AskToQuit, Restart,
                    PortChanges, serverVars
<1>10. CASE Signal \/ Crash
  BY <1>10, <1>e, <1>k DEF Signal, Crash, serverVars
<1>11. ASSUME UNCHANGED serverVars PROVE ConnsOK'
  BY <1>11 DEF serverVars
<1>12. UNCHANGED vars => UNCHANGED serverVars
  BY DEF vars
<1>13. ASSUME Next PROVE \/ Main \/ Signals \/ Listening \/ Signal \/ AskToQuit \/ Restart \/ Crash
                         \/ PortChanges \/ UNCHANGED serverVars
                         \/ \E k \in Conns : Connection(k) \/ Dial(k) \/ Arrive(k)
  BY <1>13 DEF Next, InPanel
<1> QED
  BY <1>1, <1>2, <1>3, <1>4, <1>5, <1>6, <1>7, <1>8, <1>9, <1>10, <1>11, <1>12, <1>13
     DEF Connection, Listening

LEMMA ConnsAreOK == FairSpec => []ConnsOK
<1>1. Init => ConnsOK
  <2>1. NoFrame \in Frames
    BY DEF NoFrame, Frames, Byte
  <2>2. ConnOK(NoConn)
    BY <2>1 DEF ConnOK, Conn, NoConn
  <2> QED
    BY <2>2 DEF Init, ConnsOK
<1>2. ConnsOK /\ [Next]_vars => ConnsOK'
  BY ConnsStep
<1> QED
  BY <1>1, <1>2, PTL DEF FairSpec

\* A handler is given what its client sent, whatever the client sends and
\* however the bytes arrive: never a part of a frame, or one of two requests.
THEOREM HandlersGetWholeFrames == FairSpec => []FrameIntact
<1>1. ConnsOK => FrameIntact
  BY DEF ConnsOK, ConnOK, FrameIntact
<1> QED
  BY <1>1, ConnsAreOK, PTL

-----------------------------------------------------------------------------
(* Sequences of lines.                                                     *)

LEMMA AppendSet ==
    ASSUME NEW S, NEW s \in Seq(S), NEW x \in S
    PROVE  ToSet(Append(s, x)) = ToSet(s) \cup {x}
<1>1. /\ DOMAIN s = 1 .. Len(s) /\ DOMAIN Append(s, x) = 1 .. Len(s) + 1 /\ Len(s) \in Nat
      /\ \A i \in 1 .. Len(s) : Append(s, x)[i] = s[i]
      /\ Append(s, x)[Len(s) + 1] = x
  BY AppendProperties, LenProperties
<1> QED
  BY <1>1 DEF ToSet

LEMMA TailSet ==
    ASSUME NEW S, NEW s \in Seq(S), s # <<>>
    PROVE  /\ ToSet(s) = {Head(s)} \cup ToSet(Tail(s))
           /\ Tail(s) \in Seq(S) /\ Len(Tail(s)) = Len(s) - 1 /\ Len(s) \in Nat \ {0}
           /\ \A i \in DOMAIN Tail(s) : i + 1 \in DOMAIN s /\ Tail(s)[i] = s[i + 1]
           /\ 1 \in DOMAIN s /\ Head(s) = s[1]
<1>1. /\ Tail(s) \in Seq(S) /\ Len(Tail(s)) = Len(s) - 1
      /\ \A i \in 1 .. Len(Tail(s)) : Tail(s)[i] = s[i + 1]
  BY HeadTailProperties
<1>2. Len(s) \in Nat /\ Len(s) # 0 /\ DOMAIN s = 1 .. Len(s) /\ DOMAIN Tail(s) = 1 .. Len(Tail(s))
  BY <1>1, LenProperties, EmptySeq
<1>3. Head(s) = s[1]
  BY SMT
<1>4. \A i \in DOMAIN s : i = 1 \/ (i - 1 \in DOMAIN Tail(s) /\ s[i] = Tail(s)[i - 1])
  BY <1>1, <1>2
<1>5. 1 \in DOMAIN s /\ \A i \in DOMAIN Tail(s) : i + 1 \in DOMAIN s
  BY <1>1, <1>2
<1>6. ToSet(s) = {Head(s)} \cup ToSet(Tail(s))
  <2>1. ASSUME NEW x \in ToSet(s) PROVE x \in {Head(s)} \cup ToSet(Tail(s))
    BY <1>3, <1>4, <2>1 DEF ToSet
  <2>2. \A x \in ToSet(Tail(s)) : x \in ToSet(s)
    BY <1>1, <1>2, <1>5 DEF ToSet
  <2>3. Head(s) \in ToSet(s)
    BY <1>3, <1>5 DEF ToSet
  <2> QED
    BY <2>1, <2>2, <2>3
<1> QED
  BY <1>1, <1>2, <1>3, <1>5, <1>6

\* How many lines Newest takes off the front, and what is left.
Excess(lines) == IF Len(lines) > tuiMaxLines THEN Len(lines) - tuiMaxLines ELSE 0

LEMMA NewestIs ==
    ASSUME NEW S, NEW s \in Seq(S)
    PROVE  /\ Newest(s) \in Seq(S)
           /\ Excess(s) \in 0 .. Len(s)
           /\ Len(Newest(s)) = Len(s) - Excess(s) /\ Len(Newest(s)) <= tuiMaxLines
           /\ \A i \in 1 .. Len(Newest(s)) : Newest(s)[i] = s[i + Excess(s)]
<1>1. Len(s) \in Nat /\ tuiMaxLines \in Nat /\ tuiMaxLines > 0
  BY LenProperties, DashboardAssumption
<1>2. CASE Len(s) > tuiMaxLines
  <2> DEFINE a == Len(s) - tuiMaxLines + 1
  <2>1. Newest(s) = SubSeq(s, a, Len(s)) /\ Excess(s) = a - 1
    BY <1>1, <1>2 DEF Newest, Excess
  <2>2. a \in Nat /\ a > 0 /\ a <= Len(s) /\ Len(s) - a + 1 = tuiMaxLines
    BY <1>1, <1>2
  <2> HIDE DEF a
  <2>3. \A i \in a .. Len(s) : s[i] \in S
    BY <1>1, <2>2, ElementOfSeq
  <2>4. /\ SubSeq(s, a, Len(s)) \in Seq(S) /\ Len(SubSeq(s, a, Len(s))) = tuiMaxLines
        /\ \A i \in 1 .. tuiMaxLines : SubSeq(s, a, Len(s))[i] = s[a + i - 1]
    BY <1>1, <2>2, <2>3, SubSeqProperties
  <2>5. \A i \in 1 .. tuiMaxLines : a + i - 1 = i + (a - 1)
    BY <1>1, <2>2
  <2> QED
    BY <1>1, <2>1, <2>2, <2>4, <2>5
<1>3. CASE ~(Len(s) > tuiMaxLines)
  BY <1>1, <1>3 DEF Newest, Excess
<1> QED
  BY <1>2, <1>3

Ordered(s) ==
    \A i, j \in DOMAIN s : i < j /\ Output \notin {s[i], s[j]} => s[i] < s[j]

\* A newer line below the others keeps them in order.
LEMMA OrderedAppend ==
    ASSUME NEW s \in Seq(Nat), Ordered(s), NEW x \in Nat,
           \A n \in ToSet(s) \ {Output} : x # Output => n < x
    PROVE  Ordered(Append(s, x))
<1>1. /\ DOMAIN s = 1 .. Len(s) /\ DOMAIN Append(s, x) = 1 .. Len(s) + 1 /\ Len(s) \in Nat
      /\ \A i \in 1 .. Len(s) : Append(s, x)[i] = s[i]
      /\ Append(s, x)[Len(s) + 1] = x
  BY AppendProperties, LenProperties
<1>2. \A i \in DOMAIN s : s[i] \in ToSet(s)
  BY DEF ToSet
<1> QED
  BY <1>1, <1>2 DEF Ordered

\* What Newest keeps is in order, ends with the last line, and is newer than
\* what it takes off.
LEMMA OrderedNewest ==
    ASSUME NEW s \in Seq(Nat), Ordered(s)
    PROVE  /\ Ordered(Newest(s))
           /\ ToSet(Newest(s)) \subseteq ToSet(s)
           /\ Len(s) # 0 => s[Len(s)] \in ToSet(Newest(s))
           /\ \A m \in ToSet(s) \ ToSet(Newest(s)), n \in ToSet(Newest(s)) :
                 Output \notin {m, n} => m < n
<1> DEFINE d == Excess(s)
           l == Len(Newest(s))
<1>1. /\ DOMAIN s = 1 .. Len(s) /\ Len(s) \in Nat /\ d \in Nat /\ l \in Nat
      /\ DOMAIN Newest(s) = 1 .. l /\ l = Len(s) - d
      /\ \A i \in 1 .. l : Newest(s)[i] = s[i + d]
  BY NewestIs, LenProperties
<1>2. Len(s) # 0 => l # 0
  BY LenProperties, DashboardAssumption DEF Excess, Newest
<1> HIDE DEF d, l
<1>3. \A i \in 1 .. l : i + d \in DOMAIN s
  BY <1>1
<1>4. Ordered(Newest(s))
  <2> SUFFICES ASSUME NEW i \in 1 .. l, NEW j \in 1 .. l, i < j,
                      Output \notin {Newest(s)[i], Newest(s)[j]}
               PROVE  Newest(s)[i] < Newest(s)[j]
    BY <1>1 DEF Ordered
  <2>1. i + d < j + d
    BY <1>1
  <2> QED
    BY <1>1, <1>3, <2>1 DEF Ordered
<1>5. ToSet(Newest(s)) \subseteq ToSet(s)
  BY <1>1, <1>3 DEF ToSet
<1>6. \A i \in DOMAIN s : i > d => s[i] \in ToSet(Newest(s))
  <2> SUFFICES ASSUME NEW i \in DOMAIN s, i > d PROVE s[i] \in ToSet(Newest(s))
    OBVIOUS
  <2>1. i - d \in 1 .. l /\ (i - d) + d = i
    BY <1>1
  <2> QED
    BY <1>1, <2>1 DEF ToSet
<1>7. Len(s) # 0 => s[Len(s)] \in ToSet(Newest(s))
  <2>1. ASSUME Len(s) # 0 PROVE Len(s) \in DOMAIN s /\ Len(s) > d
    <3> DEFINE n == Len(s)
    <3>1. n \in Nat /\ n # 0 /\ l \in Nat /\ l # 0 /\ d \in Nat /\ l = n - d
      BY <1>1, <1>2, <2>1
    <3> HIDE DEF n
    <3>2. n > d /\ n \in 1 .. n
      BY <3>1
    <3> QED
      BY <1>1, <3>2 DEF n
  <2> QED
    BY <1>6, <2>1
<1>8. ASSUME NEW m \in ToSet(s) \ ToSet(Newest(s)), NEW n \in ToSet(Newest(s)), Output \notin {m, n}
      PROVE  m < n
  <2>1. PICK i \in DOMAIN s : s[i] = m
    BY DEF ToSet
  <2>2. PICK j \in 1 .. l : s[j + d] = n
    BY <1>1 DEF ToSet
  <2>3. i <= d
    BY <1>1, <1>6, <2>1
  <2>4. i < j + d /\ j + d \in DOMAIN s
    BY <1>1, <1>3, <2>3
  <2> QED
    BY <1>8, <2>1, <2>2, <2>4 DEF Ordered
<1> QED
  BY <1>4, <1>5, <1>7, <1>8

-----------------------------------------------------------------------------
(* Types.                                                                  *)

\* The lines exceed the limit of the screen by the output of commands at most,
\* which nothing trims before the next log line.
Trimmed == Len(logLines) <= tuiMaxLines + commands

LEMMA SetLinesTypes ==
    ASSUME TypeOKDashboard, NEW lines \in Seq(0 .. MaxLines), SetLines(lines)
    PROVE  logLines' = lines /\ view' \in Seq(0 .. MaxLines) /\ ready' = ready
BY DEF SetLines, TypeOKDashboard

LEMMA PanelTypes ==
    ASSUME TypeOKDashboard, Trimmed, PanelSteps
    PROVE  TypeOKDashboard' /\ Trimmed'
<1> USE DEF TypeOKDashboard, Trimmed
<1>b. /\ LogCap \in Nat \ {0} /\ tuiMaxLines \in Nat \ {0} /\ MaxLines \in Nat
      /\ MaxCommands \in Nat /\ MaxChanges \in Nat /\ MaxReadErrors \in Nat
  BY DashboardAssumption
<1>l. Len(logLines) \in Nat
  BY LenProperties
<1>1. CASE PanelRests
  BY <1>1 DEF PanelRests, PanelTables, logVars, lineVars, statVars
<1>2. CASE Logs
  <2>1. written' \in 1 .. MaxLines /\ written' \in 0 .. MaxLines
    BY <1>2, <1>b DEF Logs, WriteLine
  <2>2. logCh' \in Seq(1 .. MaxLines) /\ Len(logCh') <= LogCap
    <3>1. CASE UNCHANGED logCh
      BY <3>1
    <3>2. CASE Len(logCh) < LogCap /\ logCh' = Append(logCh, written')
      <4>1. Len(logCh) \in Nat
        BY LenProperties
      <4> QED
        BY <1>b, <2>1, <3>2, <4>1, AppendProperties
    <3> QED
      BY <1>2, <3>1, <3>2 DEF Logs, WriteLine
  <2>3. dropped' \subseteq 1 .. MaxLines
    BY <1>2, <2>1 DEF Logs, WriteLine
  <2> QED
    BY <1>2, <2>1, <2>2, <2>3 DEF Logs, WriteLine, PanelTables, lineVars, statVars
<1>3. CASE TakeLine
  <2>1. Tail(logCh) \in Seq(1 .. MaxLines) /\ Head(logCh) \in 1 .. MaxLines
        /\ Len(Tail(logCh)) <= LogCap
    <3>1. logCh # <<>>
      BY <1>3 DEF TakeLine
    <3>2. Tail(logCh) \in Seq(1 .. MaxLines) /\ Len(Tail(logCh)) = Len(logCh) - 1
          /\ Len(logCh) \in Nat /\ Head(logCh) \in 1 .. MaxLines
      BY <3>1, HeadTailProperties, LenProperties
    <3> QED
      BY <1>b, <3>2
  <2>2. waits' \in Nat
    BY <1>3 DEF TakeLine
  <2>3. logCh' = Tail(logCh) /\ held' = held \cup {Head(logCh)}
    BY <1>3 DEF TakeLine
  <2> QED
    BY <1>3, <2>1, <2>2, <2>3 DEF TakeLine, lineVars, statVars
<1>4. CASE ShowLine
  <2>1. PICK n \in held : held' = held \ {n} /\ SetLines(Newest(Append(logLines, n)))
    BY <1>4 DEF ShowLine
  <2>2. n \in 0 .. MaxLines
    BY <1>b
  <2>3. Append(logLines, n) \in Seq(0 .. MaxLines)
    BY <2>2, AppendProperties
  <2>4. Newest(Append(logLines, n)) \in Seq(0 .. MaxLines)
        /\ Len(Newest(Append(logLines, n))) <= tuiMaxLines
    BY <2>3, NewestIs
  <2>5. /\ logLines' = Newest(Append(logLines, n)) /\ view' \in Seq(0 .. MaxLines)
        /\ ready' = ready
    BY <2>1, <2>4, SetLinesTypes
  <2>6. Len(logLines') \in Nat /\ Len(logLines') <= tuiMaxLines
    BY <2>4, <2>5, LenProperties
  <2> QED
    BY <1>4, <1>b, <2>1, <2>4, <2>5, <2>6 DEF ShowLine, statVars
<1>5. CASE Resize
  BY <1>5 DEF Resize, logVars, statVars
<1>6. CASE RunCommand
  <2>1. <<>> \in Seq(0 .. MaxLines) /\ Len(<<>>) = 0
    BY EmptySeq
  <2>2. Append(logLines, Output) \in Seq(0 .. MaxLines)
        /\ Len(Append(logLines, Output)) = Len(logLines) + 1
    BY <1>b, AppendProperties DEF Output
  <2>3. /\ logLines' \in Seq(0 .. MaxLines) /\ Len(logLines') \in Nat
        /\ Len(logLines') <= Len(logLines) + 1
        /\ view' \in Seq(0 .. MaxLines) /\ ready' = ready
    <3>1. CASE SetLines(Append(logLines, Output))
      <4>1. logLines' = Append(logLines, Output) /\ view' \in Seq(0 .. MaxLines) /\ ready' = ready
        BY <2>2, <3>1, SetLinesTypes
      <4> QED
        BY <1>l, <2>2, <4>1
    <3>2. CASE SetLines(<<>>)
      <4>1. logLines' = <<>> /\ view' \in Seq(0 .. MaxLines) /\ ready' = ready
        BY <2>1, <3>2, SetLinesTypes
      <4> QED
        BY <1>l, <2>1, <4>1
    <3> QED
      BY <1>6, <3>1, <3>2 DEF RunCommand
  <2>4. commands' \in 0 .. MaxCommands /\ commands' = commands + 1
    BY <1>6, <1>b DEF RunCommand
  <2>5. chains' \in [0 .. MaxCommands -> [at : {"none", "due", "ready"}, read : Counts]]
    BY <1>6, <2>4 DEF RunCommand, Due, Counts
  <2>6. Len(logLines') <= tuiMaxLines + commands' /\ Len(logLines') <= tuiMaxLines + MaxCommands
    BY <1>b, <1>l, <2>3, <2>4
  <2> QED
    BY <1>6, <2>3, <2>4, <2>5, <2>6 DEF RunCommand, logVars
<1>7. CASE StoreChanges
  BY <1>7, <1>b DEF StoreChanges, logVars, lineVars, statVars
<1>8. CASE OpenPanel
  <2>1. chains' \in [0 .. MaxCommands -> [at : {"none", "due", "ready"}, read : Counts]]
    BY <1>8 DEF OpenPanel, Due, Counts
  <2> QED
    BY <1>8, <2>1 DEF OpenPanel, lineVars
<1>9. ASSUME NEW k \in Chains, ReadStats(k) PROVE TypeOKDashboard' /\ Trimmed'
  <2>1. chains' \in [0 .. MaxCommands -> [at : {"none", "due", "ready"}, read : Counts]]
    BY <1>9 DEF ReadStats, Counts
  <2>2. readErrors' \in 0 .. MaxReadErrors
    BY <1>9, <1>b DEF ReadStats
  <2> QED
    BY <1>9, <2>1, <2>2 DEF ReadStats, logVars, lineVars
<1>10. ASSUME NEW k \in Chains, ShowStats(k) PROVE TypeOKDashboard' /\ Trimmed'
  <2>1. chains' \in [0 .. MaxCommands -> [at : {"none", "due", "ready"}, read : Counts]]
    BY <1>10 DEF ShowStats, Due, Counts
  <2>2. screen' \in Counts
    BY <1>10 DEF ShowStats, Chains
  <2> QED
    BY <1>10, <2>1, <2>2 DEF ShowStats, logVars, lineVars
<1> QED
  BY <1>1, <1>2, <1>3, <1>4, <1>5, <1>6, <1>7, <1>8, <1>9, <1>10 DEF PanelSteps

\* The rest of the process.
ProcessTypes ==
    /\ launch \in Launches
    /\ proc \in {"boot", "up", "ok", "failed"}
    /\ watcher \in {"none", "starting", "watching", "told", "done"}
    /\ cancelled \in BOOLEAN
    /\ serve \in {"none", "binding", "accepting", "done", "failed"}
    /\ listener \in {"none", "open", "closed"}
    /\ signalled \in BOOLEAN /\ portFree \in BOOLEAN
    /\ failures \in 0 .. MaxFailures /\ portChanges \in 0 .. MaxPortChanges

LEMMA ProcessStep == ASSUME ProcessTypes, [Next]_vars PROVE ProcessTypes'
<1> USE DEF ProcessTypes
<1>b. MaxFailures \in Nat /\ MaxPortChanges \in Nat
  BY DaemonAssumption
<1>e. ASSUME NEW status \in {"ok", "failed"}, Exit(status),
             UNCHANGED <<signalled, portFree, portChanges>>, failures' \in 0 .. MaxFailures
      PROVE  ProcessTypes'
  BY <1>e DEF Exit
<1>k. ASSUME UNCHANGED <<processVars, serve, listener, worldVars>> PROVE ProcessTypes'
  BY <1>k DEF processVars, worldVars
<1>f. failures < MaxFailures /\ failures' = failures + 1 => failures' \in 0 .. MaxFailures
  BY <1>b
<1>1. CASE Start
  <2>1. CASE failures < MaxFailures /\ failures' = failures + 1 /\ Exit("failed")
    BY <1>1, <1>e, <1>f, <2>1 DEF Start
  <2> QED
    BY <1>1, <2>1 DEF Start
<1>2. CASE HeadlessFails \/ HeadlessReturns \/ PanelReturns
  BY <1>2, <1>e DEF HeadlessFails, HeadlessReturns, PanelReturns, worldVars
<1>3. CASE Signals
  BY <1>3 DEF Signals, WatchSignals, TakeSignal, serverVars, worldVars
<1>4. CASE Listening
  BY <1>4 DEF Listening, Bind, CloseListener, AcceptEnds, processVars, worldVars
<1>5. CASE PortChanges
  BY <1>5, <1>b DEF PortChanges, processVars, serverVars
<1>6. CASE Restart
  BY <1>6 DEF Restart, serverVars, worldVars
<1>7. ASSUME NEW k \in Conns, Connection(k) \/ Dial(k) \/ Arrive(k) PROVE ProcessTypes'
  BY <1>7, <1>k DEF Connection, Dial, Arrive, Accept, ReadFrame, ReadGivesUp, Handle, WriteAnswer,
                    SetConn
<1>8. CASE Signal
  <2>1. signalled' = TRUE /\ UNCHANGED <<portFree, failures, portChanges>>
    BY <1>8 DEF Signal
  <2>2. CASE Exit("ok")
    BY <2>1, <2>2 DEF Exit
  <2>3. CASE /\ watcher' \in {"told", watcher}
             /\ UNCHANGED <<launch, proc, cancelled, serverVars>>
    BY <2>1, <2>3 DEF serverVars
  <2>4. CASE UNCHANGED <<processVars, serverVars>>
    BY <2>1, <2>4 DEF processVars, serverVars
  <2> QED
    BY <1>8, <2>2, <2>3, <2>4 DEF Signal
<1>9. CASE AskToQuit
  BY <1>9 DEF AskToQuit, serverVars, worldVars
<1>10. CASE Crash
  BY <1>10, <1>e, <1>f DEF Crash
<1>11. ASSUME UNCHANGED <<processVars, serverVars, worldVars>> PROVE ProcessTypes'
  BY <1>11, <1>k DEF serverVars
<1>12. UNCHANGED vars => UNCHANGED <<processVars, serverVars, worldVars>>
  BY DEF vars
<1>13. ASSUME Next PROVE \/ Main \/ Signals \/ Listening \/ Signal \/ AskToQuit \/ Restart \/ Crash
                         \/ PortChanges \/ UNCHANGED <<processVars, serverVars, worldVars>>
                         \/ \E k \in Conns : Connection(k) \/ Dial(k) \/ Arrive(k)
  BY <1>13 DEF Next, InPanel
<1> QED
  BY <1>1, <1>2, <1>3, <1>4, <1>5, <1>6, <1>7, <1>8, <1>9, <1>10, <1>11, <1>12, <1>13 DEF Main

PanelTyped == TypeOKDashboard /\ Trimmed

LEMMA PanelsTyped == FairSpec => []PanelTyped
<1>1. Init => PanelTyped
  <2> SUFFICES ASSUME Init PROVE PanelTyped
    OBVIOUS
  <2>1. <<>> \in Seq(0 .. MaxLines) /\ <<>> \in Seq(1 .. MaxLines) /\ Len(<<>>) = 0
    BY EmptySeq
  <2> QED
    BY <2>1, DashboardAssumption
       DEF Init, DashboardInit, PanelTyped, TypeOKDashboard, Trimmed, NoChain, Counts
<1>2. PanelFits /\ PanelTyped /\ [Next]_vars => PanelTyped'
  BY PanelKinds, PanelTypes DEF PanelTyped
<1> QED
  BY <1>1, <1>2, PanelsFit, PTL DEF FairSpec

\* The types are right, for every number of connections, lines and commands:
\* the channel stays within its capacity, and the lines of the screen within
\* their limit and the output of commands.
THEOREM TypeCorrect == FairSpec => []TypeOK
<1>1. Init => ProcessTypes
  <2>1. 0 \in 0 .. MaxFailures /\ 0 \in 0 .. MaxPortChanges
    BY DaemonAssumption
  <2>2. Init => portFree \in BOOLEAN
    BY DEF Init, May
  <2> QED
    BY <2>1, <2>2 DEF Init, ProcessTypes
<1>2. ProcessTypes /\ [Next]_vars => ProcessTypes'
  BY ProcessStep
<1>3. ProcessTypes /\ ConnsOK /\ PanelTyped => TypeOK
  <2> SUFFICES ASSUME ProcessTypes, ConnsOK, PanelTyped PROVE TypeOK
    OBVIOUS
  <2>1. ASSUME NEW k \in Conns
        PROVE  /\ conns[k].phase \in {"none", "queued", "reading", "handle", "write"}
               /\ conns[k].stream \in Streams \cup {<<>>}
               /\ conns[k].arrived \in 0 .. Len(conns[k].stream)
               /\ conns[k].frame \in Frames
    <3>1. ConnOK(conns[k])
      BY DEF ConnsOK
    <3>2. conns[k].stream \in Seq(Byte)
      BY <3>1, DaemonAssumption, EmptySeq DEF ConnOK, Conn
    <3>3. Len(conns[k].stream) \in Nat
      BY <3>2, LenProperties
    <3> QED
      BY <3>1, <3>3 DEF ConnOK, Conn
  <2> QED
    BY <2>1 DEF ProcessTypes, PanelTyped, TypeOK
<1> QED
  BY <1>1, <1>2, <1>3, ConnsAreOK, PanelsTyped, PTL DEF FairSpec

-----------------------------------------------------------------------------
(* The viewport.                                                           *)

\* The viewport shows the lines of the model as soon as there is one.
THEOREM ViewIsCurrent == FairSpec => []ViewFollowsLines
<1>1. Init => ViewFollowsLines
  BY DEF Init, DashboardInit, ViewFollowsLines
<1>2. ASSUME ViewFollowsLines, PanelSteps PROVE ViewFollowsLines'
  <2>1. ASSUME NEW lines, SetLines(lines) PROVE ViewFollowsLines'
    BY <2>1 DEF SetLines, ViewFollowsLines
  <2>2. CASE ShowLine \/ RunCommand
    BY <2>1, <2>2 DEF ShowLine, RunCommand
  <2>3. CASE Resize
    BY <2>3 DEF Resize, ViewFollowsLines
  <2>4. ASSUME UNCHANGED lineVars PROVE ViewFollowsLines'
    BY <1>2, <2>4 DEF ViewFollowsLines, lineVars
  <2>5. CASE PanelRests \/ Logs \/ TakeLine \/ StoreChanges \/ OpenPanel
    BY <2>4, <2>5 DEF PanelRests, PanelTables, Logs, TakeLine, StoreChanges, OpenPanel
  <2>6. ASSUME NEW k \in Chains, ReadStats(k) \/ ShowStats(k) PROVE ViewFollowsLines'
    BY <2>4, <2>6 DEF ReadStats, ShowStats
  <2> QED
    BY <1>2, <2>2, <2>3, <2>5, <2>6 DEF PanelSteps
<1>3. PanelFits /\ ViewFollowsLines /\ [Next]_vars => ViewFollowsLines'
  BY <1>2, PanelKinds
<1> QED
  BY <1>1, <1>3, PanelsFit, PTL DEF FairSpec

-----------------------------------------------------------------------------
(* Log lines on their way.                                                 *)

\* One goroutine at a time waits for a line or has one in hand, from the time
\* the dashboard opens.
OneReader ==
    /\ waits \in {0, 1} /\ (waits = 1 => held = {})
    /\ \A g, h \in held : g = h
    /\ panel \in {"off", "wired"} => waits = 0 /\ held = {}

\* Lines carry the numbers under which they were written.
Numbered == \A n \in Shown \cup held \cup ToSet(logCh) : n \in 1 .. written

ChannelInOrder == \A i, j \in DOMAIN logCh : i < j => logCh[i] < logCh[j]

OnTheirWay == OneReader /\ Numbered /\ ChannelInOrder /\ LinesInOrder /\ NoGap

LEMMA LinesAreNumbers ==
    ASSUME TypeOKDashboard
    PROVE  /\ logLines \in Seq(Nat)
           /\ Shown \subseteq Nat \ {0} /\ held \subseteq Nat \ {0} /\ written \in Nat
           /\ logCh \in Seq(Nat) /\ ToSet(logCh) \subseteq Nat \ {0} /\ dropped \subseteq Nat
           /\ LogCap \in Nat /\ Len(logCh) \in Nat /\ DOMAIN logCh = 1 .. Len(logCh)
<1>1. MaxLines \in Nat /\ LogCap \in Nat
  BY DashboardAssumption
<1>2. 0 .. MaxLines \subseteq Nat /\ 1 .. MaxLines \subseteq Nat \ {0}
  BY <1>1
<1>3. logLines \in Seq(0 .. MaxLines) /\ logCh \in Seq(1 .. MaxLines)
  BY DEF TypeOKDashboard
<1>4. /\ Len(logLines) \in Nat /\ DOMAIN logLines = 1 .. Len(logLines)
      /\ Len(logCh) \in Nat /\ DOMAIN logCh = 1 .. Len(logCh)
  BY <1>3, LenProperties
<1>5. /\ \A i \in 1 .. Len(logLines) : logLines[i] \in 0 .. MaxLines
      /\ \A i \in 1 .. Len(logCh) : logCh[i] \in 1 .. MaxLines
  BY <1>3, ElementOfSeq
<1>6. logLines \in Seq(Nat) /\ logCh \in Seq(Nat)
  <2>1. 1 .. MaxLines \subseteq Nat
    BY <1>2
  <2> QED
    BY <1>2, <1>3, <2>1, SeqMonotonic
<1>7. Shown \subseteq Nat \ {0} /\ ToSet(logCh) \subseteq Nat \ {0}
  BY <1>2, <1>4, <1>5 DEF Shown, ToSet, Output
<1> QED
  BY <1>1, <1>2, <1>4, <1>6, <1>7 DEF TypeOKDashboard

LEMMA LogsKeepOrder ==
    ASSUME TypeOKDashboard, OnTheirWay, Logs
    PROVE  OnTheirWay'
<1> DEFINE C == ToSet(logCh)
<1>t. /\ Shown \subseteq Nat \ {0} /\ held \subseteq Nat \ {0} /\ written \in Nat
      /\ C \subseteq Nat \ {0} /\ dropped \subseteq Nat /\ logCh \in Seq(Nat)
  BY LinesAreNumbers
<1>0. /\ written' = written + 1 /\ UNCHANGED <<logLines, waits, held, panel>>
      /\ Shown' = Shown
  BY DEF Logs, WriteLine, PanelTables, lineVars, Shown
<1>1. OneReader'
  BY <1>0 DEF OneReader, OnTheirWay
<1>2. Ordered(logLines) /\ (\A n \in Shown, h \in held : n < h)
  BY DEF OnTheirWay, LinesInOrder, Ordered
<1>3. \A n \in Shown \cup held \cup C : n \in 1 .. written
  BY DEF OnTheirWay, Numbered
<1>4. \A n \in Shown \cup held, m \in C : n < m
  BY DEF OnTheirWay, LinesInOrder
<1>5. \A n \in Shown \cup held \cup C : \A m \in n .. written : m \in Shown \cup held \cup C \cup dropped
  BY DEF OnTheirWay, NoGap
<1>6. \/ C' = C \cup {written'} /\ dropped' = dropped /\ ChannelInOrder'
      \/ C' = C /\ dropped' = dropped \cup {written'} /\ ChannelInOrder'
  <2>1. CASE logCh' = Append(logCh, written') /\ dropped' = dropped
    <3>1. logCh \in Seq(Nat) /\ written' \in Nat
      BY <1>t, <1>0
    <3>2. ToSet(logCh') = ToSet(logCh) \cup {written'}
      BY <2>1, <3>1, AppendSet
    <3>3. /\ DOMAIN logCh = 1 .. Len(logCh) /\ Len(logCh) \in Nat
          /\ DOMAIN logCh' = 1 .. Len(logCh) + 1
          /\ \A i \in 1 .. Len(logCh) : logCh'[i] = logCh[i]
          /\ logCh'[Len(logCh) + 1] = written'
      BY <2>1, <3>1, AppendProperties, LenProperties
    <3>4. \A i \in DOMAIN logCh : logCh[i] \in C
      BY DEF ToSet
    <3>5. \A n \in C : n < written'
      BY <1>t, <1>0, <1>3
    <3>6. \A i, j \in DOMAIN logCh : i < j => logCh[i] < logCh[j]
      BY DEF OnTheirWay, ChannelInOrder
    <3>7. \A i, j \in DOMAIN logCh' : i < j => logCh'[i] < logCh'[j]
      <4> HIDE DEF C
      <4> QED
        BY <3>3, <3>4, <3>5, <3>6
    <3> QED
      BY <2>1, <3>2, <3>7 DEF ChannelInOrder
  <2>2. CASE logCh' = logCh /\ dropped' = dropped \cup {written'}
    BY <2>2 DEF OnTheirWay, ChannelInOrder
  <2> QED
    BY <2>1, <2>2 DEF Logs, WriteLine
<1> HIDE DEF C
<1>7. \A n \in Shown \cup held \cup C' : n \in 1 .. written'
  BY <1>t, <1>0, <1>3, <1>6
<1>8. \A n \in Shown \cup held, m \in C' : n < m
  <2>1. \A n \in Shown \cup held : n < written'
    BY <1>t, <1>0, <1>3
  <2> QED
    BY <1>4, <1>6, <2>1
<1>9. \A n \in Shown \cup held \cup C' :
         \A m \in n .. written' : m \in Shown \cup held \cup C' \cup dropped'
  <2> SUFFICES ASSUME NEW n \in Shown \cup held \cup C', NEW m \in n .. written', m # written'
               PROVE  m \in Shown \cup held \cup C \cup dropped
    BY <1>6
  <2>1. n \in Shown \cup held \cup C /\ m \in n .. written
    BY <1>t, <1>0, <1>6, <1>7
  <2> QED
    BY <1>5, <2>1
<1>10. Numbered'
  BY <1>0, <1>7 DEF Numbered, C
<1>11. LinesInOrder'
  BY <1>0, <1>2, <1>8 DEF LinesInOrder, Ordered, C
<1>12. NoGap'
  BY <1>0, <1>9 DEF NoGap, C
<1> QED
  BY <1>1, <1>6, <1>10, <1>11, <1>12 DEF OnTheirWay

LEMMA TakeLineKeepsOrder ==
    ASSUME TypeOKDashboard, OnTheirWay, TakeLine
    PROVE  OnTheirWay'
<1> DEFINE C == ToSet(logCh)
           h == Head(logCh)
<1>t. /\ Shown \subseteq Nat \ {0} /\ held \subseteq Nat \ {0} /\ written \in Nat
      /\ C \subseteq Nat \ {0}
  BY LinesAreNumbers
<1>0. /\ UNCHANGED <<logLines, panel, written, dropped>> /\ Looping /\ Shown' = Shown
      /\ logCh # <<>> /\ logCh' = Tail(logCh)
      /\ waits > 0 /\ waits' = waits - 1 /\ held' = held \cup {h}
  BY DEF TakeLine, lineVars, Shown
<1>1. held = {} /\ held' = {h} /\ waits' = 0
  BY <1>0 DEF OnTheirWay, OneReader
<1>2. OneReader'
  <2>1. \A x, y \in held' : x = y
    BY <1>1
  <2>2. panel' \notin {"off", "wired"}
    BY <1>0 DEF Looping
  <2> QED
    BY <1>1, <2>1, <2>2 DEF OneReader
<1>3. logCh \in Seq(1 .. MaxLines)
  BY DEF TypeOKDashboard
<1>4. /\ C = {h} \cup C'
      /\ \A i \in DOMAIN logCh' : i + 1 \in DOMAIN logCh /\ logCh'[i] = logCh[i + 1]
      /\ 1 \in DOMAIN logCh /\ h = logCh[1]
  BY <1>0, <1>3, TailSet
<1>5. \A i, j \in DOMAIN logCh : i < j => logCh[i] < logCh[j]
  BY DEF OnTheirWay, ChannelInOrder
<1>6. logCh' \in Seq(1 .. MaxLines)
  BY <1>0, <1>3, TailSet
<1>7. DOMAIN logCh' = 1 .. Len(logCh') /\ Len(logCh') \in Nat
  BY <1>6, LenProperties
<1>8. ChannelInOrder'
  BY <1>4, <1>5, <1>7 DEF ChannelInOrder
<1>9. \A m \in C' : h < m
  <2> SUFFICES ASSUME NEW i \in DOMAIN logCh' PROVE h < logCh'[i]
    BY DEF ToSet
  <2> QED
    BY <1>4, <1>5, <1>7
<1>10. \A n \in Shown, m \in C : n < m
  BY DEF OnTheirWay, LinesInOrder
<1> HIDE DEF C, h
<1>11. Numbered'
  BY <1>0, <1>1, <1>4 DEF OnTheirWay, Numbered, C
<1>12. LinesInOrder'
  BY <1>0, <1>1, <1>4, <1>9, <1>10 DEF OnTheirWay, LinesInOrder, C
<1>13. NoGap'
  BY <1>0, <1>1, <1>4 DEF OnTheirWay, NoGap, C
<1> QED
  BY <1>2, <1>8, <1>11, <1>12, <1>13 DEF OnTheirWay

\* A step that shows fewer lines, or the one in hand, keeps them in order and
\* leaves no gap when those it takes away are older than those it leaves.
LEMMA ScreenKeepsOrder ==
    ASSUME TypeOKDashboard, OnTheirWay, UNCHANGED <<logCh, written, dropped>>,
           OneReader', Ordered(logLines)',
           (Shown \cup held)' \subseteq Shown \cup held,
           \A n \in Shown', x \in held' : n < x,
           \A m \in (Shown \cup held) \ (Shown \cup held)', n \in (Shown \cup held)' : m < n
    PROVE  OnTheirWay'
<1> DEFINE C == ToSet(logCh)
           P == Shown \cup held
<1>1. P \subseteq Nat \ {0} /\ C \subseteq Nat \ {0} /\ written \in Nat
  BY LinesAreNumbers
<1>2. \A n \in P, m \in C : n < m
  BY DEF OnTheirWay, LinesInOrder
<1>3. ToSet(logCh)' = C
  OBVIOUS
<1>4. \A n \in P \cup C : \A m \in n .. written : m \in P \cup C \cup dropped
  BY DEF OnTheirWay, NoGap
<1>5. P' \subseteq P /\ (\A m \in P \ P', n \in P' : m < n)
  OBVIOUS
<1>6. Numbered'
  BY <1>3 DEF OnTheirWay, Numbered
<1>7. ChannelInOrder'
  BY DEF OnTheirWay, ChannelInOrder
<1>8. LinesInOrder'
  BY <1>2, <1>3, <1>5 DEF LinesInOrder, Ordered
<1> HIDE DEF C, P
<1>9. \A n \in P' \cup C : \A m \in n .. written : m \in P' \cup C \cup dropped
  <2> SUFFICES ASSUME NEW n \in P' \cup C, NEW m \in n .. written, m \in P \ P'
               PROVE  FALSE
    BY <1>4, <1>5
  <2>1. m < n
    BY <1>2, <1>5
  <2>2. n \in Nat /\ m \in Nat /\ n <= m
    BY <1>1, <1>5
  <2> QED
    BY <2>1, <2>2
<1>10. NoGap'
  BY <1>3, <1>9 DEF NoGap, C, P
<1> QED
  BY <1>6, <1>7, <1>8, <1>10 DEF OnTheirWay

LEMMA ShowLineKeepsOrder ==
    ASSUME TypeOKDashboard, OnTheirWay, ShowLine
    PROVE  OnTheirWay'
<1>t. /\ logLines \in Seq(Nat) /\ Shown \subseteq Nat \ {0} /\ held \subseteq Nat \ {0}
  BY LinesAreNumbers
<1>1. PICK n \in held : held' = held \ {n} /\ SetLines(Newest(Append(logLines, n)))
  BY DEF ShowLine
<1> DEFINE s == Append(logLines, n)
<1>2. /\ logLines' = Newest(s)
      /\ UNCHANGED <<logCh, written, dropped, panel>> /\ Looping /\ waits' = waits + 1
  BY <1>1 DEF ShowLine, SetLines
<1>3. held = {n} /\ held' = {} /\ waits = 0
  BY <1>1 DEF OnTheirWay, OneReader
<1>4. OneReader'
  BY <1>2, <1>3 DEF OneReader, Looping
<1>5. n \in Nat /\ n # Output /\ (\A m \in Shown : m < n)
  BY <1>t, <1>1 DEF OnTheirWay, LinesInOrder, Output
<1>6. s \in Seq(Nat) /\ ToSet(s) = ToSet(logLines) \cup {n} /\ Len(s) # 0 /\ s[Len(s)] = n
  BY <1>t, <1>5, AppendSet, AppendProperties, LenProperties
<1>7. Ordered(s)
  BY <1>t, <1>5, OrderedAppend DEF OnTheirWay, LinesInOrder, Ordered, Shown
<1> HIDE DEF s
<1>8. /\ Ordered(Newest(s)) /\ ToSet(Newest(s)) \subseteq ToSet(s)
      /\ n \in ToSet(Newest(s))
      /\ \A m \in ToSet(s) \ ToSet(Newest(s)), k \in ToSet(Newest(s)) :
            Output \notin {m, k} => m < k
  BY <1>6, <1>7, OrderedNewest
<1>9. Shown' = ToSet(Newest(s)) \ {Output}
  BY <1>2 DEF Shown
<1>10. Shown \cup held = ToSet(s) \ {Output}
  BY <1>3, <1>5, <1>6 DEF Shown
<1>11. Ordered(logLines)'
  BY <1>2, <1>8 DEF Ordered
<1> QED
  BY <1>2, <1>3, <1>4, <1>8, <1>9, <1>10, <1>11, ScreenKeepsOrder

LEMMA RunCommandKeepsOrder ==
    ASSUME TypeOKDashboard, OnTheirWay, RunCommand
    PROVE  OnTheirWay'
<1>t. /\ logLines \in Seq(Nat) /\ Shown \subseteq Nat \ {0} /\ held \subseteq Nat \ {0}
  BY LinesAreNumbers
<1>1. UNCHANGED <<logCh, written, dropped, panel, waits, held>>
  BY DEF RunCommand, logVars
<1>2. OneReader'
  BY <1>1 DEF OnTheirWay, OneReader
<1>3. \A n \in Shown, h \in held : n < h
  BY DEF OnTheirWay, LinesInOrder
<1>4. CASE SetLines(Append(logLines, Output))
  <2>1. logLines' = Append(logLines, Output)
    BY <1>4 DEF SetLines
  <2>2. ToSet(logLines') = ToSet(logLines) \cup {Output}
    BY <1>t, <2>1, AppendSet DEF Output
  <2>3. Shown' = Shown
    BY <2>2 DEF Shown
  <2>4. Ordered(Append(logLines, Output))
    BY <1>t, OrderedAppend DEF OnTheirWay, LinesInOrder, Ordered, Output
  <2>5. Ordered(logLines)'
    BY <2>1, <2>4 DEF Ordered
  <2> QED
    BY <1>1, <1>2, <1>3, <2>3, <2>5, ScreenKeepsOrder
<1>5. CASE SetLines(<<>>)
  <2>1. logLines' = <<>>
    BY <1>5 DEF SetLines
  <2>2. Shown' = {} /\ Ordered(logLines)'
    BY <2>1 DEF Shown, ToSet, Ordered
  <2> QED
    BY <1>1, <1>2, <1>3, <2>2, ScreenKeepsOrder
<1> QED
  BY <1>4, <1>5 DEF RunCommand

LEMMA OrderStep ==
    ASSUME TypeOKDashboard, OnTheirWay, PanelSteps
    PROVE  OnTheirWay'
<1>k. ASSUME UNCHANGED <<logLines, logCh, held, written, dropped>>, OneReader' PROVE OnTheirWay'
  BY <1>k DEF OnTheirWay, Numbered, ChannelInOrder, LinesInOrder, NoGap, Shown
<1>1. CASE PanelRests
  BY <1>1, <1>k DEF PanelRests, PanelTables, logVars, lineVars, OnTheirWay, OneReader
<1>2. CASE Resize
  BY <1>2, <1>k DEF Resize, logVars, OnTheirWay, OneReader
<1>3. CASE StoreChanges
  BY <1>3, <1>k DEF StoreChanges, logVars, lineVars, OnTheirWay, OneReader
<1>4. CASE OpenPanel
  BY <1>4, <1>k DEF OpenPanel, lineVars, OnTheirWay, OneReader
<1>5. ASSUME NEW k \in Chains, ReadStats(k) \/ ShowStats(k) PROVE OnTheirWay'
  BY <1>5, <1>k DEF ReadStats, ShowStats, logVars, lineVars, OnTheirWay, OneReader
<1> QED
  BY <1>1, <1>2, <1>3, <1>4, <1>5, LogsKeepOrder, TakeLineKeepsOrder, ShowLineKeepsOrder,
     RunCommandKeepsOrder DEF PanelSteps

LEMMA LinesAreOnTheirWay == FairSpec => []OnTheirWay
<1>1. Init => OnTheirWay
  <2> SUFFICES ASSUME Init PROVE OnTheirWay
    OBVIOUS
  <2>1. /\ panel = "off" /\ waits = 0 /\ held = {} /\ logCh = <<>> /\ logLines = <<>>
    BY DEF Init, DashboardInit
  <2>2. DOMAIN logCh = {} /\ DOMAIN logLines = {} /\ Shown = {} /\ ToSet(logCh) = {}
    BY <2>1 DEF Shown, ToSet
  <2> QED
    BY <2>1, <2>2 DEF OnTheirWay, OneReader, Numbered, ChannelInOrder, LinesInOrder, NoGap
<1>2. PanelFits /\ PanelTyped /\ OnTheirWay /\ [Next]_vars => OnTheirWay'
  BY PanelKinds, OrderStep DEF PanelTyped
<1> QED
  BY <1>1, <1>2, PanelsFit, PanelsTyped, PTL DEF FairSpec

\* Lines stand on the screen in the order they were written, and those on their
\* way to it are newer: one goroutine at a time reads the channel, and waits
\* again only when its line has been shown.
THEOREM LinesStayInOrder == FairSpec => []LinesInOrder
<1>1. OnTheirWay => LinesInOrder
  BY DEF OnTheirWay
<1> QED
  BY <1>1, LinesAreOnTheirWay, PTL

\* Between the first line on the screen and the last one written none is missing
\* but those that met a full channel: trimming and clearing take the oldest.
THEOREM NothingMissing == FairSpec => []NoGap
<1>1. OnTheirWay => NoGap
  BY DEF OnTheirWay
<1> QED
  BY <1>1, LinesAreOnTheirWay, PTL


-----------------------------------------------------------------------------
(* Signals: the safety half of StopsOnSignal and of ServiceComesUp.        *)

PanelQuits == panel \in {"closing", "closed"}

\* What the process knows of a signal, and where a cancelled context comes from.
Obedient ==
    /\ proc = "up" => watcher # "none"
    /\ proc # "up" => watcher = "none" /\ serve = "none" /\ listener = "none" /\ ~cancelled
    /\ signalled => proc # "boot"
    /\ signalled /\ proc = "up" => watcher \in {"told", "done"} \/ PanelQuits
    /\ watcher \in {"told", "done"} => signalled
    /\ watcher = "done" => cancelled
    /\ cancelled => signalled \/ PanelQuits
    /\ listener = "closed" \/ serve = "done" => cancelled

\* A signal that has not ended the process is in the hands of its goroutine or
\* of the dashboard.
SignalHeard == signalled => Exited \/ watcher \in {"told", "done"} \/ PanelQuits

\* Without a terminal the server stops listening only when somebody asked.
ServesUntilAsked ==
    Headless /\ proc = "up" /\ ~signalled => serve # "done" /\ listener # "closed"

LEMMA ObedientStep ==
    ASSUME ProcessTypes, PanelFits, Obedient, [Next]_vars
    PROVE  Obedient'
<1> USE DEF Obedient, PanelQuits
<1>e. ASSUME NEW status \in {"ok", "failed"}, Exit(status) PROVE Obedient'
  BY <1>e DEF Exit
<1>k. ASSUME UNCHANGED <<proc, watcher, cancelled, serve, listener, signalled>>, PanelQuits => PanelQuits'
      PROVE  Obedient'
  BY <1>k
<1>1. CASE Start
  <2>1. CASE Exit("failed")
    BY <2>1, <1>e
  <2>2. CASE /\ proc' = "up" /\ watcher' = "starting" /\ serve' = "binding"
             /\ UNCHANGED <<cancelled, listener, signalled>>
    BY <1>1, <2>2 DEF Start
  <2> QED
    BY <1>1, <2>1, <2>2 DEF Start
<1>2. CASE HeadlessFails \/ HeadlessReturns \/ PanelReturns
  BY <1>2, <1>e DEF HeadlessFails, HeadlessReturns, PanelReturns
<1>3. CASE WatchSignals
  BY <1>3 DEF WatchSignals, serverVars, worldVars, dashboardVars
<1>4. CASE TakeSignal
  BY <1>4 DEF TakeSignal, serverVars, worldVars
<1>5. CASE Bind
  BY <1>5 DEF Bind, processVars, worldVars, dashboardVars
<1>6. CASE CloseListener \/ AcceptEnds
  BY <1>6 DEF CloseListener, AcceptEnds, processVars, worldVars, dashboardVars
<1>7. ASSUME NEW k \in Conns, Connection(k) \/ Dial(k) \/ Arrive(k) PROVE Obedient'
  BY <1>7, <1>k DEF Connection, Dial, Arrive, Accept, ReadFrame, ReadGivesUp, Handle, WriteAnswer,
                    SetConn, processVars, worldVars, dashboardVars
<1>8. CASE Signal
  <2>1. CASE Exit("ok")
    BY <2>1, <1>e
  <2>2. CASE /\ proc = "up" /\ (watcher # "starting" \/ panel = "open")
             /\ watcher' = (IF watcher = "watching" THEN "told" ELSE watcher)
             /\ panel' = (IF panel = "open" THEN "closing" ELSE panel)
             /\ UNCHANGED <<launch, proc, cancelled, serverVars>>
    BY <1>8, <2>2 DEF Signal, serverVars, ProcessTypes
  <2>3. CASE proc = "failed" /\ UNCHANGED <<processVars, serverVars, dashboardVars>>
    BY <1>8, <2>3 DEF Signal, processVars, serverVars, dashboardVars
  <2> QED
    BY <1>8, <2>1, <2>2, <2>3 DEF Signal
<1>9. CASE AskToQuit
  BY <1>9 DEF AskToQuit, serverVars, worldVars
<1>10. CASE Restart
  BY <1>10 DEF Restart, serverVars, worldVars, dashboardVars
<1>11. CASE Crash
  BY <1>11, <1>e DEF Crash
<1>12. CASE PortChanges
  BY <1>12, <1>k DEF PortChanges, processVars, serverVars, dashboardVars
<1>13. ASSUME NEW k \in Chains, InPanel(Chain(k)) PROVE Obedient'
  BY <1>13, <1>k DEF InPanel, Chain, ReadStats, ShowStats, processVars, serverVars, worldVars
<1>14. CASE InPanel(TakeLine) \/ InPanel(ShowLine) \/ InPanel(Resize) \/ InPanel(StoreChanges)
            \/ InPanel(RunCommand) \/ InPanel(LogExpiry)
  BY <1>14, <1>k DEF InPanel, TakeLine, ShowLine, Resize, StoreChanges, RunCommand, LogExpiry,
                     processVars, serverVars, worldVars
<1>15. CASE InPanel(OpenPanel) \/ InPanel(ClosePanel)
  BY <1>15, <1>k DEF InPanel, OpenPanel, ClosePanel, processVars, serverVars, worldVars
<1>16. CASE UNCHANGED vars
  BY <1>16, <1>k DEF vars, processVars, serverVars, worldVars, dashboardVars
<1> QED
  BY <1>1, <1>2, <1>3, <1>4, <1>5, <1>6, <1>7, <1>8, <1>9, <1>10, <1>11, <1>12, <1>13, <1>14,
     <1>15, <1>16 DEF Next, Main, Signals, Listening, PanelLife, InPanel

LEMMA ProcessTyped == FairSpec => []ProcessTypes
<1>1. TypeOK => ProcessTypes
  BY DEF TypeOK, ProcessTypes
<1> QED
  BY <1>1, TypeCorrect, PTL

LEMMA AlwaysObedient == FairSpec => []Obedient
<1>1. Init => Obedient
  BY DEF Init, DashboardInit, Obedient
<1>2. ProcessTypes /\ PanelFits /\ Obedient /\ [Next]_vars => Obedient'
  BY ObedientStep
<1> QED
  BY <1>1, <1>2, ProcessTyped, PanelsFit, PTL DEF FairSpec

\* No signal is lost, whenever in the start of the daemon it comes: it ends the
\* process, or the signal goroutine or the dashboard acts on it.
THEOREM NoSignalIsLost == FairSpec => []SignalHeard
<1>1. ProcessTypes /\ Obedient => SignalHeard
  BY DEF ProcessTypes, Obedient, SignalHeard, Exited
<1> QED
  BY <1>1, ProcessTyped, AlwaysObedient, PTL

\* A daemon without a terminal that has not been asked to stop does not stop
\* listening by itself, whatever its connections do.
THEOREM KeepsServing == FairSpec => []ServesUntilAsked
<1>1. PanelFits /\ Obedient => ServesUntilAsked
  BY DEF PanelFits, Obedient, ServesUntilAsked, PanelQuits
<1> QED
  BY <1>1, PanelsFit, AlwaysObedient, PTL
=============================================================================
