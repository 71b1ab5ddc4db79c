----------------------------- MODULE Dashboard -----------------------------
(***************************************************************************)
(* The dashboard of `fialka start` in a terminal (cmd/tui.go): log lines   *)
(* go through a bounded channel to an event loop that also runs commands   *)
(* and shows the counts of the store.  The loop handles one message at a   *)
(* time; the goroutines of its commands wait for a log line, or read the   *)
(* store, and hand their result to the loop in any order.  What the        *)
(* commands do to the tables is in MailboxAdmin.  Log lines are numbered   *)
(* in the order they are written; what a command prints is one entry.      *)
(***************************************************************************)
EXTENDS Integers, SequencesExt

CONSTANTS
    LogCap,         \* slots of the log channel (512 in the code)
    tuiMaxLines,    \* lines kept on the screen (1000 in the code)
    MaxLines,       \* log lines written (bound)
    MaxCommands,    \* commands typed (bound)
    MaxChanges,     \* changes of the store (bound)
    MaxReadErrors   \* reads of the store that fail (bound)

ASSUME DashboardAssumption ==
    /\ LogCap \in Nat \ {0} /\ tuiMaxLines \in Nat \ {0}
    /\ MaxLines \in Nat /\ MaxCommands \in Nat
    /\ MaxChanges \in Nat /\ MaxReadErrors \in Nat

VARIABLES
    panel,      \* the life of the dashboard's program
    logCh,      \* the log channel
    waits,      \* goroutines of tuiWaitForLog that wait on the channel
    held,       \* lines they have taken and not yet handed to the loop
    written,    \* log lines written so far
    dropped,    \* log lines that met a full channel
    logLines,   \* the lines of the model
    view,       \* what the viewport has been given
    ready,      \* the terminal's size is known
    commands,   \* commands run so far
    chains,     \* chains of statistics reads: one of Init, one of each command
    screen,     \* the counts on the screen
    truth,      \* the counts of the store
    changes,    \* changes of the store so far
    readErrors  \* failed reads so far

logVars == <<logCh, waits, held, written, dropped>>
lineVars == <<logLines, view, ready>>
statVars == <<chains, screen, readErrors>>
dashboardVars == <<panel, logVars, lineVars, commands, statVars, truth, changes>>

Output == 0     \* an entry printed by a command
Counts == {0, 1}     \* members, messages, bytes: one number stands for all

NoChain == [at |-> "none", read |-> 0]
Due == [at |-> "due", read |-> 0]

DashboardInit ==
    /\ panel = "off"
    /\ logCh = <<>> /\ waits = 0 /\ held = {} /\ written = 0 /\ dropped = {}
    /\ logLines = <<>> /\ view = <<>> /\ ready = FALSE
    /\ commands = 0
    /\ chains = [k \in 0 .. MaxCommands |-> NoChain]
    /\ screen = 0 /\ truth \in Counts
    /\ changes = 0 /\ readErrors = 0

\* The event loop takes messages until it has handled the one that quits.
Looping == panel \in {"open", "closing"}

-----------------------------------------------------------------------------
(* Log lines.                                                              *)

\* tuiLogWriter.Write: a line, or nothing when the channel is full.
WriteLine ==
    /\ written < MaxLines
    /\ written' = written + 1
    /\ \/ /\ Len(logCh) < LogCap
          /\ logCh' = Append(logCh, written')
          /\ UNCHANGED dropped
       \/ /\ Len(logCh) = LogCap
          /\ dropped' = dropped \cup {written'}
          /\ UNCHANGED logCh
    /\ UNCHANGED <<waits, held>>

\* A goroutine of tuiWaitForLog takes the next line.
TakeLine ==
    /\ Looping
    /\ waits > 0 /\ logCh # <<>>
    /\ waits' = waits - 1
    /\ held' = held \cup {Head(logCh)}
    /\ logCh' = Tail(logCh)
    /\ UNCHANGED <<panel, written, dropped, lineVars, commands, statVars, truth, changes>>

\* Mistaken variant of Newest: keeps the first lines.
BugNewest(lines) ==
    IF Len(lines) > tuiMaxLines THEN SubSeq(lines, 1, tuiMaxLines) ELSE lines

\* Mistaken variant of Newest: keeps everything.
BugTrim(lines) == lines

\* The last tuiMaxLines lines.
Newest(lines) ==
    IF Len(lines) > tuiMaxLines
    THEN SubSeq(lines, Len(lines) - tuiMaxLines + 1, Len(lines))
    ELSE lines

\* The model has these lines now, and the viewport once it exists.
SetLines(lines) ==
    /\ logLines' = lines
    /\ view' = IF ready THEN lines ELSE view
    /\ UNCHANGED ready

\* Mistaken variant of ShowLine: does not wait for the next line.
BugShowLine ==
    /\ Looping
    /\ \E n \in held :
          held' = held \ {n} /\ SetLines(Newest(Append(logLines, n)))
    /\ UNCHANGED <<panel, logCh, waits, written, dropped, commands, statVars, truth, changes>>

\* Update on a log line: it goes below the others, and the loop waits again.
ShowLine ==
    /\ Looping
    /\ \E n \in held :
          held' = held \ {n} /\ SetLines(Newest(Append(logLines, n)))
    /\ waits' = waits + 1
    /\ UNCHANGED <<panel, logCh, written, dropped, commands, statVars, truth, changes>>

-----------------------------------------------------------------------------
(* The screen.                                                             *)

\* Mistaken variant of Resize: the viewport starts empty.
BugResize ==
    /\ Looping /\ ~ready
    /\ ready' = TRUE
    /\ UNCHANGED <<panel, logVars, logLines, view, commands, statVars, truth, changes>>

\* The first size of the terminal: the viewport is made, with the lines so far.
Resize ==
    /\ Looping /\ ~ready
    /\ ready' = TRUE
    /\ view' = logLines
    /\ UNCHANGED <<panel, logVars, logLines, commands, statVars, truth, changes>>

\* Mistaken variant of RunCommand: waits for a log line once more.
BugRunCommand ==
    /\ Looping
    /\ commands < MaxCommands
    /\ commands' = commands + 1
    /\ SetLines(Append(logLines, Output))
    /\ waits' = waits + 1
    /\ chains' = [chains EXCEPT ![commands'] = Due]
    /\ UNCHANGED <<panel, logCh, held, written, dropped, screen, readErrors, truth, changes>>

\* Enter on a command: execCommand prints something, without trimming, or
\* clears the lines, and a read of the statistics follows.
RunCommand ==
    /\ Looping
    /\ commands < MaxCommands
    /\ commands' = commands + 1
    /\ SetLines(Append(logLines, Output)) \/ SetLines(<<>>)
    /\ chains' = [chains EXCEPT ![commands'] = Due]
    /\ UNCHANGED <<panel, logVars, screen, readErrors, truth, changes>>

-----------------------------------------------------------------------------
(* Statistics.                                                             *)

\* tuiQueryStats: ListMembers and Stats, where an error counts as zero; then
\* the result is on its way to the loop.
ReadStats(k) ==
    /\ Looping
    /\ chains[k].at = "due"
    /\ \/ /\ chains' = [chains EXCEPT ![k] = [at |-> "ready", read |-> truth]]
          /\ UNCHANGED readErrors
       \/ /\ readErrors < MaxReadErrors /\ readErrors' = readErrors + 1
          /\ chains' = [chains EXCEPT ![k] = [at |-> "ready", read |-> 0]]
    /\ UNCHANGED <<panel, logVars, lineVars, commands, screen, truth, changes>>

\* Mistaken variant of ShowStats: the next read comes with the next command.
BugShowStats(k) ==
    /\ Looping
    /\ chains[k].at = "ready"
    /\ screen' = chains[k].read
    /\ chains' = [chains EXCEPT ![k] = NoChain]
    /\ UNCHANGED <<panel, logVars, lineVars, commands, readErrors, truth, changes>>

\* Update on a result: it is shown, and the chain reads again in 5 seconds.
ShowStats(k) ==
    /\ Looping
    /\ chains[k].at = "ready"
    /\ screen' = chains[k].read
    /\ chains' = [chains EXCEPT ![k] = Due]
    /\ UNCHANGED <<panel, logVars, lineVars, commands, readErrors, truth, changes>>

\* Members and messages come and go.
StoreChanges ==
    /\ Looping
    /\ changes < MaxChanges
    /\ changes' = changes + 1
    /\ truth' \in Counts \ {truth}
    /\ UNCHANGED <<panel, logVars, lineVars, commands, statVars>>

-----------------------------------------------------------------------------
(* The program.                                                            *)

\* newTUIModel and Init: it waits for a line and reads the statistics.
OpenPanel ==
    /\ panel = "wired"
    /\ panel' = "open"
    /\ waits' = 1
    /\ chains' = [chains EXCEPT ![0] = Due]
    /\ UNCHANGED <<logCh, held, written, dropped, lineVars, commands, screen, readErrors,
                   truth, changes>>

\* The message that quits has been handled.
ClosePanel ==
    /\ panel = "closing"
    /\ panel' = "closed"
    /\ UNCHANGED <<logVars, lineVars, commands, statVars, truth, changes>>

TypeOKDashboard ==
    /\ panel \in {"off", "wired", "open", "closing", "closed"}
    /\ logCh \in Seq(1 .. MaxLines) /\ Len(logCh) <= LogCap
    /\ waits \in Nat
    /\ held \subseteq 1 .. MaxLines
    /\ written \in 0 .. MaxLines
    /\ dropped \subseteq 1 .. MaxLines
    /\ logLines \in Seq(0 .. MaxLines) /\ view \in Seq(0 .. MaxLines)
    /\ Len(logLines) <= tuiMaxLines + MaxCommands
    /\ ready \in BOOLEAN
    /\ commands \in 0 .. MaxCommands
    /\ chains \in [0 .. MaxCommands ->
                     [at : {"none", "due", "ready"}, read : Counts]]
    /\ screen \in Counts /\ truth \in Counts
    /\ changes \in 0 .. MaxChanges /\ readErrors \in 0 .. MaxReadErrors

-----------------------------------------------------------------------------

\* The log lines on the screen.
Shown == ToSet(logLines) \ {Output}

\* Log lines pass three goroutines and stand on the screen in the order they
\* were written: nothing in the channel is older than a line in hand, and that
\* one is newer than all on the screen.
LinesInOrder ==
    /\ \A i, j \in DOMAIN logLines :
          i < j /\ Output \notin {logLines[i], logLines[j]} => logLines[i] < logLines[j]
    /\ \A n \in Shown, h \in held : n < h
    /\ \A n \in Shown \cup held, m \in ToSet(logCh) : n < m

\* From the first line on the screen to the last one written no line is
\* missing but those that met a full channel: whoever scrolls up misses
\* nothing in the middle, whatever was trimmed or cleared.
NoGap ==
    LET there == Shown \cup held \cup ToSet(logCh) IN
    \A n \in there : \A m \in n .. written : m \in there \cup dropped

\* The viewport shows the lines of the model: each of the places that change
\* them hands them on, the first resize included.
ViewFollowsLines == ready => view = logLines

\* A line that got into the channel gets to the screen, unless the dashboard
\* closes before.
LinesShown ==
    \A n \in 1 .. MaxLines :
        n \in ToSet(logCh) ~> (n \in ToSet(logLines) \/ panel \in {"closing", "closed"})

\* When the store rests, the counts on the screen become right and stay so,
\* although chains of reads overlap and an old result may overtake a new one.
ScreenCatchesUp == <>[](Looping => screen = truth)
=============================================================================
