----------------------------- MODULE Uninstall -----------------------------
(***************************************************************************)
(* Installing and the guided removal (cmd/uninstall.go): what of the       *)
(* installation is there, what each step takes away, and what the summary  *)
(* says.  install.sh keeps the database and the onion key in the directory *)
(* that it makes the home of the user fialka; the wizard and `fialka start`*)
(* keep them with the configuration.  What a daemon does with its key is   *)
(* in OnionKey.                                                            *)
(***************************************************************************)
VARIABLES
    present,    \* what is installed
    running,    \* the service runs, as the user fialka
    step,       \* where the removal is; "idle" when none is under way
    removed,    \* what the summary will say has been removed
    skipped     \* and what has been kept

vars == <<present, running, step, removed, skipped>>

Items == {"service", "binary", "config", "data", "logs", "user", "tor"}

Init ==
    /\ present = {} /\ running = FALSE
    /\ step = "idle"
    /\ removed = {} /\ skipped = {}

-----------------------------------------------------------------------------

\* install.sh, which may find what an earlier removal has kept.
Install ==
    /\ step = "idle"
    /\ present' = Items
    /\ running' = TRUE
    /\ UNCHANGED <<step, removed, skipped>>

\* fialka setup and fialka start: nothing outside of the user's directory.
Setup ==
    /\ step = "idle"
    /\ present = {}
    /\ present' = {"binary", "config", "tor"}
    /\ UNCHANGED <<running, step, removed, skipped>>

\* The service stops by itself.
ServiceEnds ==
    /\ running
    /\ running' = FALSE
    /\ UNCHANGED <<present, step, removed, skipped>>

-----------------------------------------------------------------------------
(* The steps.                                                              *)

\* runUninstall as root, when the operator wants to begin.
Begin ==
    /\ step = "idle"
    /\ step' = "service"
    /\ removed' = {} /\ skipped' = {}
    /\ UNCHANGED <<present, running>>

\* The item is not there, or the operator keeps it.
NotThere(item) == item \notin present /\ UNCHANGED <<present, running, removed, skipped>>

Keep(item) ==
    /\ item \in present
    /\ skipped' = skipped \cup {item}
    /\ UNCHANGED <<present, running, removed>>

\* os.Remove or os.RemoveAll fails: it is in neither list.
Fails(item) == item \in present /\ UNCHANGED <<present, running, removed, skipped>>

RemoveItem(item) ==
    /\ item \in present
    /\ present' = present \ {item}
    /\ removed' = removed \cup {item}
    /\ UNCHANGED <<running, skipped>>

\* The unit is stopped and its file removed.
ServiceStep ==
    /\ step = "service"
    /\ \/ NotThere("service") \/ Keep("service")
       \/ /\ "service" \in present
          /\ present' = present \ {"service"}
          /\ running' = FALSE
          /\ removed' = removed \cup {"service"}
          /\ UNCHANGED skipped
    /\ step' = "binary"

BinaryStep ==
    /\ step = "binary"
    /\ NotThere("binary") \/ Keep("binary") \/ Fails("binary") \/ RemoveItem("binary")
    /\ step' = "config"

ConfigStep ==
    /\ step = "config"
    /\ NotThere("config") \/ Keep("config") \/ Fails("config") \/ RemoveItem("config")
    /\ step' = "data"

\* Removed after a second confirmation, and kept without it.
DataStep ==
    /\ step = "data"
    /\ NotThere("data") \/ Keep("data") \/ Fails("data") \/ RemoveItem("data")
    /\ step' = "logs"

\* The result of os.RemoveAll is not looked at.
LogsStep ==
    /\ step = "logs"
    /\ \/ NotThere("logs") \/ Keep("logs") \/ RemoveItem("logs")
       \/ /\ "logs" \in present
          /\ removed' = removed \cup {"logs"}
          /\ UNCHANGED <<present, running, skipped>>
    /\ step' = "user"

\* What `userdel -r fialka` takes: the home directory too, and nothing while a
\* process of the user runs.
UserdelTakes == IF running THEN {} ELSE {"user", "data"}

\* The result of userdel is not looked at.
UserStep ==
    /\ step = "user"
    /\ \/ NotThere("user") \/ Keep("user")
       \/ /\ "user" \in present
          /\ present' = present \ UserdelTakes
          /\ removed' = removed \cup {"user"}
          /\ UNCHANGED <<running, skipped>>
    /\ step' = "tor"

\* Asked whether it is there or not.  The unit requires tor.service.
TorStep ==
    /\ step = "tor"
    /\ \/ /\ skipped' = skipped \cup {"tor"}
          /\ UNCHANGED <<present, running, removed>>
       \/ /\ present' = present \ {"tor"}
          /\ running' = FALSE
          /\ removed' = removed \cup {"tor"}
          /\ UNCHANGED skipped
    /\ step' = "summary"

Summary ==
    /\ step = "summary"
    /\ step' = "idle"
    /\ UNCHANGED <<present, running, removed, skipped>>

Next ==
    \/ Install \/ Setup \/ ServiceEnds
    \/ Begin \/ ServiceStep \/ BinaryStep \/ ConfigStep \/ DataStep
    \/ LogsStep \/ UserStep \/ TorStep \/ Summary

Spec == Init /\ [][Next]_vars

-----------------------------------------------------------------------------

\* What is listed as kept is still there: "Données conservées" means that the
\* database and the onion key survive the steps after.
DataKept == "data" \in skipped => "data" \in present
=============================================================================
