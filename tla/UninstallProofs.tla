-------------------------- MODULE UninstallProofs --------------------------
(***************************************************************************)
(* What the summary of the removal lists as kept is there, but for the     *)
(* data of an installation whose user has been removed.                    *)
(***************************************************************************)
EXTENDS Uninstall, TLAPS

Steps == {"service", "binary", "config", "data", "logs", "user", "tor", "summary", "idle"}

\* Before a step the operator has kept nothing but items of the steps before.
KeptBefore ==
    /\ step = "service" => skipped \subseteq {}
    /\ step = "binary" => skipped \subseteq {"service"}
    /\ step = "config" => skipped \subseteq {"service", "binary"}
    /\ step = "data" => skipped \subseteq {"service", "binary", "config"}
    /\ step = "logs" => skipped \subseteq {"service", "binary", "config", "data"}
    /\ step = "user" => skipped \subseteq {"service", "binary", "config", "data", "logs"}
    /\ step = "tor" => skipped \subseteq {"service", "binary", "config", "data", "logs", "user"}

\* Kept items are there, but the data when the user has been removed; and tor,
\* which the operator may keep without having it.
KeptButForUser == \A x \in skipped \ {"tor"} : x \in present \/ (x = "data" /\ "user" \in removed)

IInv ==
    /\ step \in Steps
    /\ skipped \subseteq Items /\ KeptBefore
    /\ KeptButForUser

-----------------------------------------------------------------------------

\* Nothing is installed and nothing kept at first.
LEMMA InitIInv == Init => IInv
BY DEF Init, IInv, KeptButForUser, KeptBefore, Items, Steps

\* Every step of the removal, and every change around it.
LEMMA StepIInv ==
    ASSUME IInv, [Next]_vars
    PROVE  IInv'
<1> USE DEF IInv, KeptButForUser, KeptBefore, Items, Steps
<1>1. CASE Install \/ Setup
  BY <1>1 DEF Install, Setup
<1>2. CASE ServiceEnds \/ Begin \/ Summary
  BY <1>2 DEF ServiceEnds, Begin, Summary
<1>3. CASE ServiceStep
  BY <1>3 DEF ServiceStep, NotThere, Keep
<1>4. CASE BinaryStep
  BY <1>4 DEF BinaryStep, NotThere, Keep, Fails, RemoveItem
<1>5. CASE ConfigStep
  BY <1>5 DEF ConfigStep, NotThere, Keep, Fails, RemoveItem
<1>6. CASE DataStep
  BY <1>6 DEF DataStep, NotThere, Keep, Fails, RemoveItem
<1>7. CASE LogsStep
  BY <1>7 DEF LogsStep, NotThere, Keep, RemoveItem
<1>8. CASE UserStep
  BY <1>8 DEF UserStep, NotThere, Keep, UserdelTakes
<1>9. CASE TorStep
  BY <1>9 DEF TorStep
<1>10. CASE UNCHANGED vars
  BY <1>10 DEF vars
<1> QED
  BY <1>1, <1>2, <1>3, <1>4, <1>5, <1>6, <1>7, <1>8, <1>9, <1>10 DEF Next

\* Whatever the operator keeps is still there at the end, but the data when the
\* user is removed (and tor, when it was not there): userdel is the only call
\* that takes away more than its question names.
THEOREM OnlyUserdelTakesMore == Spec => []KeptButForUser
<1>1. Init => IInv
  BY InitIInv
<1>2. IInv /\ [Next]_vars => IInv'
  BY StepIInv
<1>3. IInv => KeptButForUser
  BY DEF IInv
<1> QED
  BY <1>1, <1>2, <1>3, PTL DEF Spec
=============================================================================
