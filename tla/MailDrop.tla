------------------------------ MODULE MailDrop ------------------------------
(***************************************************************************)
(* What the mailbox promises about mail to clients that are on one         *)
(* connection at a time: a message waits in the box of its recipient, goes *)
(* on its way to nobody else, and arrives once.  A journey that fails puts *)
(* the message back or loses it, and never lets it arrive again; a message *)
(* that has left the box leaves it for good.  The exception is a message   *)
(* that could not be taken out of its box and set out all the same: it is  *)
(* stuck, and may arrive again, until nothing is left of it.  Module       *)
(* Mailbox is shown to implement it.                                       *)
(***************************************************************************)
EXTENDS Naturals

CONSTANTS Clients, Letters, Nobody

VARIABLE place      \* where each message is, and whose box or journey it is

Somewhere == [at : {"box", "way"}, of : Clients]
                \cup [at : {"unwritten", "arrived", "lost", "dropped", "stuck"}, of : {Nobody}]

Box(c) == [at |-> "box", of |-> c]
Way(c) == [at |-> "way", of |-> c]
Nowhere(what) == [at |-> what, of |-> Nobody]

Init == place = [i \in Letters |-> Nowhere("unwritten")]

Post(i, c) ==
    /\ place[i] = Nowhere("unwritten")
    /\ place' = [place EXCEPT ![i] = Box(c)]

\* The messages S in the box of c set out for c together.
SetOut(S, c) ==
    /\ \A i \in S : place[i] = Box(c)
    /\ place' = [i \in Letters |-> IF i \in S THEN Way(c) ELSE place[i]]

\* All that is on its way to c arrives.
Arrive(c) ==
    place' = [i \in Letters |->
                 IF place[i] = Way(c) THEN Nowhere("arrived") ELSE place[i]]

\* Journeys come to nothing, or are those of messages that got stuck.
Founder ==
    /\ place' \in [Letters -> Somewhere]
    /\ \A i \in Letters :
          \/ place'[i] = place[i]
          \/ /\ place[i].at = "way"
             /\ place'[i] \in {Box(place[i].of), Nowhere("lost"), Nowhere("dropped"),
                               Nowhere("stuck")}

\* Messages that expired, or whose recipient leaves, are dropped unread.
Drop(S) ==
    /\ \A i \in S : place[i].at = "box"
    /\ place' = [i \in Letters |-> IF i \in S THEN Nowhere("dropped") ELSE place[i]]

Next ==
    \/ Founder
    \/ \E i \in Letters, c \in Clients : Post(i, c)
    \/ \E S \in SUBSET Letters : Drop(S) \/ \E c \in Clients : SetOut(S, c)
    \/ \E c \in Clients : Arrive(c)

Spec == Init /\ [][Next]_place
=============================================================================
