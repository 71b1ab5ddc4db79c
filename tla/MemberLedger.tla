---------------------------- MODULE MemberLedger ----------------------------
(***************************************************************************)
(* What the mailbox promises about its members, with every invitation and  *)
(* every admission as one step.  An invitation is offered once, taken as   *)
(* often as it allows, and may be withdrawn; what is taken admits one      *)
(* client in the role offered or is lost; a client may go, but the last    *)
(* owner never does.  Nothing but an owner's place is offered or granted   *)
(* before there is an owner.  Module Mailbox is proved to implement it.    *)
(***************************************************************************)
EXTENDS Integers

CONSTANTS Clients, Tokens, Connections

VARIABLES
    roles,      \* the role of each client, "none" for a stranger
    known,      \* the tokens handed out so far
    offers,     \* what each token still offers
    tickets     \* the role each connection is about to grant, or "none"

ledger == <<roles, known, offers, tickets>>

NoOffer == [role |-> "none", left |-> 0]
Owned == \E c \in Clients : roles[c] = "owner"

\* A plain member's place needs an owner to have granted it.
Legitimate(role) == role = "owner" \/ (role = "member" /\ Owned)

Init ==
    /\ roles \in [Clients -> {"none", "member", "owner"}]
    /\ \A c \in Clients : roles[c] # "none" => Legitimate(roles[c])
    /\ known = {}
    /\ offers = [t \in Tokens |-> NoOffer]
    /\ tickets = [k \in Connections |-> "none"]

\* A new token is handed out.
Offer(t) ==
    /\ t \notin known
    /\ known' = known \cup {t}
    /\ offers' = [offers EXCEPT ![t] = offers'[t]]
    /\ Legitimate(offers'[t].role)
    /\ offers'[t].left > 0
    /\ UNCHANGED <<roles, tickets>>

Withdraw(t) ==
    /\ offers' = [offers EXCEPT ![t] = NoOffer]
    /\ UNCHANGED <<roles, known, tickets>>

\* A use of a token is counted for the client on connection k.
Take(k, t) ==
    /\ offers[t].left > 0
    /\ Legitimate(offers[t].role)
    /\ tickets[k] = "none"
    /\ offers' = [offers EXCEPT ![t].left = @ - 1]
    /\ tickets' = [tickets EXCEPT ![k] = offers[t].role]
    /\ UNCHANGED <<roles, known>>

\* The use becomes a member.
Admit(k, c) ==
    /\ roles[c] = "none"
    /\ Legitimate(tickets[k])
    /\ roles' = [roles EXCEPT ![c] = tickets[k]]
    /\ tickets' = [tickets EXCEPT ![k] = "none"]
    /\ UNCHANGED <<known, offers>>

\* Uses are lost with the connections that hold them.
Lose ==
    /\ tickets' \in [Connections -> {"none", "member", "owner"}]
    /\ \A k \in Connections : tickets'[k] \in {tickets[k], "none"}
    /\ UNCHANGED <<roles, known, offers>>

\* An owner other than the client that goes stays behind.
Depart(c) ==
    /\ \E d \in Clients \ {c} : roles[d] = "owner"
    /\ roles' = [roles EXCEPT ![c] = "none"]
    /\ UNCHANGED <<known, offers, tickets>>

Next ==
    \/ \E t \in Tokens : Offer(t) \/ Withdraw(t) \/ \E k \in Connections : Take(k, t)
    \/ \E c \in Clients : Depart(c) \/ \E k \in Connections : Admit(k, c)
    \/ Lose

Spec == Init /\ [][Next]_ledger
=============================================================================
