------------------------------ MODULE MCMailbox ------------------------------
(* Values for the constants of Mailbox and the symmetries TLC may use.     *)
EXTENDS Mailbox, TLC

CONSTANTS Alice, Bob, Carol

\* A new database, and databases of mailboxes that are in use.
NewMailbox == [c \in Clients |-> "none"]
AliceOwns == [c \in Clients |-> IF c = Alice THEN "owner" ELSE "none"]
BobJoined == [c \in Clients |-> IF c = Alice THEN "owner" ELSE IF c = Bob THEN "member" ELSE "none"]
AllJoined == [c \in Clients |-> IF c = Alice THEN "owner" ELSE "member"]

\* Which connection, session, token or message id is which does not matter.
Interchangeable ==
    Permutations(Workers) \cup Permutations(Admins)
        \cup Permutations(Tokens) \cup Permutations(MsgIds)

\* In a new database nor does it matter which client is which.
InterchangeableClients == Interchangeable \cup Permutations(Clients)
=============================================================================
