---------------------------- MODULE MailboxAdmin ----------------------------
(***************************************************************************)
(* The administrator's commands on the same database: `fialka mailbox      *)
(* init`, `invite`, `members` and `invites` (cmd/mailbox.go), and the      *)
(* commands init, invite, kick and revoke of the dashboard (cmd/tui.go).   *)
(* A session runs one command at a time; several sessions may be open, and *)
(* the server keeps serving between their store calls.  A shell command    *)
(* and its dashboard twin make the same calls; where they differ, the      *)
(* model allows both.                                                      *)
(***************************************************************************)
EXTENDS MailboxStore

CONSTANTS
    Admins,     \* sessions open at a time (bound)
    AdminOps    \* the commands used in this instance (bound)

ASSUME AdminAssumption == AdminOps \subseteq {"init", "invite", "kick", "revoke"}

VARIABLES
    apc,        \* the store call each session makes next
    kicking,    \* the member a session has picked from its listing
    revoking,   \* the invite a session has picked from its listing
    inviting    \* the role asked for, and the time of the last check

adminVars == <<apc, kicking, revoking, inviting>>

AdminLabels == {"idle", "init_list", "init_create", "invite_recheck", "invite_create",
                "kick_lookup", "kick_delete", "revoke_invite"}

NoInvitation == [role |-> "none", since |-> 0]

AdminInit ==
    /\ apc = [a \in Admins |-> "idle"]
    /\ kicking = [a \in Admins |-> NoClient]
    /\ revoking = [a \in Admins |-> NoCode]
    /\ inviting = [a \in Admins |-> NoInvitation]

-----------------------------------------------------------------------------

Asks(a, op) == apc[a] = "idle" /\ op \in AdminOps
AdminAt(a, label) == apc[a] = label
AdminGoto(a, label) ==
    apc' = [apc EXCEPT ![a] = label] /\ UNCHANGED <<kicking, revoking, inviting>>

\* The command ends; its locals are gone.
AdminDone(a) ==
    /\ apc' = [apc EXCEPT ![a] = "idle"]
    /\ kicking' = [kicking EXCEPT ![a] = NoClient]
    /\ revoking' = [revoking EXCEPT ![a] = NoCode]
    /\ inviting' = [inviting EXCEPT ![a] = NoInvitation]

AdminKeep == UNCHANGED storeVars
AdminKeepHistory == UNCHANGED <<clock, admitted, delivered, removedBy, missed>>

AdminError == StoreError /\ AdminKeepHistory

-----------------------------------------------------------------------------
(* init.                                                                   *)

\* HasOwner: with an owner the command ends.  The error of the call is
\* dropped and reads as "no owner".
InitHasOwner(a) ==
    /\ Asks(a, "init")
    /\ AdminGoto(a, "init_list")
    /\ \/ ~HasOwner /\ AdminKeep
       \/ AdminError

\* ListInvites: an unused owner invite is shown again, whether or not it has
\* expired.  The error of the call is dropped and reads as "no invites".
InitList(a) ==
    /\ AdminAt(a, "init_list")
    /\ \/ /\ \E t \in Tokens : invites[t].role = "owner" /\ Unused(t)
          /\ AdminDone(a) /\ AdminKeep
       \/ /\ \A t \in Tokens : invites[t].role = "owner" => ~Unused(t)
          /\ AdminGoto(a, "init_create") /\ AdminKeep
       \/ AdminGoto(a, "init_create") /\ AdminError

\* Mistaken variant of InitCreate: the invite expires like any other.
BugInitCreate(a) ==
    /\ AdminAt(a, "init_create")
    /\ AdminDone(a)
    /\ \E t \in FreshTokens : CreateInvite(t, "owner", 1, clock + InviteTTL)
    /\ UNCHANGED <<members, messages, spent>> /\ AdminKeepHistory

\* CreateInvite: an owner invite for one use, which never expires.
InitCreate(a) ==
    /\ AdminAt(a, "init_create")
    /\ AdminDone(a)
    /\ \E t \in FreshTokens : CreateInvite(t, "owner", 1, 0)
    /\ UNCHANGED <<members, messages, spent>> /\ AdminKeepHistory

-----------------------------------------------------------------------------
(* invite.                                                                 *)

\* Mistaken variant of InviteHasOwner: member invites before there is an owner.
BugInviteHasOwner(a) ==
    /\ Asks(a, "invite")
    /\ inviting' = [inviting EXCEPT ![a] = [role |-> "member", since |-> clock]]
    /\ apc' = [apc EXCEPT ![a] = "invite_create"]
    /\ UNCHANGED <<kicking, revoking>>
    /\ AdminKeep

\* HasOwner: without one, or after an error, the command ends.  Then the form
\* asks for a role; an owner invite is checked once more.
InviteHasOwner(a) ==
    /\ Asks(a, "invite")
    /\ HasOwner
    /\ \E role \in Roles :
          /\ inviting' = [inviting EXCEPT ![a] = [role |-> role, since |-> clock]]
          /\ apc' = [apc EXCEPT ![a] =
                IF role = "owner" THEN "invite_recheck" ELSE "invite_create"]
    /\ UNCHANGED <<kicking, revoking>>
    /\ AdminKeep

\* HasOwner before an owner invite: refused while there is an owner.  The
\* error of the call is dropped and reads as "no owner".
InviteRecheck(a) ==
    /\ AdminAt(a, "invite_recheck")
    /\ \/ /\ IF HasOwner THEN AdminDone(a) ELSE AdminGoto(a, "invite_create")
          /\ AdminKeep
       \/ AdminGoto(a, "invite_create") /\ AdminError

\* CreateInvite with the use limit and the lifetime typed into the form.
AdminInviteCreate(a) ==
    /\ AdminAt(a, "invite_create")
    /\ AdminDone(a)
    /\ \E t \in FreshTokens, uses \in 1 .. MaxUses,
          expiresAt \in {0} \cup {now + InviteTTL : now \in inviting[a].since .. clock} :
          CreateInvite(t, inviting[a].role, uses, expiresAt)
    /\ UNCHANGED <<members, messages, spent>> /\ AdminKeepHistory

-----------------------------------------------------------------------------
(* kick and revoke.                                                        *)

\* ListMembers, and a row picked from the listing; the owner's is refused.
KickPick(a) ==
    /\ Asks(a, "kick")
    /\ \E c \in Clients : Removable(c) /\ kicking' = [kicking EXCEPT ![a] = c]
    /\ apc' = [apc EXCEPT ![a] = "kick_lookup"]
    /\ UNCHANGED <<revoking, inviting>>
    /\ AdminKeep

\* RemoveMember, first call.
KickLookup(a) ==
    /\ AdminAt(a, "kick_lookup")
    /\ \/ Removable(kicking[a]) /\ AdminGoto(a, "kick_delete")
       \/ ~Removable(kicking[a]) /\ AdminDone(a)
    /\ AdminKeep

\* RemoveMember, second call.
KickDelete(a) ==
    /\ AdminAt(a, "kick_delete")
    /\ AdminDone(a)
    /\ DeleteMember(kicking[a])
    /\ UNCHANGED <<invites, issued, messages, spent>> /\ AdminKeepHistory

\* ListInvites, and a row picked from the listing.
RevokePick(a) ==
    /\ Asks(a, "revoke")
    /\ \E t \in Tokens : InviteExists(t) /\ revoking' = [revoking EXCEPT ![a] = t]
    /\ apc' = [apc EXCEPT ![a] = "revoke_invite"]
    /\ UNCHANGED <<kicking, inviting>>
    /\ AdminKeep

\* RevokeInvite: deletes the row with its use count.
RevokeDelete(a) ==
    /\ AdminAt(a, "revoke_invite")
    /\ AdminDone(a)
    /\ RevokeInvite(revoking[a])
    /\ UNCHANGED <<members, issued, messages, spent>> /\ AdminKeepHistory

-----------------------------------------------------------------------------

\* The administrator answers no, leaves the form or kills the command, or a
\* store call fails in a command that then ends.
AdminQuit(a) ==
    /\ apc[a] # "idle"
    /\ AdminDone(a)
    /\ AdminKeep

AdminStep(a) ==
    \/ InitHasOwner(a) \/ InitList(a) \/ InitCreate(a)
    \/ InviteHasOwner(a) \/ InviteRecheck(a) \/ AdminInviteCreate(a)
    \/ KickPick(a) \/ KickLookup(a) \/ KickDelete(a)
    \/ RevokePick(a) \/ RevokeDelete(a)
    \/ AdminQuit(a)

TypeOKAdmin ==
    /\ apc \in [Admins -> AdminLabels]
    /\ kicking \in [Admins -> Clients \cup {NoClient}]
    /\ revoking \in [Admins -> Tokens \cup {NoCode}]
    /\ inviting \in [Admins -> [role : Roles \cup {"none"}, since : Nat]]
=============================================================================
