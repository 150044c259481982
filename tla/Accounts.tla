-------------------------------- MODULE Accounts --------------------------------
(***************************************************************************)
(* The accounts of a hub and the links that invite people to it: the admin *)
(* routes on users and user invitations, the public redemption of an       *)
(* invitation, and what a boot seeds.                                      *)
(*                                                                         *)
(* requireOwner awaits the verification of the token and then reads        *)
(* is_admin; the body of the route runs later, in one go.  What other      *)
(* requests do in between is the difficulty.  A body that writes a         *)
(* reference to a row that is gone meets a foreign key and ends in a 500.  *)
(***************************************************************************)
EXTENDS Integers, FiniteSets

CONSTANTS
  User,      \* ids of accounts, never used twice
  Name,      \* usernames
  System,    \* "__system__"
  Configs,   \* values of POUTINE_OWNER_USERNAME, None for none
  Invite,    \* ids of invitations, never used twice
  Request,   \* requests to admin routes in flight
  Unused, Gone,  \* an id without a row yet, and one whose row was deleted
  Idle, Failed,  \* a request that is not running, and one that ended in a 500
  None

Account == [name : Name, admin : BOOLEAN, blank : BOOLEAN]

Invitation ==
  [by : User, admin : BOOLEAN, consumed : BOOLEAN, account : User \cup {None},
   revoked : BOOLEAN, expired : BOOLEAN]

NameAssumption == System \in Name /\ None \notin Name \cup User
ConfigAssumption == Configs \subseteq (Name \ {System}) \cup {None}
MarkAssumption ==
  /\ Unused # Gone /\ Idle # Failed
  /\ {Unused, Gone} \cap Account = {} /\ {Unused, Gone} \cap Invitation = {}
  /\ {Idle, Failed} \cap User = {}

VARIABLES
  users,       \* users: rows by id
  invites,     \* user_invitations: rows by id
  owner,       \* owner_id of the 'local' row of instances
  configured,  \* POUTINE_OWNER_USERNAME
  call,        \* call[r]: the actor requireOwner has let through, or how r ended
  admitted     \* admitted[i]: accounts ever created through i (history)

accountVars == <<users, invites, owner, configured, call, admitted>>

Exists(u) == users[u] \notin {Unused, Gone}

Issued(i) == invites[i] \notin {Unused, Gone}

Taken(n) == \E u \in User : Exists(u) /\ users[u].name = n

IsAdmin(u) == Exists(u) /\ users[u].admin

HasAdmin == \E u \in User : IsAdmin(u)

-----------------------------------------------------------------------------
(* Booting.                                                                *)

\* The table that seedOwner leaves of table t under the owner's name n, a new
\* account getting id u.
Seeded(t, n, u) ==
  LET rows == {w \in User : t[w] \notin {Unused, Gone}}
      named == {w \in rows : t[w].name = n}
  IN IF n = None THEN t
     ELSE IF named # {}
       THEN [w \in User |-> IF w \in named /\ t[w].blank
                              THEN [name |-> n, admin |-> TRUE, blank |-> FALSE]
                              ELSE t[w]]
     ELSE IF \E w \in rows : t[w].name # System THEN t
     ELSE [t EXCEPT ![u] = [name |-> n, admin |-> TRUE, blank |-> FALSE]]

Fresh(u) == users[u] = Unused

\* The first boot: on an empty database, or on one whose single account lost
\* its password to the migration that dropped the old hashes.  Without any
\* account a placeholder owns the hub's own instance.
Init ==
  /\ \E n \in Configs, u \in User, old \in Name \ {System} :
       /\ configured = n
       /\ owner = u
       /\ LET empty == [w \in User |-> Unused]
              wiped == [empty EXCEPT ![u] = [name |-> old, admin |-> TRUE, blank |-> TRUE]]
              placeholder == [name |-> System, admin |-> FALSE, blank |-> TRUE]
          IN \/ n # None /\ users = Seeded(empty, n, u)
             \/ n = None /\ users = [empty EXCEPT ![u] = placeholder]
             \/ users = Seeded(wiped, n, u)
  /\ invites = [i \in Invite |-> Unused]
  /\ call = [r \in Request |-> Idle]
  /\ admitted = [i \in Invite |-> {}]

\* The process dies and boots again, with another owner configured perhaps.
Reboot(n, u) ==
  /\ Fresh(u)
  /\ configured' = n
  /\ users' = Seeded(users, n, u)
  /\ call' = [r \in Request |-> Idle]
  /\ UNCHANGED <<invites, owner, admitted>>

-----------------------------------------------------------------------------
(* Admin routes.                                                           *)

\* requireOwner.  A token outlives the account it was issued to, and whoever
\* is no admin any more is turned away here.
Authorize(r, u) ==
  /\ call[r] \in {Idle, Failed}
  /\ IsAdmin(u)
  /\ call' = [call EXCEPT ![r] = u]
  /\ UNCHANGED <<users, invites, owner, configured, admitted>>

Running(r) == call[r] \in User

End(r) == call' = [call EXCEPT ![r] = Idle]

\* A request whose parameters no body accepts, or a read-only one.
Decline(r) ==
  /\ Running(r)
  /\ End(r)
  /\ UNCHANGED <<users, invites, owner, configured, admitted>>

\* A foreign key refuses what the body writes; nothing of it stays.
Fail(r) ==
  /\ call' = [call EXCEPT ![r] = Failed]
  /\ UNCHANGED <<users, invites, owner, configured, admitted>>

CreateUser(r, u, n) ==
  /\ Running(r)
  /\ n # System /\ ~Taken(n)
  /\ Fresh(u)
  /\ users' = [users EXCEPT ![u] = [name |-> n, admin |-> FALSE, blank |-> FALSE]]
  /\ End(r)
  /\ UNCHANGED <<invites, owner, configured, admitted>>

\* loadTargetUser, without its options.
Target(u) == Exists(u) /\ users[u].name # System

ProtectedOwner(u) == configured # None /\ users[u].name = configured

SetPassword(r, u) ==
  /\ Running(r)
  /\ Target(u)
  /\ users' = [users EXCEPT ![u].blank = FALSE]
  /\ End(r)
  /\ UNCHANGED <<invites, owner, configured, admitted>>

\* Mutant: the admin to be demoted or deleted is counted as well.
AllAdmins(u) == {w \in User : IsAdmin(w)}

OtherAdmins(u) == {w \in User \ {u} : IsAdmin(w)}

\* A demotion or a deletion that the routes do not refuse.
MayLose(r, u) ==
  /\ Target(u) /\ u # call[r]
  /\ ~ProtectedOwner(u)
  /\ users[u].admin => OtherAdmins(u) # {}

Promote(r, u) ==
  /\ Running(r)
  /\ Target(u) /\ u # call[r]
  /\ users' = [users EXCEPT ![u].admin = TRUE]
  /\ End(r)
  /\ UNCHANGED <<invites, owner, configured, admitted>>

Demote(r, u) ==
  /\ Running(r)
  /\ MayLose(r, u)
  /\ users' = [users EXCEPT ![u].admin = FALSE]
  /\ End(r)
  /\ UNCHANGED <<invites, owner, configured, admitted>>

\* What ON DELETE CASCADE and ON DELETE SET NULL leave of the invitations.
InvitesWithout(u) ==
  [i \in Invite |->
     IF ~Issued(i) THEN invites[i]
     ELSE IF invites[i].by = u THEN Gone
     ELSE IF invites[i].account = u THEN [invites[i] EXCEPT !.account = None]
     ELSE invites[i]]

\* Mutant: the account is deleted without giving its instance away.
KeepOwner(r, u) == owner

\* Who owns the instance once r has deleted u.
NewOwner(r, u) == IF owner = u THEN call[r] ELSE owner

\* Mutant: foreign keys are not enforced.
Unenforced(r, u) == FALSE

\* The new owner must exist when it is written and after the deletion.
DeleteFails(r, u) == owner = u /\ (NewOwner(r, u) = u \/ ~Exists(NewOwner(r, u)))

DeleteUser(r, u) ==
  /\ Running(r)
  /\ MayLose(r, u)
  /\ IF DeleteFails(r, u)
       THEN Fail(r)
       ELSE /\ owner' = NewOwner(r, u)
            /\ users' = [users EXCEPT ![u] = Gone]
            /\ invites' = InvitesWithout(u)
            /\ End(r)
            /\ UNCHANGED <<configured, admitted>>

IssueInvite(r, i, grant) ==
  /\ Running(r)
  /\ invites[i] = Unused
  /\ IF ~Exists(call[r])
       THEN Fail(r)
       ELSE /\ invites' = [invites EXCEPT ![i] =
                 [by |-> call[r], admin |-> grant, consumed |-> FALSE,
                  account |-> None, revoked |-> FALSE, expired |-> FALSE]]
            /\ End(r)
            /\ UNCHANGED <<users, owner, configured, admitted>>

RevokeInvite(r, i) ==
  /\ Running(r)
  /\ Issued(i) /\ ~invites[i].consumed /\ ~invites[i].revoked
  /\ invites' = [invites EXCEPT ![i].revoked = TRUE]
  /\ End(r)
  /\ UNCHANGED <<users, owner, configured, admitted>>

-----------------------------------------------------------------------------
(* The public side of an invitation.                                       *)

Expire(i) ==
  /\ Issued(i)
  /\ invites' = [invites EXCEPT ![i].expired = TRUE]
  /\ UNCHANGED <<users, owner, configured, call, admitted>>

\* Mutant: an invitation is spent if it names an account.
ClaimableByAccount(i) ==
  /\ Issued(i)
  /\ invites[i].account = None /\ ~invites[i].revoked /\ ~invites[i].expired

\* consumeUserInvite finds the row.
Claimable(i) ==
  /\ Issued(i)
  /\ ~invites[i].consumed /\ ~invites[i].revoked /\ ~invites[i].expired

\* POST /api/invites/redeem: the account and the claim are one transaction.
\* Any name that is not taken will do, the system's included.
Redeem(i, u, n) ==
  /\ Claimable(i)
  /\ ~Taken(n)
  /\ Fresh(u)
  /\ users' = [users EXCEPT ![u] = [name |-> n, admin |-> invites[i].admin, blank |-> FALSE]]
  /\ invites' = [invites EXCEPT ![i].consumed = TRUE, ![i].account = u]
  /\ admitted' = [admitted EXCEPT ![i] = @ \cup {u}]
  /\ UNCHANGED <<owner, configured, call>>

-----------------------------------------------------------------------------
Serve(r) ==
  \/ Decline(r)
  \/ \E u \in User : \/ SetPassword(r, u) \/ Promote(r, u)
                     \/ Demote(r, u) \/ DeleteUser(r, u)
                     \/ \E n \in Name : CreateUser(r, u, n)
  \/ \E i \in Invite : \/ RevokeInvite(r, i)
                       \/ \E grant \in BOOLEAN : IssueInvite(r, i, grant)

Next ==
  \/ \E r \in Request : Serve(r) \/ \E u \in User : Authorize(r, u)
  \/ \E i \in Invite : \/ Expire(i)
                       \/ \E u \in User, n \in Name : Redeem(i, u, n)
  \/ \E u \in User, n \in Configs : Reboot(n, u)

Spec == Init /\ [][Next]_accountVars

-----------------------------------------------------------------------------
(* Properties.                                                             *)

\* Every variable has its type; the owner of the instance is an account.
TypeOK ==
  /\ users \in [User -> Account \cup {Unused, Gone}]
  /\ invites \in [Invite -> Invitation \cup {Unused, Gone}]
  /\ owner \in User /\ Exists(owner)
  /\ configured \in Configs
  /\ call \in [Request -> User \cup {Idle, Failed}]
  /\ admitted \in [Invite -> SUBSET User]

\* admin.ts:157-164: two admins who both pass authorization before either
\* write lands must not leave the hub without one.  Whatever requests cross,
\* whoever redeems and whatever owner a boot is configured with, a hub that
\* has an admin keeps one.
AdminRemains == [][HasAdmin => HasAdmin']_accountVars

\* An invitation admits one person, although the account it made may be
\* deleted since (consumed_by_id goes NULL) and the issuer may be too.
OneAccountPerInvite == \A i \in Invite : Cardinality(admitted[i]) <= 1

\* A foreign key fails a request only if the admin it runs for was deleted
\* after requireOwner let it through; deleting an account that owns the hub's
\* own instance is no reason.
FailsOnlyForDeadActor ==
  [][\A r \in Request :
       call[r] # Failed /\ call'[r] = Failed => ~Exists(call[r])]_accountVars
=============================================================================
