---------------------------- MODULE ServicesProofs ----------------------------
(***************************************************************************)
(* Proofs about the services of module Services, one section for each.     *)
(* The services share no variable, so each section proves that the steps   *)
(* of its service preserve an invariant of its own, and the theorems at    *)
(* the end conjoin them.                                                   *)
(***************************************************************************)
EXTENDS Services, FiniteSetTheorems, TLAPS

\* A service that is instantiated brings the operators of FiniteSets under
\* names of its own; they are the same operators.
LEMMA SameFiniteSets ==
  \A S : /\ Accounts!Cardinality(S) = Cardinality(S)
         /\ Art!Cardinality(S) = Cardinality(S)
         /\ Log!Cardinality(S) = Cardinality(S)
         /\ Art!IsFiniteSet(S) <=> IsFiniteSet(S)
  <1>1. ASSUME NEW S PROVE Accounts!Cardinality(S) = Cardinality(S)
    BY DEF Accounts!Cardinality, Cardinality
  <1>2. ASSUME NEW S PROVE Art!Cardinality(S) = Cardinality(S)
    BY DEF Art!Cardinality, Cardinality
  <1>3. ASSUME NEW S PROVE Log!Cardinality(S) = Cardinality(S)
    BY DEF Log!Cardinality, Cardinality
  <1>4. ASSUME NEW S PROVE Art!IsFiniteSet(S) <=> IsFiniteSet(S)
    BY DEF Art!IsFiniteSet, IsFiniteSet
  <1> QED
    BY <1>1, <1>2, <1>3, <1>4

-----------------------------------------------------------------------------
(* Accounts.                                                               *)

AccountRows == Accounts!Account \cup {Unused, Gone}

InviteRows == Accounts!Invitation \cup {Unused, Gone}

Row(r) == r \notin {Unused, Gone}

\* An invitation that has admitted someone is spent or deleted, and an id is
\* not issued twice: the one account is all it will ever admit.
Spent ==
  \A i \in Invite :
    /\ \E u \in User : admitted[i] \subseteq {u}
    /\ admitted[i] # {} =>
         invites[i] # Unused /\ (Accounts!Issued(i) => invites[i].consumed)

AccountsInv == Accounts!TypeOK /\ Spent

LEMMA AccountRow ==
  ASSUME NEW r \in AccountRows, Row(r)
  PROVE  /\ r \in Accounts!Account
         /\ r.name \in Name /\ r.admin \in BOOLEAN /\ r.blank \in BOOLEAN
  BY DEF AccountRows, Row, Accounts!Account

LEMMA InviteRow ==
  ASSUME NEW r \in InviteRows, Row(r)
  PROVE  /\ r \in Accounts!Invitation
         /\ r.by \in User /\ r.admin \in BOOLEAN /\ r.consumed \in BOOLEAN
  BY DEF InviteRows, Row, Accounts!Invitation

\* A record is no mark for an unused or a deleted id.
LEMMA AccountsAreRows ==
  /\ \A a \in Accounts!Account : a \in AccountRows /\ Row(a)
  /\ \A a \in Accounts!Invitation : a \in InviteRows /\ Row(a)
  BY ServicesAssumption DEF Accounts!MarkAssumption, Row, AccountRows, InviteRows

LEMMA NewAccount ==
  \A n \in Name, b, c \in BOOLEAN :
    [name |-> n, admin |-> b, blank |-> c] \in Accounts!Account
  BY DEF Accounts!Account

\* Seeding deletes no account and takes no one's rights, and the table it finds
\* empty it leaves with the owner in it.
LEMMA SeedingKeeps ==
  ASSUME NEW t \in [User -> AccountRows], NEW n \in Configs, NEW u \in User,
         t[u] = Unused \/ (Row(t[u]) /\ t[u].name # System)
  PROVE  /\ Accounts!Seeded(t, n, u) \in [User -> AccountRows]
         /\ \A w \in User : Row(t[w]) =>
              /\ Row(Accounts!Seeded(t, n, u)[w])
              /\ t[w].admin => Accounts!Seeded(t, n, u)[w].admin
         /\ n # None /\ (\A w \in User : ~Row(t[w])) => Row(Accounts!Seeded(t, n, u)[u])
  <1> DEFINE existing == {w \in User : t[w] \notin {Unused, Gone}}
             named == {w \in existing : t[w].name = n}
             owned == [name |-> n, admin |-> TRUE, blank |-> FALSE]
             S == Accounts!Seeded(t, n, u)
  <1>1. CASE n = None
    BY <1>1 DEF Accounts!Seeded
  <1>2. ASSUME n # None
        PROVE  owned \in AccountRows /\ Row(owned) /\ owned.admin
    BY <1>2, ServicesAssumption, AccountsAreRows, NewAccount DEF Accounts!ConfigAssumption
  <1>3. CASE n # None /\ named # {}
    <2>1. S = [w \in User |-> IF w \in named /\ t[w].blank THEN owned ELSE t[w]]
      BY <1>3 DEF Accounts!Seeded
    <2> QED
      BY <2>1, <1>2, <1>3 DEF Row
  <1>4. CASE n # None /\ named = {} /\ \E w \in existing : t[w].name # System
    <2>1. S = t
      BY <1>4 DEF Accounts!Seeded
    <2> QED
      BY <2>1, <1>4 DEF Row
  <1>5. CASE n # None /\ named = {} /\ ~\E w \in existing : t[w].name # System
    <2>1. S = [t EXCEPT ![u] = owned]
      BY <1>5 DEF Accounts!Seeded
    <2>2. t[u] = Unused
      BY <1>5 DEF Row
    <2> QED
      BY <2>1, <2>2, <1>2, <1>5 DEF Row
  <1> QED
    BY <1>1, <1>3, <1>4, <1>5

LEMMA AccountsTypes ==
  Accounts!TypeOK <=>
    /\ users \in [User -> AccountRows]
    /\ invites \in [Invite -> InviteRows]
    /\ owner \in User /\ Row(users[owner])
    /\ configured \in Configs
    /\ call \in [Request -> User \cup {Idle, Failed}]
    /\ admitted \in [Invite -> SUBSET User]
  BY DEF Accounts!TypeOK, AccountRows, InviteRows, Row, Accounts!Exists

LEMMA AccountsStart == Accounts!Init => AccountsInv
  <1> SUFFICES ASSUME Accounts!Init PROVE AccountsInv
    OBVIOUS
  <1>1. PICK n \in Configs, u \in User, former \in Name \ {System} :
          /\ configured = n
          /\ owner = u
          /\ LET empty == [w \in User |-> Unused]
                 wiped == [empty EXCEPT ![u] =
                             [name |-> former, admin |-> TRUE, blank |-> TRUE]]
                 placeholder == [name |-> System, admin |-> FALSE, blank |-> TRUE]
             IN \/ n # None /\ users = Accounts!Seeded(empty, n, u)
                \/ n = None /\ users = [empty EXCEPT ![u] = placeholder]
                \/ users = Accounts!Seeded(wiped, n, u)
    BY DEF Accounts!Init
  <1> DEFINE empty == [w \in User |-> Unused]
             former1 == [name |-> former, admin |-> TRUE, blank |-> TRUE]
             wiped == [empty EXCEPT ![u] = former1]
             placeholder == [name |-> System, admin |-> FALSE, blank |-> TRUE]
  <1>2. empty \in [User -> AccountRows] /\ \A w \in User : ~Row(empty[w])
    BY DEF AccountRows, Row
  <1>3. placeholder \in AccountRows /\ Row(placeholder)
    BY AccountsAreRows, NewAccount, ServicesAssumption DEF Accounts!NameAssumption
  <1>4. former1 \in AccountRows /\ Row(former1) /\ former1.name # System
    BY AccountsAreRows, NewAccount
  <1>5. wiped \in [User -> AccountRows] /\ wiped[u] = former1
    BY <1>2, <1>4
  <1>6. users \in [User -> AccountRows] /\ Row(users[u])
    <2>1. CASE n # None /\ users = Accounts!Seeded(empty, n, u)
      BY <2>1, <1>2, SeedingKeeps
    <2>2. CASE users = [empty EXCEPT ![u] = placeholder]
      BY <2>2, <1>2, <1>3
    <2>3. CASE users = Accounts!Seeded(wiped, n, u)
      BY <2>3, <1>4, <1>5, SeedingKeeps
    <2> QED
      BY <1>1, <2>1, <2>2, <2>3
  <1>7. /\ invites \in [Invite -> InviteRows]
        /\ call \in [Request -> User \cup {Idle, Failed}]
        /\ admitted = [i \in Invite |-> {}]
    BY DEF Accounts!Init, InviteRows
  <1>8. Accounts!TypeOK
    BY <1>1, <1>6, <1>7, AccountsTypes
  <1>9. Spent
    BY <1>1, <1>7 DEF Spent
  <1> QED
    BY <1>8, <1>9 DEF AccountsInv

\* Every step but a deletion leaves the rows there are, and a deletion takes
\* one that is not the owner's of the hub.
LEMMA AccountsTypeStep ==
  ASSUME Accounts!TypeOK, Accounts!Next
  PROVE  Accounts!TypeOK'
  <1>1. /\ users \in [User -> AccountRows]
        /\ invites \in [Invite -> InviteRows]
        /\ owner \in User /\ Row(users[owner])
        /\ configured \in Configs
        /\ call \in [Request -> User \cup {Idle, Failed}]
        /\ admitted \in [Invite -> SUBSET User]
    BY AccountsTypes
  <1> DEFINE Goal == /\ users' \in [User -> AccountRows]
                     /\ invites' \in [Invite -> InviteRows]
                     /\ owner' \in User /\ Row(users'[owner'])
                     /\ configured' \in Configs
                     /\ call' \in [Request -> User \cup {Idle, Failed}]
                     /\ admitted' \in [Invite -> SUBSET User]
  <1>2. SUFFICES Goal
    BY DEF Accounts!TypeOK, AccountRows, InviteRows, Row, Accounts!Exists
  <1>3. ASSUME NEW r \in Request, NEW u \in User, Accounts!Authorize(r, u) PROVE Goal
    BY <1>1, <1>3 DEF Accounts!Authorize
  <1>4. ASSUME NEW r \in Request, Accounts!Decline(r) PROVE Goal
    BY <1>1, <1>4 DEF Accounts!Decline, Accounts!End
  <1>5. ASSUME NEW r \in Request, NEW u \in User, NEW n \in Name, Accounts!CreateUser(r, u, n)
        PROVE  Goal
    <2> DEFINE a == [name |-> n, admin |-> FALSE, blank |-> FALSE]
    <2>1. a \in AccountRows /\ Row(a)
      BY NewAccount, AccountsAreRows
    <2>2. users' = [users EXCEPT ![u] = a]
      BY <1>5 DEF Accounts!CreateUser
    <2> QED
      BY <1>1, <1>5, <2>1, <2>2 DEF Accounts!CreateUser, Accounts!End
  <1>6. ASSUME NEW r \in Request, NEW u \in User, NEW b \in BOOLEAN, NEW c \in BOOLEAN,
               Accounts!Target(u),
               \/ users' = [users EXCEPT ![u].blank = b]
               \/ users' = [users EXCEPT ![u].admin = c],
               call' = [call EXCEPT ![r] = Idle],
               UNCHANGED <<invites, owner, configured, admitted>>
        PROVE  Goal
    <2>1. users[u] \in Accounts!Account
      BY <1>1, <1>6, AccountRow DEF Accounts!Target, Accounts!Exists, Row
    <2>2. /\ [users[u] EXCEPT !.blank = b] \in Accounts!Account
          /\ [users[u] EXCEPT !.admin = c] \in Accounts!Account
      BY <2>1 DEF Accounts!Account
    <2>3. \E a \in Accounts!Account : users' = [users EXCEPT ![u] = a]
      BY <1>6, <2>2
    <2>4. \E a \in AccountRows : Row(a) /\ users' = [users EXCEPT ![u] = a]
      BY <2>3, AccountsAreRows
    <2> QED
      BY <1>1, <1>6, <2>4
  <1>7. ASSUME NEW r \in Request, NEW u \in User,
               Accounts!SetPassword(r, u) \/ Accounts!Promote(r, u) \/ Accounts!Demote(r, u)
        PROVE  Goal
    BY <1>6, <1>7 DEF Accounts!SetPassword, Accounts!Promote, Accounts!Demote,
                      Accounts!MayLose, Accounts!End
  <1>8. ASSUME NEW r \in Request, Accounts!Fail(r) PROVE Goal
    BY <1>1, <1>8 DEF Accounts!Fail
  <1>9. ASSUME NEW r \in Request, NEW u \in User, Accounts!DeleteUser(r, u) PROVE Goal
    <2>1. CASE Accounts!DeleteFails(r, u)
      BY <1>8, <1>9, <2>1 DEF Accounts!DeleteUser
    <2>2. CASE ~Accounts!DeleteFails(r, u)
      <3>1. invites' \in [Invite -> InviteRows]
        <4>1. \A i \in Invite : Accounts!Issued(i) =>
                [invites[i] EXCEPT !.account = None] \in Accounts!Invitation
          BY <1>1, InviteRow DEF Accounts!Issued, Row, Accounts!Invitation
        <4> QED
          BY <1>1, <1>9, <2>2, <4>1
             DEF Accounts!DeleteUser, Accounts!InvitesWithout, InviteRows
      <3>2. owner' \in User /\ owner' # u /\ Row(users[owner'])
        BY <1>1, <1>9, <2>2 DEF Accounts!DeleteUser, Accounts!DeleteFails,
             Accounts!NewOwner, Accounts!Exists, Accounts!Running, Row
      <3> QED
        BY <1>1, <1>9, <2>2, <3>1, <3>2 DEF Accounts!DeleteUser, Accounts!End, AccountRows
    <2> QED
      BY <2>1, <2>2
  <1>10. ASSUME NEW r \in Request, NEW i \in Invite, NEW grant \in BOOLEAN,
                Accounts!IssueInvite(r, i, grant)
         PROVE  Goal
    <2>1. CASE ~Accounts!Exists(call[r])
      BY <1>8, <1>10, <2>1 DEF Accounts!IssueInvite
    <2>2. CASE Accounts!Exists(call[r])
      <3> DEFINE v == [by |-> call[r], admin |-> grant, consumed |-> FALSE,
                       account |-> None, revoked |-> FALSE, expired |-> FALSE]
      <3>1. v \in InviteRows
        BY <1>10 DEF Accounts!IssueInvite, Accounts!Running, Accounts!Invitation, InviteRows
      <3>2. invites' = [invites EXCEPT ![i] = v]
        BY <1>10, <2>2 DEF Accounts!IssueInvite
      <3> QED
        BY <1>1, <1>10, <2>2, <3>1, <3>2 DEF Accounts!IssueInvite, Accounts!End
    <2> QED
      BY <2>1, <2>2
  <1>11. ASSUME NEW i \in Invite, Accounts!Issued(i)
         PROVE  /\ [invites[i] EXCEPT !.revoked = TRUE] \in InviteRows
                /\ [invites[i] EXCEPT !.expired = TRUE] \in InviteRows
                /\ \A u \in User :
                     [invites[i] EXCEPT !.consumed = TRUE, !.account = u] \in InviteRows
                /\ invites[i].admin \in BOOLEAN
    <2>1. invites[i] \in Accounts!Invitation
      BY <1>1, <1>11, InviteRow DEF Accounts!Issued, Row
    <2> QED
      BY <2>1 DEF Accounts!Invitation, InviteRows
  <1>12. ASSUME NEW r \in Request, NEW i \in Invite, Accounts!RevokeInvite(r, i) PROVE Goal
    BY <1>1, <1>11, <1>12 DEF Accounts!RevokeInvite, Accounts!End
  <1>13. ASSUME NEW i \in Invite, Accounts!Expire(i) PROVE Goal
    BY <1>1, <1>11, <1>13 DEF Accounts!Expire
  <1>14. ASSUME NEW i \in Invite, NEW u \in User, NEW n \in Name, Accounts!Redeem(i, u, n)
         PROVE  Goal
    <2> DEFINE a == [name |-> n, admin |-> invites[i].admin, blank |-> FALSE]
    <2>1. Accounts!Issued(i)
      BY <1>14 DEF Accounts!Redeem, Accounts!Claimable
    <2>2. a \in AccountRows /\ Row(a)
      BY <1>11, <2>1, NewAccount, AccountsAreRows
    <2>3. /\ users' = [users EXCEPT ![u] = a]
          /\ invites' = [invites EXCEPT
                           ![i] = [invites[i] EXCEPT !.consumed = TRUE, !.account = u]]
      BY <1>1, <1>14 DEF Accounts!Redeem
    <2>4. admitted' \in [Invite -> SUBSET User]
      BY <1>1, <1>14 DEF Accounts!Redeem
    <2>5. UNCHANGED <<owner, configured, call>>
      BY <1>14 DEF Accounts!Redeem
    <2> HIDE DEF a
    <2>6. users' \in [User -> AccountRows] /\ Row(users'[owner])
      BY <1>1, <2>2, <2>3
    <2>7. invites' \in [Invite -> InviteRows]
      BY <1>1, <1>11, <2>1, <2>3
    <2> QED
      BY <1>1, <2>4, <2>5, <2>6, <2>7
  <1>15. ASSUME NEW u \in User, NEW n \in Configs, Accounts!Reboot(n, u) PROVE Goal
    BY <1>1, <1>15, SeedingKeeps DEF Accounts!Reboot, Accounts!Fresh
  <1> QED
    BY <1>3, <1>4, <1>5, <1>7, <1>9, <1>10, <1>12, <1>13, <1>14, <1>15
       DEF Accounts!Next, Accounts!Serve

LEMMA SpentStep ==
  ASSUME AccountsInv, Accounts!Next
  PROVE  Spent'
  <1>1. /\ invites \in [Invite -> InviteRows]
        /\ admitted \in [Invite -> SUBSET User]
        /\ Unused # Gone /\ Unused \notin Accounts!Invitation
    BY AccountsTypes, ServicesAssumption DEF AccountsInv, Accounts!MarkAssumption
  <1> DEFINE Fine(r, S) == S # {} => r # Unused /\ (Row(r) => r.consumed)
  <1>2. /\ \A i \in Invite : Fine(invites[i], admitted[i])
        /\ \A i \in Invite : \E u \in User : admitted[i] \subseteq {u}
    BY DEF AccountsInv, Spent, Accounts!Issued, Row
  <1>3. SUFFICES /\ \A i \in Invite : Fine(invites'[i], admitted'[i])
                 /\ \A i \in Invite : \E u \in User : admitted'[i] \subseteq {u}
    BY DEF Spent, Accounts!Issued, Row
  <1>4. CASE UNCHANGED <<invites, admitted>>
    BY <1>2, <1>4
  <1>5. ASSUME NEW r \in Request, NEW u \in User, Accounts!DeleteUser(r, u),
               ~UNCHANGED <<invites, admitted>>
        PROVE  UNCHANGED admitted /\ \A i \in Invite : Fine(invites'[i], admitted[i])
    <2>1. invites' = Accounts!InvitesWithout(u) /\ UNCHANGED admitted
      BY <1>5 DEF Accounts!DeleteUser, Accounts!Fail
    <2>2. ASSUME NEW i \in Invite PROVE Fine(invites'[i], admitted[i])
      <3>1. \/ invites'[i] = Gone
            \/ invites'[i] = invites[i]
            \/ invites'[i] = [invites[i] EXCEPT !.account = None] /\ Accounts!Issued(i)
        BY <2>1 DEF Accounts!InvitesWithout
      <3>2. CASE Accounts!Issued(i)
        <4>1. invites[i] \in Accounts!Invitation
          BY <1>1, <3>2, InviteRow DEF Accounts!Issued, Row
        <4>2. LET v == [invites[i] EXCEPT !.account = None]
              IN v \in Accounts!Invitation /\ v.consumed = invites[i].consumed
          BY <4>1 DEF Accounts!Invitation
        <4> QED
          BY <1>1, <1>2, <3>1, <3>2, <4>2 DEF Row, Accounts!Issued
      <3> QED
        BY <1>1, <1>2, <3>1, <3>2 DEF Row
    <2> QED
      BY <2>1, <2>2
  <1>6. ASSUME NEW r \in Request, NEW i \in Invite, NEW grant \in BOOLEAN,
               Accounts!IssueInvite(r, i, grant), ~UNCHANGED <<invites, admitted>>
        PROVE  UNCHANGED admitted /\ \A j \in Invite : Fine(invites'[j], admitted[j])
    <2>1. /\ invites[i] = Unused /\ UNCHANGED admitted
          /\ \A j \in Invite \ {i} : invites'[j] = invites[j]
      BY <1>1, <1>6 DEF Accounts!IssueInvite, Accounts!Fail
    <2> QED
      BY <1>2, <2>1
  <1>7. ASSUME NEW i \in Invite, Accounts!Expire(i) \/ \E r \in Request : Accounts!RevokeInvite(r, i)
        PROVE  UNCHANGED admitted /\ \A j \in Invite : Fine(invites'[j], admitted[j])
    <2>1. /\ Accounts!Issued(i) /\ UNCHANGED admitted
          /\ \/ invites' = [invites EXCEPT ![i].expired = TRUE]
             \/ invites' = [invites EXCEPT ![i].revoked = TRUE]
      BY <1>7 DEF Accounts!Expire, Accounts!RevokeInvite
    <2>2. invites[i] \in Accounts!Invitation
      BY <1>1, <2>1, InviteRow DEF Accounts!Issued, Row
    <2>3. invites'[i].consumed = invites[i].consumed /\ invites'[i] \in Accounts!Invitation
      BY <1>1, <2>1, <2>2 DEF Accounts!Invitation
    <2>4. \A j \in Invite \ {i} : invites'[j] = invites[j]
      BY <1>1, <2>1
    <2> QED
      BY <1>1, <1>2, <2>1, <2>3, <2>4 DEF Row, Accounts!Issued
  <1>8. ASSUME NEW i \in Invite, NEW u \in User, NEW n \in Name, Accounts!Redeem(i, u, n)
        PROVE  /\ \A j \in Invite : Fine(invites'[j], admitted'[j])
               /\ \A j \in Invite : \E w \in User : admitted'[j] \subseteq {w}
    <2>1. invites[i] \in Accounts!Invitation /\ ~invites[i].consumed /\ Row(invites[i])
      BY <1>1, <1>8, InviteRow DEF Accounts!Redeem, Accounts!Claimable, Accounts!Issued, Row
    <2>2. admitted[i] = {}
      BY <1>2, <2>1
    <2>3. invites'[i] \in Accounts!Invitation /\ invites'[i].consumed
      BY <1>1, <1>8, <2>1 DEF Accounts!Redeem, Accounts!Invitation
    <2>4. admitted'[i] = {u}
      BY <1>1, <1>8, <2>2 DEF Accounts!Redeem
    <2>5. \A j \in Invite \ {i} : invites'[j] = invites[j] /\ admitted'[j] = admitted[j]
      BY <1>1, <1>8 DEF Accounts!Redeem
    <2> QED
      BY <1>1, <1>2, <2>3, <2>4, <2>5
  <1>9. ASSUME NEW r \in Request, NEW u \in User,
               \/ Accounts!Authorize(r, u) \/ Accounts!SetPassword(r, u)
               \/ Accounts!Promote(r, u) \/ Accounts!Demote(r, u)
               \/ \E n \in Name : Accounts!CreateUser(r, u, n)
        PROVE  UNCHANGED <<invites, admitted>>
    BY <1>9 DEF Accounts!Authorize, Accounts!SetPassword, Accounts!Promote,
                Accounts!Demote, Accounts!CreateUser
  <1>10. ASSUME NEW r \in Request, Accounts!Decline(r) PROVE UNCHANGED <<invites, admitted>>
    BY <1>10 DEF Accounts!Decline
  <1>11. ASSUME NEW u \in User, NEW n \in Configs, Accounts!Reboot(n, u)
         PROVE  UNCHANGED <<invites, admitted>>
    BY <1>11 DEF Accounts!Reboot
  <1> QED
    BY <1>2, <1>4, <1>5, <1>6, <1>7, <1>8, <1>9, <1>10, <1>11 DEF Accounts!Next, Accounts!Serve

LEMMA AccountsStep ==
  AccountsInv /\ [Accounts!Next]_accounts => AccountsInv'
  <1>1. CASE UNCHANGED accounts
    BY <1>1 DEF accounts, AccountsInv, Spent, Accounts!TypeOK, Accounts!Exists, Accounts!Issued
  <1> QED
    BY <1>1, AccountsTypeStep, SpentStep DEF AccountsInv

\* One step to the next, whoever is an admin now finds an admin then: a
\* demotion or a deletion leaves another one, or the one it does not touch.
LEMMA AdminsStep ==
  ASSUME Accounts!TypeOK, Accounts!Next, Accounts!HasAdmin
  PROVE  Accounts!HasAdmin'
  <1>1. /\ users \in [User -> AccountRows]
        /\ invites \in [Invite -> InviteRows]
        /\ Idle \notin User
    BY AccountsTypes, ServicesAssumption DEF Accounts!MarkAssumption
  <1>2. PICK w \in User : Row(users[w]) /\ users[w].admin
    BY DEF Accounts!HasAdmin, Accounts!IsAdmin, Accounts!Exists, Row
  <1>3. SUFFICES \E v \in User : Row(users'[v]) /\ users'[v].admin
    BY DEF Accounts!HasAdmin, Accounts!IsAdmin, Accounts!Exists, Row
  <1>4. CASE UNCHANGED users
    BY <1>2, <1>4
  <1>5. ASSUME NEW u \in User, NEW a, users[u] = Unused, users' = [users EXCEPT ![u] = a]
        PROVE  users'[w] = users[w]
    BY <1>1, <1>2, <1>5 DEF Row
  <1>6. ASSUME NEW r \in Request, NEW u \in User,
               Accounts!Demote(r, u) \/ Accounts!DeleteUser(r, u)
        PROVE  UNCHANGED users \/ \E v \in User : users'[v] = users[v]
                                                  /\ Row(users[v]) /\ users[v].admin
    <2>1. Accounts!MayLose(r, u)
      BY <1>6 DEF Accounts!Demote, Accounts!DeleteUser
    <2>2. PICK v \in User \ {u} : Row(users[v]) /\ users[v].admin
      BY <1>2, <2>1 DEF Accounts!MayLose, Accounts!OtherAdmins, Accounts!IsAdmin,
                        Accounts!Exists, Row
    <2> QED
      BY <1>1, <1>6, <2>2 DEF Accounts!Demote, Accounts!DeleteUser, Accounts!Fail
  <1>7. ASSUME NEW r \in Request, NEW u \in User,
               Accounts!SetPassword(r, u) \/ Accounts!Promote(r, u)
        PROVE  Row(users'[w]) /\ users'[w].admin
    <2>1. users[w] \in Accounts!Account
      BY <1>1, <1>2, AccountRow
    <2>2. \/ users'[w] = users[w]
          \/ users'[w] = [users[w] EXCEPT !.blank = FALSE]
          \/ users'[w] = [users[w] EXCEPT !.admin = TRUE]
      BY <1>1, <1>7 DEF Accounts!SetPassword, Accounts!Promote
    <2>3. users'[w] \in Accounts!Account /\ users'[w].admin
      BY <1>2, <2>1, <2>2 DEF Accounts!Account
    <2> QED
      BY <2>3, AccountsAreRows
  <1>8. ASSUME NEW r \in Request, NEW u \in User, NEW n \in Name, Accounts!CreateUser(r, u, n)
        PROVE  users'[w] = users[w]
    BY <1>5, <1>8 DEF Accounts!CreateUser, Accounts!Fresh
  <1>9. ASSUME NEW i \in Invite, NEW u \in User, NEW n \in Name, Accounts!Redeem(i, u, n)
        PROVE  users'[w] = users[w]
    BY <1>5, <1>9 DEF Accounts!Redeem, Accounts!Fresh
  <1>10. ASSUME NEW u \in User, NEW n \in Configs, Accounts!Reboot(n, u)
         PROVE  Row(users'[w]) /\ users'[w].admin
    BY <1>1, <1>2, <1>10, SeedingKeeps DEF Accounts!Reboot, Accounts!Fresh
  <1>11. CASE \E r \in Request : Accounts!Serve(r) \/ \E u \in User : Accounts!Authorize(r, u)
    <2>1. PICK r \in Request : Accounts!Serve(r) \/ \E u \in User : Accounts!Authorize(r, u)
      BY <1>11
    <2>2. CASE \/ Accounts!Decline(r)
               \/ \E u \in User : Accounts!Authorize(r, u)
               \/ \E i \in Invite : \/ Accounts!RevokeInvite(r, i)
                                    \/ \E grant \in BOOLEAN : Accounts!IssueInvite(r, i, grant)
      <3>1. UNCHANGED users
        BY <2>2 DEF Accounts!Decline, Accounts!Authorize, Accounts!RevokeInvite,
                    Accounts!IssueInvite, Accounts!Fail
      <3> QED
        BY <1>4, <3>1
    <2>3. ASSUME NEW u \in User,
                 \/ Accounts!SetPassword(r, u) \/ Accounts!Promote(r, u)
                 \/ Accounts!Demote(r, u) \/ Accounts!DeleteUser(r, u)
                 \/ \E n \in Name : Accounts!CreateUser(r, u, n)
          PROVE  \E v \in User : Row(users'[v]) /\ users'[v].admin
      BY <1>2, <1>4, <1>6, <1>7, <1>8, <2>3
    <2> QED
      BY <2>1, <2>2, <2>3 DEF Accounts!Serve
  <1>12. CASE \E i \in Invite : \/ Accounts!Expire(i)
                                \/ \E u \in User, n \in Name : Accounts!Redeem(i, u, n)
    <2>1. ASSUME NEW i \in Invite, Accounts!Expire(i) PROVE UNCHANGED users
      BY <2>1 DEF Accounts!Expire
    <2> QED
      BY <1>2, <1>4, <1>9, <1>12, <2>1
  <1> QED
    BY <1>10, <1>11, <1>12 DEF Accounts!Next

\* Only a body whose actor is gone meets a foreign key.
LEMMA FailureStep ==
  ASSUME Accounts!TypeOK, Accounts!Next,
         NEW r \in Request, call[r] # Failed, call'[r] = Failed
  PROVE  ~Accounts!Exists(call[r])
  <1>1. /\ call \in [Request -> User \cup {Idle, Failed}]
        /\ Idle # Failed /\ Failed \notin User
    BY AccountsTypes, ServicesAssumption DEF Accounts!MarkAssumption
  <1>2. ASSUME NEW s \in Request, Accounts!Fail(s) PROVE s = r
    BY <1>1, <1>2 DEF Accounts!Fail
  <1>3. ASSUME NEW s \in Request, NEW u \in User, Accounts!DeleteUser(s, u)
        PROVE  Accounts!DeleteFails(s, u) /\ s = r
    BY <1>1, <1>2, <1>3 DEF Accounts!DeleteUser, Accounts!End
  <1>4. ASSUME NEW u \in User, Accounts!DeleteUser(r, u), Accounts!DeleteFails(r, u)
        PROVE  ~Accounts!Exists(call[r])
    BY <1>4 DEF Accounts!DeleteUser, Accounts!DeleteFails, Accounts!NewOwner, Accounts!MayLose
  <1>5. ASSUME NEW s \in Request, NEW i \in Invite, NEW grant \in BOOLEAN,
               Accounts!IssueInvite(s, i, grant)
        PROVE  ~Accounts!Exists(call[s]) /\ s = r
    BY <1>1, <1>2, <1>5 DEF Accounts!IssueInvite, Accounts!End
  <1>6. ASSUME NEW s \in Request, NEW u \in User,
               \/ Accounts!Authorize(s, u) \/ Accounts!SetPassword(s, u)
               \/ Accounts!Promote(s, u) \/ Accounts!Demote(s, u)
               \/ \E n \in Name : Accounts!CreateUser(s, u, n)
        PROVE  FALSE
    <2>1. call' \in {[call EXCEPT ![s] = Idle], [call EXCEPT ![s] = u]}
      BY <1>6 DEF Accounts!Authorize, Accounts!SetPassword, Accounts!Promote,
                  Accounts!Demote, Accounts!CreateUser, Accounts!End
    <2> QED
      BY <1>1, <2>1
  <1>7. ASSUME NEW s \in Request, Accounts!Decline(s) \/ \E i \in Invite : Accounts!RevokeInvite(s, i)
        PROVE  FALSE
    <2>1. call' = [call EXCEPT ![s] = Idle]
      BY <1>7 DEF Accounts!Decline, Accounts!RevokeInvite, Accounts!End
    <2> QED
      BY <1>1, <2>1
  <1>8. ASSUME NEW i \in Invite,
               Accounts!Expire(i) \/ \E u \in User, n \in Name : Accounts!Redeem(i, u, n)
        PROVE  FALSE
    BY <1>8 DEF Accounts!Expire, Accounts!Redeem
  <1>9. ASSUME NEW u \in User, NEW n \in Configs, Accounts!Reboot(n, u) PROVE FALSE
    BY <1>1, <1>9 DEF Accounts!Reboot
  <1> QED
    BY <1>3, <1>4, <1>5, <1>6, <1>7, <1>8, <1>9 DEF Accounts!Next, Accounts!Serve

-----------------------------------------------------------------------------
(* The art cache.                                                          *)

Stored == Cover \cup Poison \cup {Torn}

Content(t, k) == {k} \X (1 .. Bytes[t[k]])

Contents(t, V) == UNION {Content(t, k) : k \in V}

LEMMA SizeIsContents == \A t, V : Art!Size(t, V) = Cardinality(Contents(t, V))
  BY SameFiniteSets DEF Art!Size, Contents, Content

LEMMA ContentsFinite ==
  ASSUME NEW t, NEW V \in SUBSET Key, \A k \in V : t[k] \in Stored
  PROVE  IsFiniteSet(Contents(t, V))
  <1> DEFINE parts == {Content(t, k) : k \in V}
             part == [k \in V |-> Content(t, k)]
  <1>1. IsFiniteSet(V)
    BY FS_Subset, SameFiniteSets, ServicesAssumption DEF Art!KeyAssumption
  <1>2. part \in Surjection(V, parts)
    BY DEF Surjection
  <1>3. IsFiniteSet(parts)
    BY <1>1, <1>2, FS_Surjection
  <1>4. ASSUME NEW k \in V PROVE IsFiniteSet(Content(t, k))
    <2>1. Bytes[t[k]] \in Nat
      BY ServicesAssumption DEF Art!BytesAssumption, Stored
    <2>2. IsFiniteSet(1 .. Bytes[t[k]])
      <3>1. \A n \in Nat : 1 \in Int /\ n \in Int
        OBVIOUS
      <3> QED
        BY <2>1, <3>1, FS_Interval
    <2>3. IsFiniteSet({k})
      BY FS_Singleton
    <2> QED
      BY <2>2, <2>3, FS_Product DEF Content
  <1> QED
    BY <1>3, <1>4, FS_UNION DEF Contents

\* Sizes add up.
LEMMA SizeOfPart ==
  ASSUME NEW t, NEW V \in SUBSET Key, NEW W \in SUBSET V, \A k \in V : t[k] \in Stored
  PROVE  /\ Art!Size(t, V) \in Nat /\ Art!Size(t, W) \in Nat
         /\ Art!Size(t, V \ W) = Art!Size(t, V) - Art!Size(t, W)
         /\ Art!Size(t, W) <= Art!Size(t, V)
  <1>1. IsFiniteSet(Contents(t, V)) /\ IsFiniteSet(Contents(t, W))
    BY ContentsFinite
  <1>2. /\ Contents(t, V \ W) = Contents(t, V) \ Contents(t, W)
        /\ Contents(t, V) \cap Contents(t, W) = Contents(t, W)
    BY DEF Contents, Content
  <1>3. Cardinality(Contents(t, V \ W)) =
          Cardinality(Contents(t, V)) - Cardinality(Contents(t, W))
    <2> DEFINE A == Contents(t, V)
               B == Contents(t, W)
    <2>1. Cardinality(A \ B) = Cardinality(A) - Cardinality(A \cap B)
      BY <1>1, FS_Difference
    <2> QED
      BY <1>2, <2>1
  <1>4. Cardinality(Contents(t, V)) \in Nat /\ Cardinality(Contents(t, W)) \in Nat
    BY <1>1, FS_CardinalityType
  <1>5. Cardinality(Contents(t, W)) <= Cardinality(Contents(t, V))
    BY <1>1, <1>2, FS_Subset
  <1> QED
    BY <1>3, <1>4, <1>5, SizeIsContents

LEMMA SizeOfNothing == \A t : Art!Size(t, {}) = 0
  BY SizeIsContents, FS_EmptySet DEF Contents

LEMMA SizeLooksAtKeys ==
  ASSUME NEW t, NEW u, NEW V \in SUBSET Key, \A k \in V : t[k] = u[k]
  PROVE  Art!Size(t, V) = Art!Size(u, V)
  <1>1. Contents(t, V) = Contents(u, V)
    BY DEF Contents, Content
  <1> QED
    BY <1>1, SizeIsContents

\* Dropping the entries of V from a table.
LEMMA WithoutEntries ==
  ASSUME NEW t \in [Key -> Stored \cup {None}], NEW V \in SUBSET Art!Indexed(t)
  PROVE  /\ Art!Without(t, V) \in [Key -> Stored \cup {None}]
         /\ Art!Indexed(Art!Without(t, V)) = Art!Indexed(t) \ V
         /\ Art!Total(Art!Without(t, V)) = Art!Total(t) - Art!Size(t, V)
         /\ Art!Total(t) \in Nat /\ Art!Size(t, V) \in Nat
         /\ Art!Total(Art!Without(t, V)) <= Art!Total(t)
  <1> DEFINE I == Art!Indexed(t)
             u == Art!Without(t, V)
  <1>1. u \in [Key -> Stored \cup {None}] /\ Art!Indexed(u) = I \ V
    BY DEF Art!Without, Art!Indexed
  <1>2. I \in SUBSET Key /\ \A k \in I : t[k] \in Stored
    BY DEF Art!Indexed
  <1>3. \A k \in I \ V : u[k] = t[k]
    BY DEF Art!Without, Art!Indexed
  <1>4. Art!Total(u) = Art!Size(t, I \ V)
    <2>1. Art!Size(u, I \ V) = Art!Size(t, I \ V)
      BY <1>2, <1>3, SizeLooksAtKeys
    <2> QED
      BY <1>1, <2>1 DEF Art!Total
  <1>5. /\ Art!Size(t, I) \in Nat /\ Art!Size(t, V) \in Nat
        /\ Art!Size(t, I \ V) = Art!Size(t, I) - Art!Size(t, V)
    BY <1>2, SizeOfPart
  <1> HIDE DEF I, u
  <1>6. Art!Total(t) = Art!Size(t, I)
    BY DEF Art!Total, I
  <1>7. Art!Total(u) = Art!Total(t) - Art!Size(t, V) /\ Art!Total(u) <= Art!Total(t)
    BY <1>4, <1>5, <1>6
  <1> QED
    BY <1>1, <1>5, <1>6, <1>7 DEF I, u

\* What evict leaves of a table fits the cap, or is the entry it must keep.
LEMMA EvictionSuffices ==
  ASSUME NEW t \in [Key -> Stored \cup {None}], NEW m \in Nat, NEW keep \in SUBSET Key,
         NEW V \in Art!VictimSets(t, m, keep)
  PROVE  /\ V \subseteq Art!Indexed(t)
         /\ \/ Art!Total(Art!Without(t, V)) <= m
            \/ Art!Indexed(Art!Without(t, V)) \subseteq keep
  <1> DEFINE excess == Art!Total(t) - m
  <1>1. V \subseteq Art!Indexed(t) \ keep
    BY DEF Art!VictimSets
  <1>2. /\ Art!Total(Art!Without(t, V)) = Art!Total(t) - Art!Size(t, V)
        /\ Art!Indexed(Art!Without(t, V)) = Art!Indexed(t) \ V
        /\ Art!Total(t) \in Nat /\ Art!Size(t, V) \in Nat
    BY <1>1, WithoutEntries
  <1>3. CASE excess <= 0
    <2>1. Art!Total(Art!Without(t, V)) <= m
      BY <1>2, <1>3
    <2> QED
      BY <1>1, <2>1
  <1>4. CASE ~(excess <= 0)
    <2>1. Art!Size(t, V) >= excess \/ V = Art!Indexed(t) \ keep
      BY <1>4 DEF Art!VictimSets
    <2>2. CASE Art!Size(t, V) >= excess
      <3>1. Art!Total(Art!Without(t, V)) <= m
        BY <1>2, <2>2
      <3> QED
        BY <1>1, <3>1
    <2> QED
      BY <1>1, <1>2, <2>1, <2>2
  <1> QED
    BY <1>3, <1>4

\* Until a crash comes between, the disk holds what the index says.
FilesAgree ==
  \A k \in Key : rows[k] # None /\ files[k] # None =>
    files[k] = rows[k] \/ (crashed /\ files[k] = Torn)

ArtInv ==
  /\ Art!TypeOK
  /\ FilesAgree
  /\ ~crashed =>
       /\ files = rows
       /\ Art!Total(rows) <= cap \/ \E k \in Key : Art!Indexed(rows) = {k}

ArtTable == [Key -> Stored \cup {None}]

LEMMA ArtTypes ==
  Art!TypeOK =>
    /\ rows \in [Key -> Cover \cup Poison \cup {None}] /\ rows \in ArtTable
    /\ files \in ArtTable
    /\ old \subseteq Key /\ cap \in Cap /\ cap \in Nat
    /\ fetching \in [Fetcher -> Key \cup {None}]
    /\ crashed \in BOOLEAN
  BY ServicesAssumption DEF Art!TypeOK, Art!BytesAssumption, ArtTable, Stored

\* The invariant in the next state, from what a step leaves of it.
LEMMA ArtInvNext ==
  ASSUME rows' \in [Key -> Cover \cup Poison \cup {None}],
         files' \in ArtTable,
         old' \subseteq Key, cap' \in Cap,
         fetching' \in [Fetcher -> Key \cup {None}],
         crashed' \in BOOLEAN,
         \A k \in Key : rows'[k] # None /\ files'[k] # None =>
           files'[k] = rows'[k] \/ (crashed' /\ files'[k] = Torn),
         ~crashed' =>
           /\ files' = rows'
           /\ Art!Total(rows') <= cap' \/ \E k \in Key : Art!Indexed(rows') = {k}
  PROVE  ArtInv'
  <1>1. files' \in [Key -> Cover \cup Poison \cup {Torn, None}]
    BY DEF ArtTable, Stored
  <1>2. Art!TypeOK'
    BY <1>1 DEF Art!TypeOK
  <1>3. FilesAgree'
    BY DEF FilesAgree
  <1>4. Art!Total(rows)' = Art!Total(rows') /\ Art!Indexed(rows)' = Art!Indexed(rows')
    BY DEF Art!Total, Art!Size, Art!Indexed
  <1> QED
    BY <1>2, <1>3, <1>4 DEF ArtInv

LEMMA ArtStart == Art!Init => ArtInv
  <1> SUFFICES ASSUME Art!Init PROVE ArtInv
    OBVIOUS
  <1>1. /\ rows \in [Key -> Poison \cup {None}] /\ files = rows /\ old = Key
        /\ cap \in Cap /\ Art!Total(rows) <= cap
        /\ fetching = [f \in Fetcher |-> None] /\ crashed = FALSE
    BY DEF Art!Init
  <1>2. Art!TypeOK
    BY <1>1 DEF Art!TypeOK
  <1>3. FilesAgree
    BY <1>1 DEF FilesAgree
  <1> QED
    BY <1>1, <1>2, <1>3 DEF ArtInv

\* Storing a cover and evicting others, in the table and on the disk.
LEMMA ArtPut ==
  ASSUME ArtInv, NEW f \in Fetcher, NEW c \in Cover, Art!Put(f, c)
  PROVE  ArtInv'
  <1> DEFINE k == fetching[f]
             t == Art!Upsert(k, c)
             d == [files EXCEPT ![k] = c]
  <1>1. /\ rows \in [Key -> Cover \cup Poison \cup {None}] /\ rows \in ArtTable
        /\ files \in ArtTable
        /\ old \subseteq Key /\ cap \in Cap /\ cap \in Nat
        /\ fetching \in [Fetcher -> Key \cup {None}] /\ crashed \in BOOLEAN
        /\ FilesAgree /\ (~crashed => files = rows)
    BY ArtTypes DEF ArtInv
  <1>2. k \in Key
    BY <1>1 DEF Art!Put
  <1>3. PICK V \in Art!VictimsOf(k, c) :
          rows' = Art!Without(t, V) /\ files' = Art!Without(d, V)
    BY DEF Art!Put
  <1>4. /\ t = [rows EXCEPT ![k] = c] /\ c # None
        /\ V \in Art!VictimSets(t, cap, {k})
    BY <1>3, ServicesAssumption DEF Art!VictimsOf, Art!Upsert, Art!CoverAssumption
  <1>5. /\ t \in [Key -> Cover \cup Poison \cup {None}] /\ t \in ArtTable /\ d \in ArtTable
    BY <1>1, <1>4 DEF ArtTable, Stored
  <1>6. /\ old' \subseteq Key /\ fetching' \in [Fetcher -> Key \cup {None}]
        /\ UNCHANGED <<cap, crashed>>
    BY <1>1 DEF Art!Put
  <1>7. t[k] = c /\ \A j \in Key \ {k} : t[j] = rows[j] /\ d[j] = files[j]
    BY <1>1, <1>2, <1>4 DEF ArtTable
  <1>8. d[k] = c
    BY <1>1, <1>2 DEF ArtTable
  <1>9. ~crashed => d = t
    BY <1>1, <1>4
  <1> HIDE DEF t, d, k
  <1>10. /\ V \subseteq Art!Indexed(t)
         /\ \/ Art!Total(Art!Without(t, V)) <= cap
            \/ Art!Indexed(Art!Without(t, V)) \subseteq {k}
    <2>1. cap \in Nat /\ {k} \in SUBSET Key /\ t \in [Key -> Stored \cup {None}]
      BY <1>1, <1>2, <1>5 DEF ArtTable
    <2> QED
      BY <1>4, <2>1, EvictionSuffices
  <1>11. Art!Indexed(Art!Without(t, V)) = {} => Art!Total(Art!Without(t, V)) <= cap
    BY <1>1, SizeOfNothing DEF Art!Total
  <1>12. /\ Art!Without(t, V) \in [Key -> Cover \cup Poison \cup {None}]
         /\ Art!Without(d, V) \in ArtTable
    BY <1>5 DEF Art!Without, ArtTable
  <1>13. \A j \in Key : rows'[j] # None /\ files'[j] # None =>
           files'[j] = rows'[j] \/ (crashed' /\ files'[j] = Torn)
    <2>1. ASSUME NEW j \in Key, rows'[j] # None, files'[j] # None
          PROVE  files'[j] = rows'[j] \/ (crashed' /\ files'[j] = Torn)
      <3>1. rows'[j] = t[j] /\ files'[j] = d[j]
        BY <1>3, <2>1 DEF Art!Without
      <3>2. CASE j = k
        BY <1>7, <1>8, <3>1, <3>2
      <3>3. CASE j # k
        <4>1. rows'[j] = rows[j] /\ files'[j] = files[j]
          BY <1>7, <3>1, <3>3
        <4> QED
          BY <1>1, <1>6, <2>1, <4>1 DEF FilesAgree
      <3> QED
        BY <3>2, <3>3
    <2> QED
      BY <2>1
  <1>14. ~crashed' => /\ files' = rows'
                      /\ \/ Art!Total(rows') <= cap'
                         \/ \E j \in Key : Art!Indexed(rows') = {j}
    BY <1>2, <1>3, <1>6, <1>9, <1>10, <1>11
  <1>15. /\ rows' \in [Key -> Cover \cup Poison \cup {None}] /\ files' \in ArtTable
         /\ cap' \in Cap /\ crashed' \in BOOLEAN
    BY <1>1, <1>3, <1>6, <1>12
  <1> QED
    BY <1>6, <1>13, <1>14, <1>15, ArtInvNext

\* Every other step only drops entries, or crashes.
LEMMA ArtStep == ArtInv /\ [Art!Next]_art => ArtInv'
  <1> SUFFICES ASSUME ArtInv, [Art!Next]_art PROVE ArtInv'
    OBVIOUS
  <1> DEFINE Agree(t, d, torn) ==
               \A k \in Key : t[k] # None /\ d[k] # None =>
                 d[k] = t[k] \/ (torn /\ d[k] = Torn)
             Within(t, d, m) ==
               /\ d = t
               /\ Art!Total(t) <= m \/ \E k \in Key : Art!Indexed(t) = {k}
  <1>1. /\ rows \in [Key -> Cover \cup Poison \cup {None}] /\ rows \in ArtTable
        /\ files \in ArtTable
        /\ old \subseteq Key /\ cap \in Cap /\ cap \in Nat
        /\ fetching \in [Fetcher -> Key \cup {None}] /\ crashed \in BOOLEAN
        /\ Agree(rows, files, crashed)
        /\ ~crashed => Within(rows, files, cap)
    BY ArtTypes DEF ArtInv, FilesAgree
  <1>2. CASE UNCHANGED art
    BY <1>2 DEF art, ArtInv, FilesAgree, Art!TypeOK, Art!Total, Art!Size, Art!Indexed
  <1>3. CASE /\ UNCHANGED <<rows, files, cap, crashed>> /\ old' \subseteq Key
             /\ fetching' \in [Fetcher -> Key \cup {None}]
    BY <1>1, <1>3, ArtInvNext
  <1>4. ASSUME NEW V \in SUBSET Key
        PROVE  /\ Art!Without(rows, V) \in [Key -> Cover \cup Poison \cup {None}]
               /\ Art!Without(files, V) \in ArtTable
               /\ Agree(Art!Without(rows, V), Art!Without(files, V), crashed)
               /\ Agree(rows, Art!Without(files, V), TRUE)
    BY <1>1 DEF Art!Without, ArtTable, Stored
  <1>5. ASSUME NEW m \in Cap, Art!SetCap(m) PROVE ArtInv'
    <2>1. PICK V \in Art!VictimSets(rows, m, {}) :
            /\ rows' = Art!Without(rows, V) /\ files' = Art!Without(files, V)
            /\ cap' = m /\ UNCHANGED <<old, fetching, crashed>>
      BY <1>5 DEF Art!SetCap
    <2>2. m \in Nat /\ {} \in SUBSET Key /\ rows \in [Key -> Stored \cup {None}]
      BY <1>1, <1>5, ServicesAssumption DEF Art!BytesAssumption, ArtTable
    <2>3. /\ V \subseteq Art!Indexed(rows)
          /\ \/ Art!Total(Art!Without(rows, V)) <= m
             \/ Art!Indexed(Art!Without(rows, V)) \subseteq {}
      BY <2>1, <2>2, EvictionSuffices
    <2>4. V \in SUBSET Key
      BY <2>3 DEF Art!Indexed
    <2>5. Art!Total(rows') <= m
      BY <2>1, <2>2, <2>3, SizeOfNothing DEF Art!Total
    <2>6. ~crashed' => Within(rows', files', cap')
      BY <1>1, <2>1, <2>5
    <2> QED
      BY <1>1, <1>4, <1>5, <2>1, <2>4, <2>6, ArtInvNext
  <1>6. CASE Art!Clear
    <2>1. /\ rows' = [k \in Key |-> None] /\ files' = Art!Without(files, Art!Indexed(rows))
          /\ UNCHANGED <<old, cap, fetching, crashed>>
      BY <1>6 DEF Art!Clear
    <2>2. Art!Indexed(rows') = {} /\ Art!Indexed(rows) \in SUBSET Key
      BY <2>1 DEF Art!Indexed
    <2>3. Art!Total(rows') <= cap
      BY <1>1, <2>2, SizeOfNothing DEF Art!Total
    <2>4. ~crashed => files' = rows'
      BY <1>1, <2>1 DEF Art!Without, Art!Indexed
    <2>5. rows' \in [Key -> Cover \cup Poison \cup {None}] /\ \A k \in Key : rows'[k] = None
      BY <2>1
    <2> QED
      BY <1>1, <1>4, <2>1, <2>2, <2>3, <2>4, <2>5, ArtInvNext
  <1>7. ASSUME NEW f \in Fetcher, NEW k \in Key, Art!Miss(f, k) PROVE ArtInv'
    <2>1. /\ rows' = [rows EXCEPT ![k] = None]
          /\ files' = [files EXCEPT ![k] = IF rows[k] = None THEN files[k] ELSE None]
          /\ fetching' = [fetching EXCEPT ![f] = k]
          /\ UNCHANGED <<old, cap, crashed>>
      BY <1>7 DEF Art!Miss
    <2>2. /\ rows' \in [Key -> Cover \cup Poison \cup {None}] /\ files' \in ArtTable
          /\ fetching' \in [Fetcher -> Key \cup {None}]
          /\ Agree(rows', files', crashed')
      BY <1>1, <2>1 DEF ArtTable
    <2>3. ASSUME ~crashed PROVE Within(rows', files', cap')
      <3> DEFINE V == {k} \cap Art!Indexed(rows)
      <3>1. V \in SUBSET Art!Indexed(rows) /\ rows \in [Key -> Stored \cup {None}]
        BY <1>1 DEF ArtTable
      <3>2. rows' = Art!Without(rows, V)
        BY <1>1, <2>1 DEF Art!Without, Art!Indexed
      <3>3. files' = rows'
        BY <1>1, <2>1, <2>3 DEF ArtTable
      <3>4. /\ Art!Indexed(rows') = Art!Indexed(rows) \ V
            /\ Art!Total(rows') <= Art!Total(rows)
            /\ Art!Total(rows) \in Nat
            /\ Art!Total(rows') = Art!Total(rows) - Art!Size(rows, V)
            /\ Art!Size(rows, V) \in Nat
        BY <3>1, <3>2, WithoutEntries
      <3> HIDE DEF V
      <3>5. cap \in Nat
        BY <1>1
      <3>6. CASE Art!Total(rows) <= cap
        <4>1. Art!Total(rows') <= cap
          BY <3>4, <3>5, <3>6
        <4> QED
          BY <2>1, <3>3, <4>1
      <3>7. ASSUME NEW j \in Key, Art!Indexed(rows) = {j} PROVE Within(rows', files', cap')
        <4>1. CASE Art!Indexed(rows') = {j}
          BY <3>3, <4>1
        <4>2. CASE Art!Indexed(rows') = {}
          <5>1. Art!Total(rows') = 0
            BY <4>2, SizeOfNothing DEF Art!Total
          <5>2. Art!Total(rows') <= cap
            BY <3>5, <5>1
          <5> QED
            BY <2>1, <3>3, <5>2
        <4> QED
          BY <3>4, <3>7, <4>1, <4>2
      <3> QED
        BY <1>1, <2>3, <3>6, <3>7
    <2> QED
      BY <1>1, <2>1, <2>2, <2>3, ArtInvNext
  <1>8. ASSUME Art!Die, rows' \in [Key -> Cover \cup Poison \cup {None}], files' \in ArtTable,
               Agree(rows', files', TRUE)
        PROVE  ArtInv'
    <2>1. /\ crashed' = TRUE /\ fetching' \in [Fetcher -> Key \cup {None}]
          /\ UNCHANGED <<old, cap>>
      BY <1>8 DEF Art!Die
    <2> QED
      BY <1>1, <1>8, <2>1, ArtInvNext
  <1>9. ASSUME NEW f \in Fetcher, Art!DieWriting(f) PROVE ArtInv'
    <2>1. files' \in ArtTable /\ Agree(rows, files', TRUE)
      BY <1>1, <1>9 DEF Art!DieWriting, ArtTable, Stored
    <2> QED
      BY <1>1, <1>8, <1>9, <2>1 DEF Art!DieWriting
  <1>10. ASSUME NEW f \in Fetcher, NEW c \in Cover, Art!DieEvicting(f, c) PROVE ArtInv'
    <2> DEFINE k == fetching[f]
    <2>1. k \in Key /\ Art!Die
      BY <1>1, <1>10 DEF Art!DieEvicting
    <2>2. PICK V \in Art!VictimsOf(k, c) : \E done, unlinked \in SUBSET V :
            /\ done \subseteq unlinked
            /\ rows' = Art!Without(Art!Upsert(k, c), done)
            /\ files' = Art!Without([files EXCEPT ![k] = c], unlinked)
      BY <1>10 DEF Art!DieEvicting
    <2>3. PICK done \in SUBSET V, unlinked \in SUBSET V :
            /\ done \subseteq unlinked
            /\ rows' = Art!Without([rows EXCEPT ![k] = c], done)
            /\ files' = Art!Without([files EXCEPT ![k] = c], unlinked)
      BY <2>2 DEF Art!Upsert
    <2>4. /\ rows' \in [Key -> Cover \cup Poison \cup {None}]
          /\ files' \in ArtTable
      BY <1>1, <2>1, <2>3 DEF Art!Without, ArtTable, Stored
    <2>5. Agree(rows', files', TRUE)
      BY <1>1, <2>1, <2>3 DEF Art!Without, ArtTable
    <2> QED
      BY <1>8, <2>1, <2>4, <2>5
  <1>11. ASSUME NEW S \in SUBSET Key, Art!DieClearing(S) PROVE ArtInv'
    BY <1>1, <1>4, <1>8, <1>11 DEF Art!DieClearing
  <1>12. ASSUME \/ Art!Tick \/ \E k \in Key : Art!Hit(k)
                \/ \E f \in Fetcher : Art!FetchFails(f)
         PROVE  ArtInv'
    <2>1. /\ UNCHANGED <<rows, files, cap, crashed>> /\ old' \subseteq Key
          /\ fetching' \in [Fetcher -> Key \cup {None}]
      BY <1>1, <1>12 DEF Art!Tick, Art!Hit, Art!FetchFails
    <2> QED
      BY <1>3, <2>1
  <1> QED
    BY <1>2, <1>5, <1>6, <1>7, <1>9, <1>10, <1>11, <1>12, ArtPut DEF Art!Next

LEMMA ArtIsRight == ArtInv => Art!HitsAreTrue /\ Art!DiskWithinCap
  <1> SUFFICES ASSUME ArtInv PROVE Art!HitsAreTrue /\ Art!DiskWithinCap
    OBVIOUS
  <1>1. Art!HitsAreTrue
    BY DEF ArtInv, FilesAgree, Art!HitsAreTrue, Art!Servable
  <1>2. Art!DiskWithinCap
    BY FS_Singleton, SameFiniteSets DEF ArtInv, Art!DiskWithinCap
  <1> QED
    BY <1>1, <1>2

-----------------------------------------------------------------------------
(* The Navidrome monitor.                                                  *)

\* A cached report is true, or no older than the state of Navidrome.
CacheFits ==
  cache # None /\ age < Ttl =>
    \/ since <= age
    \/ /\ cache.ping = "ok" /\ cache.stream # "failed" => navidrome # "down"
       /\ cache.stream = "ok" => navidrome = "well"

MonitorInv == Monitor!TypeOK /\ CacheFits /\ Monitor!FaultShows

LEMMA MonitorStart == Monitor!Init => MonitorInv
  <1> SUFFICES ASSUME Monitor!Init PROVE MonitorInv
    OBVIOUS
  <1>1. /\ navidrome \in {"well", "silent", "down"}
        /\ since = 0 /\ faults = 0 /\ cache = None /\ age = 0 /\ probe = None
        /\ waiting = FALSE /\ answered = None
    BY DEF Monitor!Init
  <1>2. /\ Ttl \in Nat /\ Ttl > 0 /\ LastTick > Ttl /\ LastTick \in Nat
        /\ Threshold \in Nat /\ None \notin {"ok", "degraded"}
    BY ServicesAssumption DEF Monitor!TimeAssumption, Monitor!ThresholdAssumption,
                              Monitor!CandidateAssumption
  <1>3. since \in 0 .. LastTick /\ faults \in 0 .. Threshold /\ age \in 0 .. Ttl
    BY <1>1, <1>2
  <1>4. Monitor!TypeOK
    BY <1>1, <1>3 DEF Monitor!TypeOK
  <1>5. CacheFits /\ Monitor!FaultShows
    BY <1>1, <1>2 DEF CacheFits, Monitor!FaultShows
  <1> QED
    BY <1>4, <1>5 DEF MonitorInv

\* What ends a probe with checks that are true of Navidrome.
LEMMA ReportFits ==
  ASSUME MonitorInv, NEW checks \in Monitor!Checks, Monitor!Report(checks),
         UNCHANGED <<navidrome, since, faults>>,
         checks.ping = "ok" /\ checks.stream # "failed" => navidrome # "down",
         checks.stream = "ok" => navidrome = "well"
  PROVE  MonitorInv'
  <1>1. /\ navidrome \in {"well", "silent", "down"}
        /\ since \in 0 .. LastTick /\ faults \in 0 .. Threshold
        /\ waiting \in BOOLEAN
    BY DEF MonitorInv, Monitor!TypeOK
  <1>2. /\ cache' = checks /\ age' = 0 /\ probe' = None /\ waiting' = FALSE
        /\ answered' = IF waiting THEN Monitor!Rollup(checks) ELSE None
    BY DEF Monitor!Report
  <1>3. /\ checks.ping \in {"ok", "failed"} /\ checks.stream \in {"ok", "failed", "skipped"}
    BY DEF Monitor!Checks, Monitor!Check
  <1>4. Ttl \in Nat /\ Threshold \in Nat /\ None \notin {"ok", "degraded"}
    BY ServicesAssumption DEF Monitor!TimeAssumption, Monitor!ThresholdAssumption,
                              Monitor!CandidateAssumption
  <1>5. Monitor!TypeOK'
    <2>1. answered' \in {"ok", "degraded", None}
      BY <1>2 DEF Monitor!Rollup
    <2>2. age' \in 0 .. Ttl
      BY <1>2, <1>4
    <2> QED
      BY <1>1, <1>2, <2>1, <2>2 DEF Monitor!TypeOK
  <1>6. CacheFits'
    BY <1>2 DEF CacheFits
  <1>7. ASSUME answered' = "ok"
        PROVE  /\ faults < Threshold
               /\ navidrome = "well" \/ (navidrome = "silent" /\ checks.stream = "skipped")
    <2>1. checks.ping # "failed" /\ checks.stream # "failed" /\ ~(faults >= Threshold)
      BY <1>2, <1>4, <1>7 DEF Monitor!Rollup
    <2>2. faults < Threshold
      BY <1>1, <1>4, <2>1
    <2> QED
      BY <1>1, <1>3, <2>1, <2>2
  <1>8. Monitor!FaultShows'
    BY <1>2, <1>7 DEF Monitor!FaultShows
  <1> QED
    BY <1>5, <1>6, <1>8 DEF MonitorInv

LEMMA MonitorStep == MonitorInv /\ [Monitor!Next]_monitor => MonitorInv'
  <1> SUFFICES ASSUME MonitorInv, [Monitor!Next]_monitor PROVE MonitorInv'
    OBVIOUS
  <1>1. /\ navidrome \in {"well", "silent", "down"}
        /\ since \in 0 .. LastTick /\ faults \in 0 .. Threshold
        /\ cache \in Monitor!Checks \cup {None} /\ age \in 0 .. Ttl
        /\ probe \in Monitor!Leg \cup {None}
        /\ waiting \in BOOLEAN /\ answered \in {"ok", "degraded", None}
        /\ CacheFits
    BY DEF MonitorInv, Monitor!TypeOK
  <1>2. /\ Ttl \in Nat /\ Ttl > 0 /\ LastTick \in Int /\ LastTick > Ttl
        /\ Threshold \in Nat /\ LegTimeout \in Nat
        /\ None \notin {"ok", "degraded"} /\ Candidates \subseteq Seq(BOOLEAN)
    BY ServicesAssumption DEF Monitor!TimeAssumption, Monitor!ThresholdAssumption,
                              Monitor!CandidateAssumption
  <1>3. CASE UNCHANGED monitor
    BY <1>3 DEF monitor, MonitorInv, Monitor!TypeOK, CacheFits, Monitor!FaultShows
  <1>4. ASSUME NEW state \in {"well", "silent", "down"}, Monitor!Become(state) PROVE MonitorInv'
    BY <1>1, <1>2, <1>4 DEF Monitor!Become, MonitorInv, Monitor!TypeOK, CacheFits,
                            Monitor!FaultShows
  <1>5. CASE Monitor!Tick
    <2>1. /\ probe # None => probe.elapsed < LegTimeout
          /\ since' = Monitor!Least(since + 1, LastTick)
          /\ age' = IF cache = None THEN age ELSE Monitor!Least(age + 1, Ttl)
          /\ probe' = IF probe = None THEN None
                      ELSE [probe EXCEPT !.elapsed = probe.elapsed + 1]
          /\ answered' = None
          /\ UNCHANGED <<navidrome, faults, cache, waiting>>
      BY <1>5 DEF Monitor!Tick, Monitor!Older
    <2>2. probe' \in Monitor!Leg \cup {None}
      BY <1>1, <1>2, <2>1 DEF Monitor!Leg
    <2>3. since' \in 0 .. LastTick /\ age' \in 0 .. Ttl
      BY <1>1, <1>2, <2>1 DEF Monitor!Least
    <2>4. CacheFits'
      <3>1. ASSUME cache # None, age' < Ttl PROVE age < Ttl /\ (since <= age => since' <= age')
        BY <1>1, <1>2, <2>1, <3>1 DEF Monitor!Least
      <3> QED
        BY <1>1, <2>1, <3>1 DEF CacheFits
    <2> QED
      BY <1>1, <1>2, <2>1, <2>2, <2>3, <2>4 DEF MonitorInv, Monitor!TypeOK, Monitor!FaultShows
  <1>6. CASE Monitor!StreamOk \/ Monitor!StreamFault
    <2>1. faults' \in 0 .. Threshold
      BY <1>1, <1>2, <1>6 DEF Monitor!StreamOk, Monitor!StreamFault, Monitor!Least
    <2>2. /\ answered' = None
          /\ UNCHANGED <<navidrome, since, cache, age, probe, waiting>>
      BY <1>6 DEF Monitor!StreamOk, Monitor!StreamFault
    <2> QED
      BY <1>1, <1>2, <2>1, <2>2 DEF MonitorInv, Monitor!TypeOK, CacheFits, Monitor!FaultShows
  <1>7. [left |-> None, elapsed |-> 0] \in Monitor!Leg
    BY <1>2 DEF Monitor!Leg
  <1>8. ASSUME NEW s \in Seq(BOOLEAN), s # <<>> PROVE [left |-> s, elapsed |-> 0] \in Monitor!Leg
    BY <1>2, <1>8 DEF Monitor!Leg
  <1>9. CASE Monitor!Watchdog \/ Monitor!ReadyAwaits
    <2>1. /\ probe' \in Monitor!Leg \cup {None} /\ waiting' \in BOOLEAN /\ answered' = None
          /\ UNCHANGED <<navidrome, since, faults, cache, age>>
      BY <1>1, <1>7, <1>9 DEF Monitor!Watchdog, Monitor!ReadyAwaits, Monitor!Start
    <2> QED
      BY <1>1, <1>2, <2>1 DEF MonitorInv, Monitor!TypeOK, CacheFits, Monitor!FaultShows
  <1>10. CASE Monitor!ReadyFromCache
    <2>1. /\ cache # None /\ age < Ttl /\ answered' = Monitor!Rollup(cache)
          /\ UNCHANGED <<navidrome, since, faults, cache, age, probe, waiting>>
      BY <1>10 DEF Monitor!ReadyFromCache, Monitor!CachedAnswer
    <2>2. cache.ping \in {"ok", "failed"} /\ cache.stream \in {"ok", "failed", "skipped"}
      BY <1>1, <2>1 DEF Monitor!Checks, Monitor!Check
    <2>3. answered' \in {"ok", "degraded"}
      BY <2>1 DEF Monitor!Rollup
    <2>4. ASSUME answered' = "ok"
          PROVE  /\ faults < Threshold
                 /\ \/ navidrome = "well"
                    \/ since <= Ttl
                    \/ navidrome = "silent" /\ cache.stream = "skipped"
      <3>1. cache.ping = "ok" /\ cache.stream # "failed" /\ ~(faults >= Threshold)
        BY <2>1, <2>2, <2>4 DEF Monitor!Rollup
      <3>2. faults < Threshold
        BY <1>1, <1>2, <3>1
      <3>3. since <= age => since <= Ttl
        BY <1>1, <1>2, <2>1
      <3> QED
        BY <1>1, <2>1, <2>2, <3>1, <3>2, <3>3 DEF CacheFits
    <2> QED
      BY <1>1, <2>1, <2>3, <2>4 DEF MonitorInv, Monitor!TypeOK, CacheFits, Monitor!FaultShows
  <1>11. ASSUME probe' \in Monitor!Leg, answered' = None,
                UNCHANGED <<cache, age, waiting, navidrome, since, faults>>
         PROVE  MonitorInv'
    BY <1>1, <1>2, <1>11 DEF MonitorInv, Monitor!TypeOK, CacheFits, Monitor!FaultShows
  <1>12. CASE Monitor!PingFails
    <2>1. [ping |-> "failed", stream |-> "skipped"] \in Monitor!Checks
      BY DEF Monitor!Checks, Monitor!Check
    <2> QED
      BY <1>12, <2>1, ReportFits DEF Monitor!PingFails
  <1>13. ASSUME NEW tracks \in Candidates, Monitor!PingOk(tracks) PROVE MonitorInv'
    <2>1. CASE tracks = <<>>
      <3>1. [ping |-> "ok", stream |-> "skipped"] \in Monitor!Checks
        BY DEF Monitor!Checks, Monitor!Check
      <3> QED
        BY <1>13, <2>1, <3>1, ReportFits DEF Monitor!PingOk
    <2>2. CASE tracks # <<>>
      <3>1. [left |-> tracks, elapsed |-> 0] \in Monitor!Leg
        BY <1>2, <1>8, <2>2
      <3> QED
        BY <1>11, <1>13, <2>2, <3>1 DEF Monitor!PingOk
    <2> QED
      BY <2>1, <2>2
  <1>14. CASE Monitor!PullOk
    <2>1. [ping |-> "ok", stream |-> "ok"] \in Monitor!Checks
      BY DEF Monitor!Checks, Monitor!Check
    <2> QED
      BY <1>14, <2>1, ReportFits DEF Monitor!PullOk, Monitor!Plays
  <1>15. CASE Monitor!PullFails
    <2>1. probe # None /\ probe.left # None
      BY <1>15 DEF Monitor!PullFails, Monitor!Pulling
    <2>2. CASE Monitor!LastCandidate
      <3>1. [ping |-> "ok", stream |-> "failed"] \in Monitor!Checks
        BY DEF Monitor!Checks, Monitor!Check
      <3> QED
        BY <1>15, <2>2, <3>1, ReportFits DEF Monitor!PullFails
    <2>3. CASE ~Monitor!LastCandidate
      <3>1. probe.left \in Seq(BOOLEAN) /\ probe.left # <<>>
        BY <1>1, <2>1 DEF Monitor!Leg
      <3>2. Tail(probe.left) \in Seq(BOOLEAN) /\ Tail(probe.left) # <<>>
        <4>1. ASSUME NEW S, NEW s \in Seq(S), s # <<>> PROVE Tail(s) \in Seq(S)
          BY <4>1
        <4> QED
          BY <2>3, <3>1, <4>1 DEF Monitor!LastCandidate
      <3>3. [left |-> Tail(probe.left), elapsed |-> 0] \in Monitor!Leg
        BY <1>8, <3>2
      <3> QED
        BY <1>11, <1>15, <2>3, <3>3 DEF Monitor!PullFails
    <2> QED
      BY <2>2, <2>3
  <1> QED
    BY <1>3, <1>4, <1>5, <1>6, <1>9, <1>10, <1>12, <1>13, <1>14, <1>15
       DEF Monitor!Next, Monitor!ProbeStep

-----------------------------------------------------------------------------
(* The log of syncs.                                                       *)

\* The rows that pass w goes on with.
Own(w) == {worker[w].row, worker[w].peer} \ {None}

\* No two passes share a row, nor does one confuse its row with its peer's,
\* and only a pass that is at its peers has a row of a peer.
RowsApart ==
  /\ \A v, w \in Log!Worker : v # w => Own(v) \cap Own(w) = {}
  /\ \A w \in Log!Worker :
       /\ worker[w].row # None => worker[w].row # worker[w].peer
       /\ worker[w].stage # "peers" => worker[w].peer = None

LogInv ==
  /\ Log!TypeOK
  /\ RowsApart
  /\ late \cap Log!Running(log) = {}
  /\ Log!RunningRowsAreSyncs

Entry == [status : {"running", "complete", "failed"}, old : BOOLEAN]

Pass(n) ==
  [stage : {"idle", "local", "peers", "merging"},
   row : 0 .. n - 1 \cup {None}, peer : 0 .. n - 1 \cup {None}]

LEMMA LogTypes ==
  Log!TypeOK <=>
    /\ DOMAIN log \subseteq 0 .. started - 1 /\ log \in [DOMAIN log -> Entry]
    /\ started \in 0 .. MaxStarts /\ maxRows \in Limit
    /\ worker \in [Log!Worker -> Pass(started)]
    /\ cleared \cup orphans \cup late \subseteq 0 .. started - 1
  BY DEF Log!TypeOK, Entry, Pass

LEMMA LiveIsOwned == Log!Live = UNION {Own(w) : w \in Log!Worker}
  BY DEF Log!Live, Own

\* A prune spares what runs and rewrites nothing.
LEMMA PruneSparesRunning ==
  ASSUME NEW t, t \in [DOMAIN t -> Entry], NEW n
  PROVE  /\ DOMAIN Log!Pruned(t, n) \subseteq DOMAIN t
         /\ Log!Pruned(t, n) \in [DOMAIN Log!Pruned(t, n) -> Entry]
         /\ \A id \in DOMAIN Log!Pruned(t, n) : Log!Pruned(t, n)[id] = t[id]
         /\ Log!Running(Log!Pruned(t, n)) = Log!Running(t)
  <1> DEFINE kept == DOMAIN t \ Log!Prunable(t, n)
             p == [id \in kept |-> t[id]]
  <1>1. CASE n = 0
    BY <1>1 DEF Log!Pruned
  <1>2. CASE n # 0
    <2>1. Log!Pruned(t, n) = p
      BY <1>2 DEF Log!Pruned, Log!Restrict
    <2>2. Log!Running(t) \subseteq kept /\ kept \subseteq DOMAIN t
      BY DEF Log!Prunable, Log!Running
    <2> HIDE DEF kept
    <2>3. DOMAIN p = kept /\ \A id \in kept : p[id] = t[id]
      OBVIOUS
    <2>4. Log!Running(p) = Log!Running(t)
      BY <2>2, <2>3 DEF Log!Running
    <2>5. p \in [kept -> Entry]
      BY <2>2
    <2> QED
      BY <2>1, <2>2, <2>3, <2>4, <2>5
  <1> QED
    BY <1>1, <1>2

\* Ending a row ends that row, if it is there, and no other.
LEMMA EndingEndsOne ==
  ASSUME log \in [DOMAIN log -> Entry], NEW id, NEW status \in {"complete", "failed"}
  PROVE  /\ DOMAIN Log!Ended(id, status) \subseteq DOMAIN log
         /\ Log!Ended(id, status) \in [DOMAIN Log!Ended(id, status) -> Entry]
         /\ Log!Running(Log!Ended(id, status)) = Log!Running(log) \ {id}
  <1> DEFINE t == [j \in DOMAIN log |-> IF j = id THEN [log[j] EXCEPT !.status = status]
                                        ELSE log[j]]
  <1>1. \A j \in DOMAIN log : log[j] \in Entry
    OBVIOUS
  <1>2. \A j \in DOMAIN log : [log[j] EXCEPT !.status = status] \in Entry
    BY <1>1 DEF Entry
  <1>3. t \in [DOMAIN t -> Entry] /\ DOMAIN t = DOMAIN log
    BY <1>1, <1>2
  <1>4. ASSUME NEW j \in DOMAIN log
        PROVE  t[j].status = "running" <=> log[j].status = "running" /\ j # id
    <2>1. log[j] \in Entry
      BY <1>1
    <2>2. j = id => t[j].status = status
      BY <2>1 DEF Entry
    <2> QED
      BY <2>2
  <1>5. Log!Running(t) = Log!Running(log) \ {id}
    BY <1>3, <1>4 DEF Log!Running
  <1>6. Log!Ended(id, status) = Log!Pruned(t, maxRows)
    BY DEF Log!Ended
  <1> HIDE DEF t
  <1> QED
    BY <1>3, <1>5, <1>6, PruneSparesRunning

LEMMA LogStart == Log!Init => LogInv
  <1> SUFFICES ASSUME Log!Init PROVE LogInv
    OBVIOUS
  <1>1. /\ log = [id \in {} |-> None] /\ started = 0 /\ maxRows \in Limit
        /\ worker = [w \in Log!Worker |-> Log!AtRest]
        /\ cleared = {} /\ orphans = {} /\ late = {}
    BY DEF Log!Init, Log!NoRows
  <1>2. MaxStarts \in Nat
    BY ServicesAssumption DEF Log!StartsAssumption
  <1>3. Log!AtRest \in Pass(started) /\ Log!AtRest.row = None /\ Log!AtRest.peer = None
    BY DEF Log!AtRest, Pass
  <1>4. DOMAIN log = {} /\ log \in [{} -> Entry]
    BY <1>1
  <1>5. Log!TypeOK
    <2>1. worker \in [Log!Worker -> Pass(started)]
      BY <1>1, <1>3
    <2> QED
      BY <1>1, <1>2, <1>4, <2>1, LogTypes
  <1>6. \A w \in Log!Worker : Own(w) = {} /\ worker[w].row = None /\ worker[w].peer = None
    BY <1>1, <1>3 DEF Own
  <1>7. Log!Live = {}
    BY <1>6, LiveIsOwned
  <1>8. Log!Running(log) = {}
    BY <1>4 DEF Log!Running
  <1> QED
    BY <1>1, <1>5, <1>6, <1>7, <1>8 DEF LogInv, RowsApart, Log!RunningRowsAreSyncs

\* The invariant in the next state: the rows apart, and what the log shows.
LEMMA LogInvNext ==
  ASSUME DOMAIN log' \subseteq 0 .. started' - 1, log' \in [DOMAIN log' -> Entry],
         started' \in 0 .. MaxStarts, maxRows' \in Limit,
         worker' \in [Log!Worker -> Pass(started')],
         cleared' \cup orphans' \cup late' \subseteq 0 .. started' - 1,
         RowsApart',
         late' \cap Log!Running(log') = {},
         NEW live, Log!Live' = live,
         Log!Running(log') \subseteq live \cup (orphans' \ late'),
         live \subseteq Log!Running(log') \cup cleared'
  PROVE  LogInv'
  <1>1. Log!TypeOK'
    BY DEF Log!TypeOK, Entry, Pass
  <1>2. Log!Running(log)' = Log!Running(log')
    BY DEF Log!Running
  <1> QED
    BY <1>1, <1>2 DEF LogInv, Log!RunningRowsAreSyncs

\* What passes own after w has moved on to row and peer, one of which may be
\* new.
LEMMA PassMoves ==
  ASSUME LogInv, NEW w \in Log!Worker, NEW stage, NEW row, NEW peer, NEW n \in Nat,
         Log!Becomes(w, stage, row, peer),
         stage \in {"idle", "local", "peers", "merging"}, stage # "peers" => peer = None,
         row \in 0 .. n - 1 \cup {None}, peer \in 0 .. n - 1 \cup {None},
         row # None => row # peer,
         started <= n,
         {row, peer} \subseteq Own(w) \cup {started, None}
  PROVE  /\ worker' \in [Log!Worker -> Pass(n)]
         /\ RowsApart'
         /\ Log!Live' = (Log!Live \ Own(w)) \cup ({row, peer} \ {None})
  <1> DEFINE p == [stage |-> stage, row |-> row, peer |-> peer]
             mine == {row, peer} \ {None}
  <1>1. /\ started \in 0 .. MaxStarts /\ worker \in [Log!Worker -> Pass(started)]
        /\ RowsApart
        /\ None \notin Nat /\ MaxStarts \in Nat
    BY LogTypes, ServicesAssumption DEF LogInv, Log!StartsAssumption
  <1>2. p \in Pass(n) /\ p.stage = stage /\ p.row = row /\ p.peer = peer
    BY DEF Pass
  <1>3. /\ \A v \in Log!Worker \ {w} : worker'[v] = worker[v]
        /\ worker'[w] = p
        /\ worker' = [worker EXCEPT ![w] = p]
    BY <1>1 DEF Log!Becomes
  <1>4. Pass(started) \subseteq Pass(n)
    BY <1>1 DEF Pass
  <1>5. worker' \in [Log!Worker -> Pass(n)]
    BY <1>1, <1>2, <1>3, <1>4
  <1>6. \A v \in Log!Worker : Own(v) \subseteq 0 .. started - 1
    BY <1>1 DEF Own, Pass
  <1>7. started \notin UNION {Own(v) : v \in Log!Worker}
    BY <1>1, <1>6
  <1>8. /\ \A v \in Log!Worker \ {w} : Own(v)' = Own(v)
        /\ Own(w)' = mine
    BY <1>2, <1>3 DEF Own
  <1>9. mine \subseteq Own(w) \cup {started}
    OBVIOUS
  <1> HIDE DEF mine, p
  <1>10. \A v \in Log!Worker \ {w} : Own(v) \cap Own(w) = {} /\ Own(v) \cap mine = {}
    BY <1>1, <1>7, <1>9 DEF RowsApart
  <1>11. RowsApart'
    <2>1. ASSUME NEW u \in Log!Worker, NEW v \in Log!Worker, u # v
          PROVE  Own(u)' \cap Own(v)' = {}
      BY <1>1, <1>8, <1>10, <2>1 DEF RowsApart
    <2>2. ASSUME NEW v \in Log!Worker
          PROVE  /\ worker'[v].row # None => worker'[v].row # worker'[v].peer
                 /\ worker'[v].stage # "peers" => worker'[v].peer = None
      BY <1>1, <1>2, <1>3, <2>2 DEF RowsApart
    <2> QED
      BY <2>1, <2>2 DEF RowsApart, Log!Worker
  <1>12. Log!Live' = UNION {Own(v)' : v \in Log!Worker}
    BY DEF Log!Live, Own, Log!Worker
  <1>13. Log!Live' = (Log!Live \ Own(w)) \cup mine
    BY <1>8, <1>10, <1>12, LiveIsOwned
  <1> QED
    BY <1>5, <1>11, <1>13 DEF mine

\* A pass goes on and lets go of the rows of E: those that still run become
\* orphans, and no row of another pass is touched.
LEMMA PassGoesOn ==
  ASSUME LogInv, NEW w \in Log!Worker, NEW stage, NEW row, NEW peer,
         Log!Becomes(w, stage, row, peer),
         stage \in {"idle", "local", "peers", "merging"}, stage # "peers" => peer = None,
         row \in {worker[w].row, None}, peer \in {worker[w].peer, None},
         NEW E, E = Own(w) \ {row, peer},
         DOMAIN log' \subseteq DOMAIN log, log' \in [DOMAIN log' -> Entry],
         Log!Running(log') \subseteq Log!Running(log),
         Log!Running(log) \subseteq Log!Running(log') \cup E,
         orphans \subseteq orphans', orphans' \subseteq orphans \cup E,
         E \cap Log!Running(log') \subseteq orphans',
         UNCHANGED <<started, maxRows, cleared, late>>
  PROVE  LogInv'
  <1>1. /\ DOMAIN log \subseteq 0 .. started - 1
        /\ started \in 0 .. MaxStarts /\ maxRows \in Limit
        /\ worker \in [Log!Worker -> Pass(started)]
        /\ cleared \cup orphans \cup late \subseteq 0 .. started - 1
        /\ RowsApart /\ late \cap Log!Running(log) = {} /\ Log!RunningRowsAreSyncs
        /\ None \notin Nat /\ MaxStarts \in Nat
    BY LogTypes, ServicesAssumption DEF LogInv, Log!StartsAssumption
  <1>2. worker[w] \in Pass(started)
    BY <1>1
  <1>3. /\ worker[w].row \in 0 .. started - 1 \cup {None}
        /\ worker[w].peer \in 0 .. started - 1 \cup {None}
        /\ worker[w].row # None => worker[w].row # worker[w].peer
    BY <1>1, <1>2 DEF Pass, RowsApart
  <1>4. /\ row \in 0 .. started - 1 \cup {None} /\ peer \in 0 .. started - 1 \cup {None}
        /\ row # None => row # peer
        /\ {row, peer} \subseteq Own(w) \cup {started, None}
        /\ started \in Nat /\ started <= started
    BY <1>1, <1>3 DEF Own
  <1>5. /\ worker' \in [Log!Worker -> Pass(started)]
        /\ RowsApart'
        /\ Log!Live' = (Log!Live \ Own(w)) \cup ({row, peer} \ {None})
    <2>1. PICK n : n = started
      OBVIOUS
    <2>2. /\ row \in 0 .. n - 1 \cup {None} /\ peer \in 0 .. n - 1 \cup {None}
          /\ n \in Nat /\ started <= n
      BY <1>4, <2>1
    <2>3. /\ worker' \in [Log!Worker -> Pass(n)]
          /\ RowsApart'
          /\ Log!Live' = (Log!Live \ Own(w)) \cup ({row, peer} \ {None})
      BY ONLY LogInv, w \in Log!Worker, Log!Becomes(w, stage, row, peer),
              stage \in {"idle", "local", "peers", "merging"}, stage # "peers" => peer = None,
              <1>4, <2>2, PassMoves
    <2> QED
      BY <2>1, <2>3
  <1>6. E \subseteq 0 .. started - 1 /\ Own(w) \subseteq Log!Live
    BY <1>3, LiveIsOwned DEF Own
  <1>7. Log!Live' = Log!Live \ E
    <2>1. {row, peer} \ {None} \subseteq Own(w) /\ None \notin Own(w)
      BY <1>3 DEF Own
    <2> QED
      BY <1>5, <1>6, <2>1
  <1>8. Log!Running(log') \subseteq (Log!Live \ E) \cup (orphans' \ late')
    BY <1>1 DEF Log!RunningRowsAreSyncs
  <1>9. Log!Live \ E \subseteq Log!Running(log') \cup cleared'
    BY <1>1 DEF Log!RunningRowsAreSyncs
  <1>10. /\ DOMAIN log' \subseteq 0 .. started' - 1
         /\ started' \in 0 .. MaxStarts /\ maxRows' \in Limit
         /\ worker' \in [Log!Worker -> Pass(started')]
         /\ cleared' \cup orphans' \cup late' \subseteq 0 .. started' - 1
         /\ late' \cap Log!Running(log') = {}
    BY <1>1, <1>5, <1>6
  <1> QED
    BY <1>5, <1>7, <1>8, <1>9, <1>10, LogInvNext

\* A pass, or a peer of it, begins: the new row runs, and is the pass's.
LEMMA PassStarts ==
  ASSUME LogInv, NEW w \in Log!Worker, NEW stage, NEW row, NEW peer,
         Log!Becomes(w, stage, row, peer),
         stage \in {"idle", "local", "peers", "merging"}, stage # "peers" => peer = None,
         \/ row = started /\ peer = None /\ Own(w) = {}
         \/ row = worker[w].row /\ peer = started /\ worker[w].peer = None,
         Log!Starting,
         UNCHANGED <<maxRows, cleared, orphans, late>>
  PROVE  LogInv'
  <1>1. /\ DOMAIN log \subseteq 0 .. started - 1 /\ log \in [DOMAIN log -> Entry]
        /\ started \in 0 .. MaxStarts /\ maxRows \in Limit
        /\ worker \in [Log!Worker -> Pass(started)]
        /\ cleared \cup orphans \cup late \subseteq 0 .. started - 1
        /\ RowsApart /\ late \cap Log!Running(log) = {} /\ Log!RunningRowsAreSyncs
        /\ None \notin Nat /\ MaxStarts \in Nat
    BY LogTypes, ServicesAssumption DEF LogInv, Log!StartsAssumption
  <1> DEFINE e == [status |-> "running", old |-> FALSE]
             n == started + 1
  <1>2. /\ started < MaxStarts /\ started' = n
        /\ log' = [id \in DOMAIN log \cup {started} |->
                     IF id = started THEN e ELSE log[id]]
    BY DEF Log!Starting
  <1>3. e \in Entry /\ e.status = "running"
    BY DEF Entry
  <1>4. /\ DOMAIN log' = DOMAIN log \cup {started}
        /\ log' \in [DOMAIN log' -> Entry]
        /\ log'[started] = e
        /\ \A id \in DOMAIN log : id # started /\ log'[id] = log[id]
    BY <1>1, <1>2, <1>3
  <1>5. Log!Running(log') = Log!Running(log) \cup {started}
    BY <1>3, <1>4 DEF Log!Running
  <1>6. worker[w] \in Pass(started)
    BY <1>1
  <1>7. /\ worker[w].row \in 0 .. started - 1 \cup {None}
        /\ started \notin 0 .. started - 1 /\ started # None /\ started \in Nat /\ n \in Nat
        /\ 0 .. started - 1 \subseteq 0 .. n - 1 /\ started \in 0 .. n - 1 /\ started <= n
    BY <1>1, <1>6 DEF Pass
  <1>8. /\ row \in 0 .. n - 1 \cup {None} /\ peer \in 0 .. n - 1 \cup {None}
        /\ row # None => row # peer
        /\ {row, peer} \subseteq Own(w) \cup {started, None}
        /\ Own(w) \cup {started} = {row, peer} \ {None}
    BY <1>7 DEF Own
  <1>9. PICK m : m = n
    OBVIOUS
  <1> HIDE DEF n, e
  <1>10. /\ worker' \in [Log!Worker -> Pass(m)]
         /\ RowsApart'
         /\ Log!Live' = (Log!Live \ Own(w)) \cup ({row, peer} \ {None})
    <2>1. /\ row \in 0 .. m - 1 \cup {None} /\ peer \in 0 .. m - 1 \cup {None}
          /\ m \in Nat /\ started <= m
      BY <1>7, <1>8, <1>9
    <2> QED
      BY <1>8, <2>1, PassMoves
  <1>11. Log!Live' = Log!Live \cup {started}
    <2>1. Own(w) \subseteq Log!Live
      BY LiveIsOwned
    <2> QED
      BY <1>8, <1>10, <2>1
  <1>12. /\ Log!Running(log') \subseteq (Log!Live \cup {started}) \cup (orphans' \ late')
         /\ Log!Live \cup {started} \subseteq Log!Running(log') \cup cleared'
         /\ late' \cap Log!Running(log') = {}
    BY <1>1, <1>5, <1>7 DEF Log!RunningRowsAreSyncs
  <1>13. /\ DOMAIN log' \subseteq 0 .. started' - 1
         /\ maxRows' \in Limit
         /\ worker' \in [Log!Worker -> Pass(started')]
         /\ cleared' \cup orphans' \cup late' \subseteq 0 .. started' - 1
    BY <1>1, <1>2, <1>4, <1>7, <1>9, <1>10
  <1>14. started' \in 0 .. MaxStarts
    BY <1>1, <1>2 DEF n
  <1> QED
    BY <1>4, <1>10, <1>11, <1>12, <1>13, <1>14, LogInvNext

\* The pass at w ends the row it owned last and lets go of it.
LEMMA PassEndsRow ==
  ASSUME LogInv, NEW w \in Log!Worker, NEW stage, NEW row, NEW peer,
         NEW id, NEW status \in {"complete", "failed"},
         Log!Becomes(w, stage, row, peer),
         stage \in {"idle", "local", "peers", "merging"}, stage # "peers" => peer = None,
         row \in {worker[w].row, None}, peer \in {worker[w].peer, None},
         Own(w) \ {row, peer} = {id} \ {None},
         log' = Log!Ended(id, status),
         UNCHANGED <<started, maxRows, cleared, orphans, late>>
  PROVE  LogInv'
  <1>1. /\ DOMAIN log \subseteq 0 .. started - 1 /\ log \in [DOMAIN log -> Entry]
        /\ None \notin Nat /\ started \in Nat
    BY LogTypes, ServicesAssumption DEF LogInv, Log!StartsAssumption
  <1>2. /\ DOMAIN log' \subseteq DOMAIN log /\ log' \in [DOMAIN log' -> Entry]
        /\ Log!Running(log') = Log!Running(log) \ {id}
    BY <1>1, EndingEndsOne
  <1>3. None \notin Log!Running(log)
    BY <1>1 DEF Log!Running
  <1> DEFINE E == Own(w) \ {row, peer}
  <1>4. /\ Log!Running(log') \subseteq Log!Running(log)
        /\ Log!Running(log) \subseteq Log!Running(log') \cup E
        /\ E \cap Log!Running(log') \subseteq orphans'
        /\ orphans \subseteq orphans' /\ orphans' \subseteq orphans \cup E
    BY <1>2, <1>3
  <1> HIDE DEF E
  <1>5. E = Own(w) \ {row, peer}
    BY DEF E
  <1> QED
    BY <1>2, <1>4, <1>5, PassGoesOn

\* A boot: what has run for ten minutes has failed, and no pass goes on.
LEMMA LogRestarts == LogInv /\ Log!Restart => LogInv'
  <1> SUFFICES ASSUME LogInv, Log!Restart PROVE LogInv'
    OBVIOUS
  <1>1. /\ DOMAIN log \subseteq 0 .. started - 1 /\ log \in [DOMAIN log -> Entry]
        /\ started \in 0 .. MaxStarts /\ maxRows \in Limit
        /\ worker \in [Log!Worker -> Pass(started)]
        /\ cleared \cup orphans \cup late \subseteq 0 .. started - 1
        /\ late \cap Log!Running(log) = {} /\ Log!RunningRowsAreSyncs
        /\ None \notin Nat /\ MaxStarts \in Nat
    BY LogTypes, ServicesAssumption DEF LogInv, Log!StartsAssumption
  <1> DEFINE p == Log!Pruned(log, maxRows)
             aged == {id \in DOMAIN log : log[id].old}
  <1>2. /\ DOMAIN p \subseteq DOMAIN log /\ p \in [DOMAIN p -> Entry]
        /\ \A id \in DOMAIN p : p[id] = log[id]
        /\ Log!Running(p) = Log!Running(log)
    BY <1>1, PruneSparesRunning
  <1>3. /\ log' = Log!StaleFailed(p) /\ worker' = [w \in Log!Worker |-> Log!AtRest]
        /\ orphans' = orphans \cup Log!Live
        /\ late' = late \cup aged
        /\ UNCHANGED <<started, maxRows, cleared>>
    BY DEF Log!Restart
  <1> HIDE DEF p
  <1>4. ASSUME NEW id \in DOMAIN p
        PROVE  /\ log'[id] \in Entry
               /\ log'[id].status = "running" <=> p[id].status = "running" /\ ~p[id].old
    <2>1. p[id] \in Entry
      BY <1>2
    <2>2. log'[id] = IF p[id].status = "running" /\ p[id].old
                       THEN [p[id] EXCEPT !.status = "failed"] ELSE p[id]
      BY <1>3 DEF Log!StaleFailed
    <2> QED
      BY <2>1, <2>2 DEF Entry
  <1>5. DOMAIN log' = DOMAIN p /\ log' \in [DOMAIN log' -> Entry]
    <2>1. log' = [id \in DOMAIN p |-> log'[id]]
      BY <1>3 DEF Log!StaleFailed
    <2> QED
      BY <1>4, <2>1
  <1>6. Log!Running(log') = Log!Running(log) \ aged
    BY <1>2, <1>4, <1>5 DEF Log!Running
  <1>7. Log!AtRest \in Pass(started) /\ Log!AtRest.row = None /\ Log!AtRest.peer = None
    BY DEF Log!AtRest, Pass
  <1>8. /\ worker' \in [Log!Worker -> Pass(started)]
        /\ \A w \in Log!Worker : worker'[w].row = None /\ worker'[w].peer = None
    BY <1>3, <1>7
  <1>9. \A w \in Log!Worker : Own(w)' = {}
    BY <1>8 DEF Own
  <1>10. RowsApart'
    BY <1>8, <1>9 DEF RowsApart, Log!Worker
  <1>11. Log!Live' = {}
    <2>1. Log!Live' = UNION {Own(w)' : w \in Log!Worker}
      BY DEF Log!Live, Own, Log!Worker
    <2> QED
      BY <1>9, <2>1
  <1>12. Log!Live \subseteq 0 .. started - 1
    <2>1. \A w \in Log!Worker : Own(w) \subseteq 0 .. started - 1
      BY <1>1 DEF Own, Pass
    <2> QED
      BY <2>1, LiveIsOwned
  <1>13. /\ Log!Running(log') \subseteq {} \cup (orphans' \ late')
         /\ {} \subseteq Log!Running(log') \cup cleared'
         /\ late' \cap Log!Running(log') = {}
    BY <1>1, <1>3, <1>6 DEF Log!RunningRowsAreSyncs
  <1>14. /\ DOMAIN log' \subseteq 0 .. started' - 1
         /\ started' \in 0 .. MaxStarts /\ maxRows' \in Limit
         /\ worker' \in [Log!Worker -> Pass(started')]
         /\ cleared' \cup orphans' \cup late' \subseteq 0 .. started' - 1
    BY <1>1, <1>2, <1>3, <1>5, <1>8, <1>12
  <1> QED
    BY <1>5, <1>10, <1>11, <1>13, <1>14, LogInvNext

\* The owner and time touch the rows and leave the passes alone.
LEMMA LogTableStep ==
  ASSUME LogInv, UNCHANGED <<started, worker, orphans, late>>,
         maxRows' \in Limit,
         DOMAIN log' \subseteq DOMAIN log, log' \in [DOMAIN log' -> Entry],
         Log!Running(log') \subseteq Log!Running(log),
         Log!Running(log) \subseteq Log!Running(log') \cup cleared',
         cleared \subseteq cleared', cleared' \subseteq cleared \cup DOMAIN log
  PROVE  LogInv'
  <1>1. /\ DOMAIN log \subseteq 0 .. started - 1
        /\ started \in 0 .. MaxStarts
        /\ worker \in [Log!Worker -> Pass(started)]
        /\ cleared \cup orphans \cup late \subseteq 0 .. started - 1
        /\ RowsApart /\ late \cap Log!Running(log) = {} /\ Log!RunningRowsAreSyncs
    BY LogTypes DEF LogInv
  <1>2. RowsApart' /\ Log!Live' = Log!Live
    <2>1. worker' = worker
      OBVIOUS
    <2>2. \A w \in Log!Worker : Own(w)' = Own(w)
      BY <2>1 DEF Own
    <2>3. RowsApart'
      BY <1>1, <2>1, <2>2 DEF RowsApart, Log!Worker
    <2>4. Log!Live' = Log!Live
      BY <2>1 DEF Log!Live, Log!Worker
    <2> QED
      BY <2>3, <2>4
  <1>3. /\ Log!Running(log') \subseteq Log!Live \cup (orphans' \ late')
        /\ Log!Live \subseteq Log!Running(log') \cup cleared'
        /\ late' \cap Log!Running(log') = {}
    BY <1>1 DEF Log!RunningRowsAreSyncs
  <1>4. /\ DOMAIN log' \subseteq 0 .. started' - 1
        /\ started' \in 0 .. MaxStarts
        /\ worker' \in [Log!Worker -> Pass(started')]
        /\ cleared' \cup orphans' \cup late' \subseteq 0 .. started' - 1
    BY <1>1
  <1> QED
    BY <1>2, <1>3, <1>4, LogInvNext

LEMMA LogStep == LogInv /\ [Log!Next]_syncs => LogInv'
  <1> SUFFICES ASSUME LogInv, [Log!Next]_syncs PROVE LogInv'
    OBVIOUS
  <1>1. /\ DOMAIN log \subseteq 0 .. started - 1 /\ log \in [DOMAIN log -> Entry]
        /\ maxRows \in Limit /\ worker \in [Log!Worker -> Pass(started)]
        /\ RowsApart
        /\ None \notin Nat
    BY LogTypes, ServicesAssumption DEF LogInv, Log!StartsAssumption
  <1>2. CASE UNCHANGED syncs
    BY <1>1, <1>2, LogTableStep DEF syncs
  <1>3. ASSUME NEW w \in Log!Worker, NEW stage, Log!Becomes(w, stage, worker[w].row, None),
               stage \in {"local", "peers", "merging"}, worker[w].peer = None,
               UNCHANGED <<log, started, maxRows, cleared, orphans, late>>
        PROVE  LogInv'
    <2> DEFINE E == Own(w) \ {worker[w].row, None}
    <2>1. E = {}
      BY <1>3 DEF Own
    <2> HIDE DEF E
    <2>2. E = Own(w) \ {worker[w].row, None}
      BY DEF E
    <2> QED
      BY <1>1, <1>3, <2>1, <2>2, PassGoesOn
  <1>4. ASSUME NEW w \in Log!Worker, Log!Begin(w) PROVE LogInv'
    <2>1. worker[w].row = None /\ worker[w].peer = None
      <3>1. worker[w] = Log!AtRest
        BY <1>4 DEF Log!Begin
      <3> QED
        BY <3>1 DEF Log!AtRest
    <2>2. Own(w) = {}
      BY <2>1 DEF Own
    <2>3. CASE w = "peer timer"
      BY <1>3, <1>4, <2>1, <2>3 DEF Log!Begin
    <2>4. CASE w # "peer timer"
      BY <1>4, <2>1, <2>2, <2>4, PassStarts DEF Log!Begin
    <2> QED
      BY <2>3, <2>4
  <1>5. ASSUME NEW w \in Log!Worker, Log!LocalSynced(w) PROVE LogInv'
    <2>1. worker[w].peer = None
      BY <1>1, <1>5 DEF Log!LocalSynced, RowsApart
    <2>2. CASE w = "local timer"
      BY <1>3, <1>5, <2>1, <2>2 DEF Log!LocalSynced
    <2>3. CASE w # "local timer"
      BY <1>3, <1>5, <2>1, <2>3 DEF Log!LocalSynced
    <2> QED
      BY <2>2, <2>3
  <1>6. ASSUME NEW w \in Log!Worker, NEW status \in {"complete", "failed"},
               worker[w].peer = None,
               log' = Log!Ended(worker[w].row, status), Log!Becomes(w, "idle", None, None),
               UNCHANGED <<started, maxRows, cleared, orphans, late>>
        PROVE  LogInv'
    <2>1. Own(w) \ {None, None} = {worker[w].row} \ {None}
      BY <1>6 DEF Own
    <2> QED
      BY <1>6, <2>1, PassEndsRow
  <1>7. ASSUME NEW w \in Log!Worker, Log!LocalFails(w) PROVE LogInv'
    <2>1. worker[w].peer = None
      BY <1>1, <1>7 DEF Log!LocalFails, RowsApart
    <2> QED
      BY <1>6, <1>7, <2>1 DEF Log!LocalFails
  <1>8. ASSUME NEW w \in Log!Worker, Log!PeerBegins(w) PROVE LogInv'
    BY <1>8, PassStarts DEF Log!PeerBegins
  <1>9. ASSUME NEW w \in Log!Worker, NEW status \in {"complete", "failed"},
               Log!PeerEnds(w, status)
        PROVE  LogInv'
    <2>1. worker[w].row # None => worker[w].row # worker[w].peer
      BY <1>1, <1>9 DEF RowsApart
    <2>2. Own(w) \ {worker[w].row, None} = {worker[w].peer} \ {None}
      BY <1>9, <2>1 DEF Own, Log!PeerEnds
    <2> QED
      BY <1>9, <2>2, PassEndsRow DEF Log!PeerEnds
  <1>10. ASSUME NEW w \in Log!Worker, Log!PeersDone(w) PROVE LogInv'
    BY <1>3, <1>10 DEF Log!PeersDone
  <1>11. ASSUME NEW w \in Log!Worker, worker[w].peer = None,
                Log!Becomes(w, "idle", None, None),
                orphans' = orphans \cup ({worker[w].row} \ {None}),
                UNCHANGED <<log, started, maxRows, cleared, late>>
         PROVE  LogInv'
    <2> DEFINE E == Own(w) \ {None, None}
    <2>1. E = {worker[w].row} \ {None}
      BY <1>11 DEF Own
    <2> HIDE DEF E
    <2>2. E = Own(w) \ {None, None}
      BY DEF E
    <2>3. /\ E \cap Log!Running(log') \subseteq orphans'
          /\ orphans \subseteq orphans' /\ orphans' \subseteq orphans \cup E
      BY <1>11, <2>1
    <2> QED
      BY <1>1, <1>11, <2>2, <2>3, PassGoesOn
  <1>12. ASSUME NEW w \in Log!Worker, Log!Merged(w) PROVE LogInv'
    <2>1. worker[w].peer = None
      BY <1>1, <1>12 DEF Log!Merged, RowsApart
    <2>2. CASE worker[w].row = None
      <3>1. orphans' = orphans \cup ({worker[w].row} \ {None})
        BY <1>12, <2>2 DEF Log!Merged
      <3> QED
        BY <1>11, <1>12, <2>1, <2>2, <3>1 DEF Log!Merged
    <2>3. CASE worker[w].row # None
      BY <1>6, <1>12, <2>1, <2>3 DEF Log!Merged
    <2> QED
      BY <2>2, <2>3
  <1>13. ASSUME NEW w \in Log!Worker, Log!MergeFails(w) PROVE LogInv'
    <2>1. worker[w].peer = None
      BY <1>1, <1>13 DEF Log!MergeFails, RowsApart
    <2>2. CASE w = "local timer"
      BY <1>6, <1>13, <2>1, <2>2 DEF Log!MergeFails
    <2>3. CASE w # "local timer"
      BY <1>11, <1>13, <2>1, <2>3 DEF Log!MergeFails
    <2> QED
      BY <2>2, <2>3
  <1>14. CASE Log!Clear
    <2>1. /\ log' = [id \in {} |-> None] /\ cleared' = cleared \cup DOMAIN log
          /\ UNCHANGED <<started, worker, maxRows, orphans, late>>
      BY <1>14 DEF Log!Clear, Log!NoRows
    <2>2. DOMAIN log' = {} /\ log' \in [{} -> Entry]
      BY <2>1
    <2>3. Log!Running(log') = {} /\ Log!Running(log) \subseteq DOMAIN log
      BY <2>2 DEF Log!Running
    <2> QED
      BY <1>1, <2>1, <2>2, <2>3, LogTableStep
  <1>15. ASSUME NEW n \in Limit, Log!SetMaxRows(n) PROVE LogInv'
    <2>1. /\ DOMAIN log' \subseteq DOMAIN log /\ log' \in [DOMAIN log' -> Entry]
          /\ Log!Running(log') = Log!Running(log)
      BY <1>1, <1>15, PruneSparesRunning DEF Log!SetMaxRows
    <2> QED
      BY <1>15, <2>1, LogTableStep DEF Log!SetMaxRows
  <1>16. CASE Log!Age
    <2>1. /\ log' = [id \in DOMAIN log |-> [log[id] EXCEPT !.old = TRUE]]
          /\ UNCHANGED <<started, worker, maxRows, cleared, orphans, late>>
      BY <1>16 DEF Log!Age
    <2>2. ASSUME NEW id \in DOMAIN log
          PROVE  log'[id] \in Entry /\ log'[id].status = log[id].status
      <3>1. log[id] \in Entry
        BY <1>1
      <3> QED
        BY <2>1, <3>1 DEF Entry
    <2>3. DOMAIN log' = DOMAIN log /\ log' \in [DOMAIN log' -> Entry]
      BY <2>1, <2>2
    <2>4. Log!Running(log') = Log!Running(log)
      BY <2>2, <2>3 DEF Log!Running
    <2> QED
      BY <1>1, <2>1, <2>3, <2>4, LogTableStep
  <1> QED
    BY <1>2, <1>4, <1>5, <1>7, <1>8, <1>9, <1>10, <1>12, <1>13, <1>14, <1>15, <1>16,
       LogRestarts DEF Log!Next

-----------------------------------------------------------------------------
(* The discovery of speakers.                                              *)

LEMMA SonosStart == Sonos!Init => Sonos!TypeOK
  BY DEF Sonos!Init, Sonos!TypeOK

LEMMA SonosStep == Sonos!TypeOK /\ [Sonos!Next]_sonos => Sonos!TypeOK'
  <1> SUFFICES ASSUME Sonos!TypeOK, [Sonos!Next]_sonos PROVE Sonos!TypeOK'
    OBVIOUS
  <1> USE DEF Sonos!TypeOK
  <1>1. CASE UNCHANGED sonos
    BY <1>1 DEF sonos
  <1>2. ASSUME NEW speakers \in SUBSET Speaker, NEW wiring \in Group,
               Sonos!Rewire(speakers, wiring)
        PROVE  Sonos!TypeOK'
    BY <1>2 DEF Sonos!Rewire
  <1>3. ASSUME NEW devices \in SUBSET Speaker, Sonos!AskOneOf(devices)
        PROVE  asked' \subseteq Speaker
    BY <1>3 DEF Sonos!AskOneOf
  <1>4. CASE Sonos!Interval
    <2>1. listed' \subseteq Speaker /\ Sonos!AskOneOf(listed')
      BY <1>4 DEF Sonos!Interval
    <2>2. asked' \subseteq Speaker
      BY <1>3, <2>1
    <2> QED
      BY <1>4, <2>1, <2>2 DEF Sonos!Interval
  <1>5. ASSUME NEW s \in Speaker, Sonos!Describe(s) PROVE Sonos!TypeOK'
    <2>1. /\ listed' \subseteq Speaker /\ recent' \subseteq Speaker
          /\ collapsedOnce' \in BOOLEAN /\ describing' \subseteq Speaker
          /\ UNCHANGED <<on, leader, satellites, topologies>>
      BY <1>5 DEF Sonos!Describe, Sonos!Described
    <2>2. asked' \subseteq Speaker
      BY <1>3, <1>5, <2>1 DEF Sonos!Describe
    <2> QED
      BY <2>1, <2>2
  <1>6. ASSUME NEW s \in Speaker,
               Sonos!Respond(s) \/ Sonos!DescribeFails(s) \/ Sonos!Age(s) \/ Sonos!AskFails(s)
        PROVE  Sonos!TypeOK'
    BY <1>6 DEF Sonos!Respond, Sonos!DescribeFails, Sonos!Described, Sonos!Age, Sonos!AskFails
  <1>7. ASSUME NEW s \in Speaker, Sonos!GiveTopology(s) PROVE Sonos!TypeOK'
    BY <1>7 DEF Sonos!GiveTopology, Sonos!Bonded
  <1>8. ASSUME NEW bonded \in topologies, Sonos!Collapse(bonded) PROVE Sonos!TypeOK'
    BY <1>8 DEF Sonos!Collapse, Sonos!Rebuilt
  <1> QED
    BY <1>1, <1>2, <1>4, <1>5, <1>6, <1>7, <1>8 DEF Sonos!Next, Sonos!Answered

-----------------------------------------------------------------------------
(* Casting.                                                                *)

Store == [index : Cast!Track, playing : BOOLEAN, mode : Modes, casting : BOOLEAN]

Refs == [skip : Cast!Track \cup {None}, pending : Cast!Track \cup {None},
         key : (Cast!Track \X Modes) \cup {None}]

Loop == [wasPlaying : BOOLEAN, sawUri : BOOLEAN, state : Cast!Transport \cup {None},
         read : Cast!Reading \cup {None}]

Box == [state : Cast!Transport, track : Cast!Track \cup {None}, next : Cast!Track \cup {None}]

LEMMA CastTypes ==
  Cast!TypeOK <=>
    /\ ui \in Store /\ refs \in Refs /\ guarded \in BOOLEAN /\ poll \in Loop
    /\ requests \subseteq Cast!Message /\ speaker \in Box
    /\ changed \in BOOLEAN /\ budget \in 0 .. Disturbances
  BY DEF Cast!TypeOK, Store, Refs, Loop, Box

LEMMA Jumps ==
  ASSUME NEW s \in Store, NEW i \in Cast!Track
  PROVE  Cast!JumpTo(s, i) \in Store /\ Cast!JumpTo(s, i).index = i
         /\ Cast!JumpTo(s, i).casting = s.casting
  BY DEF Cast!JumpTo, Store

\* The queue goes on to one of its tracks, or to its end.
LEMMA PeeksAreTracks ==
  ASSUME NEW s \in Store
  PROVE  /\ Cast!Peeks(s) \subseteq Cast!Track \cup {None}
         /\ Cast!Nexts(s) \subseteq Store
  <1>1. Length \in Nat /\ Length > 0
    BY ServicesAssumption DEF Cast!LengthAssumption
  <1>2. s.index \in Cast!Track
    BY DEF Store
  <1>3. 1 \in Cast!Track
    BY <1>1 DEF Cast!Track
  <1>4. s.index < Length => s.index + 1 \in Cast!Track
    BY <1>1, <1>2 DEF Cast!Track
  <1>5. Cast!Peeks(s) \subseteq Cast!Track \cup {None}
    <2>1. CASE s.mode.repeat = "one"
      BY <1>2, <2>1 DEF Cast!Peeks
    <2>2. CASE s.mode.repeat # "one" /\ s.mode.shuffle
      BY <2>2 DEF Cast!Peeks
    <2>3. CASE s.mode.repeat # "one" /\ ~s.mode.shuffle
      <3>1. Cast!Peeks(s) = IF s.index < Length THEN {s.index + 1}
                            ELSE IF s.mode.repeat = "all" THEN {1} ELSE {None}
        BY <2>3 DEF Cast!Peeks
      <3> QED
        BY <1>3, <1>4, <3>1
    <2> QED
      BY <2>1, <2>2, <2>3
  <1>6. [s EXCEPT !.playing = FALSE] \in Store
    BY DEF Store
  <1>7. Cast!Nexts(s) \subseteq Store
    <2>1. ASSUME NEW t \in Cast!Nexts(s) PROVE t \in Store
      <3>1. CASE s.mode.repeat = "one"
        BY <2>1, <3>1 DEF Cast!Nexts
      <3>2. CASE s.mode.repeat # "one"
        <4>1. PICK i \in Cast!Peeks(s) :
                t = IF i = None THEN [s EXCEPT !.playing = FALSE] ELSE Cast!JumpTo(s, i)
          BY <2>1, <3>2 DEF Cast!Nexts
        <4> QED
          BY <1>5, <1>6, <4>1, Jumps
      <3> QED
        BY <3>1, <3>2
    <2> QED
      BY <2>1
  <1> QED
    BY <1>5, <1>7

LEMMA RequestsThereAre ==
  /\ \A i \in Cast!Track, b \in BOOLEAN :
       [op |-> "play", track |-> i, autoplay |-> b] \in Cast!Message
  /\ \A n \in Cast!Track \cup {None} : [op |-> "next", track |-> n] \in Cast!Message
  /\ \A op \in {"start", "resume", "pause", "stop"} : Cast!Asks(op) \in Cast!Message
  BY DEF Cast!Message, Cast!Asks

LEMMA EffectsTyped ==
  ASSUME Cast!TypeOK, NEW s \in Store, NEW r \in Refs, NEW p \in Loop, NEW mount \in BOOLEAN,
         Cast!Effects(s, r, p, mount), UNCHANGED speaker, budget' \in 0 .. Disturbances
  PROVE  Cast!TypeOK'
  <1> DEFINE switched == mount \/ s.casting # ui.casting
             moved == switched \/ s.index # ui.index
             skipped == moved /\ r.skip = s.index
             plays == s.casting /\ moved /\ ~skipped
             key == <<s.index, s.mode>>
             preloads == /\ s.casting
                         /\ moved \/ s.mode # ui.mode
                         /\ r.pending = None \/ r.key # key
             toggles == s.casting /\ (switched \/ s.playing # ui.playing)
             stops == IF ui.casting /\ ~s.casting THEN {Cast!Asks("stop")} ELSE {}
             play == IF plays THEN {[op |-> "play", track |-> s.index, autoplay |-> s.playing]}
                     ELSE {}
             next(n) == IF preloads THEN {[op |-> "next", track |-> n]} ELSE {}
             toggle == IF toggles THEN {Cast!Asks(IF s.playing THEN "resume" ELSE "pause")}
                       ELSE {}
  <1>1. /\ requests \subseteq Cast!Message /\ speaker \in Box
        /\ guarded \in BOOLEAN /\ changed \in BOOLEAN
    BY CastTypes
  <1>2. /\ ui' = s
        /\ guarded' = (plays \/ (guarded /\ ~mount))
        /\ poll' = IF moved THEN Cast!Polling ELSE p
        /\ changed' = (changed /\ ~moved)
        /\ \E n \in (IF preloads THEN Cast!Peeks(s) ELSE {r.pending}) :
             /\ refs' = [skip |-> IF s.casting /\ skipped THEN None ELSE r.skip,
                         pending |-> n,
                         key |-> IF preloads THEN key ELSE r.key]
             /\ requests' = requests \cup (stops \cup play \cup next(n) \cup toggle)
    BY DEF Cast!Effects
  <1>3. /\ s.index \in Cast!Track /\ s.playing \in BOOLEAN /\ s.mode \in Modes
        /\ r.skip \in Cast!Track \cup {None} /\ r.pending \in Cast!Track \cup {None}
        /\ r.key \in (Cast!Track \X Modes) \cup {None}
    BY DEF Store, Refs
  <1>4. key \in Cast!Track \X Modes
    BY <1>3
  <1>5. /\ stops \subseteq Cast!Message /\ play \subseteq Cast!Message
        /\ toggle \subseteq Cast!Message
        /\ \A n \in Cast!Track \cup {None} : next(n) \subseteq Cast!Message
    BY <1>3, RequestsThereAre
  <1>6. Cast!Polling \in Loop
    BY DEF Cast!Polling, Loop
  <1>7. guarded' \in BOOLEAN /\ changed' \in BOOLEAN
    BY <1>1, <1>2
  <1> HIDE DEF switched, moved, skipped, plays, key, preloads, toggles, stops, play, next, toggle
  <1>8. PICK n \in Cast!Track \cup {None} :
          /\ refs' = [skip |-> IF s.casting /\ skipped THEN None ELSE r.skip,
                      pending |-> n,
                      key |-> IF preloads THEN key ELSE r.key]
          /\ requests' = requests \cup (stops \cup play \cup next(n) \cup toggle)
    BY <1>2, <1>3, PeeksAreTracks
  <1>9. refs' \in Refs
    BY <1>3, <1>4, <1>8 DEF Refs
  <1>10. requests' \subseteq Cast!Message
    BY <1>1, <1>5, <1>8
  <1>11. poll' \in Loop
    BY <1>2, <1>6
  <1>12. ui' \in Store /\ speaker' \in Box
    BY <1>1, <1>2
  <1> QED
    BY <1>7, <1>9, <1>10, <1>11, <1>12 DEF Cast!TypeOK, Store, Refs, Loop, Box

LEMMA CastStart == Cast!Init => Cast!TypeOK
  <1> SUFFICES ASSUME Cast!Init PROVE Cast!TypeOK
    OBVIOUS
  <1>1. Disturbances \in Nat /\ 1 \in Cast!Track
    BY ServicesAssumption DEF Cast!ModesAssumption, Cast!LengthAssumption, Cast!Track
  <1>2. ui \in Store
    BY <1>1 DEF Cast!Init, Store
  <1>3. refs \in Refs /\ poll \in Loop
    BY DEF Cast!Init, Refs, Loop, Cast!Polling
  <1>4. /\ speaker \in Box /\ requests \subseteq Cast!Message
        /\ guarded \in BOOLEAN /\ changed \in BOOLEAN
    BY DEF Cast!Init, Box, Cast!Transport
  <1>5. budget \in 0 .. Disturbances
    BY <1>1 DEF Cast!Init
  <1> QED
    BY <1>2, <1>3, <1>4, <1>5, CastTypes

\* What the poll has read, applied to the store, is a store again, and shows
\* the track that the speaker was to go on to, if it went on.
LEMMA PollApplies ==
  ASSUME Cast!TypeOK, Cast!PollApply
  PROVE  \E s \in Store, r \in Refs, p \in Loop :
           /\ Cast!Effects(s, r, p, FALSE)
           /\ s.casting = ui.casting
           /\ r = IF Cast!Advanced THEN Cast!Jumped ELSE refs
           /\ ~Cast!Ended =>
                s.index = IF Cast!Advanced THEN refs.pending ELSE ui.index
  <1>1. ui \in Store /\ refs \in Refs /\ poll \in Loop
    BY CastTypes
  <1> DEFINE shown == CASE poll.read.state = "PLAYING" -> [ui EXCEPT !.playing = TRUE]
                        [] poll.read.state = "PAUSED_PLAYBACK" -> [ui EXCEPT !.playing = FALSE]
                        [] OTHER -> ui
             moved == IF Cast!Advanced THEN Cast!JumpTo(shown, refs.pending) ELSE shown
             r == IF Cast!Advanced THEN Cast!Jumped ELSE refs
             p == [wasPlaying |-> poll.read.state = "PLAYING",
                   sawUri |-> poll.read.track # None, state |-> None, read |-> None]
  <1>2. PICK s \in (IF Cast!Ended THEN Cast!Nexts(moved) ELSE {moved}) :
          Cast!Effects(s, r, p, FALSE)
    BY DEF Cast!PollApply
  <1>3. p \in Loop
    BY DEF Loop
  <1>4. shown \in Store /\ shown.index = ui.index /\ shown.casting = ui.casting
    <2>1. /\ [ui EXCEPT !.playing = TRUE] \in Store
          /\ [ui EXCEPT !.playing = TRUE].index = ui.index
          /\ [ui EXCEPT !.playing = TRUE].casting = ui.casting
          /\ [ui EXCEPT !.playing = FALSE] \in Store
          /\ [ui EXCEPT !.playing = FALSE].index = ui.index
          /\ [ui EXCEPT !.playing = FALSE].casting = ui.casting
      BY <1>1 DEF Store
    <2> QED
      BY <1>1, <2>1
  <1>5. Cast!Advanced => refs.pending \in Cast!Track
    BY <1>1 DEF Cast!Advanced, Refs
  <1>6. r \in Refs
    BY <1>1 DEF Cast!Jumped, Refs
  <1> HIDE DEF shown, r, p
  <1>7. /\ moved \in Store /\ moved.casting = ui.casting
        /\ moved.index = IF Cast!Advanced THEN refs.pending ELSE ui.index
    BY <1>4, <1>5, Jumps
  <1> HIDE DEF moved
  <1>8. s \in Store /\ s.casting = ui.casting
    <2>1. CASE ~Cast!Ended
      BY <1>2, <1>7, <2>1
    <2>2. CASE Cast!Ended
      <3>1. s \in Cast!Nexts(moved)
        BY <1>2, <2>2
      <3>2. s \in Store
        BY <1>7, <3>1, PeeksAreTracks
      <3>3. [moved EXCEPT !.playing = FALSE].casting = moved.casting
        BY <1>7 DEF Store
      <3>4. s.casting = moved.casting
        <4>1. CASE moved.mode.repeat = "one"
          BY <3>1, <4>1 DEF Cast!Nexts
        <4>2. CASE moved.mode.repeat # "one"
          <5>1. PICK i \in Cast!Peeks(moved) :
                  s = IF i = None THEN [moved EXCEPT !.playing = FALSE]
                      ELSE Cast!JumpTo(moved, i)
            BY <3>1, <4>2 DEF Cast!Nexts
          <5>2. i \in Cast!Track \cup {None}
            BY <1>7, PeeksAreTracks
          <5> QED
            BY <1>7, <3>3, <5>1, <5>2, Jumps
        <4> QED
          BY <4>1, <4>2
      <3> QED
        BY <1>7, <3>2, <3>4
    <2> QED
      BY <2>1, <2>2
  <1>9. ~Cast!Ended => s.index = IF Cast!Advanced THEN refs.pending ELSE ui.index
    BY <1>2, <1>7
  <1> QED
    BY <1>2, <1>3, <1>6, <1>8, <1>9 DEF r

\* What a command leaves the speaker in is a transport state.
LEMMA ObedienceTyped ==
  ASSUME NEW op \in {"start", "resume", "pause", "stop"}, speaker.state \in Cast!Transport,
         NEW state \in Cast!Obeys(op)
  PROVE  state \in Cast!Transport
  <1>1. CASE speaker.track = None
    BY <1>1 DEF Cast!Obeys
  <1>2. CASE speaker.track # None /\ op \in {"start", "resume"}
    <2>1. Cast!Obeys(op) = {IF speaker.state = "PLAYING" THEN "PLAYING" ELSE "TRANSITIONING"}
      BY <1>2 DEF Cast!Obeys
    <2> QED
      BY <2>1 DEF Cast!Transport
  <1>3. CASE speaker.track # None /\ op = "pause"
    <2>1. Cast!Obeys(op) \subseteq {speaker.state, "PAUSED_PLAYBACK", "TRANSITIONING"}
      BY <1>3 DEF Cast!Obeys
    <2> QED
      BY <2>1 DEF Cast!Transport
  <1>4. CASE speaker.track # None /\ op = "stop"
    <2>1. Cast!Obeys(op) = {"STOPPED"}
      BY <1>4 DEF Cast!Obeys
    <2> QED
      BY <2>1 DEF Cast!Transport
  <1> QED
    BY <1>1, <1>2, <1>3, <1>4

LEMMA CastStep == Cast!TypeOK /\ [Cast!Next]_cast => Cast!TypeOK'
  <1> SUFFICES ASSUME Cast!TypeOK, [Cast!Next]_cast PROVE Cast!TypeOK'
    OBVIOUS
  <1>1. /\ ui \in Store /\ refs \in Refs /\ guarded \in BOOLEAN /\ poll \in Loop
        /\ requests \subseteq Cast!Message /\ speaker \in Box
        /\ changed \in BOOLEAN /\ budget \in 0 .. Disturbances /\ Disturbances \in Nat
    BY CastTypes, ServicesAssumption DEF Cast!ModesAssumption
  <1>2. CASE UNCHANGED cast
    BY <1>2 DEF cast, Cast!TypeOK
  <1>3. ASSUME NEW s \in Store, Cast!Becomes(s), UNCHANGED speaker, budget' \in 0 .. Disturbances
        PROVE  Cast!TypeOK'
    BY <1>1, <1>3, EffectsTyped DEF Cast!Becomes
  <1>4. /\ \A b \in BOOLEAN : [ui EXCEPT !.playing = b] \in Store
        /\ \A b \in BOOLEAN : [ui EXCEPT !.casting = b] \in Store
        /\ \A m \in Modes : [ui EXCEPT !.mode = m] \in Store
        /\ \A i \in Cast!Track : [ui EXCEPT !.index = i] \in Store
        /\ ui.index \in Cast!Track /\ ui.playing \in BOOLEAN /\ ui.casting \in BOOLEAN
    BY <1>1 DEF Store
  <1>5. ASSUME Cast!Act, budget' \in 0 .. Disturbances PROVE Cast!TypeOK'
    <2>1. ASSUME NEW i \in Cast!Track, Cast!Click(i) PROVE Cast!TypeOK'
      <3>1. CASE i = ui.index
        BY <1>3, <1>4, <1>5, <2>1, <3>1 DEF Cast!Click
      <3>2. CASE i # ui.index
        BY <1>1, <1>3, <1>5, <2>1, <3>2, Jumps DEF Cast!Click
      <3> QED
        BY <3>1, <3>2
    <2>2. CASE Cast!SkipForward
      BY <1>1, <1>3, <1>5, <2>2, PeeksAreTracks DEF Cast!SkipForward
    <2>3. CASE Cast!SkipBack
      <3>1. ui.index - 1 \in Cast!Track
        BY <1>4, <2>3, ServicesAssumption DEF Cast!SkipBack, Cast!Track, Cast!LengthAssumption
      <3> QED
        BY <1>3, <1>4, <1>5, <2>3, <3>1 DEF Cast!SkipBack
    <2>4. ASSUME NEW m \in Modes, Cast!SetMode(m) PROVE Cast!TypeOK'
      BY <1>3, <1>4, <1>5, <2>4 DEF Cast!SetMode
    <2>5. CASE Cast!Switch
      BY <1>3, <1>4, <1>5, <2>5 DEF Cast!Switch
    <2>6. CASE Cast!Seek
      <3>1. requests' \subseteq Cast!Message
        BY <1>1, <1>4, <2>6, RequestsThereAre DEF Cast!Seek
      <3> QED
        BY <1>1, <1>5, <2>6, <3>1 DEF Cast!Seek, Cast!TypeOK, Store, Refs, Loop, Box
    <2>7. CASE Cast!Reload
      <3> DEFINE r == [skip |-> IF ui.casting THEN ui.index ELSE None,
                       pending |-> None, key |-> None]
      <3>1. r \in Refs
        BY <1>4 DEF Refs
      <3>2. Cast!Polling \in Loop
        BY DEF Cast!Polling, Loop
      <3>3. Cast!Effects(ui, r, Cast!Polling, TRUE) /\ UNCHANGED speaker
        BY <2>7 DEF Cast!Reload
      <3> HIDE DEF r
      <3> QED
        BY <1>1, <1>5, <3>1, <3>2, <3>3, EffectsTyped
    <2> QED
      BY <1>5, <2>1, <2>2, <2>3, <2>4, <2>5, <2>6, <2>7 DEF Cast!Act
  <1>6. ASSUME Cast!TouchSpeaker, budget' \in 0 .. Disturbances PROVE Cast!TypeOK'
    <2>1. speaker' \in Box
      BY <1>1, <1>6 DEF Cast!TouchSpeaker, Box, Cast!Transport
    <2> QED
      BY <1>1, <1>6, <2>1 DEF Cast!TouchSpeaker, Cast!TypeOK, Store, Refs, Loop, Box
  <1>7. ASSUME NEW q \in requests, Cast!ServeFails(q), budget' \in 0 .. Disturbances
        PROVE  Cast!TypeOK'
    <2>1. ui' \in Store
      BY <1>1, <1>4, <1>7 DEF Cast!ServeFails
    <2>2. requests' \subseteq Cast!Message
      BY <1>1, <1>7, RequestsThereAre DEF Cast!ServeFails
    <2> QED
      BY <1>1, <1>7, <2>1, <2>2 DEF Cast!ServeFails, Cast!TypeOK, Store, Refs, Loop, Box
  <1>8. ASSUME Cast!PollFails, budget' \in 0 .. Disturbances PROVE Cast!TypeOK'
    <2>1. changed' \in BOOLEAN
      BY <1>1, <1>8 DEF Cast!PollFails, Loop, Cast!Reading
    <2>2. poll' \in Loop
      BY <1>1, <1>8 DEF Cast!PollFails, Loop
    <2> QED
      BY <1>1, <1>8, <2>1, <2>2 DEF Cast!PollFails, Cast!TypeOK, Store, Refs, Loop, Box
  <1>9. CASE Cast!Disturbance
    <2>1. budget' \in 0 .. Disturbances
      BY <1>1, <1>9 DEF Cast!Disturbance, Cast!Disturb
    <2> QED
      BY <1>5, <1>6, <1>7, <1>8, <1>9, <2>1 DEF Cast!Disturbance
  <1>10. ASSUME NEW q \in requests, Cast!Serve(q) PROVE Cast!TypeOK'
    <2>1. q \in Cast!Message
      BY <1>1
    <2>2. CASE Cast!Load(q)
      <3>1. q.track \in Cast!Track
        BY <2>1, <2>2 DEF Cast!Load, Cast!Message
      <3>2. speaker' \in Box
        BY <1>1, <2>2, <3>1 DEF Cast!Load, Box, Cast!Transport
      <3>3. requests' \subseteq Cast!Message /\ changed' \in BOOLEAN
        BY <1>1, <2>2, RequestsThereAre DEF Cast!Load
      <3> QED
        BY <1>1, <1>10, <3>2, <3>3 DEF Cast!Serve, Cast!TypeOK, Store, Refs, Loop, Box
    <2>3. CASE Cast!Command(q)
      <3>1. PICK state \in Cast!Obeys(q.op) : speaker' = [speaker EXCEPT !.state = state]
        BY <2>3 DEF Cast!Command
      <3>2. q.op \in {"start", "resume", "pause", "stop"} /\ speaker.state \in Cast!Transport
        BY <1>1, <2>3 DEF Cast!Command, Box
      <3>3. state \in Cast!Transport
        BY <3>1, <3>2, ObedienceTyped
      <3>4. speaker' \in Box /\ requests' \subseteq Cast!Message /\ UNCHANGED changed
        BY <1>1, <2>3, <3>1, <3>3 DEF Cast!Command, Box
      <3> QED
        BY <1>1, <1>10, <3>4 DEF Cast!Serve, Cast!TypeOK, Store, Refs, Loop, Box
    <2>4. CASE Cast!Preload(q)
      <3>1. q.track \in Cast!Track \cup {None}
        BY <2>1, <2>4 DEF Cast!Preload, Cast!Message
      <3>2. speaker' \in Box /\ requests' \subseteq Cast!Message /\ UNCHANGED changed
        BY <1>1, <2>4, <3>1 DEF Cast!Preload, Box
      <3> QED
        BY <1>1, <1>10, <3>2 DEF Cast!Serve, Cast!TypeOK, Store, Refs, Loop, Box
    <2> QED
      BY <1>10, <2>2, <2>3, <2>4 DEF Cast!Serve
  <1>11. CASE Cast!GuardExpires
    BY <1>1, <1>11 DEF Cast!GuardExpires, Cast!TypeOK, Store, Refs, Loop, Box
  <1>12. CASE Cast!TrackEnds
    <2>1. speaker' \in Box
      BY <1>1, <1>12 DEF Cast!TrackEnds, Box, Cast!Transport
    <2>2. changed' \in BOOLEAN
      BY <1>1, <1>12 DEF Cast!TrackEnds
    <2> QED
      BY <1>1, <1>12, <2>1, <2>2 DEF Cast!TrackEnds, Cast!TypeOK, Store, Refs, Loop, Box
  <1>13. CASE Cast!LocalEnds
    BY <1>1, <1>3, <1>13, PeeksAreTracks DEF Cast!LocalEnds
  <1>14. CASE Cast!PollTransport
    <2>1. poll' \in Loop
      BY <1>1, <1>14 DEF Cast!PollTransport, Loop, Box
    <2> QED
      BY <1>1, <1>14, <2>1 DEF Cast!PollTransport, Cast!TypeOK, Store, Refs, Loop, Box
  <1>15. CASE Cast!PollPosition
    <2> DEFINE seen == [state |-> poll.state, track |-> speaker.track,
                        moved |-> poll.sawUri /\ changed]
    <2>1. seen \in Cast!Reading
      BY <1>1, <1>15 DEF Cast!PollPosition, Box, Loop, Cast!Reading
    <2>2. poll' \in Loop /\ changed' \in BOOLEAN
      BY <1>1, <1>15, <2>1 DEF Cast!PollPosition, Loop
    <2> QED
      BY <1>1, <1>15, <2>2 DEF Cast!PollPosition, Cast!TypeOK, Store, Refs, Loop, Box
  <1>16. ASSUME Cast!Plays \/ Cast!Stalls PROVE Cast!TypeOK'
    <2>1. speaker' \in Box
      BY <1>1, <1>16 DEF Cast!Plays, Cast!Stalls, Box, Cast!Transport
    <2> QED
      BY <1>1, <1>16, <2>1 DEF Cast!Plays, Cast!Stalls, Cast!TypeOK, Store, Refs, Loop, Box
  <1>17. CASE Cast!PollApply
    <2>1. UNCHANGED <<speaker, budget>>
      BY <1>17 DEF Cast!PollApply
    <2> QED
      BY <1>1, <1>17, <2>1, PollApplies, EffectsTyped
  <1> QED
    BY <1>2, <1>9, <1>10, <1>11, <1>12, <1>13, <1>14, <1>15, <1>16, <1>17
       DEF Cast!Next, Cast!Served, Cast!PollStep

\* Unless the end of the queue was reached, the poll sends no play at all: a
\* track the speaker went on to is the one the effects are told to skip.
LEMMA PollDoesNotPlay ==
  ASSUME Cast!TypeOK, Cast!PollApply, poll.read.state # "STOPPED",
         NEW q \in requests' \ requests
  PROVE  q.op # "play"
  <1>1. PICK s \in Store, r \in Refs, p \in Loop :
           /\ Cast!Effects(s, r, p, FALSE)
           /\ s.casting = ui.casting
           /\ r = IF Cast!Advanced THEN Cast!Jumped ELSE refs
           /\ ~Cast!Ended => s.index = IF Cast!Advanced THEN refs.pending ELSE ui.index
    BY PollApplies
  <1>2. ~Cast!Ended
    BY DEF Cast!Ended
  <1>3. ~(s.casting /\ s.index # ui.index /\ ~(s.index # ui.index /\ r.skip = s.index))
    <2>1. CASE Cast!Advanced
      <3>1. r.skip = refs.pending
        BY <1>1, <2>1, CastTypes DEF Cast!Jumped, Refs
      <3> QED
        BY <1>1, <1>2, <2>1, <3>1
    <2>2. CASE ~Cast!Advanced
      BY <1>1, <1>2, <2>2
    <2> QED
      BY <2>1, <2>2
  <1>4. q \in {Cast!Asks("stop"), Cast!Asks("resume"), Cast!Asks("pause")}
          \/ \E n : q = [op |-> "next", track |-> n]
    BY <1>1, <1>3 DEF Cast!Effects
  <1> QED
    BY <1>4 DEF Cast!Asks

-----------------------------------------------------------------------------
(* The services together.                                                  *)

Inv ==
  AccountsInv /\ ArtInv /\ MonitorInv /\ LogInv /\ Sonos!TypeOK /\ Cast!TypeOK

LEMMA ServicesStart == Init => Inv
  BY AccountsStart, ArtStart, MonitorStart, LogStart, SonosStart, CastStart DEF Init, Inv

\* What a step of the whole is to each service: a step of its own, or none.
LEMMA EachStepsOrRests ==
  ASSUME [Next]_all
  PROVE  /\ [Accounts!Next]_accounts /\ [Art!Next]_art /\ [Monitor!Next]_monitor
         /\ [Log!Next]_syncs /\ [Sonos!Next]_sonos /\ [Cast!Next]_cast
  <1>1. CASE UNCHANGED all
    BY <1>1 DEF all
  <1>2. CASE Next
    BY <1>2 DEF Next, OnAccounts, OnArt, OnMonitor, OnSonos, OnCast, OnLog
  <1> QED
    BY <1>1, <1>2

LEMMA ServicesStep == Inv /\ [Next]_all => Inv'
  <1> SUFFICES ASSUME Inv, [Next]_all PROVE Inv'
    OBVIOUS
  <1>1. /\ [Accounts!Next]_accounts /\ [Art!Next]_art /\ [Monitor!Next]_monitor
        /\ [Log!Next]_syncs /\ [Sonos!Next]_sonos /\ [Cast!Next]_cast
    BY EachStepsOrRests
  <1> QED
    BY <1>1, AccountsStep, ArtStep, MonitorStep, LogStep, SonosStep, CastStep DEF Inv

LEMMA SpentAdmitsOne == AccountsInv => OneAccountPerInvite
  <1> SUFFICES ASSUME AccountsInv, NEW i \in Invite
               PROVE  Accounts!Cardinality(admitted[i]) <= 1
    BY DEF OneAccountPerInvite, Accounts!OneAccountPerInvite
  <1>1. PICK u \in User : admitted[i] \subseteq {u}
    BY DEF AccountsInv, Spent
  <1>2. admitted[i] = {} \/ admitted[i] = {u}
    BY <1>1
  <1>3. CASE admitted[i] = {}
    <2>1. Cardinality({}) = 0
      BY FS_EmptySet
    <2> QED
      BY <1>3, <2>1, SameFiniteSets
  <1>4. CASE admitted[i] = {u}
    <2>1. Cardinality({u}) = 1
      BY FS_Singleton
    <2> QED
      BY <1>4, <2>1, SameFiniteSets
  <1> QED
    BY <1>2, <1>3, <1>4

\* Every service keeps its invariant, whatever the sizes of its sets.
LEMMA ServicesKeepInv == Spec => []Inv
  BY ServicesStart, ServicesStep, PTL DEF Spec

\* Every variable of the six services has its type, for all values of the
\* constants: the owner of the hub's instance is an account that exists, no
\* row of the log of syncs has an id that was not issued, what the player asks
\* of a speaker is a track of its queue.
THEOREM ServicesTypes == Spec => []TypeOK
  <1>1. Inv => TypeOK
    BY DEF Inv, TypeOK, AccountsInv, ArtInv, MonitorInv, LogInv
  <1> QED
    BY <1>1, ServicesKeepInv, PTL

\* However many admins issue, revoke and delete while links are redeemed, an
\* invitation admits one account at most: the claim that spends it is part of
\* the transaction that makes the account (user-invites.ts, consumeUserInvite).
THEOREM InvitesAdmitOne == Spec => []OneAccountPerInvite
  <1>1. Inv => OneAccountPerInvite
    BY SpentAdmitsOne DEF Inv
  <1> QED
    BY <1>1, ServicesKeepInv, PTL

\* Whatever interleaving of admin requests, redemptions and boots under another
\* owner's name there is, a hub that has an admin has one after every step: the
\* count of the other admins is taken in the body that demotes or deletes, and
\* the owner that a boot seeds takes no one's rights.
THEOREM AdminsRemain == Spec => AdminRemains
  <1>1. Inv /\ [Next]_all => [Accounts!HasAdmin => Accounts!HasAdmin']_(Accounts!accountVars)
    <2> SUFFICES ASSUME Inv, [Next]_all, Accounts!HasAdmin,
                        ~UNCHANGED Accounts!accountVars
                 PROVE  Accounts!HasAdmin'
      OBVIOUS
    <2>1. Accounts!Next
      BY EachStepsOrRests DEF accounts, Accounts!accountVars
    <2> QED
      BY <2>1, AdminsStep DEF Inv, AccountsInv
  <1> QED
    BY <1>1, ServicesKeepInv, PTL DEF Spec, AdminRemains, Accounts!AdminRemains

\* A foreign key ends a request in a 500 only if the admin it runs for was
\* deleted while requireOwner waited; in particular the deletion of the account
\* that owns the hub's instance hands it on first (admin.ts, DELETE /users/:id).
THEOREM FailuresAreOfTheDead == Spec => FailsOnlyForDeadActor
  <1> DEFINE A == \A r \in Request :
                    call[r] # Failed /\ call'[r] = Failed => ~Accounts!Exists(call[r])
  <1>1. Inv /\ [Next]_all => [A]_(Accounts!accountVars)
    <2> SUFFICES ASSUME Inv, [Next]_all, ~UNCHANGED Accounts!accountVars,
                        NEW r \in Request, call[r] # Failed, call'[r] = Failed
                 PROVE  ~Accounts!Exists(call[r])
      OBVIOUS
    <2>1. Accounts!Next
      BY EachStepsOrRests DEF accounts, Accounts!accountVars
    <2> QED
      BY <2>1, FailureStep DEF Inv, AccountsInv
  <1> QED
    BY <1>1, ServicesKeepInv, PTL
       DEF Spec, FailsOnlyForDeadActor, Accounts!FailsOnlyForDeadActor

\* Between crashes the art that the index accounts for fits the cap, or is one
\* file that is larger by itself: eviction goes on until the sum of the sizes
\* fits, however many files and whatever sizes there are (art-cache.ts).
THEOREM DiskStaysWithinCap == Spec => []DiskWithinCap
  <1>1. Inv => DiskWithinCap
    BY ArtIsRight DEF Inv, DiskWithinCap
  <1> QED
    BY <1>1, ServicesKeepInv, PTL

\* What the art cache serves for a key is the cover it was stored under it, or
\* an entry that a crash tore and no boot has yet reconciled.
THEOREM HitsStayTrue == Spec => []HitsAreTrue
  <1>1. Inv => HitsAreTrue
    BY ArtIsRight DEF Inv, HitsAreTrue
  <1> QED
    BY <1>1, ServicesKeepInv, PTL

\* No reader of the monitor hears "ok" while real streams fail at the threshold,
\* nor once Navidrome has been without audio for longer than a report is cached,
\* whatever the time to live, the timeout and the number of candidate tracks.
THEOREM OutagesShow == Spec => []FaultShows
  <1>1. Inv => FaultShows
    BY DEF Inv, MonitorInv, FaultShows
  <1> QED
    BY <1>1, ServicesKeepInv, PTL

\* Rows that the activity page shows as running are of passes that run or were
\* abandoned, and running passes have their rows unless the owner cleared them,
\* for any number of passes and any retention limit.
THEOREM RunningRowsStaySyncs == Spec => []RunningRowsAreSyncs
  <1>1. Inv => RunningRowsAreSyncs
    BY DEF Inv, LogInv, RunningRowsAreSyncs
  <1> QED
    BY <1>1, ServicesKeepInv, PTL

\* A poll that reads the speaker not stopped never sends it a play of that track,
\* for queues of any length, all modes and any number of disturbances.
THEOREM PollsDoNotStutter == Spec => NoStutter
  <1> DEFINE A == Cast!PollApply =>
       \A r \in requests' \ requests :
         r.op = "play" => ~(poll.read.state # "STOPPED" /\ poll.read.track = r.track)
  <1>1. Inv => A
    BY PollDoesNotPlay DEF Inv
  <1> QED
    BY <1>1, ServicesKeepInv, PTL DEF Spec, NoStutter, Cast!NoStutter
=============================================================================
