------------------------------ MODULE Accounts ------------------------------
(***************************************************************************)
(* Users of the panel, their roles and their sessions.  A JWT carries the  *)
(* role its user had when it was issued and is believed for seven days.    *)
(* Each request reads the row it works on, hashes a password if it carries *)
(* one, and saves the row it read as a whole; /auth/register, which holds  *)
(* the setup key, needs no session.                                        *)
(***************************************************************************)
EXTENDS Naturals, FiniteSets

CONSTANTS
  Email,        \* addresses, normalised
  MaxAccounts,  \* bound on the accounts ever created
  UserCaller    \* requests that may be under way together

ASSUME AccountsAssumption == MaxAccounts \in Nat

VARIABLES
  accounts,  \* accounts[u]: the row of user u; ids grow with created_at
  lastUser,  \* the id of the newest user
  sessions,  \* the JWTs issued
  userCall,  \* userCall[c]: what request c has read and is about to do
  deployKeys \* users owning an API key of the deploy webhook

accountVars == <<accounts, lastUser, sessions, userCall, deployKeys>>

-----------------------------------------------------------------------------
UserId == 1 .. MaxAccounts
UserRole == {"admin", "operator"}
NoUser == [role |-> "none"]
NoUserCall == [at |-> "idle"]

Users == {u \in UserId : accounts[u] # NoUser}
Admins == {u \in Users : accounts[u].role = "admin"}
ByEmail(e) == {u \in Users : accounts[u].email = e}
Token(u, role) == [user |-> u, role |-> role]
IsAdminSession(t) == t \in sessions /\ t.role = "admin"
Finish(c) == userCall' = [userCall EXCEPT ![c] = NoUserCall]
Continue(c, at) == userCall' = [userCall EXCEPT ![c].at = at]
Registering(c) == userCall[c].by = 0

\* TypeORM's save: the whole row read, inserted again when it is gone; the
\* unique address may refuse it.
Savable(u, row) == \A v \in Users \ {u} : accounts[v].email # row.email
PutAccount(u, row) == accounts' = [accounts EXCEPT ![u] = row]

-----------------------------------------------------------------------------
(* /auth: login, register *)

Login(u) ==
  /\ u \in Users
  /\ sessions' = sessions \cup {Token(u, accounts[u].role)}
  /\ UNCHANGED <<accounts, lastUser, userCall, deployKeys>>

\* register up to the hash: an address that is taken gets a new password.
BeginRegister(c, e) ==
  /\ userCall[c] = NoUserCall
  /\ userCall' = [userCall EXCEPT ![c] =
       IF ByEmail(e) # {} THEN LET u == CHOOSE v \in ByEmail(e) : TRUE IN
            [at |-> "save", user |-> u, row |-> accounts[u], by |-> 0]
       ELSE [at |-> "count", user |-> 0, row |-> [email |-> e, role |-> "none"], by |-> 0]]
  /\ UNCHANGED <<accounts, lastUser, sessions, deployKeys>>

\* The first account, or the first since the last administrator, is one.
CountAdmins(c) ==
  /\ userCall[c].at = "count"
  /\ userCall' = [userCall EXCEPT ![c].at = "save",
                  ![c].row.role = IF Admins = {} THEN "admin" ELSE "operator"]
  /\ UNCHANGED <<accounts, lastUser, sessions, deployKeys>>

-----------------------------------------------------------------------------
(* /users, under RolesGuard: the session's role decides, not the row's *)

BeginCreateUser(c, t, e, role) ==
  /\ userCall[c] = NoUserCall /\ IsAdminSession(t) /\ ByEmail(e) = {}
  /\ userCall' = [userCall EXCEPT ![c] =
       [at |-> "save", user |-> 0, row |-> [email |-> e, role |-> role], by |-> t.user]]
  /\ UNCHANGED <<accounts, lastUser, sessions, deployKeys>>

\* update reads the row; nobody takes the role of admin from themself.
BeginUpdateUser(c, t, u, role) ==
  /\ userCall[c] = NoUserCall /\ IsAdminSession(t) /\ u \in Users
  /\ ~(role # accounts[u].role /\ u = t.user /\ role # "admin")
  /\ userCall' = [userCall EXCEPT ![c] =
       [at |-> IF accounts[u].role = "admin" /\ role = "operator" THEN "demote" ELSE "save",
        user |-> u, row |-> [accounts[u] EXCEPT !.role = role], by |-> t.user]]
  /\ UNCHANGED <<accounts, lastUser, sessions, deployKeys>>

BeginRemoveUser(c, t, u) ==
  /\ userCall[c] = NoUserCall /\ IsAdminSession(t) /\ u \in Users /\ u # t.user
  /\ userCall' = [userCall EXCEPT ![c] =
       [at |-> IF accounts[u].role = "admin" THEN "removeAdmin" ELSE "delete",
        user |-> u, row |-> accounts[u], by |-> t.user]]
  /\ UNCHANGED <<accounts, lastUser, sessions, deployKeys>>

\* assertNotLastAdmin
IsLastAdmin(u) == Cardinality(Admins) <= 1 /\ u \in Admins
\* Mutant of NotLastAdmin: the session's own role is what counts.
NotLastAsked(c) == userCall[c].by # userCall[c].user
NotLastAdmin(c) == ~IsLastAdmin(userCall[c].user)

CheckLastAdmin(c) ==
  /\ userCall[c].at \in {"demote", "removeAdmin"}
  /\ IF ~NotLastAdmin(c) THEN Finish(c)
     ELSE Continue(c, IF userCall[c].at = "demote" THEN "save" ELSE "delete")
  /\ UNCHANGED <<accounts, lastUser, sessions, deployKeys>>

DeleteUser(c) ==
  /\ userCall[c].at = "delete"
  /\ PutAccount(userCall[c].user, NoUser)
  /\ deployKeys' = deployKeys \ {userCall[c].user}
  /\ Finish(c) /\ UNCHANGED <<lastUser, sessions>>

SaveUser(c) ==
  /\ userCall[c].at = "save"
  /\ LET new == userCall[c].user = 0
         u == IF new THEN lastUser + 1 ELSE userCall[c].user
         row == userCall[c].row IN
     /\ new => lastUser < MaxAccounts
     /\ IF Savable(u, row)
        THEN /\ PutAccount(u, row)
             /\ lastUser' = IF new THEN u ELSE lastUser
             /\ sessions' = IF Registering(c) THEN sessions \cup {Token(u, row.role)} ELSE sessions
        ELSE UNCHANGED <<accounts, lastUser, sessions>>
  /\ Finish(c) /\ UNCHANGED deployKeys

-----------------------------------------------------------------------------
(* /api-keys, a session's expiry and a restart of the API *)

CreateDeployKey(t) ==
  /\ IsAdminSession(t) /\ t.user \in Users
  /\ deployKeys' = deployKeys \cup {t.user}
  /\ UNCHANGED <<accounts, lastUser, sessions, userCall>>

Expired(t) ==
  /\ t \in sessions
  /\ sessions' = sessions \ {t}
  /\ UNCHANGED <<accounts, lastUser, userCall, deployKeys>>

\* onModuleInit makes the oldest user an administrator when there is none.
RestartApi ==
  /\ accounts' = IF Admins # {} \/ Users = {} THEN accounts
                 ELSE [accounts EXCEPT ![CHOOSE u \in Users : \A v \in Users : u <= v].role = "admin"]
  /\ userCall' = [c \in UserCaller |-> NoUserCall]
  /\ UNCHANGED <<lastUser, sessions, deployKeys>>

-----------------------------------------------------------------------------
AccountsInit ==
  /\ accounts = [u \in UserId |-> NoUser]
  /\ lastUser = 0 /\ sessions = {} /\ deployKeys = {}
  /\ userCall = [c \in UserCaller |-> NoUserCall]

UserRequest(c) ==
  \/ \E e \in Email : BeginRegister(c, e)
  \/ CountAdmins(c)
  \/ \E t \in sessions, e \in Email, role \in UserRole : BeginCreateUser(c, t, e, role)
  \/ \E t \in sessions, u \in Users, role \in UserRole : BeginUpdateUser(c, t, u, role)
  \/ \E t \in sessions, u \in Users : BeginRemoveUser(c, t, u)
  \/ CheckLastAdmin(c) \/ DeleteUser(c) \/ SaveUser(c)

AccountsNext ==
  \/ \E c \in UserCaller : UserRequest(c)
  \/ \E u \in Users : Login(u)
  \/ \E t \in sessions : CreateDeployKey(t) \/ Expired(t)
  \/ RestartApi

AccountsSpec == AccountsInit /\ [][AccountsNext]_accountVars

-----------------------------------------------------------------------------
AccountRow == [email : Email, role : UserRole]

\* Type invariant: rows, sessions, keys and requests have the shapes the code
\* gives them, and the addresses of the users table are unique.
AccountsTypeOK ==
  /\ accounts \in [UserId -> AccountRow \cup {NoUser}]
  /\ \A u, v \in Users : accounts[u].email = accounts[v].email => u = v
  /\ lastUser \in 0 .. MaxAccounts
  /\ sessions \subseteq [user : UserId, role : UserRole]
  /\ deployKeys \subseteq Users
  /\ \A c \in UserCaller : userCall[c].at \in
       {"idle", "count", "demote", "removeAdmin", "delete", "save"}

\* Once there is a user there is an administrator: no sequence of
\* registrations, role changes and removals, by sessions whose roles are out
\* of date too, leaves the panel without one (users.service.ts:111 refuses "o
\* ultimo administrador").
AdminRemains == Users # {} => Admins # {}

=============================================================================
