------------------------------- MODULE Identity -------------------------------
(***************************************************************************)
(* Accounts, roles and login sessions: app_user, app_role with its links,  *)
(* and user_session.  Every request authenticates once, at its beginning,  *)
(* reads what it needs, and commits later; under READ COMMITTED other      *)
(* requests commit in between.  A request is therefore a Begin..., for     *)
(* some a Statement (an UPDATE or DELETE that sees the rows of its own     *)
(* moment), and the action that commits.                                   *)
(***************************************************************************)
EXTENDS Naturals

CONSTANTS
  Users, Bootstrap,   \* accounts; the one a first start creates
  Roles, Admin,       \* roles; the system role
  Delegable,          \* permissions administrators give to roles of their own
  Sessions,           \* rows of user_session
  Parties,            \* concurrent requests and starting API processes
  MaxResets           \* bound on password resets

Permissions == {"user.manage", "role.manage"}

ASSUMPTION NamesExist == Bootstrap \in Users /\ Admin \in Roles
ASSUMPTION DelegableIsSet == Delegable \in SUBSET Permissions
ASSUMPTION RolesAreNotPermissions == Roles \intersect Permissions = {}
ASSUMPTION ResetsAreBounded == MaxResets \in Nat

VARIABLES
  user,          \* the rows of app_user
  role,          \* the rows of app_role with their permissions
  session,       \* the rows of user_session
  req,           \* the open request of each party
  accountClash,  \* users about whose account two requests were open at once
  adminClash     \* whether two requests that change users' roles were open at once

tables == <<user, role, session>>
clashes == <<accountClash, adminClash>>
vars == <<tables, req, clashes>>

-----------------------------------------------------------------------------
(* Rows and requests *)

User == [known : BOOLEAN, active : BOOLEAN, password : Nat, roles : SUBSET Roles]
Role == [known : BOOLEAN, active : BOOLEAN, grants : SUBSET Permissions]

\* A revoked or expired row counts for nothing any more and is as good as none.
Session == [live : BOOLEAN, user : Users, password : Nat]

NoUser == [known |-> FALSE, active |-> FALSE, password |-> 0, roles |-> {}]
NoRole == [known |-> FALSE, active |-> FALSE, grants |-> {}]
NoSession == [live |-> FALSE, user |-> Bootstrap, password |-> 0]

\* Requests that change who may sign in as a user, and those that change what users may do.
AccountKinds == {"login", "status", "reset"}
AdminKinds == {"seed", "create", "status", "roles", "newRole", "roleStatus", "permissions", "deleteRole"}

\* loaded: the value of the column as it was read; flag: as requested; wanted: the roles
\* or permissions requested; gone, links: the rows a Statement has revoked or deleted.
Request == [kind : {"idle"} \union AccountKinds \union AdminKinds,
            user : Users, role : Roles,
            loaded : BOOLEAN, flag : BOOLEAN, password : Nat,
            wanted : SUBSET (Roles \union Permissions),
            ready : BOOLEAN, gone : SUBSET Sessions, links : SUBSET (Roles \union Permissions)]

Idle == [kind |-> "idle", user |-> Bootstrap, role |-> Admin,
         loaded |-> FALSE, flag |-> FALSE, password |-> 0, wanted |-> {},
         ready |-> FALSE, gone |-> {}, links |-> {}]

Live(u) == {s \in Sessions : session[s].live /\ session[s].user = u}

\* An inactive role gives nothing; the system role gives everything.
Has(u, permission) ==
  \E r \in user[u].roles :
     role[r].known /\ role[r].active /\ (r = Admin \/ permission \in role[r].grants)

IsAdmin(u) == Admin \in user[u].roles /\ role[Admin].known /\ role[Admin].active

\* A session counts as long as its user is active.
Authenticated(u) == Live(u) # {} /\ user[u].known /\ user[u].active

MayCall(u, permission) == Authenticated(u) /\ Has(u, permission)

Ended(S) == [s \in Sessions |-> IF s \in S THEN NoSession ELSE session[s]]

\* An UPDATE of the ORM sets a column only if it differs from what was read.
Set(current, loaded, requested) == IF requested = loaded THEN current ELSE requested

-----------------------------------------------------------------------------
(* The life of a request *)

Others(p, kinds) == {q \in Parties \ {p} : req[q].kind \in kinds}

\* Keeps in accountClash and adminClash what r meets.
Open(p, r) ==
  /\ req[p].kind = "idle"
  /\ req' = [req EXCEPT ![p] = r]
  /\ accountClash' = accountClash \union
       {u \in Users : r.kind \in AccountKinds /\ u = r.user
                        /\ \E q \in Others(p, AccountKinds) : req[q].user = u}
  /\ adminClash' = (adminClash \/ (r.kind \in AdminKinds /\ Others(p, AdminKinds) # {}))
  /\ UNCHANGED tables

Close(p) == req' = [req EXCEPT ![p] = Idle]

Committing(p, kind) ==
  /\ req[p].kind = kind
  /\ req[p].ready
  /\ Close(p)
  /\ UNCHANGED clashes

\* A validation error, an IntegrityError, or the end of the process.
Abort(p) ==
  /\ req[p].kind # "idle"
  /\ Close(p)
  /\ UNCHANGED <<tables, clashes>>

\* Variant: a new sign-in leaves the sessions of the user alone.
Revoked_NotOnLogin(r) == IF r.kind = "login" THEN {} ELSE Live(r.user)

\* Variant: only a change of status ends sessions.
Revoked_NotOnReset(r) == IF r.kind = "reset" THEN {} ELSE Live(r.user)

\* revoke_active_sessions_for_user: every session of the user that is live by now.
Revoked(r) == Live(r.user)

Revoke(p) ==
  /\ req[p].kind \in AccountKinds
  /\ ~req[p].ready
  /\ req' = [req EXCEPT ![p].ready = TRUE, ![p].gone = Revoked(req[p])]
  /\ UNCHANGED <<tables, clashes>>

\* delete(UserRole) or delete(RolePermission): the links there are by now.
DeleteLinks(p) ==
  /\ ~req[p].ready
  /\ \/ req[p].kind = "roles" /\ req' = [req EXCEPT ![p].ready = TRUE, ![p].links = user[req[p].user].roles]
     \/ req[p].kind = "permissions" /\ req' = [req EXCEPT ![p].ready = TRUE, ![p].links = role[req[p].role].grants]
  /\ UNCHANGED <<tables, clashes>>
-----------------------------------------------------------------------------
(* Signing in and out *)

\* The password was compared with the hash as it was read.
BeginLogin(p) ==
  \E u \in Users :
     /\ user[u].known /\ user[u].active
     /\ Open(p, [Idle EXCEPT !.kind = "login", !.user = u, !.password = user[u].password])

\* The token is random and its hash unique, so the row is one nobody has read.
Login(p) ==
  /\ Committing(p, "login")
  /\ \E s \in Sessions :
       /\ ~session[s].live /\ \A q \in Parties : s \notin req[q].gone
       /\ session' = [Ended(req[p].gone) EXCEPT
                        ![s] = [live |-> TRUE, user |-> req[p].user, password |-> req[p].password]]
  /\ UNCHANGED <<user, role>>

\* Of the row of the cookie; a session that expires ends in the same way.
Logout ==
  /\ \E s \in Sessions : session[s].live /\ session' = Ended({s})
  /\ UNCHANGED <<user, role, req, clashes>>

-----------------------------------------------------------------------------
(* Administration of users *)

\* ensure_roles_exist: at least one, all of them active.
Assignable == {R \in SUBSET Roles : R # {} /\ \A r \in R : role[r].known /\ role[r].active}

\* The foreign key of app_user_role.
LinksExist(R) == \A r \in R : role[r].known

BeginCreate(p) ==
  \E a, u \in Users, R \in Assignable, flag \in BOOLEAN :
     /\ MayCall(a, "user.manage")
     /\ ~user[u].known
     /\ Open(p, [Idle EXCEPT !.kind = "create", !.user = u, !.wanted = R,
                             !.flag = flag, !.ready = TRUE])

CreateUser(p) ==
  /\ Committing(p, "create")
  /\ ~user[req[p].user].known
  /\ LinksExist(req[p].wanted)
  /\ user' = [user EXCEPT ![req[p].user] =
                [known |-> TRUE, active |-> req[p].flag, password |-> 0, roles |-> req[p].wanted]]
  /\ UNCHANGED <<role, session>>

\* Variant: administrators may deactivate themselves.
BeginStatus_Self(p) ==
  \E a, u \in Users, flag \in BOOLEAN :
     /\ MayCall(a, "user.manage")
     /\ user[u].known
     /\ Open(p, [Idle EXCEPT !.kind = "status", !.user = u, !.loaded = user[u].active,
                             !.flag = flag, !.ready = flag])

\* Nobody deactivates the account they act with.
BeginStatus(p) ==
  \E a, u \in Users, flag \in BOOLEAN :
     /\ MayCall(a, "user.manage")
     /\ user[u].known
     /\ a = u => flag
     /\ Open(p, [Idle EXCEPT !.kind = "status", !.user = u, !.loaded = user[u].active,
                             !.flag = flag, !.ready = flag])

UpdateStatus(p) ==
  /\ Committing(p, "status")
  /\ user' = [user EXCEPT ![req[p].user].active = Set(@, req[p].loaded, req[p].flag)]
  /\ session' = Ended(req[p].gone)
  /\ UNCHANGED role

BeginReset(p) ==
  \E a, u \in Users :
     /\ MayCall(a, "user.manage")
     /\ user[u].known /\ user[u].password < MaxResets
     /\ Open(p, [Idle EXCEPT !.kind = "reset", !.user = u])

ResetPassword(p) ==
  /\ Committing(p, "reset")
  /\ user' = [user EXCEPT ![req[p].user].password = @ + 1]
  /\ session' = Ended(req[p].gone)
  /\ UNCHANGED role

\* Nobody takes the role of administrator from the account they act with.
BeginRoles(p) ==
  \E a, u \in Users, R \in Assignable :
     /\ MayCall(a, "user.manage")
     /\ user[u].known
     /\ a = u /\ IsAdmin(u) => Admin \in R
     /\ Open(p, [Idle EXCEPT !.kind = "roles", !.user = u, !.wanted = R])

\* Links that another request has added since are kept; adding one that is there fails.
UpdateRoles(p) ==
  LET kept == user[req[p].user].roles \ req[p].links
  IN /\ Committing(p, "roles")
     /\ LinksExist(req[p].wanted)
     /\ kept \intersect req[p].wanted = {}
     /\ user' = [user EXCEPT ![req[p].user].roles = kept \union req[p].wanted]
     /\ UNCHANGED <<role, session>>

-----------------------------------------------------------------------------
(* Administration of roles; the system role is protected *)

BeginNewRole(p) ==
  \E a \in Users, r \in Roles \ {Admin}, flag \in BOOLEAN :
     /\ MayCall(a, "role.manage")
     /\ ~role[r].known
     /\ Open(p, [Idle EXCEPT !.kind = "newRole", !.role = r, !.flag = flag, !.ready = TRUE])

CreateRole(p) ==
  /\ Committing(p, "newRole")
  /\ ~role[req[p].role].known
  /\ role' = [role EXCEPT ![req[p].role] = [known |-> TRUE, active |-> req[p].flag, grants |-> {}]]
  /\ UNCHANGED <<user, session>>

\* An inactive system role can be activated, which changes nothing: it is never inactive.
BeginRoleStatus(p) ==
  \E a \in Users, r \in Roles, flag \in BOOLEAN :
     /\ MayCall(a, "role.manage")
     /\ role[r].known
     /\ r = Admin => flag
     /\ Open(p, [Idle EXCEPT !.kind = "roleStatus", !.role = r, !.loaded = role[r].active,
                             !.flag = flag, !.ready = TRUE])

UpdateRoleStatus(p) ==
  /\ Committing(p, "roleStatus")
  /\ role[req[p].role].known
  /\ role' = [role EXCEPT ![req[p].role].active = Set(@, req[p].loaded, req[p].flag)]
  /\ UNCHANGED <<user, session>>

BeginPermissions(p) ==
  \E a \in Users, r \in Roles \ {Admin}, G \in SUBSET Delegable :
     /\ MayCall(a, "role.manage")
     /\ role[r].known
     /\ Open(p, [Idle EXCEPT !.kind = "permissions", !.role = r, !.wanted = G])

UpdatePermissions(p) ==
  LET kept == role[req[p].role].grants \ req[p].links
  IN /\ Committing(p, "permissions")
     /\ role[req[p].role].known
     /\ kept \intersect req[p].wanted = {}
     /\ role' = [role EXCEPT ![req[p].role].grants = kept \union req[p].wanted]
     /\ UNCHANGED <<user, session>>

\* Variant: a role may be deleted under its users.
BeginDeleteRole_Bound(p) ==
  \E a \in Users, r \in Roles \ {Admin} :
     /\ MayCall(a, "role.manage")
     /\ role[r].known
     /\ Open(p, [Idle EXCEPT !.kind = "deleteRole", !.role = r, !.ready = TRUE])

Assigned(r) == {u \in Users : r \in user[u].roles}

\* The users are counted before the role is deleted.
BeginDeleteRole(p) ==
  \E a \in Users, r \in Roles \ {Admin} :
     /\ MayCall(a, "role.manage")
     /\ role[r].known
     /\ Assigned(r) = {}
     /\ Open(p, [Idle EXCEPT !.kind = "deleteRole", !.role = r, !.ready = TRUE])

\* ON DELETE CASCADE takes the links there are by now along.
DeleteRole(p) ==
  /\ Committing(p, "deleteRole")
  /\ role' = [role EXCEPT ![req[p].role] = NoRole]
  /\ user' = [u \in Users |-> [user[u] EXCEPT !.roles = @ \ {req[p].role}]]
  /\ UNCHANGED session
-----------------------------------------------------------------------------
(* Start of an API process *)

\* loaded: the system role is there; flag: so is some user.
BeginSeed(p) ==
  Open(p, [Idle EXCEPT !.kind = "seed", !.loaded = role[Admin].known,
                       !.flag = \E u \in Users : user[u].known, !.ready = TRUE])

\* The system role with all permissions of the catalogue.
SeededRole == [known |-> TRUE, active |-> TRUE, grants |-> Permissions]

\* ensure_identity_seeded; names are unique, so one of two first starts fails.
Seed(p) ==
  /\ Committing(p, "seed")
  /\ req[p].loaded \/ ~role[Admin].known
  /\ req[p].flag \/ ~user[Bootstrap].known
  /\ role' = [role EXCEPT ![Admin] = SeededRole]
  /\ user' = IF req[p].flag THEN user
             ELSE [user EXCEPT ![Bootstrap] = [known |-> TRUE, active |-> TRUE, password |-> 0, roles |-> {Admin}]]
  /\ UNCHANGED session

-----------------------------------------------------------------------------
Init ==
  /\ user = [u \in Users |-> NoUser]
  /\ role = [r \in Roles |-> NoRole]
  /\ session = [s \in Sessions |-> NoSession]
  /\ req = [p \in Parties |-> Idle]
  /\ accountClash = {}
  /\ adminClash = FALSE

Begin(p) ==
  \/ BeginLogin(p) \/ BeginCreate(p) \/ BeginStatus(p) \/ BeginReset(p) \/ BeginRoles(p)
  \/ BeginNewRole(p) \/ BeginRoleStatus(p) \/ BeginPermissions(p) \/ BeginDeleteRole(p) \/ BeginSeed(p)

Statement(p) == Revoke(p) \/ DeleteLinks(p)

Commit(p) ==
  \/ Login(p) \/ CreateUser(p) \/ UpdateStatus(p) \/ ResetPassword(p) \/ UpdateRoles(p)
  \/ CreateRole(p) \/ UpdateRoleStatus(p) \/ UpdatePermissions(p) \/ DeleteRole(p) \/ Seed(p)

Next ==
  \/ \E p \in Parties : Begin(p) \/ Statement(p) \/ Commit(p) \/ Abort(p)
  \/ Logout

Spec == Init /\ [][Next]_vars

-----------------------------------------------------------------------------
TypeOK ==
  /\ user \in [Users -> User]
  /\ role \in [Roles -> Role]
  /\ session \in [Sessions -> Session]
  /\ req \in [Parties -> Request]
  /\ accountClash \in SUBSET Users
  /\ adminClash \in BOOLEAN

\* A user has one current session, whatever browsers sign in: the newest.  Sign-ins of one
\* user that overlap are the exception.
OneSession ==
  \A u \in Users \ accountClash : \A s, t \in Live(u) : s = t

\* A live session was opened with the password its user has now, and its user is active:
\* resets and deactivations end every session from before, and none comes back with a later
\* activation, unless a sign-in was under way.
SessionsAreCurrent ==
  \A u \in Users \ accountClash : \A s \in Live(u) :
     user[u].active /\ session[s].password = user[u].password

\* Someone can always administer the system: where only administrators manage users and
\* one request at a time changes users and roles, an active administrator remains.
AdminRemains ==
  ("user.manage" \notin Delegable /\ ~adminClash /\ \E u \in Users : user[u].known) =>
     \E u \in Users : user[u].known /\ user[u].active /\ IsAdmin(u)

\* Every user keeps at least one role, through role updates and the deletion of roles.
EveryUserHasRole ==
  ~adminClash => \A u \in Users : user[u].known => user[u].roles # {}
=============================================================================
