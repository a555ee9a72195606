---------------------------- MODULE Identity_proofs ----------------------------
(* What holds of Identity for any accounts, roles and sessions, and for any      *)
(* number of requests that overlap.                                              *)
EXTENDS Identity, TLAPS

\* What a request keeps from the checks at its beginning.
Sound(r) ==
  /\ r.kind \in {"create", "roles"} => r.wanted \in SUBSET Roles /\ r.wanted # {}
  /\ r.kind = "permissions" => r.wanted \in SUBSET Delegable
  /\ r.kind \in {"newRole", "permissions", "deleteRole"} => r.role # Admin
  /\ r.kind = "roleStatus" /\ r.role = Admin => r.flag

RequestsSound == \A p \in Parties : Sound(req[p])

TypeInv == TypeOK /\ RequestsSound

-----------------------------------------------------------------------------
(* Types *)

LEMMA IdleType == Idle \in Request /\ Sound(Idle)
BY NamesExist DEF Idle, Request, Sound

LEMMA EndedType ==
  ASSUME TypeOK, NEW S
  PROVE  Ended(S) \in [Sessions -> Session]
<1>1. NoSession \in Session
  BY NamesExist DEF NoSession, Session
<1> QED BY <1>1 DEF Ended, TypeOK

\* A request that opens is typed, and nothing else changes.
LEMMA OpenType ==
  ASSUME TypeInv, NEW p \in Parties, NEW r \in Request, Sound(r), Open(p, r)
  PROVE  TypeInv'
<1>1. TypeOK' BY DEF TypeInv, TypeOK, Open, tables
<1>2. RequestsSound' BY DEF TypeInv, TypeOK, RequestsSound, Open
<1> QED BY <1>1, <1>2 DEF TypeInv

LEMMA CloseType ==
  ASSUME TypeInv, NEW p \in Parties, Close(p)
  PROVE  req' \in [Parties -> Request] /\ RequestsSound'
BY IdleType DEF TypeInv, TypeOK, Close, RequestsSound

\* The one who acts may manage users.
Keeper(a) == user[a].known /\ user[a].active /\ Has(a, "user.manage")

\* What holds of a request and the tables when it opens.
Fresh(r) ==
  /\ r.kind # "idle" /\ r.gone = {}
  /\ r.kind \in AccountKinds => user[r.user].known /\ (r.ready => r.kind = "status")
  /\ r.kind = "status" => r.ready = r.flag
  /\ r.kind = "login" => user[r.user].active /\ r.password = user[r.user].password
  /\ r.kind = "deleteRole" => Assigned(r.role) = {}
  /\ r.kind \in {"create", "status", "roles"} =>
       \E a \in Users : /\ Keeper(a)
                        /\ r.kind = "status" /\ ~r.flag => a # r.user
                        /\ r.kind = "roles" /\ a = r.user /\ IsAdmin(a) => Admin \in r.wanted

LEMMA Opened ==
  ASSUME TypeInv, NEW p \in Parties, Begin(p)
  PROVE  \E r \in Request : Open(p, r) /\ Sound(r) /\ Fresh(r)
<1>1. CASE BeginLogin(p)
  <2>1. PICK u \in Users :
           /\ Open(p, [Idle EXCEPT !.kind = "login", !.user = u, !.password = user[u].password])
           /\ user[u].known /\ user[u].active
    BY <1>1 DEF BeginLogin
  <2>2. user[u].password \in Nat
    BY DEF TypeInv, TypeOK, User
  <2>3. [Idle EXCEPT !.kind = "login", !.user = u, !.password = user[u].password] \in Request
    BY <2>2, IdleType DEF Request, Idle, AccountKinds, AdminKinds
  <2>4. Sound([Idle EXCEPT !.kind = "login", !.user = u, !.password = user[u].password])
    BY <2>1, <2>2 DEF Sound, Idle
  <2>5. Fresh([Idle EXCEPT !.kind = "login", !.user = u, !.password = user[u].password])
    BY <2>1, <2>2 DEF Fresh, Idle, AccountKinds, MayCall, Authenticated, Keeper
  <2> QED BY <2>1, <2>3, <2>4, <2>5
<1>2. CASE BeginCreate(p)
  <2>1. PICK a, u \in Users, R \in Assignable, flag \in BOOLEAN :
           /\ Open(p, [Idle EXCEPT !.kind = "create", !.user = u, !.wanted = R,
                           !.flag = flag, !.ready = TRUE])
           /\ MayCall(a, "user.manage")
    BY <1>2 DEF BeginCreate
  <2>2. R \in SUBSET Roles /\ R # {}
    BY DEF Assignable
  <2>3. [Idle EXCEPT !.kind = "create", !.user = u, !.wanted = R,
                           !.flag = flag, !.ready = TRUE] \in Request
    BY <2>2, IdleType DEF Request, Idle, AccountKinds, AdminKinds
  <2>4. Sound([Idle EXCEPT !.kind = "create", !.user = u, !.wanted = R,
                           !.flag = flag, !.ready = TRUE])
    BY <2>1, <2>2 DEF Sound, Idle
  <2>5. Fresh([Idle EXCEPT !.kind = "create", !.user = u, !.wanted = R,
                           !.flag = flag, !.ready = TRUE])
    BY <2>1, <2>2 DEF Fresh, Idle, AccountKinds, MayCall, Authenticated, Keeper
  <2> QED BY <2>1, <2>3, <2>4, <2>5
<1>3. CASE BeginStatus(p)
  <2>1. PICK a, u \in Users, flag \in BOOLEAN :
           /\ Open(p, [Idle EXCEPT !.kind = "status", !.user = u, !.loaded = user[u].active,
                           !.flag = flag, !.ready = flag])
           /\ MayCall(a, "user.manage") /\ user[u].known /\ (a = u => flag)
    BY <1>3 DEF BeginStatus
  <2>2. user[u].active \in BOOLEAN
    BY DEF TypeInv, TypeOK, User
  <2>3. [Idle EXCEPT !.kind = "status", !.user = u, !.loaded = user[u].active,
                           !.flag = flag, !.ready = flag] \in Request
    BY <2>2, IdleType DEF Request, Idle, AccountKinds, AdminKinds
  <2>4. Sound([Idle EXCEPT !.kind = "status", !.user = u, !.loaded = user[u].active,
                           !.flag = flag, !.ready = flag])
    BY <2>1, <2>2 DEF Sound, Idle
  <2>5. Fresh([Idle EXCEPT !.kind = "status", !.user = u, !.loaded = user[u].active,
                           !.flag = flag, !.ready = flag])
    BY <2>1, <2>2 DEF Fresh, Idle, AccountKinds, MayCall, Authenticated, Keeper
  <2> QED BY <2>1, <2>3, <2>4, <2>5
<1>4. CASE BeginReset(p)
  <2>1. PICK u \in Users :
           /\ Open(p, [Idle EXCEPT !.kind = "reset", !.user = u])
           /\ user[u].known
    BY <1>4 DEF BeginReset
  <2>2. u \in Users
    OBVIOUS
  <2>3. [Idle EXCEPT !.kind = "reset", !.user = u] \in Request
    BY <2>2, IdleType DEF Request, Idle, AccountKinds, AdminKinds
  <2>4. Sound([Idle EXCEPT !.kind = "reset", !.user = u])
    BY <2>1, <2>2 DEF Sound, Idle
  <2>5. Fresh([Idle EXCEPT !.kind = "reset", !.user = u])
    BY <2>1, <2>2 DEF Fresh, Idle, AccountKinds, MayCall, Authenticated, Keeper
  <2> QED BY <2>1, <2>3, <2>4, <2>5
<1>5. CASE BeginRoles(p)
  <2>1. PICK a, u \in Users, R \in Assignable :
           /\ Open(p, [Idle EXCEPT !.kind = "roles", !.user = u, !.wanted = R])
           /\ MayCall(a, "user.manage") /\ (a = u /\ IsAdmin(u) => Admin \in R)
    BY <1>5 DEF BeginRoles
  <2>2. R \in SUBSET Roles /\ R # {}
    BY DEF Assignable
  <2>3. [Idle EXCEPT !.kind = "roles", !.user = u, !.wanted = R] \in Request
    BY <2>2, IdleType DEF Request, Idle, AccountKinds, AdminKinds
  <2>4. Sound([Idle EXCEPT !.kind = "roles", !.user = u, !.wanted = R])
    BY <2>1, <2>2 DEF Sound, Idle
  <2>5. Fresh([Idle EXCEPT !.kind = "roles", !.user = u, !.wanted = R])
    BY <2>1, <2>2 DEF Fresh, Idle, AccountKinds, MayCall, Authenticated, Keeper
  <2> QED BY <2>1, <2>3, <2>4, <2>5
<1>6. CASE BeginNewRole(p)
  <2>1. PICK r \in Roles \ {Admin}, flag \in BOOLEAN :
           /\ Open(p, [Idle EXCEPT !.kind = "newRole", !.role = r, !.flag = flag, !.ready = TRUE])
    BY <1>6 DEF BeginNewRole
  <2>2. r \in Roles
    OBVIOUS
  <2>3. [Idle EXCEPT !.kind = "newRole", !.role = r, !.flag = flag, !.ready = TRUE] \in Request
    BY <2>2, IdleType DEF Request, Idle, AccountKinds, AdminKinds
  <2>4. Sound([Idle EXCEPT !.kind = "newRole", !.role = r, !.flag = flag, !.ready = TRUE])
    BY <2>1, <2>2 DEF Sound, Idle
  <2>5. Fresh([Idle EXCEPT !.kind = "newRole", !.role = r, !.flag = flag, !.ready = TRUE])
    BY <2>1, <2>2 DEF Fresh, Idle, AccountKinds, MayCall, Authenticated, Keeper
  <2> QED BY <2>1, <2>3, <2>4, <2>5
<1>7. CASE BeginRoleStatus(p)
  <2>1. PICK r \in Roles, flag \in BOOLEAN :
           /\ Open(p, [Idle EXCEPT !.kind = "roleStatus", !.role = r, !.loaded = role[r].active,
                           !.flag = flag, !.ready = TRUE])
           /\ r = Admin => flag
    BY <1>7 DEF BeginRoleStatus
  <2>2. role[r].active \in BOOLEAN
    BY DEF TypeInv, TypeOK, Role
  <2>3. [Idle EXCEPT !.kind = "roleStatus", !.role = r, !.loaded = role[r].active,
                           !.flag = flag, !.ready = TRUE] \in Request
    BY <2>2, IdleType DEF Request, Idle, AccountKinds, AdminKinds
  <2>4. Sound([Idle EXCEPT !.kind = "roleStatus", !.role = r, !.loaded = role[r].active,
                           !.flag = flag, !.ready = TRUE])
    BY <2>1, <2>2 DEF Sound, Idle
  <2>5. Fresh([Idle EXCEPT !.kind = "roleStatus", !.role = r, !.loaded = role[r].active,
                           !.flag = flag, !.ready = TRUE])
    BY <2>1, <2>2 DEF Fresh, Idle, AccountKinds, MayCall, Authenticated, Keeper
  <2> QED BY <2>1, <2>3, <2>4, <2>5
<1>8. CASE BeginPermissions(p)
  <2>1. PICK r \in Roles \ {Admin}, G \in SUBSET Delegable :
           /\ Open(p, [Idle EXCEPT !.kind = "permissions", !.role = r, !.wanted = G])
    BY <1>8 DEF BeginPermissions
  <2>2. G \in SUBSET Permissions
    BY DelegableIsSet
  <2>3. [Idle EXCEPT !.kind = "permissions", !.role = r, !.wanted = G] \in Request
    BY <2>2, IdleType DEF Request, Idle, AccountKinds, AdminKinds
  <2>4. Sound([Idle EXCEPT !.kind = "permissions", !.role = r, !.wanted = G])
    BY <2>1, <2>2 DEF Sound, Idle
  <2>5. Fresh([Idle EXCEPT !.kind = "permissions", !.role = r, !.wanted = G])
    BY <2>1, <2>2 DEF Fresh, Idle, AccountKinds, MayCall, Authenticated, Keeper
  <2> QED BY <2>1, <2>3, <2>4, <2>5
<1>9. CASE BeginDeleteRole(p)
  <2>1. PICK r \in Roles \ {Admin} :
           /\ Open(p, [Idle EXCEPT !.kind = "deleteRole", !.role = r, !.ready = TRUE])
           /\ Assigned(r) = {}
    BY <1>9 DEF BeginDeleteRole
  <2>2. r \in Roles
    OBVIOUS
  <2>3. [Idle EXCEPT !.kind = "deleteRole", !.role = r, !.ready = TRUE] \in Request
    BY <2>2, IdleType DEF Request, Idle, AccountKinds, AdminKinds
  <2>4. Sound([Idle EXCEPT !.kind = "deleteRole", !.role = r, !.ready = TRUE])
    BY <2>1, <2>2 DEF Sound, Idle
  <2>5. Fresh([Idle EXCEPT !.kind = "deleteRole", !.role = r, !.ready = TRUE])
    BY <2>1, <2>2 DEF Fresh, Idle, AccountKinds, MayCall, Authenticated, Keeper
  <2> QED BY <2>1, <2>3, <2>4, <2>5
<1>10. CASE BeginSeed(p)
  <2> DEFINE Seeding(known, some) ==
        [Idle EXCEPT !.kind = "seed", !.loaded = known, !.flag = some, !.ready = TRUE]
  <2>1. \A known, some \in BOOLEAN :
          Seeding(known, some) \in Request
    BY IdleType DEF Request, Idle, AdminKinds
  <2>1a. \A known, some \in BOOLEAN : Sound(Seeding(known, some))
    BY DEF Sound, Idle
  <2>1b. \A known, some \in BOOLEAN : Fresh(Seeding(known, some))
    BY DEF Fresh, Idle, AccountKinds
  <2>2. role[Admin].known \in BOOLEAN
    BY NamesExist DEF TypeInv, TypeOK, Role
  <2>3. (\E u \in Users : user[u].known) \in BOOLEAN
    OBVIOUS
  <2>4. Open(p, Seeding(role[Admin].known, \E u \in Users : user[u].known))
    BY <1>10 DEF BeginSeed
  <2> HIDE DEF Seeding
  <2> QED BY <2>1, <2>1a, <2>1b, <2>2, <2>3, <2>4
<1> QED BY <1>1, <1>2, <1>3, <1>4, <1>5, <1>6, <1>7, <1>8, <1>9, <1>10 DEF Begin

\* A statement keeps the request and notes the rows it has met.
Noted(r, n) ==
  /\ n.kind = r.kind /\ n.user = r.user /\ n.role = r.role /\ n.flag = r.flag
  /\ n.loaded = r.loaded /\ n.password = r.password /\ n.wanted = r.wanted
  /\ r.kind \in AccountKinds => n.gone = Live(r.user)

LEMMA Stated ==
  ASSUME TypeInv, NEW p \in Parties, Statement(p)
  PROVE  \E n \in Request : /\ Noted(req[p], n) /\ ~req[p].ready
                            /\ req[p].kind # "idle"
                            /\ req' = [req EXCEPT ![p] = n]
<1>1. req[p] \in Request /\ req[p].user \in Users /\ req[p].role \in Roles
  BY DEF TypeInv, TypeOK, Request
<1>2. CASE Revoke(p)
  <2> DEFINE n == [req[p] EXCEPT !.ready = TRUE, !.gone = Live(req[p].user)]
  <2>1. Live(req[p].user) \in SUBSET Sessions
    BY DEF Live
  <2>2. n \in Request
    BY <1>1, <2>1 DEF Request
  <2>3. Noted(req[p], n)
    BY <1>1 DEF Noted, Request
  <2>4. req' = [req EXCEPT ![p] = n] /\ ~req[p].ready /\ req[p].kind # "idle"
    BY <1>2 DEF Revoke, Revoked, TypeInv, TypeOK, AccountKinds
  <2> QED BY <2>2, <2>3, <2>4
<1>3. ASSUME NEW L \in SUBSET (Roles \union Permissions), req[p].kind \in {"roles", "permissions"}
      PROVE  /\ [req[p] EXCEPT !.ready = TRUE, !.links = L] \in Request
             /\ Noted(req[p], [req[p] EXCEPT !.ready = TRUE, !.links = L])
  <2>1. [req[p] EXCEPT !.ready = TRUE, !.links = L] \in Request
    BY <1>1 DEF Request
  <2>2. Noted(req[p], [req[p] EXCEPT !.ready = TRUE, !.links = L])
    BY <1>1, <1>3 DEF Noted, Request, AccountKinds
  <2> QED BY <2>1, <2>2
<1>4. CASE DeleteLinks(p)
  <2>1. /\ user[req[p].user].roles \in SUBSET (Roles \union Permissions)
        /\ role[req[p].role].grants \in SUBSET (Roles \union Permissions)
    BY <1>1 DEF TypeInv, TypeOK, User, Role
  <2>2. \E L \in SUBSET (Roles \union Permissions) :
           req' = [req EXCEPT ![p] = [req[p] EXCEPT !.ready = TRUE, !.links = L]]
    BY <1>4, <2>1 DEF DeleteLinks, TypeInv, TypeOK
  <2>3. req[p].kind \in {"roles", "permissions"} /\ ~req[p].ready
    BY <1>4 DEF DeleteLinks
  <2> QED BY <2>2, <2>3, <1>3
<1> QED BY <1>2, <1>4 DEF Statement

LEMMA StatementFrame ==
  ASSUME NEW p, Statement(p)
  PROVE  UNCHANGED <<user, role, session, accountClash, adminClash>>
BY DEF Statement, Revoke, DeleteLinks, tables, clashes

LEMMA StatementType ==
  ASSUME TypeInv, NEW p \in Parties, Statement(p)
  PROVE  TypeInv'
<1>1. UNCHANGED <<user, role, session, accountClash, adminClash>>
  BY StatementFrame
<1>2. PICK n \in Request : Noted(req[p], n) /\ req' = [req EXCEPT ![p] = n]
  BY Stated
<1>3. TypeOK'
  BY <1>1, <1>2 DEF TypeInv, TypeOK
<1>4. Sound(n)
  BY <1>2 DEF TypeInv, RequestsSound, Sound, Noted
<1>5. RequestsSound'
  BY <1>2, <1>4 DEF TypeInv, TypeOK, RequestsSound
<1> QED BY <1>3, <1>5 DEF TypeInv

\* A request that commits, or is given up, is closed.
LEMMA Closes ==
  ASSUME NEW p, Commit(p) \/ Abort(p)
  PROVE  Close(p) /\ UNCHANGED <<accountClash, adminClash>>
BY DEF Commit, Abort, Committing, Login, CreateUser, UpdateStatus, ResetPassword, UpdateRoles,
       CreateRole, UpdateRoleStatus, UpdatePermissions, DeleteRole, Seed, clashes

LEMMA CommitType ==
  ASSUME TypeInv, NEW p \in Parties, Commit(p)
  PROVE  TypeInv'
<1> DEFINE r == req[p]
<1>1. /\ r.user \in Users /\ r.role \in Roles /\ r.flag \in BOOLEAN /\ r.loaded \in BOOLEAN
      /\ r.password \in Nat /\ r.gone \in SUBSET Sessions
  BY DEF TypeInv, TypeOK, Request
<1>2. Ended(r.gone) \in [Sessions -> Session]
  BY EndedType DEF TypeInv
<1>3. /\ req' \in [Parties -> Request] /\ RequestsSound'
      /\ accountClash' \in SUBSET Users /\ adminClash' \in BOOLEAN
  <2>1. Close(p) /\ UNCHANGED <<accountClash, adminClash>>
    BY Closes
  <2> QED BY <2>1, CloseType DEF TypeInv, TypeOK
<1>4. SUFFICES /\ user' \in [Users -> User]
               /\ role' \in [Roles -> Role]
               /\ session' \in [Sessions -> Session]
  BY <1>3 DEF TypeInv, TypeOK
<1>5. user \in [Users -> User] /\ role \in [Roles -> Role] /\ session \in [Sessions -> Session]
  BY DEF TypeInv, TypeOK
<1>6. CASE Login(p)
  <2>1. PICK s \in Sessions :
           session' = [Ended(r.gone) EXCEPT ![s] = [live |-> TRUE, user |-> r.user, password |-> r.password]]
    BY <1>6 DEF Login
  <2>2. [live |-> TRUE, user |-> r.user, password |-> r.password] \in Session
    BY <1>1 DEF Session
  <2>3. session' \in [Sessions -> Session]
    BY <1>2, <2>1, <2>2
  <2> QED BY <1>5, <1>6, <2>3 DEF Login
<1>7. CASE CreateUser(p)
  <2>1. r.wanted \in SUBSET Roles
    BY <1>7 DEF CreateUser, Committing, TypeInv, RequestsSound, Sound
  <2>2. [known |-> TRUE, active |-> r.flag, password |-> 0, roles |-> r.wanted] \in User
    BY <1>1, <2>1 DEF User
  <2> QED BY <1>7, <1>5, <2>2 DEF CreateUser
<1>8. CASE UpdateStatus(p)
  <2>1. Set(user[r.user].active, r.loaded, r.flag) \in BOOLEAN
    BY <1>1, <1>5 DEF Set, User
  <2>2. user' = [user EXCEPT ![r.user] = [user[r.user] EXCEPT !.active = Set(user[r.user].active, r.loaded, r.flag)]]
    BY <1>8, <1>1, <1>5 DEF UpdateStatus
  <2>3. user[r.user] \in User
    BY <1>1, <1>5
  <2>4. [user[r.user] EXCEPT !.active = Set(user[r.user].active, r.loaded, r.flag)] \in User
    BY <2>1, <2>3 DEF User
  <2> QED BY <1>8, <1>5, <1>2, <2>2, <2>4 DEF UpdateStatus
<1>9. CASE ResetPassword(p)
  <2>1. user' = [user EXCEPT ![r.user] = [user[r.user] EXCEPT !.password = user[r.user].password + 1]]
    BY <1>9, <1>1, <1>5 DEF ResetPassword
  <2>2. [user[r.user] EXCEPT !.password = user[r.user].password + 1] \in User
    BY <1>1, <1>5 DEF User
  <2> QED BY <1>9, <1>5, <1>2, <2>1, <2>2 DEF ResetPassword
<1>10. CASE UpdateRoles(p)
  <2>1. r.wanted \in SUBSET Roles
    BY <1>10 DEF UpdateRoles, Committing, TypeInv, RequestsSound, Sound
  <2> DEFINE R == (user[r.user].roles \ r.links) \union r.wanted
  <2>2. user' = [user EXCEPT ![r.user] = [user[r.user] EXCEPT !.roles = R]]
    BY <1>10, <1>1, <1>5 DEF UpdateRoles
  <2>3. R \in SUBSET Roles
    BY <2>1, <1>1, <1>5 DEF User
  <2>4. [user[r.user] EXCEPT !.roles = R] \in User
    BY <1>1, <1>5, <2>3 DEF User
  <2> QED BY <1>10, <1>5, <2>2, <2>4 DEF UpdateRoles
<1>11. CASE CreateRole(p)
  <2>1. [known |-> TRUE, active |-> r.flag, grants |-> {}] \in Role
    BY <1>1 DEF Role
  <2> QED BY <1>11, <1>5, <2>1 DEF CreateRole
<1>12. CASE UpdateRoleStatus(p)
  <2>1. Set(role[r.role].active, r.loaded, r.flag) \in BOOLEAN
    BY <1>1, <1>5 DEF Set, Role
  <2>2. role' = [role EXCEPT ![r.role] = [role[r.role] EXCEPT !.active = Set(role[r.role].active, r.loaded, r.flag)]]
    BY <1>12, <1>1, <1>5 DEF UpdateRoleStatus
  <2>3. role[r.role] \in Role
    BY <1>1, <1>5
  <2>4. [role[r.role] EXCEPT !.active = Set(role[r.role].active, r.loaded, r.flag)] \in Role
    BY <2>1, <2>3 DEF Role
  <2> QED BY <1>12, <1>5, <2>2, <2>4 DEF UpdateRoleStatus
<1>13. CASE UpdatePermissions(p)
  <2>1. r.wanted \in SUBSET Permissions
    BY <1>13, DelegableIsSet DEF UpdatePermissions, Committing, TypeInv, RequestsSound, Sound
  <2> DEFINE G == (role[r.role].grants \ r.links) \union r.wanted
  <2>2. role' = [role EXCEPT ![r.role] = [role[r.role] EXCEPT !.grants = G]]
    BY <1>13, <1>1, <1>5 DEF UpdatePermissions
  <2>3. G \in SUBSET Permissions
    BY <2>1, <1>1, <1>5 DEF Role
  <2>4. [role[r.role] EXCEPT !.grants = G] \in Role
    BY <1>1, <1>5, <2>3 DEF Role
  <2> QED BY <1>13, <1>5, <2>2, <2>4 DEF UpdatePermissions
<1>14. CASE DeleteRole(p)
  <2>1. NoRole \in Role
    BY DEF NoRole, Role
  <2>2. \A u \in Users : [user[u] EXCEPT !.roles = @ \ {r.role}] \in User
    BY <1>5 DEF User
  <2> QED BY <1>14, <1>5, <2>1, <2>2 DEF DeleteRole
<1>15. CASE Seed(p)
  <2>1. SeededRole \in Role
    BY DEF SeededRole, Role
  <2>2. [known |-> TRUE, active |-> TRUE, password |-> 0, roles |-> {Admin}] \in User
    BY NamesExist DEF User
  <2> QED BY <1>15, <1>5, <2>1, <2>2 DEF Seed
<1> QED BY <1>6, <1>7, <1>8, <1>9, <1>10, <1>11, <1>12, <1>13, <1>14, <1>15 DEF Commit

LEMMA TypeStep ==
  ASSUME TypeInv, [Next]_vars
  PROVE  TypeInv'
<1>1. ASSUME NEW p \in Parties, Begin(p) PROVE TypeInv'
  BY <1>1, Opened, OpenType
<1>2. ASSUME NEW p \in Parties, Statement(p) PROVE TypeInv'
  BY <1>2, StatementType
<1>3. ASSUME NEW p \in Parties, Commit(p) PROVE TypeInv'
  BY <1>3, CommitType
<1>4. ASSUME NEW p \in Parties, Abort(p) PROVE TypeInv'
  <2>1. Close(p) /\ UNCHANGED <<user, role, session, accountClash, adminClash>>
    BY <1>4 DEF Abort, tables, clashes
  <2> QED BY <2>1, CloseType DEF TypeInv, TypeOK
<1>5. CASE Logout
  <2>1. session' \in [Sessions -> Session]
    BY <1>5, EndedType DEF Logout, TypeInv
  <2> QED BY <1>5, <2>1 DEF Logout, TypeInv, TypeOK, RequestsSound, clashes
<1>6. CASE UNCHANGED vars
  BY <1>6 DEF vars, tables, clashes, TypeInv, TypeOK, RequestsSound
<1> QED BY <1>1, <1>2, <1>3, <1>4, <1>5, <1>6 DEF Next

LEMMA TypeInit == Init => TypeInv
<1>1. NoUser \in User /\ NoRole \in Role /\ NoSession \in Session
  BY NamesExist DEF NoUser, User, NoRole, Role, NoSession, Session
<1> QED BY <1>1, IdleType DEF Init, TypeInv, TypeOK, RequestsSound

\* Rows, sessions and open requests keep their types, and from its beginning to its end a request
\* asks for no more than its guards let through: some role for a user, permissions that may be
\* delegated, and of the system role nothing but that it stay active.
THEOREM TypeCorrect == Spec => [](TypeOK /\ RequestsSound)
<1>1. TypeInv <=> TypeOK /\ RequestsSound
  BY DEF TypeInv
<1> QED BY <1>1, TypeInit, TypeStep, PTL DEF Spec
-----------------------------------------------------------------------------
(* Sessions *)

\* Requests about one account do not overlap, or the account is marked.
Apart ==
  \A p, q \in Parties :
    p # q /\ req[p].kind \in AccountKinds /\ req[q].kind \in AccountKinds
    /\ req[p].user = req[q].user => req[p].user \in accountClash

\* A request that has revoked sessions has met all there are still; a sign-in has compared the
\* password there is.
Held(u) ==
  \A p \in Parties : req[p].kind \in AccountKinds /\ req[p].user = u =>
    /\ user[u].known
    /\ req[p].ready /\ ~(req[p].kind = "status" /\ req[p].flag) => Live(u) \subseteq req[p].gone
    /\ req[p].kind = "login" => user[u].active /\ req[p].password = user[u].password

\* A live session belongs to a known user, is the only one and current.
Current(u) ==
  /\ Live(u) # {} => user[u].known
  /\ \A s, t \in Live(u) : s = t
  /\ \A s \in Live(u) : user[u].active /\ session[s].password = user[u].password

SessionInv == Apart /\ \A u \in Users \ accountClash : Held(u) /\ Current(u)

\* One request at a time opens, with what is Fresh.
LEMMA SessionOpen ==
  ASSUME TypeInv, SessionInv, NEW p \in Parties, NEW r \in Request, Open(p, r), Fresh(r)
  PROVE  SessionInv'
<1>1. /\ req' = [req EXCEPT ![p] = r] /\ req[p].kind = "idle"
      /\ UNCHANGED <<user, role, session>>
      /\ accountClash \subseteq accountClash'
      /\ r.kind \in AccountKinds =>
           \A q \in Parties \ {p} : req[q].kind \in AccountKinds /\ req[q].user = r.user => r.user \in accountClash'
  BY DEF Open, tables, Others, Request
<1>2. \A q \in Parties : req'[q] = IF q = p THEN r ELSE req[q]
  BY <1>1 DEF TypeInv, TypeOK
<1>3. Apart'
  <2>1. \A q, t \in Parties : q # t /\ q # p /\ t # p => Apart!(q, t)'
    BY <1>1, <1>2 DEF SessionInv, Apart
  <2> QED BY <2>1, <1>1, <1>2 DEF Apart
<1>4. ASSUME NEW u \in Users \ accountClash' PROVE Held(u)' /\ Current(u)'
  <2>1. u \in Users \ accountClash /\ Live(u)' = Live(u)
    BY <1>1 DEF Live
  <2>2. Current(u)'
    BY <2>1, <1>1 DEF SessionInv, Current
  <2>3. Held(u)'
    BY <2>1, <1>1, <1>2 DEF SessionInv, Held, Fresh, AccountKinds
  <2> QED BY <2>2, <2>3
<1> QED BY <1>3, <1>4 DEF SessionInv

LEMMA SessionStatement ==
  ASSUME TypeInv, SessionInv, NEW p \in Parties, Statement(p)
  PROVE  SessionInv'
<1>1. UNCHANGED <<user, role, session, accountClash, adminClash>>
  BY StatementFrame
<1>2. PICK n \in Request : Noted(req[p], n) /\ ~req[p].ready /\ req' = [req EXCEPT ![p] = n]
  BY Stated
<1>3. \A q \in Parties : req'[q] = IF q = p THEN n ELSE req[q]
  BY <1>2 DEF TypeInv, TypeOK
<1>4. \A q \in Parties : req'[q].kind = req[q].kind /\ req'[q].user = req[q].user
  BY <1>2, <1>3 DEF Noted
<1>5. Apart'
  BY <1>1, <1>4 DEF SessionInv, Apart
<1>6. ASSUME NEW u \in Users \ accountClash' PROVE Held(u)' /\ Current(u)'
  <2>1. u \in Users \ accountClash /\ Live(u)' = Live(u)
    BY <1>1 DEF Live
  <2>2. Current(u)'
    BY <2>1, <1>1 DEF SessionInv, Current
  <2>3. Held(u)'
    BY <2>1, <1>1, <1>2, <1>3 DEF SessionInv, Held, Noted
  <2> QED BY <2>2, <2>3
<1> QED BY <1>5, <1>6 DEF SessionInv

\* What closing leaves of the other requests.
LEMMA CloseRest ==
  ASSUME TypeInv, SessionInv, NEW p \in Parties, Close(p), UNCHANGED accountClash
  PROVE  /\ Apart'
         /\ \A q \in Parties : req'[q].kind \in AccountKinds => q # p /\ req'[q] = req[q]
<1>1. \A q \in Parties : req'[q] = IF q = p THEN Idle ELSE req[q]
  BY DEF Close, TypeInv, TypeOK
<1>2. \A q \in Parties : req'[q].kind \in AccountKinds => q # p /\ req'[q] = req[q]
  BY <1>1 DEF Idle, AccountKinds
<1> QED BY <1>2 DEF SessionInv, Apart

\* A request that leaves sessions, passwords and status as they are.
LEMMA SessionQuiet ==
  ASSUME TypeInv, SessionInv, NEW p \in Parties, Close(p),
         UNCHANGED <<session, accountClash>>,
         \A u \in Users : user[u].known =>
           user'[u].known /\ user'[u].active = user[u].active /\ user'[u].password = user[u].password
  PROVE  SessionInv'
<1>1. /\ Apart'
      /\ \A q \in Parties : req'[q].kind \in AccountKinds => req'[q] = req[q]
  BY CloseRest
<1>2. ASSUME NEW u \in Users \ accountClash' PROVE Held(u)' /\ Current(u)'
  <2>1. u \in Users \ accountClash /\ Live(u)' = Live(u)
    BY DEF Live
  <2>2. Current(u)'
    BY <2>1 DEF SessionInv, Current
  <2>3. Held(u)'
    BY <2>1, <1>1 DEF SessionInv, Held
  <2> QED BY <2>2, <2>3
<1> QED BY <1>1, <1>2 DEF SessionInv

LEMMA LiveAfterEnd ==
  ASSUME TypeInv, NEW S, NEW u
  PROVE  {s \in Sessions : Ended(S)[s].live /\ Ended(S)[s].user = u} = Live(u) \ S
BY DEF Ended, NoSession, Live

LEMMA SessionLogin ==
  ASSUME TypeInv, SessionInv, NEW p \in Parties, Login(p)
  PROVE  SessionInv'
<1> DEFINE r == req[p]
<1>1. /\ Close(p) /\ UNCHANGED <<user, accountClash>>
      /\ r.kind = "login" /\ r.ready
  BY DEF Login, Committing, clashes
<1>2. PICK s \in Sessions :
        session' = [Ended(r.gone) EXCEPT ![s] = [live |-> TRUE, user |-> r.user, password |-> r.password]]
  BY DEF Login
<1>3. \A t \in Sessions : session'[t] = IF t = s THEN [live |-> TRUE, user |-> r.user, password |-> r.password]
                                       ELSE Ended(r.gone)[t]
  BY <1>2 DEF Ended
<1>4. /\ Apart'
      /\ \A q \in Parties : req'[q].kind \in AccountKinds => q # p /\ req'[q] = req[q]
  BY <1>1, CloseRest
<1>5. ASSUME NEW u \in Users \ accountClash' PROVE Held(u)' /\ Current(u)'
  <2>1. u \in Users \ accountClash /\ Held(u) /\ Current(u)
    BY <1>1, <1>5 DEF SessionInv
  <2>2. Live(u)' \subseteq (Live(u) \ r.gone) \union {s}
    BY <1>3 DEF Live, Ended, NoSession
  <2>3. CASE u = r.user
    <3>1. Live(u) \subseteq r.gone /\ user[u].known /\ user[u].active /\ r.password = user[u].password
      BY <2>1, <2>3, <1>1 DEF Held, AccountKinds
    <3>2. Live(u)' \subseteq {s}
      BY <2>2, <3>1
    <3>3. session'[s].password = r.password
      BY <1>3
    <3>4. Current(u)'
      BY <3>1, <3>2, <3>3, <1>1 DEF Current
    <3>5. \A q \in Parties : ~(req'[q].kind \in AccountKinds /\ req'[q].user = u)
      BY <1>4, <1>1, <2>1, <2>3 DEF SessionInv, Apart, AccountKinds
    <3> QED BY <3>4, <3>5 DEF Held
  <2>4. CASE u # r.user
    <3>1. Live(u)' \subseteq Live(u) \ r.gone
      BY <1>3, <2>4 DEF Live, Ended, NoSession
    <3>2. \A t \in Live(u)' : session'[t] = session[t]
      BY <3>1, <1>3, <2>4 DEF Live, Ended
    <3>3. Current(u)'
      BY <2>1, <3>1, <3>2, <1>1 DEF Current
    <3>4. Held(u)'
      BY <2>1, <3>1, <1>1, <1>4 DEF Held
    <3> QED BY <3>3, <3>4
  <2> QED BY <2>3, <2>4
<1> QED BY <1>4, <1>5 DEF SessionInv

\* Status and password change behind the end of every session of the user.
LEMMA SessionChange ==
  ASSUME TypeInv, SessionInv, NEW p \in Parties, UpdateStatus(p) \/ ResetPassword(p)
  PROVE  SessionInv'
<1> DEFINE r == req[p]
<1>1. /\ Close(p) /\ UNCHANGED accountClash /\ session' = Ended(r.gone)
      /\ r.kind \in AccountKinds /\ r.ready /\ r.user \in Users
  BY DEF UpdateStatus, ResetPassword, Committing, clashes, AccountKinds, TypeInv, TypeOK, Request
<1>2. /\ Apart'
      /\ \A q \in Parties : req'[q].kind \in AccountKinds => q # p /\ req'[q] = req[q]
  BY <1>1, CloseRest
<1>3. \A u \in Users : user'[u].known = user[u].known
  BY <1>1 DEF UpdateStatus, ResetPassword, TypeInv, TypeOK, User
<1>4. \A u \in Users : u # r.user => user'[u] = user[u]
  BY <1>1 DEF UpdateStatus, ResetPassword, TypeInv, TypeOK
<1>5. ASSUME NEW u \in Users \ accountClash' PROVE Held(u)' /\ Current(u)'
  <2>1. u \in Users \ accountClash /\ Held(u) /\ Current(u)
    BY <1>1, <1>5 DEF SessionInv
  <2>2. Live(u)' = Live(u) \ r.gone
    BY <1>1, LiveAfterEnd DEF Live
  <2>3. \A t \in Live(u)' : session'[t] = session[t]
    BY <2>2, <1>1 DEF Live, Ended
  <2>4. CASE u # r.user
    <3>1. Current(u)'
      BY <2>1, <2>2, <2>3, <2>4, <1>4 DEF Current
    <3>2. Held(u)'
      BY <2>1, <2>2, <2>4, <1>4, <1>2 DEF Held
    <3> QED BY <3>1, <3>2
  <2>5. CASE u = r.user
    <3>1. \A q \in Parties : ~(req'[q].kind \in AccountKinds /\ req'[q].user = u)
      BY <1>1, <1>2, <2>1, <2>5 DEF SessionInv, Apart
    <3>2. Held(u)'
      BY <3>1 DEF Held
    <3>3. CASE r.kind = "status" /\ r.flag
      <4>1. UpdateStatus(p)
        BY <3>3 DEF ResetPassword, Committing
      <4>2. user' = [user EXCEPT ![u].active = Set(@, r.loaded, r.flag)]
        BY <4>1, <2>5 DEF UpdateStatus
      <4>3. Set(user[u].active, r.loaded, r.flag) = user[u].active \/ Set(user[u].active, r.loaded, r.flag) = TRUE
        BY <3>3 DEF Set
      <4>4. user'[u].password = user[u].password /\ (user[u].active => user'[u].active)
        BY <4>2, <4>3, <2>5 DEF TypeInv, TypeOK, User
      <4> QED BY <2>1, <2>2, <2>3, <1>3, <3>2, <4>4 DEF Current
    <3>4. CASE ~(r.kind = "status" /\ r.flag)
      <4>1. Live(u)' = {}
        BY <2>1, <2>2, <2>5, <3>4, <1>1 DEF Held
      <4> QED BY <4>1, <3>2 DEF Current
    <3> QED BY <3>3, <3>4
  <2> QED BY <2>4, <2>5
<1> QED BY <1>2, <1>5 DEF SessionInv

LEMMA SessionStep ==
  ASSUME TypeInv, SessionInv, [Next]_vars
  PROVE  SessionInv'
<1>1. ASSUME NEW p \in Parties, Begin(p) PROVE SessionInv'
  BY <1>1, Opened, SessionOpen
<1>2. ASSUME NEW p \in Parties, Statement(p) PROVE SessionInv'
  BY <1>2, SessionStatement
<1>3. ASSUME NEW p \in Parties, Commit(p) PROVE SessionInv'
  <2>1. Close(p) /\ UNCHANGED accountClash
    BY <1>3, Closes
  <2>2. CASE Login(p)
    BY <2>2, SessionLogin
  <2>3. CASE UpdateStatus(p) \/ ResetPassword(p)
    BY <2>3, SessionChange
  <2>4. CASE CreateUser(p)
    <3>1. UNCHANGED session /\ \A u \in Users : user[u].known => user'[u] = user[u]
      BY <2>4 DEF CreateUser, TypeInv, TypeOK
    <3> QED BY <2>1, <3>1, SessionQuiet
  <2>8. CASE Seed(p)
    <3>1. UNCHANGED session
      BY <2>8 DEF Seed
    <3>2. \A u \in Users : user[u].known => user'[u] = user[u]
      <4>1. req[p].flag \/ ~user[Bootstrap].known
        BY <2>8 DEF Seed
      <4>2. CASE req[p].flag
        BY <4>2, <2>8 DEF Seed
      <4>3. CASE ~req[p].flag
        <5>1. user' = [user EXCEPT ![Bootstrap] = [known |-> TRUE, active |-> TRUE, password |-> 0, roles |-> {Admin}]]
          BY <4>3, <2>8 DEF Seed
        <5> QED BY <5>1, <4>1, <4>3 DEF TypeInv, TypeOK
      <4> QED BY <4>2, <4>3
    <3> QED BY <2>1, <3>1, <3>2, SessionQuiet
  <2>5. CASE UpdateRoles(p)
    <3> DEFINE v == req[p].user
    <3>1. PICK R : user' = [user EXCEPT ![v].roles = R]
      BY <2>5 DEF UpdateRoles
    <3>2. UNCHANGED session
      BY <2>5 DEF UpdateRoles
    <3>3. \A u \in Users : user'[u].known = user[u].known /\ user'[u].active = user[u].active
                              /\ user'[u].password = user[u].password
      BY <3>1 DEF TypeInv, TypeOK, User
    <3> QED BY <2>1, <3>2, <3>3, SessionQuiet
  <2>6. CASE DeleteRole(p)
    <3>1. UNCHANGED session
      BY <2>6 DEF DeleteRole
    <3>2. \A u \in Users : user'[u].known = user[u].known /\ user'[u].active = user[u].active
                              /\ user'[u].password = user[u].password
      BY <2>6 DEF DeleteRole, TypeInv, TypeOK, User
    <3> QED BY <2>1, <3>1, <3>2, SessionQuiet
  <2>7. CASE CreateRole(p) \/ UpdateRoleStatus(p) \/ UpdatePermissions(p)
    BY <2>1, <2>7, SessionQuiet DEF CreateRole, UpdateRoleStatus, UpdatePermissions
  <2> QED BY <1>3, <2>2, <2>3, <2>4, <2>5, <2>6, <2>7, <2>8 DEF Commit
<1>4. ASSUME NEW p \in Parties, Abort(p) PROVE SessionInv'
  BY <1>4, SessionQuiet DEF Abort, tables, clashes
<1>5. CASE Logout
  <2>1. PICK s \in Sessions : session' = Ended({s}) /\ UNCHANGED <<user, req, accountClash>>
    BY <1>5 DEF Logout, clashes
  <2>2. ASSUME NEW u \in Users PROVE Live(u)' = Live(u) \ {s}
    <3>1. {t \in Sessions : Ended({s})[t].live /\ Ended({s})[t].user = u} = Live(u) \ {s}
      BY LiveAfterEnd
    <3> QED BY <3>1, <2>1 DEF Live
  <2>3. ASSUME NEW u \in Users PROVE \A t \in Live(u)' : session'[t] = session[t]
    BY <2>1, <2>2 DEF Live, Ended
  <2>4. Apart'
    BY <2>1 DEF SessionInv, Apart
  <2>5. ASSUME NEW u \in Users \ accountClash PROVE Held(u)' /\ Current(u)'
    <3>1. Held(u) /\ Current(u)
      BY <2>5 DEF SessionInv
    <3>2. Held(u)'
      BY <3>1, <2>1, <2>2 DEF Held
    <3>3. Current(u)'
      BY <3>1, <2>1, <2>2, <2>3 DEF Current
    <3> QED BY <3>2, <3>3
  <2> QED BY <2>1, <2>4, <2>5 DEF SessionInv
<1>6. CASE UNCHANGED vars
  BY <1>6 DEF vars, tables, clashes, SessionInv, Apart, Held, Current, Live
<1> QED BY <1>1, <1>2, <1>3, <1>4, <1>5, <1>6 DEF Next

LEMMA SessionInit == Init => SessionInv
BY DEF Init, SessionInv, Apart, Held, Current, Live, Idle, AccountKinds, NoSession

LEMMA SessionInvariant == Spec => [](TypeInv /\ SessionInv)
BY TypeInit, TypeStep, SessionInit, SessionStep, PTL DEF Spec

\* A user whose sign-ins, resets and changes of status did not overlap has one live session at
\* most, because a request has met every session there is by the time it commits (Held).
THEOREM SessionsAreSingle == Spec => []OneSession
<1>1. SessionInv => OneSession
  BY DEF SessionInv, Current, OneSession
<1> QED BY <1>1, SessionInvariant, PTL

\* Under the same condition a live session was opened with the password there is now, and its
\* user is active.
THEOREM SessionsStayCurrent == Spec => []SessionsAreCurrent
<1>1. SessionInv => SessionsAreCurrent
  BY DEF SessionInv, Current, SessionsAreCurrent
<1> QED BY <1>1, SessionInvariant, PTL
-----------------------------------------------------------------------------
(* Administration *)

\* The system role is active, and the others give what may be delegated.
Rules ==
  /\ role[Admin].known => role[Admin].active
  /\ \A r \in Roles \ {Admin} : role[r].grants \subseteq Delegable

LEMMA RulesCommit ==
  ASSUME TypeInv, Rules, NEW p \in Parties, Commit(p)
  PROVE  Rules'
<1> DEFINE r == req[p]
<1>1. /\ role \in [Roles -> Role] /\ r.role \in Roles /\ Admin \in Roles
      /\ Sound(r) /\ r.loaded \in BOOLEAN /\ r.flag \in BOOLEAN
  BY NamesExist DEF TypeInv, TypeOK, RequestsSound, Request
<1>2. CASE Login(p) \/ CreateUser(p) \/ UpdateStatus(p) \/ ResetPassword(p) \/ UpdateRoles(p)
  <2>1. UNCHANGED role
    BY <1>2 DEF Login, CreateUser, UpdateStatus, ResetPassword, UpdateRoles
  <2> QED BY <2>1 DEF Rules
<1>3. CASE CreateRole(p)
  <2>1. r.role # Admin /\ role' = [role EXCEPT ![r.role] = [known |-> TRUE, active |-> r.flag, grants |-> {}]]
    BY <1>1, <1>3 DEF CreateRole, Committing, Sound
  <2> QED BY <1>1, <2>1 DEF Rules
<1>4. CASE UpdateRoleStatus(p)
  <2>1. role' = [role EXCEPT ![r.role].active = Set(role[r.role].active, r.loaded, r.flag)]
    BY <1>4 DEF UpdateRoleStatus
  <2>2. r.role = Admin => r.flag
    BY <1>1, <1>4 DEF UpdateRoleStatus, Committing, Sound
  <2>3. \A q \in Roles : role'[q].grants = role[q].grants /\ role'[q].known = role[q].known
    BY <1>1, <2>1 DEF Role
  <2>4. role[Admin].known => role'[Admin].active
    <3>1. CASE r.role # Admin
      BY <1>1, <2>1, <3>1 DEF Rules
    <3>2. CASE r.role = Admin
      <4>1. role[Admin].known => Set(role[Admin].active, r.loaded, r.flag)
        BY <2>2, <3>2 DEF Set, Rules
      <4>2. role'[Admin].active = Set(role[Admin].active, r.loaded, r.flag)
        BY <1>1, <2>1, <3>2 DEF Role
      <4> QED BY <4>1, <4>2
    <3> QED BY <3>1, <3>2
  <2> QED BY <1>1, <2>3, <2>4 DEF Rules
<1>5. CASE UpdatePermissions(p)
  <2>1. r.role # Admin /\ r.wanted \subseteq Delegable
    BY <1>1, <1>5 DEF UpdatePermissions, Committing, Sound
  <2>2. role' = [role EXCEPT ![r.role].grants = (role[r.role].grants \ r.links) \union r.wanted]
    BY <1>5 DEF UpdatePermissions
  <2>3. role'[Admin] = role[Admin]
    BY <1>1, <2>1, <2>2
  <2>4. \A q \in Roles \ {Admin} : role'[q].grants \subseteq Delegable
    BY <1>1, <2>1, <2>2 DEF Role, Rules
  <2> QED BY <2>3, <2>4 DEF Rules
<1>6. CASE DeleteRole(p)
  <2>1. r.role # Admin /\ role' = [role EXCEPT ![r.role] = NoRole]
    BY <1>1, <1>6 DEF DeleteRole, Committing, Sound
  <2> QED BY <1>1, <2>1 DEF Rules, NoRole
<1>7. CASE Seed(p)
  <2>1. role' = [role EXCEPT ![Admin] = SeededRole]
    BY <1>7 DEF Seed
  <2> QED BY <1>1, <2>1 DEF Rules, SeededRole
<1> QED BY <1>2, <1>3, <1>4, <1>5, <1>6, <1>7 DEF Commit

\* Who keeps the system open to administration.
Chief(a) == user[a].known /\ user[a].active /\ IsAdmin(a)

\* Where only the system role gives the management of users, every keeper is an administrator.
LEMMA KeepersAreChiefs ==
  ASSUME Rules, "user.manage" \notin Delegable, TypeInv, NEW a \in Users, Keeper(a)
  PROVE  Chief(a)
<1>1. PICK r \in user[a].roles :
        role[r].known /\ role[r].active /\ (r = Admin \/ "user.manage" \in role[r].grants)
  BY DEF Keeper, Has
<1>2. r \in Roles
  BY DEF TypeInv, TypeOK, User
<1>3. r = Admin
  BY <1>1, <1>2 DEF Rules
<1> QED BY <1>1, <1>3 DEF Keeper, Chief, IsAdmin

\* One request at a time changes users and roles.
Alone ==
  \A p, q \in Parties : p # q /\ req[p].kind \in AdminKinds => req[q].kind \notin AdminKinds

Roled == \A u \in Users : user[u].known => user[u].roles # {}

\* A role that is being deleted has no users.
Unused == \A p \in Parties : req[p].kind = "deleteRole" => Assigned(req[p].role) = {}

\* The administrator a change of users leaves in office.
Backing(a, r) ==
  /\ Chief(a)
  /\ r.kind = "status" /\ ~r.flag => a # r.user
  /\ r.kind = "roles" /\ a = r.user => Admin \in r.wanted

Backed ==
  \A p \in Parties : req[p].kind \in {"create", "status", "roles"} => \E a \in Users : Backing(a, req[p])

Led == (\E u \in Users : user[u].known) => \E a \in Users : Chief(a)

Orderly == Alone /\ Roled /\ Unused /\ ("user.manage" \notin Delegable => Led /\ Backed)

AdminInv == Rules /\ (~adminClash => Orderly)

\* Requests that open meet no other, or are marked.
LEMMA AdminOpen ==
  ASSUME TypeInv, AdminInv, NEW p \in Parties, NEW r \in Request, Open(p, r), Fresh(r)
  PROVE  AdminInv'
<1>1. /\ req[p].kind = "idle" /\ UNCHANGED <<user, role, session>>
      /\ \A q \in Parties : req'[q] = IF q = p THEN r ELSE req[q]
  BY DEF Open, tables, TypeInv, TypeOK
<1>2. Rules'
  BY <1>1 DEF AdminInv, Rules
<1>3. ASSUME ~adminClash' PROVE Orderly'
  <2>1. /\ ~adminClash
        /\ r.kind \in AdminKinds => \A q \in Parties \ {p} : req[q].kind \notin AdminKinds
    BY <1>3 DEF Open, Others
  <2>2. Alone'
    BY <1>1, <2>1 DEF AdminInv, Orderly, Alone
  <2>3. Roled'
    BY <1>1, <2>1 DEF AdminInv, Orderly, Roled
  <2>4. Unused'
    BY <1>1, <2>1 DEF AdminInv, Orderly, Unused, Assigned, Fresh
  <2>5. ASSUME "user.manage" \notin Delegable PROVE Led' /\ Backed'
    <3>1. Led /\ Backed
      BY <2>1, <2>5 DEF AdminInv, Orderly
    <3>2. \A a : Chief(a)' <=> Chief(a)
      BY <1>1 DEF Chief, IsAdmin
    <3>3. Led'
      BY <3>1, <3>2, <1>1 DEF Led
    <3>4. ASSUME r.kind \in {"create", "status", "roles"}
          PROVE  \E a \in Users : Backing(a, r)'
      <4>1. PICK a \in Users : /\ Keeper(a)
                               /\ r.kind = "status" /\ ~r.flag => a # r.user
                               /\ r.kind = "roles" /\ a = r.user /\ IsAdmin(a) => Admin \in r.wanted
        BY <3>4 DEF Fresh
      <4>2. Chief(a)
        BY <4>1, <2>5, KeepersAreChiefs DEF AdminInv
      <4> QED BY <4>1, <4>2, <3>2 DEF Backing, Chief
    <3>5. Backed'
      BY <3>1, <3>2, <3>4, <1>1 DEF Backed, Backing
    <3> QED BY <3>3, <3>5
  <2> QED BY <2>2, <2>3, <2>4, <2>5 DEF Orderly
<1> QED BY <1>2, <1>3 DEF AdminInv

\* Steps that leave roles, users and their status as they are, and open nothing.
LEMMA AdminQuiet ==
  ASSUME TypeInv, AdminInv, UNCHANGED <<role, adminClash>>,
         \A u \in Users : user'[u].known = user[u].known /\ user'[u].active = user[u].active
                          /\ user'[u].roles = user[u].roles,
         \A q \in Parties : req'[q].kind \in AdminKinds =>
           /\ req'[q].kind = req[q].kind /\ req'[q].user = req[q].user /\ req'[q].role = req[q].role
           /\ req'[q].flag = req[q].flag /\ req'[q].wanted = req[q].wanted
  PROVE  AdminInv'
<1>1. Rules'
  BY DEF AdminInv, Rules
<1>2. ASSUME ~adminClash' PROVE Orderly'
  <2>1. Orderly
    BY <1>2 DEF AdminInv
  <2>2. Alone'
    BY <2>1 DEF Orderly, Alone
  <2>3. Roled'
    BY <2>1 DEF Orderly, Roled
  <2>4. Unused'
    <3>1. "deleteRole" \in AdminKinds
      BY DEF AdminKinds
    <3> QED BY <3>1, <2>1 DEF Orderly, Unused, Assigned
  <2>5. ASSUME "user.manage" \notin Delegable PROVE Led' /\ Backed'
    <3>1. Led /\ Backed
      BY <2>1, <2>5 DEF Orderly
    <3>2. \A a \in Users : Chief(a)' <=> Chief(a)
      BY DEF Chief, IsAdmin
    <3>3. Led'
      BY <3>1, <3>2 DEF Led
    <3>4. Backed'
      <4>1. {"create", "status", "roles"} \subseteq AdminKinds
        BY DEF AdminKinds
      <4> QED BY <4>1, <3>1, <3>2 DEF Backed, Backing
    <3> QED BY <3>3, <3>4
  <2> QED BY <2>2, <2>3, <2>4, <2>5 DEF Orderly
<1> QED BY <1>1, <1>2 DEF AdminInv

\* A change of users or roles that commits was the only one open.
LEMMA AdminDone ==
  ASSUME TypeInv, Orderly, NEW p \in Parties, Close(p), req[p].kind \in AdminKinds,
         Roled', "user.manage" \notin Delegable => Led'
  PROVE  Orderly'
<1>1. \A q \in Parties : req'[q].kind \notin AdminKinds
  BY DEF Close, TypeInv, TypeOK, Idle, AdminKinds, Orderly, Alone
<1>2. Alone'
  BY <1>1 DEF Alone
<1>3. Unused' /\ Backed'
  BY <1>1 DEF Unused, Backed, AdminKinds
<1> QED BY <1>2, <1>3 DEF Orderly

\* Users of whom an administrator is left.
LEMMA ChiefStays ==
  ASSUME NEW a \in Users, Chief(a), user'[a].known, user'[a].active, Admin \in user'[a].roles,
         role[Admin].known => role'[Admin].known /\ role'[Admin].active
  PROVE  Led'
BY DEF Led, Chief, IsAdmin

\* The system role stays what it is: known, it is active.
LEMMA AdminRoleStays ==
  ASSUME TypeInv, Rules, NEW p \in Parties, Commit(p)
  PROVE  role[Admin].known => role'[Admin].known /\ role'[Admin].active
<1> DEFINE r == req[p]
<1>1. Rules'
  BY RulesCommit
<1>2. /\ role \in [Roles -> Role] /\ r.role \in Roles /\ Admin \in Roles /\ Sound(r)
  BY NamesExist DEF TypeInv, TypeOK, RequestsSound, Request
<1>3. CASE Login(p) \/ CreateUser(p) \/ UpdateStatus(p) \/ ResetPassword(p) \/ UpdateRoles(p)
  BY <1>1, <1>3 DEF Rules, Login, CreateUser, UpdateStatus, ResetPassword, UpdateRoles
<1>4. CASE CreateRole(p) \/ DeleteRole(p)
  <2>1. r.role # Admin /\ \E x : role' = [role EXCEPT ![r.role] = x]
    BY <1>2, <1>4 DEF CreateRole, DeleteRole, Committing, Sound
  <2> QED BY <1>1, <1>2, <2>1 DEF Rules
<1>5. CASE UpdateRoleStatus(p)
  <2>1. role'[Admin].known = role[Admin].known
    BY <1>2, <1>5 DEF UpdateRoleStatus, Role
  <2> QED BY <1>1, <2>1 DEF Rules
<1>6. CASE UpdatePermissions(p)
  <2>1. role'[Admin].known = role[Admin].known
    BY <1>2, <1>6 DEF UpdatePermissions, Role
  <2> QED BY <1>1, <2>1 DEF Rules
<1>7. CASE Seed(p)
  BY <1>2, <1>7 DEF Seed, SeededRole
<1> QED BY <1>3, <1>4, <1>5, <1>6, <1>7 DEF Commit

LEMMA AdminCommit ==
  ASSUME TypeInv, AdminInv, NEW p \in Parties, Commit(p)
  PROVE  AdminInv'
<1> DEFINE r == req[p]
<1>1. /\ user \in [Users -> User] /\ r.user \in Users /\ Sound(r) /\ r.role \in Roles
      /\ r.flag \in BOOLEAN /\ r.loaded \in BOOLEAN
  BY DEF TypeInv, TypeOK, RequestsSound, Request
<1>2. Close(p) /\ UNCHANGED adminClash
  BY Closes
<1>3. Rules'
  BY RulesCommit DEF AdminInv
<1>4. role[Admin].known => role'[Admin].known /\ role'[Admin].active
  BY AdminRoleStays DEF AdminInv
<1>5. \A q \in Parties : req'[q].kind \in AdminKinds => req'[q] = req[q]
  BY <1>2 DEF Close, TypeInv, TypeOK, Idle, AdminKinds
<1>6. CASE Login(p) \/ ResetPassword(p)
  <2>1. UNCHANGED role
    BY <1>6 DEF Login, ResetPassword
  <2>2. \A u \in Users : user'[u].known = user[u].known /\ user'[u].active = user[u].active
                         /\ user'[u].roles = user[u].roles
    BY <1>1, <1>6 DEF Login, ResetPassword, User
  <2> QED BY <1>2, <1>5, <2>1, <2>2, AdminQuiet
<1>7. CASE ~(Login(p) \/ ResetPassword(p))
  <2>1. SUFFICES ASSUME ~adminClash PROVE Orderly'
    BY <1>2, <1>3 DEF AdminInv
  <2>2. Orderly /\ Roled
    BY <2>1 DEF AdminInv, Orderly
  <2>3. ASSUME "user.manage" \notin Delegable PROVE Led /\ Backed
    BY <2>2, <2>3 DEF Orderly
  <2>4. r.kind \in AdminKinds
    BY <1>7 DEF Commit, Committing, CreateUser, UpdateStatus, UpdateRoles, CreateRole,
                UpdateRoleStatus, UpdatePermissions, DeleteRole, Seed, AdminKinds
  <2>5. CASE CreateUser(p)
    <3>1. /\ user' = [user EXCEPT ![r.user] = [known |-> TRUE, active |-> r.flag, password |-> 0, roles |-> r.wanted]]
          /\ ~user[r.user].known /\ r.kind = "create"
      BY <2>5 DEF CreateUser, Committing
    <3>2. Roled'
      BY <1>1, <2>2, <3>1 DEF Roled, Sound
    <3>3. ASSUME "user.manage" \notin Delegable PROVE Led'
      <4>1. PICK a \in Users : Chief(a)
        BY <2>3, <3>1, <3>3 DEF Backed, Backing
      <4>2. user'[a] = user[a]
        BY <1>1, <3>1, <4>1 DEF Chief
      <4> QED BY <1>4, <4>1, <4>2, ChiefStays DEF Chief, IsAdmin
    <3> QED BY <1>2, <2>2, <2>4, <3>2, <3>3, AdminDone
  <2>6. CASE UpdateStatus(p)
    <3>1. /\ user' = [user EXCEPT ![r.user].active = Set(user[r.user].active, r.loaded, r.flag)]
          /\ r.kind = "status"
      BY <2>6 DEF UpdateStatus, Committing
    <3>2. \A u \in Users : user'[u].known = user[u].known /\ user'[u].roles = user[u].roles
      BY <1>1, <3>1 DEF User
    <3>3. Roled'
      BY <2>2, <3>2 DEF Roled
    <3>4. ASSUME "user.manage" \notin Delegable PROVE Led'
      <4>1. PICK a \in Users : Backing(a, r)
        BY <2>3, <3>1, <3>4 DEF Backed
      <4>2. user'[a].active
        <5>1. CASE a = r.user
          <6>1. r.flag
            BY <3>1, <4>1, <5>1 DEF Backing
          <6>2. Set(user[a].active, r.loaded, r.flag)
            BY <4>1, <6>1 DEF Set, Backing, Chief
          <6>3. user'[a].active = Set(user[a].active, r.loaded, r.flag)
            BY <1>1, <3>1, <5>1 DEF User
          <6> QED BY <6>2, <6>3
        <5>2. CASE a # r.user
          BY <1>1, <3>1, <4>1, <5>2 DEF Backing, Chief
        <5> QED BY <5>1, <5>2
      <4> QED BY <1>4, <3>2, <4>1, <4>2, ChiefStays DEF Backing, Chief, IsAdmin
    <3> QED BY <1>2, <2>2, <2>4, <3>3, <3>4, AdminDone
  <2>7. CASE UpdateRoles(p)
    <3> DEFINE R == (user[r.user].roles \ r.links) \union r.wanted
    <3>1. user' = [user EXCEPT ![r.user].roles = R] /\ r.kind = "roles"
      BY <2>7 DEF UpdateRoles, Committing
    <3>2. /\ \A u \in Users : user'[u].known = user[u].known /\ user'[u].active = user[u].active
          /\ \A u \in Users : user'[u].roles = IF u = r.user THEN R ELSE user[u].roles
      BY <1>1, <3>1 DEF User
    <3>3. Roled'
      BY <1>1, <2>2, <3>1, <3>2 DEF Roled, Sound
    <3>4. ASSUME "user.manage" \notin Delegable PROVE Led'
      <4>1. PICK a \in Users : Backing(a, r)
        BY <2>3, <3>1, <3>4 DEF Backed
      <4>2. Admin \in user'[a].roles
        BY <3>1, <3>2, <4>1 DEF Backing, Chief, IsAdmin
      <4> QED BY <1>4, <3>2, <4>1, <4>2, ChiefStays DEF Backing, Chief
    <3> QED BY <1>2, <2>2, <2>4, <3>3, <3>4, AdminDone
  <2>8. CASE CreateRole(p) \/ UpdateRoleStatus(p) \/ UpdatePermissions(p)
    <3>1. UNCHANGED user
      BY <2>8 DEF CreateRole, UpdateRoleStatus, UpdatePermissions
    <3>2. Roled'
      BY <2>2, <3>1 DEF Roled
    <3>3. ASSUME "user.manage" \notin Delegable PROVE Led'
      BY <1>4, <2>3, <3>1, <3>3 DEF Led, Chief, IsAdmin
    <3> QED BY <1>2, <2>2, <2>4, <3>2, <3>3, AdminDone
  <2>9. CASE DeleteRole(p)
    <3>1. /\ user' = [u \in Users |-> [user[u] EXCEPT !.roles = user[u].roles \ {r.role}]]
          /\ r.kind = "deleteRole"
      BY <2>9 DEF DeleteRole, Committing
    <3>2. \A u \in Users : r.role \notin user[u].roles
      BY <2>2, <3>1 DEF Orderly, Unused, Assigned
    <3>3. \A u \in Users : user'[u].known = user[u].known /\ user'[u].active = user[u].active
                           /\ user'[u].roles = user[u].roles
      BY <1>1, <3>1, <3>2 DEF User
    <3>4. Roled'
      BY <2>2, <3>3 DEF Roled
    <3>5. ASSUME "user.manage" \notin Delegable PROVE Led'
      BY <1>4, <2>3, <3>3, <3>5 DEF Led, Chief, IsAdmin
    <3> QED BY <1>2, <2>2, <2>4, <3>4, <3>5, AdminDone
  <2>10. CASE Seed(p)
    <3>1. CASE r.flag
      <4>1. UNCHANGED user
        BY <2>10, <3>1 DEF Seed
      <4>2. Roled'
        BY <2>2, <4>1 DEF Roled
      <4>3. ASSUME "user.manage" \notin Delegable PROVE Led'
        BY <1>4, <2>3, <4>1, <4>3 DEF Led, Chief, IsAdmin
      <4> QED BY <1>2, <2>2, <2>4, <4>2, <4>3, AdminDone
    <3>2. CASE ~r.flag
      <4>1. user' = [user EXCEPT ![Bootstrap] = [known |-> TRUE, active |-> TRUE, password |-> 0, roles |-> {Admin}]]
        BY <2>10, <3>2 DEF Seed
      <4>2. Roled'
        BY <1>1, <2>2, <4>1 DEF Roled
      <4>3. role'[Admin].known /\ role'[Admin].active
        BY <2>10, NamesExist DEF Seed, SeededRole, TypeInv, TypeOK
      <4>4. Led'
        BY <1>1, <4>1, <4>3, NamesExist DEF Led, Chief, IsAdmin
      <4> QED BY <1>2, <2>2, <2>4, <4>2, <4>4, AdminDone
    <3> QED BY <3>1, <3>2
  <2> QED BY <1>7, <2>5, <2>6, <2>7, <2>8, <2>9, <2>10 DEF Commit
<1> QED BY <1>6, <1>7

LEMMA AdminStep ==
  ASSUME TypeInv, AdminInv, [Next]_vars
  PROVE  AdminInv'
<1>1. ASSUME NEW p \in Parties, Begin(p) PROVE AdminInv'
  BY <1>1, Opened, AdminOpen
<1>2. ASSUME NEW p \in Parties, Statement(p) PROVE AdminInv'
  <2>1. UNCHANGED <<user, role, adminClash>>
    BY <1>2, StatementFrame
  <2>2. PICK n \in Request : Noted(req[p], n) /\ req' = [req EXCEPT ![p] = n]
    BY <1>2, Stated
  <2>3. \A q \in Parties : req'[q].kind \in AdminKinds =>
           /\ req'[q].kind = req[q].kind /\ req'[q].user = req[q].user /\ req'[q].role = req[q].role
           /\ req'[q].flag = req[q].flag /\ req'[q].wanted = req[q].wanted
    BY <2>2 DEF Noted, TypeInv, TypeOK
  <2> QED BY <2>1, <2>3, AdminQuiet
<1>3. ASSUME NEW p \in Parties, Commit(p) PROVE AdminInv'
  BY <1>3, AdminCommit
<1>4. ASSUME NEW p \in Parties, Abort(p) PROVE AdminInv'
  <2>1. UNCHANGED <<user, role, adminClash>>
    BY <1>4 DEF Abort, tables, clashes
  <2>2. \A q \in Parties : req'[q].kind \in AdminKinds => req'[q] = req[q]
    BY <1>4 DEF Abort, Close, TypeInv, TypeOK, Idle, AdminKinds
  <2> QED BY <2>1, <2>2, AdminQuiet
<1>5. CASE Logout \/ UNCHANGED vars
  <2>1. UNCHANGED <<user, role, req, adminClash>>
    BY <1>5 DEF Logout, vars, tables, clashes
  <2> QED BY <2>1, AdminQuiet
<1> QED BY <1>1, <1>2, <1>3, <1>4, <1>5 DEF Next

LEMMA AdminInit == Init => AdminInv
BY NamesExist DEF Init, AdminInv, Rules, Orderly, Alone, Roled, Unused, Led, Backed,
                  NoUser, NoRole, Idle, AdminKinds

LEMMA AdminInvariant == Spec => [](TypeInv /\ AdminInv)
BY TypeInit, TypeStep, AdminInit, AdminStep, PTL DEF Spec

\* While changes of users and roles do not overlap, every user has a role: requests check the
\* roles they give, and a role is deleted only without users.
THEOREM UsersKeepRoles == Spec => []EveryUserHasRole
<1>1. AdminInv => EveryUserHasRole
  BY DEF AdminInv, Orderly, Roled, EveryUserHasRole
<1> QED BY <1>1, AdminInvariant, PTL

\* Under the same condition, and where the management of users is not delegated, an active
\* administrator remains: whoever changes users is one, and leaves one in office (Backing).
THEOREM AdministratorRemains == Spec => []AdminRemains
<1>1. AdminInv => AdminRemains
  BY DEF AdminInv, Orderly, Led, Chief, AdminRemains
<1> QED BY <1>1, AdminInvariant, PTL
=============================================================================
