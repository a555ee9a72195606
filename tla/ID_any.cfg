SPECIFICATION Spec
CONSTANTS
  u1 = u1
  u2 = u2
  admin = admin
  r1 = r1
  s1 = s1
  s2 = s2
  s3 = s3
  p1 = p1
  p2 = p2
  Users = {u1, u2}
  Bootstrap = u1
  Roles = {admin, r1}
  Admin = admin
  Delegable = {"role.manage"}
  Sessions = {s1, s2, s3}
  Parties = {p1, p2}
  MaxResets = 1
SYMMETRY Symmetry
CONSTRAINT Unclashed
INVARIANTS
  OneSession
  SessionsAreCurrent
  AdminRemains
  EveryUserHasRole
