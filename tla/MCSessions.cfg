\* Two overlapping requests on the sessions of two users.
SPECIFICATION Spec
CONSTANTS
  Clients = {c1, c2}
  Users = {u1, u2}
  MaxRows = 3
  MaxCrashes = 1
  NoRow = NoRow
SYMMETRY MCSymmetry
INVARIANTS FamiliesConsistent RevocationHolds
PROPERTIES DeadFamilyStaysDead
\* With every account deleted and every row purged nothing is left to do.
CHECK_DEADLOCK FALSE
