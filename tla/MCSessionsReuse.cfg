\* A replayed token while its family's live token is being rotated.
SPECIFICATION Spec
CONSTANTS
  Clients = {c1, c2}
  Users = {u1}
  MaxRows = 3
  MaxCrashes = 0
  NoRow = NoRow
PROPERTY ReuseRevokesFamily
\* With every account deleted and every row purged nothing is left to do.
CHECK_DEADLOCK FALSE
