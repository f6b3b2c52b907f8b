\* Two requests in flight.
SPECIFICATION AllSpec
CONSTANTS
  a = a
  b = b
  c = c
  h1 = h1
  h2 = h2
  h3 = h3
  h4 = h4
  Users <- MCUsers
  Households <- MCHouseholds
  Slots = {r1, r2}
  Founding <- MCFounding
  Pointed <- MCPointed
  Invited <- MCInvited
  MaxMembers = 3
  MaxRequests = 3
  None = None
  MaxQty = 1
  Nobody = Nobody
SYMMETRY MCSymmetry
INVARIANTS HouseholdsConsistent StockConsistent
PROPERTIES MembershipsHold
CHECK_DEADLOCK FALSE
