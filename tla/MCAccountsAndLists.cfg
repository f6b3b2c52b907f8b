\* One cached account; a list of at most three lines, one brand and one store;
\* three plans.  Two requests each.
SPECIFICATION AllSpec
CONSTANTS
  Requests = {c1, c2}
  Session = session
  Primary = primary
  Links = {}
  TTL = 2
  CacheMax = 2
  MaxWrites = 2
  Items = {i1}
  Stores = {s1}
  Generic = Generic
  Unbranded = Unbranded
  MaxLines = 3
  MaxFlips = 2
  MaxEdits = 1
  Plans = {p1, p2, p3}
  NoPlan = NoPlan
  Nobody = Nobody
SYMMETRY MCSymmetry
INVARIANTS LagBounded CacheConsistent ListAndRouteConsistent PlansConsistent
