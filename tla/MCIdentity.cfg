\* Two accounts, one of them on the admin list, and two overlapping requests.
SPECIFICATION Spec
CONSTANTS
  Users = {u1, u2}
  Requests = {r1, r2}
  Protected = {}
  AdminListed = {u2}
  RequireApproval = TRUE
  NoUser = NoUser
SYMMETRY MCSymmetry
INVARIANTS AdminRemains BootstrapCompletes LoginsConsistent
