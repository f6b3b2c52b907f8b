------------------------------- MODULE Identity -------------------------------
(***************************************************************************)
(* Accounts (internal/identity/service.go) and how a sign-in resolves to   *)
(* one (provisionUser of internal/bff/auth.go): the rows of identity.users *)
(* and identity.user_login, the admin mutations, account deletion, linking *)
(* and the approval gate with its zero-admin bootstrap.                    *)
(*                                                                         *)
(* A user is named by its primary identity, the (provider, subject) that   *)
(* is unique in identity.users; any identity may also be linked to another *)
(* user.  Each request is split at its statements, except that a statement *)
(* and the commit that follows it are one step.                            *)
(***************************************************************************)
EXTENDS Naturals, FiniteSets, Functions

CONSTANTS
  Users,       \* identities, and the users they are the primary identity of
  Requests,    \* requests in flight
  Protected,   \* users no admin may change
  AdminListed, \* users whose verified e-mail is in LENA_ADMIN_EMAILS
  RequireApproval, \* off in development stacks
  NoUser

ASSUME IdentityAssumption ==
  /\ Protected \subseteq Users /\ AdminListed \subseteq Users
  /\ NoUser \notin Users /\ RequireApproval \in BOOLEAN

VARIABLES
  users,    \* identity.users: user -> role, active, status
  login,    \* identity.user_login: identity -> the user it signs in to
  pc,       \* where each request is
  target,   \* the user, or the identity signing in, it is about
  owner,    \* the user its login lookup found
  seen,     \* the user row it has read
  others,   \* whether its guarded statement saw another active admin
  wasAdmin, \* users that have been admins
  shadow,   \* users created while their identity was linked elsewhere (history)
  unguarded, \* a plain DELETE has removed an active admin (history)
  stopped   \* a bootstrap stopped between its two writes, and nobody has been
            \* made an admin since (history)

request == <<pc, target, owner, seen, others>>
admins == <<wasAdmin, stopped>>
history == <<wasAdmin, shadow, unguarded, stopped>>
vars == <<users, login, request, history>>

Exists(u) == u \in DOMAIN users
IsActiveAdmin(row) == row.role = "admin" /\ row.active
ActiveAdmins == {u \in DOMAIN users : IsActiveAdmin(users[u])}
AnotherAdmin(u) == ActiveAdmins \ {u} # {}
NoRow == [role |-> "none", active |-> FALSE, status |-> "none"]

Init ==
  /\ users = [u \in {} |-> NoRow]
  /\ login = [i \in {} |-> NoUser]
  /\ pc = [r \in Requests |-> "idle"]
  /\ target = [r \in Requests |-> NoUser]
  /\ owner = [r \in Requests |-> NoUser]
  /\ seen = [r \in Requests |-> NoRow]
  /\ others = [r \in Requests |-> FALSE]
  /\ wasAdmin = {}
  /\ shadow = {}
  /\ unguarded = FALSE
  /\ stopped = FALSE

-----------------------------------------------------------------------------
(* Requests and statements                                                 *)

\* INSERT: a row that is there stays.
Added(f, x, v) == [y \in DOMAIN f \cup {x} |-> IF y \in DOMAIN f THEN f[y] ELSE v]

Goto(r, to) == pc' = [pc EXCEPT ![r] = to] /\ UNCHANGED <<target, owner, seen, others>>
GoOn(r, to) ==
  /\ pc' = [pc EXCEPT ![r] = to] /\ seen' = [seen EXCEPT ![r] = NoRow]
  /\ UNCHANGED <<target, owner, others>>
Begin(r, u, to) ==
  /\ pc[r] = "idle" /\ pc' = [pc EXCEPT ![r] = to]
  /\ target' = [target EXCEPT ![r] = u] /\ UNCHANGED <<owner, seen, others>>
Answer(r) ==
  /\ pc' = [pc EXCEPT ![r] = "idle"] /\ target' = [target EXCEPT ![r] = NoUser]
  /\ owner' = [owner EXCEPT ![r] = NoUser]
  /\ seen' = [seen EXCEPT ![r] = NoRow] /\ others' = [others EXCEPT ![r] = FALSE]

\* UPDATE identity.users: no row, no change.
Update(u, row) ==
  users' = [v \in DOMAIN users |-> IF v = u THEN row ELSE users[v]]
SetRole(u, role) ==
  /\ Update(u, [users[u] EXCEPT !.role = role])
  /\ IF role = "admin" THEN wasAdmin' = wasAdmin \cup {u} /\ stopped' = FALSE
                       ELSE UNCHANGED admins

\* DELETE: the logins cascade.
Delete(u) ==
  /\ users' = Restrict(users, DOMAIN users \ {u})
  /\ login' = Restrict(login, {i \in DOMAIN login : login[i] # u})
  /\ shadow' = shadow \ {u}

-----------------------------------------------------------------------------
(* Admin mutations.  The actor is an admin by a resolution that may be a   *)
(* little old; GetByID only feeds the guards on the actor and the target.  *)

Unlocked == {"promote", "activate", "approve", "deny"}
Locked == {"demote", "deactivate", "delete"}

AdminMutation(r, op, a, u) ==
  /\ a \in wasAdmin /\ a # u
  /\ Exists(u) /\ u \notin Protected
  /\ Begin(r, u, op)
  /\ UNCHANGED <<users, login, history>>

\* Promotion, activation and the approval decisions take no lock.
MutateUnlocked(r) ==
  LET u == target[r] IN
  /\ pc[r] \in Unlocked
  /\ \/ ~Exists(u) /\ UNCHANGED <<users, admins>>
     \/ Exists(u) /\ pc[r] = "promote" /\ SetRole(u, "admin")
     \/ /\ Exists(u) /\ pc[r] = "activate" /\ UNCHANGED admins
        /\ Update(u, [users[u] EXCEPT !.active = TRUE])
     \/ /\ Exists(u) /\ pc[r] \in {"approve", "deny"} /\ UNCHANGED admins
        /\ Update(u, [users[u] EXCEPT !.status = IF pc[r] = "deny" THEN "denied" ELSE "approved"])
  /\ Answer(r)
  /\ UNCHANGED <<login, shadow, unguarded>>

\* lockAdminSet, and the snapshot of the guarded statement.  (Mutant: no
\* advisory lock.)
MutantAdminSetFree == TRUE
AdminSetFree == \A q \in Requests : pc[q] \notin {"demoting", "deactivating", "deleting"}

Locking(op) == CASE op = "demote" -> "demoting"
                 [] op = "deactivate" -> "deactivating"
                 [] op = "delete" -> "deleting"
LockAdminSet(r) ==
  /\ pc[r] \in Locked /\ AdminSetFree
  /\ pc' = [pc EXCEPT ![r] = Locking(pc[r])]
  /\ others' = [others EXCEPT ![r] = AnotherAdmin(target[r])]
  /\ UNCHANGED <<users, login, target, owner, seen, history>>

\* ConditionalSetUserRole, ConditionalSetUserActive and DeleteUserGuarded.
\* The first two refuse whoever the target is, admin or not.
MutateLocked(r) ==
  LET u == target[r] IN
  /\ \/ /\ pc[r] \in {"demoting", "deactivating", "deleting"}
        /\ Exists(u) => ~others[r] /\ (pc[r] = "deleting" => IsActiveAdmin(users[u]))
        /\ UNCHANGED <<users, login, admins, shadow>>
     \/ /\ pc[r] = "demoting" /\ Exists(u) /\ others[r] /\ SetRole(u, "user")
        /\ UNCHANGED <<login, shadow>>
     \/ /\ pc[r] = "deactivating" /\ Exists(u) /\ others[r]
        /\ Update(u, [users[u] EXCEPT !.active = FALSE])
        /\ UNCHANGED <<login, admins, shadow>>
     \/ /\ pc[r] = "deleting" /\ Exists(u)
        /\ ~IsActiveAdmin(users[u]) \/ others[r]
        /\ Delete(u) /\ UNCHANGED admins
  /\ Answer(r)
  /\ UNCHANGED unguarded

\* DeleteUser chooses the guarded statement by an unlocked read.
NeedsGuard(row) == IsActiveAdmin(row)
DeleteAccount(r, u) ==
  /\ Exists(u)
  /\ Begin(r, u, IF NeedsGuard(users[u]) THEN "delete" ELSE "delete_plain")
  /\ UNCHANGED <<users, login, history>>

DeletePlain(r) ==
  /\ pc[r] = "delete_plain"
  /\ IF Exists(target[r]) THEN Delete(target[r]) ELSE UNCHANGED <<users, login, shadow>>
  /\ unguarded' = (unguarded \/ target[r] \in ActiveAdmins)
  /\ Answer(r)
  /\ UNCHANGED admins

-----------------------------------------------------------------------------
(* Linked logins                                                           *)

\* LinkLogin: the insert decides, whatever the lookup before it said.
LinkLogin(u, i) ==
  /\ Exists(u) /\ i \notin DOMAIN login
  /\ login' = Added(login, i, u)
  /\ UNCHANGED <<users, request, history>>

\* UnlinkLogin: neither the primary login nor the last one.  (Mutant: the
\* primary is removable.)
LoginsOf(u) == {i \in DOMAIN login : login[i] = u}
MutantUnlinkable(u, i) == login[i] = u
Unlinkable(u, i) == login[i] = u /\ i # u /\ Cardinality(LoginsOf(u)) > 1
UnlinkLogin(u, i) ==
  /\ Exists(u) /\ i \in DOMAIN login /\ Unlinkable(u, i)
  /\ login' = Restrict(login, DOMAIN login \ {i})
  /\ UNCHANGED <<users, request, history>>

-----------------------------------------------------------------------------
(* Sign-in: upsertLoginTx, then the gates of provisionUser                 *)

\* GetUserByLogin.
SignIn(r, i) ==
  /\ pc[r] = "idle" /\ target' = [target EXCEPT ![r] = i]
  /\ IF i \in DOMAIN login
     THEN /\ pc' = [pc EXCEPT ![r] = "known"]
          /\ owner' = [owner EXCEPT ![r] = login[i]]
          /\ seen' = [seen EXCEPT ![r] = IF i = login[i] THEN NoRow ELSE users[login[i]]]
     ELSE pc' = [pc EXCEPT ![r] = "unknown"] /\ UNCHANGED <<owner, seen>>
  /\ UNCHANGED <<users, login, others, history>>

\* A login that was found is written back, which fails once its user is gone;
\* a primary login reads its user again, a linked one goes on with the row
\* of the lookup.
RefreshLogin(r) ==
  LET i == target[r]
      u == owner[r] IN
  /\ pc[r] = "known"
  /\ IF Exists(u)
     THEN /\ login' = Added(login, i, u)
          /\ pc' = [pc EXCEPT ![r] = "gate"]
          /\ target' = [target EXCEPT ![r] = u] /\ owner' = [owner EXCEPT ![r] = NoUser]
          /\ seen' = [seen EXCEPT ![r] = IF i = u THEN users[u] ELSE @]
          /\ UNCHANGED others
     ELSE UNCHANGED login /\ Answer(r)
  /\ UNCHANGED <<users, history>>

\* An account created anew has a new id: requests about the old one end first.
Forgotten(r, i) ==
  \A q \in Requests \ {r} : (target[q] = i => pc[q] = "unknown") /\ owner[q] # i

\* UpsertUser and UpsertLogin.  A login that appeared since the lookup keeps
\* its owner, and the new user has none.
NewUser == [role |-> "user", active |-> TRUE, status |-> "pending"]
CreateLogin(r) ==
  LET i == target[r]
      row == IF Exists(i) THEN users[i] ELSE NewUser IN
  /\ pc[r] = "unknown"
  /\ Exists(i) \/ Forgotten(r, i)
  /\ users' = Added(users, i, row)
  /\ login' = Added(login, i, i)
  /\ shadow' = IF Exists(i) \/ login'[i] = i THEN shadow ELSE shadow \cup {i}
  /\ pc' = [pc EXCEPT ![r] = "gate"] /\ seen' = [seen EXCEPT ![r] = row]
  /\ UNCHANGED <<target, owner, others, admins, unguarded>>

\* Promoted at every sign-in that finds it is no admin.
Listed(r) == target[r] \in AdminListed /\ seen[r].role # "admin"

\* The ban, then the approval gate, on the row that was read.
Gate(r) ==
  LET u == target[r] IN
  /\ pc[r] = "gate"
  /\ \/ /\ seen[r].active /\ seen[r].status = "pending"
        /\ \/ (u \in AdminListed \/ ~RequireApproval) /\ Goto(r, "approve_listed")
           \/ u \notin AdminListed /\ RequireApproval /\ ActiveAdmins = {} /\ GoOn(r, "approve_first")
           \/ u \notin AdminListed /\ RequireApproval /\ ActiveAdmins # {} /\ Answer(r)
     \/ /\ seen[r].active /\ seen[r].status = "approved"
        /\ IF Listed(r) THEN GoOn(r, "make_admin") ELSE Answer(r)
     \/ (~seen[r].active \/ seen[r].status = "denied") /\ Answer(r)
  /\ UNCHANGED <<users, login, history>>

\* Who is made an admin next.  (Mutant: listed users only.)
MutantThenAdmin(r) == Listed(r)
ThenAdmin(r) == pc[r] = "approve_first" \/ Listed(r)

\* approveProvisionedUser, whatever the status has become.
ApproveProvisioned(r) ==
  LET u == target[r] IN
  /\ pc[r] \in {"approve_listed", "approve_first"}
  /\ IF Exists(u)
     THEN /\ Update(u, [users[u] EXCEPT !.status = "approved"])
          /\ IF ThenAdmin(r) THEN GoOn(r, "make_admin") ELSE Answer(r)
     ELSE UNCHANGED users /\ Answer(r)
  /\ UNCHANGED <<login, history>>

\* SetUserRole, for the first administrator and for listed ones.
MakeAdmin(r) ==
  /\ pc[r] = "make_admin"
  /\ IF Exists(target[r]) THEN SetRole(target[r], "admin") ELSE UNCHANGED <<users, admins>>
  /\ Answer(r)
  /\ UNCHANGED <<login, shadow, unguarded>>

\* A statement fails, or the request is cancelled; what it wrote stays.
Fail(r) ==
  /\ pc[r] # "idle"
  /\ stopped' = (stopped \/ (pc[r] = "make_admin" /\ wasAdmin = {}))
  /\ Answer(r)
  /\ UNCHANGED <<users, login, wasAdmin, shadow, unguarded>>

Request(r) ==
  \/ \E u \in Users :
       \/ \E op \in Unlocked \cup {"demote", "deactivate"}, a \in Users : AdminMutation(r, op, a, u)
       \/ DeleteAccount(r, u) \/ SignIn(r, u)
  \/ MutateUnlocked(r) \/ LockAdminSet(r) \/ MutateLocked(r) \/ DeletePlain(r)
  \/ RefreshLogin(r) \/ CreateLogin(r) \/ Gate(r) \/ ApproveProvisioned(r) \/ MakeAdmin(r) \/ Fail(r)

Next ==
  \/ \E r \in Requests : Request(r)
  \/ \E u, i \in Users : LinkLogin(u, i) \/ UnlinkLogin(u, i)

Spec == Init /\ [][Next]_vars
-----------------------------------------------------------------------------
(* Properties                                                              *)

TypeOK ==
  /\ DOMAIN users \subseteq Users /\ DOMAIN login \subseteq Users
  /\ \A u \in DOMAIN users : users[u] \in [role : {"user", "admin"}, active : BOOLEAN,
                                           status : {"pending", "approved", "denied"}]
  /\ \A i \in DOMAIN login : Exists(login[i])
  /\ ActiveAdmins \subseteq wasAdmin /\ shadow \subseteq DOMAIN users

\* Once there is an active admin there always is one, whoever is demoted,
\* deactivated or deleted at the same time.  The exception is an account that
\* was promoted between DeleteUser's read and its plain DELETE.
AdminRemains == wasAdmin # {} /\ ~unguarded => ActiveAdmins # {}

\* "the first sign-in bootstraps as admin so a fresh install can never lock
\* out": with an account approved there is, or was, an admin, unless the
\* bootstrap stopped between its two writes.
BootstrapCompletes ==
  (\E u \in DOMAIN users : users[u].status = "approved")
     => \/ wasAdmin # {} \/ stopped
        \/ \E r \in Requests : pc[r] = "make_admin"

\* Every account can be signed in to, whatever is unlinked, linked or created
\* at the same time; only an account created while its identity was being
\* linked to another is out of reach.
LoginResolves == \A u \in DOMAIN users : LoginsOf(u) # {} \/ u \in shadow

\* Rows have their types, no login outlives its user, and no user its logins.
LoginsConsistent == TypeOK /\ LoginResolves

\* auth.go: "A denied status is an explicit admin decision and is never
\* undone here".
DenialNeverUndone ==
  [][\A r \in Requests : ApproveProvisioned(r) /\ Exists(target[r])
        => users[target[r]].status # "denied"]_vars
=============================================================================
