---------------------------- MODULE IdentityProofs ----------------------------
(***************************************************************************)
(* Theorems about Identity, for any number of accounts and overlapping     *)
(* requests: once there is an active admin there always is one, every      *)
(* account can be signed in to, and the bootstrap yields an admin.         *)
(***************************************************************************)
EXTENDS Identity, FiniteSetTheorems, TLAPS

UserRows == [role : {"user", "admin"}, active : BOOLEAN, status : {"pending", "approved", "denied"}]

Holders == {"demoting", "deactivating", "deleting"}
AdminPlaces == Unlocked \cup Locked \cup Holders
Places == AdminPlaces \cup {"idle", "delete_plain", "known", "unknown", "gate",
                            "approve_listed", "approve_first", "make_admin"}

UsersTyped ==
  /\ DOMAIN users \subseteq Users /\ wasAdmin \subseteq Users
  /\ \A u \in DOMAIN users : users[u] \in UserRows /\ (users[u].role = "admin" => u \in wasAdmin)

LoginsTyped ==
  /\ DOMAIN login \subseteq Users /\ \A i \in DOMAIN login : Exists(login[i])
  /\ shadow \subseteq DOMAIN users

RequestsTyped ==
  /\ pc \in [Requests -> Places] /\ target \in [Requests -> Users \cup {NoUser}]
  /\ owner \in [Requests -> Users \cup {NoUser}]
  /\ seen \in [Requests -> UserRows \cup {NoRow}]
  /\ others \in [Requests -> BOOLEAN]
  /\ \A r \in Requests : pc[r] \in {"known", "unknown"} => target[r] \in Users

\* The advisory lock has one holder.
OneHolder == \A r, q \in Requests : pc[r] \in Holders /\ pc[q] \in Holders => r = q

\* What its guarded statement saw still holds when it takes effect.
GuardHolds ==
  \A r \in Requests : pc[r] \in Holders /\ others[r] /\ ~unguarded => AnotherAdmin(target[r])

\* Before there is an admin nobody deactivates, and no admin mutation runs.
NoAdminYet ==
  wasAdmin = {} => /\ \A u \in DOMAIN users : users[u].active
                   /\ \A r \in Requests : pc[r] \notin AdminPlaces /\ seen[r].role # "admin"

\* Until then whoever is approved is about to become the first one.
ApprovedIsNext ==
  RequireApproval => \A u \in DOMAIN users : users[u].status = "approved" =>
    \/ wasAdmin # {} \/ stopped
    \/ \E r \in Requests : pc[r] = "make_admin" /\ target[r] = u

\* Without an admin, the gates approve only who is made an admin next.
FirstIsListed ==
  RequireApproval /\ wasAdmin = {} => \A r \in Requests : pc[r] = "approve_listed" => Listed(r)

AdminFacts == OneHolder /\ GuardHolds /\ NoAdminYet /\ AdminRemains
BootstrapFacts == ApprovedIsNext /\ FirstIsListed

IInv ==
  /\ UsersTyped /\ LoginsTyped /\ RequestsTyped
  /\ LoginResolves /\ AdminFacts /\ BootstrapFacts

-----------------------------------------------------------------------------

LEMMA InitHolds == Init => IInv
<1> SUFFICES ASSUME Init PROVE IInv
  OBVIOUS
<1>1. UsersTyped /\ LoginsTyped /\ LoginResolves
  BY DEF Init, UsersTyped, LoginsTyped, LoginResolves
<1>2. RequestsTyped
  BY DEF Init, RequestsTyped, Places
<1>3. AdminFacts
  BY DEF Init, AdminFacts, OneHolder, GuardHolds, NoAdminYet, AdminRemains, Holders, AdminPlaces,
         Unlocked, Locked, NoRow
<1>4. BootstrapFacts
  BY DEF Init, BootstrapFacts, ApprovedIsNext, FirstIsListed
<1>5. QED
  BY <1>1, <1>2, <1>3, <1>4 DEF IInv

\* Where a request may go with what it knows.
Moves(r, to) ==
  /\ pc' = [pc EXCEPT ![r] = to] /\ to \in Places \ Holders
  /\ \E x \in Users \cup {NoUser} : target' = [target EXCEPT ![r] = x]
  /\ \E x \in Users \cup {NoUser} : owner' = [owner EXCEPT ![r] = x]
  /\ \E x \in UserRows \cup {NoRow} : seen' = [seen EXCEPT ![r] = x]
  /\ \E x \in BOOLEAN : others' = [others EXCEPT ![r] = x]
  /\ to \in {"known", "unknown"} => target'[r] \in Users

LEMMA MoveKeepsTypes ==
  ASSUME RequestsTyped, NEW r \in Requests, NEW to \in Places, Moves(r, to)
  PROVE  /\ RequestsTyped'
         /\ pc'[r] = to
         /\ \A q \in Requests \ {r} : /\ pc'[q] = pc[q] /\ target'[q] = target[q]
                                      /\ seen'[q] = seen[q] /\ others'[q] = others[q]
<1>1. /\ target' \in [Requests -> Users \cup {NoUser}]
      /\ \A q \in Requests \ {r} : target'[q] = target[q]
  BY DEF Moves, RequestsTyped
<1>2. owner' \in [Requests -> Users \cup {NoUser}]
  BY DEF Moves, RequestsTyped
<1>3. seen' \in [Requests -> UserRows \cup {NoRow}] /\ \A q \in Requests \ {r} : seen'[q] = seen[q]
  BY DEF Moves, RequestsTyped
<1>4. others' \in [Requests -> BOOLEAN] /\ \A q \in Requests \ {r} : others'[q] = others[q]
  BY DEF Moves, RequestsTyped
<1>5. pc' \in [Requests -> Places] /\ pc'[r] = to /\ \A q \in Requests \ {r} : pc'[q] = pc[q]
  BY DEF Moves, RequestsTyped
<1>6. QED
  BY <1>1, <1>2, <1>3, <1>4, <1>5 DEF Moves, RequestsTyped

\* A step takes no active admin away, unless it is noted, and lets r go on to
\* a place without the advisory lock.
LEMMA AdminsKept ==
  ASSUME IInv, NEW r \in Requests, NEW to \in Places \ Holders, Moves(r, to),
         unguarded => unguarded', ~unguarded' => ActiveAdmins \subseteq ActiveAdmins',
         wasAdmin \subseteq wasAdmin',
         wasAdmin' # {} /\ wasAdmin = {} => ActiveAdmins' # {},
         wasAdmin' = {} => /\ \A u \in DOMAIN users' : users'[u].active
                           /\ to \notin AdminPlaces /\ seen'[r].role # "admin"
  PROVE  AdminFacts'
<1>1. /\ pc'[r] = to
      /\ \A q \in Requests \ {r} : /\ pc'[q] = pc[q] /\ target'[q] = target[q]
                                   /\ seen'[q] = seen[q] /\ others'[q] = others[q]
  BY MoveKeepsTypes DEF IInv
<1>2. OneHolder' /\ GuardHolds'
  BY <1>1 DEF IInv, AdminFacts, OneHolder, GuardHolds, AnotherAdmin
<1>3. NoAdminYet'
  BY <1>1 DEF IInv, AdminFacts, NoAdminYet
<1>4. AdminRemains'
  BY DEF IInv, AdminFacts, AdminRemains
<1>5. QED
  BY <1>2, <1>3, <1>4 DEF AdminFacts

\* Nobody is approved but who is made an admin next.
LEMMA BootstrapKept ==
  ASSUME IInv, NEW r \in Requests, NEW to \in Places \ Holders, Moves(r, to),
         wasAdmin \subseteq wasAdmin', stopped /\ wasAdmin' = {} => stopped',
         \A u \in DOMAIN users' : users'[u].status = "approved" /\ wasAdmin' = {} /\ RequireApproval =>
           \/ u \in DOMAIN users /\ users[u].status = "approved" /\ (pc[r] = "make_admin" => target[r] # u)
           \/ stopped'
           \/ to = "make_admin" /\ target'[r] = u,
         to = "approve_listed" /\ RequireApproval /\ wasAdmin' = {} => Listed(r)'
  PROVE  BootstrapFacts'
<1>1. /\ pc'[r] = to
      /\ \A q \in Requests \ {r} : /\ pc'[q] = pc[q] /\ target'[q] = target[q]
                                   /\ seen'[q] = seen[q] /\ others'[q] = others[q]
  BY MoveKeepsTypes DEF IInv
<1>2. ApprovedIsNext'
  <2>1. SUFFICES ASSUME RequireApproval, NEW u \in DOMAIN users', users'[u].status = "approved",
                        wasAdmin' = {}, ~stopped'
                 PROVE  \E q \in Requests : pc'[q] = "make_admin" /\ target'[q] = u
    BY DEF ApprovedIsNext
  <2>2. CASE to = "make_admin" /\ target'[r] = u
    BY <1>1, <2>2
  <2>3. CASE u \in DOMAIN users /\ users[u].status = "approved" /\ (pc[r] = "make_admin" => target[r] # u)
    <3>1. wasAdmin = {} /\ ~stopped
      BY <2>1
    <3>2. PICK q \in Requests : pc[q] = "make_admin" /\ target[q] = u
      BY <2>1, <2>3, <3>1 DEF IInv, BootstrapFacts, ApprovedIsNext
    <3>3. QED
      BY <1>1, <2>3, <3>2
  <2>4. QED
    BY <2>1, <2>2, <2>3
<1>3. FirstIsListed'
  BY <1>1 DEF IInv, BootstrapFacts, FirstIsListed, Listed
<1>4. QED
  BY <1>2, <1>3 DEF BootstrapFacts

\* The ways a request moves.
LEMMA MovesOfSteps ==
  ASSUME RequestsTyped, NEW r \in Requests, NEW to \in Places \ Holders
  PROVE  /\ Answer(r) => Moves(r, "idle") /\ seen'[r] = NoRow
         /\ Goto(r, to) /\ to \notin {"known", "unknown"} => Moves(r, to) /\ UNCHANGED <<target, seen>>
         /\ GoOn(r, to) /\ to \notin {"known", "unknown"} =>
              Moves(r, to) /\ UNCHANGED target /\ seen'[r] = NoRow
         /\ \A u \in Users : Begin(r, u, to) => Moves(r, to) /\ UNCHANGED seen
<1>1. /\ target = [target EXCEPT ![r] = target[r]] /\ target[r] \in Users \cup {NoUser}
      /\ owner = [owner EXCEPT ![r] = owner[r]] /\ owner[r] \in Users \cup {NoUser}
      /\ seen = [seen EXCEPT ![r] = seen[r]] /\ seen[r] \in UserRows \cup {NoRow}
      /\ others = [others EXCEPT ![r] = others[r]] /\ others[r] \in BOOLEAN
  BY DEF RequestsTyped
<1>2. Answer(r) => Moves(r, "idle") /\ seen'[r] = NoRow
  BY DEF RequestsTyped, Answer, Moves, Places, Holders
<1>3. Goto(r, to) /\ to \notin {"known", "unknown"} => Moves(r, to) /\ UNCHANGED <<target, seen>>
  BY <1>1 DEF Goto, Moves
<1>4. GoOn(r, to) /\ to \notin {"known", "unknown"} => Moves(r, to) /\ UNCHANGED target /\ seen'[r] = NoRow
  BY <1>1 DEF RequestsTyped, GoOn, Moves
<1>5. ASSUME NEW u \in Users, Begin(r, u, to) PROVE Moves(r, to) /\ UNCHANGED seen
  <2>1. target' = [target EXCEPT ![r] = u] /\ target'[r] = u
    BY <1>5 DEF RequestsTyped, Begin
  <2>2. QED
    BY <1>1, <1>5, <2>1 DEF Begin, Moves
<1>6. QED
  BY <1>2, <1>3, <1>4, <1>5

\* A request moves, and the tables stay.
LEMMA RequestOnly ==
  ASSUME IInv, NEW r \in Requests, NEW to \in Places \ Holders, Moves(r, to),
         UNCHANGED <<users, login, wasAdmin, shadow>>, unguarded => unguarded', stopped => stopped',
         pc[r] = "make_admin" => wasAdmin # {} \/ stopped' \/ ~Exists(target[r]),
         wasAdmin = {} => to \notin AdminPlaces /\ seen'[r].role # "admin",
         to = "approve_listed" /\ RequireApproval /\ wasAdmin = {} => Listed(r)'
  PROVE  IInv'
<1>1. UsersTyped' /\ LoginsTyped' /\ LoginResolves'
  BY DEF IInv, UsersTyped, LoginsTyped, LoginResolves, LoginsOf, Exists
<1>2. RequestsTyped'
  BY MoveKeepsTypes DEF IInv
<1>3. ActiveAdmins' = ActiveAdmins
  BY DEF ActiveAdmins
<1>4. AdminFacts'
  BY <1>3, AdminsKept DEF IInv, AdminFacts, NoAdminYet
<1>5. BootstrapFacts'
  BY BootstrapKept DEF IInv, Exists
<1>6. QED
  BY <1>1, <1>2, <1>4, <1>5 DEF IInv

\* A row of identity.users is updated by a statement that is not a guarded one.
LEMMA RowChanged ==
  ASSUME IInv, NEW r \in Requests, NEW to \in Places \ Holders, Moves(r, to),
         NEW u \in DOMAIN users, NEW row \in UserRows, Update(u, row),
         IsActiveAdmin(users[u]) => IsActiveAdmin(row),
         wasAdmin' = IF row.role = "admin" THEN wasAdmin \cup {u} ELSE wasAdmin,
         row.role = "admin" /\ wasAdmin = {} => row.active,
         UNCHANGED <<login, shadow, unguarded>>,
         stopped' = IF wasAdmin' = {} THEN stopped ELSE stopped',
         wasAdmin' = {} => row.active /\ to \notin AdminPlaces /\ seen'[r].role # "admin",
         pc[r] = "make_admin" => wasAdmin' # {},
         wasAdmin' = {} /\ RequireApproval /\ row.status = "approved" =>
           users[u].status = "approved" \/ (to = "make_admin" /\ target'[r] = u),
         to = "approve_listed" /\ RequireApproval /\ wasAdmin' = {} => Listed(r)'
  PROVE  IInv'
<1>1. /\ DOMAIN users' = DOMAIN users /\ users'[u] = row
      /\ \A v \in DOMAIN users \ {u} : users'[v] = users[v]
  BY DEF Update
<1>2. UsersTyped'
  BY <1>1 DEF IInv, UsersTyped
<1>3. LoginsTyped' /\ LoginResolves'
  BY <1>1 DEF IInv, LoginsTyped, LoginResolves, LoginsOf, Exists
<1>4. RequestsTyped'
  BY MoveKeepsTypes DEF IInv
<1>5. ActiveAdmins \subseteq ActiveAdmins' /\ (IsActiveAdmin(row) => u \in ActiveAdmins')
  BY <1>1 DEF ActiveAdmins
<1>6. wasAdmin' # {} /\ wasAdmin = {} => ActiveAdmins' # {}
  BY <1>5 DEF IsActiveAdmin
<1>7. wasAdmin' = {} => \A v \in DOMAIN users' : users'[v].active
  BY <1>1 DEF IInv, AdminFacts, NoAdminYet
<1>8. AdminFacts'
  BY <1>5, <1>6, <1>7, AdminsKept
<1>9. BootstrapFacts'
  BY <1>1, BootstrapKept
<1>10. QED
  BY <1>2, <1>3, <1>4, <1>8, <1>9 DEF IInv

\* An account goes, with its logins.
LEMMA AccountDeleted ==
  ASSUME IInv, NEW r \in Requests, Answer(r), NEW u \in DOMAIN users, Delete(u),
         UNCHANGED admins,
         unguarded => unguarded', pc[r] = "delete_plain" /\ u \in ActiveAdmins => unguarded',
         \/ pc[r] = "delete_plain"
         \/ pc[r] = "deleting" /\ target[r] = u /\ (~IsActiveAdmin(users[u]) \/ others[r])
  PROVE  IInv'
<1>1. /\ DOMAIN users' = DOMAIN users \ {u} /\ \A v \in DOMAIN users' : users'[v] = users[v]
      /\ DOMAIN login' = {i \in DOMAIN login : login[i] # u} /\ \A i \in DOMAIN login' : login'[i] = login[i]
      /\ shadow' = shadow \ {u}
  BY DEF Delete, Restrict
<1>2. UsersTyped' /\ LoginsTyped'
  BY <1>1 DEF IInv, UsersTyped, LoginsTyped, Exists, admins
<1>3. LoginResolves'
  BY <1>1 DEF IInv, LoginResolves, LoginsOf
<1>4. RequestsTyped' /\ Moves(r, "idle") /\ seen'[r] = NoRow
  BY MovesOfSteps, MoveKeepsTypes DEF IInv, Places, Holders, AdminPlaces, Unlocked, Locked
<1>5. /\ pc'[r] = "idle"
      /\ \A q \in Requests \ {r} : /\ pc'[q] = pc[q] /\ target'[q] = target[q]
                                   /\ seen'[q] = seen[q] /\ others'[q] = others[q]
  BY <1>4, MoveKeepsTypes DEF IInv, Places
<1>6. ActiveAdmins' = ActiveAdmins \ {u}
  BY <1>1 DEF ActiveAdmins
<1>7. AdminFacts'
  <2>1. OneHolder'
    BY <1>5 DEF IInv, AdminFacts, OneHolder, Holders
  <2>2. NoAdminYet'
    BY <1>1, <1>4, <1>5 DEF IInv, AdminFacts, NoAdminYet, NoRow, admins, AdminPlaces, Unlocked, Locked, Holders
  <2>3. ~unguarded' => u \notin ActiveAdmins \/ AnotherAdmin(u)
    BY DEF IInv, AdminFacts, GuardHolds, Holders, ActiveAdmins
  <2>4. AdminRemains'
    BY <1>6, <2>3 DEF IInv, AdminFacts, AdminRemains, AnotherAdmin, admins
  <2>5. GuardHolds'
    <3>1. SUFFICES ASSUME NEW q \in Requests, pc'[q] \in Holders, others'[q], ~unguarded'
                   PROVE  ActiveAdmins' \ {target'[q]} # {}
      BY DEF GuardHolds, AnotherAdmin
    <3>2. q # r /\ pc[q] \in Holders /\ others[q] /\ target'[q] = target[q] /\ ~unguarded
      BY <1>5, <3>1 DEF Holders
    <3>3. pc[r] = "delete_plain"
      BY <3>2 DEF IInv, AdminFacts, OneHolder, Holders
    <3>4. ActiveAdmins' = ActiveAdmins
      BY <1>6, <3>1, <3>3
    <3>5. QED
      BY <3>2, <3>4 DEF IInv, AdminFacts, GuardHolds, AnotherAdmin
  <2>6. QED
    BY <2>1, <2>2, <2>4, <2>5 DEF AdminFacts
<1>8. BootstrapFacts'
  BY <1>1, <1>4, BootstrapKept DEF admins, Places, Holders
<1>9. QED
  BY <1>2, <1>3, <1>4, <1>7, <1>8 DEF IInv

\* A login is added, if it is not there.
LEMMA LoginAdded ==
  ASSUME IInv, NEW i \in Users, NEW u \in DOMAIN users, login' = Added(login, i, u),
         UNCHANGED <<users, shadow>>
  PROVE  LoginsTyped' /\ LoginResolves'
<1>1. /\ DOMAIN login' = DOMAIN login \cup {i} /\ \A j \in DOMAIN login : login'[j] = login[j]
      /\ \A j \in DOMAIN login' : j \notin DOMAIN login => login'[j] = u
  BY DEF Added
<1>2. LoginsTyped'
  BY <1>1 DEF IInv, LoginsTyped, Exists
<1>3. LoginResolves'
  BY <1>1 DEF IInv, LoginResolves, LoginsOf
<1>4. QED
  BY <1>2, <1>3

\* Only logins change, and no request moves.
LEMMA LoginsOnly ==
  ASSUME IInv, LoginsTyped', LoginResolves', UNCHANGED <<users, request, history>>
  PROVE  IInv'
<1>1. UsersTyped' /\ RequestsTyped'
  BY DEF IInv, UsersTyped, RequestsTyped, request, history
<1>2. AdminFacts'
  BY DEF IInv, AdminFacts, OneHolder, GuardHolds, NoAdminYet, AdminRemains, AnotherAdmin,
         ActiveAdmins, request, history
<1>3. BootstrapFacts'
  BY DEF IInv, BootstrapFacts, ApprovedIsNext, FirstIsListed, Listed, request, history
<1>4. QED
  BY <1>1, <1>2, <1>3 DEF IInv

LEMMA UnlinkKeeps ==
  ASSUME IInv, NEW u \in Users, NEW i \in Users, UnlinkLogin(u, i)
  PROVE  IInv'
<1>1. /\ i \in DOMAIN login /\ login[i] = u /\ i # u /\ Cardinality(LoginsOf(u)) > 1
      /\ login' = Restrict(login, DOMAIN login \ {i}) /\ UNCHANGED <<users, request, history>>
  BY DEF UnlinkLogin, Unlinkable
<1>2. DOMAIN login' = DOMAIN login \ {i} /\ \A j \in DOMAIN login' : login'[j] = login[j]
  BY <1>1 DEF Restrict
<1>3. LoginsTyped'
  BY <1>1, <1>2 DEF IInv, LoginsTyped, Exists, history
<1>4. LoginsOf(u) \ {i} # {}
  <2>1. SUFFICES ASSUME LoginsOf(u) = {i} PROVE FALSE
    BY <1>1 DEF LoginsOf
  <2>2. Cardinality({i}) = 1
    BY FS_Singleton
  <2>3. QED
    BY <1>1, <2>1, <2>2
<1>5. LoginResolves'
  <2>1. \A v \in DOMAIN users : LoginsOf(v)' = LoginsOf(v) \ {i}
    BY <1>2 DEF LoginsOf
  <2>2. \A v \in DOMAIN users \ {u} : i \notin LoginsOf(v)
    BY <1>1 DEF LoginsOf
  <2>3. QED
    BY <1>1, <1>4, <2>1, <2>2 DEF IInv, LoginResolves, history
<1>6. QED
  BY <1>1, <1>3, <1>5, LoginsOnly

LEMMA LinkKeeps ==
  ASSUME IInv, NEW u \in Users, NEW i \in Users, LinkLogin(u, i)
  PROVE  IInv'
BY LoginAdded, LoginsOnly DEF LinkLogin, Exists, history

LEMMA RefreshLoginKeeps ==
  ASSUME IInv, NEW r \in Requests, RefreshLogin(r)
  PROVE  IInv'
<1> DEFINE i == target[r]
           u == owner[r]
<1>1. pc[r] = "known" /\ i \in Users /\ UNCHANGED <<users, history>>
  BY DEF RefreshLogin, IInv, RequestsTyped
<1>2. CASE Exists(u)
  <2>1. /\ login' = Added(login, i, u) /\ pc' = [pc EXCEPT ![r] = "gate"]
        /\ target' = [target EXCEPT ![r] = u] /\ owner' = [owner EXCEPT ![r] = NoUser]
        /\ seen' = [seen EXCEPT ![r] = IF i = u THEN users[u] ELSE seen[r]] /\ UNCHANGED others
    BY <1>2 DEF RefreshLogin, IInv, RequestsTyped
  <2>2. u \in Users /\ users[u] \in UserRows /\ seen[r] \in UserRows \cup {NoRow}
        /\ (users[u].role = "admin" => wasAdmin # {})
    BY <1>2 DEF Exists, IInv, UsersTyped, RequestsTyped
  <2>3. others = [others EXCEPT ![r] = others[r]] /\ others[r] \in BOOLEAN
    BY DEF IInv, RequestsTyped
  <2>4. Moves(r, "gate")
    BY <2>1, <2>2, <2>3 DEF Moves, Places, Holders
  <2>5. LoginsTyped' /\ LoginResolves'
    BY <1>1, <1>2, <2>1, LoginAdded DEF Exists, history
  <2>6. wasAdmin = {} => seen'[r].role # "admin"
    BY <2>1, <2>2 DEF IInv, RequestsTyped, AdminFacts, NoAdminYet
  <2>7. AdminFacts'
    BY <1>1, <2>4, <2>6, AdminsKept
       DEF history, ActiveAdmins, IInv, AdminFacts, NoAdminYet, Places, Holders, AdminPlaces, Unlocked, Locked
  <2>8. BootstrapFacts'
    BY <1>1, <2>4, BootstrapKept DEF history, Places, Holders
  <2>9. UsersTyped' /\ RequestsTyped'
    BY <1>1, <2>4, MoveKeepsTypes DEF IInv, UsersTyped, history, Places
  <2>10. QED
    BY <2>5, <2>7, <2>8, <2>9 DEF IInv
<1>3. CASE ~Exists(u)
  <2>1. Answer(r) /\ UNCHANGED login
    BY <1>3 DEF RefreshLogin
  <2>2. Moves(r, "idle") /\ seen'[r] = NoRow
    BY <2>1, MovesOfSteps DEF IInv, Places, Holders
  <2>3. QED
    BY <1>1, <2>1, <2>2, RequestOnly
       DEF history, Places, Holders, AdminPlaces, Unlocked, Locked, NoRow
<1>4. QED
  BY <1>2, <1>3

LEMMA CreateLoginKeeps ==
  ASSUME IInv, NEW r \in Requests, CreateLogin(r)
  PROVE  IInv'
<1> DEFINE i == target[r]
           row == IF Exists(i) THEN users[i] ELSE NewUser
<1>1. /\ pc[r] = "unknown" /\ i \in Users
      /\ users' = Added(users, i, row) /\ login' = Added(login, i, i)
      /\ shadow' = IF Exists(i) \/ login'[i] = i THEN shadow ELSE shadow \cup {i}
      /\ pc' = [pc EXCEPT ![r] = "gate"] /\ seen' = [seen EXCEPT ![r] = row]
      /\ UNCHANGED <<target, owner, others, admins, unguarded>>
  BY DEF CreateLogin, IInv, RequestsTyped
<1>2. row \in UserRows /\ (row.role = "admin" => Exists(i))
      /\ (~Exists(i) => row.active /\ row.status = "pending")
  BY DEF NewUser, UserRows, Exists, IInv, UsersTyped
<1>3. /\ DOMAIN users' = DOMAIN users \cup {i} /\ users'[i] = row
      /\ \A v \in DOMAIN users : users'[v] = users[v]
  BY <1>1 DEF Added, Exists
<1>4. /\ DOMAIN login' = DOMAIN login \cup {i} /\ \A j \in DOMAIN login : login'[j] = login[j]
      /\ i \notin DOMAIN login => login'[i] = i
  BY <1>1 DEF Added
<1>5. UsersTyped'
  <2>1. \A v \in DOMAIN users' : users'[v] \in UserRows /\ (users'[v].role = "admin" => v \in wasAdmin)
    BY <1>2, <1>3 DEF IInv, UsersTyped, Exists
  <2>2. QED
    BY <1>1, <1>3, <2>1 DEF IInv, UsersTyped, admins
<1>6. LoginsTyped'
  BY <1>1, <1>3, <1>4 DEF IInv, LoginsTyped, Exists
<1>7. LoginResolves'
  <2>1. ASSUME NEW v \in DOMAIN users' PROVE LoginsOf(v)' # {} \/ v \in shadow'
    <3>1. CASE v \in DOMAIN users
      BY <1>1, <1>4, <3>1 DEF IInv, LoginResolves, LoginsOf
    <3>2. CASE v = i /\ ~Exists(i)
      BY <1>1, <1>4, <3>2 DEF LoginsOf
    <3>3. QED
      BY <1>3, <2>1, <3>1, <3>2 DEF Exists
  <2>2. QED
    BY <2>1 DEF LoginResolves
<1>8. Moves(r, "gate")
  <2>1. /\ target = [target EXCEPT ![r] = target[r]] /\ target[r] \in Users \cup {NoUser}
        /\ owner = [owner EXCEPT ![r] = owner[r]] /\ owner[r] \in Users \cup {NoUser}
        /\ others = [others EXCEPT ![r] = others[r]] /\ others[r] \in BOOLEAN
    BY DEF IInv, RequestsTyped
  <2>2. QED
    <3> HIDE DEF row
    <3>1. QED
      BY <1>1, <1>2, <2>1 DEF Moves, Places, Holders
<1>9. seen'[r] = row
  BY <1>1 DEF IInv, RequestsTyped
<1>10. wasAdmin' = wasAdmin /\ stopped' = stopped /\ unguarded' = unguarded
  BY <1>1 DEF admins
<1>11. AdminFacts'
  <2>1. ActiveAdmins \subseteq ActiveAdmins'
    BY <1>3 DEF ActiveAdmins
  <2>2. wasAdmin = {} => row.role # "admin" /\ \A v \in DOMAIN users' : users'[v].active
    BY <1>2, <1>3 DEF Exists, IInv, UsersTyped, AdminFacts, NoAdminYet
  <2>3. QED
    BY <1>8, <1>9, <1>10, <2>1, <2>2, AdminsKept DEF Places, Holders, AdminPlaces, Unlocked, Locked
<1>12. BootstrapFacts'
  <2>1. \A v \in DOMAIN users' : users'[v].status = "approved" => v \in DOMAIN users /\ users[v].status = "approved"
    BY <1>2, <1>3 DEF Exists
  <2>2. QED
    BY <1>1, <1>8, <1>10, <2>1, BootstrapKept DEF Places, Holders
<1>13. RequestsTyped'
  BY <1>8, MoveKeepsTypes DEF IInv, Places
<1>14. QED
  BY <1>5, <1>6, <1>7, <1>11, <1>12, <1>13 DEF IInv

\* A request that ends leaves the tables, or was about to make an account an
\* admin that is gone, or leaves a bootstrap stopped.
LEMMA EndKeeps ==
  ASSUME IInv, NEW r \in Requests, Answer(r), UNCHANGED <<users, login, wasAdmin, shadow>>,
         unguarded => unguarded', stopped => stopped',
         pc[r] = "make_admin" => wasAdmin # {} \/ stopped' \/ ~Exists(target[r])
  PROVE  IInv'
<1>1. Moves(r, "idle") /\ seen'[r] = NoRow
  BY MovesOfSteps DEF IInv, Places, Holders
<1>2. QED
  BY <1>1, RequestOnly DEF Places, Holders, AdminPlaces, Unlocked, Locked, NoRow

LEMMA BeginKeeps ==
  ASSUME IInv, NEW r \in Requests,
         \/ \E op \in Unlocked \cup {"demote", "deactivate"}, a, u \in Users : AdminMutation(r, op, a, u)
         \/ \E u \in Users : DeleteAccount(r, u) \/ SignIn(r, u)
  PROVE  IInv'
<1>1. ASSUME NEW op \in Unlocked \cup {"demote", "deactivate"}, NEW a \in Users, NEW u \in Users,
             AdminMutation(r, op, a, u)
      PROVE  IInv'
  <2>1. op \in Places \ Holders /\ op \notin {"known", "unknown", "approve_listed"}
    BY DEF Places, Holders, AdminPlaces, Unlocked, Locked
  <2>2. Moves(r, op) /\ pc[r] = "idle" /\ wasAdmin # {} /\ UNCHANGED <<users, login, history>>
    BY <1>1, <2>1, MovesOfSteps DEF AdminMutation, Begin, IInv
  <2>3. QED
    BY <2>1, <2>2, RequestOnly DEF history
<1>2. ASSUME NEW u \in Users, DeleteAccount(r, u) PROVE IInv'
  <2> DEFINE to == IF NeedsGuard(users[u]) THEN "delete" ELSE "delete_plain"
  <2>1. to \in Places \ Holders /\ to \notin {"known", "unknown", "approve_listed"}
    BY DEF Places, Holders, AdminPlaces, Unlocked, Locked
  <2>2. Begin(r, u, to) /\ pc[r] = "idle" /\ UNCHANGED <<users, login, history>> /\ Exists(u)
    BY <1>2 DEF DeleteAccount, Begin
  <2>3. Moves(r, to) /\ UNCHANGED seen
    <3> HIDE DEF to
    <3>1. QED
      BY <2>1, <2>2, MovesOfSteps DEF IInv
  <2>4. wasAdmin = {} => to = "delete_plain" /\ seen[r].role # "admin"
    BY <2>2 DEF NeedsGuard, IsActiveAdmin, IInv, UsersTyped, Exists, AdminFacts, NoAdminYet
  <2>5. QED
    BY <2>1, <2>2, <2>3, <2>4, RequestOnly DEF history, AdminPlaces, Unlocked, Locked, Holders
<1>3. ASSUME NEW i \in Users, SignIn(r, i) PROVE IInv'
  <2>1. /\ pc[r] = "idle" /\ target' = [target EXCEPT ![r] = i] /\ target'[r] = i
        /\ UNCHANGED <<users, login, others, history>>
        /\ others = [others EXCEPT ![r] = others[r]] /\ others[r] \in BOOLEAN
        /\ owner = [owner EXCEPT ![r] = owner[r]] /\ owner[r] \in Users \cup {NoUser}
        /\ seen = [seen EXCEPT ![r] = seen[r]] /\ seen[r] \in UserRows \cup {NoRow}
    BY <1>3 DEF SignIn, IInv, RequestsTyped
  <2>2. CASE i \in DOMAIN login
    <3> DEFINE row == IF i = login[i] THEN NoRow ELSE users[login[i]]
    <3>1. /\ pc' = [pc EXCEPT ![r] = "known"] /\ owner' = [owner EXCEPT ![r] = login[i]]
          /\ seen' = [seen EXCEPT ![r] = row]
      BY <1>3, <2>2 DEF SignIn
    <3>2. login[i] \in Users /\ row \in UserRows \cup {NoRow} /\ (wasAdmin = {} => row.role # "admin")
      BY <2>2 DEF IInv, LoginsTyped, UsersTyped, Exists, NoRow
    <3>3. Moves(r, "known") /\ seen'[r] = row
      <4> HIDE DEF row
      <4>1. QED
        BY <2>1, <3>1, <3>2 DEF Moves, Places, Holders, IInv, RequestsTyped
    <3>4. QED
      BY <2>1, <3>2, <3>3, RequestOnly DEF history, Places, Holders, AdminPlaces, Unlocked, Locked
  <2>3. CASE i \notin DOMAIN login
    <3>1. pc' = [pc EXCEPT ![r] = "unknown"] /\ UNCHANGED <<owner, seen>>
      BY <1>3, <2>3 DEF SignIn
    <3>2. Moves(r, "unknown")
      BY <2>1, <3>1 DEF Moves, Places, Holders
    <3>3. wasAdmin = {} => seen'[r].role # "admin"
      BY <3>1 DEF IInv, AdminFacts, NoAdminYet
    <3>4. QED
      BY <2>1, <3>2, <3>3, RequestOnly DEF history, Places, Holders, AdminPlaces, Unlocked, Locked
  <2>4. QED
    BY <2>2, <2>3
<1>4. QED
  BY <1>1, <1>2, <1>3

LEMMA MutateUnlockedKeeps ==
  ASSUME IInv, NEW r \in Requests, MutateUnlocked(r)
  PROVE  IInv'
<1> DEFINE u == target[r]
<1>1. pc[r] \in Unlocked /\ Answer(r) /\ UNCHANGED <<login, shadow, unguarded>>
  BY DEF MutateUnlocked
<1>2. wasAdmin # {} /\ pc[r] # "make_admin" /\ pc[r] \notin Holders
  BY <1>1 DEF IInv, AdminFacts, NoAdminYet, AdminPlaces, Unlocked, Holders
<1>3. CASE ~Exists(u) /\ UNCHANGED <<users, admins>>
  BY <1>1, <1>2, <1>3, EndKeeps DEF admins
<1>4. ASSUME Exists(u), NEW row \in UserRows, Update(u, row),
             IsActiveAdmin(users[u]) => IsActiveAdmin(row),
             wasAdmin' = IF row.role = "admin" THEN wasAdmin \cup {u} ELSE wasAdmin
      PROVE  IInv'
  <2>1. Moves(r, "idle") /\ seen'[r] = NoRow /\ "idle" \in Places \ Holders
    BY <1>1, MovesOfSteps DEF IInv, Places, Holders
  <2>2. u \in DOMAIN users
    BY <1>4 DEF Exists
  <2>3. wasAdmin' # {}
    BY <1>2, <1>4
  <2>4. QED
    <3> HIDE DEF u
    <3>1. QED
      BY <1>1, <1>2, <1>4, <2>1, <2>2, <2>3, RowChanged
<1>5. CASE Exists(u) /\ pc[r] = "promote" /\ SetRole(u, "admin")
  <2>1. [users[u] EXCEPT !.role = "admin"] \in UserRows /\ [users[u] EXCEPT !.role = "admin"].role = "admin"
        /\ [users[u] EXCEPT !.role = "admin"].active = users[u].active
    BY <1>5 DEF Exists, IInv, UsersTyped, UserRows
  <2>2. QED
    BY <1>4, <1>5, <2>1 DEF SetRole, IsActiveAdmin
<1>6. CASE /\ Exists(u) /\ pc[r] = "activate" /\ UNCHANGED admins
           /\ Update(u, [users[u] EXCEPT !.active = TRUE])
  <2>1. /\ [users[u] EXCEPT !.active = TRUE] \in UserRows /\ [users[u] EXCEPT !.active = TRUE].active
        /\ [users[u] EXCEPT !.active = TRUE].role = users[u].role
        /\ users[u].role = "admin" => u \in wasAdmin
    BY <1>6 DEF Exists, IInv, UsersTyped, UserRows
  <2>2. QED
    BY <1>4, <1>6, <2>1 DEF IsActiveAdmin, admins
<1>7. ASSUME Exists(u), UNCHANGED admins, NEW status \in {"approved", "denied"},
             Update(u, [users[u] EXCEPT !.status = status])
      PROVE  IInv'
  <2>1. /\ [users[u] EXCEPT !.status = status] \in UserRows
        /\ [users[u] EXCEPT !.status = status].active = users[u].active
        /\ [users[u] EXCEPT !.status = status].role = users[u].role
        /\ users[u].role = "admin" => u \in wasAdmin
    BY <1>7 DEF Exists, IInv, UsersTyped, UserRows
  <2>2. QED
    BY <1>4, <1>7, <2>1 DEF IsActiveAdmin, admins
<1>8. CASE /\ Exists(u) /\ pc[r] \in {"approve", "deny"} /\ UNCHANGED admins
           /\ Update(u, [users[u] EXCEPT !.status = IF pc[r] = "deny" THEN "denied" ELSE "approved"])
  BY <1>7, <1>8
<1>9. QED
  BY <1>3, <1>5, <1>6, <1>8 DEF MutateUnlocked

LEMMA LockAdminSetKeeps ==
  ASSUME IInv, NEW r \in Requests, LockAdminSet(r)
  PROVE  IInv'
<1>1. /\ pc[r] \in Locked /\ AdminSetFree /\ pc' = [pc EXCEPT ![r] = Locking(pc[r])]
      /\ others' = [others EXCEPT ![r] = AnotherAdmin(target[r])]
      /\ UNCHANGED <<users, login, target, owner, seen, history>>
  BY DEF LockAdminSet
<1>2. Locking(pc[r]) \in Holders
  BY <1>1 DEF Locking, Locked, Holders
<1>3. /\ pc'[r] \in Holders /\ \A q \in Requests \ {r} : pc'[q] = pc[q] /\ pc[q] \notin Holders
  BY <1>1, <1>2 DEF IInv, RequestsTyped, AdminSetFree, Holders
<1>4. RequestsTyped'
  <2>1. pc' \in [Requests -> Places]
    BY <1>1, <1>2 DEF IInv, RequestsTyped, Places, AdminPlaces
  <2>2. others' \in [Requests -> BOOLEAN]
    BY <1>1 DEF IInv, RequestsTyped, AnotherAdmin
  <2>3. \A q \in Requests : pc'[q] \in {"known", "unknown"} => target'[q] \in Users
    BY <1>1, <1>3 DEF IInv, RequestsTyped, Holders
  <2>4. QED
    BY <1>1, <2>1, <2>2, <2>3 DEF IInv, RequestsTyped
<1>5. UsersTyped' /\ LoginsTyped' /\ LoginResolves'
  BY <1>1 DEF IInv, UsersTyped, LoginsTyped, LoginResolves, LoginsOf, Exists, history
<1>6. AdminFacts'
  <2>1. OneHolder'
    BY <1>3 DEF OneHolder
  <2>2. others'[r] = AnotherAdmin(target[r])
    BY <1>1 DEF IInv, RequestsTyped
  <2>3. GuardHolds'
    BY <1>1, <1>3, <2>2 DEF GuardHolds, AnotherAdmin, ActiveAdmins
  <2>4. NoAdminYet' /\ AdminRemains'
    <3>1. wasAdmin # {}
      BY <1>1 DEF IInv, AdminFacts, NoAdminYet, AdminPlaces
    <3>2. QED
      BY <1>1, <3>1 DEF IInv, AdminFacts, NoAdminYet, AdminRemains, ActiveAdmins, history
  <2>5. QED
    BY <2>1, <2>3, <2>4 DEF AdminFacts
<1>7. BootstrapFacts'
  <2>1. \A q \in Requests : /\ pc[q] = "make_admin" => pc'[q] = "make_admin"
                            /\ pc'[q] = "approve_listed" => pc[q] = "approve_listed"
    BY <1>1, <1>3 DEF Locked, Holders
  <2>2. QED
    BY <1>1, <2>1 DEF IInv, BootstrapFacts, ApprovedIsNext, FirstIsListed, Listed, history
<1>8. QED
  BY <1>4, <1>5, <1>6, <1>7 DEF IInv

\* A guarded statement may take an admin away: another one is left.
LEMMA GuardedChange ==
  ASSUME IInv, NEW r \in Requests, pc[r] \in {"demoting", "deactivating"}, others[r], Answer(r),
         target[r] \in DOMAIN users, NEW row \in UserRows, Update(target[r], row),
         row.role = "admin" => target[r] \in wasAdmin,
         UNCHANGED <<login, admins, shadow, unguarded>>
  PROVE  IInv'
<1> DEFINE u == target[r]
<1>1. /\ DOMAIN users' = DOMAIN users /\ users'[u] = row
      /\ \A v \in DOMAIN users \ {u} : users'[v] = users[v]
  BY DEF Update
<1>2. /\ wasAdmin # {} /\ wasAdmin' = wasAdmin
      /\ ~unguarded => AnotherAdmin(u)
      /\ \A q \in Requests \ {r} : pc[q] \notin Holders
  BY DEF IInv, AdminFacts, NoAdminYet, GuardHolds, OneHolder, AdminPlaces, Holders, admins
<1>3. UsersTyped' /\ LoginsTyped' /\ LoginResolves'
  BY <1>1, <1>2 DEF IInv, UsersTyped, LoginsTyped, LoginResolves, LoginsOf, Exists
<1>4. RequestsTyped' /\ \A q \in Requests : pc'[q] \notin Holders
  <2>1. Moves(r, "idle")
    BY MovesOfSteps DEF IInv, Places, Holders
  <2>2. QED
    BY <1>2, <2>1, MoveKeepsTypes DEF IInv, Places, Holders
<1>5. ~unguarded => ActiveAdmins' # {}
  BY <1>1, <1>2 DEF AnotherAdmin, ActiveAdmins
<1>6. AdminFacts' /\ BootstrapFacts'
  BY <1>2, <1>4, <1>5
     DEF AdminFacts, OneHolder, GuardHolds, NoAdminYet, AdminRemains, BootstrapFacts, ApprovedIsNext,
         FirstIsListed
<1>7. QED
  BY <1>3, <1>4, <1>6 DEF IInv

LEMMA MutateLockedKeeps ==
  ASSUME IInv, NEW r \in Requests, MutateLocked(r)
  PROVE  IInv'
<1> DEFINE u == target[r]
<1>1. pc[r] \in Holders /\ Answer(r) /\ unguarded' = unguarded
  BY DEF MutateLocked, Holders
<1>2. CASE UNCHANGED <<users, login, admins, shadow>>
  BY <1>1, <1>2, EndKeeps DEF admins, Holders
<1>3. CASE pc[r] = "demoting" /\ Exists(u) /\ others[r] /\ SetRole(u, "user") /\ UNCHANGED <<login, shadow>>
  <2>1. [users[u] EXCEPT !.role = "user"] \in UserRows /\ [users[u] EXCEPT !.role = "user"].role # "admin"
    BY <1>3 DEF Exists, IInv, UsersTyped, UserRows
  <2>2. Update(u, [users[u] EXCEPT !.role = "user"]) /\ UNCHANGED admins
    BY <1>3 DEF SetRole
  <2>3. QED
    BY <1>1, <1>3, <2>1, <2>2, GuardedChange DEF Exists
<1>4. CASE /\ pc[r] = "deactivating" /\ Exists(u) /\ others[r]
           /\ Update(u, [users[u] EXCEPT !.active = FALSE]) /\ UNCHANGED <<login, admins, shadow>>
  <2>1. /\ [users[u] EXCEPT !.active = FALSE] \in UserRows
        /\ [users[u] EXCEPT !.active = FALSE].role = users[u].role
        /\ users[u].role = "admin" => u \in wasAdmin
    BY <1>4 DEF Exists, IInv, UsersTyped, UserRows
  <2>2. QED
    BY <1>1, <1>4, <2>1, GuardedChange DEF Exists
<1>5. CASE /\ pc[r] = "deleting" /\ Exists(u)
           /\ ~IsActiveAdmin(users[u]) \/ others[r]
           /\ Delete(u) /\ UNCHANGED admins
  <2>1. (unguarded => unguarded') /\ pc[r] # "delete_plain"
    BY <1>1, <1>5
  <2>2. QED
    BY <1>1, <1>5, <2>1, AccountDeleted DEF Exists
<1>6. QED
  BY <1>2, <1>3, <1>4, <1>5 DEF MutateLocked

LEMMA DeletePlainKeeps ==
  ASSUME IInv, NEW r \in Requests, DeletePlain(r)
  PROVE  IInv'
<1>1. /\ pc[r] = "delete_plain" /\ Answer(r) /\ UNCHANGED admins
      /\ unguarded => unguarded'
      /\ target[r] \in ActiveAdmins => unguarded'
  BY DEF DeletePlain
<1>2. CASE Exists(target[r])
  BY <1>1, <1>2, AccountDeleted DEF DeletePlain, Exists
<1>3. CASE ~Exists(target[r])
  BY <1>1, <1>3, EndKeeps DEF DeletePlain, admins
<1>4. QED
  BY <1>2, <1>3

LEMMA GateKeeps ==
  ASSUME IInv, NEW r \in Requests, Gate(r)
  PROVE  IInv'
<1>1. pc[r] = "gate" /\ UNCHANGED <<users, login, history>>
  BY DEF Gate
<1>2. CASE Answer(r)
  BY <1>1, <1>2, EndKeeps DEF history
<1>3. CASE seen[r].status = "pending" /\ (target[r] \in AdminListed \/ ~RequireApproval) /\ Goto(r, "approve_listed")
  <2>1. "approve_listed" \in Places \ Holders /\ "approve_listed" \notin AdminPlaces
    BY DEF Places, Holders, AdminPlaces, Unlocked, Locked
  <2>2. Moves(r, "approve_listed") /\ UNCHANGED <<target, seen>>
    BY <1>3, <2>1, MovesOfSteps DEF IInv
  <2>3. wasAdmin = {} => seen'[r].role # "admin"
    BY <2>2 DEF IInv, AdminFacts, NoAdminYet
  <2>4. RequireApproval /\ wasAdmin = {} => Listed(r)'
    BY <1>3, <2>2, <2>3 DEF Listed
  <2>5. QED
    BY <1>1, <2>1, <2>2, <2>3, <2>4, RequestOnly DEF history
<1>4. ASSUME NEW to \in {"approve_first", "make_admin"}, GoOn(r, to) PROVE IInv'
  <2>1. to \in Places \ Holders /\ to \notin AdminPlaces /\ to \notin {"known", "unknown", "approve_listed"}
    BY DEF Places, Holders, AdminPlaces, Unlocked, Locked
  <2>2. Moves(r, to) /\ seen'[r] = NoRow
    BY <1>4, <2>1, MovesOfSteps DEF IInv
  <2>3. NoRow.role # "admin"
    BY DEF NoRow
  <2>4. QED
    BY <1>1, <2>1, <2>2, <2>3, RequestOnly DEF history
<1>5. QED
  BY <1>2, <1>3, <1>4 DEF Gate

LEMMA ApproveProvisionedKeeps ==
  ASSUME IInv, NEW r \in Requests, ApproveProvisioned(r)
  PROVE  IInv'
<1> DEFINE u == target[r]
           row == [users[u] EXCEPT !.status = "approved"]
<1>1. pc[r] \in {"approve_listed", "approve_first"} /\ UNCHANGED <<login, history>>
  BY DEF ApproveProvisioned
<1>2. CASE ~Exists(u)
  BY <1>1, <1>2, EndKeeps DEF ApproveProvisioned, history
<1>3. CASE Exists(u)
  <2>1. /\ Update(u, row) /\ u \in DOMAIN users
        /\ \/ ThenAdmin(r) /\ GoOn(r, "make_admin")
           \/ ~ThenAdmin(r) /\ Answer(r)
    BY <1>3 DEF ApproveProvisioned, Exists
  <2>2. /\ row \in UserRows /\ row.active = users[u].active /\ row.role = users[u].role
        /\ row.role = "admin" => u \in wasAdmin
    BY <2>1 DEF IInv, UsersTyped, UserRows
  <2>3. /\ IsActiveAdmin(users[u]) => IsActiveAdmin(row)
        /\ wasAdmin' = IF row.role = "admin" THEN wasAdmin \cup {u} ELSE wasAdmin
        /\ wasAdmin' = wasAdmin /\ stopped' = stopped /\ UNCHANGED <<login, shadow, unguarded>>
        /\ wasAdmin = {} => row.active
    BY <1>1, <2>1, <2>2 DEF IsActiveAdmin, history, IInv, AdminFacts, NoAdminYet
  <2>4. "idle" \in Places \ Holders /\ "idle" \notin AdminPlaces
        /\ "make_admin" \in Places \ Holders /\ "make_admin" \notin AdminPlaces /\ NoRow.role # "admin"
    BY DEF Places, Holders, AdminPlaces, Unlocked, Locked, NoRow
  <2>5. CASE ThenAdmin(r) /\ GoOn(r, "make_admin")
    <3>1. Moves(r, "make_admin") /\ seen'[r] = NoRow /\ target'[r] = u
      BY <2>4, <2>5, MovesOfSteps DEF IInv
    <3>2. QED
      <4> HIDE DEF u, row
      <4>1. QED
        BY <1>1, <2>1, <2>2, <2>3, <2>4, <3>1, RowChanged
  <2>6. CASE ~ThenAdmin(r) /\ Answer(r)
    <3>1. Moves(r, "idle") /\ seen'[r] = NoRow
      BY <2>4, <2>6, MovesOfSteps DEF IInv
    <3>2. ~(RequireApproval /\ wasAdmin = {})
      BY <1>1, <2>6 DEF ThenAdmin, IInv, BootstrapFacts, FirstIsListed
    <3>3. QED
      <4> HIDE DEF u, row
      <4>1. QED
        BY <1>1, <2>1, <2>2, <2>3, <2>4, <3>1, <3>2, RowChanged
  <2>7. QED
    BY <2>1, <2>5, <2>6
<1>4. QED
  BY <1>2, <1>3

LEMMA MakeAdminKeeps ==
  ASSUME IInv, NEW r \in Requests, MakeAdmin(r)
  PROVE  IInv'
<1> DEFINE u == target[r]
           row == [users[u] EXCEPT !.role = "admin"]
<1>1. pc[r] = "make_admin" /\ Answer(r) /\ UNCHANGED <<login, shadow, unguarded>>
  BY DEF MakeAdmin
<1>2. CASE ~Exists(u)
  BY <1>1, <1>2, EndKeeps DEF MakeAdmin, admins
<1>3. CASE Exists(u)
  <2>1. Update(u, row) /\ wasAdmin' = wasAdmin \cup {u} /\ stopped' = FALSE /\ u \in DOMAIN users
    BY <1>3 DEF MakeAdmin, SetRole, Exists
  <2>2. /\ row \in UserRows /\ row.active = users[u].active /\ row.role = "admin"
        /\ wasAdmin = {} => row.active
    BY <2>1 DEF IInv, UsersTyped, UserRows, AdminFacts, NoAdminYet
  <2>3. IsActiveAdmin(users[u]) => IsActiveAdmin(row)
    BY <2>2 DEF IsActiveAdmin
  <2>4. Moves(r, "idle") /\ "idle" \in Places \ Holders
    BY <1>1, MovesOfSteps DEF IInv, Places, Holders
  <2>5. wasAdmin' # {}
    BY <2>1
  <2>6. QED
    <3> HIDE DEF u, row
    <3>1. QED
      BY <1>1, <2>1, <2>2, <2>3, <2>4, <2>5, RowChanged
<1>4. QED
  BY <1>2, <1>3

LEMMA FailKeeps ==
  ASSUME IInv, NEW r \in Requests, Fail(r)
  PROVE  IInv'
BY EndKeeps DEF Fail

LEMMA NextKeeps == IInv /\ [Next]_vars => IInv'
<1> SUFFICES ASSUME IInv, [Next]_vars PROVE IInv'
  OBVIOUS
<1>1. ASSUME NEW r \in Requests, Request(r) PROVE IInv'
  <2>1. CASE \E u \in Users :
               \/ \E op \in Unlocked \cup {"demote", "deactivate"}, a \in Users : AdminMutation(r, op, a, u)
               \/ DeleteAccount(r, u) \/ SignIn(r, u)
    BY <2>1, BeginKeeps
  <2>2. QED
    BY <1>1, <2>1, MutateUnlockedKeeps, LockAdminSetKeeps, MutateLockedKeeps, DeletePlainKeeps,
       RefreshLoginKeeps, CreateLoginKeeps, GateKeeps, ApproveProvisionedKeeps, MakeAdminKeeps,
       FailKeeps DEF Request
<1>2. ASSUME NEW u \in Users, NEW i \in Users, LinkLogin(u, i) \/ UnlinkLogin(u, i) PROVE IInv'
  BY <1>2, LinkKeeps, UnlinkKeeps
<1>3. CASE UNCHANGED vars
  BY <1>3, LoginsOnly DEF vars, history, IInv, LoginsTyped, LoginResolves, LoginsOf, Exists
<1>4. QED
  BY <1>1, <1>2, <1>3 DEF Next

\* Once there is an active admin there always is one, however demotions,
\* deactivations and deletions overlap, unless a plain DELETE hit an account
\* that was made an admin after DeleteUser had read it (lockAdminSet and the
\* guarded statements).
THEOREM AnAdminRemains == Spec => []AdminRemains
<1>1. IInv => AdminRemains
  BY DEF IInv, AdminFacts
<1>2. QED
  BY <1>1, InitHolds, NextKeeps, PTL DEF Spec

\* Rows have their types, no login outlives its user, and every account has a
\* login, but for one created while its identity was being linked elsewhere.
THEOREM EveryAccountHasALogin == Spec => []LoginsConsistent
<1>1. IInv => LoginsConsistent
  BY DEF IInv, UsersTyped, LoginsTyped, UserRows, LoginsConsistent, TypeOK, ActiveAdmins, IsActiveAdmin
<1>2. QED
  BY <1>1, InitHolds, NextKeeps, PTL DEF Spec

\* Where approval is required, whoever is approved first becomes the first
\* administrator, unless that request stops between its two writes.
THEOREM FirstApprovedIsAdmin ==
  ASSUME RequireApproval
  PROVE  Spec => []BootstrapCompletes
<1>1. IInv => BootstrapCompletes
  BY DEF IInv, BootstrapFacts, ApprovedIsNext, BootstrapCompletes
<1>2. QED
  BY <1>1, InitHolds, NextKeeps, PTL DEF Spec
=============================================================================
