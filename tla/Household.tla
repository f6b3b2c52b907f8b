------------------------------ MODULE Household ------------------------------
(***************************************************************************)
(* Household membership (internal/bff/resolver_household.go over the       *)
(* household and identity stores): household_member says who belongs where *)
(* and with which role, users.household_id/household_role is each user's   *)
(* active pointer, and invites bring people in.  Deleting an account       *)
(* (resolver_identity.go) takes its user out of every household.           *)
(*                                                                         *)
(* Transactions run at READ COMMITTED.  What one decides under the row     *)
(* lock of its household is settled together with its writes.  What it     *)
(* reads without that protection is read in an earlier step and may be     *)
(* outdated when the transaction commits: the caller's cached identity, a  *)
(* user's pointer, the user's other memberships, the memberships that the  *)
(* deletion of an account goes through, those seen by the one statement    *)
(* that moves a pointer, and the caller's membership of a household that   *)
(* an accepted invite merges.  A request is therefore begun, perhaps       *)
(* locked, and committed or rejected; accepting without a merge,           *)
(* declining, cancelling and creating a household read nothing unprotected *)
(* and are one step.                                                       *)
(*                                                                         *)
(* Every write that names a household waits for its row lock: the foreign  *)
(* key's check takes a share of it.  Notifications, names and the rows a   *)
(* merge or a dissolution moves or deletes are left out.                   *)
(***************************************************************************)
EXTENDS Naturals, Sequences, FiniteSets

CONSTANTS
  Users, Households,
  Slots,        \* requests that may be in flight at once
  Founding,     \* the memberships to start from, oldest first
  Pointed,      \* each user's active household at the start
  Invited,      \* the pending invites at the start
  MaxMembers,   \* maxHouseholdMembers
  MaxRequests,  \* bound on the requests made
  None

ASSUME ParamsAssumption ==
  /\ MaxMembers \in Nat \ {0} /\ MaxRequests \in Nat
  /\ None \notin Users \cup Households
  /\ Pointed \in [Users -> Households]

Roles == {"owner", "admin", "member"}

VARIABLES
  households,  \* the rows of household.households
  memberships, \* household_member, in order of created_at
  active,      \* users.household_id and household_role; NoAccount once deleted
  invites,     \* the pending invites
  request,     \* the request in each slot
  made,        \* requests made so far
  raced        \* what outdated reads commits have used (history)

db == <<households, memberships, active, invites>>
vars == <<db, request, made, raced>>

NoRequest == [phase |-> "none", held |-> {}, heirs |-> {}]

-----------------------------------------------------------------------------
(* The tables                                                              *)

Row(h, u, role) == [hh |-> h, user |-> u, role |-> role]
Pointer(h, role) == [hh |-> h, role |-> role]
Invite(u, t, h) == [from |-> u, to |-> t, hh |-> h]
NoAccount == Pointer(None, None)
Exists(u) == active[u] # NoAccount

Rows(ms) == {ms[i] : i \in DOMAIN ms}
MembersOf(ms, h) == {i \in DOMAIN ms : ms[i].hh = h}
IsMember(ms, h, u) == \E m \in Rows(ms) : m.hh = h /\ m.user = u
RoleIn(ms, h, u) == (CHOOSE m \in Rows(ms) : m.hh = h /\ m.user = u).role

\* UpsertMembership keeps created_at, and so the place in the order.
JoinHousehold(ms, h, u, role) ==
  IF IsMember(ms, h, u)
  THEN [i \in DOMAIN ms |->
          IF ms[i].hh = h /\ ms[i].user = u THEN Row(h, u, role) ELSE ms[i]]
  ELSE Append(ms, Row(h, u, role))

\* The rows at some of the places, in their order.
Nth(places, n) == CHOOSE i \in places : Cardinality({j \in places : j <= i}) = n
Kept(ms, places) == [n \in 1..Cardinality(places) |-> ms[Nth(places, n)]]

RemoveMembership(ms, h, u) == Kept(ms, {i \in DOMAIN ms : ms[i].hh # h \/ ms[i].user # u})

HasRoom(h) == Cardinality(MembersOf(memberships, h)) < MaxMembers

\* SetActiveHousehold takes the role from the membership row.
Activated(ms, h, u) == Pointer(h, RoleIn(ms, h, u))

\* The row lock GetHouseholdByIDForUpdate takes.
Free(h) == \A r \in Slots : h \notin request[r].held

\* The next household_id.  Nothing that still counts mentions it.
Unused == {h \in Households \ households :
             /\ \A u \in Users : active[u].hh # h
             /\ \A r \in Slots : request[r].phase # "none" =>
                  h \notin {request[r].hh, request[r].pointer} \cup
                            {m.hh : m \in Rows(request[r].listed)}}

Init ==
  /\ memberships = Founding
  /\ households = {m.hh : m \in Rows(Founding)}
  /\ active = [u \in Users |-> Pointer(Pointed[u], RoleIn(Founding, Pointed[u], u))]
  /\ invites = Invited
  /\ request = [r \in Slots |-> NoRequest]
  /\ made = 0
  /\ raced = {}

\* The tables agree to begin with.
ASSUME FoundingAssumption ==
  /\ Founding \in Seq([hh : Households, user : Users, role : Roles])
  /\ \A m, n \in DOMAIN Founding :
       Founding[m].hh = Founding[n].hh /\ Founding[m].user = Founding[n].user => m = n
  /\ \A m \in Rows(Founding) : \E o \in Rows(Founding) : o.hh = m.hh /\ o.role = "owner"
  /\ \A m, o \in Rows(Founding) :
       m.hh = o.hh /\ m.role = "owner" /\ o.role = "owner" => m = o
  /\ \A u \in Users : IsMember(Founding, Pointed[u], u)
  /\ Invited \subseteq [from : Users, to : Users, hh : {m.hh : m \in Rows(Founding)}]

-----------------------------------------------------------------------------
(* Requests: what happens before the transaction, or before its lock        *)

Ask(op, u, h, t, role) ==
  [phase |-> "begun", op |-> op, by |-> u, hh |-> h, target |-> t, role |-> role,
   pointer |-> active[t].hh, fallback |-> None, listed |-> <<>>, accepted |-> None,
   held |-> {},   \* the households it has locked,
   gone |-> {},   \* those it dissolves,
   heirs |-> {}]  \* and the rows it promotes to owner

Begin(r, q) ==
  /\ request[r] = NoRequest /\ made < MaxRequests
  /\ request' = [request EXCEPT ![r] = q]
  /\ made' = made + 1
  /\ UNCHANGED <<db, raced>>

\* requireHouseholdRole looks at the cached identity.
HasRole(u, roles) == active[u].role \in roles

InviteHouseholdMember(r, u, t) ==
  /\ HasRole(u, {"owner", "admin"}) /\ t # u /\ Exists(t)
  /\ ~IsMember(memberships, active[u].hh, t) /\ HasRoom(active[u].hh)
  /\ Begin(r, Ask("invite", u, active[u].hh, t, None))

SetHouseholdRole(r, u, t, role) ==
  /\ HasRole(u, {"owner"}) /\ t # u
  /\ Begin(r, Ask("set_role", u, active[u].hh, t, role))

TransferHouseholdOwnership(r, u, t) ==
  /\ HasRole(u, {"owner"}) /\ t # u
  /\ Begin(r, Ask("transfer", u, active[u].hh, t, None))

RemoveHouseholdMember(r, u, t) ==
  /\ HasRole(u, {"owner", "admin"}) /\ t # u
  /\ Begin(r, Ask("remove", u, active[u].hh, t, active[u].role))

\* The caller's row is read before the household is locked.
LeaveHousehold(r, u, h) ==
  IsMember(memberships, h, u) /\ Begin(r, Ask("leave", u, h, u, None))

\* The statement's snapshot of the membership.
SetActiveHousehold(r, u, h) ==
  /\ IsMember(memberships, h, u)
  /\ Begin(r, Ask("switch", u, h, u, Activated(memberships, h, u).role))

\* ListMembershipsByUser, before any of the households is locked.
MembershipsOf(u) == Kept(memberships, {i \in DOMAIN memberships : memberships[i].user = u})
DeleteMyAccount(r, u) ==
  /\ Exists(u)
  /\ Begin(r, [Ask("delete", u, None, u, None) EXCEPT !.listed = MembershipsOf(u)])

\* The inviter may have left since.  The mutant does not look.
MutantInviterStays(i) == TRUE
InviterStays(i) == IsMember(memberships, i.hh, i.from)

\* What acceptInvite asks for under the lock of the household that is joined.
Acceptable(i) == Free(i.hh) /\ HasRoom(i.hh) /\ InviterStays(i)

\* acceptInvite with a household h to merge into the joined one and dissolve.  The
\* joined household and the invite's row are locked.  That h is the caller's own
\* is read here, before h is locked.
AcceptAndMerge(r, i, h) ==
  /\ Acceptable(i) /\ h # i.hh
  /\ IsMember(memberships, h, i.to) /\ RoleIn(memberships, h, i.to) = "owner"
  /\ Begin(r, [Ask("merge", i.to, h, i.to, None) EXCEPT !.accepted = i, !.held = {i.hh}])

\* Who accepts, and what, is kept by the rows a merge has written: other changes
\* of the invite, and deletions of its two users, wait.
Merging == {r \in Slots : request[r].phase # "none" /\ request[r].op = "merge"}
InviteFree(i) == \A r \in Merging : request[r].accepted # i
UserFree(u) == \A r \in Merging : u \notin {request[r].accepted.from, request[r].accepted.to}

\* A refused check, a conflict, a deadlock or a store error rolls it back.
Reject(r) ==
  /\ request[r] # NoRequest
  /\ request' = [request EXCEPT ![r] = NoRequest]
  /\ UNCHANGED <<db, made, raced>>

\* activateFallbackHousehold: the earliest other membership.
Fallback(h, u) ==
  LET others == {i \in DOMAIN memberships : memberships[i].user = u /\ memberships[i].hh # h}
      first == memberships[Nth(others, 1)]
  IN  IF others = {} THEN None ELSE Pointer(first.hh, first.role)

\* What SetHouseholdRole and RemoveHouseholdMember refuse under the lock.  The
\* mutant forgets the owner.
MutantPermitted(q, role) == q.role = "admin" => role = "member"
Permitted(q, role) ==
  /\ q.op \in {"set_role", "remove"} => role # "owner"
  /\ q.op = "remove" /\ q.role = "admin" => role = "member"

\* promoteSuccessor: the earliest admin, else the earliest member.
Candidates(h, u, role) ==
  {i \in MembersOf(memberships, h) : memberships[i].user # u /\ memberships[i].role = role}
Successor(h, u, role) ==
  IF role # "owner" THEN None
  ELSE IF Candidates(h, u, "admin") # {} THEN memberships[Nth(Candidates(h, u, "admin"), 1)].user
  ELSE IF Candidates(h, u, "member") # {} THEN memberships[Nth(Candidates(h, u, "member"), 1)].user
  ELSE None

\* What the departure of somebody with that role makes of a locked household:
\* it goes with its last member, or gets a new owner.
Departing(q, h, role) ==
  LET heir == Successor(h, q.target, role)
  IN  IF Cardinality(MembersOf(memberships, h)) = 1 THEN [q EXCEPT !.gone = @ \cup {h}]
      ELSE IF heir = None THEN q
      ELSE [q EXCEPT !.heirs = @ \cup {Row(h, heir, "owner")}]

\* The household's row lock, and the reads that follow it.
LockHousehold(r) ==
  LET q == request[r]
      decided == IF q.op = "leave"
                 THEN Departing(q, q.hh, RoleIn(memberships, q.hh, q.target)) ELSE q
  IN  /\ q.phase = "begun" /\ q.op \notin {"invite", "switch", "delete", "merge"}
      /\ q.hh \in households /\ Free(q.hh)
      /\ IsMember(memberships, q.hh, q.target)
      /\ Permitted(q, RoleIn(memberships, q.hh, q.target))
      /\ request' = [request EXCEPT ![r] =
           [decided EXCEPT !.phase = "locked", !.held = {q.hh},
                     !.pointer = IF q.op = "leave" THEN @ ELSE active[q.target].hh,
                     !.fallback = Fallback(q.hh, q.target)]]
      /\ UNCHANGED <<db, made, raced>>

\* DeleteMyAccount locks the listed households one after another.
ClassifyMembership(r) ==
  LET q == request[r]
      m == q.listed[Cardinality(q.held) + 1]
  IN  /\ q.phase = "begun" /\ q.op = "delete" /\ Cardinality(q.held) < Len(q.listed)
      /\ m.hh \in households /\ Free(m.hh)
      /\ request' = [request EXCEPT ![r] =
           [Departing(q, m.hh, m.role) EXCEPT !.held = @ \cup {m.hh}]]
      /\ UNCHANGED <<db, made, raced>>

-----------------------------------------------------------------------------
(* Commits                                                                 *)

\* Something read without protection is no longer so: where a user's pointer
\* is or belongs, the role a transfer rests on, what the user whose account goes
\* belongs to, or whose the merged household is.
StalePointer(q) ==
  \/ q.op = "switch" /\ ~(/\ IsMember(memberships, q.hh, q.target)
                          /\ RoleIn(memberships, q.hh, q.target) = q.role)
  \/ q.op \notin {"invite", "switch", "delete", "merge"} /\ q.pointer # active[q.target].hh
  \/ q.op \in {"leave", "remove"} /\ q.fallback # Fallback(q.hh, q.target)
StaleRole(q) ==
  q.op = "transfer" /\ ~(/\ IsMember(memberships, q.hh, q.by)
                         /\ RoleIn(memberships, q.hh, q.by) = "owner")
StaleList(q) == q.op = "delete" /\ q.listed # MembershipsOf(q.target)
StaleSource(q) ==
  q.op = "merge" /\ ~(/\ IsMember(memberships, q.hh, q.by)
                      /\ RoleIn(memberships, q.hh, q.by) = "owner")

Finish(r) ==
  /\ request' = [request EXCEPT ![r] = NoRequest]
  /\ raced' = raced \cup (IF StalePointer(request[r]) THEN {"pointer"} ELSE {})
                    \cup (IF StaleRole(request[r]) THEN {"role"} ELSE {})
                    \cup (IF StaleList(request[r]) THEN {"account"} ELSE {})
                    \cup (IF StaleSource(request[r]) THEN {"merge"} ELSE {})
  /\ UNCHANGED made

\* CreateInvite; the pending-unique index is on the two users.
CommitInvite(q) ==
  /\ q.op = "invite" /\ Exists(q.by) /\ q.hh \in households /\ Free(q.hh)
  /\ ~\E i \in invites : i.from = q.by /\ i.to = q.target
  /\ invites' = invites \cup {Invite(q.by, q.target, q.hh)}
  /\ UNCHANGED <<households, memberships, active>>

CommitSwitch(q) ==
  /\ q.op = "switch" /\ q.hh \in households /\ Free(q.hh)
  /\ active' = [active EXCEPT ![q.target] = Pointer(q.hh, q.role)]
  /\ UNCHANGED <<households, memberships, invites>>

\* SetUserHouseholdRole, where the caller found the pointer on the household:
\* a pointer that has moved since is a conflict.
Mirrors(q) == q.pointer = q.hh => active[q.target].hh = q.hh
Mirrored(act, q, role) ==
  IF q.pointer = q.hh THEN [act EXCEPT ![q.target].role = role] ELSE act

CommitSetRole(q) ==
  /\ q.op = "set_role" /\ Mirrors(q)
  /\ memberships' = JoinHousehold(memberships, q.hh, q.target, q.role)
  /\ active' = Mirrored(active, q, q.role)
  /\ UNCHANGED <<households, invites>>

\* The caller's role is not looked at again, only the caller's pointer.
CommitTransfer(q) ==
  /\ q.op = "transfer" /\ Mirrors(q) /\ active[q.by].hh = q.hh
  /\ memberships' = JoinHousehold(JoinHousehold(memberships, q.hh, q.target, "owner"),
                                  q.hh, q.by, "member")
  /\ active' = Mirrored([active EXCEPT ![q.by].role = "member"], q, "owner")
  /\ UNCHANGED <<households, invites>>

Promoted(ms, q) ==
  [i \in DOMAIN ms |->
     IF Row(ms[i].hh, ms[i].user, "owner") \in q.heirs THEN [ms[i] EXCEPT !.role = "owner"]
     ELSE ms[i]]
PromotedPointers(act, q) ==
  [u \in Users |->
     IF Row(act[u].hh, u, "owner") \in q.heirs THEN Pointer(act[u].hh, "owner") ELSE act[u]]

\* CancelPendingInvitesFrom and CancelPendingInvitesTo.
Cancelled(h, u) == {i \in invites : i.hh = h /\ u \in {i.from, i.to}}

\* Who is promoted, if anybody, is; the target's membership goes, and its
\* pointer if it was found here; without another membership a fresh household is
\* made.  A household that goes takes its invites along, and stays if a pointer
\* is left on it (users.household_id is a RESTRICT edge).
Dissolved(q) ==
  /\ \A u \in Users : active'[u].hh \notin q.gone
  /\ invites' = {i \in invites \ Cancelled(q.hh, q.target) : i.hh \notin q.gone}
Depart(q) ==
  LET left == RemoveMembership(Promoted(memberships, q), q.hh, q.target)
      act == PromotedPointers(active, q)
  IN  /\ \/ /\ q.pointer # q.hh
            /\ memberships' = left /\ active' = act
            /\ households' = households \ q.gone
         \/ /\ q.pointer = q.hh /\ q.fallback # None
            /\ q.fallback.hh \in households /\ Free(q.fallback.hh)
            /\ memberships' = left
            /\ active' = [act EXCEPT ![q.target] = q.fallback]
            /\ households' = households \ q.gone
         \/ /\ q.pointer = q.hh /\ q.fallback = None
            /\ \E h \in Unused :
                 /\ memberships' = JoinHousehold(left, h, q.target, "owner")
                 /\ active' = [act EXCEPT ![q.target] = Pointer(h, "owner")]
                 /\ households' = (households \cup {h}) \ q.gone
      /\ Dissolved(q)

CommitRemove(q) == q.op = "remove" /\ Depart(q)
CommitLeave(q) == q.op = "leave" /\ Depart(q)

\* DeleteUser waits for a transaction that has promoted the user, and cascades to
\* every membership and invite, listed or not; dissolveHousehold takes with a
\* household whatever memberships it still has.
CommitDelete(q) ==
  /\ q.op = "delete" /\ Cardinality(q.held) = Len(q.listed)
  /\ \A r \in Slots : \A m \in request[r].heirs : m.user # q.target
  /\ UserFree(q.target)
  /\ memberships' = Kept(Promoted(memberships, q),
                         {i \in DOMAIN memberships : /\ memberships[i].user # q.target
                                                     /\ memberships[i].hh \notin q.gone})
  /\ active' = [PromotedPointers(active, q) EXCEPT ![q.target] = NoAccount]
  /\ \A u \in Users : active'[u].hh \notin q.gone
  /\ households' = households \ q.gone
  /\ invites' = {i \in invites : q.target \notin {i.from, i.to} /\ i.hh \notin q.gone}

\* Who accepts an invite becomes a member, unless already one, and is active there.
Accepted(i) == IF IsMember(memberships, i.hh, i.to) THEN memberships
               ELSE JoinHousehold(memberships, i.hh, i.to, "member")

\* The merged household is locked and must have one member; whether that is the
\* caller is not looked at again.  It goes, unless a pointer is left on it.
CommitMerge(q) ==
  /\ q.op = "merge" /\ q.hh \in households /\ Free(q.hh)
  /\ Cardinality(MembersOf(memberships, q.hh)) = 1
  /\ LET i == q.accepted
         joined == Accepted(i)
     IN  /\ memberships' = Kept(joined, {k \in DOMAIN joined : joined[k].hh # q.hh})
         /\ active' = [active EXCEPT ![i.to] = Activated(joined, i.hh, i.to)]
         /\ invites' = {j \in invites \ {i} : j.hh # q.hh}
  /\ \A u \in Users : active'[u].hh # q.hh
  /\ households' = households \ {q.hh}

Commit(r) ==
  LET q == request[r]
  IN  /\ q.phase # "none" /\ Exists(q.target)
      /\ \/ /\ q.phase = "begun"
            /\ CommitInvite(q) \/ CommitSwitch(q) \/ CommitDelete(q) \/ CommitMerge(q)
         \/ q.phase = "locked" /\ (\/ CommitSetRole(q) \/ CommitTransfer(q)
                                   \/ CommitRemove(q) \/ CommitLeave(q))
      /\ Finish(r)

-----------------------------------------------------------------------------
(* The transactions that read nothing unprotected                           *)

\* acceptInvite without a household to merge.
AcceptHouseholdInvite(i) ==
  /\ Acceptable(i)
  /\ memberships' = Accepted(i)
  /\ active' = [active EXCEPT ![i.to] = Activated(Accepted(i), i.hh, i.to)]
  /\ invites' = invites \ {i}
  /\ UNCHANGED <<households, request, made, raced>>

\* Declined by the invitee or cancelled by the inviter.
TransitionInvite(i) ==
  /\ InviteFree(i)
  /\ invites' = invites \ {i}
  /\ UNCHANGED <<households, memberships, active, request, made, raced>>

CreateHousehold(u) ==
  /\ Exists(u) /\ made < MaxRequests /\ made' = made + 1
  /\ \E h \in Unused :
       /\ households' = households \cup {h}
       /\ memberships' = JoinHousehold(memberships, h, u, "owner")
       /\ active' = [active EXCEPT ![u] = Pointer(h, "owner")]
  /\ UNCHANGED <<invites, request, raced>>

UserActs(r, u) ==
  \/ \E h \in households : LeaveHousehold(r, u, h) \/ SetActiveHousehold(r, u, h)
  \/ DeleteMyAccount(r, u)
  \/ \E t \in Users :
       \/ InviteHouseholdMember(r, u, t) \/ TransferHouseholdOwnership(r, u, t)
       \/ RemoveHouseholdMember(r, u, t)
       \/ \E role \in {"admin", "member"} : SetHouseholdRole(r, u, t, role)

Next ==
  \/ \E r \in Slots :
       \/ \E u \in Users : UserActs(r, u)
       \/ \E i \in invites : \E h \in households : AcceptAndMerge(r, i, h)
       \/ LockHousehold(r) \/ ClassifyMembership(r) \/ Commit(r) \/ Reject(r)
  \/ \E i \in invites : AcceptHouseholdInvite(i) \/ TransitionInvite(i)
  \/ \E u \in Users : CreateHousehold(u)

Spec == Init /\ [][Next]_vars
-----------------------------------------------------------------------------
(* Properties                                                              *)

\* Every row has its type, memberships are keyed by household and user, and
\* memberships, invites and pointers name households that exist.
TypeOK ==
  /\ households \subseteq Households
  /\ \A i \in DOMAIN memberships :
       /\ memberships[i] \in [hh : households, user : {u \in Users : Exists(u)}, role : Roles]
       /\ \A j \in DOMAIN memberships : i # j =>
            <<memberships[i].hh, memberships[i].user>> # <<memberships[j].hh, memberships[j].user>>
  /\ active \in [Users -> [hh : households, role : Roles] \cup {NoAccount}]
  /\ invites \subseteq [from : Users, to : Users, hh : households]

Owners(h) == {m.user : m \in {x \in Rows(memberships) : x.hh = h /\ x.role = "owner"}}

\* No sequence of leaves, removals, transfers, role changes, merges and deleted
\* accounts, however they overlap, leaves a household that exists without an
\* owner: there is always somebody who can administer or dissolve it
\* (promoteSuccessor).  It holds of what the code does as long as no account was
\* deleted on an outdated list of its memberships.
OwnedHouseholds == \A h \in households : Owners(h) # {}
OwnedUnlessRaced == "account" \notin raced => OwnedHouseholds

\* Ownership is handed over and never copied: stale roles lose (the comment of
\* requireHouseholdRole).
SingleOwner == \A h \in households : Cardinality(Owners(h)) <= 1
SingleOwnerUnlessRaced == raced \cap {"role", "account"} = {} => SingleOwner

\* Every household that exists has an owner, and only one, unless a commit trusted
\* a role, or a list of memberships, that it had read too early; rows have their
\* types.
OwnersKept == TypeOK /\ OwnedUnlessRaced /\ SingleOwnerUnlessRaced

\* The active pointer is a membership of its user, with that membership's role:
\* the service layer keeps the two tables in step on every membership change
\* (migration 0053), as long as no commit used an outdated read.
ActiveIsMember ==
  "pointer" \notin raced =>
    \A u \in Users : Exists(u) => Row(active[u].hh, u, active[u].role) \in Rows(memberships)

\* The two together: who owns each household, and that the tables agree about it.
HouseholdsConsistent == OwnersKept /\ ActiveIsMember

\* Nobody enters a household that exists but by a pending invite that one of
\* its members sent: in particular not by an invite left over from before the
\* inviter or the invitee was removed.
OnlyByInvite ==
  memberships' # memberships /\ "pointer" \notin raced => \A u \in Users : \A h \in households :
    IsMember(memberships', h, u) /\ ~IsMember(memberships, h, u) =>
      \E i \in invites \ invites' : /\ i.to = u /\ i.hh = h
                                    /\ IsMember(memberships, h, i.from)

\* A departure leaves no invite behind that brings the user straight back, or
\* that the user sent.
RetiredInvites ==
  memberships' # memberships => \A u \in Users : \A h \in households :
    IsMember(memberships, h, u) /\ ~IsMember(memberships', h, u) =>
      ~\E i \in invites' : i.hh = h /\ u \in {i.from, i.to}

\* A household is dissolved by its only member alone: by the one whose request
\* ends (resolver_identity.go: "households the caller alone belongs to are
\* dissolved"; resolver_household.go: "only a household the caller solely owns may
\* merge").
EndedBy(u) == \E r \in Slots : /\ request[r] # NoRequest /\ request'[r] = NoRequest
                               /\ request[r].by = u
NobodyLosesIt ==
  \A h \in households \ households' : \A u \in Users :
    IsMember(memberships, h, u) => EndedBy(u)
DissolvedAlone == [][NobodyLosesIt]_vars

\* Invites are the only way in, a departure closes those that name the user, and
\* nobody's household is dissolved by somebody else, unless an account was
\* deleted on an outdated list of its memberships, or a household merged that was
\* no longer the caller's.
MembershipsHold ==
  [][/\ OnlyByInvite /\ RetiredInvites
     /\ raced' \cap {"account", "merge"} = {} => NobodyLosesIt]_vars
=============================================================================
