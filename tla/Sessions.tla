------------------------------- MODULE Sessions -------------------------------
(***************************************************************************)
(* Refresh-token sessions (internal/session/service.go): the rows of       *)
(* identity.session, and the requests that issue, refresh, sign out of and *)
(* revoke them.  A token is named by its row; a row and the rows it was    *)
(* rotated into form a family.                                             *)
(*                                                                         *)
(* A request is split at its statements.  Under READ COMMITTED an UPDATE   *)
(* over several rows works on the rows its own snapshot shows: a row       *)
(* another transaction commits later is not among them, and a row whose    *)
(* lock it has to wait for is tested again once it has the lock.           *)
(***************************************************************************)
EXTENDS Integers, FiniteSets, Functions

CONSTANTS
  Clients,    \* requests in flight, of clients and of admins
  Users,
  MaxRows,    \* bound on rows ever inserted
  MaxCrashes, \* bound on requests that die half-way
  NoRow

ASSUME SessionsAssumption ==
  MaxRows \in Nat /\ MaxCrashes \in Nat /\ NoRow \notin 1..MaxRows

VARIABLES
  session, \* row id -> columns
  account, \* identity.users: active, barred (deactivated or denied), deleted
  seq,     \* the sequence behind session_id
  pc, tok, \* where each request is, and the row it is about
  fam,     \* the user or family whose rows it is about to revoke
  targets, \* the rows in the snapshot of its UPDATE
  covered, \* every row of that family or user then in the table (history)
  condemned, \* rows a finished revocation covered (history)
  crashes

request == <<pc, tok, fam, targets, covered>>
vars == <<session, account, seq, pc, tok, fam, targets, covered, condemned, crashes>>

Ids == 1..MaxRows
Rows == DOMAIN session
Family(s, f) == {i \in DOMAIN s : s[i].family = f}
OfUser(s, u) == {i \in DOMAIN s : s[i].user = u}
Live(s) == {i \in DOMAIN s : ~s[i].revoked}

Init ==
  /\ session = [i \in {} |-> NoRow]
  /\ account = [u \in Users |-> "active"]
  /\ seq = 0
  /\ pc = [c \in Clients |-> "idle"]
  /\ tok = [c \in Clients |-> NoRow]
  /\ fam = [c \in Clients |-> NoRow]
  /\ targets = [c \in Clients |-> {}]
  /\ covered = [c \in Clients |-> {}]
  /\ condemned = {}
  /\ crashes = 0

-----------------------------------------------------------------------------
(* Statements                                                              *)

\* isReused.  (Mutant: only a rotation counts.)
MutantIsReused(i) == session[i].replaced_by # NoRow
IsReused(i) == session[i].revoked \/ session[i].replaced_by # NoRow

\* GetSessionByIDForUpdate holds its row until the transaction ends.
MutantLockedByOther(c, i) == FALSE
LockedByOther(c, i) == \E d \in Clients \ {c} : pc[d] = "rotating" /\ tok[d] = i

\* The UPDATE's snapshot, and the rows it still changes once it has them.
MutantRevocable(s, f) == Family(s, f) \cap Live(s)
Covered(s, f) == Family(s, f) \cup OfUser(s, f)
Revocable(s, f) == Covered(s, f) \cap Live(s)

RevokeRows(s, ids) == [i \in DOMAIN s |-> IF i \in ids THEN [s[i] EXCEPT !.revoked = TRUE] ELSE s[i]]

With(s, i, r) == [j \in DOMAIN s \cup {i} |-> IF j = i THEN r ELSE s[j]]
NewRow(u, f) == [user |-> u, family |-> f, revoked |-> FALSE, replaced_by |-> NoRow]

\* MarkSessionReplaced.
MarkReplaced(s, i, next) == [s EXCEPT ![i].revoked = TRUE, ![i].replaced_by = next]

Goto(c, to) == pc' = [pc EXCEPT ![c] = to]
Answer(c) ==
  /\ Goto(c, "idle")
  /\ tok' = [tok EXCEPT ![c] = NoRow] /\ fam' = [fam EXCEPT ![c] = NoRow]
  /\ targets' = [targets EXCEPT ![c] = {}] /\ covered' = [covered EXCEPT ![c] = {}]
Present(c, i) == pc[c] = "idle" /\ i \in Rows
RevokeNext(c, f) ==
  /\ Goto(c, "revoke") /\ fam' = [fam EXCEPT ![c] = f]
  /\ tok' = [tok EXCEPT ![c] = NoRow] /\ UNCHANGED <<targets, covered>>
Proceed(c, to, i) ==
  Goto(c, to) /\ tok' = [tok EXCEPT ![c] = i] /\ UNCHANGED <<fam, targets, covered>>

-----------------------------------------------------------------------------
(* Sign-in                                                                 *)

\* The authenticator saw an active, approved user; the row comes later.
Authenticate(c, u) ==
  /\ pc[c] = "idle" /\ account[u] = "active" /\ seq < MaxRows
  /\ Goto(c, "issue") /\ fam' = [fam EXCEPT ![c] = u]
  /\ UNCHANGED <<session, account, seq, tok, targets, covered, condemned, crashes>>

\* CreateSession: the root's family is the row itself.  A deleted user fails
\* the foreign key.
Issue(c) ==
  /\ pc[c] = "issue"
  /\ IF account[fam[c]] = "deleted" \/ seq = MaxRows
     THEN UNCHANGED <<session, seq>>
     ELSE /\ seq' = seq + 1
          /\ session' = With(session, seq + 1, NewRow(fam[c], seq + 1))
  /\ Answer(c)
  /\ UNCHANGED <<account, condemned, crashes>>

-----------------------------------------------------------------------------
(* Refresh                                                                 *)

\* The unlocked read.  A token that is unknown, or has expired, changes
\* nothing.
Lookup(c, i) ==
  /\ Present(c, i)
  /\ \/ IsReused(i) /\ RevokeNext(c, session[i].family)
     \/ ~IsReused(i) /\ Proceed(c, "found", i)
  /\ UNCHANGED <<session, account, seq, condemned, crashes>>

\* The read under the row lock.  A reuse found here rolls the transaction
\* back first, and revokes on the pool afterwards.
Lock(c) ==
  /\ pc[c] = "found" /\ ~LockedByOther(c, tok[c])
  /\ \/ tok[c] \notin Rows /\ Answer(c)
     \/ tok[c] \in Rows /\ IsReused(tok[c]) /\ RevokeNext(c, session[tok[c]].family)
     \/ tok[c] \in Rows /\ ~IsReused(tok[c]) /\ Proceed(c, "rotating", tok[c])
  /\ UNCHANGED <<session, account, seq, condemned, crashes>>

\* rotateSessionTx and the commit.
Rotate(c) ==
  /\ pc[c] = "rotating" /\ seq < MaxRows
  /\ LET i == tok[c] IN
       session' = With(MarkReplaced(session, i, seq + 1), seq + 1,
                       NewRow(session[i].user, session[i].family))
  /\ seq' = seq + 1
  /\ Answer(c)
  /\ UNCHANGED <<account, condemned, crashes>>

\* A statement fails; the rotation rolls back.
Rollback(c) ==
  /\ pc[c] = "rotating" /\ Answer(c)
  /\ UNCHANGED <<session, account, seq, condemned, crashes>>

-----------------------------------------------------------------------------
(* Revocation                                                              *)

\* AdminSetActive(false) and AdminSetApproval(denied) reach the sessions
\* with the account's change still uncommitted.
Bar(c, u) ==
  /\ pc[c] = "idle" /\ account[u] # "deleted"
  /\ RevokeNext(c, u)
  /\ UNCHANGED <<session, account, seq, condemned, crashes>>

\* RevokeSessionFamily and RevokeUserSessions: the statement's snapshot ...
RevokeBegin(c) ==
  /\ pc[c] = "revoke"
  /\ targets' = [targets EXCEPT ![c] = Revocable(session, fam[c])]
  /\ covered' = [covered EXCEPT ![c] = Covered(session, fam[c])]
  /\ Goto(c, "revoking")
  /\ UNCHANGED <<session, account, seq, tok, fam, condemned, crashes>>

\* ... and its end, with every row's lock in hand, and the commit.
RevokeEnd(c) ==
  /\ pc[c] = "revoking"
  /\ \A i \in targets[c] : ~LockedByOther(c, i)
  /\ session' = RevokeRows(session, targets[c])
  /\ condemned' = (condemned \cup covered[c]) \cap Rows
  /\ account' = [u \in Users |->
                   IF u = fam[c] /\ account[u] = "active" THEN "barred" ELSE account[u]]
  /\ Answer(c)
  /\ UNCHANGED <<seq, crashes>>

\* Revoke (sign-out): the row is read, then revoked if it is still live.
SignOut(c, i) ==
  /\ Present(c, i) /\ Proceed(c, "signout", i)
  /\ UNCHANGED <<session, account, seq, condemned, crashes>>

RevokeSession(c) ==
  /\ pc[c] = "signout" /\ ~LockedByOther(c, tok[c])
  /\ session' = RevokeRows(session, {tok[c]})
  /\ Answer(c)
  /\ UNCHANGED <<account, seq, condemned, crashes>>

\* The request dies: its transaction rolls back, and a revocation that was
\* still to come never does.
Crash(c) ==
  /\ pc[c] # "idle" /\ crashes < MaxCrashes /\ crashes' = crashes + 1
  /\ Answer(c)
  /\ UNCHANGED <<session, account, seq, condemned>>

-----------------------------------------------------------------------------
(* The rest of the world                                                   *)

Reactivate(u) ==
  /\ account[u] = "barred" /\ account' = [account EXCEPT ![u] = "active"]
  /\ UNCHANGED <<session, seq, request, condemned, crashes>>

\* Account deletion cascades to the sessions, and waits for their locks.
DeleteUser(u) ==
  /\ account[u] # "deleted"
  /\ \A c \in Clients : pc[c] = "rotating" => session[tok[c]].user # u
  /\ account' = [account EXCEPT ![u] = "deleted"]
  /\ session' = Restrict(session, Rows \ OfUser(session, u))
  /\ condemned' = condemned \ OfUser(session, u)
  /\ UNCHANGED <<seq, request, crashes>>

\* PurgeExpired: rows that have expired, live or not, and rows revoked long
\* ago.
Purge ==
  /\ \E gone \in SUBSET Rows \ {{}} :
       /\ \A c \in Clients : pc[c] = "rotating" => tok[c] \notin gone
       /\ session' = Restrict(session, Rows \ gone)
       /\ condemned' = condemned \ gone
  /\ UNCHANGED <<account, seq, request, crashes>>

Request(c) ==
  \/ \E u \in Users : Authenticate(c, u) \/ Bar(c, u)
  \/ \E i \in Ids : Lookup(c, i) \/ SignOut(c, i)
  \/ Issue(c) \/ Lock(c) \/ Rotate(c) \/ Rollback(c)
  \/ RevokeBegin(c) \/ RevokeEnd(c) \/ RevokeSession(c) \/ Crash(c)

Next ==
  \/ \E c \in Clients : Request(c)
  \/ \E u \in Users : Reactivate(u) \/ DeleteUser(u)
  \/ Purge

Spec == Init /\ [][Next]_vars
-----------------------------------------------------------------------------
(* Properties                                                              *)

TypeOK ==
  /\ Rows \subseteq 1..seq /\ seq \in 0..MaxRows
  /\ \A i \in Rows : /\ session[i].user \in Users
                     /\ session[i].family \in 1..i
                     /\ session[i].replaced_by # NoRow => session[i].revoked
  /\ \A c \in Clients : /\ targets[c] \subseteq covered[c] /\ covered[c] \subseteq 1..seq
                        /\ pc[c] = "rotating" => tok[c] \in Rows
  /\ crashes \in 0..MaxCrashes

\* A family has one live token at most: of two overlapping refreshes of one
\* token, or a refresh and a sign-out, one wins ("two concurrent refreshes of
\* the same token can't both succeed").
OneLivePerFamily ==
  \A i, j \in Live(session) : session[i].family = session[j].family => i = j

\* Every row names a user and an earlier root, a rotated row is revoked, and
\* among the rows of a family one is live at most.
FamiliesConsistent == TypeOK /\ OneLivePerFamily

\* A revocation reaches every token of the family, or of the barred user,
\* that was committed when its statement began, and none of them ever comes
\* back: a later refresh, sign-out or reactivation revives nothing.
RevocationHolds == condemned \cap Live(session) = {}

\* A family without a live token stays without one: whoever holds a spent
\* token has to sign in again.
DeadFamilyStaysDead ==
  [][\A f \in Ids : f <= seq /\ Family(session, f) \cap Live(session) = {}
        => Family(session', f) \cap Live(session') = {}]_vars

\* The package comment: "replaying an already-rotated token revokes the whole
\* family".
ReuseRevokesFamily ==
  [][\A c \in Clients : RevokeEnd(c) => Family(session', fam[c]) \cap Live(session') = {}]_vars
=============================================================================
