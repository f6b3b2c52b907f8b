---------------------------- MODULE SessionsProofs ----------------------------
(***************************************************************************)
(* Theorems about Sessions, for any number of requests, users, rows and    *)
(* crashes: a family has one live token at most, a finished revocation     *)
(* holds, and a family without a live token never has one again.           *)
(***************************************************************************)
EXTENDS Sessions, TLAPS

RowsTyped ==
  /\ seq \in 0..MaxRows /\ Rows \subseteq 1..seq
  /\ \A i \in Rows : /\ session[i] \in [user : Users, family : Nat, revoked : BOOLEAN,
                                        replaced_by : Ids \cup {NoRow}]
                     /\ session[i].family \in 1..i
                     /\ session[i].replaced_by # NoRow => session[i].revoked

Places == {"idle", "issue", "found", "rotating", "revoke", "revoking", "signout"}

RequestsTyped ==
  /\ pc \in [Clients -> Places] /\ tok \in [Clients -> Ids \cup {NoRow}]
  /\ fam \in [Clients -> Users \cup Nat \cup {NoRow}]
  /\ targets \in [Clients -> SUBSET (1..seq)] /\ covered \in [Clients -> SUBSET (1..seq)]
  /\ \A c \in Clients : targets[c] \subseteq covered[c]
  /\ \A c \in Clients : pc[c] = "issue" => fam[c] \in Users
  /\ crashes \in 0..MaxCrashes

\* A rotation holds a live row, and holds it alone.
RotatorsHoldLive ==
  \A c \in Clients : pc[c] = "rotating" =>
    /\ tok[c] \in Live(session)
    /\ \A d \in Clients \ {c} : pc[d] = "rotating" => tok[d] # tok[c]

\* What a revocation covers is in its snapshot, or was revoked before it.
SnapshotsComplete ==
  \A c \in Clients : pc[c] = "revoking" =>
    covered[c] \cap Live(session) \subseteq targets[c]

Condemned == condemned \subseteq 1..seq /\ RevocationHolds

IInv ==
  /\ RowsTyped /\ RequestsTyped /\ RotatorsHoldLive /\ SnapshotsComplete
  /\ Condemned /\ OneLivePerFamily

\* A family that has a live token after a step had one before it.
NoneRevived ==
  \A f \in Ids : f <= seq /\ Family(session, f) \cap Live(session) = {}
    => Family(session', f) \cap Live(session') = {}

-----------------------------------------------------------------------------

LEMMA InitHolds == Init => IInv
BY SessionsAssumption
   DEF Init, IInv, RowsTyped, RequestsTyped, RotatorsHoldLive, SnapshotsComplete, Condemned,
       RevocationHolds, OneLivePerFamily, Rows, Live, Places

\* A step after which fewer rows are live, that begins no rotation and no
\* revocation.
LEMMA FewerLive ==
  ASSUME IInv, RowsTyped', RequestsTyped', seq' = seq,
         Live(session') \subseteq Live(session),
         \A i \in Live(session') : session'[i].family = session[i].family,
         condemned' \subseteq 1..seq, condemned' \cap Live(session') = {},
         \A c \in Clients : pc'[c] = "rotating" =>
           pc[c] = "rotating" /\ tok'[c] = tok[c] /\ tok[c] \in Live(session'),
         \A c \in Clients : pc'[c] = "revoking" =>
           pc[c] = "revoking" /\ targets'[c] = targets[c] /\ covered'[c] = covered[c]
  PROVE  IInv' /\ NoneRevived
<1>1. Condemned' /\ OneLivePerFamily'
  BY DEF IInv, Condemned, RevocationHolds, OneLivePerFamily
<1>2. RotatorsHoldLive'
  BY DEF IInv, RotatorsHoldLive
<1>3. SnapshotsComplete'
  BY DEF IInv, SnapshotsComplete
<1>4. NoneRevived
  BY DEF NoneRevived, Family, Live
<1>5. QED
  BY <1>1, <1>2, <1>3, <1>4 DEF IInv

\* A request moves on to a place where it holds no rows, and changes none.
LEMMA MoveKeeps ==
  ASSUME IInv, NEW c \in Clients, NEW to \in Places \ {"rotating", "revoking"},
         NEW i \in Ids \cup {NoRow}, NEW f \in Users \cup Nat \cup {NoRow},
         Goto(c, to), to = "issue" => f \in Users,
         tok' = [tok EXCEPT ![c] = i], fam' = [fam EXCEPT ![c] = f],
         \/ UNCHANGED <<targets, covered>>
         \/ targets' = [targets EXCEPT ![c] = {}] /\ covered' = [covered EXCEPT ![c] = {}],
         crashes' \in 0..MaxCrashes, UNCHANGED <<session, seq, condemned>>
  PROVE  IInv' /\ NoneRevived
<1>1. RowsTyped'
  BY DEF IInv, RowsTyped, Rows
<1>2. RequestsTyped'
  BY DEF IInv, RequestsTyped, Goto
<1>3. \A d \in Clients : pc'[d] \in {"rotating", "revoking"} =>
        d # c /\ pc'[d] = pc[d] /\ tok'[d] = tok[d] /\ targets'[d] = targets[d] /\ covered'[d] = covered[d]
  BY DEF IInv, RequestsTyped, Goto
<1>4. QED
  BY <1>1, <1>2, <1>3, FewerLive DEF IInv, RotatorsHoldLive, Condemned, RevocationHolds

\* What a request that ends leaves of the others.
LEMMA Answered ==
  ASSUME IInv, NEW c \in Clients, Answer(c), seq' = seq, crashes' \in 0..MaxCrashes
  PROVE  /\ RequestsTyped'
         /\ \A d \in Clients : pc'[d] \in {"rotating", "revoking"} =>
              d # c /\ pc'[d] = pc[d] /\ tok'[d] = tok[d] /\ targets'[d] = targets[d]
                    /\ covered'[d] = covered[d]
BY DEF IInv, RequestsTyped, Places, Answer, Goto

LEMMA RowsRevoked ==
  ASSUME IInv, NEW ids, session' = RevokeRows(session, ids), seq' = seq
  PROVE  /\ RowsTyped' /\ Live(session') = Live(session) \ ids
         /\ \A i \in Live(session') : session'[i].family = session[i].family
         /\ DOMAIN session' = DOMAIN session
<1>1. /\ DOMAIN session' = DOMAIN session
      /\ \A i \in DOMAIN session :
           session'[i] = IF i \in ids THEN [session[i] EXCEPT !.revoked = TRUE] ELSE session[i]
  BY DEF RevokeRows
<1>2. \A i \in DOMAIN session :
        /\ session'[i] \in [user : Users, family : Nat, revoked : BOOLEAN, replaced_by : Ids \cup {NoRow}]
        /\ session'[i].family = session[i].family /\ session'[i].replaced_by = session[i].replaced_by
        /\ session'[i].revoked <=> (i \in ids \/ session[i].revoked)
  BY <1>1 DEF IInv, RowsTyped, Rows
<1>3. RowsTyped'
  BY <1>1, <1>2 DEF IInv, RowsTyped, Rows
<1>4. QED
  BY <1>1, <1>2, <1>3 DEF Live

LEMMA RevokeEndKeeps ==
  ASSUME IInv, NEW c \in Clients, RevokeEnd(c)
  PROVE  IInv' /\ NoneRevived
<1>1. /\ pc[c] = "revoking" /\ \A i \in targets[c] : ~LockedByOther(c, i)
      /\ session' = RevokeRows(session, targets[c])
      /\ condemned' = (condemned \cup covered[c]) \cap Rows
      /\ Answer(c) /\ seq' = seq /\ crashes' = crashes
  BY DEF RevokeEnd
<1>2. /\ RowsTyped' /\ Live(session') = Live(session) \ targets[c]
      /\ \A i \in Live(session') : session'[i].family = session[i].family
  BY <1>1, RowsRevoked
<1>3. crashes' \in 0..MaxCrashes
  BY <1>1 DEF IInv, RequestsTyped
<1>4. condemned' \subseteq 1..seq /\ condemned' \cap Live(session') = {}
  BY <1>1, <1>2 DEF IInv, RowsTyped, SnapshotsComplete, Condemned, RevocationHolds
<1>5. \A d \in Clients : pc'[d] = "rotating" => tok[d] \in Live(session')
  <2>1. ASSUME NEW d \in Clients, pc'[d] = "rotating" PROVE tok[d] \in Live(session')
    <3>1. d # c /\ pc[d] = "rotating"
      BY <1>1, <1>3, <2>1, Answered
    <3>2. tok[d] \notin targets[c]
      BY <1>1, <3>1 DEF LockedByOther
    <3>3. QED
      BY <1>2, <3>1, <3>2 DEF IInv, RotatorsHoldLive
  <2>2. QED
    BY <2>1
<1>6. RequestsTyped' /\ \A d \in Clients : pc'[d] \in {"rotating", "revoking"} =>
        pc'[d] = pc[d] /\ tok'[d] = tok[d] /\ targets'[d] = targets[d] /\ covered'[d] = covered[d]
  BY <1>1, <1>3, Answered
<1>7. QED
  BY <1>1, <1>2, <1>4, <1>5, <1>6, FewerLive

LEMMA RevokeSessionKeeps ==
  ASSUME IInv, NEW c \in Clients, RevokeSession(c)
  PROVE  IInv' /\ NoneRevived
<1>1. /\ pc[c] = "signout" /\ ~LockedByOther(c, tok[c])
      /\ session' = RevokeRows(session, {tok[c]})
      /\ Answer(c) /\ seq' = seq /\ crashes' = crashes /\ condemned' = condemned
  BY DEF RevokeSession
<1>2. /\ RowsTyped' /\ Live(session') = Live(session) \ {tok[c]}
      /\ \A i \in Live(session') : session'[i].family = session[i].family
  BY <1>1, RowsRevoked
<1>3. crashes' \in 0..MaxCrashes
  BY <1>1 DEF IInv, RequestsTyped
<1>4. condemned' \subseteq 1..seq /\ condemned' \cap Live(session') = {}
  BY <1>1, <1>2 DEF IInv, Condemned, RevocationHolds
<1>5. \A d \in Clients : pc'[d] = "rotating" => tok[d] \in Live(session')
  BY <1>1, <1>2, <1>3, Answered DEF IInv, RotatorsHoldLive, LockedByOther
<1>6. RequestsTyped' /\ \A d \in Clients : pc'[d] \in {"rotating", "revoking"} =>
        pc'[d] = pc[d] /\ tok'[d] = tok[d] /\ targets'[d] = targets[d] /\ covered'[d] = covered[d]
  BY <1>1, <1>3, Answered
<1>7. QED
  BY <1>1, <1>2, <1>4, <1>5, <1>6, FewerLive

\* Rows go: those no rotation holds.
LEMMA RemovalKeeps ==
  ASSUME IInv, NEW kept \in SUBSET Rows, session' = Restrict(session, kept),
         \A c \in Clients : pc[c] = "rotating" => tok[c] \in kept,
         condemned' \subseteq condemned, UNCHANGED <<seq, request, crashes>>
  PROVE  IInv' /\ NoneRevived
<1>1. DOMAIN session' = kept /\ \A i \in kept : session'[i] = session[i]
  BY DEF Restrict
<1>2. RowsTyped' /\ RequestsTyped'
  BY <1>1 DEF IInv, RowsTyped, RequestsTyped, Rows, request
<1>3. Live(session') = Live(session) \cap kept
  BY <1>1 DEF Live, Rows
<1>4. \A i \in Live(session') : session'[i].family = session[i].family
  BY <1>1 DEF Live
<1>5. condemned' \subseteq 1..seq /\ condemned' \cap Live(session') = {}
  BY <1>3 DEF IInv, Condemned, RevocationHolds
<1>6. QED
  BY <1>2, <1>3, <1>4, <1>5, FewerLive DEF IInv, RotatorsHoldLive, request

\* A row is inserted, and at most one row of its family, now rotated into it,
\* was live.
LEMMA InsertionKeeps ==
  ASSUME IInv, NEW s, NEW u \in Users, NEW f \in 1..(seq + 1),
         seq < MaxRows, seq' = seq + 1, condemned' = condemned, crashes' = crashes,
         session' = With(s, seq + 1, NewRow(u, f)),
         DOMAIN s = Rows,
         \A i \in Rows : /\ s[i] \in [user : Users, family : Nat, revoked : BOOLEAN,
                                      replaced_by : Ids \cup {NoRow}]
                         /\ s[i].family = session[i].family
                         /\ s[i].replaced_by # NoRow => s[i].revoked,
         Live(s) \subseteq Live(session),
         \A i \in Live(s) : s[i].family # f,
         f <= seq => Family(session, f) \cap Live(session) # {},
         NEW c \in Clients, Answer(c),
         \A d \in Clients \ {c} : pc[d] = "rotating" => tok[d] \in Live(s)
  PROVE  IInv' /\ NoneRevived
<1>1. seq \in Nat /\ Rows \subseteq 1..seq /\ seq + 1 \in Ids /\ MaxRows \in Nat
  BY SessionsAssumption DEF IInv, RowsTyped, Ids
<1>2. /\ DOMAIN session' = Rows \cup {seq + 1} /\ seq + 1 \notin Rows
      /\ session'[seq + 1] = NewRow(u, f) /\ \A i \in Rows : session'[i] = s[i]
  BY <1>1 DEF With
<1>3. NewRow(u, f) \in [user : Users, family : Nat, revoked : BOOLEAN, replaced_by : Ids \cup {NoRow}]
      /\ NewRow(u, f).family = f /\ NewRow(u, f).replaced_by = NoRow /\ ~NewRow(u, f).revoked
  BY <1>1 DEF NewRow
<1>4. RowsTyped'
  BY <1>1, <1>2, <1>3 DEF IInv, RowsTyped, Rows
<1>5. Live(session') = Live(s) \cup {seq + 1}
  BY <1>2, <1>3 DEF Live
<1>6. \A i \in Live(s) : session'[i].family = session[i].family /\ i \in Rows /\ session'[i].family # f
  BY <1>2 DEF Live
<1>7. OneLivePerFamily'
  BY <1>2, <1>3, <1>5, <1>6 DEF IInv, OneLivePerFamily
<1>8. Condemned'
  BY <1>1, <1>5 DEF IInv, Condemned, RevocationHolds
<1>9. /\ RequestsTyped'
      /\ \A d \in Clients : pc'[d] \in {"rotating", "revoking"} =>
           d # c /\ pc'[d] = pc[d] /\ tok'[d] = tok[d] /\ targets'[d] = targets[d]
                 /\ covered'[d] = covered[d]
  <2>1. 1..seq \subseteq 1..seq'
    BY <1>1
  <2>2. QED
    BY <2>1 DEF IInv, RequestsTyped, Places, Answer, Goto
<1>10. RotatorsHoldLive'
  BY <1>5, <1>9 DEF IInv, RotatorsHoldLive
<1>11. SnapshotsComplete'
  BY <1>1, <1>5, <1>9 DEF IInv, RequestsTyped, SnapshotsComplete
<1>12. NoneRevived
  BY <1>1, <1>2, <1>3, <1>5, <1>6 DEF NoneRevived, Family, Live, Rows
<1>13. QED
  BY <1>4, <1>7, <1>8, <1>9, <1>10, <1>11, <1>12 DEF IInv

LEMMA IssueKeeps ==
  ASSUME IInv, NEW c \in Clients, Issue(c)
  PROVE  IInv' /\ NoneRevived
<1>1. pc[c] = "issue" /\ fam[c] \in Users /\ Answer(c) /\ UNCHANGED <<condemned, crashes>>
  BY DEF Issue, IInv, RequestsTyped
<1>2. CASE account[fam[c]] = "deleted" \/ seq = MaxRows
  <2>1. UNCHANGED <<session, seq>>
    BY <1>2 DEF Issue
  <2>2. crashes' \in 0..MaxCrashes
    BY <1>1 DEF IInv, RequestsTyped
  <2>3. QED
    BY <1>1, <2>1, <2>2, MoveKeeps DEF Answer, Places
<1>3. CASE ~(account[fam[c]] = "deleted" \/ seq = MaxRows)
  <2>1. seq' = seq + 1 /\ session' = With(session, seq + 1, NewRow(fam[c], seq + 1))
    BY <1>3 DEF Issue
  <2>2. seq < MaxRows /\ seq + 1 \in 1..(seq + 1) /\ ~(seq + 1 <= seq)
    BY <1>3, SessionsAssumption DEF IInv, RowsTyped
  <2>3. \A i \in Rows : session[i].family # seq + 1
    BY <2>2, SessionsAssumption DEF IInv, RowsTyped
  <2>4. \A i \in Live(session) : session[i].family # seq + 1
    BY <2>3 DEF Live, Rows
  <2>5. \A d \in Clients \ {c} : pc[d] = "rotating" => tok[d] \in Live(session)
    BY DEF IInv, RotatorsHoldLive
  <2>6. \A i \in Rows : /\ session[i] \in [user : Users, family : Nat, revoked : BOOLEAN,
                                            replaced_by : Ids \cup {NoRow}]
                        /\ session[i].replaced_by # NoRow => session[i].revoked
    BY DEF IInv, RowsTyped
  <2>7. QED
    BY <1>1, <2>1, <2>2, <2>4, <2>5, <2>6, InsertionKeeps DEF Rows
<1>4. QED
  BY <1>2, <1>3

LEMMA RotateKeeps ==
  ASSUME IInv, NEW c \in Clients, Rotate(c)
  PROVE  IInv' /\ NoneRevived
<1> DEFINE i == tok[c]
           s == MarkReplaced(session, i, seq + 1)
           f == session[i].family
<1>1. /\ pc[c] = "rotating" /\ seq < MaxRows /\ seq' = seq + 1 /\ Answer(c)
      /\ session' = With(s, seq + 1, NewRow(session[i].user, f))
      /\ UNCHANGED <<condemned, crashes>>
  BY DEF Rotate
<1>2. i \in Live(session) /\ i \in Rows /\ \A d \in Clients \ {c} : pc[d] = "rotating" => tok[d] # i
  BY <1>1 DEF IInv, RotatorsHoldLive, Live, Rows
<1>3. seq \in Nat /\ seq + 1 \in Ids /\ i \in 1..seq /\ f \in 1..(seq + 1) /\ session[i].user \in Users
  <2>1. seq \in Nat /\ seq + 1 \in Ids
    BY <1>1, SessionsAssumption DEF IInv, RowsTyped, Ids
  <2>2. i \in 1..seq /\ f \in 1..i /\ session[i].user \in Users
    BY <1>2 DEF IInv, RowsTyped
  <2>3. \A a \in 1..seq, b \in Nat : b \in 1..a => b \in 1..(seq + 1)
    BY <2>1
  <2>4. QED
    BY <2>1, <2>2, <2>3
<1>4. \A j \in Rows : s[j] = IF j = i THEN [session[j] EXCEPT !.revoked = TRUE, !.replaced_by = seq + 1]
                                     ELSE session[j]
  BY <1>2 DEF MarkReplaced, Rows, IInv, RowsTyped
<1>5. DOMAIN s = Rows /\ \A j \in Rows :
        /\ s[j] \in [user : Users, family : Nat, revoked : BOOLEAN, replaced_by : Ids \cup {NoRow}]
        /\ s[j].family = session[j].family
        /\ s[j].replaced_by # NoRow => s[j].revoked
        /\ s[j].revoked <=> (j = i \/ session[j].revoked)
  <2>1. DOMAIN s = Rows
    BY DEF MarkReplaced, Rows
  <2>2. \A j \in Rows : /\ session[j] \in [user : Users, family : Nat, revoked : BOOLEAN,
                                            replaced_by : Ids \cup {NoRow}]
                        /\ session[j].replaced_by # NoRow => session[j].revoked
    BY DEF IInv, RowsTyped
  <2>3. ASSUME NEW j \in Rows
        PROVE  /\ s[j] \in [user : Users, family : Nat, revoked : BOOLEAN, replaced_by : Ids \cup {NoRow}]
               /\ s[j].family = session[j].family
               /\ s[j].replaced_by # NoRow => s[j].revoked
               /\ s[j].revoked <=> (j = i \/ session[j].revoked)
    <3> HIDE DEF i, s
    <3>1. CASE j = i
      BY <1>3, <1>4, <2>2, <3>1
    <3>2. CASE j # i
      BY <1>4, <2>2, <3>2
    <3>3. QED
      BY <3>1, <3>2
  <2>4. QED
    BY <2>1, <2>3
<1>6. Live(s) = Live(session) \ {i}
  BY <1>2, <1>5 DEF Live, Rows
<1>7. \A j \in Live(s) : s[j].family # f
  BY <1>2, <1>5, <1>6 DEF IInv, OneLivePerFamily, Live, Rows
<1>8. Family(session, f) \cap Live(session) # {}
  BY <1>2 DEF Family, Rows
<1>9. \A d \in Clients \ {c} : pc[d] = "rotating" => tok[d] \in Live(s)
  BY <1>2, <1>6 DEF IInv, RotatorsHoldLive
<1>10. QED
  <2> HIDE DEF i, s, f
  <2>1. Live(s) \subseteq Live(session)
    BY <1>6
  <2>2. QED
    BY <1>1, <1>3, <1>5, <1>7, <1>8, <1>9, <2>1, InsertionKeeps

LEMMA LockKeeps ==
  ASSUME IInv, NEW c \in Clients, Lock(c)
  PROVE  IInv' /\ NoneRevived
<1>1. /\ pc[c] = "found" /\ ~LockedByOther(c, tok[c])
      /\ UNCHANGED <<session, seq, condemned, crashes>> /\ crashes' \in 0..MaxCrashes
  BY DEF Lock, IInv, RequestsTyped
<1>2. CASE Answer(c)
  BY <1>1, <1>2, MoveKeeps DEF Answer, Places
<1>3. CASE tok[c] \in Rows /\ RevokeNext(c, session[tok[c]].family)
  <2>1. session[tok[c]].family \in Nat
    BY <1>3 DEF IInv, RowsTyped
  <2>2. QED
    BY <1>1, <1>3, <2>1, MoveKeeps DEF RevokeNext, Places
<1>4. CASE tok[c] \in Rows /\ ~IsReused(tok[c]) /\ Proceed(c, "rotating", tok[c])
  <2>1. /\ tok[c] \in Live(session) /\ \A d \in Clients \ {c} : pc[d] = "rotating" => tok[d] # tok[c]
        /\ pc' = [pc EXCEPT ![c] = "rotating"] /\ tok' = [tok EXCEPT ![c] = tok[c]]
        /\ UNCHANGED <<fam, targets, covered>>
    BY <1>1, <1>4 DEF IsReused, LockedByOther, Proceed, Goto, Live, Rows
  <2>2. tok' = tok
    BY <2>1 DEF IInv, RequestsTyped
  <2>3. RowsTyped' /\ Condemned' /\ OneLivePerFamily' /\ NoneRevived
    BY <1>1 DEF IInv, RowsTyped, Rows, Condemned, RevocationHolds, OneLivePerFamily, NoneRevived
  <2>4. RequestsTyped'
    BY <1>1, <2>1, <2>2 DEF IInv, RequestsTyped, Places
  <2>5. RotatorsHoldLive'
    BY <1>1, <2>1, <2>2 DEF IInv, RequestsTyped, RotatorsHoldLive
  <2>6. SnapshotsComplete'
    BY <1>1, <2>1 DEF IInv, RequestsTyped, SnapshotsComplete
  <2>7. QED
    BY <2>3, <2>4, <2>5, <2>6 DEF IInv
<1>5. QED
  BY <1>2, <1>3, <1>4 DEF Lock

LEMMA RevokeBeginKeeps ==
  ASSUME IInv, NEW c \in Clients, RevokeBegin(c)
  PROVE  IInv' /\ NoneRevived
<1>1. /\ pc[c] = "revoke" /\ pc' = [pc EXCEPT ![c] = "revoking"]
      /\ targets' = [targets EXCEPT ![c] = Revocable(session, fam[c])]
      /\ covered' = [covered EXCEPT ![c] = Covered(session, fam[c])]
      /\ UNCHANGED <<session, seq, tok, fam, condemned, crashes>>
  BY DEF RevokeBegin, Goto
<1>2. /\ Revocable(session, fam[c]) = Covered(session, fam[c]) \cap Live(session)
      /\ Covered(session, fam[c]) \subseteq 1..seq
  BY DEF Revocable, Covered, Family, OfUser, IInv, RowsTyped, Rows
<1>3. RowsTyped' /\ Condemned' /\ OneLivePerFamily' /\ NoneRevived
  BY <1>1 DEF IInv, RowsTyped, Rows, Condemned, RevocationHolds, OneLivePerFamily, NoneRevived
<1>4. RequestsTyped'
  BY <1>1, <1>2 DEF IInv, RequestsTyped, Places
<1>5. RotatorsHoldLive'
  BY <1>1 DEF IInv, RequestsTyped, RotatorsHoldLive
<1>6. SnapshotsComplete'
  BY <1>1, <1>2 DEF IInv, RequestsTyped, SnapshotsComplete
<1>7. QED
  BY <1>3, <1>4, <1>5, <1>6 DEF IInv

LEMMA RequestKeeps ==
  ASSUME IInv, NEW c \in Clients, Request(c)
  PROVE  IInv' /\ NoneRevived
<1> USE DEF Places
<1>0. tok[c] \in Ids \cup {NoRow} /\ fam[c] \in Users \cup Nat \cup {NoRow} /\ crashes \in 0..MaxCrashes
  BY DEF IInv, RequestsTyped
<1>1. ASSUME NEW u \in Users, Authenticate(c, u) PROVE IInv' /\ NoneRevived
  <2>1. /\ Goto(c, "issue") /\ fam' = [fam EXCEPT ![c] = u] /\ tok' = [tok EXCEPT ![c] = tok[c]]
        /\ UNCHANGED <<session, seq, targets, covered, condemned, crashes>>
    BY <1>1 DEF Authenticate, IInv, RequestsTyped
  <2>2. QED
    BY <1>0, <2>1, MoveKeeps
<1>2. ASSUME NEW f \in Users \cup Nat, RevokeNext(c, f), UNCHANGED <<session, seq, condemned, crashes>>
      PROVE  IInv' /\ NoneRevived
  BY <1>0, <1>2, MoveKeeps DEF RevokeNext
<1>3. ASSUME NEW i \in Ids, NEW to \in {"found", "signout"}, Proceed(c, to, i),
             UNCHANGED <<session, seq, condemned, crashes>>
      PROVE  IInv' /\ NoneRevived
  <2>1. /\ Goto(c, to) /\ tok' = [tok EXCEPT ![c] = i] /\ fam' = [fam EXCEPT ![c] = fam[c]]
        /\ UNCHANGED <<targets, covered>> /\ to # "issue" /\ to \in Places \ {"rotating", "revoking"}
    BY <1>3 DEF Proceed, IInv, RequestsTyped
  <2>2. QED
    BY <1>0, <1>3, <2>1, MoveKeeps
<1>4. ASSUME NEW u \in Users, Bar(c, u) PROVE IInv' /\ NoneRevived
  BY <1>2, <1>4 DEF Bar
<1>5. ASSUME NEW i \in Ids, Lookup(c, i) PROVE IInv' /\ NoneRevived
  <2>1. i \in Rows /\ session[i].family \in Nat
    BY <1>5 DEF Lookup, Present, IInv, RowsTyped
  <2>2. QED
    BY <1>2, <1>3, <1>5, <2>1 DEF Lookup
<1>6. ASSUME NEW i \in Ids, SignOut(c, i) PROVE IInv' /\ NoneRevived
  BY <1>3, <1>6 DEF SignOut
<1>7. CASE Rollback(c) \/ Crash(c)
  <2>1. Answer(c) /\ UNCHANGED <<session, seq, condemned>>
    BY <1>7 DEF Rollback, Crash
  <2>2. crashes' \in 0..MaxCrashes
    BY <1>0, <1>7, SessionsAssumption DEF Rollback, Crash
  <2>3. QED
    BY <2>1, <2>2, MoveKeeps DEF Answer
<1>8. QED
  BY <1>1, <1>4, <1>5, <1>6, <1>7, IssueKeeps, LockKeeps, RotateKeeps, RevokeBeginKeeps,
     RevokeEndKeeps, RevokeSessionKeeps DEF Request

LEMMA WorldKeeps ==
  ASSUME IInv, (\E u \in Users : Reactivate(u) \/ DeleteUser(u)) \/ Purge \/ UNCHANGED vars
  PROVE  IInv' /\ NoneRevived
<1>1. ASSUME UNCHANGED <<session, seq, request, condemned, crashes>> PROVE IInv' /\ NoneRevived
  BY <1>1 DEF request, IInv, RowsTyped, Rows, RequestsTyped, RotatorsHoldLive, SnapshotsComplete,
              Condemned, RevocationHolds, OneLivePerFamily, NoneRevived
<1>2. ASSUME NEW u \in Users, DeleteUser(u) PROVE IInv' /\ NoneRevived
  <2>1. Rows \ OfUser(session, u) \in SUBSET Rows
    OBVIOUS
  <2>2. \A c \in Clients : pc[c] = "rotating" => tok[c] \in Rows \ OfUser(session, u)
    BY <1>2 DEF DeleteUser, OfUser, IInv, RotatorsHoldLive, Live, Rows
  <2>3. /\ session' = Restrict(session, Rows \ OfUser(session, u))
        /\ condemned' \subseteq condemned /\ UNCHANGED <<seq, request, crashes>>
    BY <1>2 DEF DeleteUser
  <2>4. QED
    BY <2>1, <2>2, <2>3, RemovalKeeps
<1>3. CASE Purge
  <2>1. PICK gone \in SUBSET Rows \ {{}} :
          /\ \A c \in Clients : pc[c] = "rotating" => tok[c] \notin gone
          /\ session' = Restrict(session, Rows \ gone)
          /\ condemned' = condemned \ gone
    BY <1>3 DEF Purge
  <2>2. Rows \ gone \in SUBSET Rows /\ condemned' \subseteq condemned /\ UNCHANGED <<seq, request, crashes>>
    BY <1>3, <2>1 DEF Purge
  <2>3. \A c \in Clients : pc[c] = "rotating" => tok[c] \in Rows \ gone
    BY <2>1 DEF IInv, RotatorsHoldLive, Live, Rows
  <2>4. QED
    BY <2>1, <2>2, <2>3, RemovalKeeps
<1>4. QED
  BY <1>1, <1>2, <1>3 DEF Reactivate, vars, request

LEMMA NextKeeps == IInv /\ [Next]_vars => IInv' /\ NoneRevived
BY RequestKeeps, WorldKeeps DEF Next

\* Rows are well formed, and a family has one live token at most: of a token's
\* overlapping refreshes and sign-outs one wins.
THEOREM OneTokenPerFamily == Spec => []FamiliesConsistent
<1>1. IInv => FamiliesConsistent
  BY DEF IInv, RowsTyped, RequestsTyped, RotatorsHoldLive, FamiliesConsistent, TypeOK, Live, Rows
<1>2. QED
  BY <1>1, InitHolds, NextKeeps, PTL DEF Spec

\* What a revocation covered stays revoked, whatever refreshes, sign-outs,
\* sweeps and crashes come after it or overlap it.
THEOREM RevocationIsFinal == Spec => []RevocationHolds
<1>1. IInv => RevocationHolds
  BY DEF IInv, Condemned
<1>2. QED
  BY <1>1, InitHolds, NextKeeps, PTL DEF Spec

\* No step brings a family without a live token back to life.
THEOREM NoFamilyRevives == Spec => DeadFamilyStaysDead
<1>1. IInv /\ [Next]_vars => [NoneRevived]_vars
  BY NextKeeps
<1>2. NoneRevived => \A f \in Ids : f <= seq /\ Family(session, f) \cap Live(session) = {}
                       => Family(session', f) \cap Live(session') = {}
  BY DEF NoneRevived
<1>3. QED
  BY <1>1, <1>2, InitHolds, NextKeeps, PTL DEF Spec, DeadFamilyStaysDead, NoneRevived
=============================================================================
