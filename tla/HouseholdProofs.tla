--------------------------- MODULE HouseholdProofs ---------------------------
(***************************************************************************)
(* Theorems about households, in two parts that share no state.            *)
(*                                                                         *)
(* The stock of two households of which one goes, for any number of        *)
(* requests and any quantities: a merge neither creates nor loses stock    *)
(* unless the source's row was changed while it was folded, and it fails   *)
(* by a deadlock only.                                                     *)
(*                                                                         *)
(* Membership, for any number of users, households and requests in         *)
(* flight: a household keeps one owner, the tables agree, and members come *)
(* by invites only.  MemberInv says what a request in flight still relies  *)
(* on when it commits; a step of another request leaves it true because it *)
(* cannot write the rows of a household that is locked (Steady), except    *)
(* where an account goes on an outdated list of its memberships.           *)
(***************************************************************************)
EXTENDS MCHousehold, Integers, FiniteSetTheorems, TLAPS

Steps == {"before", "target", "locked", "folding", "folded", "moved", "dropped", "done", "failed"}
Writing == {"inserting", "inserted", "written"}
Had == seen[S!Source]
Into == seen[S!Target]

StockTyped ==
  /\ cellar \in BOOLEAN
  /\ row \in [S!Parties -> S!Rows] /\ seen \in [S!Parties -> S!Rows]
  /\ owner \in [S!Parties -> Slots \cup {S!Merge, Nobody}]
  /\ at \in [Slots -> {"idle", "read"} \cup Writing]
  /\ op \in [Slots -> {"set", "update", "increment", "favorite", "delete"}]
  /\ house \in [Slots -> S!Parties] /\ held \in [Slots -> S!Rows]
  /\ plan \in {"merge", "dissolve"} /\ mergeAt \in Steps
  /\ folded \in {None} \cup [qty : Nat, into : S!Ids]
  /\ net \in Int /\ credited \in BOOLEAN /\ victim \in BOOLEAN

\* A request has the row it has written until it commits; what it updates or
\* deletes had been committed, and keeps its ID.
RowsOwned ==
  /\ \A h \in S!Parties : owner[h] = Nobody => row[h] = seen[h]
  /\ \A h \in S!Parties, r \in Slots : owner[h] = r => house[r] = h /\ at[r] \in Writing
  /\ \A r \in Slots : at[r] \in Writing => owner[house[r]] = r
  /\ \A r \in Slots : at[r] = "written" =>
       /\ seen[house[r]] # None
       /\ row[house[r]] # None => row[house[r]].id = seen[house[r]].id

\* No insert passes a household's lock.
InsertsBarred == \A r \in Slots : at[r] = "inserted" => ~S!LockedRow(house[r])

\* The merge's writes, step by step: the source's stock was folded into the
\* target's row, or its row was moved, or it had none.
MergeOwns(h) == owner[h] = S!Merge
SourceFolded ==
  /\ folded # None /\ Into # None /\ row[S!Target] # None
  /\ row[S!Target].qty = Into.qty + folded.qty
SourceMoved ==
  /\ MergeOwns(S!Target) /\ row[S!Source] = None /\ row[S!Target] = Had
  /\ Into = None /\ Had # None
MergeWrites ==
  /\ mergeAt \notin {"folded", "moved", "dropped"} => \A h \in S!Parties : ~MergeOwns(h)
  /\ plan = "dissolve" =>
       mergeAt \notin {"target", "folding", "folded", "moved"} /\ folded = None /\ ~MergeOwns(S!Target)
  /\ mergeAt \in {"folding", "folded", "moved"} /\ folded # None /\ ~credited =>
       Had # None /\ Had.qty = folded.qty
  /\ mergeAt = "folding" => IF folded = None THEN Had = None \/ Into = None
                                             ELSE Into = None \/ Into.id = folded.into
  /\ mergeAt = "folded" =>
       /\ ~MergeOwns(S!Source)
       /\ IF MergeOwns(S!Target) THEN SourceFolded ELSE Had = None \/ Into = None
  /\ mergeAt = "moved" =>
       IF MergeOwns(S!Source) THEN SourceMoved
       ELSE IF MergeOwns(S!Target) THEN SourceFolded ELSE Had = None
  /\ mergeAt = "dropped" =>
       /\ S!Visible(S!Source) = None
       /\ plan = "merge" => credited \/ S!Qty(S!Visible(S!Target)) = S!Total(seen)

StockInv ==
  /\ StockTyped /\ RowsOwned /\ InsertsBarred /\ MergeWrites
  /\ S!StockKept /\ S!MergeCompletes

-----------------------------------------------------------------------------

LEMMA SameCardinality == \A s : S!Cardinality(s) = Cardinality(s)
BY Zenon DEF S!Cardinality, Cardinality

\* One more element is one more at most.
LEMMA OneMore ==
  ASSUME NEW s, IsFiniteSet(s), NEW x
  PROVE  IsFiniteSet(s \cup {x}) /\ Cardinality(s \cup {x}) <= Cardinality(s) + 1
<1>1. Cardinality(s) \in Nat
  BY FS_CardinalityType
<1>2. /\ IsFiniteSet(s \cup {x})
      /\ Cardinality(s \cup {x}) = IF x \in s THEN Cardinality(s) ELSE Cardinality(s) + 1
  BY FS_AddElement
<1>3. QED
  BY <1>1, <1>2

\* There is an ID that no row has and nobody remembers: the remembered ones
\* are too few to fill Ids.
LEMMA NewIdExists ==
  ASSUME StockTyped, NEW h \in S!Parties, row[h] = None
  PROVE  S!NewId \in S!Ids
<1> DEFINE g == IF h = S!Source THEN S!Target ELSE S!Source
           ids == [q \in Slots |-> held[q].id]
           remembered == {ids[q] : q \in Slots}
           a0 == remembered \cup {row[g].id}
           b0 == a0 \cup {Had.id}
           c0 == b0 \cup {Into.id}
           all == c0 \cup {folded.into}
           used == {r.id : r \in ({row[p] : p \in S!Parties} \cup {seen[p] : p \in S!Parties}
                                  \cup {held[q] : q \in Slots}) \ {None}}
<1>1. IsFiniteSet(remembered) /\ Cardinality(remembered) <= Cardinality(Slots)
  <2>1. ids \in Surjection(Slots, remembered)
    BY DEF Surjection
  <2>2. QED
    BY <2>1, FS_Surjection, StockAssumption
<1>2. /\ IsFiniteSet(all) /\ Cardinality(all) <= Cardinality(Slots) + 4
  <2>1. Cardinality(Slots) \in Nat /\ Cardinality(remembered) \in Nat
    BY <1>1, FS_CardinalityType, StockAssumption
  <2>2. IsFiniteSet(a0) /\ Cardinality(a0) <= Cardinality(remembered) + 1 /\ Cardinality(a0) \in Nat
    BY <1>1, OneMore, FS_CardinalityType
  <2>3. IsFiniteSet(b0) /\ Cardinality(b0) <= Cardinality(a0) + 1 /\ Cardinality(b0) \in Nat
    BY <2>2, OneMore, FS_CardinalityType
  <2>4. IsFiniteSet(c0) /\ Cardinality(c0) <= Cardinality(b0) + 1 /\ Cardinality(c0) \in Nat
    BY <2>3, OneMore, FS_CardinalityType
  <2>5. IsFiniteSet(all) /\ Cardinality(all) <= Cardinality(c0) + 1 /\ Cardinality(all) \in Nat
    BY <2>4, OneMore, FS_CardinalityType
  <2> HIDE DEF remembered, a0, b0, c0, all
  <2>6. QED
    BY <1>1, <2>1, <2>2, <2>3, <2>4, <2>5
<1>3. used \subseteq all
  BY DEF S!Parties, Had, Into
<1>4. \E i \in S!Ids : i \notin all
  <2>1. Cardinality(Slots) \in Nat
    BY FS_CardinalityType, StockAssumption
  <2>2. S!Ids = 1..(Cardinality(Slots) + 5)
    BY SameCardinality DEF S!Ids
  <2>3. IsFiniteSet(S!Ids) /\ Cardinality(S!Ids) = Cardinality(Slots) + 5
    BY <2>1, <2>2, FS_Interval
  <2>4. S!Ids \subseteq all => Cardinality(S!Ids) <= Cardinality(all)
    BY <1>2, FS_Subset
  <2>5. Cardinality(all) \in Nat
    BY <1>2, FS_CardinalityType
  <2> HIDE DEF all
  <2>6. QED
    BY <1>2, <2>1, <2>3, <2>4, <2>5
<1>5. \E i \in S!Ids : i \notin used /\ (folded # None => folded.into # i)
  <2>1. folded.into \in all
    OBVIOUS
  <2> HIDE DEF used, all
  <2>2. QED
    BY <1>3, <1>4, <2>1
<1>6. QED
  BY <1>5 DEF S!NewId

LEMMA StockInit == S!Init => StockInv
<1> SUFFICES ASSUME S!Init PROVE StockInv
  OBVIOUS
<1>1. \A h \in S!Parties : (IF h = S!Source THEN 1 ELSE 2) \in S!Ids
  <2>1. Cardinality(Slots) \in Nat
    BY FS_CardinalityType, StockAssumption
  <2>2. QED
    BY <2>1, SameCardinality DEF S!Ids
<1>2. seen \in [S!Parties -> S!Rows]
  <2>1. PICK given \in SUBSET S!Parties :
          seen = [h \in S!Parties |-> IF h \in given THEN [id |-> IF h = S!Source THEN 1 ELSE 2, qty |-> 1]
                                                     ELSE None]
    BY DEF S!Init
  <2>2. QED
    BY <1>1, <2>1 DEF S!Rows
<1>3. net \in Int
  <2>1. \A h \in S!Parties : S!Qty(seen[h]) \in Nat
    BY <1>2 DEF S!Qty, S!Rows
  <2>2. QED
    BY <2>1 DEF S!Init, S!Total, S!Parties
<1>4. StockTyped
  BY <1>2, <1>3 DEF S!Init, StockTyped, S!Rows, S!Parties, Steps, Writing
<1>5. RowsOwned /\ InsertsBarred
  BY StockAssumption DEF S!Init, RowsOwned, InsertsBarred, Writing
<1>6. MergeWrites
  <2>1. mergeAt = "before" /\ folded = None /\ \A h \in S!Parties : owner[h] = Nobody
    BY DEF S!Init
  <2>2. S!Source \in S!Parties /\ S!Target \in S!Parties
    BY DEF S!Parties
  <2>3. QED
    BY <2>1, <2>2, StockAssumption DEF MergeWrites, MergeOwns
<1>8. S!StockKept /\ S!MergeCompletes
  BY DEF S!Init, S!StockKept, S!MergeCompletes
<1>7. QED
  BY <1>4, <1>5, <1>6, <1>8 DEF StockInv

\* What a row of the two tables is.
LEMMA StockRowFields ==
  ASSUME StockTyped, NEW h \in S!Parties
  PROVE  /\ row[h] # None => row[h].id \in S!Ids /\ row[h].qty \in Nat
         /\ seen[h] # None => seen[h].id \in S!Ids /\ seen[h].qty \in Nat
         /\ S!Qty(row[h]) \in Nat /\ S!Qty(seen[h]) \in Nat
BY DEF StockTyped, S!Rows, S!Qty

\* A request's step that writes no row.
LEMMA RequestMoves ==
  ASSUME StockInv, NEW r \in Slots, at[r] \in {"idle", "read"}, NEW to \in {"idle", "read"},
         NEW o \in {"set", "update", "increment", "favorite", "delete"},
         NEW h \in S!Parties, NEW was \in S!Rows,
         S!Goto(r, to), op' = [op EXCEPT ![r] = o], house' = [house EXCEPT ![r] = h],
         held' = [held EXCEPT ![r] = was],
         UNCHANGED <<cellar, row, seen, owner, plan, mergeAt, folded, net, credited, victim>>
  PROVE  StockInv'
<1>1. at' = [at EXCEPT ![r] = to] /\ at[r] \notin Writing /\ to \notin Writing
  BY DEF S!Goto, Writing
<1>2. StockTyped'
  BY <1>1 DEF StockInv, StockTyped
<1>3. RowsOwned' /\ InsertsBarred'
  BY <1>1 DEF StockInv, StockTyped, RowsOwned, InsertsBarred, S!LockedRow, S!Merging, Writing
<1>4. MergeWrites'
  BY DEF StockInv, MergeWrites, MergeOwns, SourceFolded, SourceMoved, Had, Into, S!Visible, S!Total
<1>6. S!StockKept' /\ S!MergeCompletes'
  BY DEF StockInv, S!StockKept, S!Total, S!MergeCompletes
<1>5. QED
  BY <1>2, <1>3, <1>4, <1>6 DEF StockInv

LEMMA BeginAndLeave ==
  ASSUME StockInv, NEW r \in Slots,
         (\E o \in S!Ops, h \in S!Parties : S!Begin(r, o, h)) \/ S!NothingToWrite(r)
  PROVE  StockInv'
<1>1. None \in S!Rows /\ \A h \in S!Parties : seen[h] \in S!Rows
  BY DEF S!Rows, StockInv, StockTyped
<1>2. ASSUME NEW o \in S!Ops, NEW h \in S!Parties, S!Begin(r, o, h) PROVE StockInv'
  <2>1. o \in {"set", "update", "increment", "favorite", "delete"}
    BY DEF S!Ops
  <2> DEFINE was == IF o \in {"set", "increment"} THEN None ELSE seen[h]
  <2>2. was \in S!Rows
    BY <1>1
  <2>3. /\ at[r] = "idle" /\ S!Goto(r, "read") /\ op' = [op EXCEPT ![r] = o]
        /\ house' = [house EXCEPT ![r] = h] /\ held' = [held EXCEPT ![r] = was]
        /\ UNCHANGED <<cellar, row, seen, owner, plan, mergeAt, folded, net, credited, victim>>
    BY <1>2 DEF S!Begin, S!rows, S!merging, S!history
  <2> HIDE DEF was
  <2>4. QED
    BY <2>1, <2>2, <2>3, RequestMoves
<1>3. CASE S!NothingToWrite(r)
  <2>1. /\ at[r] = "read" /\ S!Goto(r, "idle") /\ op' = [op EXCEPT ![r] = "set"]
        /\ house' = [house EXCEPT ![r] = S!Source] /\ held' = [held EXCEPT ![r] = None]
        /\ UNCHANGED <<cellar, row, seen, owner, plan, mergeAt, folded, net, credited, victim>>
    BY <1>3 DEF S!NothingToWrite, S!Leave, S!rows, S!merging, S!history
  <2>2. S!Source \in S!Parties
    BY DEF S!Parties
  <2>3. QED
    BY <1>1, <2>1, <2>2, RequestMoves
<1>4. QED
  BY <1>2, <1>3

\* Where the merge's rows stay as they are, so does what it knows of them.
LEMMA MergeUndisturbed ==
  ASSUME StockInv,
         \A h \in S!Parties : MergeOwns(h)' <=> MergeOwns(h),
         \A h \in S!Parties : MergeOwns(h) => row'[h] = row[h],
         UNCHANGED <<seen, plan, mergeAt, folded, net, credited, victim>>
  PROVE  MergeWrites' /\ S!StockKept' /\ S!MergeCompletes'
<1>1. S!Source \in S!Parties /\ S!Target \in S!Parties
  BY DEF S!Parties
<1>2. \A h \in S!Parties : S!Visible(h)' = S!Visible(h)
  BY DEF S!Visible, MergeOwns
<1>3. UNCHANGED <<Had, Into, S!Total(seen)>>
  BY DEF Had, Into, S!Total
<1>4. MergeOwns(S!Target) => (SourceFolded' <=> SourceFolded)
  BY <1>1, <1>3 DEF SourceFolded
<1>5. MergeOwns(S!Source) => (SourceMoved => SourceMoved')
  BY <1>1, <1>3 DEF SourceMoved
<1>6. MergeWrites'
  BY <1>1, <1>2, <1>3, <1>4, <1>5 DEF StockInv, MergeWrites
<1>7. S!StockKept' /\ S!MergeCompletes'
  BY <1>3 DEF StockInv, S!StockKept, S!MergeCompletes
<1>8. QED
  BY <1>6, <1>7

\* A request writes its household's row, which nobody else has.
LEMMA RowWritten ==
  ASSUME StockInv, NEW r \in Slots, NEW h \in S!Parties, h = house[r],
         at[r] = "read", owner[h] = Nobody, NEW entry \in S!Rows,
         row' = [row EXCEPT ![h] = entry], owner' = [owner EXCEPT ![h] = r],
         NEW to \in {"inserting", "written"}, S!Goto(r, to),
         to = "written" => row[h] # None /\ (entry # None => entry.id = row[h].id),
         UNCHANGED <<cellar, seen, op, house, held, plan, mergeAt, folded, net, credited, victim>>
  PROVE  StockInv'
<1>1. at' = [at EXCEPT ![r] = to] /\ at'[r] = to /\ \A q \in Slots \ {r} : at'[q] = at[q]
  BY DEF S!Goto, StockInv, StockTyped
<1>2. /\ row'[h] = entry /\ owner'[h] = r
      /\ \A g \in S!Parties \ {h} : row'[g] = row[g] /\ owner'[g] = owner[g]
  BY DEF StockInv, StockTyped
<1>3. StockTyped'
  BY <1>1 DEF StockInv, StockTyped, Writing
<1>4. RowsOwned'
  <2>1. \A g \in S!Parties : owner'[g] = Nobody => row'[g] = seen[g]
    BY <1>2, StockAssumption DEF StockInv, RowsOwned
  <2>2. \A g \in S!Parties, q \in Slots : owner'[g] = q => house[q] = g /\ at'[q] \in Writing
    BY <1>1, <1>2 DEF StockInv, RowsOwned, Writing
  <2>3. \A q \in Slots : at'[q] \in Writing => owner'[house[q]] = q
    BY <1>1, <1>2, StockAssumption DEF StockInv, StockTyped, RowsOwned
  <2>4. \A q \in Slots : at'[q] = "written" =>
          /\ seen[house[q]] # None
          /\ row'[house[q]] # None => row'[house[q]].id = seen[house[q]].id
    <3>1. row[h] = seen[h]
      BY DEF StockInv, RowsOwned
    <3>2. ASSUME NEW q \in Slots \ {r}, at[q] = "written" PROVE house[q] # h /\ house[q] \in S!Parties
      BY <3>2, StockAssumption DEF StockInv, StockTyped, RowsOwned, Writing
    <3>3. QED
      BY <1>1, <1>2, <3>1, <3>2 DEF StockInv, RowsOwned
  <2>5. QED
    BY <2>1, <2>2, <2>3, <2>4 DEF RowsOwned
<1>5. InsertsBarred'
  BY <1>1 DEF StockInv, InsertsBarred, S!LockedRow, S!Merging
<1>6. MergeWrites' /\ S!StockKept' /\ S!MergeCompletes'
  <2>1. \A g \in S!Parties : MergeOwns(g)' <=> MergeOwns(g)
    BY <1>2, StockAssumption DEF MergeOwns
  <2>2. \A g \in S!Parties : MergeOwns(g) => row'[g] = row[g]
    BY <1>2, StockAssumption DEF MergeOwns
  <2>3. QED
    BY <2>1, <2>2, MergeUndisturbed
<1>7. QED
  BY <1>3, <1>4, <1>5, <1>6 DEF StockInv

LEMMA UpsertKeeps ==
  ASSUME StockInv, NEW r \in Slots, NEW quantities \in SUBSET Nat, S!Upsert(r, quantities)
  PROVE  StockInv'
<1> DEFINE h == house[r]
<1>1. h \in S!Parties
  BY DEF StockInv, StockTyped
<1>2. /\ at[r] = "read" /\ owner[h] = Nobody /\ owner' = [owner EXCEPT ![h] = r]
      /\ UNCHANGED <<cellar, seen, op, house, held, plan, mergeAt, folded, net, credited, victim>>
  BY DEF S!Upsert, S!merging, S!history
<1>3. PICK q \in quantities :
        IF row[h] = None
        THEN row' = [row EXCEPT ![h] = [id |-> S!NewId, qty |-> q]] /\ S!Goto(r, "inserting")
        ELSE row' = [row EXCEPT ![h].qty = q] /\ S!Goto(r, "written")
  BY DEF S!Upsert
<1>4. q \in Nat
  OBVIOUS
<1>5. CASE row[h] = None
  <2> DEFINE entry == [id |-> S!NewId, qty |-> q]
  <2>1. entry \in S!Rows
    BY <1>1, <1>4, <1>5, NewIdExists DEF StockInv, S!Rows
  <2>2. row' = [row EXCEPT ![h] = entry] /\ S!Goto(r, "inserting")
    BY <1>3, <1>5
  <2> HIDE DEF entry
  <2>3. QED
    BY <1>1, <1>2, <2>1, <2>2, RowWritten
<1>6. CASE row[h] # None
  <2> DEFINE entry == [row[h] EXCEPT !.qty = q]
  <2>1. entry \in S!Rows /\ entry.id = row[h].id
    BY <1>1, <1>4, <1>6 DEF StockInv, StockTyped, S!Rows
  <2>2. row' = [row EXCEPT ![h] = entry] /\ S!Goto(r, "written")
    BY <1>3, <1>6
  <2> HIDE DEF entry
  <2>3. QED
    BY <1>1, <1>2, <1>6, <2>1, <2>2, RowWritten
<1>7. QED
  BY <1>5, <1>6

LEMMA WritingKeeps ==
  ASSUME StockInv, NEW r \in Slots,
         S!Set(r) \/ S!UpdateUserBottle(r) \/ S!IncrementUserItem(r) \/ S!Favorite(r)
           \/ S!DeleteUserItem(r)
  PROVE  StockInv'
<1>1. CASE S!Set(r) \/ S!Favorite(r)
  BY <1>1, UpsertKeeps DEF S!Set, S!Favorite
<1>2. CASE S!UpdateUserBottle(r)
  <2>1. S!Qty(held[r]) \in Nat
    BY DEF S!Qty, StockInv, StockTyped, S!Rows
  <2>2. QED
    BY <1>2, <2>1, UpsertKeeps DEF S!UpdateUserBottle
<1>3. CASE S!IncrementUserItem(r)
  <2> DEFINE q == S!Qty(row[house[r]])
             deltas == IF q < MaxQty THEN {-1, 1} ELSE {-1}
             quantities == {S!Clamped(q + delta) : delta \in deltas}
  <2>1. q \in Nat
    BY StockRowFields DEF StockInv, StockTyped
  <2>2. \A delta \in deltas : S!Clamped(q + delta) \in Nat
    BY <2>1 DEF S!Clamped
  <2>3. quantities \in SUBSET Nat
    BY <2>2
  <2>4. S!Upsert(r, quantities)
    BY <1>3 DEF S!IncrementUserItem
  <2> HIDE DEF quantities
  <2>5. QED
    BY <2>3, <2>4, UpsertKeeps
<1>4. CASE S!DeleteUserItem(r)
  <2> DEFINE h == house[r]
  <2>1. /\ at[r] = "read" /\ owner[h] = Nobody /\ h \in S!Parties /\ None \in S!Rows
        /\ UNCHANGED <<cellar, seen, plan, mergeAt, folded, net, credited, victim>>
    BY <1>4 DEF S!DeleteUserItem, S!merging, S!history, StockInv, StockTyped, S!Rows
  <2>2. CASE row[h] # None /\ row[h].id = held[r].id
    <3>1. /\ row' = [row EXCEPT ![h] = None] /\ owner' = [owner EXCEPT ![h] = r]
          /\ S!Goto(r, "written") /\ UNCHANGED <<op, house, held>>
      BY <1>4, <2>2 DEF S!DeleteUserItem
    <3>2. QED
      BY <2>1, <2>2, <3>1, RowWritten
  <2>3. CASE ~(row[h] # None /\ row[h].id = held[r].id)
    <3>1. /\ S!Goto(r, "idle") /\ op' = [op EXCEPT ![r] = "set"]
          /\ house' = [house EXCEPT ![r] = S!Source] /\ held' = [held EXCEPT ![r] = None]
          /\ UNCHANGED <<row, owner>>
      BY <1>4, <2>3 DEF S!DeleteUserItem, S!Leave
    <3>2. S!Source \in S!Parties
      BY DEF S!Parties
    <3>3. QED
      BY <2>1, <3>1, <3>2, RequestMoves
  <2>4. QED
    BY <2>2, <2>3
<1>5. QED
  BY <1>1, <1>2, <1>3, <1>4

\* A request that leaves without its row: another transaction's rows stay.
LEMMA RequestLeaves ==
  ASSUME StockInv, NEW r \in Slots, S!Leave(r), at[r] \in Writing,
         owner' = [h \in S!Parties |-> IF owner[h] = r THEN Nobody ELSE owner[h]],
         UNCHANGED <<cellar, plan, mergeAt, folded>>,
         row' \in [S!Parties -> S!Rows], seen' \in [S!Parties -> S!Rows],
         \A h \in S!Parties : owner[h] = r => row'[h] = seen'[h],
         \A h \in S!Parties : owner[h] # r => row'[h] = row[h] /\ seen'[h] = seen[h],
         net' \in Int, credited' \in BOOLEAN, victim' \in BOOLEAN
  PROVE  StockTyped' /\ RowsOwned' /\ InsertsBarred'
<1>1. /\ at' = [at EXCEPT ![r] = "idle"] /\ op' = [op EXCEPT ![r] = "set"]
      /\ house' = [house EXCEPT ![r] = S!Source] /\ held' = [held EXCEPT ![r] = None]
      /\ at'[r] = "idle"
      /\ \A q \in Slots \ {r} : at'[q] = at[q] /\ house'[q] = house[q]
  BY DEF S!Leave, S!Goto, StockInv, StockTyped
<1>2. S!Source \in S!Parties /\ None \in S!Rows
  BY DEF S!Parties, S!Rows
<1>3. StockTyped'
  BY <1>1, <1>2 DEF StockInv, StockTyped
<1>4. RowsOwned'
  <2>1. \A h \in S!Parties : owner'[h] = Nobody => row'[h] = seen'[h]
    BY DEF StockInv, RowsOwned
  <2>2. \A h \in S!Parties, q \in Slots : owner'[h] = q => house'[q] = h /\ at'[q] \in Writing
    BY <1>1, StockAssumption DEF StockInv, RowsOwned
  <2>3. \A q \in Slots : at'[q] \in Writing => q # r /\ at[q] \in Writing
    BY <1>1 DEF Writing
  <2>4. \A q \in Slots : at'[q] \in Writing => owner'[house'[q]] = q
    BY <1>1, <2>3 DEF StockInv, StockTyped, RowsOwned
  <2>5. \A q \in Slots : at'[q] = "written" =>
          /\ seen'[house'[q]] # None
          /\ row'[house'[q]] # None => row'[house'[q]].id = seen'[house'[q]].id
    BY <1>1, <2>3, <2>4 DEF StockInv, StockTyped, RowsOwned, Writing
  <2>6. QED
    BY <2>1, <2>2, <2>4, <2>5 DEF RowsOwned
<1>5. InsertsBarred'
  BY <1>1 DEF StockInv, InsertsBarred, S!LockedRow, S!Merging
<1>6. QED
  BY <1>3, <1>4, <1>5

LEMMA RequestUndone ==
  ASSUME StockInv, NEW r \in Slots, S!Leave(r), S!Undo(r), at[r] \in Writing,
         UNCHANGED <<cellar, seen, plan, mergeAt, folded, net, credited, victim>>
  PROVE  StockInv'
<1>1. /\ row' = [h \in S!Parties |-> IF owner[h] = r THEN seen[h] ELSE row[h]]
      /\ owner' = [h \in S!Parties |-> IF owner[h] = r THEN Nobody ELSE owner[h]]
  BY DEF S!Undo
<1>2. row' \in [S!Parties -> S!Rows]
  BY <1>1 DEF StockInv, StockTyped
<1>3. StockTyped' /\ RowsOwned' /\ InsertsBarred'
  BY <1>1, <1>2, RequestLeaves DEF StockInv, StockTyped
<1>4. /\ \A h \in S!Parties : MergeOwns(h)' <=> MergeOwns(h)
      /\ \A h \in S!Parties : MergeOwns(h) => row'[h] = row[h]
  BY <1>1, StockAssumption DEF MergeOwns
<1>5. QED
  BY <1>3, <1>4, MergeUndisturbed DEF StockInv

LEMMA CheckKeeps ==
  ASSUME StockInv, NEW r \in Slots, S!CheckHousehold(r) \/ S!FailInsert(r)
  PROVE  StockInv'
<1>1. CASE S!FailInsert(r)
  <2>1. at[r] \in Writing
    BY <1>1 DEF S!FailInsert, S!Deadlocked, Writing
  <2>2. QED
    BY <1>1, <2>1, RequestUndone DEF S!FailInsert, S!merging, S!history
<1>2. CASE S!CheckHousehold(r)
  <2>1. /\ at[r] = "inserting" /\ at[r] \in Writing /\ ~S!LockedRow(house[r])
        /\ UNCHANGED <<cellar, seen, plan, mergeAt, folded, net, credited, victim>>
    BY <1>2 DEF S!CheckHousehold, S!merging, S!history, Writing
  <2>2. CASE house[r] = S!Source /\ S!Dissolved
    BY <1>2, <2>1, <2>2, RequestUndone DEF S!CheckHousehold
  <2>3. CASE ~(house[r] = S!Source /\ S!Dissolved)
    <3>1. at' = [at EXCEPT ![r] = "inserted"] /\ UNCHANGED <<row, owner, op, house, held>>
      BY <1>2, <2>3 DEF S!CheckHousehold, S!Goto
    <3>2. StockTyped'
      BY <2>1, <3>1 DEF StockInv, StockTyped, Writing
    <3>3. RowsOwned'
      BY <2>1, <3>1 DEF StockInv, StockTyped, RowsOwned, Writing
    <3>4. InsertsBarred'
      BY <2>1, <3>1 DEF StockInv, StockTyped, InsertsBarred, S!LockedRow, S!Merging
    <3>5. MergeWrites' /\ S!StockKept' /\ S!MergeCompletes'
      BY <2>1, <3>1, MergeUndisturbed DEF MergeOwns
    <3>6. QED
      BY <3>2, <3>3, <3>4, <3>5 DEF StockInv
  <2>4. QED
    BY <2>2, <2>3
<1>3. QED
  BY <1>1, <1>2

\* A commit of a request: of the source's row it counts as a change of what is
\* being folded, of the target's it adds the same to both.
LEMMA CommitKeeps ==
  ASSUME StockInv, NEW r \in Slots, S!Commit(r)
  PROVE  StockInv'
<1> DEFINE h == house[r]
           left == IF op[r] = "increment" /\ row[h].qty = 0 THEN None ELSE row[h]
<1>1. /\ at[r] \in {"inserted", "written"} /\ at[r] \in Writing /\ S!Leave(r)
      /\ row' = [row EXCEPT ![h] = left] /\ seen' = [seen EXCEPT ![h] = left]
      /\ owner' = [owner EXCEPT ![h] = Nobody]
      /\ net' = net + S!Qty(left) - S!Qty(seen[h])
      /\ credited' = (credited \/ (h = S!Source /\ mergeAt \in {"folding", "folded", "moved"} /\ folded # None))
      /\ UNCHANGED <<cellar, plan, mergeAt, folded, victim>>
  BY DEF S!Commit, S!merging, Writing
<1>2. h \in S!Parties /\ owner[h] = r /\ \A g \in S!Parties : owner[g] = r <=> g = h
  BY <1>1 DEF StockInv, StockTyped, RowsOwned
<1>3. left \in S!Rows /\ (left # None => left = row[h])
  BY <1>2 DEF StockInv, StockTyped, S!Rows
<1> HIDE DEF left
<1>4. /\ row'[h] = left /\ seen'[h] = left
      /\ \A g \in S!Parties \ {h} : row'[g] = row[g] /\ seen'[g] = seen[g]
      /\ row' \in [S!Parties -> S!Rows] /\ seen' \in [S!Parties -> S!Rows]
  BY <1>1, <1>2, <1>3 DEF StockInv, StockTyped
<1>5. S!Qty(left) \in Int /\ S!Qty(Had) \in Int /\ S!Qty(Into) \in Int /\ net \in Int
  BY <1>3, StockRowFields DEF StockInv, StockTyped, S!Qty, S!Rows, Had, Into, S!Parties
<1>6. StockTyped' /\ RowsOwned' /\ InsertsBarred'
  <2>1. net' \in Int
    BY <1>1, <1>2, <1>5 DEF Had, Into, S!Parties
  <2>2. credited' \in BOOLEAN /\ victim' \in BOOLEAN
    BY <1>1 DEF StockInv, StockTyped
  <2>3. owner' = [g \in S!Parties |-> IF owner[g] = r THEN Nobody ELSE owner[g]]
    BY <1>1, <1>2 DEF StockInv, StockTyped
  <2>4. QED
    BY <1>1, <1>2, <1>4, <2>1, <2>2, <2>3, RequestLeaves
<1>7. CASE h = S!Source
  <2>1. Had' = left /\ Into' = Into /\ row'[S!Target] = row[S!Target]
    BY <1>4, <1>7 DEF Had, Into, S!Parties, S!Source, S!Target
  <2>2. ~MergeOwns(S!Source) /\ ~MergeOwns(S!Source)' /\ (MergeOwns(S!Target)' <=> MergeOwns(S!Target))
    BY <1>1, <1>2, <1>7, StockAssumption
       DEF MergeOwns, StockInv, StockTyped, S!Parties, S!Source, S!Target
  <2>3. mergeAt \in {"folding", "folded", "moved", "dropped"} => Had # None
    <3>1. mergeAt \in {"folding", "folded", "moved", "dropped"} => at[r] = "written"
      BY <1>1, <1>7 DEF StockInv, InsertsBarred, S!LockedRow, S!Merging, S!Source, S!Target
    <3>2. QED
      BY <1>7, <3>1 DEF StockInv, RowsOwned, Had
  <2>4. mergeAt # "dropped"
    BY <2>2, <2>3 DEF StockInv, MergeWrites, S!Visible, MergeOwns, Had
  <2>5. mergeAt \in {"folding", "folded", "moved"} /\ folded # None => credited'
    BY <1>1, <1>7
  <2>6. \A g \in S!Parties : MergeOwns(g)' <=> MergeOwns(g)
    BY <2>2 DEF S!Parties
  <2>7. SourceFolded' <=> SourceFolded
    BY <1>1, <2>1 DEF SourceFolded
  <2>8. MergeWrites'
    BY <1>1, <2>1, <2>2, <2>3, <2>4, <2>5, <2>6, <2>7 DEF StockInv, MergeWrites
  <2>9. S!StockKept'
    BY <1>1, <1>5, <1>7, <2>1 DEF StockInv, StockTyped, S!StockKept, S!Total, Had, Into
  <2>10. QED
    BY <1>1, <1>6, <2>8, <2>9 DEF StockInv, S!MergeCompletes
<1>8. CASE h = S!Target
  <2>1. Into' = left /\ Had' = Had /\ row'[S!Source] = row[S!Source]
    BY <1>4, <1>8 DEF Had, Into, S!Parties, S!Source, S!Target
  <2>2. ~MergeOwns(S!Target) /\ ~MergeOwns(S!Target)' /\ (MergeOwns(S!Source)' <=> MergeOwns(S!Source))
    BY <1>1, <1>2, <1>8, StockAssumption
       DEF MergeOwns, StockInv, StockTyped, S!Parties, S!Source, S!Target
  <2>3. mergeAt \in {"folding", "folded", "moved"} =>
          Into # None /\ (left # None => left.id = Into.id)
    <3>1. mergeAt \in {"folding", "folded", "moved"} => plan = "merge"
      BY DEF StockInv, StockTyped, MergeWrites
    <3>2. mergeAt \in {"folding", "folded", "moved"} => at[r] = "written"
      BY <1>1, <1>8, <3>1 DEF StockInv, InsertsBarred, S!LockedRow, S!Merging, S!Source, S!Target
    <3>3. QED
      BY <1>3, <1>8, <3>2 DEF StockInv, RowsOwned, Into
  <2>4. credited' = credited
    BY <1>1, <1>8 DEF S!Source, S!Target, StockInv, StockTyped
  <2>5. \A g \in S!Parties : MergeOwns(g)' <=> MergeOwns(g)
    BY <2>2 DEF S!Parties
  <2>6. S!Visible(S!Source)' = S!Visible(S!Source)
    BY <2>1, <2>2 DEF S!Visible, MergeOwns, Had
  <2>7. mergeAt = "dropped" /\ plan = "merge" =>
          credited \/ S!Qty(S!Visible(S!Target)') = S!Total(seen)'
    <3>1. S!Visible(S!Target) = Into /\ S!Visible(S!Target)' = left
      BY <2>1, <2>2 DEF S!Visible, MergeOwns, Into
    <3>2. S!Total(seen) = S!Qty(Had) + S!Qty(Into) /\ S!Total(seen)' = S!Qty(Had) + S!Qty(left)
      BY <2>1 DEF S!Total, Had, Into
    <3>3. ASSUME mergeAt = "dropped", plan = "merge", ~credited
          PROVE  S!Qty(S!Visible(S!Target)') = S!Total(seen)'
      <4>1. S!Qty(S!Visible(S!Target)) = S!Total(seen)
        BY <3>3 DEF StockInv, MergeWrites
      <4>2. S!Qty(Into) = S!Qty(Had) + S!Qty(Into)
        BY <3>1, <3>2, <4>1
      <4>3. S!Qty(left) = S!Qty(Had) + S!Qty(left)
        <5>1. \A x, y, z \in Int : x = y + x => z = y + z
          OBVIOUS
        <5>2. QED
          BY <1>5, <4>2, <5>1, Zenon
      <4>4. QED
        BY <3>1, <3>2, <4>3
    <3>4. QED
      BY <3>3
  <2>8. mergeAt = "moved" => ~MergeOwns(S!Source)
    BY <2>2 DEF StockInv, MergeWrites, SourceMoved
  <2>9. MergeWrites'
    BY <1>1, <2>1, <2>2, <2>3, <2>4, <2>5, <2>6, <2>7, <2>8 DEF StockInv, MergeWrites
  <2>10. S!StockKept'
    BY <1>1, <1>5, <1>8, <2>1, <2>4 DEF StockInv, StockTyped, S!StockKept, S!Total, Had, Into
  <2>11. QED
    BY <1>1, <1>6, <2>9, <2>10 DEF StockInv, S!MergeCompletes
<1>9. QED
  BY <1>2, <1>7, <1>8 DEF S!Parties

\* The merge's reads and locks.
LEMMA LocksKeep ==
  ASSUME StockInv, S!LockTarget \/ S!LockSource \/ S!FoldReads
  PROVE  StockInv'
<1>1. /\ \A h \in S!Parties : owner[h] # S!Merge
      /\ mergeAt \in {"before", "target", "locked"} /\ mergeAt' \in {"target", "locked", "folding"}
      /\ UNCHANGED <<cellar, row, seen, owner, at, op, house, held, plan, net, credited, victim>>
  BY DEF S!LockTarget, S!LockSource, S!FoldReads, S!Step, S!Keep, S!request, S!history, StockInv,
         MergeWrites, MergeOwns
<1>2. /\ seen[S!Source] \in S!Rows /\ seen[S!Target] \in S!Rows
  BY DEF StockInv, StockTyped, S!Parties
<1>3. folded' \in {None} \cup [qty : Nat, into : S!Ids]
  <2>1. CASE S!LockTarget \/ S!LockSource
    BY <2>1 DEF S!LockTarget, S!LockSource, StockInv, StockTyped
  <2>2. CASE S!FoldReads
    BY <1>2, <2>2 DEF S!FoldReads, S!Rows
  <2>3. QED
    BY <2>1, <2>2
<1>4. StockTyped'
  BY <1>1, <1>3 DEF StockInv, StockTyped, Steps
<1>5. RowsOwned'
  BY <1>1 DEF StockInv, RowsOwned
<1>6. InsertsBarred'
  <2>1. CASE S!LockTarget
    BY <1>1, <2>1
       DEF S!LockTarget, S!Step, S!Sharing, InsertsBarred, S!LockedRow, S!Merging, StockInv,
           StockTyped, S!Parties
  <2>2. CASE S!LockSource
    BY <1>1, <2>2
       DEF S!LockSource, S!SourceFree, S!Step, S!Sharing, InsertsBarred, S!LockedRow, S!Merging,
           StockInv, StockTyped, S!Parties
  <2>3. CASE S!FoldReads
    BY <1>1, <2>3 DEF S!FoldReads, S!Step, InsertsBarred, S!LockedRow, S!Merging, StockInv
  <2>4. QED
    BY <2>1, <2>2, <2>3
<1>7. MergeWrites'
  <2>1. \A h \in S!Parties : ~MergeOwns(h)'
    BY <1>1 DEF MergeOwns
  <2>2. plan = "dissolve" => folded' = None /\ mergeAt' = "locked"
    BY <1>1 DEF S!LockTarget, S!LockSource, S!FoldReads, S!Step, StockInv, MergeWrites
  <2>3. mergeAt' = "folding" =>
          /\ folded' # None => Had # None /\ Had.qty = folded'.qty
          /\ IF folded' = None THEN Had = None \/ Into = None
                               ELSE Into = None \/ Into.id = folded'.into
    BY <1>2, StockAssumption DEF S!LockTarget, S!LockSource, S!FoldReads, S!Step, S!Rows, Had, Into
  <2>4. Had' = Had /\ Into' = Into
    BY <1>1 DEF Had, Into
  <2>5. QED
    BY <1>1, <2>1, <2>2, <2>3, <2>4 DEF MergeWrites, S!Parties
<1>8. S!StockKept' /\ S!MergeCompletes'
  BY <1>1 DEF StockInv, S!StockKept, S!Total, S!MergeCompletes
<1>9. QED
  BY <1>4, <1>5, <1>6, <1>7, <1>8 DEF StockInv

\* The merge takes rows that nobody has, between two of its statements.
LEMMA MergeTakes ==
  ASSUME StockInv, mergeAt \in {"folding", "folded", "moved", "locked"},
         mergeAt' \in {"folded", "moved", "dropped"},
         mergeAt = "locked" => plan = "dissolve",
         row' \in [S!Parties -> S!Rows], owner' \in [S!Parties -> Slots \cup {S!Merge, Nobody}],
         \A h \in S!Parties :
           \/ owner'[h] = owner[h] /\ row'[h] = row[h]
           \/ owner[h] \in {Nobody, S!Merge} /\ owner'[h] = S!Merge,
         UNCHANGED <<cellar, seen, at, op, house, held, plan, folded, net, credited, victim>>
  PROVE  /\ StockTyped' /\ RowsOwned' /\ InsertsBarred' /\ S!StockKept' /\ S!MergeCompletes'
         /\ Had' = Had /\ Into' = Into /\ S!Total(seen)' = S!Total(seen)
<1>1. StockTyped'
  BY DEF StockInv, StockTyped, Steps
<1>2. RowsOwned'
  <2>1. \A h \in S!Parties : owner'[h] = Nobody => row'[h] = seen[h]
    BY StockAssumption DEF StockInv, RowsOwned
  <2>2. \A h \in S!Parties, r \in Slots : owner'[h] = r <=> owner[h] = r
    BY StockAssumption
  <2>3. \A h \in S!Parties, r \in Slots : owner[h] = r => row'[h] = row[h]
    BY StockAssumption
  <2>4. \A r \in Slots : at[r] \in Writing => house[r] \in S!Parties /\ owner[house[r]] = r
    BY DEF StockInv, StockTyped, RowsOwned
  <2>5. \A r \in Slots : at[r] = "written" =>
          /\ seen[house[r]] # None
          /\ row'[house[r]] # None => row'[house[r]].id = seen[house[r]].id
    BY <2>3, <2>4 DEF StockInv, RowsOwned, Writing
  <2>6. QED
    BY <2>1, <2>2, <2>4, <2>5 DEF StockInv, RowsOwned
<1>3. InsertsBarred'
  BY DEF StockInv, InsertsBarred, S!LockedRow, S!Merging
<1>4. QED
  BY <1>1, <1>2, <1>3 DEF StockInv, S!StockKept, S!MergeCompletes, S!Total, Had, Into

LEMMA FoldWritesKeeps ==
  ASSUME StockInv, S!FoldWrites
  PROVE  StockInv'
<1>1. /\ mergeAt = "folding" /\ mergeAt' = "folded"
      /\ UNCHANGED <<cellar, seen, at, op, house, held, plan, folded, net, credited, victim>>
      /\ \A h \in S!Parties : ~MergeOwns(h)
      /\ plan # "dissolve"
  BY DEF S!FoldWrites, S!Step, S!Keep, S!request, S!history, StockInv, MergeWrites
<1>2. S!Source \in S!Parties /\ S!Target \in S!Parties /\ S!Source # S!Target
      /\ \A h \in S!Parties : h = S!Source \/ h = S!Target
  BY DEF S!Parties, S!Source, S!Target
<1>3. CASE S!Foldable
  <2>1. /\ owner[S!Target] = Nobody /\ owner' = [owner EXCEPT ![S!Target] = S!Merge]
        /\ row' = [row EXCEPT ![S!Target].qty = @ + folded.qty]
        /\ folded # None /\ Into # None
    BY <1>3 DEF S!FoldWrites, S!Foldable, Into
  <2>2. row[S!Target] = Into /\ folded.qty \in Nat /\ row[S!Target] \in [id : S!Ids, qty : Nat]
    BY <1>2, <2>1 DEF StockInv, StockTyped, RowsOwned, Into, S!Rows
  <2> DEFINE sum == [row[S!Target] EXCEPT !.qty = @ + folded.qty]
  <2>3. sum \in [id : S!Ids, qty : Nat] /\ sum.qty = Into.qty + folded.qty
    BY <2>2
  <2>4. row' = [row EXCEPT ![S!Target] = sum]
    BY <2>1
  <2> HIDE DEF sum
  <2>5. row' \in [S!Parties -> S!Rows] /\ row'[S!Target] = sum /\ row'[S!Source] = row[S!Source]
    BY <1>2, <2>3, <2>4 DEF StockInv, StockTyped, S!Rows
  <2>6. /\ owner'[S!Target] = S!Merge /\ owner'[S!Source] = owner[S!Source]
        /\ owner' \in [S!Parties -> Slots \cup {S!Merge, Nobody}]
    BY <1>2, <2>1 DEF StockInv, StockTyped
  <2>7. /\ StockTyped' /\ RowsOwned' /\ InsertsBarred' /\ S!StockKept' /\ S!MergeCompletes'
        /\ Had' = Had /\ Into' = Into
    BY <1>1, <1>2, <2>1, <2>5, <2>6, MergeTakes
  <2>8. SourceFolded'
    BY <1>1, <2>1, <2>3, <2>5, <2>7, StockAssumption DEF SourceFolded
  <2>9. ~MergeOwns(S!Source)' /\ MergeOwns(S!Target)'
    BY <1>1, <1>2, <2>6 DEF MergeOwns
  <2>10. MergeWrites'
    BY <1>1, <2>7, <2>8, <2>9 DEF StockInv, MergeWrites
  <2>11. QED
    BY <2>7, <2>10 DEF StockInv
<1>4. CASE ~S!Foldable
  <2>1. UNCHANGED <<row, owner>>
    BY <1>4 DEF S!FoldWrites
  <2>2. /\ StockTyped' /\ RowsOwned' /\ InsertsBarred' /\ S!StockKept' /\ S!MergeCompletes'
        /\ Had' = Had /\ Into' = Into
    BY <1>1, <2>1, MergeTakes DEF StockInv, StockTyped
  <2>3. Had = None \/ Into = None
    BY <1>1, <1>4 DEF S!Foldable, StockInv, MergeWrites, Into
  <2>4. \A h \in S!Parties : ~MergeOwns(h)'
    BY <1>1, <2>1 DEF MergeOwns
  <2>5. MergeWrites'
    BY <1>1, <1>2, <2>2, <2>3, <2>4 DEF StockInv, MergeWrites
  <2>6. QED
    BY <2>2, <2>5 DEF StockInv
<1>5. QED
  BY <1>3, <1>4

LEMMA MoveRowKeeps ==
  ASSUME StockInv, S!MoveRow
  PROVE  StockInv'
<1>1. /\ mergeAt = "folded" /\ mergeAt' = "moved"
      /\ UNCHANGED <<cellar, seen, at, op, house, held, plan, folded, net, credited, victim>>
      /\ plan # "dissolve" /\ ~MergeOwns(S!Source)
  BY DEF S!MoveRow, S!Step, S!Keep, S!request, S!history, StockInv, MergeWrites
<1>2. S!Source \in S!Parties /\ S!Target \in S!Parties /\ S!Source # S!Target
      /\ \A h \in S!Parties : h = S!Source \/ h = S!Target
  BY DEF S!Parties, S!Source, S!Target
<1>3. CASE S!Movable
  <2>1. /\ \A h \in S!Parties : owner[h] = Nobody
        /\ row' = [h \in S!Parties |-> IF h = S!Target THEN row[S!Source] ELSE None]
        /\ owner' = [h \in S!Parties |-> S!Merge]
    BY <1>3 DEF S!MoveRow
  <2>2. Had # None /\ Into = None /\ row[S!Source] = Had
    BY <1>2, <1>3, <2>1, StockAssumption
       DEF S!Movable, S!Visible, Had, Into, StockInv, RowsOwned
  <2>3. row' \in [S!Parties -> S!Rows] /\ row'[S!Target] = Had /\ row'[S!Source] = None
    BY <1>2, <2>1, <2>2 DEF StockInv, StockTyped, S!Rows
  <2>4. /\ StockTyped' /\ RowsOwned' /\ InsertsBarred' /\ S!StockKept' /\ S!MergeCompletes'
        /\ Had' = Had /\ Into' = Into
    BY <1>1, <2>1, <2>3, MergeTakes
  <2>5. MergeOwns(S!Source)' /\ MergeOwns(S!Target)'
    BY <1>1, <1>2, <2>1 DEF MergeOwns
  <2>6. SourceMoved'
    BY <1>1, <2>2, <2>3, <2>4, <2>5, StockAssumption DEF SourceMoved
  <2>7. MergeWrites'
    BY <1>1, <2>4, <2>5, <2>6 DEF StockInv, MergeWrites
  <2>8. QED
    BY <2>4, <2>7 DEF StockInv
<1>4. CASE ~S!Movable
  <2>1. UNCHANGED <<row, owner>>
    BY <1>4 DEF S!MoveRow
  <2>2. /\ StockTyped' /\ RowsOwned' /\ InsertsBarred' /\ S!StockKept' /\ S!MergeCompletes'
        /\ Had' = Had /\ Into' = Into
    BY <1>1, <2>1, MergeTakes DEF StockInv, StockTyped
  <2>3. /\ MergeOwns(S!Source)' <=> MergeOwns(S!Source)
        /\ MergeOwns(S!Target)' <=> MergeOwns(S!Target)
    BY <1>1, <2>1 DEF MergeOwns
  <2>4. CASE MergeOwns(S!Target)
    <3>1. SourceFolded'
      BY <1>1, <2>1, <2>2, <2>4 DEF StockInv, MergeWrites, SourceFolded
    <3>2. QED
      BY <1>1, <2>2, <2>3, <2>4, <3>1 DEF StockInv, MergeWrites
  <2>5. CASE ~MergeOwns(S!Target)
    <3>1. Had = None
      BY <1>1, <1>4, <2>5 DEF S!Movable, S!Visible, MergeOwns, StockInv, MergeWrites, Had, Into
    <3>2. QED
      BY <1>1, <2>2, <2>3, <2>5, <3>1 DEF StockInv, MergeWrites
  <2>6. QED
    BY <2>4, <2>5
<1>5. QED
  BY <1>3, <1>4

LEMMA DropRowKeeps ==
  ASSUME StockInv, S!DropRow
  PROVE  StockInv'
<1>1. /\ mergeAt = (IF plan = "merge" THEN "moved" ELSE "locked") /\ mergeAt' = "dropped"
      /\ UNCHANGED <<cellar, seen, at, op, house, held, plan, folded, net, credited, victim>>
  BY DEF S!DropRow, S!Step, S!Keep, S!request, S!history
<1>2. S!Source \in S!Parties /\ S!Target \in S!Parties /\ S!Source # S!Target
      /\ \A h \in S!Parties : h = S!Source \/ h = S!Target
  BY DEF S!Parties, S!Source, S!Target
<1>3. /\ S!Visible(S!Source) = IF MergeOwns(S!Source) THEN row[S!Source] ELSE Had
      /\ S!Visible(S!Target) = IF MergeOwns(S!Target) THEN row[S!Target] ELSE Into
      /\ S!Total(seen) = S!Qty(Had) + S!Qty(Into)
  BY DEF S!Visible, S!Total, MergeOwns, Had, Into
<1>4. /\ Had # None => Had.qty \in Nat
      /\ Into # None => Into.qty \in Nat
  BY <1>2, StockRowFields DEF StockInv, Had, Into
<1>5. plan = "dissolve" => folded = None /\ ~MergeOwns(S!Source) /\ ~MergeOwns(S!Target)
  BY <1>1, <1>2 DEF StockInv, MergeWrites
<1>6. plan = "merge" \/ plan = "dissolve"
  BY DEF StockInv, StockTyped
<1>7. plan = "merge" =>
        /\ folded # None /\ ~credited => Had # None /\ Had.qty = folded.qty
        /\ IF MergeOwns(S!Source) THEN SourceMoved
           ELSE IF MergeOwns(S!Target) THEN SourceFolded ELSE Had = None
  BY <1>1 DEF StockInv, MergeWrites
<1>8. plan = "merge" => credited \/ S!Qty(S!Visible(S!Target)) = S!Total(seen)
  <2>1. CASE plan = "merge" /\ MergeOwns(S!Source)
    BY <1>3, <1>4, <1>7, <2>1 DEF SourceMoved, S!Qty
  <2>2. CASE plan = "merge" /\ ~MergeOwns(S!Source) /\ MergeOwns(S!Target)
    BY <1>3, <1>4, <1>7, <2>2 DEF SourceFolded, S!Qty
  <2>3. CASE plan = "merge" /\ ~MergeOwns(S!Source) /\ ~MergeOwns(S!Target)
    BY <1>3, <1>4, <1>7, <2>3 DEF S!Qty
  <2>4. QED
    BY <2>1, <2>2, <2>3
<1>9. CASE S!Droppable
  <2>1. /\ owner[S!Source] \in {Nobody, S!Merge}
        /\ row' = [row EXCEPT ![S!Source] = None] /\ owner' = [owner EXCEPT ![S!Source] = S!Merge]
    BY <1>9 DEF S!DropRow
  <2>2. /\ row' \in [S!Parties -> S!Rows] /\ row'[S!Source] = None
        /\ row'[S!Target] = row[S!Target]
        /\ owner' \in [S!Parties -> Slots \cup {S!Merge, Nobody}]
        /\ owner'[S!Source] = S!Merge /\ owner'[S!Target] = owner[S!Target]
    BY <1>2, <2>1 DEF StockInv, StockTyped, S!Rows
  <2>3. /\ StockTyped' /\ RowsOwned' /\ InsertsBarred' /\ S!StockKept' /\ S!MergeCompletes'
        /\ Had' = Had /\ Into' = Into /\ S!Total(seen)' = S!Total(seen)
    BY <1>1, <1>2, <1>6, <2>1, <2>2, MergeTakes
  <2>4. S!Visible(S!Source)' = None /\ S!Visible(S!Target)' = S!Visible(S!Target)
    BY <1>1, <2>2 DEF S!Visible
  <2>5. MergeOwns(S!Target)' <=> MergeOwns(S!Target)
    BY <2>2 DEF MergeOwns
  <2>6. MergeWrites'
    BY <1>1, <1>5, <1>8, <2>3, <2>4, <2>5 DEF MergeWrites
  <2>7. QED
    BY <2>3, <2>6 DEF StockInv
<1>10. CASE ~S!Droppable
  <2>1. UNCHANGED <<row, owner>>
    BY <1>10 DEF S!DropRow
  <2>2. /\ StockTyped' /\ RowsOwned' /\ InsertsBarred' /\ S!StockKept' /\ S!MergeCompletes'
        /\ S!Total(seen)' = S!Total(seen)
    BY <1>1, <1>6, <2>1, MergeTakes DEF StockInv, StockTyped
  <2>3. S!Visible(S!Source)' = S!Visible(S!Source) /\ S!Visible(S!Target)' = S!Visible(S!Target)
    BY <1>1, <2>1 DEF S!Visible
  <2>4. S!Visible(S!Source) = None
    <3>1. CASE plan = "merge" /\ MergeOwns(S!Source)
      BY <1>3, <1>7, <3>1 DEF SourceMoved
    <3>2. CASE plan = "merge" /\ ~MergeOwns(S!Source) /\ MergeOwns(S!Target)
      BY <1>3, <1>7, <1>10, <3>2 DEF SourceFolded, S!Droppable
    <3>3. CASE plan = "merge" /\ ~MergeOwns(S!Source) /\ ~MergeOwns(S!Target)
      BY <1>3, <1>7, <3>3
    <3>4. CASE plan = "dissolve"
      BY <1>10, <3>4 DEF S!Droppable
    <3>5. QED
      BY <1>6, <3>1, <3>2, <3>3, <3>4
  <2>5. MergeOwns(S!Target)' <=> MergeOwns(S!Target)
    BY <2>1 DEF MergeOwns
  <2>6. MergeWrites'
    BY <1>1, <1>5, <1>8, <2>2, <2>3, <2>4, <2>5 DEF MergeWrites
  <2>7. QED
    BY <2>2, <2>6 DEF StockInv
<1>11. QED
  BY <1>9, <1>10

\* The commit of a merge or a dissolution, and the merge that the database fails:
\* nothing is the merge's any more, and what is committed of a row that nobody
\* has is the row.
LEMMA MergeLeaves ==
  ASSUME StockInv, mergeAt' \in {"done", "failed"}, folded' = None,
         row' \in [S!Parties -> S!Rows], seen' \in [S!Parties -> S!Rows],
         \A h \in S!Parties :
           IF owner[h] = S!Merge THEN owner'[h] = Nobody /\ row'[h] = seen'[h]
           ELSE owner'[h] = owner[h] /\ row'[h] = row[h] /\ seen'[h] = seen[h],
         owner' \in [S!Parties -> Slots \cup {S!Merge, Nobody}],
         net' \in Int, victim' \in BOOLEAN,
         UNCHANGED <<cellar, at, op, house, held, plan, credited>>
  PROVE  StockTyped' /\ RowsOwned' /\ InsertsBarred' /\ MergeWrites'
<1>1. StockTyped'
  BY DEF StockInv, StockTyped, Steps
<1>2. RowsOwned'
  <2>1. \A h \in S!Parties : owner'[h] = Nobody => row'[h] = seen'[h]
    BY DEF StockInv, RowsOwned
  <2>2. \A h \in S!Parties, r \in Slots : owner'[h] = r <=> owner[h] = r
    BY StockAssumption
  <2>3. \A h \in S!Parties, r \in Slots : owner[h] = r => row'[h] = row[h] /\ seen'[h] = seen[h]
    BY StockAssumption
  <2>4. \A r \in Slots : at[r] \in Writing => house[r] \in S!Parties /\ owner[house[r]] = r
    BY DEF StockInv, StockTyped, RowsOwned
  <2>5. \A r \in Slots : at[r] = "written" =>
          /\ seen'[house[r]] # None
          /\ row'[house[r]] # None => row'[house[r]].id = seen'[house[r]].id
    BY <2>3, <2>4 DEF StockInv, RowsOwned, Writing
  <2>6. QED
    BY <2>1, <2>2, <2>4, <2>5 DEF StockInv, RowsOwned
<1>3. InsertsBarred'
  BY DEF InsertsBarred, S!LockedRow, S!Merging
<1>4. MergeWrites'
  <2>1. \A h \in S!Parties : ~MergeOwns(h)'
    BY StockAssumption DEF MergeOwns
  <2>2. S!Target \in S!Parties
    BY DEF S!Parties
  <2>3. QED
    BY <2>1, <2>2 DEF MergeWrites
<1>5. QED
  BY <1>1, <1>2, <1>3, <1>4

LEMMA DeleteHouseholdKeeps ==
  ASSUME StockInv, S!DeleteHousehold
  PROVE  StockInv'
<1>1. /\ mergeAt = "dropped" /\ mergeAt' = "done" /\ folded' = None
      /\ seen' = [h \in S!Parties |-> S!Visible(h)]
      /\ owner' = [h \in S!Parties |-> IF owner[h] = S!Merge THEN Nobody ELSE owner[h]]
      /\ net' = IF plan = "dissolve" THEN net - S!Qty(Had) ELSE net
      /\ S!Visible(S!Source) = None
      /\ UNCHANGED <<cellar, row, at, op, house, held, plan, credited, victim>>
  BY DEF S!DeleteHousehold, S!Remains, S!Step, S!request, Had
<1>2. S!Source \in S!Parties /\ S!Target \in S!Parties
  BY DEF S!Parties
<1>3. S!Qty(Had) \in Int /\ S!Qty(Into) \in Int /\ net \in Int
  BY <1>2, StockRowFields DEF StockInv, StockTyped, Had, Into
<1>4. net' \in Int
  BY <1>1, <1>3
<1>5. seen' \in [S!Parties -> S!Rows]
  BY <1>1 DEF S!Visible, StockInv, StockTyped
<1>6. StockTyped' /\ RowsOwned' /\ InsertsBarred' /\ MergeWrites'
  <2>1. owner' \in [S!Parties -> Slots \cup {S!Merge, Nobody}]
    BY <1>1 DEF StockInv, StockTyped
  <2>2. \A h \in S!Parties :
          IF owner[h] = S!Merge THEN owner'[h] = Nobody /\ row'[h] = seen'[h]
          ELSE owner'[h] = owner[h] /\ row'[h] = row[h] /\ seen'[h] = seen[h]
    BY <1>1 DEF S!Visible
  <2>3. row' \in [S!Parties -> S!Rows] /\ victim' \in BOOLEAN
    BY <1>1 DEF StockInv, StockTyped
  <2>4. QED
    BY <1>1, <1>4, <1>5, <2>1, <2>2, <2>3, MergeLeaves
<1>7. S!StockKept'
  <2>1. S!Qty(None) = 0
    BY DEF S!Qty
  <2>2. S!Total(seen)' = S!Qty(S!Visible(S!Target)) + 0
    <3>1. seen'[S!Source] = None /\ seen'[S!Target] = S!Visible(S!Target)
      BY <1>1, <1>2
    <3>2. QED
      BY <2>1, <3>1, StockRowFields, <1>2 DEF S!Total, S!Visible, StockInv
  <2>3. S!Total(seen) = S!Qty(Had) + S!Qty(Into)
    BY DEF S!Total, Had, Into
  <2>4. CASE plan = "merge" /\ ~credited
    <3>1. S!Qty(S!Visible(S!Target)) = S!Total(seen) /\ S!Total(seen) = net /\ net' = net
      BY <1>1, <2>4 DEF StockInv, MergeWrites, S!StockKept
    <3>2. S!Total(seen)' = net'
      BY <1>3, <2>2, <3>1
    <3>3. QED
      BY <3>2 DEF S!StockKept
  <2>5. CASE plan = "dissolve" /\ ~credited
    <3>1. S!Visible(S!Target) = Into
      BY <2>5 DEF StockInv, MergeWrites, S!Visible, MergeOwns, Into
    <3>2. S!Total(seen) = net /\ net' = net - S!Qty(Had)
      BY <1>1, <2>5 DEF StockInv, S!StockKept
    <3>3. S!Total(seen)' = net'
      BY <1>3, <2>2, <2>3, <3>1, <3>2
    <3>4. QED
      BY <3>3 DEF S!StockKept
  <2>6. CASE credited
    BY <1>1, <2>6 DEF S!StockKept
  <2>7. QED
    BY <2>4, <2>5, <2>6 DEF StockInv, StockTyped
<1>8. QED
  BY <1>1, <1>6, <1>7 DEF StockInv, S!MergeCompletes

\* The deletion is never refused; a merge fails as the victim of a deadlock.
LEMMA FailedMergeKeeps ==
  ASSUME StockInv, S!RefusedDelete \/ \E r \in Slots : S!FailMerge(r)
  PROVE  StockInv'
<1>1. CASE S!RefusedDelete
  BY <1>1 DEF S!RefusedDelete, S!Remains, S!Step, StockInv, MergeWrites
<1>2. CASE \E r \in Slots : S!FailMerge(r)
  <2>1. /\ mergeAt' = "failed" /\ folded' = None /\ victim'
        /\ row' = [h \in S!Parties |-> IF owner[h] = S!Merge THEN seen[h] ELSE row[h]]
        /\ owner' = [h \in S!Parties |-> IF owner[h] = S!Merge THEN Nobody ELSE owner[h]]
        /\ UNCHANGED <<cellar, seen, at, op, house, held, plan, net, credited>>
        /\ victim' \in BOOLEAN
    BY <1>2 DEF S!FailMerge, S!Step, S!Undo, S!request
  <2>2. /\ row' \in [S!Parties -> S!Rows] /\ seen' \in [S!Parties -> S!Rows]
        /\ owner' \in [S!Parties -> Slots \cup {S!Merge, Nobody}] /\ net' \in Int
    BY <2>1 DEF StockInv, StockTyped
  <2>3. StockTyped' /\ RowsOwned' /\ InsertsBarred' /\ MergeWrites'
    BY <2>1, <2>2, MergeLeaves
  <2>4. S!StockKept' /\ S!MergeCompletes'
    BY <2>1 DEF StockInv, S!StockKept, S!MergeCompletes, S!Total
  <2>5. QED
    BY <2>3, <2>4 DEF StockInv
<1>3. QED
  BY <1>1, <1>2

LEMMA StockSteps == StockInv /\ S!Next => StockInv'
<1> SUFFICES ASSUME StockInv, S!Next PROVE StockInv'
  OBVIOUS
<1>1. CASE \E r \in Slots :
             (\E o \in S!Ops, h \in S!Parties : S!Begin(r, o, h)) \/ S!NothingToWrite(r)
  BY <1>1, BeginAndLeave
<1>2. CASE \E r \in Slots :
             \/ S!Set(r) \/ S!UpdateUserBottle(r) \/ S!IncrementUserItem(r)
             \/ S!Favorite(r) \/ S!DeleteUserItem(r)
  BY <1>2, WritingKeeps
<1>3. CASE \E r \in Slots : S!CheckHousehold(r) \/ S!FailInsert(r)
  BY <1>3, CheckKeeps
<1>4. CASE \E r \in Slots : S!Commit(r)
  BY <1>4, CommitKeeps
<1>5. CASE S!LockTarget \/ S!LockSource \/ S!FoldReads
  BY <1>5, LocksKeep
<1>6. CASE S!FoldWrites \/ S!MoveRow \/ S!DropRow
  BY <1>6, FoldWritesKeeps, MoveRowKeeps, DropRowKeeps
<1>7. CASE S!DeleteHousehold
  BY <1>7, DeleteHouseholdKeeps
<1>8. CASE S!RefusedDelete \/ \E r \in Slots : S!FailMerge(r)
  BY <1>8, FailedMergeKeeps
<1>9. QED
  BY <1>1, <1>2, <1>3, <1>4, <1>5, <1>6, <1>7, <1>8, Zenon DEF S!Next

LEMMA StockUntouched == StockInv /\ UNCHANGED stock => StockInv'
<1> SUFFICES ASSUME StockInv, UNCHANGED stock PROVE StockInv'
  OBVIOUS
<1>1. UNCHANGED <<cellar, row, seen, owner, at, op, house, held, plan, mergeAt, folded, net,
                  credited, victim>>
  BY DEF stock
<1>2. StockTyped' /\ RowsOwned' /\ InsertsBarred'
  BY <1>1 DEF StockInv, StockTyped, RowsOwned, InsertsBarred, S!LockedRow, S!Merging
<1>3. MergeWrites' /\ S!StockKept' /\ S!MergeCompletes'
  BY <1>1, MergeUndisturbed DEF MergeOwns
<1>4. QED
  BY <1>2, <1>3 DEF StockInv

\* The stock of two households is what the operations that committed leave,
\* whether one of them is merged into the other (MergeHouseholdItemConflicts and
\* the statements after it) or dissolved, unless the source's row was changed
\* after the merge had read it; and no row is left behind that keeps the
\* household from being deleted: only a deadlock fails the merge.
THEOREM StockIsKept == AllSpec => []StockConsistent
<1>1. AllInit => StockInv
  BY StockInit DEF AllInit
<1>2. StockInv /\ [AllNext]_<<part, vars, stock>> => StockInv'
  BY StockSteps, StockUntouched DEF AllNext
<1>3. StockInv => StockConsistent
  BY DEF StockInv, StockTyped, RowsOwned, StockConsistent, S!StockConsistent, S!TypeOK, Writing
<1>4. QED
  BY <1>1, <1>2, <1>3, PTL DEF AllSpec
-----------------------------------------------------------------------------
(* Membership: the tables                                                  *)

Rowset == [hh : Households, user : Users, role : Roles]
KeyedRows(ms) ==
  \A i, j \in DOMAIN ms : ms[i].hh = ms[j].hh /\ ms[i].user = ms[j].user => i = j
OwnerRows(ms, h) == {m \in Rows(ms) : m.hh = h /\ m.role = "owner"}

TablesTyped ==
  /\ households \subseteq Households
  /\ memberships \in Seq(Rowset) /\ KeyedRows(memberships)
  /\ \A m \in Rows(memberships) : m.hh \in households /\ Exists(m.user)
  /\ active \in [Users -> [hh : households, role : Roles] \cup {NoAccount}]
  /\ invites \subseteq [from : Users, to : Users, hh : households]
  /\ \A i \in invites : Exists(i.to)

\* The ownership a user can rely on.
Owned(h) == OwnerRows(memberships, h) # {}
OnceOwned(h) == \A m, n \in OwnerRows(memberships, h) : m = n
Secure ==
  /\ "account" \notin raced => \A h \in households : Owned(h)
  /\ raced \cap {"role", "account"} = {} => \A h \in households : OnceOwned(h)
  /\ ActiveIsMember

(* Membership: the requests                                                *)

Locking == {"set_role", "transfer", "remove", "leave"}
RequestRecords ==
  [phase : {"begun", "locked"}, op : {"invite", "switch", "delete", "merge"} \cup Locking,
   by : Users, hh : Households \cup {None}, target : Users, role : Roles \cup {None},
   pointer : Households \cup {None},
   fallback : {None} \cup [hh : Households, role : Roles], listed : Seq(Rowset),
   accepted : {None} \cup [from : Users, to : Users, hh : Households],
   held : SUBSET Households, gone : SUBSET Households, heirs : SUBSET Rowset]

\* What the operation says of the fields.
Shaped(q) ==
  /\ q.op = "switch" => q.role \in Roles
  /\ q.op = "set_role" => q.role \in {"admin", "member"}
  /\ q.op \in {"set_role", "transfer", "remove"} => q.by # q.target
  /\ q.op \in {"leave", "delete", "merge"} => q.by = q.target
  /\ q.op \notin {"leave", "delete"} => q.gone = {} /\ q.heirs = {}
  /\ q.op = "merge" => /\ q.accepted \in [from : Users, to : Users, hh : Households]
                       /\ q.held = {q.accepted.hh} /\ q.accepted.to = q.target
                       /\ q.hh # q.accepted.hh
  /\ q.op \notin {"delete", "merge"} => q.held = IF q.phase = "locked" THEN {q.hh} ELSE {}
  /\ q.phase = "locked" => q.op \in Locking
  /\ IsFiniteSet(q.held) /\ q.held \subseteq households /\ q.gone \subseteq q.held

\* An account that goes has locked the households of the first memberships listed.
ListLocked(q) ==
  q.op = "delete" =>
    /\ KeyedRows(q.listed) /\ \A m \in Rows(q.listed) : m.user = q.target
    /\ Cardinality(q.held) <= Len(q.listed)
    /\ q.held = {q.listed[i].hh : i \in 1..Cardinality(q.held)}

\* The target whose row was found keeps it, and its role, until its account goes.
TargetStays(q) ==
  q.phase = "locked" /\ Exists(q.target) =>
    \E m \in Rows(memberships) : m.hh = q.hh /\ m.user = q.target /\ Permitted(q, m.role)

\* A household to dissolve has one member.
GoneAlone(q) == \A m, n \in Rows(memberships) : m.hh = n.hh /\ m.hh \in q.gone => m = n

\* What a departing owner leaves: an heir, or another owner.
ListedOwner(q, h) == q.op = "delete" => Row(h, q.target, "owner") \in Rows(q.listed)
HeirsFit(q) ==
  /\ \A m \in q.heirs :
       /\ m.role = "owner" /\ m.hh \in q.held \ q.gone /\ m.user # q.target
       /\ IsMember(memberships, m.hh, m.user) /\ ListedOwner(q, m.hh)
       /\ q.op = "leave" /\ Exists(q.target) => Row(m.hh, q.target, "owner") \in Rows(memberships)
  /\ \A m, n \in q.heirs : m.hh = n.hh => m = n
Succeeded(q) ==
  "account" \notin raced /\ q.op \in {"leave", "delete"} =>
    \A h \in q.held \ q.gone :
      Row(h, q.target, "owner") \in Rows(memberships) /\ ListedOwner(q, h) =>
        \/ \E m \in q.heirs : m.hh = h
        \/ \E m \in OwnerRows(memberships, h) : m.user # q.target

RequestFits(q) ==
  q # NoRequest =>
    /\ Shaped(q) /\ ListLocked(q) /\ TargetStays(q)
    /\ GoneAlone(q) /\ HeirsFit(q) /\ Succeeded(q)
RequestsFit ==
  /\ request \in [Slots -> RequestRecords \cup {NoRequest}]
  /\ \A r \in Slots : RequestFits(request[r])
  /\ \A r, s \in Slots : r # s => request[r].held \cap request[s].held = {}

MemberInv == TablesTyped /\ Secure /\ RequestsFit
-----------------------------------------------------------------------------
(* Rows by their place                                                     *)

\* A place's rank among others is reached by it alone, and every rank by one.
LEMMA Ranked ==
  ASSUME NEW places, IsFiniteSet(places), places \subseteq Nat
  PROVE  /\ Cardinality(places) \in Nat
         /\ \A n \in 1..Cardinality(places) : Nth(places, n) \in places
         /\ \A n, k \in 1..Cardinality(places) : Nth(places, n) = Nth(places, k) => n = k
         /\ \A i \in places : \E n \in 1..Cardinality(places) : Nth(places, n) = i
<1> DEFINE Upto(i) == {j \in places : j <= i}
           rank == [i \in places |-> Cardinality(Upto(i))]
           ranks == 1..Cardinality(places)
<1>1. Cardinality(places) \in Nat
  BY FS_CardinalityType
<1>2. \A i \in places : rank[i] \in ranks
  <2> SUFFICES ASSUME NEW i \in places PROVE Cardinality(Upto(i)) \in ranks
    OBVIOUS
  <2>1. IsFiniteSet(Upto(i)) /\ Cardinality(Upto(i)) <= Cardinality(places)
    BY FS_Subset, Upto(i) \in SUBSET places
  <2>2. Cardinality(Upto(i)) \in Nat
    BY <2>1, FS_CardinalityType
  <2>3. i \in Upto(i)
    OBVIOUS
  <2>4. Cardinality(Upto(i)) # 0
    BY <2>1, <2>3, FS_EmptySet
  <2>5. QED
    BY <1>1, <2>1, <2>2, <2>4
<1>3. ASSUME NEW i \in places, NEW k \in places, rank[i] = rank[k] PROVE i = k
  <2>1. Upto(i) \subseteq Upto(k) \/ Upto(k) \subseteq Upto(i)
    <3>1. i \in Nat /\ k \in Nat /\ \A j \in places : j \in Nat
      OBVIOUS
    <3>2. ASSUME i <= k, NEW j \in Upto(i) PROVE j \in Upto(k)
      BY <3>1, <3>2
    <3>3. ASSUME k <= i, NEW j \in Upto(k) PROVE j \in Upto(i)
      BY <3>1, <3>3
    <3>4. i <= k \/ k <= i
      BY <3>1
    <3> HIDE DEF Upto
    <3>5. QED
      BY <3>2, <3>3, <3>4, Zenon
  <2>2. IsFiniteSet(Upto(i)) /\ IsFiniteSet(Upto(k))
    BY FS_Subset, Upto(i) \in SUBSET places, Upto(k) \in SUBSET places
  <2>3. Cardinality(Upto(i)) = Cardinality(Upto(k))
    BY <1>3
  <2>4. Upto(i) = Upto(k)
    BY <2>1, <2>2, <2>3, FS_Subset
  <2>5. i \in Upto(k) /\ k \in Upto(i)
    BY <2>4
  <2>6. QED
    BY <2>5
<1>4. rank \in Injection(places, ranks)
  BY <1>2, <1>3 DEF Injection, IsInjective
<1>5. IsFiniteSet(ranks) /\ Cardinality(ranks) = Cardinality(places)
  BY <1>1, FS_Interval
<1>6. rank \in Surjection(places, ranks)
  BY <1>4, <1>5, FS_Injection
<1>7. \A n \in ranks : \E i \in places : rank[i] = n
  BY <1>6 DEF Surjection
<1>8. \A n \in ranks : Nth(places, n) \in places /\ rank[Nth(places, n)] = n
  <2> SUFFICES ASSUME NEW n \in ranks
               PROVE  Nth(places, n) \in places /\ Cardinality(Upto(Nth(places, n))) = n
    OBVIOUS
  <2>1. \E i \in places : Cardinality(Upto(i)) = n
    BY <1>7
  <2>2. QED
    BY <2>1 DEF Nth
<1>9. QED
  BY <1>1, <1>2, <1>3, <1>8

LEMMA FiniteDomain ==
  ASSUME NEW X, NEW ms \in Seq(X)
  PROVE  DOMAIN ms \subseteq Nat /\ IsFiniteSet(DOMAIN ms) /\ DOMAIN ms = 1..Len(ms) /\ Len(ms) \in Nat
BY FS_Interval

\* The rows kept are those at the places kept, each once.
LEMMA KeptRows ==
  ASSUME NEW X, NEW ms \in Seq(X), NEW places \in SUBSET DOMAIN ms
  PROVE  /\ Kept(ms, places) \in Seq(X)
         /\ Rows(Kept(ms, places)) = {ms[i] : i \in places}
         /\ KeyedRows(ms) => KeyedRows(Kept(ms, places))
         /\ Len(Kept(ms, places)) = Cardinality(places)
<1>1. IsFiniteSet(places) /\ places \subseteq Nat
  BY FiniteDomain, FS_Subset
<1> DEFINE size == Cardinality(places)
           kept == Kept(ms, places)
<1>2. /\ size \in Nat
      /\ \A n \in 1..size : Nth(places, n) \in places
      /\ \A n, k \in 1..size : Nth(places, n) = Nth(places, k) => n = k
      /\ \A i \in places : \E n \in 1..size : Nth(places, n) = i
  BY <1>1, Ranked
<1>3. DOMAIN kept = 1..size /\ \A n \in 1..size : kept[n] = ms[Nth(places, n)]
  BY DEF Kept
<1>4. \A i \in DOMAIN ms : ms[i] \in X
  OBVIOUS
<1>5. kept \in [1..size -> X]
  BY <1>2, <1>3, <1>4 DEF Kept
<1>6. kept \in Seq(X) /\ Len(kept) = size
  BY <1>2, <1>5
<1> HIDE DEF kept, size
<1>7. Rows(kept) = {ms[i] : i \in places}
  BY <1>2, <1>3 DEF Rows
<1>8. ASSUME KeyedRows(ms) PROVE KeyedRows(kept)
  BY <1>2, <1>3, <1>8 DEF KeyedRows
<1>9. QED
  BY <1>6, <1>7, <1>8 DEF kept, size

LEMMA First ==
  ASSUME NEW places, IsFiniteSet(places), places \subseteq Nat, places # {}
  PROVE  Nth(places, 1) \in places
<1>1. Cardinality(places) \in Nat /\ Cardinality(places) # 0
  BY FS_CardinalityType, FS_EmptySet
<1>2. 1 \in 1..Cardinality(places)
  BY <1>1
<1>3. QED
  BY <1>2, Ranked

\* The row a role is taken from.
LEMMA RoleInRow ==
  ASSUME NEW ms, Rows(ms) \subseteq Rowset, NEW h, NEW u, IsMember(ms, h, u)
  PROVE  /\ Row(h, u, RoleIn(ms, h, u)) \in Rows(ms) /\ RoleIn(ms, h, u) \in Roles
         /\ h \in Households /\ u \in Users
<1>1. PICK m \in Rows(ms) : m = CHOOSE x \in Rows(ms) : x.hh = h /\ x.user = u
  BY DEF IsMember
<1>2. m.hh = h /\ m.user = u /\ RoleIn(ms, h, u) = m.role /\ m \in Rowset
  BY <1>1 DEF IsMember, RoleIn
<1>3. QED
  BY <1>1, <1>2 DEF Row, Rowset

LEMMA RowsTyped ==
  ASSUME NEW X, NEW ms \in Seq(X)
  PROVE  Rows(ms) \subseteq X
BY DEF Rows

\* Keyed places have keyed rows.
LEMMA SameRow ==
  ASSUME NEW ms, KeyedRows(ms), NEW m \in Rows(ms), NEW n \in Rows(ms),
         m.hh = n.hh, m.user = n.user
  PROVE  m = n
BY DEF KeyedRows, Rows

LEMMA JoinRows ==
  ASSUME NEW ms \in Seq(Rowset), KeyedRows(ms),
         NEW h \in Households, NEW u \in Users, NEW role \in Roles
  PROVE  /\ JoinHousehold(ms, h, u, role) \in Seq(Rowset)
         /\ KeyedRows(JoinHousehold(ms, h, u, role))
         /\ Rows(JoinHousehold(ms, h, u, role)) =
              {m \in Rows(ms) : m.hh # h \/ m.user # u} \cup {Row(h, u, role)}
<1> DEFINE joined == JoinHousehold(ms, h, u, role)
           it == Row(h, u, role)
<1>1. it \in Rowset /\ it.hh = h /\ it.user = u
  BY DEF Row, Rowset
<1>2. Len(ms) \in Nat /\ DOMAIN ms = 1..Len(ms) /\ \A i \in DOMAIN ms : ms[i] \in Rowset
  OBVIOUS
<1>3. CASE IsMember(ms, h, u)
  <2>1. DOMAIN joined = 1..Len(ms)
    BY <1>2, <1>3 DEF JoinHousehold
  <2>2. \A i \in 1..Len(ms) :
          joined[i] = IF ms[i].hh = h /\ ms[i].user = u THEN it ELSE ms[i]
    BY <1>2, <1>3 DEF JoinHousehold
  <2>3. joined = [i \in 1..Len(ms) |-> IF ms[i].hh = h /\ ms[i].user = u THEN it ELSE ms[i]]
    BY <1>2, <1>3 DEF JoinHousehold
  <2> HIDE DEF joined, it
  <2>4. joined \in [1..Len(ms) -> Rowset]
    BY <1>1, <1>2, <2>3
  <2>5. joined \in Seq(Rowset)
    BY <1>2, <2>4
  <2>6. KeyedRows(joined)
    <3>1. \A i \in 1..Len(ms) : joined[i].hh = ms[i].hh /\ joined[i].user = ms[i].user
      BY <1>1, <2>2
    <3>2. QED
      BY <1>2, <2>1, <3>1 DEF KeyedRows
  <2>7. PICK i \in DOMAIN ms : ms[i].hh = h /\ ms[i].user = u
    BY <1>3 DEF IsMember, Rows
  <2>8. it \in Rows(joined)
    BY <1>2, <2>1, <2>2, <2>7 DEF Rows
  <2>9. \A m : m \in Rows(joined) <=> m = it \/ (m \in Rows(ms) /\ (m.hh # h \/ m.user # u))
    <3> SUFFICES ASSUME NEW m
                 PROVE  m \in Rows(joined) <=> m = it \/ (m \in Rows(ms) /\ (m.hh # h \/ m.user # u))
      OBVIOUS
    <3>1. ASSUME m \in Rows(joined), m # it
          PROVE  m \in Rows(ms) /\ (m.hh # h \/ m.user # u)
      BY <1>2, <2>1, <2>2, <3>1 DEF Rows
    <3>2. ASSUME m \in Rows(ms), m.hh # h \/ m.user # u PROVE m \in Rows(joined)
      BY <1>2, <2>1, <2>2, <3>2 DEF Rows
    <3>3. QED
      BY <2>8, <3>1, <3>2
  <2>10. QED
    BY <2>5, <2>6, <2>9 DEF joined, it
<1>4. CASE ~IsMember(ms, h, u)
  <2>1. joined = Append(ms, it)
    BY <1>4 DEF JoinHousehold
  <2> HIDE DEF joined, it
  <2>2. joined \in Seq(Rowset) /\ DOMAIN joined = 1..(Len(ms) + 1)
    BY <1>1, <1>2, <2>1
  <2>3. joined[Len(ms) + 1] = it /\ \A i \in 1..Len(ms) : joined[i] = ms[i]
    BY <1>2, <2>1
  <2>4. \A i \in 1..Len(ms) : ms[i].hh # h \/ ms[i].user # u
    BY <1>2, <1>4 DEF IsMember, Rows
  <2>5. KeyedRows(joined)
    <3> SUFFICES ASSUME NEW i \in 1..(Len(ms) + 1), NEW j \in 1..(Len(ms) + 1),
                        joined[i].hh = joined[j].hh, joined[i].user = joined[j].user
                 PROVE  i = j
      BY <2>2 DEF KeyedRows
    <3>1. CASE i = Len(ms) + 1 /\ j # Len(ms) + 1
      BY <1>1, <1>2, <2>3, <2>4, <3>1
    <3>2. CASE i # Len(ms) + 1 /\ j = Len(ms) + 1
      BY <1>1, <1>2, <2>3, <2>4, <3>2
    <3>3. CASE i # Len(ms) + 1 /\ j # Len(ms) + 1
      <4>1. i \in DOMAIN ms /\ j \in DOMAIN ms
        BY <1>2, <3>3
      <4>2. joined[i] = ms[i] /\ joined[j] = ms[j]
        BY <1>2, <2>3, <4>1
      <4>3. QED
        BY <4>1, <4>2 DEF KeyedRows
    <3>4. QED
      BY <3>1, <3>2, <3>3
  <2>6. \A m : m \in Rows(joined) <=> m = it \/ (m \in Rows(ms) /\ (m.hh # h \/ m.user # u))
    <3> SUFFICES ASSUME NEW m
                 PROVE  m \in Rows(joined) <=> m = it \/ (m \in Rows(ms) /\ (m.hh # h \/ m.user # u))
      OBVIOUS
    <3>1. ASSUME m \in Rows(joined), m # it
          PROVE  m \in Rows(ms) /\ (m.hh # h \/ m.user # u)
      <4>1. PICK i \in 1..(Len(ms) + 1) : m = joined[i]
        BY <2>2, <3>1 DEF Rows
      <4>2. i \in 1..Len(ms)
        BY <1>2, <2>3, <3>1, <4>1
      <4>3. QED
        BY <1>2, <2>3, <2>4, <4>1, <4>2 DEF Rows
    <3>2. ASSUME m \in Rows(ms) PROVE m \in Rows(joined)
      <4>1. PICK i \in 1..Len(ms) : m = ms[i]
        BY <1>2, <3>2 DEF Rows
      <4>2. joined[i] = m /\ i \in 1..(Len(ms) + 1)
        BY <1>2, <2>3, <4>1
      <4>3. QED
        BY <2>2, <4>2 DEF Rows
    <3>3. it \in Rows(joined)
      <4>1. Len(ms) + 1 \in DOMAIN joined
        BY <1>2, <2>2
      <4>2. QED
        BY <2>3, <4>1 DEF Rows
    <3>4. QED
      BY <3>1, <3>2, <3>3
  <2>7. QED
    BY <2>2, <2>5, <2>6 DEF joined, it
<1>5. QED
  BY <1>3, <1>4

LEMMA RowFields ==
  /\ \A h \in Households, u \in Users, role \in Roles :
       /\ Row(h, u, role) \in Rowset
       /\ Row(h, u, role).hh = h /\ Row(h, u, role).user = u /\ Row(h, u, role).role = role
  /\ \A m \in Rowset : /\ m.hh \in Households /\ m.user \in Users /\ m.role \in Roles
                       /\ m = Row(m.hh, m.user, m.role)
  /\ \A h, u, role, g, v, r2 : Row(h, u, role) = Row(g, v, r2) => h = g /\ u = v /\ role = r2
<1>1. \A h \in Households, u \in Users, role \in Roles :
       /\ Row(h, u, role) \in Rowset
       /\ Row(h, u, role).hh = h /\ Row(h, u, role).user = u /\ Row(h, u, role).role = role
  BY DEF Row, Rowset
<1>2. \A m \in Rowset : /\ m.hh \in Households /\ m.user \in Users /\ m.role \in Roles
                       /\ m = Row(m.hh, m.user, m.role)
  BY DEF Row, Rowset
<1>3. \A h, u, role, g, v, r2 : Row(h, u, role) = Row(g, v, r2) => h = g /\ u = v /\ role = r2
  BY DEF Row
<1>4. QED
  BY <1>1, <1>2, <1>3

LEMMA OwnerIsRole == "owner" \in Roles /\ "admin" \in Roles /\ "member" \in Roles
BY DEF Roles

\* A row as a request's promotions leave it.
Raised(q, m) ==
  IF Row(m.hh, m.user, "owner") \in q.heirs THEN Row(m.hh, m.user, "owner") ELSE m

LEMMA RaisedFields ==
  ASSUME NEW q, NEW m \in Rowset
  PROVE  /\ Raised(q, m) \in Rowset /\ Raised(q, m).hh = m.hh /\ Raised(q, m).user = m.user
         /\ Raised(q, m).role = m.role \/ Raised(q, m) \in q.heirs
BY RowFields, OwnerIsRole DEF Raised

LEMMA PromotedRows ==
  ASSUME NEW ms \in Seq(Rowset), KeyedRows(ms), NEW q
  PROVE  /\ Promoted(ms, q) \in Seq(Rowset) /\ KeyedRows(Promoted(ms, q))
         /\ DOMAIN Promoted(ms, q) = DOMAIN ms
         /\ \A i \in DOMAIN ms : Promoted(ms, q)[i] = Raised(q, ms[i])
         /\ Rows(Promoted(ms, q)) = {Raised(q, m) : m \in Rows(ms)}
<1> DEFINE raised == Promoted(ms, q)
<1>1. Len(ms) \in Nat /\ DOMAIN ms = 1..Len(ms) /\ \A i \in DOMAIN ms : ms[i] \in Rowset
  OBVIOUS
<1>2. DOMAIN raised = DOMAIN ms
  BY DEF Promoted
<1>3. \A i \in DOMAIN ms : [ms[i] EXCEPT !.role = "owner"] = Row(ms[i].hh, ms[i].user, "owner")
  BY <1>1 DEF Row, Rowset
<1>4. \A i \in DOMAIN ms : raised[i] = Raised(q, ms[i])
  BY <1>3 DEF Promoted, Raised
<1>5. \A i \in DOMAIN ms : /\ raised[i] \in Rowset
                           /\ raised[i].hh = ms[i].hh /\ raised[i].user = ms[i].user
  BY <1>1, <1>4, RaisedFields
<1>6. raised = [i \in 1..Len(ms) |-> raised[i]]
  BY <1>1, <1>2 DEF Promoted
<1> HIDE DEF raised
<1>7. raised \in Seq(Rowset)
  BY <1>1, <1>5, <1>6
<1>8. KeyedRows(raised)
  BY <1>2, <1>5 DEF KeyedRows
<1>9. Rows(raised) = {Raised(q, m) : m \in Rows(ms)}
  BY <1>2, <1>4 DEF Rows
<1>10. QED
  BY <1>2, <1>4, <1>7, <1>8, <1>9 DEF raised

LEMMA RemovedRows ==
  ASSUME NEW ms \in Seq(Rowset), KeyedRows(ms), NEW h, NEW u
  PROVE  /\ RemoveMembership(ms, h, u) \in Seq(Rowset) /\ KeyedRows(RemoveMembership(ms, h, u))
         /\ Rows(RemoveMembership(ms, h, u)) = {m \in Rows(ms) : m.hh # h \/ m.user # u}
<1> DEFINE places == {i \in DOMAIN ms : ms[i].hh # h \/ ms[i].user # u}
<1>1. places \in SUBSET DOMAIN ms
  OBVIOUS
<1>2. /\ Kept(ms, places) \in Seq(Rowset) /\ KeyedRows(Kept(ms, places))
      /\ Rows(Kept(ms, places)) = {ms[i] : i \in places}
  BY <1>1, KeptRows
<1>3. {ms[i] : i \in places} = {m \in Rows(ms) : m.hh # h \/ m.user # u}
  BY DEF Rows
<1>4. QED
  BY <1>2, <1>3 DEF RemoveMembership

LEMMA ListedRows ==
  ASSUME memberships \in Seq(Rowset), KeyedRows(memberships), NEW u
  PROVE  /\ MembershipsOf(u) \in Seq(Rowset) /\ KeyedRows(MembershipsOf(u))
         /\ Rows(MembershipsOf(u)) = {m \in Rows(memberships) : m.user = u}
<1> DEFINE places == {i \in DOMAIN memberships : memberships[i].user = u}
<1>1. places \in SUBSET DOMAIN memberships
  OBVIOUS
<1>2. /\ Kept(memberships, places) \in Seq(Rowset) /\ KeyedRows(Kept(memberships, places))
      /\ Rows(Kept(memberships, places)) = {memberships[i] : i \in places}
  BY <1>1, KeptRows
<1>3. {memberships[i] : i \in places} = {m \in Rows(memberships) : m.user = u}
  BY DEF Rows
<1>4. QED
  BY <1>2, <1>3 DEF MembershipsOf

\* One member, or somebody beside a member.
LEMMA Alone ==
  ASSUME NEW ms \in Seq(Rowset), KeyedRows(ms), NEW h
  PROVE  /\ Cardinality(MembersOf(ms, h)) = 1 =>
              \A m, n \in Rows(ms) : m.hh = h /\ n.hh = h => m = n
         /\ \A u : Cardinality(MembersOf(ms, h)) # 1 /\ IsMember(ms, h, u) =>
              \E m \in Rows(ms) : m.hh = h /\ m.user # u
<1> DEFINE here == MembersOf(ms, h)
<1>1. IsFiniteSet(here)
  BY FiniteDomain, FS_Subset, here \in SUBSET DOMAIN ms DEF MembersOf
<1>2. Cardinality(here) = 1 <=> \E i : here = {i}
  BY <1>1, FS_Singleton
<1>3. ASSUME Cardinality(here) = 1, NEW m \in Rows(ms), NEW n \in Rows(ms), m.hh = h, n.hh = h
      PROVE  m = n
  <2>1. PICK i : here = {i}
    BY <1>2, <1>3
  <2>2. PICK j \in DOMAIN ms, k \in DOMAIN ms : m = ms[j] /\ n = ms[k]
    BY <1>3 DEF Rows
  <2>3. j \in here /\ k \in here
    BY <1>3, <2>2 DEF MembersOf
  <2>4. QED
    BY <2>1, <2>2, <2>3
<1>4. ASSUME NEW u, Cardinality(here) # 1, IsMember(ms, h, u)
      PROVE  \E m \in Rows(ms) : m.hh = h /\ m.user # u
  <2>1. PICK i \in DOMAIN ms : ms[i].hh = h /\ ms[i].user = u
    BY <1>4 DEF IsMember, Rows
  <2>2. i \in here
    BY <2>1 DEF MembersOf
  <2>3. PICK k \in here : k # i
    <3>1. here # {i}
      BY <1>2, <1>4
    <3>2. QED
      BY <2>2, <3>1
  <2>4. k \in DOMAIN ms /\ ms[k].hh = h
    BY <2>3 DEF MembersOf
  <2>5. ms[k].user # u
    BY <2>1, <2>3, <2>4 DEF KeyedRows
  <2>6. QED
    BY <2>4, <2>5 DEF Rows
<1>5. QED
  BY <1>3, <1>4

LEMMA FirstPlace ==
  ASSUME NEW ms \in Seq(Rowset), NEW places \in SUBSET DOMAIN ms, places # {}
  PROVE  Nth(places, 1) \in places
<1>1. IsFiniteSet(places) /\ places \subseteq Nat
  BY FiniteDomain, FS_Subset
<1>2. QED
  BY <1>1, First

\* Whom promoteSuccessor finds: one of the others, unless all of them own it.
LEMMA SuccessorIs ==
  ASSUME memberships \in Seq(Rowset), NEW h, NEW u, NEW role
  PROVE  LET heir == Successor(h, u, role)
         IN  /\ heir # None => /\ role = "owner" /\ heir \in Users /\ heir # u
                               /\ IsMember(memberships, h, heir)
             /\ role = "owner" /\ heir = None =>
                  \A m \in Rows(memberships) : m.hh = h /\ m.user # u => m.role = "owner"
<1> DEFINE some(kind) == Candidates(h, u, kind)
           first(kind) == memberships[Nth(some(kind), 1)]
<1>1. \A kind : some(kind) \in SUBSET DOMAIN memberships
  BY DEF Candidates, MembersOf
<1>2. ASSUME NEW kind, some(kind) # {}
      PROVE  /\ first(kind) \in Rows(memberships) /\ first(kind).hh = h /\ first(kind).user # u
             /\ first(kind).user \in Users
  <2>1. Nth(some(kind), 1) \in some(kind)
    BY <1>1, <1>2, FirstPlace
  <2>2. first(kind) \in Rowset
    BY <1>1, <2>1
  <2>3. QED
    BY <2>1, <2>2, RowFields DEF Candidates, MembersOf, Rows
<1>3. ASSUME some("admin") = {}, some("member") = {}, NEW m \in Rows(memberships), m.hh = h, m.user # u
      PROVE  m.role = "owner"
  <2>1. PICK i \in DOMAIN memberships : m = memberships[i]
    BY <1>3 DEF Rows
  <2>2. m.role \in Roles
    BY <2>1, RowFields
  <2>3. i \in MembersOf(memberships, h)
    BY <1>3, <2>1 DEF MembersOf
  <2>4. m.role # "admin" /\ m.role # "member"
    BY <1>3, <2>1, <2>3 DEF Candidates
  <2>5. QED
    BY <2>2, <2>4 DEF Roles
<1>4. None \notin Users
  BY ParamsAssumption
<1> DEFINE heir == Successor(h, u, role)
<1>5. heir = IF role # "owner" THEN None
             ELSE IF some("admin") # {} THEN first("admin").user
             ELSE IF some("member") # {} THEN first("member").user ELSE None
  BY DEF Successor
<1> HIDE DEF some, first, heir
<1>6. heir # None => /\ role = "owner" /\ heir \in Users /\ heir # u
                     /\ IsMember(memberships, h, heir)
  BY <1>2, <1>5 DEF IsMember
<1>7. role = "owner" /\ heir = None => some("admin") = {} /\ some("member") = {}
  BY <1>2, <1>4, <1>5
<1>8. role = "owner" /\ heir = None =>
        \A m \in Rows(memberships) : m.hh = h /\ m.user # u => m.role = "owner"
  BY <1>3, <1>7
<1>9. QED
  BY <1>6, <1>8 DEF heir

LEMMA FallbackIs ==
  ASSUME memberships \in Seq(Rowset), NEW h, NEW u
  PROVE  LET there == Fallback(h, u)
         IN  there = None \/ /\ there \in [hh : Households, role : Roles] /\ there.hh # h
                             /\ Row(there.hh, u, there.role) \in Rows(memberships)
<1> DEFINE others == {i \in DOMAIN memberships : memberships[i].user = u /\ memberships[i].hh # h}
           first == memberships[Nth(others, 1)]
<1>1. CASE others = {}
  BY <1>1 DEF Fallback
<1>2. CASE others # {}
  <2>1. Nth(others, 1) \in others
    BY <1>2, FirstPlace, others \in SUBSET DOMAIN memberships
  <2>2. first \in Rows(memberships) /\ first \in Rowset /\ first.user = u /\ first.hh # h
    <3>1. PICK i \in others : i = Nth(others, 1)
      BY <2>1
    <3>2. i \in DOMAIN memberships /\ first = memberships[i]
      BY <3>1
    <3>3. memberships[i] \in Rowset /\ memberships[i].user = u /\ memberships[i].hh # h
      BY <3>1
    <3>4. QED
      BY <3>2, <3>3 DEF Rows
  <2>3. Fallback(h, u) = Pointer(first.hh, first.role)
    BY <1>2 DEF Fallback
  <2> HIDE DEF first
  <2>4. first = Row(first.hh, u, first.role) /\ first.hh \in Households /\ first.role \in Roles
    BY <2>2, RowFields
  <2>5. QED
    BY <2>2, <2>3, <2>4 DEF Pointer
<1>3. QED
  BY <1>1, <1>2
-----------------------------------------------------------------------------
(* The requests that a step leaves alone                                   *)

Surviving(u) == active'[u] # NoAccount

\* The rows of the households that a request has locked stay, unless an account
\* went: then not on a complete list, and no heir's.
Steady(q) ==
  /\ q.held \subseteq households' /\ raced \subseteq raced'
  /\ \A u \in Users : Surviving(u) => Exists(u)
  /\ \A m \in Rows(memberships') : m.hh \in q.held => m \in Rows(memberships)
  /\ \A m \in Rows(memberships) : m.hh \in q.held /\ m \notin Rows(memberships') =>
       /\ ~Surviving(m.user) /\ "account" \in raced'
       /\ \A x \in q.heirs : x.user # m.user

LEMMA RequestFields ==
  ASSUME NEW q \in RequestRecords
  PROVE  /\ q.phase \in {"begun", "locked"} /\ q.op \in {"invite", "switch", "delete", "merge"} \cup Locking
         /\ q.by \in Users /\ q.hh \in Households \cup {None} /\ q.target \in Users
         /\ q.role \in Roles \cup {None} /\ q.pointer \in Households \cup {None}
         /\ q.fallback \in {None} \cup [hh : Households, role : Roles] /\ q.listed \in Seq(Rowset)
         /\ q.held \in SUBSET Households /\ q.gone \in SUBSET Households
         /\ q.heirs \in SUBSET Rowset
BY DEF RequestRecords

LEMMA Bystander ==
  ASSUME TablesTyped, NEW q \in RequestRecords, RequestFits(q), Steady(q)
  PROVE  RequestFits(q)'
<1> SUFFICES ASSUME q # NoRequest PROVE RequestFits(q)'
  BY DEF RequestFits
<1>1. /\ Shaped(q) /\ ListLocked(q)
      /\ TargetStays(q) /\ GoneAlone(q) /\ HeirsFit(q) /\ Succeeded(q)
  BY DEF RequestFits
<1>2. Rows(memberships) \subseteq Rowset
  BY RowsTyped DEF TablesTyped
<1>3. q.gone \subseteq q.held /\ q.target \in Users
  BY <1>1, RequestFields DEF Shaped
<1>4. Shaped(q)'
  BY <1>1 DEF Shaped, Steady
<1>5. ListLocked(q)'
  BY <1>1 DEF ListLocked
<1>6. TargetStays(q)'
  <2> SUFFICES ASSUME q.phase = "locked", Surviving(q.target)
               PROVE  \E m \in Rows(memberships') : m.hh = q.hh /\ m.user = q.target /\ Permitted(q, m.role)
    BY DEF TargetStays, Surviving, Exists, Permitted
  <2>1. Exists(q.target) /\ q.op \in Locking
    BY <1>1, <1>3 DEF Steady, Shaped
  <2>2. PICK m \in Rows(memberships) : m.hh = q.hh /\ m.user = q.target /\ Permitted(q, m.role)
    BY <1>1, <2>1 DEF TargetStays
  <2>3. m.hh \in q.held
    BY <1>1, <2>1, <2>2 DEF Shaped, Locking
  <2>4. m \in Rows(memberships')
    BY <2>2, <2>3 DEF Steady
  <2>5. QED
    BY <2>2, <2>4
<1>7. GoneAlone(q)'
  BY <1>1, <1>3 DEF GoneAlone, Steady
<1>8. HeirsFit(q)'
  <2>1. ASSUME NEW m \in q.heirs PROVE IsMember(memberships', m.hh, m.user)
    <3>1. PICK n \in Rows(memberships) : n.hh = m.hh /\ n.user = m.user
      BY <1>1 DEF HeirsFit, IsMember
    <3>2. n \in Rows(memberships')
      BY <1>1, <3>1 DEF HeirsFit, Steady
    <3>3. QED
      BY <3>1, <3>2 DEF IsMember
  <2>2. ASSUME NEW m \in q.heirs, q.op = "leave", Surviving(q.target)
        PROVE  Row(m.hh, q.target, "owner") \in Rows(memberships')
    <3>1. Row(m.hh, q.target, "owner") \in Rows(memberships)
      BY <1>1, <1>3, <2>2 DEF HeirsFit, Steady
    <3>2. QED
      BY <1>1, <2>2, <3>1 DEF HeirsFit, Steady, Row
  <2>3. QED
    BY <1>1, <2>1, <2>2 DEF HeirsFit, ListedOwner, Surviving, Exists
<1>9. Succeeded(q)'
  <2> SUFFICES ASSUME "account" \notin raced', q.op \in {"leave", "delete"}, NEW h \in q.held \ q.gone,
                      Row(h, q.target, "owner") \in Rows(memberships'), ListedOwner(q, h)
               PROVE  \/ \E m \in q.heirs : m.hh = h
                      \/ \E m \in OwnerRows(memberships', h) : m.user # q.target
    BY DEF Succeeded, ListedOwner
  <2>1. "account" \notin raced
    BY DEF Steady
  <2>2. Row(h, q.target, "owner") \in Rows(memberships)
    BY DEF Steady, Row
  <2>3. \/ \E m \in q.heirs : m.hh = h
        \/ \E m \in OwnerRows(memberships, h) : m.user # q.target
    BY <1>1, <2>1, <2>2 DEF Succeeded
  <2>4. ASSUME NEW m \in OwnerRows(memberships, h) PROVE m \in OwnerRows(memberships', h)
    BY DEF OwnerRows, Steady
  <2>5. QED
    BY <2>3, <2>4
<1>10. QED
  BY <1>4, <1>5, <1>6, <1>7, <1>8, <1>9 DEF RequestFits

LEMMA Idle == NoRequest.held = {} /\ NoRequest \notin RequestRecords
<1>1. NoRequest.phase = "none" /\ NoRequest.held = {}
  BY DEF NoRequest
<1>2. QED
  BY <1>1, RequestFields

\* A step that changes one request, or none, and disturbs no other.
LEMMA OthersFit ==
  ASSUME TablesTyped, RequestsFit, NEW r \in Slots,
         \A s \in Slots \ {r} : request'[s] = request[s],
         \A s \in Slots \ {r} : request[s] \in RequestRecords => Steady(request[s]),
         request' \in [Slots -> RequestRecords \cup {NoRequest}], RequestFits(request[r])',
         \A s \in Slots \ {r} : request'[r].held \cap request[s].held = {}
  PROVE  RequestsFit'
<1>1. ASSUME NEW s \in Slots \ {r} PROVE RequestFits(request[s])'
  <2>1. CASE request[s] = NoRequest
    BY <1>1, <2>1 DEF RequestFits, NoRequest
  <2>2. CASE request[s] # NoRequest
    <3> DEFINE q == request[s]
    <3>1. q \in RequestRecords /\ RequestFits(q)
      BY <2>2 DEF RequestsFit
    <3>2. Steady(q)
      BY <3>1
    <3> HIDE DEF q
    <3>3. ASSUME NEW p, p = q PROVE RequestFits(p)'
      <4>1. p \in RequestRecords /\ RequestFits(p) /\ Steady(p)
        BY <3>1, <3>2, <3>3
      <4>2. QED
        BY <4>1, Bystander
    <3>4. request'[s] = q
      BY DEF q
    <3>5. QED
      BY <3>3, <3>4
  <2>3. QED
    BY <2>1, <2>2
<1>2. QED
  BY <1>1 DEF RequestsFit

\* A step that reads the tables and moves one request on.
LEMMA Reading ==
  ASSUME MemberInv, UNCHANGED <<db, raced>>, NEW r \in Slots, NEW q,
         request' = [request EXCEPT ![r] = q],
         q \in RequestRecords \cup {NoRequest}, RequestFits(q),
         \A s \in Slots \ {r} : q.held \cap request[s].held = {}
  PROVE  MemberInv'
<1>1. UNCHANGED <<households, memberships, active, invites, raced>>
  BY DEF db
<1>2. TablesTyped' /\ Secure'
  BY <1>1 DEF MemberInv, TablesTyped, Secure, Exists, Owned, OnceOwned, ActiveIsMember
<1>3. request \in [Slots -> RequestRecords \cup {NoRequest}]
  BY DEF MemberInv, RequestsFit
<1>4. /\ request'[r] = q /\ \A s \in Slots \ {r} : request'[s] = request[s]
      /\ request' \in [Slots -> RequestRecords \cup {NoRequest}]
  BY <1>3
<1>5. ASSUME NEW s \in Slots \ {r}, request[s] \in RequestRecords PROVE Steady(request[s])
  <2>1. Shaped(request[s])
    BY <1>5, Idle DEF MemberInv, RequestsFit, RequestFits
  <2>2. QED
    BY <1>1, <2>1 DEF Steady, Shaped, Surviving, Exists
<1>6. RequestFits(q)'
  <2>1. /\ Shaped(q) <=> Shaped(q)'
        /\ ListLocked(q) <=> ListLocked(q)'
        /\ TargetStays(q) <=> TargetStays(q)'
    BY <1>1 DEF Shaped, ListLocked, TargetStays, Exists
  <2>2. /\ GoneAlone(q) <=> GoneAlone(q)'
        /\ HeirsFit(q) <=> HeirsFit(q)'
        /\ Succeeded(q) <=> Succeeded(q)'
    BY <1>1 DEF GoneAlone, HeirsFit, Succeeded, Exists
  <2>3. QED
    BY <2>1, <2>2 DEF RequestFits
<1>7. RequestsFit'
  BY <1>4, <1>5, <1>6, OthersFit DEF MemberInv
<1>8. QED
  BY <1>2, <1>7 DEF MemberInv

\* A rejected request leaves nothing behind.
LEMMA Rejecting == ASSUME MemberInv, NEW r \in Slots, Reject(r) PROVE MemberInv'
<1>1. UNCHANGED <<db, raced>> /\ request' = [request EXCEPT ![r] = NoRequest]
  BY DEF Reject
<1>2. RequestFits(NoRequest) /\ \A s \in Slots \ {r} : NoRequest.held \cap request[s].held = {}
  BY Idle DEF RequestFits
<1>3. QED
  BY <1>1, <1>2, Reading

\* A new request has locked nothing.
LEMMA Beginning ==
  ASSUME MemberInv, NEW r \in Slots, NEW q \in RequestRecords, Begin(r, q), q.phase = "begun",
         q.op # "merge", q.held = {}, q.gone = {}, q.heirs = {},
         q.op = "switch" => q.role \in Roles,
         q.op = "set_role" => q.role \in {"admin", "member"},
         q.op \in {"set_role", "transfer", "remove"} => q.by # q.target,
         q.op \in {"leave", "delete"} => q.by = q.target,
         q.op = "delete" => KeyedRows(q.listed) /\ \A m \in Rows(q.listed) : m.user = q.target
  PROVE  MemberInv'
<1>1. UNCHANGED <<db, raced>> /\ request' = [request EXCEPT ![r] = q]
  BY DEF Begin
<1>2. Shaped(q)
  BY FS_EmptySet DEF Shaped
<1>3. ListLocked(q)
  <2>1. Cardinality(q.held) = 0
    BY FS_EmptySet
  <2>2. Len(q.listed) \in Nat
    BY RequestFields
  <2>3. {q.listed[i].hh : i \in 1..0} = {}
    OBVIOUS
  <2>4. QED
    BY <2>1, <2>2, <2>3 DEF ListLocked
<1>4. TargetStays(q) /\ GoneAlone(q) /\ HeirsFit(q) /\ Succeeded(q)
  BY DEF TargetStays, GoneAlone, HeirsFit, Succeeded
<1>5. RequestFits(q)
  BY <1>2, <1>3, <1>4 DEF RequestFits
<1>6. QED
  BY <1>1, <1>5, Reading

LEMMA Asked ==
  ASSUME TablesTyped, NEW o \in {"invite", "switch", "delete", "merge"} \cup Locking, NEW u \in Users,
         NEW h \in Households \cup {None}, NEW t \in Users, NEW role \in Roles \cup {None}
  PROVE  LET q == Ask(o, u, h, t, role)
         IN  /\ q \in RequestRecords /\ q.phase = "begun" /\ q.op = o /\ q.by = u /\ q.hh = h
             /\ q.target = t /\ q.role = role /\ q.held = {} /\ q.gone = {} /\ q.heirs = {}
<1>1. active[t].hh \in Households \cup {None}
  BY DEF TablesTyped, NoAccount, Pointer
<1>2. <<>> \in Seq(Rowset)
  OBVIOUS
<1>3. QED
  BY <1>1, <1>2 DEF Ask, RequestRecords

LEMMA AskedBegins ==
  ASSUME MemberInv, NEW r \in Slots, NEW o \in {"invite", "switch"} \cup Locking, NEW u \in Users,
         NEW h \in Households \cup {None}, NEW t \in Users, NEW role \in Roles \cup {None},
         Begin(r, Ask(o, u, h, t, role)),
         o = "switch" => role \in Roles,
         o = "set_role" => role \in {"admin", "member"},
         o \in {"set_role", "transfer", "remove"} => u # t,
         o = "leave" => u = t
  PROVE  MemberInv'
<1> DEFINE q == Ask(o, u, h, t, role)
<1>1. /\ q \in RequestRecords /\ q.phase = "begun" /\ q.op = o /\ q.by = u /\ q.hh = h
      /\ q.target = t /\ q.role = role /\ q.held = {} /\ q.gone = {} /\ q.heirs = {}
  BY Asked DEF MemberInv
<1>2. Begin(r, q) /\ o \notin {"merge", "delete"}
  BY DEF Locking
<1> HIDE DEF q
<1>3. QED
  BY <1>1, <1>2, Beginning

LEMMA UserActing ==
  ASSUME MemberInv, NEW r \in Slots, NEW u \in Users, UserActs(r, u)
  PROVE  MemberInv'
<1>1. TablesTyped /\ memberships \in Seq(Rowset) /\ KeyedRows(memberships)
      /\ Rows(memberships) \subseteq Rowset /\ households \subseteq Households
  BY RowsTyped DEF MemberInv, TablesTyped
<1>2. \A v \in Users : active[v].hh \in Households \cup {None} /\ active[v].role \in Roles \cup {None}
  BY <1>1 DEF TablesTyped, NoAccount, Pointer
<1>3. Locking = {"set_role", "transfer", "remove", "leave"}
  BY DEF Locking
<1>4. ASSUME NEW h \in households, LeaveHousehold(r, u, h) PROVE MemberInv'
  BY <1>1, <1>3, <1>4, AskedBegins DEF LeaveHousehold
<1>5. ASSUME NEW h \in households, SetActiveHousehold(r, u, h) PROVE MemberInv'
  <2>1. Activated(memberships, h, u).role \in Roles
    BY <1>1, <1>5, RoleInRow DEF SetActiveHousehold, Activated, Pointer
  <2>2. QED
    BY <1>1, <1>5, <2>1, AskedBegins DEF SetActiveHousehold
<1>6. CASE DeleteMyAccount(r, u)
  <2> DEFINE q == Ask("delete", u, None, u, None)
             p == [q EXCEPT !.listed = MembershipsOf(u)]
  <2>1. q \in RequestRecords /\ q.phase = "begun" /\ q.op = "delete" /\ q.by = u
        /\ q.target = u /\ q.held = {} /\ q.gone = {} /\ q.heirs = {}
    <3>1. <<>> \in Seq(Rowset)
      OBVIOUS
    <3>2. QED
      BY <1>2, <3>1 DEF Ask, RequestRecords
  <2>2. /\ MembershipsOf(u) \in Seq(Rowset) /\ KeyedRows(MembershipsOf(u))
        /\ Rows(MembershipsOf(u)) = {m \in Rows(memberships) : m.user = u}
    BY <1>1, ListedRows
  <2>3. Begin(r, p)
    BY <1>6 DEF DeleteMyAccount
  <2> HIDE DEF q
  <2>4. p \in RequestRecords /\ p.phase = "begun" /\ p.op = "delete" /\ p.by = u
        /\ p.target = u /\ p.held = {} /\ p.gone = {} /\ p.heirs = {} /\ p.listed = MembershipsOf(u)
    BY <2>1, <2>2 DEF RequestRecords
  <2> HIDE DEF p
  <2>5. p.op \notin {"merge", "switch", "set_role", "transfer", "remove"}
    BY <2>4
  <2>6. QED
    BY <2>2, <2>3, <2>4, <2>5, Beginning
<1>7. ASSUME NEW t \in Users, InviteHouseholdMember(r, u, t) PROVE MemberInv'
  BY <1>1, <1>2, <1>7, AskedBegins DEF InviteHouseholdMember
<1>8. ASSUME NEW t \in Users, TransferHouseholdOwnership(r, u, t) PROVE MemberInv'
  BY <1>1, <1>2, <1>3, <1>8, AskedBegins DEF TransferHouseholdOwnership
<1>9. ASSUME NEW t \in Users, RemoveHouseholdMember(r, u, t) PROVE MemberInv'
  BY <1>1, <1>2, <1>3, <1>9, AskedBegins DEF RemoveHouseholdMember
<1>10. ASSUME NEW t \in Users, NEW role \in {"admin", "member"}, SetHouseholdRole(r, u, t, role)
       PROVE  MemberInv'
  BY <1>1, <1>2, <1>3, <1>10, OwnerIsRole, AskedBegins DEF SetHouseholdRole
<1>11. QED
  BY <1>4, <1>5, <1>6, <1>7, <1>8, <1>9, <1>10 DEF UserActs

\* A merge has locked the household that is joined.
LEMMA Merges ==
  ASSUME MemberInv, NEW r \in Slots, NEW i \in invites, NEW h \in households,
         AcceptAndMerge(r, i, h)
  PROVE  MemberInv'
<1> DEFINE q == Ask("merge", i.to, h, i.to, None)
           p == [q EXCEPT !.accepted = i, !.held = {i.hh}]
<1>1. /\ TablesTyped /\ households \subseteq Households
      /\ i \in [from : Users, to : Users, hh : households]
  BY DEF MemberInv, TablesTyped
<1>2. /\ i.to \in Users /\ i.hh \in households /\ i.hh \in Households
      /\ i \in [from : Users, to : Users, hh : Households]
  BY <1>1
<1>3. /\ q \in RequestRecords /\ q.phase = "begun" /\ q.op = "merge" /\ q.by = i.to
      /\ q.hh = h /\ q.target = i.to /\ q.gone = {} /\ q.heirs = {}
  BY <1>1, <1>2, Asked
<1>4. /\ h # i.hh /\ Free(i.hh) /\ UNCHANGED <<db, raced>>
      /\ request' = [request EXCEPT ![r] = p]
  BY DEF AcceptAndMerge, Acceptable, Begin
<1>5. {i.hh} \in SUBSET Households
  BY <1>2
<1> HIDE DEF q
<1>6. /\ p \in RequestRecords /\ p.phase = "begun" /\ p.op = "merge" /\ p.by = i.to
      /\ p.hh = h /\ p.target = i.to /\ p.gone = {} /\ p.heirs = {}
      /\ p.accepted = i /\ p.held = {i.hh}
  BY <1>2, <1>3, <1>5 DEF RequestRecords
<1> HIDE DEF p
<1>7. IsFiniteSet(p.held)
  BY <1>6, FS_Singleton
<1>8. Shaped(p)
  BY <1>2, <1>4, <1>6, <1>7 DEF Shaped
<1>9. ListLocked(p) /\ TargetStays(p) /\ GoneAlone(p) /\ HeirsFit(p) /\ Succeeded(p)
  BY <1>6 DEF ListLocked, TargetStays, GoneAlone, HeirsFit, Succeeded
<1>10. RequestFits(p)
  BY <1>8, <1>9 DEF RequestFits
<1>11. \A s \in Slots \ {r} : p.held \cap request[s].held = {}
  BY <1>4, <1>6 DEF Free
<1>12. QED
  BY <1>4, <1>6, <1>10, <1>11, Reading

\* The request d that a departure makes of q.
LastOne(h) == Cardinality(MembersOf(memberships, h)) = 1
DepartsAs(d, q, h, last, heir) ==
  /\ d \in RequestRecords
  /\ d.phase = q.phase /\ d.op = q.op /\ d.by = q.by /\ d.hh = q.hh
  /\ d.target = q.target /\ d.role = q.role /\ d.listed = q.listed /\ d.held = q.held
  /\ d.pointer = q.pointer
  /\ d.gone = IF last THEN q.gone \cup {h} ELSE q.gone
  /\ d.heirs = IF ~last /\ heir # None THEN q.heirs \cup {Row(h, heir, "owner")} ELSE q.heirs

LEMMA DepartingIs ==
  ASSUME NEW q \in RequestRecords, NEW h \in Households, NEW role, memberships \in Seq(Rowset)
  PROVE  DepartsAs(Departing(q, h, role), q, h, LastOne(h), Successor(h, q.target, role))
<1> DEFINE last == LastOne(h)
           heir == Successor(h, q.target, role)
           d == Departing(q, h, role)
<1>1. heir # None => Row(h, heir, "owner") \in Rowset
  BY SuccessorIs, RowFields, OwnerIsRole
<1>2. d = IF last THEN [q EXCEPT !.gone = @ \cup {h}]
          ELSE IF heir = None THEN q
          ELSE [q EXCEPT !.heirs = @ \cup {Row(h, heir, "owner")}]
  BY DEF Departing, LastOne
<1> HIDE DEF last, heir, d
<1>3. CASE last
  <2>1. DepartsAs([q EXCEPT !.gone = q.gone \cup {h}], q, h, TRUE, heir)
    <3> DEFINE more == q.gone \cup {h}
    <3>1. more \in SUBSET Households
      BY RequestFields
    <3> HIDE DEF more
    <3>2. DepartsAs([q EXCEPT !.gone = more], q, h, TRUE, heir) <=> more = q.gone \cup {h}
      BY <3>1 DEF DepartsAs, RequestRecords
    <3>3. QED
      BY <3>2 DEF more
  <2>2. d = [q EXCEPT !.gone = q.gone \cup {h}]
    BY <1>2, <1>3
  <2>3. DepartsAs(d, q, h, last, heir)
    BY <1>3, <2>1, <2>2 DEF DepartsAs
  <2>4. QED
    BY <2>3 DEF last, heir, d
<1>4. CASE ~last /\ heir = None
  <2>1. DepartsAs(d, q, h, last, heir)
    BY <1>2, <1>4 DEF DepartsAs
  <2>2. QED
    BY <2>1 DEF last, heir, d
<1>5. CASE ~last /\ heir # None
  <2> DEFINE more == q.heirs \cup {Row(h, heir, "owner")}
  <2>1. d = [q EXCEPT !.heirs = more] /\ more \in SUBSET Rowset
    BY <1>1, <1>2, <1>5, RequestFields
  <2> HIDE DEF more
  <2>2. d \in RequestRecords /\ d.heirs = more /\ d.gone = q.gone
        /\ d.phase = q.phase /\ d.op = q.op /\ d.by = q.by /\ d.hh = q.hh
        /\ d.target = q.target /\ d.role = q.role /\ d.listed = q.listed /\ d.held = q.held
        /\ d.pointer = q.pointer
    BY <2>1 DEF RequestRecords
  <2>3. DepartsAs(d, q, h, last, heir)
    BY <1>5, <2>2 DEF DepartsAs, more
  <2>4. QED
    BY <2>3 DEF last, heir, d
<1>6. QED
  BY <1>3, <1>4, <1>5

\* What a locked household will lose or gain is settled with its row: the role
\* is the one in the table, or in the list the account's deletion started from.
LEMMA DepartureFits ==
  ASSUME TablesTyped, NEW q \in RequestRecords, NEW h \in households \ q.held, NEW role,
         q.gone \subseteq q.held, GoneAlone(q), HeirsFit(q), Succeeded(q),
         Row(h, q.target, "owner") \in Rows(memberships) /\ ListedOwner(q, h) => role = "owner",
         role = "owner" => ListedOwner(q, h),
         role = "owner" /\ q.op = "leave" => Row(h, q.target, "owner") \in Rows(memberships),
         NEW p \in RequestRecords, p.op = q.op, p.target = q.target, p.listed = q.listed,
         p.held = q.held \cup {h},
         p.gone = Departing(q, h, role).gone, p.heirs = Departing(q, h, role).heirs
  PROVE  p.gone \subseteq p.held /\ GoneAlone(p) /\ HeirsFit(p) /\ Succeeded(p)
<1> DEFINE alone == LastOne(h)
           heir == Successor(h, q.target, role)
<1>1. /\ memberships \in Seq(Rowset) /\ KeyedRows(memberships) /\ h \in Households
      /\ Rows(memberships) \subseteq Rowset
  BY RowsTyped DEF TablesTyped
<1>2. /\ p.gone = IF alone THEN q.gone \cup {h} ELSE q.gone
      /\ p.heirs = IF ~alone /\ heir # None THEN q.heirs \cup {Row(h, heir, "owner")} ELSE q.heirs
  <2>1. DepartsAs(Departing(q, h, role), q, h, alone, heir)
    BY <1>1, DepartingIs
  <2> HIDE DEF alone, heir
  <2>2. QED
    BY <2>1 DEF DepartsAs
<1>3. alone => \A m, n \in Rows(memberships) : m.hh = h /\ n.hh = h => m = n
  BY <1>1, Alone DEF LastOne
<1>4. ~alone /\ IsMember(memberships, h, q.target) =>
        \E m \in Rows(memberships) : m.hh = h /\ m.user # q.target
  BY <1>1, Alone DEF LastOne
<1>5. heir # None => /\ role = "owner" /\ heir \in Users /\ heir # q.target
                     /\ IsMember(memberships, h, heir)
  BY <1>1, SuccessorIs
<1>6. role = "owner" /\ heir = None =>
        \A m \in Rows(memberships) : m.hh = h /\ m.user # q.target => m.role = "owner"
  BY <1>1, SuccessorIs
<1> HIDE DEF alone, heir
<1>7. h \notin q.gone /\ h \notin q.held
  OBVIOUS
<1>8. \A g : ListedOwner(p, g) <=> ListedOwner(q, g)
  BY DEF ListedOwner
<1>9. p.gone \subseteq p.held
  BY <1>2
<1>10. GoneAlone(p)
  BY <1>2, <1>3 DEF GoneAlone
<1>11. ASSUME NEW m \in p.heirs
       PROVE  /\ m.role = "owner" /\ m.hh \in p.held \ p.gone /\ m.user # p.target
              /\ IsMember(memberships, m.hh, m.user) /\ ListedOwner(p, m.hh)
              /\ p.op = "leave" /\ Exists(p.target) =>
                   Row(m.hh, p.target, "owner") \in Rows(memberships)
  <2>1. CASE m \in q.heirs
    <3>1. /\ m.role = "owner" /\ m.hh \in q.held \ q.gone /\ m.user # q.target
          /\ IsMember(memberships, m.hh, m.user) /\ ListedOwner(q, m.hh)
          /\ q.op = "leave" /\ Exists(q.target) =>
               Row(m.hh, q.target, "owner") \in Rows(memberships)
      BY <2>1 DEF HeirsFit
    <3>2. m.hh \in p.held \ p.gone
      BY <1>2, <1>7, <3>1
    <3>3. QED
      BY <1>8, <3>1, <3>2
  <2>2. CASE m \notin q.heirs
    <3>1. ~alone /\ heir # None /\ m = Row(h, heir, "owner")
      BY <1>2, <2>2
    <3>2. m.role = "owner" /\ m.hh = h /\ m.user = heir
      BY <3>1 DEF Row
    <3>3. h \in p.held \ p.gone
      BY <1>2, <1>7, <3>1
    <3>4. QED
      BY <1>5, <1>8, <3>1, <3>2, <3>3
  <2>3. QED
    BY <2>1, <2>2
<1>12. \A m, n \in p.heirs : m.hh = n.hh => m = n
  <2>1. \A m \in q.heirs : m.hh # h
    BY <1>7 DEF HeirsFit
  <2>2. Row(h, heir, "owner").hh = h
    BY DEF Row
  <2>3. QED
    BY <1>2, <2>1, <2>2 DEF HeirsFit
<1>13. HeirsFit(p)
  BY <1>11, <1>12 DEF HeirsFit
<1>14. Succeeded(p)
  <2> SUFFICES ASSUME "account" \notin raced, p.op \in {"leave", "delete"}, NEW g \in p.held \ p.gone,
                      Row(g, p.target, "owner") \in Rows(memberships), ListedOwner(p, g)
               PROVE  \/ \E m \in p.heirs : m.hh = g
                      \/ \E m \in OwnerRows(memberships, g) : m.user # p.target
    BY DEF Succeeded
  <2>1. CASE g # h
    <3>1. g \in q.held \ q.gone /\ ListedOwner(q, g)
      BY <1>2, <1>8, <2>1
    <3>2. \/ \E m \in q.heirs : m.hh = g
          \/ \E m \in OwnerRows(memberships, g) : m.user # q.target
      BY <3>1 DEF Succeeded
    <3>3. q.heirs \subseteq p.heirs
      BY <1>2
    <3>4. QED
      BY <3>2, <3>3
  <2>2. CASE g = h
    <3>1. ~alone /\ role = "owner"
      BY <1>2, <1>8, <2>2
    <3>2. CASE heir # None
      <4>1. Row(h, heir, "owner") \in p.heirs /\ Row(h, heir, "owner").hh = h
        BY <1>2, <3>1, <3>2 DEF Row
      <4>2. QED
        BY <2>2, <4>1
    <3>3. CASE heir = None
      <4>1. IsMember(memberships, h, q.target)
        BY <2>2 DEF IsMember, Row
      <4>2. PICK m \in Rows(memberships) : m.hh = h /\ m.user # q.target
        BY <1>4, <3>1, <4>1
      <4>3. m \in OwnerRows(memberships, h)
        BY <1>6, <3>1, <3>3, <4>2 DEF OwnerRows
      <4>4. QED
        BY <2>2, <4>2, <4>3
    <3>4. QED
      BY <3>2, <3>3
  <2>3. QED
    BY <2>1, <2>2
<1>15. QED
  BY <1>9, <1>10, <1>13, <1>14

LEMMA Locked ==
  ASSUME MemberInv, NEW r \in Slots, LockHousehold(r)
  PROVE  /\ MemberInv' /\ UNCHANGED db
         /\ \E p : request' = [request EXCEPT ![r] = p] /\ p.op # "merge"
<1> DEFINE q == request[r]
           role == RoleIn(memberships, q.hh, q.target)
           decided == IF q.op = "leave" THEN Departing(q, q.hh, role) ELSE q
           back == Fallback(q.hh, q.target)
           at0 == IF q.op = "leave" THEN q.pointer ELSE active[q.target].hh
           p == [decided EXCEPT !.phase = "locked", !.held = {q.hh}, !.pointer = at0,
                                !.fallback = back]
<1>1. /\ q \in RequestRecords /\ RequestFits(q) /\ TablesTyped
      /\ q.phase = "begun" /\ q.op \in Locking /\ q.hh \in households
      /\ \A s \in Slots : q.hh \notin request[s].held
      /\ IsMember(memberships, q.hh, q.target) /\ Permitted(q, role)
      /\ UNCHANGED <<db, raced>>
  <2>1. q.phase = "begun" /\ q.op \notin {"invite", "switch", "delete", "merge"}
    BY DEF LockHousehold
  <2>2. q # NoRequest
    BY <2>1 DEF NoRequest
  <2>3. q \in RequestRecords /\ RequestFits(q)
    BY <2>2 DEF MemberInv, RequestsFit
  <2>4. q.op \in Locking
    BY <2>1, <2>3, RequestFields
  <2>5. QED
    BY <2>1, <2>3, <2>4 DEF LockHousehold, MemberInv, Free
<1>2. request' = [request EXCEPT ![r] = [decided EXCEPT !.phase = "locked", !.held = {q.hh},
                     !.pointer = IF q.op = "leave" THEN @ ELSE active[q.target].hh,
                     !.fallback = back]]
  BY DEF LockHousehold
<1>3. /\ q.op \in Locking \ {"leave"} => decided = q
      /\ q.op = "leave" => decided = Departing(q, q.hh, role)
  BY DEF Locking
<1>4. /\ memberships \in Seq(Rowset) /\ KeyedRows(memberships) /\ q.hh \in Households
      /\ Rows(memberships) \subseteq Rowset /\ households \subseteq Households
  BY <1>1, RowsTyped DEF TablesTyped
<1>5. /\ decided \in RequestRecords
      /\ decided.phase = q.phase /\ decided.op = q.op /\ decided.by = q.by /\ decided.hh = q.hh
      /\ decided.target = q.target /\ decided.role = q.role /\ decided.listed = q.listed
      /\ q.op = "leave" => decided.gone = Departing(q, q.hh, role).gone
                           /\ decided.heirs = Departing(q, q.hh, role).heirs
      /\ decided.pointer = q.pointer
  <2>1. DepartsAs(Departing(q, q.hh, role), q, q.hh, LastOne(q.hh), Successor(q.hh, q.target, role))
    BY <1>1, <1>4, DepartingIs
  <2> HIDE DEF decided, q, role
  <2>2. QED
    BY <1>1, <1>3, <2>1 DEF DepartsAs
<1>6. active[q.target].hh \in Households \cup {None} /\ q.target \in Users
  BY <1>1, RequestFields DEF TablesTyped, NoAccount, Pointer
<1>7. back \in {None} \cup [hh : Households, role : Roles]
  BY <1>4, FallbackIs
<1>8. p \in RequestRecords
  <2>1. at0 \in Households \cup {None}
    BY <1>1, <1>6, RequestFields
  <2>2. {q.hh} \in SUBSET Households
    BY <1>4
  <2>3. decided \in RequestRecords
    BY <1>5
  <2> HIDE DEF decided, q, back, at0
  <2>4. QED
    BY <1>7, <2>1, <2>2, <2>3 DEF RequestRecords
<1>9. request' = [request EXCEPT ![r] = p]
  <2>1. (IF q.op = "leave" THEN decided.pointer ELSE active[q.target].hh) = at0
    BY <1>5
  <2>2. QED
    BY <1>2, <2>1
<1>10. Shaped(q) /\ q.held = {} /\ q.gone = {} /\ GoneAlone(q) /\ HeirsFit(q) /\ Succeeded(q)
  <2>1. Shaped(q) /\ GoneAlone(q) /\ HeirsFit(q) /\ Succeeded(q)
    BY <1>1, Idle DEF RequestFits
  <2>2. q.held = {} /\ q.gone \subseteq q.held
    BY <1>1, <2>1 DEF Shaped, Locking
  <2>3. QED
    BY <2>1, <2>2
<1>11. /\ p.phase = "locked" /\ p.op = q.op /\ p.by = q.by /\ p.hh = q.hh /\ p.target = q.target
       /\ p.role = q.role /\ p.listed = q.listed /\ p.held = {q.hh}
       /\ p.gone = decided.gone /\ p.heirs = decided.heirs
  <2>1. decided \in RequestRecords
    BY <1>5
  <2> HIDE DEF decided, q, back, at0
  <2>2. /\ p.phase = "locked" /\ p.op = decided.op /\ p.by = decided.by /\ p.hh = decided.hh
        /\ p.target = decided.target /\ p.role = decided.role /\ p.listed = decided.listed
        /\ p.held = {q.hh} /\ p.gone = decided.gone /\ p.heirs = decided.heirs
    BY <2>1 DEF RequestRecords
  <2> HIDE DEF p
  <2>3. QED
    BY <1>5, <2>2
<1>12. Row(q.hh, q.target, role) \in Rows(memberships)
  BY <1>1, <1>4, RoleInRow
<1> HIDE DEF p, decided, q, role
<1>13. p.gone \subseteq p.held /\ GoneAlone(p) /\ HeirsFit(p) /\ Succeeded(p)
  <2>1. CASE q.op = "leave"
    <3>1. ListedOwner(q, q.hh)
      BY <2>1 DEF ListedOwner
    <3>2. Row(q.hh, q.target, "owner") \in Rows(memberships) => role = "owner"
      <4>1. ASSUME Row(q.hh, q.target, "owner") \in Rows(memberships) PROVE role = "owner"
        <5>1. Row(q.hh, q.target, "owner") = Row(q.hh, q.target, role)
          BY <1>4, <1>12, <4>1, SameRow DEF Row
        <5>2. QED
          BY <5>1 DEF Row
      <4>2. QED
        BY <4>1
    <3>3. q.hh \in households \ q.held /\ p.held = q.held \cup {q.hh}
      BY <1>1, <1>10, <1>11
    <3>4. p.gone = Departing(q, q.hh, role).gone /\ p.heirs = Departing(q, q.hh, role).heirs
      BY <1>5, <1>11, <2>1
    <3>5. q.gone \subseteq q.held
      BY <1>10
    <3>6. QED
      BY <1>1, <1>8, <1>10, <1>11, <1>12, <3>1, <3>2, <3>3, <3>4, <3>5, DepartureFits
  <2>2. CASE q.op # "leave"
    <3>1. p.gone = {} /\ p.heirs = {} /\ p.op \notin {"leave", "delete"}
      BY <1>1, <1>3, <1>10, <1>11, <2>2 DEF Shaped, Locking
    <3>2. QED
      BY <3>1 DEF GoneAlone, HeirsFit, Succeeded
  <2>3. QED
    BY <2>1, <2>2
<1>14. Shaped(p)
  <2>1. IsFiniteSet({q.hh})
    BY FS_Singleton
  <2>2. q.op # "leave" => p.gone = {} /\ p.heirs = {}
    BY <1>1, <1>3, <1>10, <1>11 DEF Shaped, Locking
  <2>3. p.op \in Locking /\ p.op \notin {"switch", "delete", "merge"} /\ p.held \subseteq households
    BY <1>1, <1>11 DEF Locking
  <2>4. QED
    BY <1>10, <1>11, <1>13, <2>1, <2>2, <2>3 DEF Shaped
<1>15. ListLocked(p)
  BY <1>1, <1>11 DEF ListLocked, Locking
<1>16. TargetStays(p)
  <2>1. Permitted(p, role)
    BY <1>1, <1>11 DEF Permitted
  <2>2. Row(q.hh, q.target, role).hh = p.hh /\ Row(q.hh, q.target, role).user = p.target
        /\ Row(q.hh, q.target, role).role = role
    BY <1>11 DEF Row
  <2>3. QED
    BY <1>12, <2>1, <2>2 DEF TargetStays
<1>17. RequestFits(p)
  BY <1>13, <1>14, <1>15, <1>16 DEF RequestFits
<1>18. \A s \in Slots \ {r} : p.held \cap request[s].held = {}
  BY <1>1, <1>11
<1>19. MemberInv'
  BY <1>1, <1>8, <1>9, <1>17, <1>18, Reading
<1>20. p.op # "merge"
  BY <1>1, <1>11 DEF Locking
<1>21. QED
  BY <1>1, <1>9, <1>19, <1>20

LEMMA Classified ==
  ASSUME MemberInv, NEW r \in Slots, ClassifyMembership(r)
  PROVE  /\ MemberInv' /\ UNCHANGED db
         /\ \E p : request' = [request EXCEPT ![r] = p] /\ p.op # "merge"
<1> DEFINE q == request[r]
           n == Cardinality(q.held) + 1
           m == q.listed[n]
           d == Departing(q, m.hh, m.role)
           p == [d EXCEPT !.held = @ \cup {m.hh}]
<1>1. /\ q \in RequestRecords /\ RequestFits(q) /\ TablesTyped
      /\ q.phase = "begun" /\ q.op = "delete" /\ Cardinality(q.held) < Len(q.listed)
      /\ m.hh \in households /\ \A s \in Slots : m.hh \notin request[s].held
      /\ UNCHANGED <<db, raced>> /\ request' = [request EXCEPT ![r] = p]
  <2>1. q.phase = "begun"
    BY DEF ClassifyMembership
  <2>2. q # NoRequest
    BY <2>1 DEF NoRequest
  <2>3. q \in RequestRecords /\ RequestFits(q)
    BY <2>2 DEF MemberInv, RequestsFit
  <2>4. QED
    BY <2>1, <2>3 DEF ClassifyMembership, MemberInv, Free
<1>2. Shaped(q) /\ ListLocked(q) /\ GoneAlone(q) /\ HeirsFit(q) /\ Succeeded(q)
  BY <1>1, Idle DEF RequestFits
<1>3. /\ IsFiniteSet(q.held) /\ Cardinality(q.held) \in Nat /\ q.held \subseteq households
      /\ q.gone \subseteq q.held /\ q.by = q.target /\ q.listed \in Seq(Rowset)
      /\ Len(q.listed) \in Nat
  BY <1>1, <1>2, RequestFields, FS_CardinalityType DEF Shaped
<1>4. n \in 1..Len(q.listed) /\ n \in Nat
  BY <1>1, <1>3
<1> HIDE DEF n
<1>5. m \in Rowset /\ m \in Rows(q.listed)
  BY <1>3, <1>4 DEF Rows
<1>6. KeyedRows(q.listed) /\ \A x \in Rows(q.listed) : x.user = q.target
  BY <1>1, <1>2 DEF ListLocked
<1>7. m.user = q.target /\ m = Row(m.hh, q.target, m.role)
  BY <1>5, <1>6, RowFields
<1>8. memberships \in Seq(Rowset) /\ households \subseteq Households
  BY <1>1 DEF TablesTyped
<1>9. DepartsAs(d, q, m.hh, LastOne(m.hh), Successor(m.hh, q.target, m.role))
  BY <1>1, <1>8, DepartingIs
<1>10. /\ p \in RequestRecords
       /\ p.phase = d.phase /\ p.op = d.op /\ p.by = d.by /\ p.hh = d.hh
       /\ p.target = d.target /\ p.role = d.role /\ p.listed = d.listed
       /\ p.held = d.held \cup {m.hh} /\ p.gone = d.gone /\ p.heirs = d.heirs
  <2>1. d \in RequestRecords
    BY <1>9 DEF DepartsAs
  <2> DEFINE more == d.held \cup {m.hh}
  <2>2. more \in SUBSET Households
    BY <1>1, <1>8, <2>1, RequestFields
  <2>3. p = [d EXCEPT !.held = more]
    OBVIOUS
  <2> HIDE DEF d, m, more, p
  <2>4. /\ p \in RequestRecords
        /\ p.phase = d.phase /\ p.op = d.op /\ p.by = d.by /\ p.hh = d.hh
        /\ p.target = d.target /\ p.role = d.role /\ p.listed = d.listed
        /\ p.held = more /\ p.gone = d.gone /\ p.heirs = d.heirs
    BY <2>1, <2>2, <2>3 DEF RequestRecords
  <2>5. QED
    BY <2>4 DEF more
<1> HIDE DEF p
<1>11. /\ p.phase = "begun" /\ p.op = "delete" /\ p.by = q.by /\ p.target = q.target
       /\ p.listed = q.listed /\ p.held = q.held \cup {m.hh}
       /\ p.gone = d.gone /\ p.heirs = d.heirs
  <2> HIDE DEF d, m, q
  <2>1. QED
    BY <1>1, <1>9, <1>10 DEF DepartsAs
<1>12. p.gone \subseteq p.held /\ GoneAlone(p) /\ HeirsFit(p) /\ Succeeded(p)
  <2> DEFINE h == m.hh
             role == m.role
  <2>1. h \in households \ q.held
    BY <1>1
  <2>2. Row(h, q.target, role) \in Rows(q.listed)
    BY <1>5, <1>7
  <2>3. ListedOwner(q, h) => role = "owner"
    <3>1. ASSUME ListedOwner(q, h) PROVE role = "owner"
      <4>1. Row(h, q.target, "owner") \in Rows(q.listed)
        BY <1>1, <3>1 DEF ListedOwner
      <4>2. Row(h, q.target, "owner") = Row(h, q.target, role)
        BY <1>6, <2>2, <4>1, SameRow DEF Row
      <4>3. QED
        BY <4>2 DEF Row
    <3>2. QED
      BY <3>1
  <2>4. role = "owner" => ListedOwner(q, h)
    BY <2>2 DEF ListedOwner
  <2>5. q.op # "leave" /\ p.op = q.op /\ p.held = q.held \cup {h}
        /\ p.gone = Departing(q, h, role).gone /\ p.heirs = Departing(q, h, role).heirs
    BY <1>1, <1>11
  <2> HIDE DEF h, role, q
  <2>6. QED
    BY <1>1, <1>2, <1>3, <1>10, <1>11, <2>1, <2>3, <2>4, <2>5, DepartureFits
<1> HIDE DEF d
<1>13. /\ IsFiniteSet(p.held) /\ Cardinality(p.held) = n /\ p.held \subseteq households
  <2>1. m.hh \notin q.held
    BY <1>1
  <2> HIDE DEF q, m
  <2>2. QED
    BY <1>1, <1>3, <1>11, <2>1, FS_AddElement DEF n
<1>14. Shaped(p)
  BY <1>3, <1>11, <1>12, <1>13 DEF Shaped
<1>15. ListLocked(p)
  <2>1. q.held = {q.listed[i].hh : i \in 1..Cardinality(q.held)}
    BY <1>1, <1>2 DEF ListLocked
  <2>2. \A i : i \in 1..n <=> i \in 1..Cardinality(q.held) \/ i = n
    BY <1>3 DEF n
  <2>3. q.held \cup {m.hh} = {q.listed[i].hh : i \in 1..n}
    BY <2>1, <2>2
  <2>4. n <= Len(q.listed)
    BY <1>3, <1>4
  <2> HIDE DEF q, m
  <2>5. QED
    BY <1>6, <1>11, <1>13, <2>3, <2>4 DEF ListLocked
<1>16. TargetStays(p)
  BY <1>11 DEF TargetStays
<1>17. RequestFits(p)
  BY <1>12, <1>14, <1>15, <1>16 DEF RequestFits
<1>18. \A s \in Slots \ {r} : p.held \cap request[s].held = {}
  BY <1>1, <1>11 DEF MemberInv, RequestsFit
<1>19. MemberInv'
  BY <1>1, <1>10, <1>17, <1>18, Reading
<1>20. QED
  BY <1>1, <1>11, <1>19
-----------------------------------------------------------------------------
(* Commits                                                                 *)

\* The rows of all households but some stay as they are.
Untouched(some) ==
  /\ \A m \in Rows(memberships') : m.hh \in households \ some => m \in Rows(memberships)
  /\ \A m \in Rows(memberships) : m.hh \notin some => m \in Rows(memberships')

LEMMA ElsewhereSteady ==
  ASSUME TablesTyped, NEW q \in RequestRecords, Shaped(q), NEW some, Untouched(some),
         q.held \cap some = {}, households \ some \subseteq households', raced \subseteq raced',
         \A u \in Users : Surviving(u) => Exists(u)
  PROVE  Steady(q)
BY DEF Shaped, Steady, Untouched

LEMMA ElsewhereSecure ==
  ASSUME TablesTyped, Secure, raced \subseteq raced', NEW some,
         "account" \notin raced' => Untouched(some), households' \subseteq households \cup some,
         "account" \notin raced' => \A h \in households' \cap some : Owned(h)',
         raced' \cap {"role", "account"} = {} => \A h \in households' \cap some : OnceOwned(h)',
         ActiveIsMember'
  PROVE  Secure'
<1>1. ASSUME NEW h \in households' \ some, "account" \notin raced'
      PROVE  OwnerRows(memberships', h) = OwnerRows(memberships, h) /\ h \in households
  BY <1>1 DEF OwnerRows, Untouched
<1>2. "account" \notin raced' => \A h \in households' : Owned(h)'
  <2> SUFFICES ASSUME "account" \notin raced', NEW h \in households' \ some PROVE Owned(h)'
    OBVIOUS
  <2>1. Owned(h)
    BY <1>1 DEF Secure
  <2>2. QED
    BY <1>1, <2>1 DEF Owned
<1>3. raced' \cap {"role", "account"} = {} => \A h \in households' : OnceOwned(h)'
  <2> SUFFICES ASSUME raced' \cap {"role", "account"} = {}, NEW h \in households' \ some
               PROVE OnceOwned(h)'
    OBVIOUS
  <2>1. "account" \notin raced' /\ raced \cap {"role", "account"} = {}
    OBVIOUS
  <2>2. OnceOwned(h)
    BY <1>1, <2>1 DEF Secure
  <2>3. QED
    BY <1>1, <2>1, <2>2 DEF OnceOwned
<1>4. QED
  BY <1>2, <1>3 DEF Secure

\* What a commit ends, and what it admits to have trusted.
LEMMA Finishing ==
  ASSUME MemberInv, NEW r \in Slots, NEW q, q = request[r], Finish(r)
  PROVE  /\ request' = [request EXCEPT ![r] = NoRequest] /\ raced \subseteq raced'
         /\ "pointer" \notin raced' => "pointer" \notin raced /\ ~StalePointer(q)
         /\ "role" \notin raced' => ~StaleRole(q)
         /\ "account" \notin raced' => ~StaleList(q)
         /\ "merge" \notin raced' => ~StaleSource(q)
BY DEF Finish

LEMMA Committing ==
  ASSUME MemberInv, NEW r \in Slots, Finish(r), TablesTyped', Secure',
         \A s \in Slots \ {r} : request[s] \in RequestRecords => Steady(request[s])
  PROVE  MemberInv'
<1>1. /\ request \in [Slots -> RequestRecords \cup {NoRequest}] /\ RequestsFit /\ TablesTyped
      /\ request' = [request EXCEPT ![r] = NoRequest]
  BY DEF MemberInv, RequestsFit, Finish
<1>2. /\ request'[r] = NoRequest /\ \A s \in Slots \ {r} : request'[s] = request[s]
      /\ request' \in [Slots -> RequestRecords \cup {NoRequest}]
  BY <1>1
<1>3. RequestFits(request[r])'
  BY <1>2 DEF RequestFits, NoRequest
<1>4. \A s \in Slots \ {r} : request'[r].held \cap request[s].held = {}
  BY <1>2, Idle
<1>5. QED
  BY <1>1, <1>2, <1>3, <1>4, OthersFit DEF MemberInv

\* A commit that touches no other households than those locked, or new ones.
LEMMA CommittingHere ==
  ASSUME MemberInv, NEW r \in Slots, Finish(r), TablesTyped', Secure', NEW some, Untouched(some),
         some \cap households \subseteq request[r].held, households \ some \subseteq households',
         \A u \in Users : Surviving(u) => Exists(u)
  PROVE  MemberInv'
<1>1. ASSUME NEW s \in Slots \ {r}, request[s] \in RequestRecords PROVE Steady(request[s])
  <2>1. Shaped(request[s])
    BY <1>1, Idle DEF MemberInv, RequestsFit, RequestFits
  <2>2. request[s].held \cap some = {}
    BY <2>1 DEF MemberInv, RequestsFit, Shaped
  <2>3. raced \subseteq raced' /\ TablesTyped
    BY DEF Finish, MemberInv
  <2>4. ASSUME NEW q, q = request[s] PROVE Steady(q)
    BY <1>1, <2>1, <2>2, <2>3, <2>4, ElsewhereSteady
  <2>5. QED
    BY <2>4
<1>2. QED
  BY <1>1, Committing

\* What is known of a request that commits.
LEMMA Committed ==
  ASSUME MemberInv, NEW r \in Slots, NEW q, q = request[r], q.phase # "none"
  PROVE  /\ q \in RequestRecords /\ q # NoRequest /\ Shaped(q) /\ ListLocked(q) /\ TargetStays(q)
         /\ GoneAlone(q) /\ HeirsFit(q) /\ Succeeded(q)
<1>1. q # NoRequest
  BY DEF NoRequest
<1>2. QED
  BY <1>1 DEF MemberInv, RequestsFit, RequestFits

LEMMA TablesAre ==
  ASSUME MemberInv
  PROVE  /\ TablesTyped /\ Secure /\ households \subseteq Households
         /\ memberships \in Seq(Rowset) /\ KeyedRows(memberships)
         /\ Rows(memberships) \subseteq Rowset
         /\ \A m \in Rows(memberships) : m.hh \in households /\ Exists(m.user)
         /\ active \in [Users -> [hh : households, role : Roles] \cup {NoAccount}]
         /\ \A u \in Users : active[u].hh \in households <=> Exists(u)
         /\ \A u \in Users : Exists(u) => active[u] \in [hh : households, role : Roles]
         /\ NoAccount.hh = None /\ None \notin households
         /\ \A i \in invites : /\ i \in [from : Users, to : Users, hh : households]
                                /\ i.to \in Users /\ i.hh \in households /\ Exists(i.to)
<1>1. NoAccount.hh = None
  BY DEF NoAccount, Pointer
<1>2. None \notin Households
  BY ParamsAssumption
<1>3. /\ TablesTyped /\ Secure /\ Rows(memberships) \subseteq Rowset
  BY RowsTyped DEF MemberInv, TablesTyped
<1>4. \A u \in Users : active[u] \in [hh : households, role : Roles] \/ active[u] = NoAccount
  BY <1>3 DEF TablesTyped
<1>5. QED
  BY <1>1, <1>2, <1>3, <1>4 DEF TablesTyped, Exists

LEMMA InviteCommits ==
  ASSUME MemberInv, NEW r \in Slots, NEW q, q = request[r], q.phase # "none", Exists(q.target),
         CommitInvite(q), Finish(r)
  PROVE  MemberInv'
<1>1. q \in RequestRecords
  BY Committed
<1>2. /\ UNCHANGED <<households, memberships, active>> /\ q.hh \in households
      /\ invites' = invites \cup {Invite(q.by, q.target, q.hh)}
  BY DEF CommitInvite
<1>3. TablesTyped'
  <2>1. /\ Invite(q.by, q.target, q.hh) \in [from : Users, to : Users, hh : households]
        /\ Invite(q.by, q.target, q.hh).to = q.target
    BY <1>1, <1>2, RequestFields DEF Invite
  <2>2. QED
    BY <1>2, <2>1 DEF MemberInv, TablesTyped, Exists
<1>4. raced \subseteq raced'
  BY Finishing
<1>5. Secure'
  BY <1>2, <1>4 DEF MemberInv, Secure, Owned, OnceOwned, ActiveIsMember, Exists
<1>6. Untouched({}) /\ \A u \in Users : Surviving(u) => Exists(u)
  BY <1>2 DEF Untouched, Surviving, Exists
<1>7. QED
  BY <1>2, <1>3, <1>5, <1>6, CommittingHere

LEMMA SwitchCommits ==
  ASSUME MemberInv, NEW r \in Slots, NEW q, q = request[r], q.phase # "none", Exists(q.target),
         CommitSwitch(q), Finish(r)
  PROVE  MemberInv'
<1>1. q \in RequestRecords /\ q.op = "switch" /\ q.role \in Roles /\ q.target \in Users
  BY Committed, RequestFields DEF CommitSwitch, Shaped
<1>2. /\ UNCHANGED <<households, memberships, invites>> /\ q.hh \in households
      /\ active' = [active EXCEPT ![q.target] = Pointer(q.hh, q.role)]
  BY DEF CommitSwitch
<1>3. /\ Pointer(q.hh, q.role) \in [hh : households, role : Roles]
      /\ Pointer(q.hh, q.role) # NoAccount
  BY <1>1, <1>2, TablesAre DEF Pointer, NoAccount
<1>4. active \in [Users -> [hh : households, role : Roles] \cup {NoAccount}]
  BY TablesAre
<1>5. /\ active'[q.target] = Pointer(q.hh, q.role)
      /\ \A u \in Users \ {q.target} : active'[u] = active[u]
      /\ active' \in [Users -> [hh : households, role : Roles] \cup {NoAccount}]
  BY <1>1, <1>2, <1>3, <1>4
<1>6. \A u \in Users : Exists(u) <=> Surviving(u)
  BY <1>3, <1>5 DEF Surviving, Exists
<1>7. TablesTyped'
  BY <1>2, <1>5, <1>6 DEF MemberInv, TablesTyped, Surviving, Exists, Rowset
<1>8. /\ raced \subseteq raced'
      /\ "pointer" \notin raced' => "pointer" \notin raced /\ ~StalePointer(q)
  BY Finishing
<1>9. ActiveIsMember'
  <2> SUFFICES ASSUME "pointer" \notin raced', NEW u \in Users, Surviving(u)
               PROVE  Row(active'[u].hh, u, active'[u].role) \in Rows(memberships')
    BY DEF ActiveIsMember, Exists, Surviving
  <2>1. CASE u = q.target
    <3>1. IsMember(memberships, q.hh, q.target) /\ RoleIn(memberships, q.hh, q.target) = q.role
      BY <1>1, <1>8 DEF StalePointer
    <3>2. Row(q.hh, q.target, q.role) \in Rows(memberships)
      BY <3>1, TablesAre, RoleInRow
    <3>3. active'[u].hh = q.hh /\ active'[u].role = q.role
      BY <1>5, <2>1 DEF Pointer
    <3>4. QED
      BY <1>2, <2>1, <3>2, <3>3
  <2>2. CASE u # q.target
    <3>1. ActiveIsMember /\ Exists(u)
      BY <1>6 DEF MemberInv, Secure
    <3>2. QED
      BY <1>2, <1>5, <1>8, <2>2, <3>1 DEF ActiveIsMember
  <2>3. QED
    BY <2>1, <2>2
<1>10. Untouched({})
  BY <1>2 DEF Untouched
<1>11. Secure'
  BY <1>2, <1>8, <1>9, <1>10, ElsewhereSecure DEF MemberInv
<1>12. QED
  BY <1>2, <1>6, <1>7, <1>10, <1>11, CommittingHere

Pointers == [hh : households, role : Roles]

\* A pointer takes over the role, if it was found on the household.
LEMMA MirroredIs ==
  ASSUME NEW act \in [Users -> Pointers \cup {NoAccount}], NEW q, q.target \in Users,
         act[q.target] \in Pointers, NEW role \in Roles
  PROVE  /\ Mirrored(act, q, role) \in [Users -> Pointers \cup {NoAccount}]
         /\ \A u \in Users \ {q.target} : Mirrored(act, q, role)[u] = act[u]
         /\ Mirrored(act, q, role)[q.target] \in Pointers
         /\ Mirrored(act, q, role)[q.target].hh = act[q.target].hh
         /\ Mirrored(act, q, role)[q.target].role =
              IF q.pointer = q.hh THEN role ELSE act[q.target].role
<1> DEFINE t == q.target
           it == [hh |-> act[t].hh, role |-> role]
<1>1. it \in Pointers /\ it.hh = act[t].hh /\ it.role = role
  BY DEF Pointers
<1>2. CASE q.pointer = q.hh
  <2>1. [act[t] EXCEPT !.role = role] = it
    BY DEF Pointers
  <2>2. Mirrored(act, q, role) = [act EXCEPT ![t] = [act[t] EXCEPT !.role = role]]
    BY <1>2 DEF Mirrored
  <2>3. Mirrored(act, q, role) = [act EXCEPT ![t] = it]
    BY <2>1, <2>2
  <2> HIDE DEF it, t
  <2>4. /\ [act EXCEPT ![t] = it] \in [Users -> Pointers \cup {NoAccount}]
        /\ \A u \in Users \ {t} : [act EXCEPT ![t] = it][u] = act[u]
        /\ [act EXCEPT ![t] = it][t] = it
    BY <1>1 DEF t
  <2>5. QED
    BY <1>1, <1>2, <2>3, <2>4 DEF t
<1>3. CASE q.pointer # q.hh
  BY <1>3 DEF Mirrored
<1>4. QED
  BY <1>2, <1>3

LEMMA CommittedLocked ==
  ASSUME MemberInv, NEW r \in Slots, NEW q, q = request[r], q.phase = "locked", Exists(q.target)
  PROVE  /\ q \in RequestRecords /\ q.op \in Locking /\ q.held = {q.hh} /\ q.hh \in households
         /\ q.hh \in Households /\ q.target \in Users /\ q.by \in Users
         /\ q.op # "leave" => q.by # q.target /\ q.gone = {} /\ q.heirs = {}
         /\ \E m \in Rows(memberships) : m.hh = q.hh /\ m.user = q.target /\ Permitted(q, m.role)
         /\ IsMember(memberships, q.hh, q.target)
         /\ active[q.target] \in Pointers
         /\ \A m \in q.heirs : m.hh = q.hh /\ m.role = "owner" /\ m.user # q.target
<1>1. /\ q \in RequestRecords /\ Shaped(q) /\ TargetStays(q) /\ HeirsFit(q)
  BY Committed
<1>2. q.op \in Locking /\ q.held = {q.hh} /\ q.hh \in households
  BY <1>1 DEF Shaped, Locking
<1>3. \E m \in Rows(memberships) : m.hh = q.hh /\ m.user = q.target /\ Permitted(q, m.role)
  BY <1>1 DEF TargetStays
<1>4. \A m \in q.heirs : m.hh = q.hh /\ m.role = "owner" /\ m.user # q.target
  BY <1>1, <1>2 DEF HeirsFit
<1>5. q.op # "leave" => q.by # q.target /\ q.gone = {} /\ q.heirs = {}
  BY <1>1, <1>2 DEF Shaped, Locking
<1>6. QED
  BY <1>1, <1>2, <1>3, <1>4, <1>5, RequestFields, TablesAre DEF IsMember, Pointers

LEMMA SetRoleCommits ==
  ASSUME MemberInv, NEW r \in Slots, NEW q, q = request[r], q.phase = "locked", Exists(q.target),
         CommitSetRole(q), Finish(r)
  PROVE  MemberInv'
<1> DEFINE h == q.hh
           t == q.target
           it == Row(h, t, q.role)
<1>1. /\ q \in RequestRecords /\ q.held = {h} /\ h \in households /\ h \in Households /\ t \in Users
      /\ active[t] \in Pointers /\ q.op = "set_role"
  BY CommittedLocked DEF CommitSetRole
<1>2. q.role \in {"admin", "member"} /\ q.role \in Roles
  BY <1>1, Committed, OwnerIsRole DEF Shaped
<1>3. PICK m \in Rows(memberships) : m.hh = h /\ m.user = t /\ m.role # "owner"
  BY <1>1, CommittedLocked DEF Permitted
<1>4. /\ UNCHANGED <<households, invites>>
      /\ memberships' = JoinHousehold(memberships, h, t, q.role)
      /\ active' = Mirrored(active, q, q.role)
  BY DEF CommitSetRole
<1>5. /\ memberships' \in Seq(Rowset) /\ KeyedRows(memberships')
      /\ Rows(memberships') = {x \in Rows(memberships) : x.hh # h \/ x.user # t} \cup {it}
  <2>1. memberships \in Seq(Rowset) /\ KeyedRows(memberships)
    BY TablesAre
  <2> HIDE DEF h, t
  <2>2. QED
    BY <1>1, <1>2, <1>4, <2>1, JoinRows
<1>6. it.hh = h /\ it.user = t /\ it.role = q.role
  BY DEF Row
<1>7. /\ active' \in [Users -> Pointers \cup {NoAccount}]
      /\ \A u \in Users \ {t} : active'[u] = active[u]
      /\ active'[t] \in Pointers /\ active'[t].hh = active[t].hh
      /\ active'[t].role = IF q.pointer = h THEN q.role ELSE active[t].role
  BY <1>1, <1>2, <1>4, TablesAre, MirroredIs DEF Pointers
<1>8. \A u \in Users : Exists(u) <=> Surviving(u)
  BY <1>1, <1>7, TablesAre DEF Surviving, Exists, Pointers
<1>9. /\ raced \subseteq raced'
      /\ "pointer" \notin raced' => "pointer" \notin raced /\ ~StalePointer(q)
  BY Finishing
<1> HIDE DEF it, h, t
<1>10. \A x \in Rows(memberships') : x.hh \in households /\ x.user \in Users /\ Surviving(x.user)
  BY <1>1, <1>5, <1>6, <1>8, TablesAre, RowFields DEF h, t
<1>11. TablesTyped'
  BY <1>4, <1>5, <1>7, <1>8, <1>10, TablesAre DEF TablesTyped, Surviving, Exists, Pointers
<1>12. Untouched({h})
  BY <1>5, <1>6 DEF Untouched
<1>13. Owned(h) => Owned(h)'
  <2> SUFFICES ASSUME NEW o \in OwnerRows(memberships, h) PROVE o \in OwnerRows(memberships', h)
    BY DEF Owned
  <2>1. o \in Rows(memberships) /\ o.hh = h /\ o.role = "owner"
    BY DEF OwnerRows
  <2>2. o.user # t
    BY <1>3, <2>1, TablesAre, SameRow
  <2>3. QED
    BY <1>5, <2>1, <2>2 DEF OwnerRows
<1>14. OnceOwned(h) => OnceOwned(h)'
  <2>1. OwnerRows(memberships', h) \subseteq OwnerRows(memberships, h)
    BY <1>2, <1>5, <1>6 DEF OwnerRows
  <2>2. QED
    BY <2>1 DEF OnceOwned
<1>15. ActiveIsMember'
  <2> SUFFICES ASSUME "pointer" \notin raced', NEW u \in Users, Surviving(u)
               PROVE  Row(active'[u].hh, u, active'[u].role) \in Rows(memberships')
    BY DEF ActiveIsMember, Exists, Surviving
  <2>1. /\ Row(active[u].hh, u, active[u].role) \in Rows(memberships)
        /\ q.pointer = active[t].hh
    <3>1. ActiveIsMember /\ Exists(u)
      BY <1>8 DEF MemberInv, Secure
    <3>2. QED
      BY <1>1, <1>9, <3>1 DEF ActiveIsMember, StalePointer, t
  <2>2. CASE u = t /\ active[t].hh = h
    BY <1>5, <1>7, <2>1, <2>2 DEF it
  <2>3. CASE u # t \/ active[t].hh # h
    <3>1. active'[u].hh = active[u].hh /\ active'[u].role = active[u].role
      BY <1>7, <2>1, <2>3
    <3>2. active[u].hh # h \/ u # t
      BY <2>3
    <3>3. QED
      BY <1>5, <2>1, <3>1, <3>2 DEF Row
  <2>4. QED
    BY <2>2, <2>3
<1>16. Secure'
  <2>1. /\ "account" \notin raced' => Owned(h)
        /\ raced' \cap {"role", "account"} = {} => OnceOwned(h)
    BY <1>1, <1>9 DEF MemberInv, Secure
  <2>2. /\ "account" \notin raced' => \A g \in households' \cap {h} : Owned(g)'
        /\ raced' \cap {"role", "account"} = {} => \A g \in households' \cap {h} : OnceOwned(g)'
    BY <1>13, <1>14, <2>1
  <2>3. households' \subseteq households \cup {h}
    BY <1>4
  <2>4. QED
    BY <1>9, <1>12, <1>15, <2>2, <2>3, ElsewhereSecure DEF MemberInv
<1>17. {h} \cap households \subseteq request[r].held
  BY <1>1
<1>18. QED
  BY <1>4, <1>8, <1>11, <1>12, <1>16, <1>17, CommittingHere

LEMMA DemotedIs ==
  ASSUME NEW act \in [Users -> Pointers \cup {NoAccount}], NEW v \in Users, act[v] \in Pointers,
         NEW down, down = [act EXCEPT ![v].role = "member"]
  PROVE  /\ down \in [Users -> Pointers \cup {NoAccount}]
         /\ \A u \in Users \ {v} : down[u] = act[u]
         /\ down[v] \in Pointers /\ down[v].hh = act[v].hh /\ down[v].role = "member"
<1> DEFINE it == [hh |-> act[v].hh, role |-> "member"]
<1>1. it \in Pointers /\ it.hh = act[v].hh /\ it.role = "member"
  BY OwnerIsRole DEF Pointers
<1>2. [act[v] EXCEPT !.role = "member"] = it
  BY DEF Pointers
<1>3. down = [act EXCEPT ![v] = [act[v] EXCEPT !.role = "member"]]
  OBVIOUS
<1>4. down = [act EXCEPT ![v] = it]
  BY <1>2, <1>3
<1> HIDE DEF it
<1>5. /\ [act EXCEPT ![v] = it] \in [Users -> Pointers \cup {NoAccount}]
      /\ \A u \in Users \ {v} : [act EXCEPT ![v] = it][u] = act[u]
      /\ [act EXCEPT ![v] = it][v] = it
  BY <1>1
<1>6. QED
  BY <1>1, <1>4, <1>5

LEMMA TransferCommits ==
  ASSUME MemberInv, NEW r \in Slots, NEW q, q = request[r], q.phase = "locked", Exists(q.target),
         CommitTransfer(q), Finish(r)
  PROVE  MemberInv'
<1> DEFINE h == q.hh
           t == q.target
           v == q.by
           mine == Row(h, t, "owner")
           yours == Row(h, v, "member")
           given == JoinHousehold(memberships, h, t, "owner")
           down == [active EXCEPT ![v].role = "member"]
<1>1. /\ q \in RequestRecords /\ q.held = {h} /\ h \in households /\ h \in Households
      /\ t \in Users /\ v \in Users /\ v # t /\ active[t] \in Pointers /\ q.op = "transfer"
  BY CommittedLocked DEF CommitTransfer
<1>2. active[v] \in Pointers /\ active[v].hh = h /\ Exists(v)
  BY <1>1, TablesAre DEF CommitTransfer, Pointers
<1>3. /\ UNCHANGED <<households, invites>>
      /\ memberships' = JoinHousehold(given, h, v, "member")
      /\ active' = Mirrored(down, q, "owner")
  BY DEF CommitTransfer
<1>4. mine.hh = h /\ mine.user = t /\ mine.role = "owner"
      /\ yours.hh = h /\ yours.user = v /\ yours.role = "member"
  BY DEF Row
<1>5. /\ down \in [Users -> Pointers \cup {NoAccount}]
      /\ \A u \in Users \ {v} : down[u] = active[u]
      /\ down[v] \in Pointers /\ down[v].hh = active[v].hh /\ down[v].role = "member"
  <2>1. active \in [Users -> Pointers \cup {NoAccount}]
    BY TablesAre DEF Pointers
  <2>2. \A d : d = down => /\ d \in [Users -> Pointers \cup {NoAccount}]
                           /\ \A u \in Users \ {v} : d[u] = active[u]
                           /\ d[v] \in Pointers /\ d[v].hh = active[v].hh /\ d[v].role = "member"
    BY <1>1, <1>2, <2>1, DemotedIs
  <2> HIDE DEF down
  <2>3. QED
    BY <2>2
<1> HIDE DEF mine, yours, h, t, v, given, down
<1>6. /\ given \in Seq(Rowset) /\ KeyedRows(given)
      /\ Rows(given) = {x \in Rows(memberships) : x.hh # h \/ x.user # t} \cup {mine}
  <2>1. memberships \in Seq(Rowset) /\ KeyedRows(memberships)
    BY TablesAre
  <2>2. QED
    BY <1>1, <2>1, OwnerIsRole, JoinRows DEF given, mine
<1>7. /\ memberships' \in Seq(Rowset) /\ KeyedRows(memberships')
      /\ Rows(memberships') = {x \in Rows(given) : x.hh # h \/ x.user # v} \cup {yours}
  <2> DEFINE after == JoinHousehold(given, h, v, "member")
  <2>1. /\ after \in Seq(Rowset) /\ KeyedRows(after)
        /\ Rows(after) = {x \in Rows(given) : x.hh # h \/ x.user # v} \cup {Row(h, v, "member")}
    <3>1. "member" \in Roles
      BY OwnerIsRole
    <3>2. given \in Seq(Rowset) /\ KeyedRows(given) /\ h \in Households /\ v \in Users
      BY <1>1, <1>6
    <3>3. QED
      BY <3>1, <3>2, JoinRows
  <2> HIDE DEF after
  <2>2. memberships' = after
    BY <1>3 DEF after
  <2>3. QED
    BY <2>1, <2>2 DEF yours
<1>8. \A x : x \in Rows(memberships') <=>
               \/ x = mine \/ x = yours
               \/ x \in Rows(memberships) /\ (x.hh # h \/ (x.user # t /\ x.user # v))
  BY <1>1, <1>4, <1>6, <1>7
<1>9. /\ active' \in [Users -> Pointers \cup {NoAccount}]
      /\ \A u \in Users \ {t} : active'[u] = down[u]
      /\ active'[t] \in Pointers /\ active'[t].hh = active[t].hh
      /\ active'[t].role = IF q.pointer = h THEN "owner" ELSE active[t].role
  <2>1. q.target \in Users /\ q.target # v /\ q.target = t /\ h = q.hh
    BY <1>1 DEF t, h
  <2>2. down[t] = active[t] /\ down[q.target] \in Pointers
    BY <1>1, <1>5, <2>1
  <2>3. QED
    BY <1>3, <1>5, <2>1, <2>2, OwnerIsRole, MirroredIs
<1>10. \A u \in Users : Exists(u) <=> Surviving(u)
  <2>1. NoAccount \notin Pointers
    BY TablesAre DEF Pointers
  <2>2. QED
    BY <1>1, <1>2, <1>5, <1>9, <2>1 DEF Surviving, Exists
<1>11. /\ raced \subseteq raced'
       /\ "pointer" \notin raced' => "pointer" \notin raced /\ ~StalePointer(q)
       /\ "role" \notin raced' => ~StaleRole(q)
  BY Finishing
<1>12. \A x \in Rows(memberships') : x.hh \in households /\ x.user \in Users /\ Surviving(x.user)
  <2>1. Surviving(t) /\ Surviving(v)
    BY <1>1, <1>2, <1>10 DEF t
  <2> SUFFICES ASSUME NEW x \in Rows(memberships')
               PROVE  x.hh \in households /\ x.user \in Users /\ Surviving(x.user)
    OBVIOUS
  <2>2. CASE x \in {mine, yours}
    BY <1>1, <1>4, <2>1, <2>2
  <2>3. CASE x \in Rows(memberships)
    <3>1. x.hh \in households /\ x.user \in Users /\ Exists(x.user)
      BY <2>3, TablesAre, RowFields
    <3>2. QED
      BY <1>10, <3>1
  <2>4. QED
    BY <1>8, <2>2, <2>3
<1>13. TablesTyped'
  BY <1>3, <1>7, <1>9, <1>10, <1>12, TablesAre DEF TablesTyped, Surviving, Exists, Pointers
<1>14. Untouched({h})
  BY <1>4, <1>8 DEF Untouched
<1>15. Owned(h)'
  BY <1>4, <1>8 DEF Owned, OwnerRows
<1>16. OnceOwned(h) /\ "role" \notin raced' => OnceOwned(h)'
  <2> SUFFICES ASSUME OnceOwned(h), "role" \notin raced', NEW o \in OwnerRows(memberships', h)
               PROVE  o = mine
    BY DEF OnceOwned
  <2>1. o \in Rows(memberships') /\ o.hh = h /\ o.role = "owner"
    BY DEF OwnerRows
  <2>2. Row(h, v, "owner") \in OwnerRows(memberships, h)
    <3>1. IsMember(memberships, h, v) /\ RoleIn(memberships, h, v) = "owner"
      BY <1>1, <1>11 DEF StaleRole, h, v
    <3>2. Row(h, v, "owner") \in Rows(memberships)
      BY <3>1, TablesAre, RoleInRow
    <3>3. QED
      BY <3>2 DEF OwnerRows, Row
  <2>3. o # yours
    BY <1>4, <2>1
  <2>4. ASSUME o # mine PROVE FALSE
    <3>1. o \in OwnerRows(memberships, h) /\ o.user # v
      BY <1>8, <2>1, <2>3, <2>4 DEF OwnerRows
    <3>2. o = Row(h, v, "owner")
      BY <2>2, <3>1 DEF OnceOwned
    <3>3. QED
      BY <3>1, <3>2 DEF Row
  <2>5. QED
    BY <2>4
<1>17. ActiveIsMember'
  <2> SUFFICES ASSUME "pointer" \notin raced', NEW u \in Users, Surviving(u)
               PROVE  Row(active'[u].hh, u, active'[u].role) \in Rows(memberships')
    BY DEF ActiveIsMember, Exists, Surviving
  <2>1. /\ Row(active[u].hh, u, active[u].role) \in Rows(memberships)
        /\ q.pointer = active[t].hh
    <3>1. ActiveIsMember /\ Exists(u)
      BY <1>10 DEF MemberInv, Secure
    <3>2. QED
      BY <1>1, <1>11, <3>1 DEF ActiveIsMember, StalePointer, t
  <2>2. CASE u = v
    <3>1. active'[u].hh = h /\ active'[u].role = "member"
      BY <1>1, <1>2, <1>5, <1>9, <2>2
    <3>2. QED
      BY <1>8, <2>2, <3>1 DEF yours
  <2>3. CASE u = t /\ active[t].hh = h
    <3>1. active'[u].hh = h /\ active'[u].role = "owner"
      BY <1>9, <2>1, <2>3
    <3>2. QED
      BY <1>8, <2>3, <3>1 DEF mine
  <2>4. CASE u # v /\ (u # t \/ active[t].hh # h)
    <3>1. active'[u].hh = active[u].hh /\ active'[u].role = active[u].role
      BY <1>5, <1>9, <2>1, <2>4
    <3>2. active[u].hh # h \/ (u # t /\ u # v)
      BY <2>4
    <3>3. QED
      BY <1>8, <2>1, <3>1, <3>2 DEF Row
  <2>5. QED
    BY <2>2, <2>3, <2>4
<1>18. Secure'
  <2>1. raced' \cap {"role", "account"} = {} => OnceOwned(h) /\ "role" \notin raced'
    BY <1>1, <1>11 DEF MemberInv, Secure
  <2>2. /\ "account" \notin raced' => \A g \in households' \cap {h} : Owned(g)'
        /\ raced' \cap {"role", "account"} = {} => \A g \in households' \cap {h} : OnceOwned(g)'
    BY <1>15, <1>16, <2>1
  <2>3. households' \subseteq households \cup {h}
    BY <1>3
  <2>4. QED
    BY <1>11, <1>14, <1>17, <2>2, <2>3, ElsewhereSecure DEF MemberInv
<1>19. {h} \cap households \subseteq request[r].held
  BY <1>1
<1>20. QED
  BY <1>3, <1>10, <1>13, <1>14, <1>18, <1>19, CommittingHere

\* What promoting the heirs makes of the pointers.
LEMMA PromotedPointersAre ==
  ASSUME MemberInv, NEW q, q.heirs \subseteq Rowset
  PROVE  /\ PromotedPointers(active, q) \in [Users -> Pointers \cup {NoAccount}]
         /\ \A u \in Users :
              /\ PromotedPointers(active, q)[u] # NoAccount <=> Exists(u)
              /\ PromotedPointers(active, q)[u].hh = active[u].hh
              /\ PromotedPointers(active, q)[u].role =
                   IF Row(active[u].hh, u, "owner") \in q.heirs THEN "owner" ELSE active[u].role
<1> DEFINE moved(u) == IF Row(active[u].hh, u, "owner") \in q.heirs THEN Pointer(active[u].hh, "owner")
                       ELSE active[u]
<1>1. ASSUME NEW u \in Users
      PROVE  /\ moved(u) \in Pointers \cup {NoAccount} /\ (moved(u) # NoAccount <=> Exists(u))
             /\ moved(u).hh = active[u].hh
             /\ moved(u).role =
                  IF Row(active[u].hh, u, "owner") \in q.heirs THEN "owner" ELSE active[u].role
  <2>1. CASE Row(active[u].hh, u, "owner") \in q.heirs
    <3>1. active[u].hh \in Households
      BY <2>1 DEF Rowset, Row
    <3>2. active[u] # NoAccount
      BY <3>1, TablesAre, ParamsAssumption
    <3>3. active[u].hh \in households
      BY <3>2, TablesAre DEF Exists
    <3>4. moved(u) = Pointer(active[u].hh, "owner")
      BY <2>1
    <3> HIDE DEF moved
    <3>5. moved(u) \in Pointers /\ moved(u).hh = active[u].hh /\ moved(u).role = "owner"
      BY <3>3, <3>4, OwnerIsRole DEF Pointers, Pointer
    <3>6. moved(u) # NoAccount
      BY <3>3, <3>5, TablesAre
    <3>7. QED
      BY <2>1, <3>2, <3>5, <3>6 DEF Exists
  <2>2. CASE Row(active[u].hh, u, "owner") \notin q.heirs
    <3>1. moved(u) = active[u]
      BY <2>2
    <3>2. active[u] \in Pointers \cup {NoAccount}
      BY TablesAre DEF Pointers
    <3> HIDE DEF moved
    <3>3. QED
      BY <2>2, <3>1, <3>2 DEF Exists
  <2>3. QED
    BY <2>1, <2>2
<1>2. PromotedPointers(active, q) = [u \in Users |-> moved(u)]
  BY DEF PromotedPointers
<1> HIDE DEF moved
<1>3. QED
  BY <1>1, <1>2

\* What is left of the memberships once the heirs are promoted and the target is gone.
Left(q) == RemoveMembership(Promoted(memberships, q), q.hh, q.target)

LEMMA LeftIs ==
  ASSUME MemberInv, NEW q, q.heirs \subseteq Rowset, \A x \in q.heirs : x.hh = q.hh /\ x.role = "owner"
  PROVE  /\ Left(q) \in Seq(Rowset) /\ KeyedRows(Left(q))
         /\ \A x \in Rows(Left(q)) :
              /\ x \in Rowset /\ x.hh \in households /\ Exists(x.user)
              /\ x.hh # q.hh \/ x.user # q.target
              /\ x \in Rows(memberships) \/ (x.hh = q.hh /\ x \in q.heirs)
         /\ \A x \in Rows(Left(q)) : \E m \in Rows(memberships) : m.hh = x.hh /\ m.user = x.user
         /\ \A m \in Rows(memberships) : m.hh # q.hh \/ m.user # q.target => Raised(q, m) \in Rows(Left(q))
         /\ \A m \in Rows(memberships) : m.hh # q.hh => Raised(q, m) = m
<1> DEFINE raised == Promoted(memberships, q)
<1>1. memberships \in Seq(Rowset) /\ KeyedRows(memberships)
      /\ \A m \in Rows(memberships) : m \in Rowset /\ m.hh \in households /\ Exists(m.user)
  BY TablesAre
<1>2. /\ raised \in Seq(Rowset) /\ KeyedRows(raised)
      /\ Rows(raised) = {Raised(q, m) : m \in Rows(memberships)}
  BY <1>1, PromotedRows
<1> HIDE DEF raised
<1>3. /\ Left(q) \in Seq(Rowset) /\ KeyedRows(Left(q))
      /\ Rows(Left(q)) = {x \in Rows(raised) : x.hh # q.hh \/ x.user # q.target}
  BY <1>2, RemovedRows DEF Left, raised
<1>4. \A m \in Rows(memberships) :
        /\ Raised(q, m) \in Rowset /\ Raised(q, m).hh = m.hh /\ Raised(q, m).user = m.user
        /\ Raised(q, m) = m \/ Raised(q, m) \in q.heirs
        /\ m.hh # q.hh => Raised(q, m) = m
  <2> SUFFICES ASSUME NEW m \in Rows(memberships)
               PROVE  /\ Raised(q, m) \in Rowset /\ Raised(q, m).hh = m.hh /\ Raised(q, m).user = m.user
                      /\ Raised(q, m) = m \/ Raised(q, m) \in q.heirs
                      /\ m.hh # q.hh => Raised(q, m) = m
    OBVIOUS
  <2>1. Raised(q, m) \in Rowset /\ Raised(q, m).hh = m.hh /\ Raised(q, m).user = m.user
    BY <1>1, RaisedFields
  <2>2. Raised(q, m) = m \/ Raised(q, m) \in q.heirs
    BY DEF Raised
  <2>3. QED
    BY <2>1, <2>2
<1>5. ASSUME NEW x \in Rows(Left(q))
      PROVE  /\ x \in Rowset /\ x.hh \in households /\ Exists(x.user)
             /\ x.hh # q.hh \/ x.user # q.target
             /\ x \in Rows(memberships) \/ (x.hh = q.hh /\ x \in q.heirs)
             /\ \E m \in Rows(memberships) : m.hh = x.hh /\ m.user = x.user
  <2>1. PICK m \in Rows(memberships) : x = Raised(q, m)
    BY <1>2, <1>3
  <2>2. QED
    BY <1>1, <1>3, <1>4, <2>1
<1>6. \A m \in Rows(memberships) : m.hh # q.hh \/ m.user # q.target => Raised(q, m) \in Rows(Left(q))
  BY <1>2, <1>3, <1>4
<1>7. QED
  BY <1>3, <1>4, <1>5, <1>6

\* What a departure comes to: fresh is the household made for a target that has no
\* other, ptr where its pointer goes.
DepartureIs(q, fresh, ptr) ==
  /\ fresh \subseteq Households \ households
  /\ memberships' \in Seq(Rowset) /\ KeyedRows(memberships')
  /\ Rows(memberships') = Rows(Left(q)) \cup {Row(f, q.target, "owner") : f \in fresh}
  /\ households' = (households \cup fresh) \ q.gone
  /\ active' = [PromotedPointers(active, q) EXCEPT ![q.target] = ptr]
  /\ ptr.hh \in households \cup fresh /\ ptr.role \in Roles
  /\ ptr = [hh |-> ptr.hh, role |-> ptr.role]
  /\ "pointer" \notin raced' => Row(ptr.hh, q.target, ptr.role) \in Rows(memberships')
  /\ \A u \in Users : active'[u].hh \notin q.gone
  /\ invites' = {i \in invites \ Cancelled(q.hh, q.target) : i.hh \notin q.gone}

LEMMA Departed ==
  ASSUME MemberInv, NEW r \in Slots, NEW q, q = request[r], q.phase = "locked", Exists(q.target),
         q.op \in {"leave", "remove"}, Depart(q), Finish(r)
  PROVE  \E fresh, ptr : DepartureIs(q, fresh, ptr)
<1> DEFINE h == q.hh
           t == q.target
           act == PromotedPointers(active, q)
<1>1. /\ q \in RequestRecords /\ q.held = {h} /\ h \in households /\ t \in Users
      /\ active[t] \in Pointers /\ q.heirs \subseteq Rowset
      /\ \A x \in q.heirs : x.hh = h /\ x.role = "owner" /\ x.user # t
  BY CommittedLocked, RequestFields
<1>2. /\ Left(q) \in Seq(Rowset) /\ KeyedRows(Left(q))
      /\ \A x \in Rows(Left(q)) : x.hh \in households
      /\ \A m \in Rows(memberships) : m.hh # h \/ m.user # t => Raised(q, m) \in Rows(Left(q))
      /\ \A m \in Rows(memberships) : m.hh # h => Raised(q, m) = m
  BY <1>1, LeftIs
<1>3. /\ act \in [Users -> Pointers \cup {NoAccount}] /\ act[t] # NoAccount
      /\ act[t].hh = active[t].hh /\ act[t].role = active[t].role
  <2>1. \A x \in q.heirs : x # Row(active[t].hh, t, "owner")
    BY <1>1 DEF Row
  <2>2. QED
    BY <1>1, <2>1, PromotedPointersAre
<1>4. /\ \A u \in Users : active'[u].hh \notin q.gone
      /\ invites' = {i \in invites \ Cancelled(h, t) : i.hh \notin q.gone}
  BY DEF Depart, Dissolved
<1>5. "pointer" \notin raced' =>
        /\ "pointer" \notin raced /\ q.pointer = active[t].hh /\ q.fallback = Fallback(h, t)
        /\ Row(active[t].hh, t, active[t].role) \in Rows(memberships)
  <2>1. "pointer" \notin raced' => "pointer" \notin raced /\ ~StalePointer(q)
    BY Finishing
  <2>2. "pointer" \notin raced => Row(active[t].hh, t, active[t].role) \in Rows(memberships)
    BY <1>1 DEF MemberInv, Secure, ActiveIsMember
  <2>3. QED
    BY <2>1, <2>2 DEF StalePointer
<1>6. \/ /\ q.pointer # h
         /\ memberships' = Left(q) /\ active' = act
         /\ households' = households \ q.gone
      \/ /\ q.pointer = h /\ q.fallback # None
         /\ q.fallback.hh \in households
         /\ memberships' = Left(q)
         /\ active' = [act EXCEPT ![t] = q.fallback]
         /\ households' = households \ q.gone
      \/ /\ q.pointer = h /\ q.fallback = None
         /\ \E new \in Unused :
              /\ memberships' = JoinHousehold(Left(q), new, t, "owner")
              /\ active' = [act EXCEPT ![t] = Pointer(new, "owner")]
              /\ households' = (households \cup {new}) \ q.gone
  BY DEF Depart, Left
<1>7. CASE /\ q.pointer # h
           /\ memberships' = Left(q) /\ active' = act
           /\ households' = households \ q.gone
  <2>1. active[t].hh # h /\ "pointer" \notin raced' =>
          Row(active[t].hh, t, active[t].role) \in Rows(Left(q))
    BY <1>2, <1>5 DEF Row
  <2>2. act[t] \in Pointers
    BY <1>1, <1>3
  <2>3. act = [act EXCEPT ![t] = act[t]]
    BY <1>1, <1>3
  <2>4. act[t].hh \in households /\ act[t].role \in Roles
        /\ act[t] = [hh |-> act[t].hh, role |-> act[t].role]
    BY <2>2 DEF Pointers
  <2>5. {Row(f, t, "owner") : f \in {}} = {} /\ {} \subseteq Households \ households
    OBVIOUS
  <2> HIDE DEF act
  <2>6. DepartureIs(q, {}, act[t])
    BY <1>2, <1>3, <1>4, <1>5, <1>7, <2>1, <2>3, <2>4, <2>5 DEF DepartureIs, act
  <2>7. QED
    BY <2>6
<1>8. CASE /\ q.pointer = h /\ q.fallback # None
           /\ q.fallback.hh \in households
           /\ memberships' = Left(q)
           /\ active' = [act EXCEPT ![t] = q.fallback]
           /\ households' = households \ q.gone
  <2> DEFINE ptr == q.fallback
  <2>1. ptr.role \in Roles /\ ptr = [hh |-> ptr.hh, role |-> ptr.role]
    BY <1>1, <1>8, RequestFields
  <2>2. "pointer" \notin raced' => Row(ptr.hh, t, ptr.role) \in Rows(Left(q))
    <3> SUFFICES ASSUME "pointer" \notin raced' PROVE Row(ptr.hh, t, ptr.role) \in Rows(Left(q))
      OBVIOUS
    <3>1. ptr = Fallback(h, t) /\ ptr # None
      BY <1>5, <1>8
    <3>2. ptr.hh # h /\ Row(ptr.hh, t, ptr.role) \in Rows(memberships)
      BY <3>1, FallbackIs, TablesAre
    <3>3. QED
      BY <1>2, <3>2 DEF Row
  <2>3. {Row(f, t, "owner") : f \in {}} = {} /\ {} \subseteq Households \ households
    OBVIOUS
  <2>4. DepartureIs(q, {}, ptr)
    BY <1>2, <1>4, <1>8, <2>1, <2>2, <2>3 DEF DepartureIs
  <2>5. QED
    BY <2>4
<1>9. CASE /\ q.pointer = h /\ q.fallback = None
           /\ \E new \in Unused :
                /\ memberships' = JoinHousehold(Left(q), new, t, "owner")
                /\ active' = [act EXCEPT ![t] = Pointer(new, "owner")]
                /\ households' = (households \cup {new}) \ q.gone
  <2>1. PICK new \in Unused :
          /\ memberships' = JoinHousehold(Left(q), new, t, "owner")
          /\ active' = [act EXCEPT ![t] = Pointer(new, "owner")]
          /\ households' = (households \cup {new}) \ q.gone
    BY <1>9
  <2>2. new \in Households \ households
    BY DEF Unused
  <2>3. /\ memberships' \in Seq(Rowset) /\ KeyedRows(memberships')
        /\ Rows(memberships') =
             {x \in Rows(Left(q)) : x.hh # new \/ x.user # t} \cup {Row(new, t, "owner")}
    BY <1>1, <1>2, <2>1, <2>2, OwnerIsRole, JoinRows
  <2>4. {x \in Rows(Left(q)) : x.hh # new \/ x.user # t} = Rows(Left(q))
    BY <1>2, <2>2
  <2>5. {Row(new, t, "owner")} = {Row(f, t, "owner") : f \in {new}}
    OBVIOUS
  <2> DEFINE ptr == Pointer(new, "owner")
  <2>6. ptr.hh = new /\ ptr.role = "owner" /\ ptr = [hh |-> ptr.hh, role |-> ptr.role]
    BY DEF Pointer
  <2> HIDE DEF ptr
  <2>7. DepartureIs(q, {new}, ptr)
    BY <1>4, <2>1, <2>2, <2>3, <2>4, <2>5, <2>6, OwnerIsRole DEF DepartureIs, ptr
  <2>8. QED
    BY <2>7
<1>10. QED
  BY <1>6, <1>7, <1>8, <1>9

Departure(r, q, fresh, ptr) ==
  /\ r \in Slots /\ q = request[r] /\ q.phase = "locked" /\ Exists(q.target)
  /\ q.op \in {"leave", "remove"} /\ DepartureIs(q, fresh, ptr)

\* The tables after a departure.
LEMMA DepartureTables ==
  ASSUME MemberInv, NEW r, NEW q, NEW fresh, NEW ptr, Departure(r, q, fresh, ptr)
  PROVE  /\ TablesTyped' /\ \A u \in Users : Surviving(u) <=> Exists(u)
         /\ \A u \in Users \ {q.target} :
              /\ active'[u].hh = active[u].hh
              /\ active'[u].role = IF Row(active[u].hh, u, "owner") \in q.heirs THEN "owner"
                                   ELSE active[u].role
         /\ active'[q.target] = ptr
<1> DEFINE h == q.hh
           t == q.target
           act == PromotedPointers(active, q)
           L == Rows(Left(q))
<1>0. /\ r \in Slots /\ q = request[r] /\ q.phase = "locked" /\ Exists(q.target)
      /\ q.phase # "none" /\ q.op \in {"leave", "remove"} /\ DepartureIs(q, fresh, ptr)
  BY DEF Departure
<1>1. /\ q \in RequestRecords /\ q.held = {h} /\ h \in households /\ t \in Users
      /\ q.heirs \subseteq Rowset /\ q.gone \subseteq {h} /\ GoneAlone(q)
      /\ \A x \in q.heirs : x.hh = h /\ x.role = "owner" /\ x.user # t
      /\ IsMember(memberships, h, t)
  BY <1>0, CommittedLocked, Committed, RequestFields DEF Shaped
<1>2. /\ \A x \in L : /\ x \in Rowset /\ x.hh \in households /\ Exists(x.user)
                      /\ x.hh # h \/ x.user # t
                      /\ \E m \in Rows(memberships) : m.hh = x.hh /\ m.user = x.user
  BY <1>1, LeftIs
<1>3. /\ act \in [Users -> Pointers \cup {NoAccount}]
      /\ \A u \in Users :
           /\ act[u] # NoAccount <=> Exists(u)
           /\ act[u].hh = active[u].hh
           /\ act[u].role = IF Row(active[u].hh, u, "owner") \in q.heirs THEN "owner"
                            ELSE active[u].role
  BY <1>1, PromotedPointersAre
<1>4. households \subseteq Households /\ h \in Households /\ None \notin Households
      /\ NoAccount.hh = None
  BY <1>1, TablesAre, ParamsAssumption
<1>5. /\ fresh \subseteq Households \ households
      /\ memberships' \in Seq(Rowset) /\ KeyedRows(memberships')
      /\ Rows(memberships') = L \cup {Row(f, t, "owner") : f \in fresh}
      /\ households' = (households \cup fresh) \ q.gone
      /\ active' = [act EXCEPT ![t] = ptr]
      /\ ptr.hh \in households \cup fresh /\ ptr.role \in Roles
      /\ ptr = [hh |-> ptr.hh, role |-> ptr.role]
      /\ \A u \in Users : active'[u].hh \notin q.gone
      /\ invites' = {i \in invites \ Cancelled(h, t) : i.hh \notin q.gone}
  BY DEF DepartureIs, Departure
<1> HIDE DEF act, L, h, t
<1>6. active'[t] = ptr /\ \A u \in Users \ {t} : active'[u] = act[u]
  BY <1>1, <1>3, <1>5 DEF t
<1>7. ptr # NoAccount
  BY <1>4, <1>5
<1>8. \A u \in Users : Surviving(u) <=> Exists(u)
  BY <1>0, <1>3, <1>6, <1>7 DEF Surviving, t
<1>9. active' \in [Users -> [hh : households', role : Roles] \cup {NoAccount}]
  <2>1. ASSUME NEW u \in Users PROVE active'[u] \in [hh : households', role : Roles] \cup {NoAccount}
    <3>1. CASE u = t
      <4>1. ptr.hh \in households'
        BY <1>5, <1>6, <3>1
      <4>2. ptr \in [hh : households', role : Roles]
        BY <1>5, <4>1
      <4>3. QED
        BY <1>6, <3>1, <4>2
    <3>2. CASE u # t /\ act[u] # NoAccount
      <4>1. active'[u] = act[u] /\ act[u] \in Pointers
        BY <1>3, <1>6, <3>2
      <4>2. act[u].hh \in households'
        BY <1>5, <4>1 DEF Pointers
      <4>3. QED
        BY <4>1, <4>2 DEF Pointers
    <3>3. CASE u # t /\ act[u] = NoAccount
      BY <1>6, <3>3
    <3>4. QED
      BY <3>1, <3>2, <3>3
  <2>2. active' = [u \in Users |-> active'[u]]
    BY <1>3, <1>5
  <2>3. QED
    BY <2>1, <2>2
<1>10. ASSUME NEW x \in Rows(memberships')
       PROVE  x.hh \in households' /\ Surviving(x.user)
  <2>1. CASE x \in L
    <3>1. x.hh \notin q.gone
      <4> SUFFICES ASSUME x.hh \in q.gone PROVE FALSE
        OBVIOUS
      <4>1. x.hh = h /\ x.user # t
        BY <1>1, <1>2, <2>1
      <4>2. PICK m \in Rows(memberships) : m.hh = h /\ m.user = x.user
        BY <1>2, <2>1, <4>1
      <4>3. PICK n \in Rows(memberships) : n.hh = h /\ n.user = t
        BY <1>1 DEF IsMember
      <4>4. m = n
        BY <1>1, <4>1, <4>2, <4>3 DEF GoneAlone
      <4>5. QED
        BY <4>1, <4>2, <4>3, <4>4
    <3>2. QED
      BY <1>2, <1>5, <1>8, <2>1, <3>1, RowFields
  <2>2. CASE x \notin L
    <3>1. PICK f \in fresh : x = Row(f, t, "owner")
      BY <1>5, <2>2
    <3>2. x.hh = f /\ x.user = t
      BY <3>1 DEF Row
    <3>3. f \in households'
      BY <1>1, <1>5
    <3>4. QED
      BY <1>0, <1>1, <1>8, <3>2, <3>3 DEF t
  <2>3. QED
    BY <2>1, <2>2
<1>11. invites' \subseteq [from : Users, to : Users, hh : households'] /\ \A i \in invites' : Surviving(i.to)
  <2>1. \A i \in invites' : i \in invites /\ i.hh \notin q.gone
    BY <1>5
  <2>2. \A i \in invites' : i.hh \in households' /\ i \in [from : Users, to : Users, hh : households]
    BY <1>5, <2>1, TablesAre
  <2>3. QED
    BY <1>8, <2>1, <2>2, TablesAre
<1>12. households' \subseteq Households
  BY <1>4, <1>5
<1>13. TablesTyped'
  BY <1>5, <1>9, <1>10, <1>11, <1>12 DEF TablesTyped, Exists, Surviving
<1>14. QED
  BY <1>3, <1>6, <1>8, <1>13 DEF t

LEMMA DepartureSecure ==
  ASSUME MemberInv, NEW r, NEW q, NEW fresh, NEW ptr, Departure(r, q, fresh, ptr),
         raced \subseteq raced', "pointer" \notin raced' => "pointer" \notin raced
  PROVE  Secure' /\ Untouched({q.hh} \cup fresh)
<1> DEFINE h == q.hh
           t == q.target
           some == {h} \cup fresh
           L == Rows(Left(q))
<1>0. /\ r \in Slots /\ q = request[r] /\ q.phase = "locked" /\ Exists(q.target)
      /\ q.phase # "none" /\ q.op \in {"leave", "remove"} /\ DepartureIs(q, fresh, ptr)
  BY DEF Departure
<1>1. /\ q \in RequestRecords /\ q.held = {h} /\ h \in households /\ t \in Users
      /\ q.heirs \subseteq Rowset /\ q.gone \subseteq {h}
      /\ \A x \in q.heirs : x.hh = h /\ x.role = "owner" /\ x.user # t
      /\ HeirsFit(q) /\ Succeeded(q)
      /\ q.op = "remove" => q.heirs = {}
      /\ \E m \in Rows(memberships) : m.hh = h /\ m.user = t /\ Permitted(q, m.role)
  BY <1>0, CommittedLocked, Committed, RequestFields DEF Shaped
<1>2. /\ \A x \in L : /\ x \in Rowset /\ x.hh \in households
                      /\ x.hh # h \/ x.user # t
                      /\ x \in Rows(memberships) \/ (x.hh = h /\ x \in q.heirs)
      /\ \A m \in Rows(memberships) : m.hh # h \/ m.user # t => Raised(q, m) \in L
      /\ \A m \in Rows(memberships) : m.hh # h => Raised(q, m) = m
  BY <1>1, LeftIs
<1>3. /\ fresh \subseteq Households \ households
      /\ Rows(memberships') = L \cup {Row(f, t, "owner") : f \in fresh}
      /\ households' = (households \cup fresh) \ q.gone
      /\ "pointer" \notin raced' => Row(ptr.hh, t, ptr.role) \in Rows(memberships')
  BY DEF DepartureIs, Departure
<1>4. /\ \A u \in Users : Surviving(u) <=> Exists(u)
      /\ \A u \in Users \ {t} :
           /\ active'[u].hh = active[u].hh
           /\ active'[u].role = IF Row(active[u].hh, u, "owner") \in q.heirs THEN "owner"
                                ELSE active[u].role
      /\ active'[t] = ptr
  <2>1. /\ TablesTyped' /\ \A u \in Users : Surviving(u) <=> Exists(u)
        /\ \A u \in Users \ {q.target} :
             /\ active'[u].hh = active[u].hh
             /\ active'[u].role = IF Row(active[u].hh, u, "owner") \in q.heirs THEN "owner"
                                  ELSE active[u].role
        /\ active'[q.target] = ptr
    BY DepartureTables
  <2>2. QED
    BY <2>1
<1>5. \A m \in Rows(memberships) : /\ m \in Rowset /\ m.hh \in households
                                   /\ m = Row(m.hh, m.user, m.role)
  BY TablesAre, RowFields
<1> HIDE DEF L, h, t
<1>6. \A f : Row(f, t, "owner").hh = f /\ Row(f, t, "owner").role = "owner"
  BY DEF Row
<1>7. Untouched(some)
  <2>1. ASSUME NEW m \in Rows(memberships'), m.hh \in households \ some PROVE m \in Rows(memberships)
    BY <1>2, <1>3, <1>6, <2>1
  <2>2. ASSUME NEW m \in Rows(memberships), m.hh \notin some PROVE m \in Rows(memberships')
    BY <1>2, <1>3, <2>2
  <2>3. QED
    BY <2>1, <2>2 DEF Untouched
<1>8. ASSUME NEW m \in OwnerRows(memberships, h), m.user # t
      PROVE  OwnerRows(memberships', h) # {}
  <2>1. m \in Rows(memberships) /\ m.hh = h /\ m.role = "owner"
    BY <1>8 DEF OwnerRows
  <2>2. Raised(q, m) \in L
    BY <1>2, <1>8, <2>1
  <2>3. Raised(q, m) = m
    BY <1>5, <2>1 DEF Raised
  <2>4. QED
    BY <1>3, <2>1, <2>2, <2>3 DEF OwnerRows
<1>9. ASSUME NEW x \in q.heirs
      PROVE  x \in L /\ OwnerRows(memberships', h) # {}
  <2>1. IsMember(memberships, h, x.user) /\ x.user # t /\ x = Row(h, x.user, "owner")
    <3>1. x.hh = h /\ x.role = "owner" /\ x.user # t /\ x \in Rowset
      BY <1>1
    <3>2. QED
      BY <1>1, <3>1, RowFields DEF HeirsFit
  <2>2. PICK m \in Rows(memberships) : m.hh = h /\ m.user = x.user
    BY <2>1 DEF IsMember
  <2>3. Raised(q, m) = x
    BY <2>1, <2>2 DEF Raised
  <2>4. x \in L
    BY <1>2, <2>1, <2>2, <2>3
  <2>5. QED
    BY <1>1, <1>3, <2>4 DEF OwnerRows
<1>10. "account" \notin raced' /\ h \notin q.gone => OwnerRows(memberships', h) # {}
  <2> SUFFICES ASSUME "account" \notin raced', h \notin q.gone PROVE OwnerRows(memberships', h) # {}
    OBVIOUS
  <2>1. "account" \notin raced
    OBVIOUS
  <2>2. PICK o \in OwnerRows(memberships, h) : TRUE
    BY <1>1, <2>1 DEF MemberInv, Secure, Owned
  <2>3. o \in Rows(memberships) /\ o.hh = h /\ o.role = "owner"
    BY DEF OwnerRows
  <2>4. CASE o.user # t
    BY <1>8, <2>4
  <2>5. CASE o.user = t
    <3>1. o = Row(h, t, "owner")
      BY <1>5, <2>3, <2>5
    <3>2. q.op = "leave"
      <4>1. PICK m \in Rows(memberships) : m.hh = h /\ m.user = t /\ Permitted(q, m.role)
        BY <1>1
      <4>2. m = o
        BY <2>3, <2>5, <4>1, SameRow, TablesAre
      <4>3. QED
        BY <1>0, <2>3, <4>1, <4>2 DEF Permitted
    <3>3. \/ \E m \in q.heirs : m.hh = h
          \/ \E m \in OwnerRows(memberships, h) : m.user # t
      <4>1. ListedOwner(q, h) /\ h \in q.held \ q.gone
        BY <1>1, <3>2 DEF ListedOwner
      <4>2. Row(h, t, "owner") \in Rows(memberships)
        BY <2>3, <3>1
      <4>3. QED
        BY <1>1, <2>1, <3>2, <4>1, <4>2 DEF Succeeded, t
    <3>4. QED
      BY <1>8, <1>9, <3>3
  <2>6. QED
    BY <2>4, <2>5
<1>11. OnceOwned(h) => \A m, n \in OwnerRows(memberships', h) : m = n
  <2> SUFFICES ASSUME OnceOwned(h), NEW m \in OwnerRows(memberships', h),
                      NEW n \in OwnerRows(memberships', h)
               PROVE  m = n
    OBVIOUS
  <2>1. ASSUME NEW x \in OwnerRows(memberships', h)
        PROVE  x \in L /\ (x \in q.heirs \/ (x \in OwnerRows(memberships, h) /\ x.user # t))
    <3>1. x \in Rows(memberships') /\ x.hh = h /\ x.role = "owner"
      BY DEF OwnerRows
    <3>2. x \in L
      BY <1>1, <1>3, <1>6, <3>1
    <3>3. QED
      BY <1>2, <3>1, <3>2 DEF OwnerRows
  <2>2. ASSUME NEW x \in q.heirs, NEW y \in OwnerRows(memberships, h), y.user # t PROVE FALSE
    <3>1. q.op = "leave" /\ x.hh = h
      BY <1>0, <1>1, <2>2
    <3>2. Row(h, t, "owner") \in Rows(memberships)
      BY <1>0, <1>1, <2>2, <3>1 DEF HeirsFit, t
    <3>3. Row(h, t, "owner") \in OwnerRows(memberships, h) /\ Row(h, t, "owner").user = t
      BY <3>2 DEF OwnerRows, Row
    <3>4. QED
      BY <2>2, <3>3 DEF OnceOwned
  <2>3. CASE m \in q.heirs /\ n \in q.heirs
    BY <1>1, <2>3 DEF HeirsFit
  <2>4. CASE m \notin q.heirs /\ n \notin q.heirs
    BY <2>1, <2>4 DEF OnceOwned
  <2>5. QED
    BY <2>1, <2>2, <2>3, <2>4
<1>12. ASSUME NEW f \in fresh
       PROVE  OwnerRows(memberships', f) = {Row(f, t, "owner")}
  <2>1. f \notin households
    BY <1>3
  <2>2. \A x \in Rows(memberships') : x.hh = f => x = Row(f, t, "owner")
    BY <1>2, <1>3, <1>6, <2>1
  <2>3. Row(f, t, "owner") \in Rows(memberships')
    BY <1>3
  <2>4. QED
    BY <1>6, <2>2, <2>3 DEF OwnerRows
<1>13. ActiveIsMember'
  <2> SUFFICES ASSUME "pointer" \notin raced', NEW u \in Users, Surviving(u)
               PROVE  Row(active'[u].hh, u, active'[u].role) \in Rows(memberships')
    BY DEF ActiveIsMember, Exists, Surviving
  <2>1. CASE u = t
    BY <1>3, <1>4, <2>1
  <2>2. CASE u # t
    <3> DEFINE m == Row(active[u].hh, u, active[u].role)
    <3>1. m \in Rows(memberships)
      BY <1>4 DEF MemberInv, Secure, ActiveIsMember
    <3>2. m.hh = active[u].hh /\ m.user = u /\ m.role = active[u].role
      BY DEF Row
    <3> HIDE DEF m
    <3>3. Raised(q, m) \in L
      BY <1>2, <2>2, <3>1, <3>2
    <3>4. Row(active'[u].hh, u, active'[u].role) = Raised(q, m)
      <4>1. active'[u].hh = m.hh
            /\ active'[u].role = IF Row(m.hh, m.user, "owner") \in q.heirs THEN "owner" ELSE m.role
        BY <1>4, <2>2, <3>2 DEF t
      <4>2. m = Row(m.hh, u, m.role)
        BY <1>5, <3>1, <3>2
      <4>3. QED
        BY <3>2, <4>1, <4>2 DEF Raised
    <3>5. QED
      BY <1>3, <3>3, <3>4
  <2>3. QED
    BY <2>1, <2>2
<1>14. Secure'
  <2>1. "account" \notin raced' => \A g \in households' \cap some : Owned(g)'
    BY <1>3, <1>10, <1>12 DEF Owned
  <2>2. raced' \cap {"role", "account"} = {} => OnceOwned(h)
    BY <1>1 DEF MemberInv, Secure
  <2>3. raced' \cap {"role", "account"} = {} => \A g \in households' \cap some : OnceOwned(g)'
    BY <1>11, <1>12, <2>2 DEF OnceOwned
  <2>4. households' \subseteq households \cup some
    BY <1>3
  <2> HIDE DEF some
  <2>5. QED
    BY <1>7, <1>13, <2>1, <2>3, <2>4, ElsewhereSecure DEF MemberInv
<1>15. QED
  BY <1>7, <1>14 DEF h

LEMMA DepartureCommits ==
  ASSUME MemberInv, NEW r \in Slots, NEW q, q = request[r], q.phase = "locked", Exists(q.target),
         CommitLeave(q) \/ CommitRemove(q), Finish(r)
  PROVE  MemberInv'
<1>1. q.op \in {"leave", "remove"} /\ Depart(q)
  BY DEF CommitLeave, CommitRemove
<1>2. PICK fresh, ptr : DepartureIs(q, fresh, ptr)
  BY <1>1, Departed
<1>3. raced \subseteq raced' /\ ("pointer" \notin raced' => "pointer" \notin raced)
  BY Finishing
<1>4. TablesTyped' /\ \A u \in Users : Surviving(u) <=> Exists(u)
  BY <1>1, <1>2, DepartureTables DEF Departure
<1> DEFINE some == {q.hh} \cup fresh
<1>5. Secure' /\ Untouched(some)
  BY <1>1, <1>2, <1>3, DepartureSecure DEF Departure
<1>6. some \cap households \subseteq request[r].held /\ households \ some \subseteq households'
  <2>1. q.held = {q.hh} /\ q.gone \subseteq {q.hh}
    <3>1. q.op \in Locking /\ Shaped(q)
      BY CommittedLocked, Committed
    <3>2. QED
      BY CommittedLocked, <3>1 DEF Shaped
  <2>2. fresh \cap households = {} /\ households' = (households \cup fresh) \ q.gone
    BY <1>2 DEF DepartureIs
  <2>3. QED
    BY <2>1, <2>2
<1> HIDE DEF some
<1>7. QED
  BY <1>4, <1>5, <1>6, CommittingHere

\* An account's deletion takes its rows, and those of the households that go.
Deletion(r, q) ==
  /\ r \in Slots /\ q = request[r] /\ q.op = "delete" /\ q \in RequestRecords /\ q.target \in Users
  /\ q.heirs \subseteq Rowset /\ q.gone \subseteq q.held /\ q.held \subseteq households
  /\ HeirsFit(q) /\ Succeeded(q) /\ GoneAlone(q)
  /\ memberships' \in Seq(Rowset) /\ KeyedRows(memberships')
  /\ \A x : x \in Rows(memberships') <=>
       \E m \in Rows(memberships) : x = Raised(q, m) /\ m.user # q.target /\ m.hh \notin q.gone
  /\ households' = households \ q.gone
  /\ active' = [PromotedPointers(active, q) EXCEPT ![q.target] = NoAccount]
  /\ \A u \in Users : active'[u].hh \notin q.gone
  /\ invites' = {i \in invites : q.target \notin {i.from, i.to} /\ i.hh \notin q.gone}
  /\ \A s \in Slots : \A m \in request[s].heirs : m.user # q.target
  /\ q.held = {m.hh : m \in Rows(q.listed)}
  /\ "account" \notin raced' => Rows(q.listed) = {m \in Rows(memberships) : m.user = q.target}

LEMMA DeletionIs ==
  ASSUME MemberInv, NEW r \in Slots, NEW q, q = request[r], q.phase # "none", Exists(q.target),
         CommitDelete(q), Finish(r)
  PROVE  Deletion(r, q)
<1> DEFINE t == q.target
           raised == Promoted(memberships, q)
           places == {i \in DOMAIN memberships : memberships[i].user # t /\ memberships[i].hh \notin q.gone}
<1>1. /\ q \in RequestRecords /\ q.heirs \subseteq Rowset /\ t \in Users
      /\ q.gone \subseteq q.held /\ q.held \subseteq households
      /\ HeirsFit(q) /\ Succeeded(q) /\ GoneAlone(q) /\ ListLocked(q)
      /\ q.listed \in Seq(Rowset)
  BY Committed, RequestFields DEF Shaped
<1>2. /\ q.op = "delete" /\ Cardinality(q.held) = Len(q.listed)
      /\ \A s \in Slots : \A m \in request[s].heirs : m.user # t
      /\ memberships' = Kept(raised, places)
      /\ active' = [PromotedPointers(active, q) EXCEPT ![t] = NoAccount]
      /\ \A u \in Users : active'[u].hh \notin q.gone
      /\ households' = households \ q.gone
      /\ invites' = {i \in invites : t \notin {i.from, i.to} /\ i.hh \notin q.gone}
  BY DEF CommitDelete
<1>3. /\ raised \in Seq(Rowset) /\ KeyedRows(raised) /\ DOMAIN raised = DOMAIN memberships
      /\ \A i \in DOMAIN memberships : raised[i] = Raised(q, memberships[i])
  BY TablesAre, PromotedRows
<1>4. places \in SUBSET DOMAIN raised
  BY <1>3
<1> HIDE DEF raised
<1>5. /\ memberships' \in Seq(Rowset) /\ KeyedRows(memberships')
      /\ Rows(memberships') = {raised[i] : i \in places}
  <2> HIDE DEF places
  <2>1. QED
    BY <1>2, <1>3, <1>4, KeptRows
<1>6. ASSUME NEW x
      PROVE  x \in Rows(memberships') <=>
               \E m \in Rows(memberships) : x = Raised(q, m) /\ m.user # t /\ m.hh \notin q.gone
  <2>1. ASSUME x \in Rows(memberships')
        PROVE  \E m \in Rows(memberships) : x = Raised(q, m) /\ m.user # t /\ m.hh \notin q.gone
    <3>1. PICK i \in places : x = raised[i]
      BY <1>5, <2>1
    <3>2. memberships[i] \in Rows(memberships)
      BY <3>1 DEF Rows
    <3>3. QED
      BY <1>3, <3>1, <3>2
  <2>2. ASSUME NEW m \in Rows(memberships), x = Raised(q, m), m.user # t, m.hh \notin q.gone
        PROVE  x \in Rows(memberships')
    <3>1. PICK i \in DOMAIN memberships : m = memberships[i]
      BY <2>2 DEF Rows
    <3>2. i \in places /\ raised[i] = x
      BY <1>3, <2>2, <3>1
    <3>3. QED
      BY <1>5, <3>2
  <2>3. QED
    BY <2>1, <2>2
<1>7. q.held = {m.hh : m \in Rows(q.listed)}
  <2>1. q.held = {q.listed[i].hh : i \in 1..Len(q.listed)}
    BY <1>1, <1>2 DEF ListLocked
  <2>2. DOMAIN q.listed = 1..Len(q.listed)
    BY <1>1
  <2>3. QED
    BY <2>1, <2>2 DEF Rows
<1>8. "account" \notin raced' => Rows(q.listed) = {m \in Rows(memberships) : m.user = t}
  <2>1. "account" \notin raced' => q.listed = MembershipsOf(t)
    BY <1>2, Finishing DEF StaleList
  <2>2. Rows(MembershipsOf(t)) = {m \in Rows(memberships) : m.user = t}
    BY TablesAre, ListedRows
  <2>3. QED
    BY <2>1, <2>2
<1>9. QED
  BY <1>1, <1>2, <1>5, <1>6, <1>7, <1>8 DEF Deletion

LEMMA DeletionTables ==
  ASSUME MemberInv, NEW r, NEW q, Deletion(r, q)
  PROVE  /\ TablesTyped' /\ ~Surviving(q.target)
         /\ \A u \in Users \ {q.target} :
              /\ Surviving(u) <=> Exists(u)
              /\ active'[u].hh = active[u].hh
              /\ active'[u].role = IF Row(active[u].hh, u, "owner") \in q.heirs THEN "owner"
                                   ELSE active[u].role
<1> DEFINE t == q.target
           act == PromotedPointers(active, q)
<1>1. /\ q.heirs \subseteq Rowset /\ t \in Users
      /\ memberships' \in Seq(Rowset) /\ KeyedRows(memberships')
      /\ \A x \in Rows(memberships') :
           \E m \in Rows(memberships) : x = Raised(q, m) /\ m.user # t /\ m.hh \notin q.gone
      /\ households' = households \ q.gone /\ active' = [act EXCEPT ![t] = NoAccount]
      /\ \A u \in Users : active'[u].hh \notin q.gone
      /\ invites' = {i \in invites : t \notin {i.from, i.to} /\ i.hh \notin q.gone}
  BY DEF Deletion
<1>2. /\ act \in [Users -> Pointers \cup {NoAccount}]
      /\ \A u \in Users :
           /\ act[u] # NoAccount <=> Exists(u)
           /\ act[u].hh = active[u].hh
           /\ act[u].role = IF Row(active[u].hh, u, "owner") \in q.heirs THEN "owner"
                            ELSE active[u].role
  BY <1>1, PromotedPointersAre
<1> HIDE DEF act, t
<1>3. active'[t] = NoAccount /\ \A u \in Users \ {t} : active'[u] = act[u]
  BY <1>1, <1>2
<1>4. ~Surviving(t) /\ \A u \in Users \ {t} : Surviving(u) <=> Exists(u)
  BY <1>2, <1>3 DEF Surviving
<1>5. active' \in [Users -> [hh : households', role : Roles] \cup {NoAccount}]
  <2>1. ASSUME NEW u \in Users PROVE active'[u] \in [hh : households', role : Roles] \cup {NoAccount}
    <3>1. CASE u = t \/ act[u] = NoAccount
      BY <1>3, <3>1
    <3>2. CASE u # t /\ act[u] # NoAccount
      <4>1. active'[u] = act[u] /\ act[u] \in Pointers
        BY <1>2, <1>3, <3>2
      <4>2. act[u].hh \in households'
        BY <1>1, <4>1 DEF Pointers
      <4>3. QED
        BY <4>1, <4>2 DEF Pointers
    <3>3. QED
      BY <3>1, <3>2
  <2>2. active' = [u \in Users |-> active'[u]]
    BY <1>1, <1>2
  <2>3. QED
    BY <2>1, <2>2
<1>6. ASSUME NEW x \in Rows(memberships') PROVE x.hh \in households' /\ Surviving(x.user)
  <2>1. PICK m \in Rows(memberships) : x = Raised(q, m) /\ m.user # t /\ m.hh \notin q.gone
    BY <1>1
  <2>2. m \in Rowset /\ m.hh \in households /\ Exists(m.user) /\ m.user \in Users
    BY TablesAre, RowFields
  <2>3. x.hh = m.hh /\ x.user = m.user
    BY <2>1, <2>2, RaisedFields
  <2>4. QED
    BY <1>1, <1>4, <2>1, <2>2, <2>3
<1>7. ASSUME NEW i \in invites'
      PROVE  i \in [from : Users, to : Users, hh : households'] /\ Surviving(i.to)
  <2>1. i \in invites /\ i.hh \notin q.gone /\ i.to # t
    BY <1>1
  <2>2. i \in [from : Users, to : Users, hh : households] /\ Exists(i.to) /\ i.to \in Users
    BY <2>1, TablesAre
  <2>3. i.hh \in households'
    BY <1>1, <2>1, <2>2
  <2>4. QED
    BY <1>4, <2>1, <2>2, <2>3
<1>8. households' \subseteq Households
  BY <1>1, TablesAre
<1>9. TablesTyped'
  BY <1>1, <1>5, <1>6, <1>7, <1>8 DEF TablesTyped, Exists, Surviving
<1>10. QED
  BY <1>2, <1>3, <1>4, <1>9 DEF t

\* The rows that a deletion leaves alone.
LEMMA DeletionSpares ==
  ASSUME MemberInv, NEW r, NEW q, Deletion(r, q)
  PROVE  /\ \A x \in Rows(memberships') : x.hh \notin q.held => x \in Rows(memberships)
         /\ \A m \in Rows(memberships) :
              m.hh \notin q.held /\ m.user # q.target => m \in Rows(memberships')
         /\ "account" \notin raced' => Untouched(q.held)
<1>1. /\ \A x : x \in Rows(memberships') <=>
           \E m \in Rows(memberships) : x = Raised(q, m) /\ m.user # q.target /\ m.hh \notin q.gone
      /\ q.gone \subseteq q.held /\ \A x \in q.heirs : x.hh \in q.held
      /\ q.held = {m.hh : m \in Rows(q.listed)}
      /\ "account" \notin raced' => Rows(q.listed) = {m \in Rows(memberships) : m.user = q.target}
  BY DEF Deletion, HeirsFit
<1>2. \A m \in Rows(memberships) :
        /\ m \in Rowset /\ Raised(q, m).hh = m.hh
        /\ m.hh \notin q.held => Raised(q, m) = m
  <2> SUFFICES ASSUME NEW m \in Rows(memberships)
               PROVE  /\ m \in Rowset /\ Raised(q, m).hh = m.hh
                      /\ m.hh \notin q.held => Raised(q, m) = m
    OBVIOUS
  <2>1. m \in Rowset
    BY TablesAre
  <2>2. Raised(q, m).hh = m.hh
    BY <2>1, RaisedFields
  <2>3. Raised(q, m) = m \/ Raised(q, m) \in q.heirs
    BY DEF Raised
  <2>4. QED
    BY <1>1, <2>1, <2>2, <2>3
<1>3. ASSUME NEW x \in Rows(memberships'), x.hh \notin q.held PROVE x \in Rows(memberships)
  BY <1>1, <1>2, <1>3
<1>4. ASSUME NEW m \in Rows(memberships), m.hh \notin q.held, m.user # q.target
      PROVE  m \in Rows(memberships')
  BY <1>1, <1>2, <1>4
<1>5. ASSUME "account" \notin raced', NEW m \in Rows(memberships), m.hh \notin q.held
      PROVE  m.user # q.target
  <2> SUFFICES ASSUME m.user = q.target PROVE FALSE
    OBVIOUS
  <2>1. m \in Rows(q.listed)
    BY <1>1, <1>5
  <2>2. QED
    BY <1>1, <1>5, <2>1
<1>6. "account" \notin raced' => Untouched(q.held)
  BY <1>3, <1>4, <1>5 DEF Untouched
<1>7. QED
  BY <1>3, <1>4, <1>6

LEMMA DeletionSecure ==
  ASSUME MemberInv, NEW r, NEW q, Deletion(r, q),
         raced \subseteq raced', "pointer" \notin raced' => "pointer" \notin raced
  PROVE  Secure'
<1> DEFINE t == q.target
           Kin(x, m) == x = Raised(q, m) /\ m.user # t /\ m.hh \notin q.gone
<1>1. /\ q.op = "delete" /\ t \in Users /\ q.heirs \subseteq Rowset /\ q.held \subseteq households
      /\ HeirsFit(q) /\ Succeeded(q)
      /\ \A x : x \in Rows(memberships') <=> \E m \in Rows(memberships) : Kin(x, m)
      /\ households' = households \ q.gone
      /\ \A u \in Users : active'[u].hh \notin q.gone
      /\ "account" \notin raced' => Rows(q.listed) = {m \in Rows(memberships) : m.user = t}
  BY DEF Deletion
<1>2. /\ ~Surviving(t)
      /\ \A u \in Users \ {t} :
           /\ Surviving(u) <=> Exists(u)
           /\ active'[u].hh = active[u].hh
           /\ active'[u].role = IF Row(active[u].hh, u, "owner") \in q.heirs THEN "owner"
                                ELSE active[u].role
  BY DeletionTables
<1> HIDE DEF t
<1>3. \A m \in Rows(memberships) :
        /\ m \in Rowset /\ m = Row(m.hh, m.user, m.role)
        /\ Raised(q, m).hh = m.hh /\ Raised(q, m).user = m.user
        /\ Raised(q, m) = m \/ Raised(q, m) \in q.heirs
  <2> SUFFICES ASSUME NEW m \in Rows(memberships)
               PROVE  /\ m \in Rowset /\ m = Row(m.hh, m.user, m.role)
                      /\ Raised(q, m).hh = m.hh /\ Raised(q, m).user = m.user
                      /\ Raised(q, m) = m \/ Raised(q, m) \in q.heirs
    OBVIOUS
  <2>1. m \in Rowset /\ m = Row(m.hh, m.user, m.role)
    BY TablesAre, RowFields
  <2>2. QED
    BY <2>1, RaisedFields DEF Raised
<1>4. ASSUME NEW h \in q.held \ q.gone, NEW m \in OwnerRows(memberships, h), m.user # t
      PROVE  OwnerRows(memberships', h) # {}
  <2>1. m \in Rows(memberships) /\ m.hh = h /\ m.role = "owner"
    BY <1>4 DEF OwnerRows
  <2>2. Raised(q, m) = m
    BY <1>3, <2>1 DEF Raised
  <2>3. m \in Rows(memberships')
    BY <1>1, <1>4, <2>1, <2>2
  <2>4. QED
    BY <2>1, <2>3 DEF OwnerRows
<1>5. ASSUME NEW h \in q.held \ q.gone, NEW x \in q.heirs, x.hh = h
      PROVE  OwnerRows(memberships', h) # {}
  <2>1. IsMember(memberships, h, x.user) /\ x.user # t /\ x.role = "owner" /\ x \in Rowset
    BY <1>1, <1>5 DEF HeirsFit, t
  <2>2. PICK m \in Rows(memberships) : m.hh = h /\ m.user = x.user
    BY <2>1 DEF IsMember
  <2>3. x = Row(m.hh, m.user, "owner")
    BY <1>5, <2>1, <2>2, RowFields
  <2>4. Raised(q, m) = x
    BY <2>3 DEF Raised
  <2>5. x \in Rows(memberships')
    BY <1>1, <2>1, <2>2, <2>4
  <2>6. QED
    BY <1>5, <2>1, <2>5 DEF OwnerRows
<1>6. ASSUME "account" \notin raced', NEW h \in q.held \ q.gone
      PROVE  OwnerRows(memberships', h) # {}
  <2>1. "account" \notin raced
    BY <1>6
  <2>2. PICK o \in OwnerRows(memberships, h) : TRUE
    BY <1>1, <2>1 DEF MemberInv, Secure, Owned
  <2>3. o \in Rows(memberships) /\ o.hh = h /\ o.role = "owner"
    BY DEF OwnerRows
  <2>4. CASE o.user # t
    BY <1>4, <2>4
  <2>5. CASE o.user = t
    <3>1. o = Row(h, t, "owner") /\ o \in Rows(q.listed)
      BY <1>1, <1>3, <1>6, <2>3, <2>5
    <3>2. Row(h, q.target, "owner") \in Rows(memberships) /\ ListedOwner(q, h)
      BY <2>3, <3>1 DEF ListedOwner, t
    <3>3. \/ \E m \in q.heirs : m.hh = h
          \/ \E m \in OwnerRows(memberships, h) : m.user # t
      BY <1>1, <2>1, <3>2 DEF Succeeded, t
    <3>4. QED
      BY <1>4, <1>5, <3>3
  <2>6. QED
    BY <2>4, <2>5
<1>7. ASSUME raced' \cap {"role", "account"} = {}, NEW h \in q.held \ q.gone,
             NEW m \in OwnerRows(memberships', h), NEW n \in OwnerRows(memberships', h)
      PROVE  m = n
  <2>1. "account" \notin raced' /\ raced \cap {"role", "account"} = {}
    BY <1>7
  <2>2. OnceOwned(h)
    BY <1>1, <2>1 DEF MemberInv, Secure
  <2>3. ASSUME NEW x \in OwnerRows(memberships', h)
        PROVE  x.hh = h /\ (x \in q.heirs \/ (x \in OwnerRows(memberships, h) /\ x.user # t))
    <3>1. x \in Rows(memberships') /\ x.hh = h /\ x.role = "owner"
      BY DEF OwnerRows
    <3>2. PICK y \in Rows(memberships) : Kin(x, y)
      BY <1>1, <3>1
    <3>3. QED
      BY <1>3, <3>1, <3>2 DEF OwnerRows
  <2>4. ASSUME NEW x \in q.heirs, x.hh = h, NEW y \in OwnerRows(memberships, h), y.user # t
        PROVE  FALSE
    <3>1. Row(h, t, "owner") \in Rows(q.listed)
      BY <1>1, <2>4 DEF HeirsFit, ListedOwner, t
    <3>2. Row(h, t, "owner") \in Rows(memberships)
      BY <1>1, <2>1, <3>1
    <3>3. Row(h, t, "owner") \in OwnerRows(memberships, h) /\ Row(h, t, "owner").user = t
      BY <3>2 DEF OwnerRows, Row
    <3>4. QED
      BY <2>2, <2>4, <3>3 DEF OnceOwned
  <2>5. CASE m \in q.heirs /\ n \in q.heirs
    BY <1>1, <2>3, <2>5 DEF HeirsFit
  <2>6. CASE m \notin q.heirs /\ n \notin q.heirs
    BY <2>2, <2>3, <2>6 DEF OnceOwned
  <2>7. QED
    BY <2>3, <2>4, <2>5, <2>6
<1>8. ActiveIsMember'
  <2> SUFFICES ASSUME "pointer" \notin raced', NEW u \in Users, Surviving(u)
               PROVE  Row(active'[u].hh, u, active'[u].role) \in Rows(memberships')
    BY DEF ActiveIsMember, Exists, Surviving
  <2>1. u # t /\ Exists(u)
    BY <1>2
  <2> DEFINE m == Row(active[u].hh, u, active[u].role)
  <2>2. m \in Rows(memberships)
    BY <2>1 DEF MemberInv, Secure, ActiveIsMember
  <2>3. m.hh = active[u].hh /\ m.user = u /\ m.role = active[u].role
    BY DEF Row
  <2> HIDE DEF m
  <2>4. active'[u].hh = m.hh /\ m.hh \notin q.gone
    BY <1>1, <1>2, <2>1, <2>3
  <2>5. Raised(q, m) \in Rows(memberships')
    BY <1>1, <2>1, <2>2, <2>3, <2>4
  <2>6. Row(active'[u].hh, u, active'[u].role) = Raised(q, m)
    <3>1. active'[u].role = IF Row(m.hh, m.user, "owner") \in q.heirs THEN "owner" ELSE m.role
      BY <1>2, <2>1, <2>3
    <3>2. m = Row(m.hh, u, m.role)
      BY <1>3, <2>2, <2>3
    <3>3. QED
      BY <2>3, <2>4, <3>1, <3>2 DEF Raised
  <2>7. QED
    BY <2>5, <2>6
<1>9. "account" \notin raced' => Untouched(q.held)
  BY DeletionSpares
<1>10. "account" \notin raced' => \A h \in households' \cap q.held : Owned(h)'
  BY <1>1, <1>6 DEF Owned
<1>11. raced' \cap {"role", "account"} = {} => \A h \in households' \cap q.held : OnceOwned(h)'
  BY <1>1, <1>7 DEF OnceOwned
<1>12. households' \subseteq households \cup q.held
  BY <1>1
<1>13. QED
  <2> DEFINE some == q.held
  <2>1. /\ "account" \notin raced' => Untouched(some)
        /\ "account" \notin raced' => \A h \in households' \cap some : Owned(h)'
        /\ raced' \cap {"role", "account"} = {} => \A h \in households' \cap some : OnceOwned(h)'
        /\ households' \subseteq households \cup some
    BY <1>9, <1>10, <1>11, <1>12
  <2> HIDE DEF some
  <2>2. QED
    BY <1>8, <2>1, ElsewhereSecure DEF MemberInv

LEMMA DeletionCommits ==
  ASSUME MemberInv, NEW r \in Slots, NEW q, q = request[r], q.phase # "none", Exists(q.target),
         CommitDelete(q), Finish(r)
  PROVE  MemberInv'
<1>1. Deletion(r, q)
  BY DeletionIs
<1>2. raced \subseteq raced' /\ ("pointer" \notin raced' => "pointer" \notin raced)
  BY Finishing
<1>3. /\ TablesTyped' /\ ~Surviving(q.target)
      /\ \A u \in Users \ {q.target} : Surviving(u) <=> Exists(u)
  BY <1>1, DeletionTables
<1>4. Secure'
  BY <1>1, <1>2, DeletionSecure
<1>5. /\ \A x \in Rows(memberships') : x.hh \notin q.held => x \in Rows(memberships)
      /\ \A m \in Rows(memberships) :
           m.hh \notin q.held /\ m.user # q.target => m \in Rows(memberships')
      /\ "account" \notin raced' => Untouched(q.held)
  BY <1>1, DeletionSpares
<1>6. /\ q.gone \subseteq q.held /\ households' = households \ q.gone
      /\ \A s \in Slots : \A m \in request[s].heirs : m.user # q.target
  BY <1>1 DEF Deletion
<1>7. ASSUME NEW s \in Slots \ {r}, request[s] \in RequestRecords PROVE Steady(request[s])
  <2>1. Shaped(request[s])
    BY <1>7, Idle DEF MemberInv, RequestsFit, RequestFits
  <2>2. request[s].held \cap q.held = {} /\ request[s].held \subseteq households
    BY <2>1 DEF MemberInv, RequestsFit, Shaped
  <2>3. \A m \in request[s].heirs : m.user # q.target
    BY <1>6
  <2>4. ASSUME NEW p, p = request[s] PROVE Steady(p)
    <3>1. p.held \cap q.held = {} /\ p.held \subseteq households'
      BY <1>6, <2>2, <2>4
    <3>2. \A u \in Users : Surviving(u) => Exists(u)
      BY <1>3
    <3>3. \A m \in Rows(memberships') : m.hh \in p.held => m \in Rows(memberships)
      BY <1>5, <3>1
    <3>4. ASSUME NEW m \in Rows(memberships), m.hh \in p.held, m \notin Rows(memberships')
          PROVE  /\ ~Surviving(m.user) /\ "account" \in raced'
                 /\ \A x \in p.heirs : x.user # m.user
      <4>1. m.hh \notin q.held
        BY <3>1, <3>4
      <4>2. m.user = q.target
        BY <1>5, <3>4, <4>1
      <4>3. "account" \in raced'
        BY <1>5, <3>4, <4>1 DEF Untouched
      <4>4. QED
        BY <1>3, <2>3, <2>4, <4>2, <4>3
    <3>5. QED
      BY <1>2, <3>1, <3>2, <3>3, <3>4 DEF Steady
  <2>5. QED
    BY <2>4
<1>8. QED
  BY <1>3, <1>4, <1>7, Committing

-----------------------------------------------------------------------------
(* Steps that no request takes                                             *)

\* They touch only households that nobody has locked, or new ones.
LEMMA Unasked ==
  ASSUME MemberInv, UNCHANGED <<request, raced>>, TablesTyped', Secure', NEW some, Untouched(some),
         \A h \in some \cap households : Free(h), households \ some \subseteq households',
         \A u \in Users : Surviving(u) => Exists(u)
  PROVE  MemberInv'
<1>1. ASSUME NEW s \in Slots PROVE RequestFits(request[s])'
  <2>1. CASE request[s] = NoRequest
    BY <2>1 DEF RequestFits, NoRequest
  <2>2. CASE request[s] # NoRequest
    <3>1. ASSUME NEW q, q = request[s] PROVE RequestFits(q)'
      <4>1. q \in RequestRecords /\ RequestFits(q) /\ Shaped(q)
        BY <2>2, <3>1 DEF MemberInv, RequestsFit, RequestFits
      <4>2. q.held \cap some = {}
        BY <3>1, <4>1 DEF Free, Shaped
      <4>3. Steady(q)
        BY <4>1, <4>2, ElsewhereSteady DEF MemberInv
      <4>4. QED
        BY <4>1, <4>3, Bystander DEF MemberInv
    <3>2. QED
      BY <3>1
  <2>3. QED
    BY <2>1, <2>2
<1>2. RequestsFit'
  BY <1>1 DEF MemberInv, RequestsFit
<1>3. QED
  BY <1>2 DEF MemberInv

LEMMA Declining ==
  ASSUME MemberInv, NEW i, TransitionInvite(i)
  PROVE  MemberInv'
<1>1. /\ UNCHANGED <<households, memberships, active, request, raced>> /\ invites' \subseteq invites
  BY DEF TransitionInvite
<1>2. TablesTyped' /\ Secure'
  BY <1>1 DEF MemberInv, TablesTyped, Secure, Exists, Owned, OnceOwned, ActiveIsMember
<1>3. Untouched({}) /\ \A u \in Users : Surviving(u) => Exists(u)
  BY <1>1 DEF Untouched, Surviving, Exists
<1>4. QED
  BY <1>1, <1>2, <1>3, Unasked

LEMMA Founded ==
  ASSUME MemberInv, NEW u \in Users, CreateHousehold(u)
  PROVE  MemberInv'
<1>1. PICK h \in Unused :
        /\ households' = households \cup {h}
        /\ memberships' = JoinHousehold(memberships, h, u, "owner")
        /\ active' = [active EXCEPT ![u] = Pointer(h, "owner")]
  BY DEF CreateHousehold
<1>2. Exists(u) /\ UNCHANGED <<invites, request, raced>>
  BY DEF CreateHousehold
<1>3. h \in Households \ households
  BY DEF Unused
<1> DEFINE new == Row(h, u, "owner")
<1>4. new \in Rowset /\ new.hh = h /\ new.user = u /\ new.role = "owner"
  BY <1>3, OwnerIsRole, RowFields
<1> HIDE DEF new
<1>5. /\ memberships' \in Seq(Rowset) /\ KeyedRows(memberships')
      /\ Rows(memberships') = {m \in Rows(memberships) : m.hh # h \/ m.user # u} \cup {new}
  BY <1>1, <1>3, TablesAre, OwnerIsRole, JoinRows DEF new
<1>6. Rows(memberships') = Rows(memberships) \cup {new}
  BY <1>3, <1>5, TablesAre
<1>7. /\ Pointer(h, "owner") \in [hh : households', role : Roles]
      /\ Pointer(h, "owner") # NoAccount
      /\ Pointer(h, "owner").hh = h /\ Pointer(h, "owner").role = "owner"
  BY <1>1, <1>3, OwnerIsRole, ParamsAssumption DEF Pointer, NoAccount
<1>8. /\ active' \in [Users -> [hh : households', role : Roles] \cup {NoAccount}]
      /\ active'[u] = Pointer(h, "owner") /\ \A v \in Users \ {u} : active'[v] = active[v]
  BY <1>1, <1>7, TablesAre
<1>9. \A v \in Users : Surviving(v) <=> Exists(v)
  BY <1>2, <1>7, <1>8 DEF Surviving, Exists
<1>10. TablesTyped'
  <2>1. households' \subseteq Households
    BY <1>1, <1>3, TablesAre
  <2>2. \A m \in Rows(memberships') : m.hh \in households' /\ Surviving(m.user)
    <3> SUFFICES ASSUME NEW m \in Rows(memberships') PROVE m.hh \in households' /\ Surviving(m.user)
      OBVIOUS
    <3>1. CASE m = new
      BY <1>1, <1>2, <1>4, <1>9, <3>1
    <3>2. CASE m \in Rows(memberships)
      BY <1>1, <1>9, <3>2, TablesAre, RowFields
    <3>3. QED
      BY <1>6, <3>1, <3>2
  <2>3. \A i \in invites' : i \in [from : Users, to : Users, hh : households'] /\ Surviving(i.to)
    BY <1>1, <1>2, <1>9, TablesAre
  <2>4. QED
    BY <1>5, <1>8, <2>1, <2>2, <2>3 DEF TablesTyped, Exists, Surviving
<1>11. Untouched({h})
  BY <1>4, <1>6 DEF Untouched
<1>12. OwnerRows(memberships', h) = {new}
  BY <1>3, <1>4, <1>6, TablesAre DEF OwnerRows
<1>13. ActiveIsMember'
  <2> SUFFICES ASSUME "pointer" \notin raced', NEW v \in Users, Surviving(v)
               PROVE  Row(active'[v].hh, v, active'[v].role) \in Rows(memberships')
    BY DEF ActiveIsMember, Exists, Surviving
  <2>1. CASE v = u
    BY <1>6, <1>7, <1>8, <2>1 DEF new
  <2>2. CASE v # u
    BY <1>2, <1>6, <1>8, <1>9, <2>2 DEF MemberInv, Secure, ActiveIsMember
  <2>3. QED
    BY <2>1, <2>2
<1>14. Secure'
  BY <1>1, <1>2, <1>11, <1>12, <1>13, ElsewhereSecure DEF MemberInv, Owned, OnceOwned
<1>15. QED
  BY <1>1, <1>2, <1>3, <1>9, <1>10, <1>11, <1>14, Unasked

\* What an acceptance comes to: came is the row of somebody who was no member, gone
\* the household merged, if any.
AcceptanceIs(i, gone, came, role) ==
  /\ i.hh \in households /\ i.to \in Users /\ Exists(i.to) /\ i.hh \notin gone
  /\ memberships' \in Seq(Rowset) /\ KeyedRows(memberships')
  /\ came \subseteq {Row(i.hh, i.to, "member")}
  /\ Rows(memberships') = {m \in Rows(memberships) \cup came : m.hh \notin gone}
  /\ role \in Roles /\ active' = [active EXCEPT ![i.to] = Pointer(i.hh, role)]
  /\ Row(i.hh, i.to, role) \in Rows(memberships')
  /\ \A u \in Users \ {i.to} : active[u].hh \notin gone
  /\ households' = households \ gone
  /\ invites' = {j \in invites \ {i} : j.hh \notin gone}

\* The memberships with the row of who accepts.
AcceptedIs(i, came, role) ==
  /\ Accepted(i) \in Seq(Rowset) /\ KeyedRows(Accepted(i))
  /\ came \subseteq {Row(i.hh, i.to, "member")}
  /\ Rows(Accepted(i)) = Rows(memberships) \cup came
  /\ role = RoleIn(Accepted(i), i.hh, i.to) /\ role \in Roles
  /\ Row(i.hh, i.to, role) \in Rows(Accepted(i))

LEMMA Welcomed ==
  ASSUME MemberInv, NEW i, i.hh \in households, i.to \in Users
  PROVE  \E came, role : AcceptedIs(i, came, role)
<1> DEFINE g == i.hh
           t == i.to
           came == IF IsMember(memberships, g, t) THEN {} ELSE {Row(g, t, "member")}
           joined == IF IsMember(memberships, g, t) THEN memberships
                     ELSE JoinHousehold(memberships, g, t, "member")
           role == RoleIn(joined, g, t)
<1>1. g \in Households /\ memberships \in Seq(Rowset) /\ KeyedRows(memberships)
  BY TablesAre
<1>2. Accepted(i) = joined
  BY DEF Accepted
<1>3. /\ joined \in Seq(Rowset) /\ KeyedRows(joined) /\ Rows(joined) = Rows(memberships) \cup came
      /\ IsMember(joined, g, t)
  <2>1. CASE IsMember(memberships, g, t)
    BY <1>1, <2>1
  <2>2. CASE ~IsMember(memberships, g, t)
    <3>1. /\ joined \in Seq(Rowset) /\ KeyedRows(joined)
          /\ Rows(joined) =
               {m \in Rows(memberships) : m.hh # g \/ m.user # t} \cup {Row(g, t, "member")}
      BY <1>1, <2>2, OwnerIsRole, JoinRows
    <3>2. {m \in Rows(memberships) : m.hh # g \/ m.user # t} = Rows(memberships)
      BY <2>2 DEF IsMember
    <3>3. Row(g, t, "member") \in Rows(joined)
      BY <3>1
    <3>4. Row(g, t, "member").hh = g /\ Row(g, t, "member").user = t
      BY DEF Row
    <3>5. IsMember(joined, g, t)
      BY <3>3, <3>4 DEF IsMember
    <3>6. came = {Row(g, t, "member")}
      BY <2>2
    <3>7. QED
      BY <3>1, <3>2, <3>5, <3>6
  <2>3. QED
    BY <2>1, <2>2
<1>4. came \subseteq {Row(g, t, "member")}
  OBVIOUS
<1> HIDE DEF joined, came
<1>5. Rows(joined) \subseteq Rowset
  BY <1>3, RowsTyped
<1>6. Row(g, t, role) \in Rows(joined) /\ role \in Roles
  BY <1>3, <1>5, RoleInRow
<1>7. AcceptedIs(i, came, role)
  BY <1>2, <1>3, <1>4, <1>6 DEF AcceptedIs
<1>8. QED
  BY <1>7

LEMMA Acceptance ==
  ASSUME MemberInv, NEW i \in invites, AcceptHouseholdInvite(i)
  PROVE  \E came, role : AcceptanceIs(i, {}, came, role)
<1>1. i.to \in Users /\ i.hh \in households /\ Exists(i.to)
  BY TablesAre
<1>2. PICK came, role : AcceptedIs(i, came, role)
  BY <1>1, Welcomed
<1>3. /\ memberships' = Accepted(i) /\ active' = [active EXCEPT ![i.to] = Pointer(i.hh, role)]
      /\ UNCHANGED households /\ invites' = invites \ {i}
  BY <1>2 DEF AcceptHouseholdInvite, AcceptedIs, Activated
<1>4. AcceptanceIs(i, {}, came, role)
  BY <1>1, <1>2, <1>3 DEF AcceptanceIs, AcceptedIs
<1>5. QED
  BY <1>4

\* A merge is an acceptance whose household to merge goes.
LEMMA Merger ==
  ASSUME MemberInv, NEW r \in Slots, NEW q, q = request[r], q.phase # "none", Exists(q.target),
         CommitMerge(q)
  PROVE  \E came, role : AcceptanceIs(q.accepted, {q.hh}, came, role)
<1> DEFINE i == q.accepted
           g == q.hh
           places == {k \in DOMAIN Accepted(i) : Accepted(i)[k].hh # g}
<1>1. /\ q.op = "merge" /\ memberships' = Kept(Accepted(i), places)
      /\ active' = [active EXCEPT ![i.to] = Activated(Accepted(i), i.hh, i.to)]
      /\ invites' = {j \in invites \ {i} : j.hh # g}
      /\ households' = households \ {g} /\ \A u \in Users : active'[u].hh # g
  BY DEF CommitMerge
<1>2. i.to \in Users /\ i.hh \in households /\ Exists(i.to) /\ i.hh # g
  <2>1. Shaped(q) /\ q \in RequestRecords
    BY Committed
  <2>2. QED
    BY <1>1, <2>1, RequestFields DEF Shaped
<1> HIDE DEF i
<1>3. PICK came, role : AcceptedIs(i, came, role)
  BY <1>2, Welcomed
<1>4. /\ Accepted(i) \in Seq(Rowset) /\ KeyedRows(Accepted(i))
      /\ came \subseteq {Row(i.hh, i.to, "member")}
      /\ Rows(Accepted(i)) = Rows(memberships) \cup came
      /\ role \in Roles /\ Row(i.hh, i.to, role) \in Rows(Accepted(i))
      /\ active' = [active EXCEPT ![i.to] = Pointer(i.hh, role)]
  BY <1>1, <1>3 DEF AcceptedIs, Activated
<1>5. /\ memberships' \in Seq(Rowset) /\ KeyedRows(memberships')
      /\ Rows(memberships') = {Accepted(i)[k] : k \in places}
  <2>1. places \in SUBSET DOMAIN Accepted(i)
    OBVIOUS
  <2> HIDE DEF places
  <2>2. QED
    BY <1>1, <1>4, <2>1, KeptRows
<1>6. {Accepted(i)[k] : k \in places} = {m \in Rows(Accepted(i)) : m.hh # g}
  BY DEF Rows
<1>7. Rows(memberships') = {m \in Rows(memberships) \cup came : m.hh \notin {g}}
  BY <1>4, <1>5, <1>6
<1>8. Row(i.hh, i.to, role) \in Rows(memberships')
  <2>1. Row(i.hh, i.to, role).hh = i.hh
    BY DEF Row
  <2>2. QED
    BY <1>2, <1>4, <1>5, <1>6, <2>1
<1>9. \A u \in Users \ {i.to} : active[u].hh \notin {g}
  BY <1>1, TablesAre
<1>10. AcceptanceIs(i, {g}, came, role)
  BY <1>1, <1>2, <1>4, <1>5, <1>7, <1>8, <1>9 DEF AcceptanceIs
<1>11. QED
  BY <1>10 DEF i

\* The tables after an acceptance.
LEMMA AcceptanceKeeps ==
  ASSUME MemberInv, NEW i, NEW gone, NEW came, NEW role, AcceptanceIs(i, gone, came, role),
         raced \subseteq raced', "pointer" \notin raced' => "pointer" \notin raced
  PROVE  /\ TablesTyped' /\ Secure' /\ Untouched({i.hh} \cup gone)
         /\ households \ ({i.hh} \cup gone) \subseteq households'
         /\ \A u \in Users : Surviving(u) <=> Exists(u)
<1> DEFINE g == i.hh
           t == i.to
           some == {g} \cup gone
<1>1. /\ memberships' \in Seq(Rowset) /\ KeyedRows(memberships')
      /\ came \subseteq {Row(g, t, "member")}
      /\ Rows(memberships') = {m \in Rows(memberships) \cup came : m.hh \notin gone}
      /\ g \notin gone /\ \A u \in Users \ {t} : active[u].hh \notin gone
  BY DEF AcceptanceIs
<1>2. /\ role \in Roles /\ active' = [active EXCEPT ![t] = Pointer(g, role)]
      /\ Row(g, t, role) \in Rows(memberships')
  BY DEF AcceptanceIs
<1>3. /\ households' = households \ gone
      /\ invites' \subseteq {j \in invites : j.hh \notin gone}
      /\ g \in households /\ t \in Users /\ Exists(t)
  BY DEF AcceptanceIs
<1>4. households \subseteq Households /\ g \in households /\ t \in Users /\ Exists(t)
  BY <1>3, TablesAre
<1>5. \A m \in came : m.hh = g /\ m.user = t /\ m.role = "member"
  BY <1>1 DEF Row
<1>6. /\ Pointer(g, role) \in [hh : households', role : Roles] /\ Pointer(g, role) # NoAccount
      /\ Pointer(g, role).hh = g /\ Pointer(g, role).role = role
  <2>1. /\ Pointer(g, role).hh = g /\ Pointer(g, role).role = role
        /\ Pointer(g, role) = [hh |-> g, role |-> role]
    BY DEF Pointer
  <2>2. g \in households'
    BY <1>1, <1>3, <1>4
  <2>3. QED
    BY <1>2, <1>4, <2>1, <2>2, TablesAre
<1>7. active \in [Users -> [hh : households, role : Roles] \cup {NoAccount}]
  BY TablesAre
<1>8. active'[t] = Pointer(g, role) /\ \A u \in Users \ {t} : active'[u] = active[u]
  BY <1>2, <1>4, <1>7
<1>9. active' \in [Users -> [hh : households', role : Roles] \cup {NoAccount}]
  <2>1. ASSUME NEW u \in Users PROVE active'[u] \in [hh : households', role : Roles] \cup {NoAccount}
    <3>1. CASE u = t
      BY <1>6, <1>8, <3>1
    <3>2. CASE u # t
      <4>1. active'[u] = active[u] /\ active[u].hh \notin gone
        BY <1>1, <1>8, <3>2
      <4>2. active[u] \in [hh : households, role : Roles] \/ active[u] = NoAccount
        BY <1>7
      <4>3. QED
        BY <1>3, <4>1, <4>2
    <3>3. QED
      BY <3>1, <3>2
  <2>2. active' = [u \in Users |-> active'[u]]
    BY <1>2, <1>7
  <2>3. QED
    BY <2>1, <2>2
<1>10. \A u \in Users : Surviving(u) <=> Exists(u)
  BY <1>4, <1>6, <1>8 DEF Surviving, Exists
<1>11. TablesTyped'
  <2>1. \A m \in Rows(memberships') : m.hh \in households' /\ Surviving(m.user)
    <3> SUFFICES ASSUME NEW m \in Rows(memberships') PROVE m.hh \in households' /\ Surviving(m.user)
      OBVIOUS
    <3>1. m.hh \notin gone
      BY <1>1
    <3>2. CASE m \in came
      BY <1>3, <1>4, <1>5, <1>10, <3>1, <3>2
    <3>3. CASE m \in Rows(memberships)
      BY <1>3, <1>10, <3>1, <3>3, TablesAre, RowFields
    <3>4. QED
      BY <1>1, <3>2, <3>3
  <2>2. \A j \in invites' : j \in [from : Users, to : Users, hh : households'] /\ Surviving(j.to)
    <3> SUFFICES ASSUME NEW j \in invites'
                 PROVE  j \in [from : Users, to : Users, hh : households'] /\ Surviving(j.to)
      OBVIOUS
    <3>1. j \in invites /\ j.hh \notin gone
      BY <1>3
    <3>2. j \in [from : Users, to : Users, hh : households] /\ j.to \in Users /\ Exists(j.to)
      BY <3>1, TablesAre
    <3>3. QED
      BY <1>3, <1>10, <3>1, <3>2
  <2>3. QED
    BY <1>1, <1>3, <1>4, <1>9, <2>1, <2>2 DEF TablesTyped, Exists, Surviving
<1>12. Untouched(some)
  BY <1>1, <1>5 DEF Untouched
<1>13. OwnerRows(memberships', g) = OwnerRows(memberships, g)
  BY <1>1, <1>5 DEF OwnerRows
<1>14. ActiveIsMember'
  <2> SUFFICES ASSUME "pointer" \notin raced', NEW u \in Users, Surviving(u)
               PROVE  Row(active'[u].hh, u, active'[u].role) \in Rows(memberships')
    BY DEF ActiveIsMember, Exists, Surviving
  <2>1. CASE u = t
    BY <1>2, <1>6, <1>8, <2>1
  <2>2. CASE u # t
    <3> DEFINE m == Row(active[u].hh, u, active[u].role)
    <3>1. m \in Rows(memberships)
      BY <1>3, <1>10 DEF MemberInv, Secure, ActiveIsMember
    <3>2. m.hh \notin gone
      BY <1>1, <2>2 DEF Row
    <3> HIDE DEF m
    <3>3. m \in Rows(memberships')
      BY <1>1, <3>1, <3>2
    <3>4. QED
      BY <1>8, <2>2, <3>3 DEF m
  <2>3. QED
    BY <2>1, <2>2
<1>15. "account" \notin raced' => \A h \in households' \cap some : Owned(h)'
  <2>1. "account" \notin raced' => Owned(g)
    BY <1>3, <1>4 DEF MemberInv, Secure
  <2>2. QED
    BY <1>3, <1>13, <2>1 DEF Owned
<1>16. raced' \cap {"role", "account"} = {} => \A h \in households' \cap some : OnceOwned(h)'
  <2>1. raced' \cap {"role", "account"} = {} => OnceOwned(g)
    BY <1>3, <1>4 DEF MemberInv, Secure
  <2>2. QED
    BY <1>3, <1>13, <2>1 DEF OnceOwned
<1>17. households' \subseteq households \cup some /\ households \ some \subseteq households'
  BY <1>1, <1>3
<1>18. Untouched({i.hh} \cup gone) /\ households \ ({i.hh} \cup gone) \subseteq households'
  BY <1>12, <1>17
<1> HIDE DEF some
<1>19. Secure'
  BY <1>3, <1>12, <1>14, <1>15, <1>16, <1>17, ElsewhereSecure DEF MemberInv
<1>20. QED
  BY <1>10, <1>11, <1>18, <1>19

LEMMA Accepting ==
  ASSUME MemberInv, NEW i \in invites, AcceptHouseholdInvite(i)
  PROVE  MemberInv'
<1>1. PICK came, role : AcceptanceIs(i, {}, came, role)
  BY Acceptance
<1>2. Free(i.hh) /\ UNCHANGED <<request, raced>>
  BY DEF AcceptHouseholdInvite, Acceptable
<1> DEFINE some == {i.hh} \cup {}
<1>3. /\ TablesTyped' /\ Secure' /\ Untouched(some) /\ households \ some \subseteq households'
      /\ \A u \in Users : Surviving(u) <=> Exists(u)
  BY <1>1, <1>2, AcceptanceKeeps
<1>4. \A h \in some \cap households : Free(h)
  BY <1>2
<1> HIDE DEF some
<1>5. QED
  BY <1>2, <1>3, <1>4, Unasked

LEMMA MergeCommits ==
  ASSUME MemberInv, NEW r \in Slots, NEW q, q = request[r], q.phase # "none", Exists(q.target),
         CommitMerge(q), Finish(r)
  PROVE  MemberInv'
<1> DEFINE some == {q.accepted.hh} \cup {q.hh}
<1>1. PICK came, role : AcceptanceIs(q.accepted, {q.hh}, came, role)
  BY Merger
<1>2. raced \subseteq raced' /\ ("pointer" \notin raced' => "pointer" \notin raced)
  BY Finishing
<1>3. /\ TablesTyped' /\ Secure' /\ Untouched(some) /\ households \ some \subseteq households'
      /\ \A u \in Users : Surviving(u) <=> Exists(u)
  BY <1>1, <1>2, AcceptanceKeeps
<1>4. Free(q.hh) /\ q.op = "merge" /\ q.held = {q.accepted.hh}
  <2>1. Free(q.hh) /\ q.op = "merge"
    BY DEF CommitMerge
  <2>2. QED
    BY <2>1, Committed DEF Shaped
<1>5. ASSUME NEW s \in Slots \ {r}, request[s] \in RequestRecords PROVE Steady(request[s])
  <2>1. Shaped(request[s])
    BY <1>5, Idle DEF MemberInv, RequestsFit, RequestFits
  <2>2. request[s].held \cap request[r].held = {}
    BY DEF MemberInv, RequestsFit
  <2>3. request[s].held \cap some = {}
    BY <1>4, <2>2 DEF Free
  <2> HIDE DEF some
  <2>4. ASSUME NEW p, p = request[s] PROVE Steady(p)
    BY <1>2, <1>3, <1>5, <2>1, <2>3, <2>4, ElsewhereSteady DEF MemberInv
  <2>5. QED
    BY <2>4
<1>6. QED
  BY <1>3, <1>5, Committing

LEMMA Commits ==
  ASSUME MemberInv, NEW r \in Slots, Commit(r)
  PROVE  MemberInv'
<1> DEFINE q == request[r]
<1>1. /\ q.phase # "none" /\ Exists(q.target) /\ Finish(r)
      /\ \/ /\ q.phase = "begun"
            /\ CommitInvite(q) \/ CommitSwitch(q) \/ CommitDelete(q) \/ CommitMerge(q)
         \/ q.phase = "locked" /\ (\/ CommitSetRole(q) \/ CommitTransfer(q)
                                   \/ CommitRemove(q) \/ CommitLeave(q))
  BY DEF Commit
<1>2. q = request[r]
  OBVIOUS
<1> HIDE DEF q
<1>3. CASE /\ q.phase = "begun"
           /\ CommitInvite(q) \/ CommitSwitch(q) \/ CommitDelete(q) \/ CommitMerge(q)
  BY <1>1, <1>2, <1>3, InviteCommits, SwitchCommits, DeletionCommits,
     MergeCommits
<1>4. CASE q.phase = "locked" /\ (\/ CommitSetRole(q) \/ CommitTransfer(q)
                                  \/ CommitRemove(q) \/ CommitLeave(q))
  BY <1>1, <1>2, <1>4, SetRoleCommits, TransferCommits, DepartureCommits
<1>5. QED
  BY <1>1, <1>3, <1>4
-----------------------------------------------------------------------------
(* Membership: who owns what                                               *)

LEMMA FoundingFits == Init => MemberInv
<1> SUFFICES ASSUME Init PROVE MemberInv
  OBVIOUS
<1>1. /\ memberships = Founding /\ households = {m.hh : m \in Rows(Founding)}
      /\ active = [u \in Users |-> Pointer(Pointed[u], RoleIn(Founding, Pointed[u], u))]
      /\ invites = Invited /\ request = [r \in Slots |-> NoRequest] /\ raced = {}
  BY DEF Init
<1>2. Founding \in Seq(Rowset) /\ KeyedRows(Founding)
  BY FoundingAssumption DEF Rowset, KeyedRows
<1>3. Rows(Founding) \subseteq Rowset
  BY <1>2, RowsTyped
<1>4. \A m \in Rows(Founding) : m.hh \in Households
  BY <1>3, RowFields
<1>5. ASSUME NEW u \in Users
      PROVE  /\ active[u] \in [hh : households, role : Roles] /\ active[u].hh \in households
             /\ Row(active[u].hh, u, active[u].role) \in Rows(Founding)
  <2>1. IsMember(Founding, Pointed[u], u)
    BY FoundingAssumption
  <2>2. /\ Row(Pointed[u], u, RoleIn(Founding, Pointed[u], u)) \in Rows(Founding)
        /\ RoleIn(Founding, Pointed[u], u) \in Roles
    BY <1>3, <2>1, RoleInRow
  <2>3. Pointed[u] \in households
    BY <1>1, <2>1 DEF IsMember
  <2>4. active[u] = Pointer(Pointed[u], RoleIn(Founding, Pointed[u], u))
    BY <1>1
  <2>5. active[u].hh = Pointed[u] /\ active[u].role = RoleIn(Founding, Pointed[u], u)
    BY <2>4 DEF Pointer
  <2>6. QED
    BY <2>2, <2>3, <2>4, <2>5 DEF Pointer
<1>6. \A u \in Users : Exists(u)
  <2>1. None \notin households /\ NoAccount.hh = None
    BY <1>1, <1>4, ParamsAssumption DEF NoAccount, Pointer
  <2>2. QED
    BY <1>5, <2>1 DEF Exists
<1>7. active \in [Users -> [hh : households, role : Roles] \cup {NoAccount}]
  <2>1. active = [u \in Users |-> active[u]]
    BY <1>1
  <2>2. \A u \in Users : active[u] \in [hh : households, role : Roles] \cup {NoAccount}
    BY <1>5
  <2>3. QED
    BY <2>1, <2>2
<1>8. \A m \in Rows(memberships) : m.hh \in households /\ Exists(m.user)
  BY <1>1, <1>3, <1>6, RowFields
<1>9. Invited \subseteq [from : Users, to : Users, hh : households]
  BY <1>1, FoundingAssumption
<1>10. TablesTyped
  BY <1>1, <1>2, <1>4, <1>6, <1>7, <1>8, <1>9 DEF TablesTyped
<1>11. ASSUME NEW h \in households PROVE Owned(h) /\ OnceOwned(h)
  <2>1. PICK m \in Rows(Founding) : m.hh = h
    BY <1>1
  <2>2. \E o \in Rows(Founding) : o.hh = h /\ o.role = "owner"
    BY <2>1, FoundingAssumption
  <2>3. \A o, n \in Rows(Founding) :
          o.hh = h /\ n.hh = h /\ o.role = "owner" /\ n.role = "owner" => o = n
    BY FoundingAssumption
  <2>4. QED
    BY <1>1, <2>2, <2>3 DEF Owned, OnceOwned, OwnerRows
<1>12. Secure
  BY <1>1, <1>5, <1>11 DEF Secure, ActiveIsMember
<1>13. RequestsFit
  BY <1>1, Idle DEF RequestsFit, RequestFits
<1>14. QED
  BY <1>10, <1>12, <1>13 DEF MemberInv

LEMMA MemberSteps == MemberInv /\ [Next]_vars => MemberInv'
<1>1. ASSUME MemberInv, NEW r \in Slots,
             \/ \E u \in Users : UserActs(r, u)
             \/ \E i \in invites : \E h \in households : AcceptAndMerge(r, i, h)
             \/ LockHousehold(r) \/ ClassifyMembership(r) \/ Commit(r) \/ Reject(r)
      PROVE  MemberInv'
  BY <1>1, UserActing, Merges, Locked, Classified, Commits, Rejecting
<1>2. ASSUME MemberInv, NEW i \in invites, AcceptHouseholdInvite(i) \/ TransitionInvite(i)
      PROVE  MemberInv'
  BY <1>2, Accepting, Declining
<1>3. ASSUME MemberInv, NEW u \in Users, CreateHousehold(u) PROVE MemberInv'
  BY <1>3, Founded
<1>4. ASSUME MemberInv, UNCHANGED vars PROVE MemberInv'
  <2>1. UNCHANGED <<households, memberships, active, invites, request, raced>>
    BY <1>4 DEF vars, db
  <2>2. TablesTyped' /\ Secure'
    BY <1>4, <2>1 DEF MemberInv, TablesTyped, Secure, Exists, Owned, OnceOwned, ActiveIsMember
  <2>3. Untouched({}) /\ \A u \in Users : Surviving(u) => Exists(u)
    BY <2>1 DEF Untouched, Surviving, Exists
  <2>4. QED
    BY <1>4, <2>1, <2>2, <2>3, Unasked
<1>5. QED
  BY <1>1, <1>2, <1>3, <1>4 DEF Next

LEMMA MemberInvSuffices == MemberInv => HouseholdsConsistent
<1> SUFFICES ASSUME MemberInv PROVE HouseholdsConsistent
  OBVIOUS
<1>1. TypeOK
  <2>1. \A m \in Rows(memberships) :
          m \in [hh : households, user : {u \in Users : Exists(u)}, role : Roles]
    BY TablesAre DEF Rowset
  <2>2. \A i \in DOMAIN memberships : memberships[i] \in Rows(memberships)
    BY DEF Rows
  <2>3. \A i, j \in DOMAIN memberships : i # j =>
          <<memberships[i].hh, memberships[i].user>> # <<memberships[j].hh, memberships[j].user>>
    BY TablesAre DEF KeyedRows
  <2>4. QED
    BY <2>1, <2>2, <2>3 DEF TypeOK, MemberInv, TablesTyped
<1>2. ASSUME NEW h \in households, Owned(h) PROVE Owners(h) # {}
  BY <1>2 DEF Owned, OwnerRows, Owners
<1>3. ASSUME NEW h \in households, OnceOwned(h) PROVE Cardinality(Owners(h)) <= 1
  <2>1. CASE OwnerRows(memberships, h) = {}
    <3>1. Owners(h) = {}
      BY <2>1 DEF OwnerRows, Owners
    <3>2. QED
      BY <3>1, FS_EmptySet
  <2>2. CASE OwnerRows(memberships, h) # {}
    <3>1. PICK m \in OwnerRows(memberships, h) : OwnerRows(memberships, h) = {m}
      BY <1>3, <2>2 DEF OnceOwned
    <3>2. Owners(h) = {m.user}
      BY <3>1 DEF OwnerRows, Owners
    <3>3. Cardinality(Owners(h)) = 1
      BY <3>2, FS_Singleton
    <3>4. QED
      BY <3>3
  <2>3. QED
    BY <2>1, <2>2
<1>4. OwnedUnlessRaced /\ SingleOwnerUnlessRaced
  BY <1>2, <1>3 DEF MemberInv, Secure, OwnedUnlessRaced, OwnedHouseholds,
                    SingleOwnerUnlessRaced, SingleOwner
<1>5. QED
  BY <1>1, <1>4 DEF HouseholdsConsistent, OwnersKept, MemberInv, Secure

LEMMA MembersFit == Spec => []MemberInv
<1>1. QED
  BY FoundingFits, MemberSteps, PTL DEF Spec

\* However leaves, removals, transfers, role changes, merges, new households and
\* deleted accounts overlap, the tables agree, a household that exists has an
\* owner, and one only, and every active pointer is a membership with its role
\* (promoteSuccessor, requireHouseholdRole, migration 0053), unless a commit has
\* used something that it had read without the household's row lock.
THEOREM HouseholdsStayOwned == Spec => []HouseholdsConsistent
BY MembersFit, MemberInvSuffices, PTL
-----------------------------------------------------------------------------
(* Membership: who comes, who goes and who loses a household               *)

Lawful ==
  /\ OnlyByInvite /\ RetiredInvites
  /\ raced' \cap {"account", "merge"} = {} => NobodyLosesIt

\* The invite that a merge has accepted is pending, and who sent it stays.
InviteKept(q) ==
  q # NoRequest /\ q.op = "merge" =>
    q.accepted \in invites /\ IsMember(memberships, q.accepted.hh, q.accepted.from)
InvitesKept == \A r \in Slots : InviteKept(request[r])

\* A step that neither brings anybody in nor takes anybody out of what exists.
LEMMA SameMembers ==
  ASSUME households \subseteq households',
         \A h \in households, u \in Users :
           "pointer" \notin raced /\ IsMember(memberships', h, u) => IsMember(memberships, h, u),
         \A h \in households, u \in Users :
           IsMember(memberships, h, u) => IsMember(memberships', h, u)
  PROVE  Lawful
<1>1. OnlyByInvite /\ RetiredInvites
  BY DEF OnlyByInvite, RetiredInvites
<1>2. NobodyLosesIt
  BY DEF NobodyLosesIt
<1>3. QED
  BY <1>1, <1>2 DEF Lawful

LEMMA SameTable ==
  ASSUME UNCHANGED memberships, households \subseteq households' PROVE Lawful
BY SameMembers

LEMMA JoinMembers ==
  ASSUME NEW ms \in Seq(Rowset), KeyedRows(ms),
         NEW h \in Households, NEW u \in Users, NEW role \in Roles, NEW g, NEW v
  PROVE  IsMember(JoinHousehold(ms, h, u, role), g, v) <=>
           IsMember(ms, g, v) \/ (g = h /\ v = u)
<1> DEFINE joined == JoinHousehold(ms, h, u, role)
<1>1. Rows(joined) = {m \in Rows(ms) : m.hh # h \/ m.user # u} \cup {Row(h, u, role)}
  BY JoinRows
<1>2. Row(h, u, role).hh = h /\ Row(h, u, role).user = u
  BY DEF Row
<1> HIDE DEF joined
<1>3. IsMember(joined, g, v) <=> IsMember(ms, g, v) \/ (g = h /\ v = u)
  BY <1>1, <1>2 DEF IsMember
<1>4. QED
  BY <1>3 DEF joined

\* A role is given to somebody who is a member, and taken from a caller whose
\* pointer is on the household.
LEMMA RolesKeepMembers ==
  ASSUME MemberInv, NEW r \in Slots, NEW q, q = request[r], q.phase = "locked", Exists(q.target),
         CommitSetRole(q) \/ CommitTransfer(q)
  PROVE  /\ UNCHANGED <<households, invites>>
         /\ \A g, u : IsMember(memberships, g, u) => IsMember(memberships', g, u)
         /\ \A g, u : "pointer" \notin raced /\ IsMember(memberships', g, u) =>
                        IsMember(memberships, g, u)
<1> DEFINE h == q.hh
           t == q.target
           v == q.by
<1>1. /\ q \in RequestRecords /\ h \in Households /\ h \in households /\ t \in Users /\ v \in Users
      /\ IsMember(memberships, h, t)
  BY CommittedLocked
<1>2. memberships \in Seq(Rowset) /\ KeyedRows(memberships)
  BY TablesAre
<1>3. ASSUME CommitSetRole(q)
      PROVE  /\ UNCHANGED households
             /\ \A g, u : IsMember(memberships', g, u) <=> IsMember(memberships, g, u)
  <2>1. /\ UNCHANGED households /\ memberships' = JoinHousehold(memberships, h, t, q.role)
        /\ q.op = "set_role"
    BY <1>3 DEF CommitSetRole
  <2>2. q.role \in Roles
    BY <2>1, CommittedLocked, Committed, RequestFields, OwnerIsRole DEF Shaped
  <2>3. \A g, u : IsMember(memberships', g, u) <=> IsMember(memberships, g, u) \/ (g = h /\ u = t)
    BY <1>1, <1>2, <2>1, <2>2, JoinMembers
  <2>4. QED
    BY <1>1, <2>1, <2>3
<1>4. ASSUME CommitTransfer(q)
      PROVE  /\ UNCHANGED households
             /\ \A g, u : IsMember(memberships, g, u) => IsMember(memberships', g, u)
             /\ \A g, u : "pointer" \notin raced /\ IsMember(memberships', g, u) =>
                            IsMember(memberships, g, u)
  <2> DEFINE given == JoinHousehold(memberships, h, t, "owner")
  <2>1. /\ UNCHANGED households /\ memberships' = JoinHousehold(given, h, v, "member")
        /\ active[v].hh = h
    BY <1>4 DEF CommitTransfer
  <2>2. given \in Seq(Rowset) /\ KeyedRows(given)
    BY <1>1, <1>2, OwnerIsRole, JoinRows
  <2>3. \A g, u : IsMember(given, g, u) <=> IsMember(memberships, g, u) \/ (g = h /\ u = t)
    BY <1>1, <1>2, OwnerIsRole, JoinMembers
  <2> HIDE DEF given, h, t, v
  <2>4. \A g, u : IsMember(memberships', g, u) <=> IsMember(given, g, u) \/ (g = h /\ u = v)
    BY <1>1, <2>1, <2>2, OwnerIsRole, JoinMembers
  <2>5. "pointer" \notin raced => IsMember(memberships, h, v)
    <3> SUFFICES ASSUME "pointer" \notin raced PROVE IsMember(memberships, h, v)
      OBVIOUS
    <3>1. Exists(v)
      BY <1>1, <2>1, TablesAre
    <3>2. Row(h, v, active[v].role) \in Rows(memberships)
      BY <1>1, <2>1, <3>1 DEF MemberInv, Secure, ActiveIsMember
    <3>3. Row(h, v, active[v].role).hh = h /\ Row(h, v, active[v].role).user = v
      BY DEF Row
    <3>4. QED
      BY <3>2, <3>3 DEF IsMember
  <2>6. IsMember(memberships, h, t)
    BY <1>1 DEF h, t
  <2>7. \A g, u : IsMember(memberships, g, u) => IsMember(memberships', g, u)
    BY <2>3, <2>4
  <2>8. \A g, u : "pointer" \notin raced /\ IsMember(memberships', g, u) => IsMember(memberships, g, u)
    BY <2>3, <2>4, <2>5, <2>6
  <2>9. QED
    BY <2>1, <2>7, <2>8
<1>5. UNCHANGED invites
  BY DEF CommitSetRole, CommitTransfer
<1>6. QED
  BY <1>3, <1>4, <1>5

\* A departure takes the target out of one household and closes its invites there.
LEMMA DepartureMembers ==
  ASSUME MemberInv, NEW r \in Slots, NEW q, q = request[r], q.phase = "locked", Exists(q.target),
         CommitLeave(q) \/ CommitRemove(q), Finish(r)
  PROVE  /\ \A g \in households, u \in Users :
              IsMember(memberships', g, u) => IsMember(memberships, g, u)
         /\ \A g, u : IsMember(memberships, g, u) /\ (g # q.hh \/ u # q.target) =>
                        IsMember(memberships', g, u)
         /\ invites' = {i \in invites \ Cancelled(q.hh, q.target) : i.hh \notin q.gone}
         /\ households \ q.gone \subseteq households' /\ households \ households' \subseteq q.gone
         /\ q.held = {q.hh} /\ q.gone \subseteq {q.hh} /\ GoneAlone(q)
         /\ q.gone # {} => q.by = q.target
         /\ IsMember(memberships, q.hh, q.target)
         /\ request[r] # NoRequest /\ request'[r] = NoRequest
<1> DEFINE h == q.hh
           t == q.target
<1>1. q.op \in {"leave", "remove"} /\ Depart(q)
  BY DEF CommitLeave, CommitRemove
<1>2. PICK fresh, ptr : DepartureIs(q, fresh, ptr)
  BY <1>1, Departed
<1>3. /\ q \in RequestRecords /\ q.held = {h} /\ q.gone \subseteq {h} /\ q.heirs \subseteq Rowset
      /\ q.op = "leave" => q.by = t
      /\ q.op = "remove" => q.gone = {}
      /\ GoneAlone(q) /\ IsMember(memberships, h, t) /\ h \in households
      /\ \A x \in q.heirs : x.hh = h /\ x.role = "owner"
  <2>1. Shaped(q) /\ GoneAlone(q)
    BY Committed
  <2>2. /\ q \in RequestRecords /\ q.held = {h} /\ IsMember(memberships, h, t) /\ h \in households
        /\ q.op # "leave" => q.gone = {}
        /\ \A x \in q.heirs : x.hh = h /\ x.role = "owner"
    BY CommittedLocked
  <2>3. QED
    BY <2>1, <2>2, RequestFields DEF Shaped
<1>4. /\ \A x \in Rows(Left(q)) : \E m \in Rows(memberships) : m.hh = x.hh /\ m.user = x.user
      /\ \A m \in Rows(memberships) : m.hh # h \/ m.user # t => Raised(q, m) \in Rows(Left(q))
  BY <1>3, LeftIs
<1>5. /\ fresh \cap households = {} /\ households' = (households \cup fresh) \ q.gone
      /\ Rows(memberships') = Rows(Left(q)) \cup {Row(f, t, "owner") : f \in fresh}
      /\ invites' = {i \in invites \ Cancelled(h, t) : i.hh \notin q.gone}
  BY <1>2 DEF DepartureIs
<1>6. request[r] # NoRequest /\ request'[r] = NoRequest
  <2>1. request' = [request EXCEPT ![r] = NoRequest]
    BY DEF Finish
  <2>2. QED
    BY <2>1, CommittedLocked, Committed DEF NoRequest, MemberInv, RequestsFit
<1> HIDE DEF h, t
<1>7. ASSUME NEW g \in households, NEW u, IsMember(memberships', g, u) PROVE IsMember(memberships, g, u)
  <2>1. PICK x \in Rows(memberships') : x.hh = g /\ x.user = u
    BY <1>7 DEF IsMember
  <2>2. \A f : Row(f, t, "owner").hh = f
    BY DEF Row
  <2>3. x \in Rows(Left(q))
    BY <1>5, <1>7, <2>1, <2>2
  <2>4. QED
    BY <1>4, <2>1, <2>3 DEF IsMember
<1>8. ASSUME NEW g, NEW u, IsMember(memberships, g, u), g # h \/ u # t
      PROVE  IsMember(memberships', g, u)
  <2>1. PICK m \in Rows(memberships) : m.hh = g /\ m.user = u
    BY <1>8 DEF IsMember
  <2>2. Raised(q, m) \in Rows(memberships')
    BY <1>4, <1>5, <1>8, <2>1
  <2>3. Raised(q, m).hh = g /\ Raised(q, m).user = u
    BY <2>1, TablesAre, RaisedFields
  <2>4. QED
    BY <2>2, <2>3 DEF IsMember
<1>9. q.gone # {} => q.by = t
  BY <1>1, <1>3
<1>10. QED
  BY <1>3, <1>5, <1>6, <1>7, <1>8, <1>9 DEF h, t

LEMMA DepartureLawful ==
  ASSUME MemberInv, NEW r \in Slots, NEW q, q = request[r], q.phase = "locked", Exists(q.target),
         CommitLeave(q) \/ CommitRemove(q), Finish(r)
  PROVE  Lawful
<1> DEFINE h == q.hh
           t == q.target
<1>1. /\ \A g \in households, u \in Users :
           IsMember(memberships', g, u) => IsMember(memberships, g, u)
      /\ \A g, u : IsMember(memberships, g, u) /\ (g # h \/ u # t) => IsMember(memberships', g, u)
      /\ invites' = {i \in invites \ Cancelled(h, t) : i.hh \notin q.gone}
      /\ households \ households' \subseteq q.gone
      /\ q.gone \subseteq {h} /\ GoneAlone(q)
      /\ q.gone # {} => q.by = t
      /\ IsMember(memberships, h, t)
      /\ request[r] # NoRequest /\ request'[r] = NoRequest
  BY DepartureMembers
<1> HIDE DEF h, t
<1>2. OnlyByInvite
  BY <1>1 DEF OnlyByInvite
<1>3. RetiredInvites
  <2> SUFFICES ASSUME NEW u \in Users, NEW g \in households,
                      IsMember(memberships, g, u), ~IsMember(memberships', g, u),
                      NEW i \in invites', i.hh = g, u \in {i.from, i.to}
               PROVE  FALSE
    BY DEF RetiredInvites
  <2>1. g = h /\ u = t
    BY <1>1
  <2>2. QED
    BY <1>1, <2>1 DEF Cancelled
<1>4. NobodyLosesIt
  <2> SUFFICES ASSUME NEW g \in households \ households', NEW u \in Users, IsMember(memberships, g, u)
               PROVE  EndedBy(u)
    BY DEF NobodyLosesIt
  <2>1. g \in q.gone /\ g = h
    BY <1>1
  <2>2. u = t
    BY <1>1, <2>1 DEF GoneAlone, IsMember
  <2>3. request[r].by = u
    BY <1>1, <2>1, <2>2
  <2>4. QED
    BY <1>1, <2>3 DEF EndedBy
<1>5. QED
  BY <1>2, <1>3, <1>4 DEF Lawful

\* A deletion takes its user out of every household, and closes its invites.
LEMMA DeletionMembers ==
  ASSUME MemberInv, NEW r \in Slots, NEW q, q = request[r], q.phase # "none", Exists(q.target),
         CommitDelete(q), Finish(r)
  PROVE  /\ \A g, u : IsMember(memberships', g, u) <=>
                        IsMember(memberships, g, u) /\ u # q.target /\ g \notin q.gone
         /\ invites' = {i \in invites : q.target \notin {i.from, i.to} /\ i.hh \notin q.gone}
         /\ households' = households \ q.gone
         /\ GoneAlone(q) /\ q.gone \subseteq q.held /\ q.by = q.target
         /\ q.held = {m.hh : m \in Rows(q.listed)}
         /\ "account" \notin raced' => Rows(q.listed) = {m \in Rows(memberships) : m.user = q.target}
         /\ request[r] # NoRequest /\ request'[r] = NoRequest
<1> DEFINE t == q.target
<1>1. /\ q.op = "delete" /\ GoneAlone(q) /\ q.gone \subseteq q.held
      /\ \A x : x \in Rows(memberships') <=>
           \E m \in Rows(memberships) : x = Raised(q, m) /\ m.user # t /\ m.hh \notin q.gone
      /\ households' = households \ q.gone
      /\ invites' = {i \in invites : t \notin {i.from, i.to} /\ i.hh \notin q.gone}
      /\ q.held = {m.hh : m \in Rows(q.listed)}
      /\ "account" \notin raced' => Rows(q.listed) = {m \in Rows(memberships) : m.user = t}
  <2>1. Deletion(r, q)
    BY DeletionIs
  <2>2. QED
    BY <2>1 DEF Deletion
<1>2. q.by = t /\ request[r] # NoRequest
  BY <1>1, Committed DEF Shaped
<1>3. request'[r] = NoRequest
  <2>1. request' = [request EXCEPT ![r] = NoRequest]
    BY DEF Finish
  <2>2. QED
    BY <2>1 DEF MemberInv, RequestsFit
<1> HIDE DEF t
<1>4. \A m \in Rows(memberships) : Raised(q, m).hh = m.hh /\ Raised(q, m).user = m.user
  BY TablesAre, RaisedFields
<1>5. ASSUME NEW g, NEW u
      PROVE  IsMember(memberships', g, u) <=> IsMember(memberships, g, u) /\ u # t /\ g \notin q.gone
  <2>1. ASSUME IsMember(memberships', g, u)
        PROVE  IsMember(memberships, g, u) /\ u # t /\ g \notin q.gone
    BY <1>1, <1>4, <2>1 DEF IsMember
  <2>2. ASSUME IsMember(memberships, g, u), u # t, g \notin q.gone
        PROVE  IsMember(memberships', g, u)
    <3>1. PICK m \in Rows(memberships) : m.hh = g /\ m.user = u
      BY <2>2 DEF IsMember
    <3>2. Raised(q, m) \in Rows(memberships')
      BY <1>1, <2>2, <3>1
    <3>3. QED
      BY <1>4, <3>1, <3>2 DEF IsMember
  <2>3. QED
    BY <2>1, <2>2
<1>6. QED
  BY <1>1, <1>2, <1>3, <1>5 DEF t

LEMMA DeletionLawful ==
  ASSUME MemberInv, NEW r \in Slots, NEW q, q = request[r], q.phase # "none", Exists(q.target),
         CommitDelete(q), Finish(r)
  PROVE  Lawful
<1> DEFINE t == q.target
<1>1. /\ \A g, u : IsMember(memberships', g, u) <=>
                     IsMember(memberships, g, u) /\ u # t /\ g \notin q.gone
      /\ invites' = {i \in invites : t \notin {i.from, i.to} /\ i.hh \notin q.gone}
      /\ households' = households \ q.gone
      /\ GoneAlone(q) /\ q.gone \subseteq q.held /\ q.by = t
      /\ q.held = {m.hh : m \in Rows(q.listed)}
      /\ "account" \notin raced' => Rows(q.listed) = {m \in Rows(memberships) : m.user = t}
      /\ request[r] # NoRequest /\ request'[r] = NoRequest
  BY DeletionMembers
<1> HIDE DEF t
<1>2. OnlyByInvite
  BY <1>1 DEF OnlyByInvite
<1>3. RetiredInvites
  BY <1>1 DEF RetiredInvites
<1>4. "account" \notin raced' => NobodyLosesIt
  <2> SUFFICES ASSUME "account" \notin raced', NEW g \in households \ households', NEW u \in Users,
                      IsMember(memberships, g, u)
               PROVE  EndedBy(u)
    BY DEF NobodyLosesIt
  <2>1. g \in q.gone /\ g \in q.held
    BY <1>1
  <2>2. PICK m \in Rows(memberships) : m.hh = g /\ m.user = t
    BY <1>1, <2>1
  <2>3. u = t
    BY <1>1, <2>1, <2>2 DEF GoneAlone, IsMember
  <2>4. QED
    BY <1>1, <2>3 DEF EndedBy
<1>5. QED
  BY <1>2, <1>3, <1>4 DEF Lawful

\* Who accepts an invite that is pending, with its sender still there, comes in by it.
LEMMA AcceptanceIn ==
  ASSUME MemberInv, NEW i \in invites, NEW gone, NEW came, NEW role,
         AcceptanceIs(i, gone, came, role), IsMember(memberships, i.hh, i.from)
  PROVE  OnlyByInvite /\ RetiredInvites
<1> DEFINE g == i.hh
           t == i.to
<1>1. /\ came \subseteq {Row(g, t, "member")} /\ g \notin gone
      /\ Rows(memberships') = {m \in Rows(memberships) \cup came : m.hh \notin gone}
      /\ i \notin invites' /\ \A j \in invites' : j.hh \notin gone
  BY DEF AcceptanceIs
<1>2. IsMember(memberships, g, i.from) /\ g = i.hh /\ t = i.to
  OBVIOUS
<1> HIDE DEF g, t
<1>3. OnlyByInvite
  <2> SUFFICES ASSUME NEW u \in Users, NEW h \in households,
                      IsMember(memberships', h, u), ~IsMember(memberships, h, u)
               PROVE  \E j \in invites \ invites' : /\ j.to = u /\ j.hh = h
                                                    /\ IsMember(memberships, h, j.from)
    BY DEF OnlyByInvite
  <2>1. PICK m \in Rows(memberships') : m.hh = h /\ m.user = u
    BY DEF IsMember
  <2>2. m = Row(g, t, "member")
    BY <1>1, <2>1 DEF IsMember
  <2>3. h = g /\ u = t
    BY <2>1, <2>2 DEF Row
  <2>4. QED
    BY <1>1, <1>2, <2>3
<1>4. RetiredInvites
  <2> SUFFICES ASSUME NEW u \in Users, NEW h \in households,
                      IsMember(memberships, h, u), ~IsMember(memberships', h, u)
               PROVE  h \in gone
    BY <1>1 DEF RetiredInvites
  <2>1. QED
    BY <1>1 DEF IsMember
<1>5. QED
  BY <1>3, <1>4

LEMMA AcceptanceLawful ==
  ASSUME MemberInv, NEW i \in invites, AcceptHouseholdInvite(i)
  PROVE  Lawful
<1>1. PICK came, role : AcceptanceIs(i, {}, came, role)
  BY Acceptance
<1>2. IsMember(memberships, i.hh, i.from) /\ UNCHANGED households
  BY DEF AcceptHouseholdInvite, Acceptable, InviterStays
<1>3. OnlyByInvite /\ RetiredInvites
  BY <1>1, <1>2, AcceptanceIn
<1>4. NobodyLosesIt
  BY <1>2 DEF NobodyLosesIt
<1>5. QED
  BY <1>3, <1>4 DEF Lawful

\* A merge dissolves what has one member: the caller, unless the membership that was
\* read before the lock is gone.
LEMMA MergeLawful ==
  ASSUME MemberInv, InvitesKept, NEW r \in Slots, NEW q, q = request[r], q.phase # "none",
         Exists(q.target), CommitMerge(q), Finish(r)
  PROVE  Lawful
<1>1. PICK came, role : AcceptanceIs(q.accepted, {q.hh}, came, role)
  BY Merger
<1>2. q.op = "merge" /\ Cardinality(MembersOf(memberships, q.hh)) = 1 /\ q # NoRequest
  BY Committed DEF CommitMerge
<1>3. q.accepted \in invites /\ IsMember(memberships, q.accepted.hh, q.accepted.from)
  BY <1>2 DEF InvitesKept, InviteKept
<1>4. OnlyByInvite /\ RetiredInvites
  BY <1>1, <1>3, AcceptanceIn
<1>5. request'[r] = NoRequest
  <2>1. request' = [request EXCEPT ![r] = NoRequest]
    BY DEF Finish
  <2>2. QED
    BY <2>1 DEF MemberInv, RequestsFit
<1>6. raced' \cap {"account", "merge"} = {} => NobodyLosesIt
  <2> SUFFICES ASSUME "merge" \notin raced', NEW h \in households \ households', NEW u \in Users,
                      IsMember(memberships, h, u)
               PROVE  EndedBy(u)
    BY DEF NobodyLosesIt
  <2>1. h = q.hh
    BY <1>1 DEF AcceptanceIs
  <2>2. IsMember(memberships, q.hh, q.by)
    BY <1>2, Finishing DEF StaleSource
  <2>3. \A m, n \in Rows(memberships) : m.hh = h /\ n.hh = h => m = n
    BY <1>2, <2>1, TablesAre, Alone
  <2>4. u = q.by
    BY <2>1, <2>2, <2>3 DEF IsMember
  <2>5. QED
    BY <1>2, <1>5, <2>4 DEF EndedBy
<1>7. QED
  BY <1>4, <1>6 DEF Lawful

LEMMA CommitLawful ==
  ASSUME MemberInv, InvitesKept, NEW r \in Slots, Commit(r)
  PROVE  Lawful
<1> DEFINE q == request[r]
<1>1. /\ q.phase # "none" /\ Exists(q.target) /\ Finish(r)
      /\ \/ /\ q.phase = "begun"
            /\ CommitInvite(q) \/ CommitSwitch(q) \/ CommitDelete(q) \/ CommitMerge(q)
         \/ q.phase = "locked" /\ (\/ CommitSetRole(q) \/ CommitTransfer(q)
                                   \/ CommitRemove(q) \/ CommitLeave(q))
  BY DEF Commit
<1>2. q = request[r]
  OBVIOUS
<1> HIDE DEF q
<1>3. CASE CommitInvite(q) \/ CommitSwitch(q)
  BY <1>3, SameTable DEF CommitInvite, CommitSwitch
<1>4. CASE q.phase = "begun" /\ (CommitDelete(q) \/ CommitMerge(q))
  BY <1>1, <1>2, <1>4, DeletionLawful, MergeLawful
<1>5. CASE q.phase = "locked" /\ (CommitSetRole(q) \/ CommitTransfer(q))
  <2>1. /\ UNCHANGED <<households, invites>>
        /\ \A g, u : IsMember(memberships, g, u) => IsMember(memberships', g, u)
        /\ \A g, u : "pointer" \notin raced /\ IsMember(memberships', g, u) =>
                       IsMember(memberships, g, u)
    BY <1>1, <1>2, <1>5, RolesKeepMembers
  <2>2. QED
    BY <2>1, SameMembers
<1>6. CASE q.phase = "locked" /\ (CommitRemove(q) \/ CommitLeave(q))
  BY <1>1, <1>2, <1>6, DepartureLawful
<1>7. QED
  BY <1>1, <1>3, <1>4, <1>5, <1>6

LEMMA FoundingLawful == ASSUME MemberInv, NEW u \in Users, CreateHousehold(u) PROVE Lawful
<1>1. PICK h \in Unused : /\ households' = households \cup {h}
                          /\ memberships' = JoinHousehold(memberships, h, u, "owner")
  BY DEF CreateHousehold
<1>2. h \in Households \ households
  BY DEF Unused
<1>3. \A g, v : IsMember(memberships', g, v) <=> IsMember(memberships, g, v) \/ (g = h /\ v = u)
  BY <1>1, <1>2, TablesAre, OwnerIsRole, JoinMembers
<1>4. QED
  BY <1>1, <1>2, <1>3, SameMembers

\* What a merge relies on is left alone by a step that keeps the members of the
\* household it has locked, its invite, and its request.
LEMMA InviteStays ==
  ASSUME MemberInv, NEW s \in Slots, InviteKept(request[s]), UNCHANGED request[s],
         request[s] # NoRequest /\ request[s].op = "merge" =>
           LET i == request[s].accepted
           IN  /\ i \in invites => i \in invites'
               /\ IsMember(memberships, i.hh, i.from) => IsMember(memberships', i.hh, i.from)
  PROVE  InviteKept(request[s])'
BY DEF InviteKept

\* A request that has accepted an invite for a merge holds the joined household.
LEMMA MergeHolds ==
  ASSUME MemberInv, NEW s \in Slots, request[s] # NoRequest, request[s].op = "merge"
  PROVE  /\ request[s].held = {request[s].accepted.hh} /\ s \in Merging
         /\ request[s].accepted.from \in Users
         /\ request[s].accepted.hh \in households
         /\ \A r \in Slots \ {s} : request[s].accepted.hh \notin request[r].held
         /\ \A h : Free(h) => h # request[s].accepted.hh
<1> DEFINE q == request[s]
<1>1. q \in RequestRecords /\ Shaped(q)
  BY DEF MemberInv, RequestsFit, RequestFits
<1>2. q.phase # "none" /\ q.op = "merge"
  BY <1>1, RequestFields
<1>3. q.held = {q.accepted.hh} /\ q.accepted.from \in Users /\ q.accepted.hh \in households
  BY <1>1, <1>2 DEF Shaped
<1>4. \A r \in Slots \ {s} : request[s].held \cap request[r].held = {}
  BY DEF MemberInv, RequestsFit
<1>5. QED
  BY <1>2, <1>3, <1>4 DEF Merging, Free

LEMMA CommitKeepsInvites ==
  ASSUME MemberInv, NEW r \in Slots, Commit(r), NEW s \in Slots \ {r},
         request[s] # NoRequest, request[s].op = "merge", NEW i, i = request[s].accepted
  PROVE  /\ i \in invites => i \in invites'
         /\ IsMember(memberships, i.hh, i.from) => IsMember(memberships', i.hh, i.from)
<1> DEFINE q == request[r]
<1>1. /\ q.phase # "none" /\ Exists(q.target) /\ Finish(r)
      /\ \/ /\ q.phase = "begun"
            /\ CommitInvite(q) \/ CommitSwitch(q) \/ CommitDelete(q) \/ CommitMerge(q)
         \/ q.phase = "locked" /\ (\/ CommitSetRole(q) \/ CommitTransfer(q)
                                   \/ CommitRemove(q) \/ CommitLeave(q))
  BY DEF Commit
<1>2. /\ s \in Merging /\ i.from \in Users /\ i.hh \in households /\ i.hh \notin q.held
      /\ \A h : Free(h) => h # i.hh
  BY MergeHolds
<1>3. q = request[r]
  OBVIOUS
<1> HIDE DEF q
<1>4. CASE CommitInvite(q) \/ CommitSwitch(q)
  BY <1>4 DEF CommitInvite, CommitSwitch
<1>5. CASE CommitDelete(q)
  <2>1. /\ \A g, u : IsMember(memberships', g, u) <=>
                       IsMember(memberships, g, u) /\ u # q.target /\ g \notin q.gone
        /\ invites' = {j \in invites : q.target \notin {j.from, j.to} /\ j.hh \notin q.gone}
        /\ q.gone \subseteq q.held
    BY <1>1, <1>3, <1>5, DeletionMembers
  <2>2. UserFree(q.target)
    BY <1>5 DEF CommitDelete
  <2>3. q.target \notin {i.from, i.to}
    BY <1>2, <2>2 DEF UserFree
  <2>4. QED
    BY <1>2, <2>1, <2>3
<1>6. CASE q.phase # "none" /\ CommitMerge(q)
  <2>1. PICK came, role : AcceptanceIs(q.accepted, {q.hh}, came, role)
    BY <1>1, <1>3, <1>6, Merger
  <2>2. /\ invites' = {j \in invites \ {q.accepted} : j.hh # q.hh}
        /\ \A m \in Rows(memberships) : m.hh # q.hh => m \in Rows(memberships')
    BY <2>1 DEF AcceptanceIs
  <2>3. q.op = "merge" /\ q # NoRequest /\ q.hh # i.hh
    BY <1>2, <1>3, <1>6, Committed DEF CommitMerge
  <2>4. q.accepted.hh \in q.held
    BY <1>3, <2>3, MergeHolds
  <2>5. q.accepted # i
    BY <1>2, <2>4
  <2>6. QED
    BY <2>2, <2>3, <2>5 DEF IsMember
<1>7. CASE q.phase = "locked" /\ (CommitSetRole(q) \/ CommitTransfer(q))
  <2>1. UNCHANGED invites /\ \A g, u : IsMember(memberships, g, u) => IsMember(memberships', g, u)
    BY <1>1, <1>3, <1>7, RolesKeepMembers
  <2>2. QED
    BY <2>1
<1>8. CASE q.phase = "locked" /\ (CommitRemove(q) \/ CommitLeave(q))
  <2>1. /\ \A g, u : IsMember(memberships, g, u) /\ (g # q.hh \/ u # q.target) =>
                       IsMember(memberships', g, u)
        /\ invites' = {j \in invites \ Cancelled(q.hh, q.target) : j.hh \notin q.gone}
        /\ q.held = {q.hh} /\ q.gone \subseteq {q.hh}
    BY <1>1, <1>3, <1>8, DepartureMembers
  <2>2. i.hh # q.hh
    BY <1>2, <2>1
  <2>3. QED
    BY <2>1, <2>2 DEF Cancelled
<1>9. QED
  BY <1>1, <1>4, <1>5, <1>6, <1>7, <1>8

\* A request that begins other than with a merge.
LEMMA Asking ==
  ASSUME NEW r \in Slots, NEW u \in Users, UserActs(r, u)
  PROVE  UNCHANGED db /\ \E p : request' = [request EXCEPT ![r] = p] /\ p.op # "merge"
<1>1. ASSUME NEW o, NEW h, NEW t, NEW role, o # "merge", Begin(r, Ask(o, u, h, t, role))
      PROVE  UNCHANGED db /\ \E p : request' = [request EXCEPT ![r] = p] /\ p.op # "merge"
  <2>1. Ask(o, u, h, t, role).op = o
    BY DEF Ask
  <2>2. UNCHANGED db /\ request' = [request EXCEPT ![r] = Ask(o, u, h, t, role)]
    BY <1>1 DEF Begin
  <2>3. QED
    BY <1>1, <2>1, <2>2
<1>2. CASE DeleteMyAccount(r, u)
  <2> DEFINE p == [Ask("delete", u, None, u, None) EXCEPT !.listed = MembershipsOf(u)]
  <2>1. UNCHANGED db /\ request' = [request EXCEPT ![r] = p]
    BY <1>2 DEF DeleteMyAccount, Begin
  <2>2. p.op = "delete"
    BY DEF Ask
  <2> HIDE DEF p
  <2>3. QED
    BY <2>1, <2>2
<1>3. CASE \E h \in households : LeaveHousehold(r, u, h) \/ SetActiveHousehold(r, u, h)
  BY <1>1, <1>3 DEF LeaveHousehold, SetActiveHousehold
<1>4. CASE \E t \in Users :
             \/ InviteHouseholdMember(r, u, t) \/ TransferHouseholdOwnership(r, u, t)
             \/ RemoveHouseholdMember(r, u, t)
             \/ \E role \in {"admin", "member"} : SetHouseholdRole(r, u, t, role)
  BY <1>1, <1>4 DEF InviteHouseholdMember, TransferHouseholdOwnership, RemoveHouseholdMember,
                    SetHouseholdRole
<1>5. QED
  BY <1>2, <1>3, <1>4 DEF UserActs

\* A request that goes on, and is no merge, or ends.
LEMMA Proceeding ==
  ASSUME MemberInv, NEW r \in Slots, LockHousehold(r) \/ ClassifyMembership(r) \/ Reject(r)
  PROVE  UNCHANGED db /\ \E p : /\ request' = [request EXCEPT ![r] = p]
                                /\ p = NoRequest \/ p.op # "merge"
BY Locked, Classified DEF Reject

LEMMA InvitesKeptSteps == MemberInv /\ InvitesKept /\ [Next]_vars => InvitesKept'
<1> SUFFICES ASSUME MemberInv, InvitesKept, [Next]_vars, NEW s \in Slots
             PROVE  InviteKept(request[s])'
  BY DEF InvitesKept
<1>1. InviteKept(request[s]) /\ request \in [Slots -> RequestRecords \cup {NoRequest}]
  BY DEF InvitesKept, MemberInv, RequestsFit
<1>2. ASSUME UNCHANGED <<memberships, invites>>, UNCHANGED request[s]
      PROVE  InviteKept(request[s])'
  BY <1>1, <1>2 DEF InviteKept
<1>3. ASSUME NEW r \in Slots, NEW p, UNCHANGED db, request' = [request EXCEPT ![r] = p],
             InviteKept(p)
      PROVE  InviteKept(request[s])'
  <2>1. UNCHANGED <<memberships, invites>> /\ request'[s] = IF s = r THEN p ELSE request[s]
    BY <1>1, <1>3 DEF db
  <2>2. CASE s = r
    BY <1>3, <2>1, <2>2 DEF InviteKept
  <2>3. CASE s # r
    BY <1>2, <2>1, <2>3
  <2>4. QED
    BY <2>2, <2>3
<1>4. ASSUME NEW r \in Slots, NEW u \in Users, UserActs(r, u) PROVE InviteKept(request[s])'
  <2>1. PICK p : /\ UNCHANGED db /\ request' = [request EXCEPT ![r] = p] /\ p.op # "merge"
    BY <1>4, Asking
  <2>2. InviteKept(p)
    BY <2>1 DEF InviteKept
  <2>3. QED
    BY <1>3, <2>1, <2>2
<1>5. ASSUME NEW r \in Slots, NEW i \in invites, NEW h \in households, AcceptAndMerge(r, i, h)
      PROVE  InviteKept(request[s])'
  <2> DEFINE q == Ask("merge", i.to, h, i.to, None)
             p == [q EXCEPT !.accepted = i, !.held = {i.hh}]
  <2>1. UNCHANGED db /\ request' = [request EXCEPT ![r] = p] /\ IsMember(memberships, i.hh, i.from)
    BY <1>5 DEF AcceptAndMerge, Acceptable, InviterStays, Begin
  <2>2. p.accepted = i
    BY DEF Ask
  <2> HIDE DEF p
  <2>3. InviteKept(p)
    BY <2>1, <2>2 DEF InviteKept
  <2>4. QED
    BY <1>3, <2>1, <2>3
<1>6. ASSUME NEW r \in Slots, LockHousehold(r) \/ ClassifyMembership(r) \/ Reject(r)
      PROVE  InviteKept(request[s])'
  <2>1. PICK p : /\ UNCHANGED db /\ request' = [request EXCEPT ![r] = p]
                 /\ p = NoRequest \/ p.op # "merge"
    BY <1>6, Proceeding
  <2>2. InviteKept(p)
    BY <2>1 DEF InviteKept
  <2>3. QED
    BY <1>3, <2>1, <2>2
<1>7. ASSUME NEW r \in Slots, Commit(r) PROVE InviteKept(request[s])'
  <2>1. request' = [request EXCEPT ![r] = NoRequest]
    BY <1>7 DEF Commit, Finish
  <2>2. CASE s = r
    BY <1>1, <2>1, <2>2 DEF InviteKept, NoRequest
  <2>3. CASE s # r
    <3>1. UNCHANGED request[s]
      BY <1>1, <2>1, <2>3
    <3>2. QED
      BY <1>1, <1>7, <2>3, <3>1, CommitKeepsInvites, InviteStays
  <2>4. QED
    BY <2>2, <2>3
<1>8. ASSUME NEW i \in invites, AcceptHouseholdInvite(i) PROVE InviteKept(request[s])'
  <2>1. PICK came, role : AcceptanceIs(i, {}, came, role)
    BY <1>8, Acceptance
  <2>2. /\ invites' = invites \ {i}
        /\ \A m \in Rows(memberships) : m \in Rows(memberships')
    BY <2>1 DEF AcceptanceIs
  <2>3. Free(i.hh) /\ UNCHANGED request
    BY <1>8 DEF AcceptHouseholdInvite, Acceptable
  <2>4. \A g, u : IsMember(memberships, g, u) => IsMember(memberships', g, u)
    BY <2>2 DEF IsMember
  <2>5. request[s] # NoRequest /\ request[s].op = "merge" => request[s].accepted # i
    BY <2>3, MergeHolds
  <2>6. QED
    BY <1>1, <2>2, <2>3, <2>4, <2>5, InviteStays
<1>9. ASSUME NEW i \in invites, TransitionInvite(i) PROVE InviteKept(request[s])'
  <2>1. InviteFree(i) /\ invites' = invites \ {i} /\ UNCHANGED <<memberships, request>>
    BY <1>9 DEF TransitionInvite
  <2>2. request[s] # NoRequest /\ request[s].op = "merge" => request[s].accepted # i
    BY <2>1, MergeHolds DEF InviteFree
  <2>3. QED
    BY <1>1, <2>1, <2>2, InviteStays
<1>10. ASSUME NEW u \in Users, CreateHousehold(u) PROVE InviteKept(request[s])'
  <2>1. PICK h \in Unused : memberships' = JoinHousehold(memberships, h, u, "owner")
    BY <1>10 DEF CreateHousehold
  <2>2. UNCHANGED <<invites, request>> /\ h \in Households
    BY <1>10 DEF CreateHousehold, Unused
  <2>3. \A g, v : IsMember(memberships, g, v) => IsMember(memberships', g, v)
    BY <2>1, <2>2, TablesAre, OwnerIsRole, JoinMembers
  <2>4. QED
    BY <1>1, <2>2, <2>3, InviteStays
<1>11. CASE UNCHANGED vars
  BY <1>2, <1>11 DEF vars, db
<1>12. QED
  BY <1>4, <1>5, <1>6, <1>7, <1>8, <1>9, <1>10, <1>11 DEF Next

LEMMA StepsLawful == MemberInv /\ InvitesKept /\ [Next]_vars => [Lawful]_vars
<1> SUFFICES ASSUME MemberInv, InvitesKept, Next PROVE Lawful
  OBVIOUS
<1>1. ASSUME NEW r \in Slots,
             \/ \E u \in Users : UserActs(r, u)
             \/ \E i \in invites : \E h \in households : AcceptAndMerge(r, i, h)
             \/ LockHousehold(r) \/ ClassifyMembership(r) \/ Reject(r)
      PROVE  UNCHANGED memberships /\ households \subseteq households'
  <2>1. CASE \E u \in Users : UserActs(r, u)
    BY <2>1, Asking DEF db
  <2>2. CASE \E i \in invites : \E h \in households : AcceptAndMerge(r, i, h)
    BY <2>2 DEF AcceptAndMerge, Begin, db
  <2>3. CASE LockHousehold(r) \/ ClassifyMembership(r) \/ Reject(r)
    BY <2>3, Proceeding DEF db
  <2>4. QED
    BY <1>1, <2>1, <2>2, <2>3
<1>2. ASSUME NEW r \in Slots, Commit(r) PROVE Lawful
  BY <1>2, CommitLawful
<1>3. ASSUME NEW i \in invites, AcceptHouseholdInvite(i) PROVE Lawful
  BY <1>3, AcceptanceLawful
<1>4. ASSUME NEW i \in invites, TransitionInvite(i) PROVE Lawful
  BY <1>4, SameTable DEF TransitionInvite
<1>5. ASSUME NEW u \in Users, CreateHousehold(u) PROVE Lawful
  BY <1>5, FoundingLawful
<1>6. QED
  BY <1>1, <1>2, <1>3, <1>4, <1>5, SameTable DEF Next

\* Nobody enters a household but by a pending invite of one of its members, a
\* departure closes the invites that name the user, and only its last member, who
\* leaves, merges it or deletes the account, ends a household (acceptInvite,
\* departHousehold, dissolveHousehold), unless an account was deleted on an
\* outdated list of its memberships, or a household merged that had ceased to be
\* the caller's before it was locked (validateMergeSource).
THEOREM InvitesAreTheWayIn == Spec => MembershipsHold
<1>1. Init => InvitesKept
  BY DEF Init, InvitesKept, InviteKept
<1>2. MemberInv /\ InvitesKept /\ [Next]_vars =>
        [/\ OnlyByInvite /\ RetiredInvites
         /\ raced' \cap {"account", "merge"} = {} => NobodyLosesIt]_vars
  BY StepsLawful DEF Lawful
<1>3. QED
  BY <1>1, <1>2, InvitesKeptSteps, MembersFit, PTL DEF Spec, MembershipsHold
===============================================================================
