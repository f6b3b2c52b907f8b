-------------------------------- MODULE Stock ---------------------------------
(***************************************************************************)
(* The stock of one catalog item, or of one bottle, in two households      *)
(* (internal/userprefs/service.go, internal/bff/resolver_userprefs.go),    *)
(* while the one is folded into the other by an accepted invite            *)
(* (resolver_household.go: acceptInvite) or dissolved with its account     *)
(* (resolver_identity.go: DeleteMyAccount).                                *)
(*                                                                         *)
(* READ COMMITTED: a statement sees what was committed when it began,      *)
(* waits for the row it writes, and takes that row as it then is.  An      *)
(* insert places its key and then waits for its household's row, which     *)
(* merge and dissolution hold FOR UPDATE.                                  *)
(***************************************************************************)
EXTENDS Integers, FiniteSets

CONSTANTS
  Requests,  \* requests that write the stock, of members of either household
  None,      \* no row
  Nobody,    \* no transaction
  MaxQty     \* bound: an increment adds to less than this

Source == "source"
Target == "target"
Parties == {Source, Target}
Merge == "merge"

VARIABLES
  cellar,    \* the stock is a bottle's, else a pantry item's
  row,       \* each household's row as last written
  seen,      \* and as last committed
  owner,     \* the transaction whose write is not committed
  at, op, house, held, \* requests: where, doing what, to which household, the row they read
  plan, mergeAt, folded, \* "merge" or "dissolve", where it is, what its fold read
  net,       \* the stock that the committed operations leave (history)
  raced,     \* the source's row was changed between its fold and its deletion (history)
  victim     \* a deadlock was resolved against the merge (history)

rows == <<row, seen, owner>>
request == <<at, op, house, held>>
merging == <<plan, mergeAt, folded>>
history == <<net, raced, victim>>
vars == <<cellar, rows, request, merging, history>>

Qty(r) == IF r = None THEN 0 ELSE r.qty
Total(s) == Qty(s[Source]) + Qty(s[Target])

Init ==
  /\ cellar \in BOOLEAN
  /\ \E held0 \in SUBSET Parties :
       seen = [h \in Parties |-> IF h \in held0 THEN [id |-> IF h = Source THEN 1 ELSE 2, qty |-> 1]
                                                    ELSE None]
  /\ row = seen /\ owner = [h \in Parties |-> Nobody]
  /\ at = [r \in Requests |-> "idle"] /\ op = [r \in Requests |-> "set"]
  /\ house = [r \in Requests |-> Source] /\ held = [r \in Requests |-> None]
  /\ plan \in {"merge", "dissolve"} /\ mergeAt = "before" /\ folded = None
  /\ net = Total(seen) /\ raced = FALSE /\ victim = FALSE

Goto(r, to) == at' = [at EXCEPT ![r] = to]

\* LockHousehold, and what an insert's foreign key does to it and it to the insert.
Sharing(h) == {r \in Requests : house[r] = h /\ at[r] = "inserted"}
Dissolved == mergeAt = "done"
Merging == mergeAt \notin {"before", "done", "failed"}
LockedRow(h) == Merging /\ (h = Source => mergeAt # "target") /\ (h = Target => plan = "merge")

-----------------------------------------------------------------------------
(* Requests                                                                *)

Ops == IF cellar THEN {"set", "update", "favorite"}
                 ELSE {"set", "increment", "favorite", "delete"}

\* findHouseholdItem, findHouseholdBottle, outside the transaction (an
\* increment reads nothing, a plain set only the details it keeps).
Begin(r, o, h) ==
  /\ at[r] = "idle" /\ o \in Ops /\ Goto(r, "read")
  /\ op' = [op EXCEPT ![r] = o] /\ house' = [house EXCEPT ![r] = h]
  /\ held' = [held EXCEPT ![r] = IF o \in {"set", "increment"} THEN None ELSE seen[h]]
  /\ UNCHANGED <<cellar, rows, merging, history>>

Leave(r) ==
  /\ Goto(r, "idle") /\ op' = [op EXCEPT ![r] = "set"]
  /\ house' = [house EXCEPT ![r] = Source] /\ held' = [held EXCEPT ![r] = None]

\* An ID that no row has and nobody remembers.
Ids == 1..(Cardinality(Requests) + 5)
NewId ==
  LET used == {r.id : r \in ({row[h] : h \in Parties} \cup {seen[h] : h \in Parties}
                             \cup {held[q] : q \in Requests}) \ {None}} IN
  CHOOSE i \in Ids : i \notin used /\ (folded # None => folded.into # i)
\* INSERT ... ON CONFLICT DO UPDATE, to one of `quantities`.
Upsert(r, quantities) ==
  LET h == house[r] IN
  /\ at[r] = "read" /\ owner[h] = Nobody
  /\ owner' = [owner EXCEPT ![h] = r]
  /\ \E q \in quantities :
       IF row[h] = None
       THEN row' = [row EXCEPT ![h] = [id |-> NewId, qty |-> q]] /\ Goto(r, "inserting")
       ELSE row' = [row EXCEPT ![h].qty = q] /\ Goto(r, "written")
  /\ UNCHANGED <<cellar, seen, op, house, held, merging, history>>

\* AdjustUserItem and AdjustUserBottle set the quantity, UpdateUserBottle writes
\* the one it read when the argument is omitted, IncrementUserItem adds.
Set(r) == op[r] = "set" /\ Upsert(r, {0, 1})
UpdateUserBottle(r) == op[r] = "update" /\ Upsert(r, {Qty(held[r])})
Clamped(q) == IF q < 0 THEN 0 ELSE q
IncrementUserItem(r) ==
  /\ op[r] = "increment"
  /\ Upsert(r, {Clamped(Qty(row[house[r]]) + delta) :
                  delta \in IF Qty(row[house[r]]) < MaxQty THEN {-1, 1} ELSE {-1}})
\* SetItemFavorite, SetBottleFavorite: a holding with nothing in it.
Favorite(r) == op[r] = "favorite" /\ held[r] = None /\ Upsert(r, {0})

\* The favourite of a holding that exists touches no stock; there is nothing to delete.
NothingToWrite(r) ==
  /\ at[r] = "read"
  /\ \/ op[r] = "favorite" /\ held[r] # None
     \/ op[r] = "delete" /\ held[r] = None
  /\ Leave(r) /\ UNCHANGED <<cellar, rows, merging, history>>

\* DeleteUserItem: the row that was read, by its ID, in its household.
DeleteUserItem(r) ==
  LET h == house[r] IN
  /\ at[r] = "read" /\ op[r] = "delete" /\ held[r] # None /\ owner[h] = Nobody
  /\ IF row[h] # None /\ row[h].id = held[r].id
     THEN /\ row' = [row EXCEPT ![h] = None] /\ owner' = [owner EXCEPT ![h] = r]
          /\ Goto(r, "written") /\ UNCHANGED <<op, house, held>>
     ELSE Leave(r) /\ UNCHANGED <<row, owner>>
  /\ UNCHANGED <<cellar, seen, merging, history>>

Undo(t) ==
  /\ row' = [h \in Parties |-> IF owner[h] = t THEN seen[h] ELSE row[h]]
  /\ owner' = [h \in Parties |-> IF owner[h] = t THEN Nobody ELSE owner[h]]

\* The key of an insert is checked against its household's row.
CheckHousehold(r) ==
  LET h == house[r] IN
  /\ at[r] = "inserting" /\ ~LockedRow(h)
  /\ IF h = Source /\ Dissolved
     THEN Undo(r) /\ Leave(r)
     ELSE Goto(r, "inserted") /\ UNCHANGED <<row, owner, op, house, held>>
  /\ UNCHANGED <<cellar, seen, merging, history>>

\* The commit; an increment deletes a row that came to nothing first.
Commit(r) ==
  LET h == house[r]
      emptied == op[r] = "increment" /\ row[h].qty = 0
      left == IF emptied THEN None ELSE row[h] IN
  /\ at[r] \in {"inserted", "written"}
  /\ row' = [row EXCEPT ![h] = left] /\ seen' = [seen EXCEPT ![h] = left]
  /\ owner' = [owner EXCEPT ![h] = Nobody]
  /\ net' = net + Qty(left) - Qty(seen[h])
  /\ raced' = (raced \/ (h = Source /\ mergeAt \in {"folding", "folded", "moved"} /\ folded # None))
  /\ Leave(r) /\ UNCHANGED <<cellar, merging, victim>>

-----------------------------------------------------------------------------
(* MergeHouseholdStock inside acceptInvite; dissolveHousehold              *)

Step(from, to) == mergeAt = from /\ mergeAt' = to
Keep == UNCHANGED <<cellar, request, plan, history>>

LockTarget ==
  /\ plan = "merge" /\ Step("before", "target") /\ Sharing(Target) = {}
  /\ Keep /\ UNCHANGED <<row, seen, owner, folded>>

\* (Mutant: validateMergeSource and DeleteMyAccount do not lock.)
MutantSourceFree == TRUE
SourceFree == Sharing(Source) = {}
LockSource ==
  /\ Step(IF plan = "merge" THEN "target" ELSE "before", "locked") /\ SourceFree
  /\ Keep /\ UNCHANGED <<row, seen, owner, folded>>

Visible(h) == IF owner[h] = Merge THEN row[h] ELSE seen[h]

\* MergeHouseholdItemConflicts reads the source's row without locking it ...
FoldReads ==
  /\ plan = "merge" /\ Step("locked", "folding")
  /\ folded' = IF None \in {seen[Source], seen[Target]} THEN None
               ELSE [qty |-> seen[Source].qty, into |-> seen[Target].id]
  /\ Keep /\ UNCHANGED <<row, seen, owner>>
\* ... and waits for the target's, if both were there; it may have been deleted.
Foldable == folded # None /\ seen[Target] # None /\ seen[Target].id = folded.into
FoldWrites ==
  /\ Step("folding", "folded")
  /\ IF Foldable
     THEN /\ owner[Target] = Nobody
          /\ row' = [row EXCEPT ![Target].qty = @ + folded.qty]
          /\ owner' = [owner EXCEPT ![Target] = Merge]
     ELSE UNCHANGED <<row, owner>>
  /\ Keep /\ UNCHANGED <<seen, folded>>

\* ReassignHouseholdItems: a source row without a counterpart changes households.
Movable == Visible(Source) # None /\ Visible(Target) = None
MoveRow ==
  /\ Step("folded", "moved")
  /\ IF Movable
     THEN /\ \A h \in Parties : owner[h] = Nobody
          /\ row' = [h \in Parties |-> IF h = Target THEN row[Source] ELSE None]
          /\ owner' = [h \in Parties |-> Merge]
     ELSE UNCHANGED <<row, owner>>
  /\ Keep /\ UNCHANGED <<seen, folded>>

\* DeleteMergedHouseholdItems; DeleteHouseholdStock of a dissolved household.
Droppable ==
  /\ Visible(Source) # None
  /\ plan = "merge" => Visible(Target) # None
DropRow ==
  /\ Step(IF plan = "merge" THEN "moved" ELSE "locked", "dropped")
  /\ IF Droppable
     THEN /\ owner[Source] \in {Nobody, Merge}
          /\ row' = [row EXCEPT ![Source] = None] /\ owner' = [owner EXCEPT ![Source] = Merge]
     ELSE UNCHANGED <<row, owner>>
  /\ Keep /\ UNCHANGED <<seen, folded>>

\* DeleteHousehold, which a row that still refers to the household prevents, and the commit.
Remains == Visible(Source) # None
DeleteHousehold ==
  /\ ~Remains /\ Step("dropped", "done")
  /\ seen' = [h \in Parties |-> Visible(h)]
  /\ owner' = [h \in Parties |-> IF owner[h] = Merge THEN Nobody ELSE owner[h]]
  /\ net' = IF plan = "dissolve" THEN net - Qty(seen[Source]) ELSE net
  /\ folded' = None
  /\ UNCHANGED <<cellar, row, request, plan, raced, victim>>
RefusedDelete ==
  /\ Remains /\ Step("dropped", "failed") /\ Undo(Merge) /\ folded' = None
  /\ Keep /\ UNCHANGED seen

\* The merge waits for the key of an insert that waits for the household's row:
\* the database fails one of the two.
Deadlocked(r) ==
  /\ at[r] = "inserting" /\ house[r] = Target /\ LockedRow(Target)
  /\ mergeAt = "folded" /\ Movable
FailInsert(r) ==
  /\ Deadlocked(r) /\ Undo(r) /\ Leave(r)
  /\ UNCHANGED <<cellar, seen, merging, history>>
FailMerge(r) ==
  /\ Deadlocked(r) /\ Step("folded", "failed") /\ Undo(Merge) /\ folded' = None
  /\ victim' = TRUE /\ UNCHANGED <<cellar, seen, request, plan, net, raced>>

Next ==
  \/ \E r \in Requests :
       \/ \E o \in Ops, h \in Parties : Begin(r, o, h)
       \/ Set(r) \/ UpdateUserBottle(r) \/ IncrementUserItem(r) \/ Favorite(r)
       \/ NothingToWrite(r) \/ DeleteUserItem(r) \/ CheckHousehold(r) \/ Commit(r)
       \/ FailInsert(r) \/ FailMerge(r)
  \/ LockTarget \/ LockSource \/ FoldReads \/ FoldWrites \/ MoveRow \/ DropRow
  \/ DeleteHousehold \/ RefusedDelete

Spec == Init /\ [][Next]_vars

-----------------------------------------------------------------------------
(* Properties                                                              *)

Rows == {None} \cup [id : Ids, qty : Nat]
TypeOK ==
  /\ row \in [Parties -> Rows] /\ seen \in [Parties -> Rows]
  /\ \A h \in Parties : owner[h] = Nobody => row[h] = seen[h]
  /\ \A r \in Requests : at[r] \in {"inserting", "inserted", "written"} => owner[house[r]] = r

\* What the two households have is what the operations that committed leave: a
\* merge neither creates nor loses stock, unless the source's row was changed
\* while it was being folded.
StockKept == raced \/ Total(seen) = net

\* A merge or a dissolution, once it has its locks, fails by a deadlock only:
\* no row of the household is left behind that prevents its deletion.
MergeCompletes == mergeAt = "failed" => victim

StockConsistent == TypeOK /\ StockKept /\ MergeCompletes

\* Violated: of a merge, "Rows whose item/bottle already exists at the target sum
\* quantities".  What is credited to the source between two statements is lost.
StockSummed == Total(seen) = net

\* Violated: "omitted preserves the stored value".
OmittedPreserved ==
  [][\A r \in Requests : op[r] = "update" /\ Commit(r) => Qty(seen'[house[r]]) = Qty(seen[house[r]])]_vars

\* Violated: a favourite's holding row is "created when absent".
FavoriteKeepsStock ==
  [][\A r \in Requests : op[r] = "favorite" /\ Commit(r) => Qty(seen'[house[r]]) = Qty(seen[house[r]])]_vars
===============================================================================
