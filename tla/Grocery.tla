------------------------------- MODULE Grocery --------------------------------
(***************************************************************************)
(* A shared shopping list (internal/grocery, internal/bff/                 *)
(* resolver_grocery.go): its lines, the pantry stock a check-off credits,  *)
(* the household's usual brand, and the walk order the store router learns *)
(* from check-offs.                                                        *)
(*                                                                         *)
(* One list, one ingredient sold under several brands; every line is for   *)
(* that ingredient and may be bound to a brand.  A quantity is one.  A     *)
(* request is a transaction, split where it waits for the list's row lock  *)
(* or for a line's; the statements after its last lock and the commit are  *)
(* one step.  Postgres breaks a cycle of waits by aborting either side.    *)
(***************************************************************************)
EXTENDS Integers, FiniteSets, FiniteSetsExt, Functions

CONSTANTS
  Requests,  \* requests in flight
  Items,     \* the brands
  Stores,
  Generic,   \* store_id 0, the route of a list without a store
  Unbranded, \* no item_id; as an identity, the ingredient itself
  MaxLines,  \* bound on lines ever inserted
  MaxFlips,  \* bound on check transitions
  MaxEdits   \* bound on single statements beside them

VARIABLES
  lines,     \* line id -> brand, checked, checked_seq (0: NULL), generated
  lastId,
  listStore, stores,
  learned,   \* item_route: <<store, identity>> -> learned_count
  ranked,    \* the rows of it with a manual rank
  usual,     \* household_ingredient_item: the usual brand
  pantry,    \* household_item: brand -> current_qty
  step,      \* where each request is
  line, brand, \* what it is about
  before,    \* the line as a toggle read it before the list lock
  place,     \* the checked_seq its statement computed
  doomed,    \* generated lines its DELETE found
  flips, edits,
  ledger,    \* per line and brand, credits less debits (history)
  balance,   \* per line, the same over all brands (history)
  noted,     \* per line, the route row its check was recorded in (history)
  strayed    \* route rows an uncheck, or a reset, left askew (history)

list == <<lines, lastId>>
routes == <<learned, ranked>>
stock == <<usual, pantry>>
request == <<step, line, brand, before, place, doomed>>
counters == <<flips, edits>>
history == <<ledger, balance, noted, strayed>>
vars == <<list, listStore, stores, routes, stock, request, counters, history>>

Ids == 1..MaxLines
Identities == Items \cup {Unbranded}
Keys == (Stores \cup {Generic}) \X Identities
Lines == DOMAIN lines
Generated == {l \in Lines : lines[l].generated}
Unread == [item |-> Unbranded, checked |-> FALSE]
NewLine(generated) ==
  [item |-> Unbranded, checked |-> FALSE, seq |-> 0, generated |-> generated]

\* The table f with rows for `new` that it did not have.
Extended(f, new, row) ==
  [x \in DOMAIN f \cup new |-> IF x \in DOMAIN f THEN f[x] ELSE row]

Init ==
  /\ lines = [l \in 1..2 |-> NewLine(l = 2)]
  /\ lastId = 2
  /\ stores = Stores
  /\ listStore \in stores \cup {Generic} \* inherited from the latest list
  /\ learned = [k \in {} |-> 0] /\ ranked = {}
  /\ usual = Unbranded
  /\ pantry = [i \in Items |-> 0]
  /\ step = [c \in Requests |-> "idle"]
  /\ line = [c \in Requests |-> 0]
  /\ brand = [c \in Requests |-> Unbranded]
  /\ before = [c \in Requests |-> Unread]
  /\ place = [c \in Requests |-> 0]
  /\ doomed = [c \in Requests |-> {}]
  /\ flips = 0 /\ edits = 0
  /\ ledger = [l \in Ids |-> [i \in Items |-> 0]]
  /\ balance = [l \in Ids |-> 0]
  /\ noted = [l \in Ids |-> <<>>]
  /\ strayed = {}

-----------------------------------------------------------------------------
(* Locks                                                                   *)

\* LockGroceryList: FOR UPDATE.  (Mutant: none taken.)
MutantListFree == TRUE
ListFree == \A d \in Requests : step[d] \notin {"toggling", "flipped", "checking"}

Holds(d, l) ==
  \/ step[d] \in {"bound", "checking", "flipped"} /\ line[d] = l
  \/ step[d] = "replacing" /\ l \in doomed[d]
RowFree(c, l) == \A d \in Requests \ {c} : ~Holds(d, l)

Answer(c) ==
  /\ step' = [step EXCEPT ![c] = "idle"] /\ line' = [line EXCEPT ![c] = 0]
  /\ brand' = [brand EXCEPT ![c] = Unbranded]
  /\ before' = [before EXCEPT ![c] = Unread] /\ place' = [place EXCEPT ![c] = 0]
  /\ doomed' = [doomed EXCEPT ![c] = {}]

-----------------------------------------------------------------------------
(* Statements                                                              *)

MaxSeq == Max({lines[l].seq : l \in Lines} \cup {0})

\* AdjustHouseholdItemQuantity, clamped at 0.
Adjust(i, delta) ==
  pantry' = [pantry EXCEPT ![i] = IF @ + delta < 0 THEN 0 ELSE @ + delta]
Book(l, i, delta) ==
  /\ ledger' = [ledger EXCEPT ![l][i] = @ + delta]
  /\ balance' = [balance EXCEPT ![l] = @ + delta]

\* UpsertRouteObservation...: one row per store and identity.
Record(l, k) ==
  /\ learned' = [Extended(learned, {k}, 0) EXCEPT ![k] = @ + 1]
  /\ noted' = [noted EXCEPT ![l] = k]
  /\ UNCHANGED <<ranked, strayed>>

\* RetractRouteObservation and DeleteEmptyRouteObservations.
Retracted(k) ==
  IF k \notin DOMAIN learned THEN learned
  ELSE LET n == IF learned[k] > 0 THEN learned[k] - 1 ELSE 0 IN
       IF n = 0 /\ k \notin ranked THEN Restrict(learned, DOMAIN learned \ {k})
                                   ELSE [learned EXCEPT ![k] = n]

\* The observation an uncheck takes back is in the row as it was.
Remembered(was, now) == ~now.checked /\ was.checked

\* observeCheckChange, for line l, read as `was` and now `now`.
Observe(l, was, now) ==
  LET k == <<listStore, was.item>> IN
  IF now.checked THEN Record(l, <<listStore, now.item>>)
  ELSE /\ learned' = IF Remembered(was, now) THEN Retracted(k) ELSE learned
       /\ strayed' = strayed \cup (IF was.checked /\ k = noted[l] THEN {}
                                   ELSE IF was.checked THEN {k, noted[l]} ELSE {noted[l]})
       /\ noted' = [noted EXCEPT ![l] = <<>>]
       /\ UNCHANGED ranked

-----------------------------------------------------------------------------
(* ToggleGroceryItemChecked                                                *)

\* The read before the list lock.
Toggle(c, l) ==
  /\ step[c] = "idle" /\ l \in Lines /\ flips < MaxFlips
  /\ step' = [step EXCEPT ![c] = "toggle"] /\ line' = [line EXCEPT ![c] = l]
  /\ before' = [before EXCEPT ![c] = [item |-> lines[l].item, checked |-> lines[l].checked]]
  /\ UNCHANGED <<list, listStore, stores, routes, stock, brand, place, doomed, counters, history>>

LockList(c) ==
  /\ step[c] = "toggle" /\ ListFree
  /\ step' = [step EXCEPT ![c] = "toggling"]
  /\ UNCHANGED <<list, listStore, stores, routes, stock, line, brand, before, place, doomed, counters, history>>

\* The UPDATE takes the line and the next place in the list.
Flip(c) ==
  /\ step[c] = "toggling" /\ line[c] \in Lines /\ RowFree(c, line[c])
  /\ step' = [step EXCEPT ![c] = "flipped"]
  /\ place' = [place EXCEPT ![c] = MaxSeq + 1]
  /\ UNCHANGED <<list, listStore, stores, routes, stock, line, brand, before, doomed, counters, history>>

Flipped(row, seq) == [row EXCEPT !.checked = ~@, !.seq = IF row.checked THEN 0 ELSE seq]

\* checkCreditItem.
CreditItem(row) == IF row.item # Unbranded THEN row.item ELSE usual

\* The observation, the stock adjustment and the commit.
CommitToggle(c) ==
  LET l == line[c]
      now == Flipped(lines[l], place[c])
      credit == CreditItem(now)
      delta == IF now.checked THEN 1 ELSE -1 IN
  /\ step[c] = "flipped" /\ flips < MaxFlips
  /\ lines' = [lines EXCEPT ![l] = now]
  /\ IF credit = Unbranded THEN UNCHANGED <<pantry, ledger, balance>>
     ELSE Adjust(credit, delta) /\ Book(l, credit, delta)
  /\ Observe(l, before[c], now)
  /\ flips' = flips + 1
  /\ Answer(c)
  /\ UNCHANGED <<lastId, listStore, stores, usual, edits>>

-----------------------------------------------------------------------------
(* CheckGroceryItemWithBrand                                               *)

\* BindItemToGroceryListItem, which holds the line from here on.
Bind(c, l, i) ==
  /\ step[c] = "idle" /\ l \in Lines /\ RowFree(c, l) /\ flips < MaxFlips
  /\ step' = [step EXCEPT ![c] = "bound"] /\ line' = [line EXCEPT ![c] = l]
  /\ brand' = [brand EXCEPT ![c] = i]
  /\ UNCHANGED <<list, listStore, stores, routes, stock, before, place, doomed, counters, history>>

\* CheckGroceryListItemOn: the list lock, and the UPDATE.
CheckOn(c) ==
  /\ step[c] = "bound" /\ ListFree
  /\ step' = [step EXCEPT ![c] = "checking"]
  /\ place' = [place EXCEPT ![c] = MaxSeq + 1]
  /\ UNCHANGED <<list, listStore, stores, routes, stock, line, brand, before, doomed, counters, history>>

\* Did this call check the line?
Transitioned(row) == ~row.checked

\* Credit on the transition only, the usual brand in any case.
CommitCheck(c) ==
  LET l == line[c]
      bound == [lines[l] EXCEPT !.item = brand[c]]
      now == IF bound.checked THEN bound ELSE Flipped(bound, place[c]) IN
  /\ step[c] = "checking" /\ flips < MaxFlips
  /\ lines' = [lines EXCEPT ![l] = now]
  /\ IF Transitioned(bound)
     THEN /\ Adjust(brand[c], 1) /\ Book(l, brand[c], 1)
          /\ Observe(l, bound, now)
          /\ flips' = flips + 1
     ELSE UNCHANGED <<pantry, routes, flips, history>>
  /\ usual' = brand[c]
  /\ Answer(c)
  /\ UNCHANGED <<lastId, listStore, stores, edits>>

-----------------------------------------------------------------------------
(* GenerateGroceryList, once the plan has a list                           *)

\* DeleteGeneratedGroceryListItems finds its lines ...
Regenerate(c) ==
  /\ step[c] = "idle"
  /\ step' = [step EXCEPT ![c] = "replace"]
  /\ doomed' = [doomed EXCEPT ![c] = Generated]
  /\ UNCHANGED <<list, listStore, stores, routes, stock, line, brand, before, place, counters, history>>

\* ... and has them.
DeleteGenerated(c) ==
  /\ step[c] = "replace" /\ \A l \in doomed[c] : RowFree(c, l)
  /\ step' = [step EXCEPT ![c] = "replacing"]
  /\ UNCHANGED <<list, listStore, stores, routes, stock, line, brand, before, place, doomed, counters, history>>

\* The fresh line, if the plan still needs one, generated_at, and the commit:
\* the insert's foreign key and the touch wait for the list lock.
Replace(c) ==
  /\ step[c] = "replacing" /\ ListFree
  /\ LET kept == Restrict(lines, Lines \ doomed[c]) IN
       \/ lines' = kept /\ UNCHANGED lastId
       \/ /\ lastId < MaxLines /\ lastId' = lastId + 1
          /\ lines' = Extended(kept, {lastId + 1}, NewLine(TRUE))
  /\ Answer(c)
  /\ UNCHANGED <<listStore, stores, routes, stock, counters, history>>

\* A line that is gone, a cycle of waits, a failing statement: it rolls back.
Rollback(c) ==
  /\ step[c] \in {"toggling", "flipped", "bound", "checking", "replacing"} /\ Answer(c)
  /\ UNCHANGED <<list, listStore, stores, routes, stock, counters, history>>

-----------------------------------------------------------------------------
(* Single statements                                                       *)

Edit == edits < MaxEdits /\ edits' = edits + 1

AddLine ==
  /\ Edit /\ ListFree /\ lastId < MaxLines /\ lastId' = lastId + 1
  /\ lines' = Extended(lines, {lastId + 1}, NewLine(FALSE))
  /\ UNCHANGED <<listStore, stores, routes, stock, request, flips, history>>

DeleteLine(l) ==
  /\ Edit /\ l \in Lines /\ \A d \in Requests : ~Holds(d, l)
  /\ lines' = Restrict(lines, Lines \ {l})
  /\ UNCHANGED <<lastId, listStore, stores, routes, stock, request, flips, history>>

SetStore(s) ==
  /\ Edit /\ ListFree /\ s \in stores \cup {Generic} /\ s # listStore
  /\ listStore' = s
  /\ UNCHANGED <<list, stores, routes, stock, request, flips, history>>

\* ReorderListItems: a manual rank for every line.
Reorder ==
  LET dragged == {<<listStore, lines[l].item>> : l \in Lines} IN
  /\ Edit /\ dragged \ ranked # {}
  /\ ranked' = ranked \cup dragged
  /\ learned' = Extended(learned, dragged, 0)
  /\ UNCHANGED <<list, listStore, stores, stock, request, flips, history>>

OfStore(s) == {k \in Keys : k[1] = s}
ResetRoute(s) ==
  /\ Edit /\ s \in stores /\ OfStore(s) \cap DOMAIN learned # {}
  /\ learned' = Restrict(learned, DOMAIN learned \ OfStore(s))
  /\ ranked' = ranked \ OfStore(s)
  /\ strayed' = strayed \cup OfStore(s)
  /\ UNCHANGED <<list, listStore, stores, stock, request, flips, ledger, balance, noted>>

\* Its lists keep their rows, without a store; the route rows refer to it by
\* number only.
DeleteStore(s) ==
  /\ Edit /\ ListFree /\ s \in stores /\ stores' = stores \ {s}
  /\ listStore' = IF listStore = s THEN Generic ELSE listStore
  /\ UNCHANGED <<list, routes, stock, request, flips, history>>

Request(c) ==
  \/ \E l \in Ids : Toggle(c, l) \/ (\E i \in Items : Bind(c, l, i))
  \/ LockList(c) \/ Flip(c) \/ CommitToggle(c) \/ CheckOn(c) \/ CommitCheck(c)
  \/ Regenerate(c) \/ DeleteGenerated(c) \/ Replace(c) \/ Rollback(c)

Next ==
  \/ \E c \in Requests : Request(c)
  \/ \E l \in Ids : DeleteLine(l)
  \/ \E s \in Stores \cup {Generic} : SetStore(s) \/ ResetRoute(s) \/ DeleteStore(s)
  \/ AddLine \/ Reorder

Spec == Init /\ [][Next]_vars
-----------------------------------------------------------------------------
(* Properties                                                              *)

TypeOK ==
  /\ Lines \subseteq 1..lastId /\ lastId \in 0..MaxLines
  /\ \A l \in Lines : /\ lines[l].item \in Identities
                      /\ lines[l].checked <=> lines[l].seq > 0
  /\ DOMAIN learned \subseteq Keys /\ ranked \subseteq DOMAIN learned
  /\ \A k \in DOMAIN learned : learned[k] > 0 \/ k \in ranked
  /\ \A i \in Items : pantry[i] \in Nat

\* The order in which lines were checked off survives concurrent check-offs:
\* no two checked lines have the same place in it.
SeqsDistinct ==
  \A l, m \in Lines : lines[l].checked /\ lines[l].seq = lines[m].seq => l = m

\* A line's purchase is credited once ("concurrent check-offs credit exactly
\* once"), whoever checks it, picks its brand or unchecks it meanwhile.
CreditOnce ==
  \A l \in Lines : balance[l] <= IF lines[l].checked THEN 1 ELSE 0

\* However check-offs overlap, a line has a place in the check-off order exactly
\* while it is checked, no two lines have the same, and each is credited once;
\* rows have their types.
ListConsistent == TypeOK /\ SeqsDistinct /\ CreditOnce

\* What the router has learned of a place is what is, or was when its line
\* went, checked there.  Left out are the rows an uncheck did not find: its
\* read preceded another's flip, or the list's store or the line's brand had
\* changed.
LearnedMatchesChecks ==
  \A k \in Keys \ strayed :
    (IF k \in DOMAIN learned THEN learned[k] ELSE 0) = Cardinality({l \in Ids : noted[l] = k})

\* The list, its credits and what was learned from it.
ListAndRouteConsistent == ListConsistent /\ LearnedMatchesChecks

\* "so pantry stock always matches the list state": what an unchecked line
\* has credited, it has taken back.
PantryMatchesList ==
  \A l \in Lines : ~lines[l].checked => \A i \in Items : ledger[l][i] = 0

\* store.go: "its aisles, assignments and route rows cascade".
RoutesCascade == \A k \in DOMAIN learned : k[1] \in stores \cup {Generic}
=============================================================================
