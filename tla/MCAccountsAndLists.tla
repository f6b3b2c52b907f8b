-------------------------- MODULE MCAccountsAndLists ---------------------------
(***************************************************************************)
(* Small instances of the resolved-user cache, of a grocery list and of a  *)
(* household's meal plans, which share no state, side by side: a behaviour *)
(* is one of the component `part` names, the others keep their initial     *)
(* states.                                                                 *)
(***************************************************************************)
EXTENDS Resolutions, TLC

CONSTANTS Items, Stores, Generic, Unbranded, MaxLines, MaxFlips, MaxEdits,
          Plans, NoPlan, Nobody

VARIABLES part
VARIABLES lines, lastId, listStore, stores, learned, ranked, usual, pantry, step,
          line, brand, before, place, doomed, flips, edits, ledger, balance, noted, strayed
VARIABLES plan, planSeen, owner, stepOf, op, own, flag, other, mergeAt,
          chosen, outdated, overtaken, needless

G == INSTANCE Grocery
M == INSTANCE MealPlans WITH seen <- planSeen, at <- stepOf, strayed <- outdated

ASSUME AccountsAndListsAssumption ==
  /\ TTL \in Nat /\ MaxWrites \in Nat
  /\ MaxLines \in Nat \ {0, 1} /\ Unbranded \notin Items
  /\ NoPlan \notin Plans /\ Nobody # M!Merge /\ {Nobody, M!Merge} \cap Requests = {}

grocery == <<lines, lastId, listStore, stores, learned, ranked, usual, pantry, step,
             line, brand, before, place, doomed, flips, edits, ledger, balance, noted, strayed>>
plans == <<plan, planSeen, owner, stepOf, op, own, flag, other, mergeAt,
           chosen, outdated, overtaken, needless>>

AllInit ==
  /\ part \in {"accounts", "lists", "plans"} /\ Init /\ G!Init /\ M!Init
  /\ part # "plans" => planSeen = [q \in Plans |-> M!Gone]
AllNext ==
  /\ \/ part = "accounts" /\ Next /\ UNCHANGED <<grocery, plans>>
     \/ part = "lists" /\ G!Next /\ UNCHANGED <<vars, plans>>
     \/ part = "plans" /\ M!Next /\ UNCHANGED <<vars, grocery>>
  /\ UNCHANGED part
AllSpec == AllInit /\ [][AllNext]_<<part, vars, grocery, plans>>

\* The properties of Grocery and MealPlans under their own names.
ListAndRouteConsistent == part = "lists" => G!ListAndRouteConsistent
PlansConsistent == part = "plans" => M!PlansConsistent

\* MealPlans chooses among plans only where at most one is active.
MCSymmetry == Permutations(Requests) \cup Permutations(Plans)
================================================================================
