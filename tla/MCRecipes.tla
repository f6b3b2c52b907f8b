------------------------------ MODULE MCRecipes --------------------------------
(***************************************************************************)
(* Small instances of two components that derive something from rows that  *)
(* others edit: the snapshot of the catalog that imports map against, and  *)
(* a household's tweaks to a recipe.  They share no state; a behaviour is  *)
(* one of the component `deriving` names, the other keeps its initial      *)
(* state.                                                                  *)
(***************************************************************************)
EXTENDS Naturals, Sequences, TLC

CONSTANTS Imports, Writers, Nobody, Pages, MaxWrites
CONSTANTS Requests, MaxBegun

VARIABLES deriving
VARIABLES ver, announced, snap, unexpired, gen, leader, built, genSeen, importAt, got,
          since, wrote
VARIABLES version, updatedAt, delta, events, copied, clock, requestAt, kind, began, anchor,
          loaded, base, slotOf, seen, backdated

C == INSTANCE CatalogSnapshots WITH at <- importAt
D == INSTANCE RecipeDeltas WITH at <- requestAt, slot <- slotOf

catalog == <<ver, announced, snap, unexpired, gen, leader, built, genSeen, importAt, got,
             since, wrote>>
deltas == <<version, updatedAt, delta, events, copied, clock, requestAt, kind, began,
            anchor, loaded, base, slotOf, seen, backdated>>

RecipesInit == deriving \in {"catalog", "deltas"} /\ C!Init /\ D!Init
RecipesNext ==
  /\ \/ deriving = "catalog" /\ C!Next /\ UNCHANGED deltas
     \/ deriving = "deltas" /\ D!Next /\ UNCHANGED catalog
  /\ UNCHANGED deriving
RecipesSpec == RecipesInit /\ [][RecipesNext]_<<deriving, catalog, deltas>>

\* The properties of each component under their own names.
InstalledFresh == C!InstalledFresh
DriftFlagged == D!DriftFlagged
EveryDriftFlagged == D!EveryDriftFlagged
HistoryChains == D!HistoryChains
CopyOfOneVersion == D!CopyOfOneVersion

\* Imports, writers and requests are interchangeable.
MCSymmetry == Permutations(Imports) \cup Permutations(Writers) \cup Permutations(Requests)
================================================================================
