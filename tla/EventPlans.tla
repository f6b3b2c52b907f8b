------------------------------ MODULE EventPlans -------------------------------
(***************************************************************************)
(* The steps of one slot of an event (internal/event/service.go): a copy   *)
(* of a recipe's steps under the household's changes, taken when the slot  *)
(* is linked and again by a sync, and edited on its own in between.  The   *)
(* timeline is computed from it at every read.                             *)
(*                                                                         *)
(* The rows of one slot change in one transaction at a time: those that    *)
(* append lock the slot.  The recipe and the changes stay as the link says;*)
(* RecipeDeltas is about their changes.                                    *)
(***************************************************************************)
EXTENDS StepDeltas

CONSTANTS
  Linkable,     \* the recipes to link, sequences of steps
  Changes,      \* the households' deltas
  Durations,    \* of hand-written steps
  Target, Granularity,
  MaxSteps,     \* bound: steps of a slot
  MaxEdits      \* bound: edits of a linked slot between two copies

\* recipe_step: the rows in the order of step_number, which is unique within a
\* recipe, as are their ids; a minute count is not negative.
IsRecipe(r) ==
  /\ r \in Seq([id : Nat, num : Int, dep : Int, dur : Nat \cup {Nil}, added : {FALSE}])
  /\ \A i, j \in 1..Len(r) : i < j => r[i].num < r[j].num /\ r[i].id # r[j].id
\* recipe_delta_step: one change per step, an addition has a place and an id of
\* its own; no changes without a delta.
IsDelta(delta) ==
  /\ IsFiniteSet(delta.changes)
  /\ \A d \in delta.changes :
       /\ d \in [kind : {"remove", "replace", "add"}, id : Nat \ {0}, num : Int, dep : Int]
       /\ d.kind = "add" => d.num # Nil
  /\ \A c, d \in delta.changes : c.id = d.id => c = d
  /\ delta.exists \in BOOLEAN /\ (~delta.exists => delta.changes = {})

ASSUME EventPlansAssumption ==
  /\ Granularity \in Nat \ {0} /\ Target \in Int /\ MaxSteps \in Nat
  /\ Durations \subseteq Nat \cup {Nil}
  /\ \A r \in Linkable : IsRecipe(r)
  /\ \A delta \in Changes :
       /\ IsDelta(delta)
       /\ \A r \in Linkable : \A i \in 1..Len(r) :
            \A d \in Adds(delta.changes) : d.id # r[i].id

VARIABLES
  link,         \* the recipe and delta the slot was made from, or NoLink
  slot,         \* its rows
  copy,         \* history: the steps it was copied from, while it is unedited
  edits

eventVars == <<link, slot, copy, edits>>

NoLink == [steps |-> <<>>, delta |-> [exists |-> FALSE, changes |-> {}]]
Links == {l \in [steps : Linkable, delta : Changes] :
            \A d \in l.delta.changes :
              d.kind # "add" => \E s \in ToSet(l.steps) : s.id = d.id}

EventsInit == link = NoLink /\ slot = {} /\ copy = <<>> /\ edits = 0

Effective(l) == ApplyStepDelta(l.steps, l.delta)
Row(s) == [num |-> s.num, dep |-> s.dep, dur |-> s.dur]

\* The rows are inserted one by one; each may depend on those before it, and on
\* itself.
Copyable(l) ==
  LET steps == Effective(l)
  IN \A i \in 1..Len(steps) :
       steps[i].dep = Nil \/ \E j \in 1..i : steps[j].num = steps[i].dep

\* snapshotRecipeContents and ReplaceEventRecipeSteps.  A row that cannot be
\* inserted rolls all of it back.
Materialise(l) ==
  /\ Copyable(l)
  /\ link' = l /\ copy' = Effective(l)
  /\ slot' = {Row(s) : s \in ToSet(Effective(l))}
  /\ edits' = 0

AddEventRecipe == link = NoLink /\ slot = {} /\ \E l \in Links : Materialise(l)
SyncEventRecipe == link # NoLink /\ Materialise(link)
\* Linked to another recipe.  Bound: from an unedited slot, and to a recipe that
\* the household has not changed.
UpdateEventRecipe(l) ==
  /\ link # NoLink /\ edits = 0 /\ l.steps # link.steps /\ Materialise(l)

\* The slot is no longer the copy; a hand-written slot is bounded by MaxSteps.
Edited ==
  /\ link = NoLink \/ edits < MaxEdits
  /\ edits' = IF link = NoLink THEN 0 ELSE edits + 1
  /\ copy' = <<>> /\ link' = link

MayDependOn(dep, numbers) == dep = Nil \/ dep \in numbers

\* AddEventRecipeStep: MAX()+1 under the slot's lock.
AppendStep(dep, dur) ==
  LET num == 1 + Max(Numbers(slot) \cup {0})
  IN /\ Cardinality(slot) < MaxSteps /\ num <= MaxSteps
     /\ MayDependOn(dep, Numbers(slot) \cup {num})
     /\ slot' = slot \cup {[num |-> num, dep |-> dep, dur |-> dur]}
     /\ Edited

UpdateStep(s, dep, dur) ==
  /\ MayDependOn(dep, Numbers(slot))
  /\ slot' = (slot \ {s}) \cup {[s EXCEPT !.dep = dep, !.dur = dur]}
  /\ Edited

\* The foreign key keeps a step that another one names.
DeleteStep(s) ==
  /\ \A t \in slot \ {s} : t.dep # s.num
  /\ slot' = slot \ {s} /\ Edited

PlainLinks == {[NoLink EXCEPT !.steps = r] : r \in Linkable}

EventsNext ==
  \/ AddEventRecipe
  \/ \E l \in PlainLinks : UpdateEventRecipe(l)
  \/ SyncEventRecipe
  \/ \E dep \in {Nil} \cup (1..MaxSteps), dur \in Durations :
       AppendStep(dep, dur) \/ \E s \in slot : UpdateStep(s, dep, dur)
  \/ \E s \in slot : DeleteStep(s)

EventsSpec == EventsInit /\ [][EventsNext]_eventVars

--------------------------------------------------------------------------------
Positive == \A n \in Numbers(slot) : n > 0

\* Whatever the edits leave of a slot, its timeline is right: it has a schedule
\* unless its steps wait for each other in a circle, and then every step takes
\* its whole slots and ends exactly when the first step that needs it begins, or
\* at the target.  Recipes that number their steps from 0 are the exception.
TimelineCorrect ==
  Positive => Schedules(ScheduleRecipe(slot, Target, Granularity), slot, Target, Granularity)

\* A copy holds the steps that the household sees, in its order and once each.
OverlayFaithful ==
  copy # <<>> => Overlaid(copy, link.steps, link.delta)

\* ApplyDelta's comment: a dependency means the step that has the number in the
\* recipe.
DependenciesKept ==
  \A i \in 1..Len(copy) :
    LET named == {s \in ToSet(link.steps) : s.num = copy[i].dep}
    IN \A s \in named : \E t \in ToSet(copy) : t.num = copy[i].dep /\ t.id = s.id

\* A saved recipe can be put on an event.
EveryRecipeCopies == \A r \in Linkable : Copyable([NoLink EXCEPT !.steps = r])
================================================================================
