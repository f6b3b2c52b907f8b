-------------------------- MODULE MCRecipesAndEvents ---------------------------
(***************************************************************************)
(* MCRecipes side by side with a small instance of EventPlans, small       *)
(* recipes under every delta of up to two changes.  They share no state; a *)
(* behaviour is one of what `part` names, the other keeps its initial      *)
(* state.                                                                  *)
(***************************************************************************)
EXTENDS EventPlans, MCRecipes

VARIABLES part

AllInit ==
  /\ part \in {"recipes", "events"} /\ RecipesInit /\ EventsInit
  /\ part = "events" => deriving = "catalog"
AllNext ==
  /\ \/ part = "recipes" /\ RecipesNext /\ UNCHANGED eventVars
     \/ part = "events" /\ EventsNext /\ UNCHANGED <<deriving, catalog, deltas>>
  /\ UNCHANGED part
AllSpec == AllInit /\ [][AllNext]_<<part, eventVars, deriving, catalog, deltas>>

AStep(id, num, dep) == [id |-> id, num |-> num, dep |-> dep, dur |-> Nil, added |-> FALSE]
\* Recipes of up to three steps: numbered from 1, from 0, with a gap, with
\* dependencies forward, backward and on the step itself.
MCRecipeSteps ==
  {<<AStep(1, 1, Nil)>>, <<AStep(1, 1, 1)>>,
   <<AStep(1, 1, 2), AStep(2, 2, Nil)>>,
   <<AStep(1, 0, Nil), AStep(2, 1, Nil)>>}
  \cup {<<AStep(1, 1, Nil), AStep(2, n, dep)>> : n \in {2, 3}, dep \in {Nil, 1}}
  \cup {<<AStep(1, 1, Nil), AStep(2, 2, Nil), AStep(3, 3, dep)>> : dep \in {Nil, 1, 2}}
MCStepChanges ==
  [kind : {"remove"}, id : {1, 2}, num : {Nil}, dep : {Nil}]
  \cup [kind : {"replace"}, id : {1, 2}, num : {Nil, 1, 3}, dep : {Nil, 1}]
  \cup [kind : {"add"}, id : {11}, num : {1, 2, 3}, dep : {Nil, 2}]
  \cup [kind : {"add"}, id : {12}, num : {1, 2}, dep : {Nil}]
\* No delta, an empty one, and those of one or two changes to different steps.
MCDeltas ==
  {[exists |-> FALSE, changes |-> {}], [exists |-> TRUE, changes |-> {}]}
  \cup {[exists |-> TRUE, changes |-> pair] :
          pair \in {p \in {{a, b} : a, b \in MCStepChanges} :
                      \A a, b \in p : a # b => a.id # b.id}}

MCDurations == {Nil, 20}
================================================================================
