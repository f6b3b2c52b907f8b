------------------------------ MODULE StepDeltas -------------------------------
(***************************************************************************)
(* A household's changes laid over the steps of a recipe (applyStepDelta,  *)
(* internal/recipe/delta.go).  Items are overlaid the same way and have no *)
(* numbers that others refer to.                                           *)
(*                                                                         *)
(* Steps are a sequence in the order of their numbers, each with the id it *)
(* is told by.  A delta may be missing; its changes are a set of records of*)
(* kind "remove", "replace" (number and dependency may be Nil) and "add",  *)
(* which is told by an id of its own.                                      *)
(***************************************************************************)
EXTENDS Timeline

Anchored(changes, id) == {d \in changes : d.kind # "add" /\ d.id = id}
Adds(changes) == {d \in changes : d.kind = "add"}

\* patchRecipeStep applies the columns that are not NULL.
PatchRecipeStep(s, d) ==
  [s EXCEPT !.num = IF d.num = Nil THEN @ ELSE d.num,
            !.dep = IF d.dep = Nil THEN @ ELSE d.dep]

\* newAddedStep.
NewAddedStep(d) == [id |-> d.id, num |-> d.num, dep |-> d.dep, dur |-> Nil, added |-> TRUE]

\* The recipe's steps with the removed ones dropped and the replaced ones patched,
\* then the added ones in the order of their ids: rows by the places that order
\* them.
Kept(steps, changes) ==
  {n \in 1..Len(steps) : ~ \E d \in Anchored(changes, steps[n].id) : d.kind = "remove"}
Merged(steps, changes) ==
  [p \in Kept(steps, changes) \cup {Len(steps) + d.id : d \in Adds(changes)} |->
     IF p > Len(steps) THEN NewAddedStep(CHOOSE d \in Adds(changes) : Len(steps) + d.id = p)
     ELSE IF Anchored(changes, steps[p].id) = {} THEN steps[p]
     ELSE PatchRecipeStep(steps[p], CHOOSE d \in Anchored(changes, steps[p].id) : TRUE)]

\* By number alone.
MutantSortsBefore(s, t) == s.num < t.num
\* The comparison of the sort: by number, an added step first.
SortsBefore(s, t) == s.num < t.num \/ (s.num = t.num /\ s.added /\ ~t.added)

\* A stable sort places a row behind those that sort before it and, among those
\* it ties with, behind the earlier ones.
Before(rows, q, p) ==
  SortsBefore(rows[q], rows[p]) \/ (q < p /\ ~SortsBefore(rows[p], rows[q]))
Rank(rows, p) == 1 + Cardinality({q \in DOMAIN rows : Before(rows, q, p)})
StableSorted(rows) ==
  [r \in 1..Cardinality(DOMAIN rows) |-> rows[CHOOSE p \in DOMAIN rows : Rank(rows, p) = r]]

\* Renumbered 1..N; the dependencies keep the numbers they were written with.
Renumbered(list) == [i \in 1..Len(list) |-> [list[i] EXCEPT !.num = i]]

\* A household without a delta sees the recipe as it is; one whose delta is empty
\* sees it renumbered.
ApplyStepDelta(steps, delta) ==
  IF delta.exists THEN Renumbered(StableSorted(Merged(steps, delta.changes))) ELSE steps

--------------------------------------------------------------------------------
(* What an overlay promises.                                               *)

Removed(s, changes) == \E d \in changes : d.kind = "remove" /\ d.id = s.id

\* The number a step of the result was wished to have.
Wished(s, steps, changes) ==
  LET wishes == {d.num : d \in {c \in changes : c.kind # "remove" /\ c.id = s.id}} \ {Nil}
  IN IF wishes = {} THEN (CHOOSE b \in ToSet(steps) : b.id = s.id).num
     ELSE CHOOSE w \in wishes : TRUE

\* Every step that is not removed occurs once, and every addition; they are
\* numbered 1..N in the order of the wished numbers, an addition before the step
\* it displaces, and steps of the recipe in their old order if they tie.
Overlaid(result, steps, delta) ==
  LET changes == delta.changes
      ids == {s.id : s \in {b \in ToSet(steps) : ~Removed(b, changes)}}
             \cup {d.id : d \in Adds(changes)}
      wished(i) == Wished(result[i], steps, changes)
      first(id) == CHOOSE n \in 1..Len(steps) : steps[n].id = id
  IN /\ {result[i].id : i \in 1..Len(result)} = ids /\ Len(result) = Cardinality(ids)
     /\ \A i, j \in 1..Len(result) : i < j =>
          \/ wished(i) < wished(j)
          \/ /\ wished(i) = wished(j) /\ ~(result[j].added /\ ~result[i].added)
             /\ ~result[i].added /\ ~result[j].added =>
                  first(result[i].id) < first(result[j].id)
     /\ delta.exists => \A i \in 1..Len(result) : result[i].num = i
================================================================================
