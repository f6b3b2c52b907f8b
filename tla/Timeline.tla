------------------------------- MODULE Timeline --------------------------------
(***************************************************************************)
(* The backward scheduling of one event slot (internal/event/timeline.go): *)
(* every step ends when the first of the steps that need it begins, the    *)
(* last ones at the slot's target time.                                    *)
(*                                                                         *)
(* Steps are a set of records with their number, explicit dependency and   *)
(* duration in minutes; the column's NULL is Nil.  Times are minutes.      *)
(***************************************************************************)
EXTENDS Integers, Sequences, SequencesExt, FiniteSets, FiniteSetsExt

Nil == -1

Numbers(steps) == {s.num : s \in steps}
Numbered(steps, n) == CHOOSE s \in steps : s.num = n

\* The explicit dependency, else the previous number, else none, which is 0.
DepOf(s) == IF s.dep # Nil THEN s.dep ELSE IF s.num > 1 THEN s.num - 1 ELSE 0

\* depEdges: a dependency on a missing step is ignored.
DepEdges(steps) == {e \in Numbers(steps) \X Numbers(steps) :
                      e[1] # 0 /\ DepOf(Numbered(steps, e[2])) = e[1]}

\* The dependents that scheduleRecipe hands to placeSteps.
Dependents(steps, n) == {m \in Numbers(steps) : n > 0 /\ DepOf(Numbered(steps, m)) = n}

\* drainTopoQueue: the free steps are kept sorted, the first one is next.
Free(steps, placed) ==
  {m \in Numbers(steps) \ placed : \A e \in DepEdges(steps) : e[2] = m => e[1] \in placed}
DrainOne(steps, order) ==
  LET queue == Free(steps, ToSet(order))
  IN IF queue = {} THEN order ELSE Append(order, Min(queue))
TopoOrder(steps) ==
  LET drained[n \in 0..Cardinality(steps)] ==
        IF n = 0 THEN <<>> ELSE DrainOne(steps, drained[n - 1])
  IN drained[Cardinality(steps)]

\* Rounded up to whole slots and clamped to an int32; a missing or zero duration
\* is estimated as one slot.
MaxInt32 == 2147483647
EffectiveMinutes(duration, granularity) ==
  IF duration <= 0 THEN granularity
  ELSE LET r == duration % granularity
           m == IF r = 0 THEN duration ELSE duration + granularity - r
       IN IF m > MaxInt32 THEN MaxInt32 ELSE m

\* A step that is not placed yet starts at Go's zero time, long before.
ZeroTime == -100000

\* The last dependent decides, not the first.
MutantLatestEnd(target, startsOfDependents) ==
  IF startsOfDependents = {} THEN target ELSE Max(startsOfDependents)
\* The latest end that suits the dependents placed so far.
LatestEnd(target, startsOfDependents) == Min({target} \cup startsOfDependents)

\* placeSteps, from the last step of the order to the first: the function from
\* numbers to starts and ends.
PlaceStep(steps, times, n, target, granularity) ==
  LET end == LatestEnd(target, {times[m].start : m \in Dependents(steps, n)})
      minutes == EffectiveMinutes(Numbered(steps, n).dur, granularity)
  IN [times EXCEPT ![n] = [start |-> end - minutes, end |-> end]]
PlaceSteps(steps, order, target, granularity) ==
  LET placed[k \in 0..Len(order)] ==
        IF k = 0 THEN [n \in Numbers(steps) |-> [start |-> ZeroTime, end |-> ZeroTime]]
        ELSE PlaceStep(steps, placed[k - 1], order[Len(order) + 1 - k], target, granularity)
  IN placed[Len(order)]

\* scheduleRecipe: no steps, or a cycle among them, cannot be scheduled.
ScheduleRecipe(steps, target, granularity) ==
  LET order == TopoOrder(steps)
  IN IF steps = {} \/ Len(order) # Cardinality(steps)
     THEN [unschedulable |-> TRUE]
     ELSE [unschedulable |-> FALSE,
           times |-> PlaceSteps(steps, order, target, granularity)]

--------------------------------------------------------------------------------
(* What a schedule promises, without an algorithm.                         *)

\* The step that s waits for, if it is there.
WaitsFor(s, d, steps) == d.num = DepOf(s) /\ d \in steps

\* Steps that wait for each other in a circle can never begin.
Circular(steps) ==
  \E stuck \in SUBSET steps :
    stuck # {} /\ \A s \in stuck : \E d \in stuck : WaitsFor(s, d, steps)

\* The shortest whole number of slots that the step fits into, unless that is more
\* than an int32 holds.
WholeSlots(minutes, duration, granularity) ==
  \/ /\ minutes % granularity = 0 /\ minutes >= granularity
     /\ minutes >= duration /\ minutes - granularity < Max({duration, 1})
  \/ minutes = MaxInt32 /\ duration > MaxInt32 - granularity

Schedules(plan, steps, target, granularity) ==
  IF steps = {} \/ Circular(steps) THEN plan.unschedulable
  ELSE /\ ~plan.unschedulable
       /\ \A s \in steps :
            LET t == plan.times[s.num]
                after == {plan.times[m.num].start : m \in {x \in steps : WaitsFor(x, s, steps)}}
            IN /\ WholeSlots(t.end - t.start, s.dur, granularity)
               /\ t.end \in {target} \cup after
               /\ t.end <= target /\ \A x \in after : t.end <= x
================================================================================
