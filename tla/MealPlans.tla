------------------------------ MODULE MealPlans -------------------------------
(***************************************************************************)
(* Which of a household's weekly plans is active (internal/mealplan/       *)
(* service.go, internal/bff/resolver_mealplan.go), while the household may *)
(* be folded into another one, which takes its plans.                      *)
(*                                                                         *)
(* An activation clears the other plans and then writes its own, in one    *)
(* transaction; meal_plan_one_active_per_household lets one plan of a      *)
(* household be active.  READ COMMITTED as in Stock.                       *)
(***************************************************************************)
EXTENDS Naturals, FiniteSets

CONSTANTS
  Plans,     \* the plans the household ever has at once
  Requests,
  NoPlan,
  Nobody     \* no transaction

Merge == "merge"

VARIABLES
  plan,      \* each plan as last written: whether the household has it, whether it is active
  seen,      \* and as last committed
  owner,     \* the transaction whose write is not committed
  at, op, own, flag, other, \* requests: where, doing what, to which plan, the is_active they
             \* write, the active plan their clearing statement saw
  mergeAt,   \* the merge that takes the plans: "no", "locked", "done"
  chosen,    \* the plan last activated on purpose, and not deactivated since (history)
  strayed,   \* a rename wrote an is_active that was outdated since (history)
  overtaken, \* another activation committed since the request began (history)
  needless   \* an activation that was not overtaken was refused (history)

tables == <<plan, seen, owner>>
request == <<at, op, own, flag, other>>
history == <<chosen, strayed, overtaken, needless>>
vars == <<tables, request, mergeAt, history>>

Gone == [here |-> FALSE, active |-> FALSE]
ActiveIn(p) == {q \in Plans : p[q].active}
Only(s) == IF s = {} THEN NoPlan ELSE CHOOSE q \in s : TRUE

Init ==
  /\ \E had \in SUBSET Plans, a \in Plans \cup {NoPlan} :
       /\ a \in had \cup {NoPlan}
       /\ seen = [q \in Plans |-> [here |-> q \in had, active |-> q = a]]
       /\ chosen = a
  /\ plan = seen /\ owner = [q \in Plans |-> Nobody]
  /\ at = [r \in Requests |-> "idle"] /\ op = [r \in Requests |-> "rename"]
  /\ own = [r \in Requests |-> NoPlan] /\ flag = [r \in Requests |-> FALSE]
  /\ other = [r \in Requests |-> NoPlan] /\ mergeAt = "no"
  /\ strayed = FALSE /\ overtaken = [r \in Requests |-> FALSE] /\ needless = FALSE

Goto(r, to) == at' = [at EXCEPT ![r] = to]
Leave(r) ==
  /\ Goto(r, "idle") /\ op' = [op EXCEPT ![r] = "rename"]
  /\ own' = [own EXCEPT ![r] = NoPlan] /\ flag' = [flag EXCEPT ![r] = FALSE]
  /\ other' = [other EXCEPT ![r] = NoPlan]
Free(t, q) == owner[q] \in {Nobody, t}
Undo(t) ==
  /\ plan' = [q \in Plans |-> IF owner[q] = t THEN seen[q] ELSE plan[q]]
  /\ owner' = [q \in Plans |-> IF owner[q] = t THEN Nobody ELSE owner[q]]

-----------------------------------------------------------------------------
(* CreateMealPlan, UpdateMealPlan, DeleteMealPlan                          *)

\* An update starts from the plan it reads outside its transaction; without an
\* argument isActive ("rename") it writes back what it read.
Begin(r, o, q, f) ==
  /\ at[r] = "idle"
  /\ CASE o = "create" -> ~seen[q].here /\ owner[q] = Nobody /\ \A s \in Requests : own[s] # q
       [] o = "set"    -> seen[q].here
       [] o = "rename" -> seen[q].here /\ f = seen[q].active
       [] o = "delete" -> ~f
  /\ op' = [op EXCEPT ![r] = o] /\ own' = [own EXCEPT ![r] = q] /\ flag' = [flag EXCEPT ![r] = f]
  /\ Goto(r, IF f THEN "clearing" ELSE "writing")
  /\ overtaken' = [overtaken EXCEPT ![r] = FALSE]
  /\ UNCHANGED <<tables, other, mergeAt, chosen, strayed, needless>>

\* DeactivateOtherMealPlans: what it sees, and the write once the row is free.
Look(r) ==
  /\ at[r] = "clearing" /\ Goto(r, "waiting")
  /\ other' = [other EXCEPT ![r] = Only(ActiveIn(seen) \ {own[r]})]
  /\ UNCHANGED <<tables, op, own, flag, mergeAt, history>>
\* (Mutant: nothing is cleared before the write.)
MutantClear(r) ==
  /\ at[r] = "waiting" /\ Goto(r, "writing") /\ other' = [other EXCEPT ![r] = NoPlan]
  /\ UNCHANGED <<tables, op, own, flag, mergeAt, history>>
Clear(r) ==
  LET q == other[r] IN
  /\ at[r] = "waiting" /\ Goto(r, "writing") /\ other' = [other EXCEPT ![r] = NoPlan]
  /\ IF q # NoPlan
     THEN /\ Free(r, q)
          /\ plan' = [plan EXCEPT ![q].active = FALSE]
          /\ owner' = [owner EXCEPT ![q] = IF plan[q].active THEN r ELSE @]
     ELSE UNCHANGED <<plan, owner>>
  /\ UNCHANGED <<seen, op, own, flag, mergeAt, history>>

\* The index: an entry that may yet come or go is waited for, one that stands conflicts.
Awaited(r) ==
  {q \in Plans \ {own[r]} : ~Free(r, q) /\ (plan[q].active \/ seen[q].active)}
Standing(r) == {q \in Plans \ {own[r]} : Free(r, q) /\ plan[q].active}

Refuse(r) == Undo(r) /\ Leave(r)
Write(r) ==
  LET q == own[r] IN
  /\ at[r] = "writing" /\ op[r] # "delete" /\ Free(r, q)
  /\ IF ~(plan[q].here \/ op[r] = "create")
     THEN Refuse(r) /\ UNCHANGED needless  \* not found
     ELSE IF flag[r] /\ Standing(r) # {}
     THEN Awaited(r) = {} /\ Refuse(r) /\ needless' = (needless \/ ~overtaken[r])
     ELSE /\ flag[r] => Awaited(r) = {}
          /\ plan' = [plan EXCEPT ![q] = [here |-> TRUE, active |-> flag[r]]]
          /\ owner' = [owner EXCEPT ![q] = r]
          /\ Goto(r, IF op[r] = "create" THEN "inserting" ELSE "written")
          /\ UNCHANGED <<op, own, flag, other, needless>>
  /\ UNCHANGED <<seen, mergeAt, chosen, strayed, overtaken>>
Delete(r) ==
  LET q == own[r] IN
  /\ at[r] = "writing" /\ op[r] = "delete" /\ Free(r, q)
  /\ IF plan[q].here
     THEN /\ plan' = [plan EXCEPT ![q] = Gone] /\ owner' = [owner EXCEPT ![q] = r]
          /\ Goto(r, "written") /\ UNCHANGED <<op, own, flag, other>>
     ELSE Refuse(r)
  /\ UNCHANGED <<seen, mergeAt, history>>

\* An insert's household is locked by the merge, then gone.
CheckHousehold(r) ==
  /\ at[r] = "inserting" /\ mergeAt # "locked"
  /\ IF mergeAt = "done" THEN Refuse(r)
                         ELSE Goto(r, "inserted") /\ UNCHANGED <<plan, owner, op, own, flag, other>>
  /\ UNCHANGED <<seen, mergeAt, history>>

Publish(t) ==
  /\ seen' = [q \in Plans |-> IF owner[q] = t THEN plan[q] ELSE seen[q]]
  /\ owner' = [q \in Plans |-> IF owner[q] = t THEN Nobody ELSE owner[q]]
Strays(r) == op[r] = "rename" /\ flag[r] # seen[own[r]].active
Commit(r) ==
  LET q == own[r] IN
  /\ at[r] \in {"written", "inserted"} /\ Publish(r)
  /\ chosen' = IF op[r] = "rename" THEN chosen
               ELSE IF flag[r] THEN q
               ELSE IF chosen = q THEN NoPlan ELSE chosen
  /\ strayed' = ((strayed /\ ~(op[r] # "rename" /\ flag[r])) \/ Strays(r))
  /\ overtaken' = [s \in Requests |-> flag[s] /\ s # r /\ (overtaken[s] \/ flag[r])]
  /\ Leave(r) /\ UNCHANGED <<plan, mergeAt, needless>>

-----------------------------------------------------------------------------
(* ReassignHousehold, in the transaction of acceptInvite                   *)

LockHousehold ==
  /\ mergeAt = "no" /\ mergeAt' = "locked" /\ \A r \in Requests : at[r] # "inserted"
  /\ UNCHANGED <<tables, request, history>>

\* ReassignMealPlansToHousehold takes the plans one by one, in no given order.
Reassign(q) ==
  /\ mergeAt = "locked" /\ seen[q].here /\ owner[q] = Nobody
  /\ plan' = [plan EXCEPT ![q] = Gone] /\ owner' = [owner EXCEPT ![q] = Merge]
  /\ UNCHANGED <<seen, request, mergeAt, history>>
FinishMerge ==
  /\ mergeAt = "locked" /\ \A q \in Plans : seen[q].here => owner[q] = Merge
  /\ Publish(Merge) /\ mergeAt' = "done" /\ chosen' = NoPlan /\ strayed' = FALSE
  /\ UNCHANGED <<plan, request, overtaken, needless>>

\* The merge has a plan that a request waits for, or bars its insert, and waits
\* for one that the request has: the database fails one of them.
Deadlocked(r) ==
  /\ mergeAt = "locked" /\ \E q \in Plans : owner[q] = r /\ seen[q].here
  /\ \/ at[r] = "inserting"
     \/ at[r] = "writing" /\ owner[own[r]] = Merge
FailRequest(r) ==
  /\ Deadlocked(r) /\ Refuse(r) /\ UNCHANGED <<seen, mergeAt, history>>
FailMerge ==
  /\ \E r \in Requests : Deadlocked(r)
  /\ Undo(Merge) /\ mergeAt' = "no" /\ UNCHANGED <<seen, request, history>>

Next ==
  \/ \E r \in Requests :
       \/ \E o \in {"create", "set", "rename", "delete"}, q \in Plans, f \in BOOLEAN :
            Begin(r, o, q, f)
       \/ Look(r) \/ Clear(r) \/ Write(r) \/ Delete(r) \/ CheckHousehold(r) \/ Commit(r)
       \/ FailRequest(r)
  \/ LockHousehold \/ (\E q \in Plans : Reassign(q)) \/ FinishMerge \/ FailMerge

Spec == Init /\ [][Next]_vars

-----------------------------------------------------------------------------
(* Properties                                                              *)

Rows == [here : BOOLEAN, active : BOOLEAN]
TypeOK ==
  /\ plan \in [Plans -> Rows] /\ seen \in [Plans -> Rows]
  /\ \A q \in Plans : owner[q] = Nobody => plan[q] = seen[q]
  /\ \A q \in Plans : seen[q].active => seen[q].here

\* One plan is active at most, and it is the one that was last activated, unless
\* a rename wrote back an is_active that was no longer so.
ActiveAsChosen ==
  /\ Cardinality(ActiveIn(seen)) <= 1
  /\ strayed \/ Only(ActiveIn(seen)) = chosen

\* "A concurrent activation then fails with ErrConflict", and no other one does.
RefusedWhenOvertaken == ~needless

PlansConsistent == TypeOK /\ ActiveAsChosen /\ RefusedWhenOvertaken
===============================================================================
