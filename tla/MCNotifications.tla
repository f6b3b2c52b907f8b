--------------------------- MODULE MCNotifications ----------------------------
(***************************************************************************)
(* Small instances of the two components of the notifier: the delivery     *)
(* workers that drain the push outbox, and the sweeps and preference edits *)
(* that fill it.  A sweep's insert is all they share, and PushDelivery     *)
(* starts from an inserted row; a behaviour is one of the component that   *)
(* `part` names, the other keeps its initial state and only the running    *)
(* one is scheduled.                                                       *)
(***************************************************************************)
EXTENDS PushDelivery, MCReminders

VARIABLES part

reminders == <<due, feed, outbox, prefs, edits, pending, at, pass, todo, cur, pushOK, gate,
               sweepFaults, events, agreed, chosen>>
allVars == <<part, vars, reminders>>

AllInit ==
  \/ part = "push" /\ Init /\ R!Init /\ due = {}
  \/ part = "reminders" /\ R!Init /\ Init /\ tokens = {}
OfPush(step) == part = "push" /\ step /\ UNCHANGED <<part, reminders>>
OfReminders(step) == part = "reminders" /\ step /\ UNCHANGED <<part, vars>>
AllNext == OfPush(Next) \/ OfReminders(R!Next)

\* The fairness of PushDelivery and of Reminders.
AllFairness ==
  /\ WF_allVars(OfPush(Tick))
  /\ \A d \in Dispatchers : WF_allVars(OfPush(Dispatcher(d)))
  /\ \A s \in Sweepers : WF_allVars(OfReminders(R!SweepStep(s)))
AllSpec == AllInit /\ [][AllNext]_allVars /\ AllFairness

\* The liveness properties of each component, for its own behaviours: every push is
\* eventually delivered or given up; every reminder that stays due and allowed
\* reaches the feed and is pushed.
PushesSettle == part = "push" => EventuallySettled
RemindersReach == part = "reminders" => EventuallyReminded
================================================================================
