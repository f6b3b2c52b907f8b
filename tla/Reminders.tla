------------------------------ MODULE Reminders -------------------------------
(***************************************************************************)
(* The reminder sweep and what it respects (internal/notifier/sweep.go,    *)
(* service.go): the feed (household.notifications), the push outbox, the   *)
(* members' notification preferences, and event notifications, which share *)
(* the feed (CreateNotification of internal/household/service.go).         *)
(*                                                                         *)
(* Each server process sweeps at its start and then hourly; every          *)
(* statement of a sweep is a transaction of its own.  A dedup key is the   *)
(* pair of a member and a reminder.  A mute window outlasts the behaviour  *)
(* unless it is cleared.  Each reminder is the only one of its kind.       *)
(***************************************************************************)
EXTENDS Naturals, Sequences, FiniteSets

CONSTANTS
  Sweepers,  \* server processes
  Members,   \* of one household
  Meals,     \* reminders of the meal plan's slots
  Expiries,  \* reminders of pantry items nearing expires_at
  Switched,  \* categories whose preferences are edited
  Operations, \* the edits made: of {"enable", "disable", "mute", "clear"}
  KeepRead,  \* read rows a prune keeps (100)
  MaxEvents, \* bound on event notifications
  MaxEdits,  \* bound on preference edits
  MaxFaults  \* bound on failed statements and crashes

VARIABLES
  due,      \* reminders whose trigger has passed
  feed,     \* member -> its notifications, oldest first
  outbox,   \* dedup keys of household.push_delivery
  prefs,    \* member -> category -> the effective preference row
  edits,    \* how many preference edits have started
  pending,  \* edits that have read their row and not written it
  at, pass, \* where each sweep is
  todo,     \* pairs it has not come to
  cur,      \* the pair it is at
  pushOK,   \* the gate's push decision for it
  gate,     \* the preferences it has read: gateCache.prefs
  faults, events,
  agreed,   \* pairs whose push was allowed at some time in the sweep (history)
  chosen    \* what each push switch was last set to (history)

sweep == <<at, pass, todo, cur, pushOK, gate>>
settings == <<prefs, edits, pending, chosen>>
vars == <<due, feed, outbox, settings, sweep, faults, events, agreed>>

Reminders == Meals \cup Expiries
Keys == Members \X Reminders
Nothing == <<>>
Event == "event"
Of(p) == IF p = "meals" THEN Meals ELSE Expiries
CategoryAll == "_all"
Category(r) == IF r \in Meals THEN "meal_reminders" ELSE "expiry"
Categories == {CategoryAll, "meal_reminders", "expiry"}
DefaultPref == [enabled |-> TRUE, muted |-> FALSE, push |-> FALSE]

Init ==
  /\ due \in SUBSET Reminders
  /\ feed = [m \in Members |-> <<>>]
  /\ outbox = {}
  /\ prefs = [m \in Members |-> [c \in Categories |-> DefaultPref]]
  /\ edits = 0 /\ pending = {}
  /\ at = [s \in Sweepers |-> "idle"]
  /\ pass = [s \in Sweepers |-> "meals"]
  /\ todo = [s \in Sweepers |-> {}]
  /\ cur = [s \in Sweepers |-> Nothing]
  /\ pushOK = [s \in Sweepers |-> FALSE]
  /\ gate = [s \in Sweepers |-> [m \in Members |-> Nothing]]
  /\ faults = 0 /\ events = 0
  /\ agreed = [s \in Sweepers |-> {}]
  /\ chosen = [m \in Members |-> [c \in Categories |-> FALSE]]

-----------------------------------------------------------------------------
(* The gates                                                               *)

Buckets(c) == {CategoryAll, c}
FeedAllowed(row, c) == \A b \in Buckets(c) : row[b].enabled /\ ~row[b].muted
PushAllowed(row, c) ==
  /\ \A b \in Buckets(c) : ~row[b].muted
  /\ \E b \in Buckets(c) : row[b].push
PushAgreed == {k \in Keys : PushAllowed(prefs[k[1]], Category(k[2]))}

-----------------------------------------------------------------------------
(* The feed                                                                *)

InFeed(k) == \E i \in DOMAIN feed[k[1]] : feed[k[1]][i].key = k[2]
Insert(m, r) == feed' = [feed EXCEPT ![m] = Append(@, [key |-> r, read |-> FALSE])]
\* ON CONFLICT (dedup_key) DO NOTHING
InsertOnce(k) ==
  IF InFeed(k) THEN UNCHANGED feed ELSE Insert(k[1], k[2])

\* PruneReadNotifications keeps the newest read rows, and every unread one.
Unpruned(rows) ==
  {i \in DOMAIN rows :
     rows[i].read => Cardinality({j \in DOMAIN rows : j > i /\ rows[j].read}) < KeepRead}
Ascending(ids) ==
  {order \in [1..Cardinality(ids) -> ids] :
     \A i, j \in DOMAIN order : i < j => order[i] < order[j]}
PruneRead(m, rows) ==
  \E order \in Ascending(Unpruned(rows)) :
    feed' = [feed EXCEPT ![m] = [i \in DOMAIN order |-> rows[order[i]]]]

Fault == faults < MaxFaults /\ faults' = faults + 1
Fine == UNCHANGED faults

-----------------------------------------------------------------------------
(* One sweep                                                               *)

Goto(s, to) == at' = [at EXCEPT ![s] = to]

\* newGateCache: nothing read before this sweep decides in it.  (Mutant: one
\* cache for the life of the service.)
MutantFreshGate(s) == gate
FreshGate(s) == [gate EXCEPT ![s] = [m \in Members |-> Nothing]]

SweepStart(s) ==
  /\ at[s] = "idle" /\ Goto(s, "list")
  /\ pass' = [pass EXCEPT ![s] = "meals"]
  /\ gate' = FreshGate(s)
  /\ agreed' = [agreed EXCEPT ![s] = PushAgreed]
  /\ UNCHANGED <<due, feed, outbox, settings, todo, cur, pushOK, faults, events>>

\* The pass's reminders and the household's members; a query that fails
\* leaves the pass out.
List(s) ==
  /\ at[s] = "list" /\ Goto(s, "fanout")
  /\ \/ Fine /\ todo' = [todo EXCEPT ![s] = Members \X (due \cap Of(pass[s]))]
     \/ Fault /\ todo' = [todo EXCEPT ![s] = {}]
  /\ UNCHANGED <<due, feed, outbox, settings, pass, cur, pushOK, gate, events, agreed>>

\* The channels for one pair.  When a lookup fails, the feed opens and the
\* push closes.
Proceed(s, k, feedOK, push) ==
  /\ todo' = [todo EXCEPT ![s] = @ \ {k}]
  /\ cur' = [cur EXCEPT ![s] = IF feedOK \/ push THEN k ELSE Nothing]
  /\ pushOK' = [pushOK EXCEPT ![s] = push]
  /\ Goto(s, IF feedOK THEN "feed" ELSE IF push THEN "push" ELSE "fanout")
Decide(s) ==
  /\ at[s] = "fanout"
  /\ \E k \in todo[s] :
       LET m == k[1]
           row == IF gate[s][m] = Nothing THEN prefs[m] ELSE gate[s][m]
       IN \/ /\ Proceed(s, k, FeedAllowed(row, Category(k[2])), PushAllowed(row, Category(k[2])))
             /\ gate' = [gate EXCEPT ![s][m] = row] /\ Fine
          \/ Proceed(s, k, TRUE, FALSE) /\ Fault /\ UNCHANGED gate
  /\ UNCHANGED <<due, feed, outbox, settings, pass, events, agreed>>

NextPair(s) ==
  /\ Goto(s, "fanout") /\ cur' = [cur EXCEPT ![s] = Nothing]
  /\ pushOK' = [pushOK EXCEPT ![s] = FALSE]

\* Whether the row was new is only counted.  (Mutant: a row that was there
\* already has been pushed as well.)
MutantStillPushed(s) == pushOK[s] /\ ~InFeed(cur[s])
StillPushed(s) == pushOK[s]

\* A failed feed insert, applied or not, gives the pair up for this sweep.
FeedInsert(s) ==
  /\ at[s] = "feed"
  /\ \/ /\ InsertOnce(cur[s]) /\ Goto(s, "prune") /\ Fine /\ UNCHANGED cur
        /\ pushOK' = [pushOK EXCEPT ![s] = StillPushed(s)]
     \/ (InsertOnce(cur[s]) \/ UNCHANGED feed) /\ Fault /\ NextPair(s)
  /\ UNCHANGED <<due, outbox, settings, pass, todo, gate, events, agreed>>

\* Its error is ignored.
Prune(s) ==
  LET m == cur[s][1] IN
  /\ at[s] = "prune"
  /\ \/ PruneRead(m, feed[m]) /\ Fine
     \/ UNCHANGED feed /\ Fault
  /\ IF pushOK[s] THEN Goto(s, "push") /\ UNCHANGED <<cur, pushOK>> ELSE NextPair(s)
  /\ UNCHANGED <<due, outbox, settings, pass, todo, gate, events, agreed>>

\* enqueuePush
PushInsert(s) ==
  /\ at[s] = "push"
  /\ \/ outbox' = outbox \cup {cur[s]} /\ Fine
     \/ outbox' \in {outbox, outbox \cup {cur[s]}} /\ Fault
  /\ NextPair(s)
  /\ UNCHANGED <<due, feed, settings, pass, todo, gate, events, agreed>>

EndPass(s) ==
  /\ at[s] = "fanout" /\ todo[s] = {}
  /\ IF pass[s] = "meals"
     THEN /\ Goto(s, "list") /\ pass' = [pass EXCEPT ![s] = "expiry"] /\ UNCHANGED agreed
     ELSE /\ Goto(s, "idle") /\ pass' = [pass EXCEPT ![s] = "meals"]
          /\ agreed' = [agreed EXCEPT ![s] = {}]
  /\ UNCHANGED <<due, feed, outbox, settings, todo, cur, pushOK, gate, faults, events>>

\* The process dies, or Stop cancels the sweep's context, between statements.
Crash(s) ==
  /\ at[s] # "idle" /\ Fault /\ Goto(s, "idle")
  /\ pass' = [pass EXCEPT ![s] = "meals"] /\ todo' = [todo EXCEPT ![s] = {}]
  /\ cur' = [cur EXCEPT ![s] = Nothing] /\ pushOK' = [pushOK EXCEPT ![s] = FALSE]
  /\ gate' = [gate EXCEPT ![s] = [m \in Members |-> Nothing]]
  /\ agreed' = [agreed EXCEPT ![s] = {}]
  /\ UNCHANGED <<due, feed, outbox, settings, events>>

-----------------------------------------------------------------------------
(* Members and the household                                               *)

\* MarkNotificationRead, of an unread row.
MarkRead(m) ==
  /\ \E i \in DOMAIN feed[m] : /\ ~feed[m][i].read
                               /\ feed' = [feed EXCEPT ![m][i] = [key |-> @.key, read |-> TRUE]]
  /\ UNCHANGED <<due, outbox, settings, sweep, faults, events, agreed>>

\* CreateNotification, in the transaction of what it tells of: the row, the
\* prune and the push are one step.  Its push has no dedup key.
EventNotification(m) ==
  /\ events < MaxEvents /\ events' = events + 1
  /\ PruneRead(m, Append(feed[m], [key |-> Event, read |-> FALSE]))
  /\ UNCHANGED <<due, outbox, settings, sweep, faults, agreed>>

\* A trigger passes.  (That its date passes too only ends a reminder; left out.)
Trigger(r) ==
  /\ r \notin due /\ due' = due \cup {r}
  /\ UNCHANGED <<feed, outbox, settings, sweep, faults, events, agreed>>

-----------------------------------------------------------------------------
(* Preference edits: a read and an upsert, without a lock between them.    *)

EditRead(m, c, op) ==
  /\ edits < MaxEdits /\ edits' = edits + 1
  /\ pending' = pending \cup {[who |-> m, category |-> c, op |-> op, row |-> prefs[m][c]]}
  /\ UNCHANGED <<due, feed, outbox, sweep, prefs, chosen, faults, events, agreed>>

Store(m, c, row) ==
  /\ prefs' = [prefs EXCEPT ![m][c] = row]
  /\ agreed' = [s \in Sweepers |->
       IF at[s] = "idle" THEN {}
       ELSE agreed[s] \cup {k \in Keys : PushAllowed(prefs'[k[1]], Category(k[2]))}]

\* SetCategoryEnabled keeps the muted_until it read; MuteCategory and ClearMute
\* keep the enabled they read; the upsert leaves push_enabled alone.
Edited(e) ==
  [enabled |-> IF e.op \in {"enable", "disable"} THEN e.op = "enable" ELSE e.row.enabled,
   muted |-> IF e.op \in {"mute", "clear"} THEN e.op = "mute" ELSE e.row.muted,
   push |-> prefs[e.who][e.category].push]

EditWrite(e) ==
  /\ e \in pending /\ pending' = pending \ {e}
  /\ Store(e.who, e.category, Edited(e))
  /\ UNCHANGED <<due, feed, outbox, sweep, edits, chosen, faults, events>>

\* SetCategoryPushEnabled is one statement.
SetPush(m, c, on) ==
  /\ edits < MaxEdits /\ edits' = edits + 1
  /\ Store(m, c, [prefs[m][c] EXCEPT !.push = on])
  /\ chosen' = [chosen EXCEPT ![m][c] = on]
  /\ UNCHANGED <<due, feed, outbox, sweep, pending, faults, events>>

-----------------------------------------------------------------------------
SweepStep(s) ==
  \/ SweepStart(s) \/ List(s) \/ Decide(s) \/ FeedInsert(s)
  \/ Prune(s) \/ PushInsert(s) \/ EndPass(s)

Next ==
  \/ \E s \in Sweepers : SweepStep(s) \/ Crash(s)
  \/ \E m \in Members :
       \/ MarkRead(m)
       \/ EventNotification(m)
       \/ \E c \in Switched : \/ \E op \in Operations : EditRead(m, c, op)
                              \/ \E on \in BOOLEAN : SetPush(m, c, on)
  \/ \E e \in pending : EditWrite(e)
  \/ \E r \in Reminders : Trigger(r)

\* Start sweeps at once and on every tick; a restarted process does so again.
Fairness == \A s \in Sweepers : WF_vars(SweepStep(s))
Spec == Init /\ [][Next]_vars /\ Fairness

-----------------------------------------------------------------------------
(* Properties                                                              *)

Prefs == [Categories -> [enabled : BOOLEAN, muted : BOOLEAN, push : BOOLEAN]]

\* Rows and requests have their types, and a sweep is at a pair of its own pass
\* exactly while it writes for it.
TypeOK ==
  /\ due \subseteq Reminders /\ outbox \subseteq Keys
  /\ \A m \in Members : feed[m] \in Seq([key : Reminders \cup {Event}, read : BOOLEAN])
  /\ prefs \in [Members -> Prefs]
  /\ \A e \in pending : e.who \in Members /\ e.category \in Categories
  /\ \A s \in Sweepers :
       /\ todo[s] \subseteq Members \X Of(pass[s])
       /\ at[s] \in {"feed", "prune", "push"} <=> cur[s] # Nothing
       /\ cur[s] # Nothing => cur[s] \in (Members \X Of(pass[s])) \ todo[s]
       /\ at[s] = "push" => pushOK[s]
       /\ at[s] = "idle" => agreed[s] = {}

\* A sweep pushes only what its member's preferences allowed at some moment of
\* that sweep: an opt-out or a mute applies from the next sweep on, and a failed
\* lookup never pushes (gateCache, decisions).
PushConsented == \A s \in Sweepers : at[s] = "push" => cur[s] \in agreed[s]

\* The push switch is what it was last set to, whatever overlapping edits of the
\* same row did (SetCategoryPushEnabled beside upsertPref).
PushChoiceKept == \A m \in Members, c \in Categories : prefs[m][c].push = chosen[m][c]

\* Pushes follow the member's choices: the switch as it was last set, and the
\* mutes of the sweep's own time.
ConsentKept == TypeOK /\ PushConsented /\ PushChoiceKept

\* A reminder that stays due, for a member who goes on allowing it, keeps
\* reaching the feed and is pushed in the end, whatever statement or process
\* failed between its two inserts (Sweep, insertRecipeReminder).
EventuallyReminded ==
  \A m \in Members, r \in Reminders :
    /\ <>[](r \in due /\ FeedAllowed(prefs[m], Category(r))) => []<>InFeed(<<m, r>>)
    /\ <>[](r \in due /\ PushAllowed(prefs[m], Category(r))) => <>(<<m, r>> \in outbox)

\* Violated: "a repeated sweep can never create the same reminder twice"
\* (migration 0036) needs the key of a reminder that is still due to stay in the
\* feed, and the prune takes read rows whatever they are.
DueKeyKept == [][\A k \in Keys : k[2] \in due /\ InFeed(k) => InFeed(k)']_vars

\* Violated: SetCategoryEnabled "without disturbing an active mute window".
MuteUndisturbed ==
  [][\A e \in pending :
       e \notin pending' /\ e.op \in {"enable", "disable"} =>
         prefs'[e.who][e.category].muted = prefs[e.who][e.category].muted]_vars
=============================================================================
