----------------------------- MODULE RecipeDeltas ------------------------------
(***************************************************************************)
(* One recipe, the tweaks of one household to it (internal/recipe/delta.go)*)
(* and the copies that the household's events take of both                 *)
(* (bff/resolver_event.go).  Admins edit the recipe while members set,     *)
(* clear and acknowledge the tweaks and lay out events.                    *)
(*                                                                         *)
(* A tweak set is told apart by the time of the transaction that wrote it; *)
(* its items and its steps are read by two statements.  Every edit         *)
(* replaces the recipe's lines, so a tweak's anchor is the version its     *)
(* author saw, and a later edit orphans it.  Postgres' now() is the time a *)
(* transaction began, so an edit's updated_at is read off `clock` then.    *)
(***************************************************************************)
EXTENDS Naturals, Sequences

CONSTANTS
  Requests,     \* transactions in flight
  MaxBegun      \* bound: transactions in all

VARIABLES
  version,      \* the recipe's content
  updatedAt,    \* its updated_at, or created_at while it is unedited
  delta,        \* the household's row: its id, tweaks, their anchor, base_updated_at
  events,       \* the delta's audit rows, in the order of their commits
  slot,         \* what the newest copy was made of
  clock,        \* transactions begun, the time
  at, kind,     \* of a request: how far it is, and what it does
  began,        \* when its transaction began
  anchor,       \* the recipe version its tweaks are about, 0 if they are additions
  loaded,       \* the delta it has read: the row's id, items, steps
  base,         \* the recipe's updated_at and version as its statement sees them
  copied,       \* the recipe version whose steps a copy has read
  seen,         \* history: the recipe's version that `delta` was based on
  backdated     \* history: an edit has put updated_at back

vars == <<version, updatedAt, delta, events, slot, clock, at, kind, began, anchor,
          loaded, base, copied, seen, backdated>>

NoDelta == [row |-> 0, tweaks |-> 0, anchor |-> 0, base |-> 0]
Exists == delta # NoDelta
NotLoaded == [row |-> 0, items |-> 0, steps |-> 0]
NoSlot == [tweaks |-> NotLoaded, steps |-> 0, items |-> 0]
NoTweaks == <<0, 0>>
Snapshot(q) == <<loaded[q].items, loaded[q].steps>>

Init ==
  /\ version = 1 /\ updatedAt = 0 /\ delta = NoDelta /\ events = <<>>
  /\ slot = NoSlot /\ clock = 0
  /\ at = [q \in Requests |-> "idle"] /\ kind = [q \in Requests |-> "edit"]
  /\ began = [q \in Requests |-> 0] /\ anchor = [q \in Requests |-> 0]
  /\ loaded = [q \in Requests |-> NotLoaded]
  /\ base = [q \in Requests |-> <<0, 0>>] /\ copied = [q \in Requests |-> 0]
  /\ seen = 0 /\ backdated = FALSE

recipe == <<version, updatedAt, backdated>>
tweaks == <<delta, events, seen>>
request == <<kind, began, anchor>>
reads == <<loaded, base, copied>>

Goto(q, phase) == at' = [at EXCEPT ![q] = phase]
Idle(q) ==
  /\ Goto(q, "idle")
  /\ kind' = [kind EXCEPT ![q] = "edit"] /\ began' = [began EXCEPT ![q] = 0]
  /\ anchor' = [anchor EXCEPT ![q] = 0]
  /\ loaded' = [loaded EXCEPT ![q] = NotLoaded]
  /\ base' = [base EXCEPT ![q] = <<0, 0>>] /\ copied' = [copied EXCEPT ![q] = 0]

\* The base is the time of the write.
MutantBaseOf(q) == began[q]
\* UpsertRecipeDelta and AcknowledgeRecipeDelta take the recipe's own
\* updated_at, not the time.
BaseOf(q) == updatedAt

--------------------------------------------------------------------------------
\* A transaction begins; the tweaks of a set were written against the recipe as
\* it is now, or are additions.
Begin(q, k) ==
  /\ at[q] = "idle" /\ clock < MaxBegun
  /\ clock' = clock + 1 /\ began' = [began EXCEPT ![q] = clock + 1]
  /\ kind' = [kind EXCEPT ![q] = k]
  /\ \E a \in IF k = "set" THEN {0, version} ELSE {0} : anchor' = [anchor EXCEPT ![q] = a]
  /\ Goto(q, IF k = "edit" THEN "write" ELSE "load")
  /\ UNCHANGED <<recipe, tweaks, slot, reads>>

\* UpdateRecipeWithChildren commits: the deleted lines take the anchors of the
\* tweaks with them (ON DELETE SET NULL).
Edit(q) ==
  /\ at[q] = "write" /\ kind[q] = "edit"
  /\ version' = version + 1 /\ updatedAt' = began[q]
  /\ backdated' = (backdated \/ began[q] < updatedAt)
  /\ delta' = [delta EXCEPT !.anchor = 0]
  /\ Idle(q) /\ UNCHANGED <<events, seen, slot, clock>>

\* loadDeltaSet and GetRecipeDelta: the row with its items, then its steps.
\* Without a row there is nothing to clear or acknowledge.
LoadItems(q) ==
  /\ at[q] = "load"
  /\ IF Exists \/ kind[q] \in {"set", "copy"}
     THEN /\ Goto(q, IF Exists THEN "steps" ELSE "loaded")
          /\ loaded' = [loaded EXCEPT ![q] =
                          [row |-> delta.row, items |-> delta.tweaks, steps |-> 0]]
          /\ UNCHANGED <<request, base, copied>>
     ELSE Idle(q)
  /\ UNCHANGED <<recipe, tweaks, slot, clock>>
LoadSteps(q) ==
  /\ at[q] = "steps" /\ Goto(q, "loaded")
  /\ loaded' = [loaded EXCEPT ![q].steps =
                  IF delta.row = loaded[q].row THEN delta.tweaks ELSE 0]
  /\ UNCHANGED <<recipe, tweaks, slot, clock, request, base, copied>>

\* The upsert or update of the delta's row takes its snapshot; it may have to
\* wait for the row's lock after that.
ReadBase(q) ==
  /\ at[q] = "loaded" /\ kind[q] \in {"set", "acknowledge"}
  /\ base' = [base EXCEPT ![q] = <<BaseOf(q), version>>] /\ Goto(q, "write")
  /\ UNCHANGED <<recipe, tweaks, slot, clock, request, loaded, copied>>

Log(e, before, after) == Append(events, [event |-> e, before |-> before, after |-> after])

\* SetRecipeDelta commits, unless the lines its tweaks are anchored to are gone.
Set(q) ==
  /\ at[q] = "write" /\ kind[q] = "set" /\ anchor[q] \in {0, version}
  /\ delta' = [row |-> IF Exists THEN delta.row ELSE began[q], tweaks |-> began[q],
               anchor |-> anchor[q], base |-> base[q][1]]
  /\ seen' = base[q][2]
  /\ events' = Log("set", Snapshot(q), <<began[q], began[q]>>)
  /\ Idle(q) /\ UNCHANGED <<recipe, slot, clock>>

\* ClearRecipeDelta commits; its event refers to the row it loaded, which has to
\* be there still.
Clear(q) ==
  /\ at[q] = "loaded" /\ kind[q] = "clear" /\ delta.row = loaded[q].row
  /\ delta' = NoDelta /\ seen' = 0
  /\ events' = Log("clear", Snapshot(q), NoTweaks)
  /\ Idle(q) /\ UNCHANGED <<recipe, slot, clock>>

\* AcknowledgeRecipeDelta commits, under the same condition.
Acknowledge(q) ==
  /\ at[q] = "write" /\ kind[q] = "acknowledge" /\ delta.row = loaded[q].row
  /\ delta' = [delta EXCEPT !.base = base[q][1]] /\ seen' = base[q][2]
  /\ events' = Log("acknowledge", NoTweaks, Snapshot(q))
  /\ Idle(q) /\ UNCHANGED <<recipe, slot, clock>>

\* A foreign key fails, or no row is changed, and the transaction rolls back.
RollBack(q) ==
  /\ \/ at[q] = "write" /\ kind[q] = "set" /\ anchor[q] \notin {0, version}
     \/ at[q] = "loaded" /\ kind[q] = "clear" /\ delta.row # loaded[q].row
     \/ at[q] = "write" /\ kind[q] = "acknowledge" /\ delta.row # loaded[q].row
  /\ Idle(q) /\ UNCHANGED <<recipe, tweaks, slot, clock>>

\* snapshotRecipeContents: the recipe's steps, then its items, and the commit.
CopySteps(q) ==
  /\ at[q] = "loaded" /\ kind[q] = "copy"
  /\ copied' = [copied EXCEPT ![q] = version] /\ Goto(q, "write")
  /\ UNCHANGED <<recipe, tweaks, slot, clock, request, loaded, base>>
CopyItems(q) ==
  /\ at[q] = "write" /\ kind[q] = "copy"
  /\ slot' = [tweaks |-> loaded[q], steps |-> copied[q], items |-> version]
  /\ Idle(q) /\ UNCHANGED <<recipe, tweaks, clock>>

Next ==
  \E q \in Requests :
    \/ \E k \in {"edit", "set", "clear", "acknowledge", "copy"} : Begin(q, k)
    \/ Edit(q) \/ LoadItems(q) \/ LoadSteps(q) \/ ReadBase(q)
    \/ Set(q) \/ Clear(q) \/ Acknowledge(q) \/ RollBack(q)
    \/ CopySteps(q) \/ CopyItems(q)

Spec == Init /\ [][Next]_vars

--------------------------------------------------------------------------------
\* Stale of delta.go.
Stale == updatedAt > delta.base

\* Tweaks are flagged when the recipe was edited after the version they were
\* written or acknowledged against, however the edits and the writes of the
\* tweaks overlap.  The exception is an edit that began before another one and
\* committed after it: it puts updated_at back.
DriftFlagged == Exists /\ version > seen /\ ~backdated => Stale

\* The same without the exception, what Stale's comment promises.
EveryDriftFlagged == Exists /\ version > seen => Stale

\* The audit log is a history: an event shows as its before (an acknowledgement
\* as its after) what its predecessor left.
HistoryChains ==
  \A i \in 1..Len(events) :
    LET e == events[i]
        view == IF e.event = "acknowledge" THEN e.after ELSE e.before
    IN view = IF i = 1 THEN NoTweaks ELSE events[i - 1].after

\* A slot is a copy of one version of the recipe.
CopyOfOneVersion == slot.steps = slot.items
================================================================================
