--------------------------- MODULE ImportLifecycle ---------------------------
(***************************************************************************)
(* What the recipe import pipeline promises about each import, whoever     *)
(* writes the row: its status only moves along the transitions table of    *)
(* status.go, and the recipe appears in the same step as "persisted".      *)
(***************************************************************************)
CONSTANT Jobs

VARIABLES
  status,  \* status of each import; "none" before it is submitted
  recipe   \* whether a recipe has been created from the import

lifecycle == <<status, recipe>>

Statuses == {"pending", "processing", "ocred", "drafted", "reviewing",
             "ready", "profanity", "failed", "rejected", "persisted"}

\* The allow-list of legal status changes.
Transitions == [
  pending    |-> {"processing", "rejected"},
  processing |-> {"ocred", "failed", "profanity", "rejected"},
  ocred      |-> {"processing", "drafted", "failed", "profanity", "rejected"},
  drafted    |-> {"processing", "reviewing", "ready", "failed", "profanity",
                  "rejected"},
  reviewing  |-> {"ready", "reviewing", "rejected", "persisted"},
  ready      |-> {"ready", "reviewing", "rejected", "persisted"},
  profanity  |-> {"pending", "rejected"},
  failed     |-> {"pending", "rejected"},
  rejected   |-> {},
  persisted  |-> {}]

\* The statuses that may legally move to `to`.
FromStatuses(to) == {from \in Statuses : to \in Transitions[from]}

Init ==
  /\ status = [j \in Jobs |-> "none"]
  /\ recipe = [j \in Jobs |-> FALSE]

Submit(j) ==
  /\ status[j] = "none"
  /\ status' = [status EXCEPT ![j] = "pending"]
  /\ UNCHANGED recipe

Move(j, to) ==
  /\ status[j] \in FromStatuses(to)
  /\ status' = [status EXCEPT ![j] = to]
  /\ recipe' = [recipe EXCEPT ![j] = @ \/ to = "persisted"]

\* Start takes back claims of workers that died.  It is the one change of
\* status the table does not list.
Recover ==
  /\ \E orphans \in SUBSET {j \in Jobs : status[j] = "processing"} :
       status' = [j \in Jobs |-> IF j \in orphans THEN "pending" ELSE status[j]]
  /\ UNCHANGED recipe

Next ==
  \/ \E j \in Jobs : Submit(j) \/ \E to \in Statuses : Move(j, to)
  \/ Recover

Spec == Init /\ [][Next]_lifecycle
=============================================================================
