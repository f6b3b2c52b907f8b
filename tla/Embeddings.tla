------------------------------ MODULE Embeddings -------------------------------
(***************************************************************************)
(* The embeddings of semantic search and the background work that keeps    *)
(* them: a save submits a refresh to the bounded async runner              *)
(* (internal/platform/async/runner.go), which may drop it; a sweep         *)
(* (internal/app/recipeembed) backfills recipes without an embedding; the  *)
(* shutdown of Resolver drains the runner.  One process and its restarts.  *)
(*                                                                         *)
(* A refresh reads the recipe's row, then its items and categories, and    *)
(* writes the vector of what it read: an embedding is the pair of versions *)
(* it was built from.  One built by another model counts as missing, for   *)
(* nothing but the sweep looks at the model's name.  The analytics tasks   *)
(* in the same runner are a number, `others`.                              *)
(***************************************************************************)
EXTENDS Naturals, Sequences, FiniteSets

CONSTANTS
  Recipes,      \* recipe ids, a set of naturals
  Broken,       \* those the embedding backend always refuses
  Saves,        \* saving requests, each with the refresh it submits
  Sweeper,      \* the sweep loop
  Capacity,     \* asyncWorkerCap
  BatchSize,
  MaxVersion,   \* bound: a recipe is saved so often
  MaxFaults,    \* bound: failing reads, writes and embedding calls
  MaxStops      \* bound: shutdowns and crashes

VARIABLES
  content,      \* the version of a recipe's text, 0 while there is no row
  gone,         \* deleted recipes
  embedding,    \* the versions of the row and of its children, or Null
  up,           \* "up", "draining", "drained", "down": the process
  closed, wg,   \* the runner's fields
  others,       \* running tasks of other kinds
  at,           \* what a save, its refresh, or the sweep does
  target,       \* the recipe of that
  read,         \* the row and children versions a refresh has read
  batch,        \* candidates of the sweep's batch still to refresh
  batchOK,      \* whether one of this batch was refreshed
  faults, stops

vars == <<content, gone, embedding, up, closed, wg, others, at, target, read,
          batch, batchOK, faults, stops>>

Workers == Saves \cup {Sweeper}
Null == <<0, 0>>
Refreshing == {"row", "children", "embed"}
Tasks == {w \in Saves : at[w] \in Refreshing}
Running == up \in {"up", "draining", "drained"}

TypeOK ==
  /\ content \in [Recipes -> 0..MaxVersion] /\ gone \subseteq Recipes
  /\ embedding \in [Recipes -> (0..MaxVersion) \X (0..MaxVersion)]
  /\ up \in {"up", "draining", "drained", "down"} /\ closed \in BOOLEAN
  /\ wg \in Nat /\ others \in 0..Capacity
  /\ at \in [Workers -> {"idle", "saved", "added", "list"} \cup Refreshing]
  /\ target \in [Workers -> Recipes]
  /\ read \in [Workers -> (0..MaxVersion) \X (0..MaxVersion)]
  /\ batch \in Seq(Recipes) /\ batchOK \in BOOLEAN
  /\ faults \in 0..MaxFaults /\ stops \in 0..MaxStops

AnyRecipe == CHOOSE r \in Recipes : TRUE
NoTarget == [w \in Workers |-> AnyRecipe]
NothingRead == [w \in Workers |-> Null]
\* The sweep starts with the process.
AllQuiet == [w \in Workers |-> IF w = Sweeper THEN "list" ELSE "idle"]

Init ==
  /\ content = [r \in Recipes |-> 0] /\ gone = {}
  /\ embedding = [r \in Recipes |-> Null]
  /\ up = "up" /\ closed = FALSE /\ wg = 0 /\ others = 0
  /\ at = AllQuiet /\ target = NoTarget /\ read = NothingRead
  /\ batch = <<>> /\ batchOK = FALSE
  /\ faults = 0 /\ stops = 0

rows == <<content, gone, embedding>>
process == <<up, closed, stops>>
sweep == <<batch, batchOK>>

\* ListEmbeddingCandidates: the missing ones; every recipe is active.
Candidates == {r \in Recipes : content[r] > 0 /\ embedding[r] = Null}
\* The one batch of them: the first BatchSize, ORDER BY recipe_id.
Batches ==
  {b \in UNION {[1..n -> Candidates] : n \in 0..BatchSize} :
     LET listed == {b[i] : i \in DOMAIN b}
     IN /\ \A i, k \in DOMAIN b : i < k => b[i] < b[k]
        /\ listed = Candidates \/ Len(b) = BatchSize
        /\ \A r \in listed, other \in Candidates \ listed : r < other}
\* Where the sweep goes when its batch is done.
AfterBatch(good) == IF good THEN "list" ELSE "idle"
\* SetRecipeEmbedding changes the row if there is one.
Stored(w) ==
  IF content[target[w]] = 0 THEN embedding ELSE [embedding EXCEPT ![target[w]] = read[w]]

Goto(w, phase) == at' = [at EXCEPT ![w] = phase]
Fault == faults < MaxFaults /\ faults' = faults + 1

--------------------------------------------------------------------------------
(* Saves and their submission.                                             *)

\* CreateRecipe and UpdateRecipe: the transaction has committed.
Save(s, r) ==
  /\ Running /\ at[s] = "idle" /\ r \notin gone /\ content[r] < MaxVersion
  /\ content' = [content EXCEPT ![r] = @ + 1]
  /\ Goto(s, "saved") /\ target' = [target EXCEPT ![s] = r]
  /\ UNCHANGED <<gone, embedding, process, wg, others, read, sweep, faults>>

\* UpdateRecipe reads the row again before it submits, and may fail there.
RereadFails(s) ==
  /\ Running /\ at[s] = "saved" /\ Fault /\ Goto(s, "idle")
  /\ UNCHANGED <<rows, process, wg, others, target, read, sweep>>

\* Submit does not look whether the runner is closed.
MutantSubmit(s) ==
  /\ Running /\ at[s] = "saved"
  /\ Goto(s, "added") /\ wg' = wg + 1
  /\ UNCHANGED <<rows, process, others, target, read, sweep, faults>>
\* The locked part of Submit.
Submit(s) ==
  /\ Running /\ at[s] = "saved"
  /\ IF closed THEN Goto(s, "idle") /\ wg' = wg
               ELSE Goto(s, "added") /\ wg' = wg + 1
  /\ UNCHANGED <<rows, process, others, target, read, sweep, faults>>

\* The semaphore: a saturated runner drops the task.
Acquire(s) ==
  /\ Running /\ at[s] = "added"
  /\ IF Cardinality(Tasks) + others < Capacity
     THEN Goto(s, "row") /\ wg' = wg
     ELSE Goto(s, "idle") /\ wg' = wg - 1
  /\ UNCHANGED <<rows, process, others, target, read, sweep, faults>>

DeleteRecipe(r) ==
  /\ Running /\ content[r] > 0
  /\ content' = [content EXCEPT ![r] = 0] /\ gone' = gone \cup {r}
  /\ embedding' = [embedding EXCEPT ![r] = Null]
  /\ UNCHANGED <<process, wg, others, at, target, read, sweep, faults>>

\* Analytics tasks come and go.
OtherStarts ==
  /\ Running /\ ~closed /\ Cardinality(Tasks) + others < Capacity
  /\ others' = others + 1 /\ wg' = wg + 1
  /\ UNCHANGED <<rows, process, at, target, read, sweep, faults>>
OtherEnds ==
  /\ Running /\ others > 0 /\ others' = others - 1 /\ wg' = wg - 1
  /\ UNCHANGED <<rows, process, at, target, read, sweep, faults>>

--------------------------------------------------------------------------------
(* One refresh, of a save's task or of the sweep.                          *)

\* The sweep stops at the first failure instead of skipping it.
MutantOver(w, ok) ==
  IF w # Sweeper
  THEN Goto(w, "idle") /\ wg' = wg - 1 /\ UNCHANGED <<target, sweep>>
  ELSE LET rest == IF ok THEN Tail(batch) ELSE <<>>
           good == batchOK \/ ok
       IN /\ batch' = rest /\ batchOK' = good /\ wg' = wg
          /\ Goto(w, IF rest # <<>> THEN "row" ELSE AfterBatch(good))
          /\ target' = IF rest = <<>> THEN target
                       ELSE [target EXCEPT ![w] = Head(rest)]
\* The refresh of w is over: a task gives its slot back, the sweep takes the
\* batch's next candidate, lists again, or waits for its ticker when the whole
\* batch has failed.
Over(w, ok) ==
  IF w # Sweeper
  THEN Goto(w, "idle") /\ wg' = wg - 1 /\ UNCHANGED <<target, sweep>>
  ELSE LET rest == Tail(batch)
           good == batchOK \/ ok
       IN /\ batch' = rest /\ batchOK' = good /\ wg' = wg
          /\ Goto(w, IF rest # <<>> THEN "row" ELSE AfterBatch(good))
          /\ target' = IF rest = <<>> THEN target
                       ELSE [target EXCEPT ![w] = Head(rest)]

LoadRow(w) ==
  /\ Running /\ at[w] = "row" /\ content[target[w]] > 0
  /\ read' = [read EXCEPT ![w] = <<content[target[w]], 0>>]
  /\ Goto(w, "children")
  /\ UNCHANGED <<rows, process, wg, others, target, sweep, faults>>

\* Items and categories; a deleted recipe has none.
LoadChildren(w) ==
  /\ Running /\ at[w] = "children"
  /\ read' = [read EXCEPT ![w] = <<@[1], content[target[w]]>>]
  /\ Goto(w, "embed")
  /\ UNCHANGED <<rows, process, wg, others, target, sweep, faults>>

\* Embed and SetRecipeEmbedding, whose UPDATE asks for nothing but the id.
Store(w) ==
  /\ Running /\ at[w] = "embed" /\ target[w] \notin Broken
  /\ embedding' = Stored(w)
  /\ Over(w, TRUE)
  /\ UNCHANGED <<content, gone, process, others, read, faults>>

RefreshFails(w) ==
  /\ Running
  /\ \/ at[w] = "row" /\ content[target[w]] = 0 /\ faults' = faults
     \/ at[w] = "embed" /\ target[w] \in Broken /\ faults' = faults
     \/ at[w] \in Refreshing /\ Fault
  /\ Over(w, FALSE)
  /\ UNCHANGED <<rows, process, others, read>>

--------------------------------------------------------------------------------
(* The sweep and the process.                                              *)

\* run's ticker.
Tick ==
  /\ Running /\ at[Sweeper] = "idle" /\ Goto(Sweeper, "list")
  /\ UNCHANGED <<rows, process, wg, others, target, read, sweep, faults>>

ListCandidates ==
  /\ Running /\ at[Sweeper] = "list"
  /\ \E listed \in Batches :
       IF listed = <<>>
       THEN Goto(Sweeper, "idle") /\ UNCHANGED <<target, sweep>>
       ELSE /\ Goto(Sweeper, "row")
            /\ target' = [target EXCEPT ![Sweeper] = Head(listed)]
            /\ batch' = listed /\ batchOK' = FALSE
  /\ UNCHANGED <<rows, process, wg, others, read, faults>>

ListFails ==
  /\ Running /\ at[Sweeper] = "list" /\ Fault /\ Goto(Sweeper, "idle")
  /\ UNCHANGED <<rows, process, wg, others, target, read, sweep>>

\* Resolver.Shutdown after the HTTP server's own drain, which some handlers may
\* outlast.
BeginShutdown ==
  /\ up = "up" /\ stops < MaxStops
  /\ up' = "draining" /\ closed' = TRUE /\ stops' = stops + 1
  /\ UNCHANGED <<rows, wg, others, at, target, read, sweep, faults>>

\* The runner's Shutdown returns nil; the sweep is stopped next.
Drain ==
  /\ up = "draining" /\ wg = 0 /\ up' = "drained"
  /\ UNCHANGED <<rows, closed, stops, wg, others, at, target, read, sweep, faults>>

\* The process ends: drained, at the drain's deadline, which cancels what
\* still runs, or by a crash.
Died ==
  /\ at' = [w \in Workers |-> "idle"] /\ target' = NoTarget /\ read' = NothingRead
  /\ batch' = <<>> /\ batchOK' = FALSE
  /\ up' = "down" /\ closed' = FALSE /\ wg' = 0 /\ others' = 0
Exit == up \in {"draining", "drained"} /\ Died /\ UNCHANGED <<rows, faults, stops>>
Crash ==
  /\ Running /\ stops < MaxStops /\ stops' = stops + 1
  /\ Died /\ UNCHANGED <<rows, faults>>

\* The next process starts, perhaps configured with another model.
Start ==
  /\ up = "down" /\ up' = "up"
  /\ at' = AllQuiet
  /\ \/ embedding' = embedding
     \/ embedding' = [r \in Recipes |-> Null]
  /\ UNCHANGED <<content, gone, closed, stops, wg, others, target, read, sweep, faults>>

--------------------------------------------------------------------------------
TaskStep(s) == Acquire(s) \/ LoadRow(s) \/ LoadChildren(s) \/ Store(s) \/ RefreshFails(s)
SweepStep ==
  \/ Tick \/ ListCandidates \/ ListFails
  \/ LoadRow(Sweeper) \/ LoadChildren(Sweeper) \/ Store(Sweeper) \/ RefreshFails(Sweeper)

Next ==
  \/ \E s \in Saves : TaskStep(s) \/ Submit(s) \/ RereadFails(s)
  \/ \E s \in Saves, r \in Recipes : Save(s, r)
  \/ \E r \in Recipes : DeleteRecipe(r)
  \/ OtherStarts \/ OtherEnds \/ SweepStep
  \/ BeginShutdown \/ Drain \/ Exit \/ Crash \/ Start

\* Handlers and tasks run on under their timeouts, the ticker ticks, a shutdown
\* ends and a stopped process is started again.
Fairness ==
  /\ \A s \in Saves : WF_vars(Submit(s)) /\ WF_vars(TaskStep(s))
  /\ WF_vars(SweepStep) /\ WF_vars(Exit) /\ WF_vars(Start)

Spec == Init /\ [][Next]_vars /\ Fairness

--------------------------------------------------------------------------------
\* When the runner's Shutdown has returned nil nothing that it accepted runs any
\* more, whatever handlers outlasted the HTTP drain ("a submission can never
\* Add concurrently with an in-progress Wait").
TasksDrained ==
  up = "drained" => others = 0 /\ \A s \in Saves : at[s] \in {"idle", "saved"}

\* And its records have their types.
RunnerDrains == TypeOK /\ TasksDrained

\* Dropped, failed and aborted refreshes delay a recipe's first embedding and do
\* not lose it, even if some recipes can never be embedded: those fill no whole
\* batch, for a sweep ends at a batch of which nothing was refreshed.
EventuallyEmbedded ==
  Cardinality(Broken) < BatchSize =>
    \A r \in Recipes \ Broken : []<>(content[r] > 0 => embedding[r] # Null)

\* What the comment of refreshEmbeddingAsync promises: a refresh that fails is
\* retried by the sweep, so that an embedding catches up with its recipe.
EmbeddingCatchesUp ==
  \A r \in Recipes \ Broken :
    []<>(content[r] > 0 => embedding[r] = <<content[r], content[r]>>)
================================================================================
