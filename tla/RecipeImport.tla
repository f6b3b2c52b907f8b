---------------------------- MODULE RecipeImport -----------------------------
(***************************************************************************)
(* The recipe OCR import pipeline (internal/app/recipeimport): the rows of *)
(* recipe.recipe_import, the bounded job channel, the worker pool, the     *)
(* claim sweeper, the admins who review, approve, reject and retry, and    *)
(* the process dying and starting again.                                   *)
(*                                                                         *)
(* Every status write is one conditional UPDATE, so it is one step here.   *)
(* OCR, the LLM and the catalog are external: a stage ends in any of the   *)
(* ways its code distinguishes.                                            *)
(***************************************************************************)
EXTENDS Naturals, Sequences

CONSTANTS
  NumJobs,       \* imports are numbered in the order they are created
  Workers,       \* the goroutines of the pool (ImportWorkerConcurrency)
  Admins,
  QueueDepth,    \* capacity of the job channel
  MaxEdits,      \* bound on the edits of one review
  MaxRetries,    \* bound on the retries of one import
  MaxRestarts,   \* bound on process deaths
  MaxFaults,     \* bound on status writes the store refuses
  NoJob

Jobs == 1..NumJobs

ASSUME ParamsAssumption ==
  /\ NumJobs \in Nat /\ NoJob \notin Jobs /\ QueueDepth \in Nat
  /\ MaxEdits \in Nat /\ MaxRetries \in Nat /\ MaxRestarts \in Nat
  /\ MaxFaults \in Nat

VARIABLES
  status,    \* recipe_import.status; "none" before the insert
  review,    \* recipe_import.review_json
  recipes,   \* the reviews that recipes were created from (history)
  queue,     \* the jobs channel
  stage,     \* what each worker is doing
  job,       \* the import it is doing it to
  approving, \* what each admin's Approve read before its transaction
  up,        \* is the process running?
  retries, restarts, faults,
  stranded   \* claims this process found too young to reset, or whose last write
             \* was refused (history)

rows == <<status, review, recipes>>
workers == <<stage, job>>
process == <<up, restarts>>
losses == <<faults, stranded>>
vars == <<rows, queue, workers, approving, process, retries, losses>>

Lifecycle == INSTANCE ImportLifecycle WITH recipe <- [j \in Jobs |-> recipes[j] # <<>>]

\* A review: its version, whether every line is resolved, and the approved
\* flag, which only an admin's edit sets.
NoReview == [version |-> 0, resolved |-> FALSE, approved |-> FALSE]
Idle == [id |-> NoJob, read |-> NoReview]

\* A sweep that takes a stage's result for unclaimable work.
MutantClaimableStatuses == {"pending", "drafted"}
ClaimableStatuses == {"pending", "ocred", "drafted"}
\* A worker that writes its review over whatever review is there.
MutantWorkerReviewFrom == {"drafted", "reviewing", "ready"}
WorkerReviewFrom == {"drafted"}
AdminReviewFrom == {"reviewing", "ready"}
\* The statuses MarkFailed and MarkProfanity may write from.
MutantWorkerStages == {"processing", "ocred", "drafted", "reviewing"}
WorkerStages == {"processing", "ocred", "drafted"}

\* Updates that also match rows already there, or rows a worker holds.
MutantFromStatusesRepeat(to) == Lifecycle!FromStatuses(to) \cup {to}
MutantFromStatusesHeld(to) == Lifecycle!FromStatuses(to) \cup {"processing"}
FromStatuses(to) == Lifecycle!FromStatuses(to)

ReviewStatus(resolved) == IF resolved THEN "ready" ELSE "reviewing"

\* UPDATE ... SET status = to WHERE recipe_import_id = j AND status = ANY(from).
Set(j, from, to) == status[j] \in from /\ status' = [status EXCEPT ![j] = to]

Init ==
  /\ status = [j \in Jobs |-> "none"]
  /\ review = [j \in Jobs |-> NoReview]
  /\ recipes = [j \in Jobs |-> <<>>]
  /\ queue = <<>>
  /\ stage = [w \in Workers |-> "idle"]
  /\ job = [w \in Workers |-> NoJob]
  /\ approving = [a \in Admins |-> Idle]
  /\ up = TRUE
  /\ retries = [j \in Jobs |-> 0]
  /\ restarts = 0
  /\ faults = 0
  /\ stranded = {}

-----------------------------------------------------------------------------
(* The job channel: a full channel drops the offer.                         *)

Fitting(s) == IF Len(s) > QueueDepth THEN SubSeq(s, 1, QueueDepth) ELSE s
EnqueueProcess(ids) == queue' = Fitting(queue \o ids)

\* The one listing of the claimable rows ORDER BY created_at ASC.
ListClaimableIDs(st) ==
  {ids \in UNION {[1..n -> Jobs] : n \in 0..NumJobs} :
     /\ {ids[i] : i \in DOMAIN ids} = {j \in Jobs : st[j] \in ClaimableStatuses}
     /\ \A i, k \in DOMAIN ids : i < k => ids[i] < ids[k]}

\* The insert and the first offer of a submitted scan.
Create(j) ==
  /\ up /\ status[j] = "none" /\ \A i \in 1..(j - 1) : status[i] # "none"
  /\ status' = [status EXCEPT ![j] = "pending"]
  /\ EnqueueProcess(<<j>>)
  /\ UNCHANGED <<review, recipes, workers, approving, process, retries, losses>>

\* The sweeper's tick: one query, then one offer per row.
SweepClaimable ==
  /\ up
  /\ \E ids \in ListClaimableIDs(status) : EnqueueProcess(ids)
  /\ UNCHANGED <<rows, workers, approving, process, retries, losses>>

-----------------------------------------------------------------------------
(* A worker: pop, claim, then OCR -> draft -> mapping.                      *)

Goto(w, s) == stage' = [stage EXCEPT ![w] = s] /\ UNCHANGED job
Finish(w) ==
  /\ stage' = [stage EXCEPT ![w] = "idle"]
  /\ job' = [job EXCEPT ![w] = NoJob]

Take(w) ==
  /\ up /\ stage[w] = "idle" /\ queue # <<>>
  /\ queue' = Tail(queue)
  /\ stage' = [stage EXCEPT ![w] = "claim"]
  /\ job' = [job EXCEPT ![w] = Head(queue)]
  /\ UNCHANGED <<rows, approving, process, retries, losses>>

\* A status write on the worker's own import, followed by `next`; the steps
\* below all leave the rest of the system alone.
OwnWrite(w, from, to) ==
  Set(job[w], from, to) /\ UNCHANGED <<review, recipes, losses>>
NoWrite == UNCHANGED <<rows, losses>>
WorkerFrame == UNCHANGED <<queue, approving, process, retries>>

\* A conflicting claim ends the job without an error.
Claim(w) ==
  /\ stage[w] = "claim"
  /\ \/ OwnWrite(w, ClaimableStatuses, "processing") /\ Goto(w, "ocr")
     \/ status[job[w]] \notin ClaimableStatuses /\ NoWrite /\ Finish(w)
  /\ WorkerFrame

\* A stage that fails for its own reasons (unreadable file, low confidence,
\* LLM or catalog error, timeout, panic).
StageFails(w) ==
  /\ stage[w] \in {"ocr", "draft", "map"}
  /\ NoWrite /\ Goto(w, "fail")
  /\ WorkerFrame

\* A claim the store refuses, rather than finds taken, is an error too.
ClaimFails(w) ==
  /\ stage[w] = "claim" /\ faults < MaxFaults
  /\ faults' = faults + 1
  /\ UNCHANGED <<rows, stranded>> /\ Goto(w, "fail")
  /\ WorkerFrame

\* Quarantine; a refused MarkProfanity is logged and the job still ends.
MarkProfanity(w) ==
  /\ stage[w] \in {"ocr", "draft"}
  /\ \/ OwnWrite(w, WorkerStages, "profanity")
     \/ status[job[w]] \notin WorkerStages /\ NoWrite
  /\ Finish(w) /\ WorkerFrame

\* UpdateOCR and UpdateDraft: a conflict is the stage's error.
StageWrite(w, at, from, to, next) ==
  /\ stage[w] = at
  /\ \/ OwnWrite(w, {from}, to) /\ Goto(w, next)
     \/ status[job[w]] # from /\ NoWrite /\ Goto(w, "fail")
  /\ WorkerFrame
UpdateOCR(w) == StageWrite(w, "ocr", "processing", "ocred", "draft")
UpdateDraft(w) == StageWrite(w, "draft", "ocred", "drafted", "map")

\* The mapping's review is never approved, however well its lines resolve.
MutantMappedReview(resolved) ==
  [version |-> 1, resolved |-> resolved, approved |-> resolved]
MappedReview(resolved) ==
  [version |-> 1, resolved |-> resolved, approved |-> FALSE]

\* A conflict means somebody else owns the review: the write is dropped.
RunMapping(w, resolved) ==
  /\ stage[w] = "map"
  /\ \/ /\ Set(job[w], WorkerReviewFrom, ReviewStatus(resolved))
        /\ review' = [review EXCEPT ![job[w]] = MappedReview(resolved)]
        /\ UNCHANGED <<recipes, losses>>
     \/ status[job[w]] \notin WorkerReviewFrom /\ NoWrite
  /\ Finish(w) /\ WorkerFrame

MarkFailed(w) ==
  /\ stage[w] = "fail"
  /\ \/ OwnWrite(w, WorkerStages, "failed")
     \/ status[job[w]] \notin WorkerStages /\ NoWrite
  /\ Finish(w) /\ WorkerFrame

\* The last status write of a failed or quarantined job is itself refused:
\* logged, and the row stays as it is.
LastWriteLost(w) ==
  /\ stage[w] \in {"ocr", "draft", "fail"} /\ faults < MaxFaults
  /\ faults' = faults + 1 /\ stranded' = stranded \cup {job[w]}
  /\ Finish(w) /\ UNCHANGED rows /\ WorkerFrame

-----------------------------------------------------------------------------
(* The admins.                                                             *)

\* UpdateReview: fully resolved means approved and ready.
EditReview(j, resolved) ==
  /\ up /\ review[j].version <= MaxEdits
  /\ Set(j, AdminReviewFrom, ReviewStatus(resolved))
  /\ review' = [review EXCEPT ![j] =
                  [version |-> @.version + 1, resolved |-> resolved,
                   approved |-> resolved]]
  /\ UNCHANGED <<recipes, queue, workers, approving, process, retries, losses>>

\* Approve, up to its transaction.
ApproveRead(a, j) ==
  /\ up /\ approving[a] = Idle
  /\ status[j] \in {"ready", "reviewing"}
  /\ review[j].resolved /\ review[j].approved
  /\ approving' = [approving EXCEPT ![a] = [id |-> j, read |-> review[j]]]
  /\ UNCHANGED <<rows, queue, workers, process, retries, losses>>

\* The transaction inserts the recipe and marks the import persisted.
ApproveCommit(a) ==
  /\ approving[a] # Idle
  /\ LET j == approving[a].id
     IN  /\ Set(j, FromStatuses("persisted"), "persisted")
         /\ recipes' = [recipes EXCEPT ![j] = Append(@, approving[a].read)]
  /\ approving' = [approving EXCEPT ![a] = Idle]
  /\ UNCHANGED <<review, queue, workers, process, retries, losses>>

\* A conflict, a taken recipe name or a vanished catalog row rolls it back.
ApproveFails(a) ==
  /\ approving[a] # Idle
  /\ approving' = [approving EXCEPT ![a] = Idle]
  /\ UNCHANGED <<rows, queue, workers, process, retries, losses>>

Reject(j) ==
  /\ up /\ Set(j, FromStatuses("rejected"), "rejected")
  /\ UNCHANGED <<review, recipes, queue, workers, approving, process, retries, losses>>

Retry(j) ==
  /\ up /\ retries[j] < MaxRetries
  /\ Set(j, FromStatuses("pending"), "pending")
  /\ EnqueueProcess(<<j>>)
  /\ retries' = [retries EXCEPT ![j] = @ + 1]
  /\ UNCHANGED <<review, recipes, workers, approving, process, losses>>

-----------------------------------------------------------------------------
(* Process lifetime.                                                       *)

\* A crash, or Shutdown cancelling every stage: goroutines and channel are
\* gone and the rows stay.
Stop ==
  /\ up /\ restarts < MaxRestarts
  /\ up' = FALSE /\ restarts' = restarts + 1
  /\ queue' = <<>>
  /\ stage' = [w \in Workers |-> "idle"]
  /\ job' = [w \in Workers |-> NoJob]
  /\ approving' = [a \in Admins |-> Idle]
  /\ UNCHANGED <<rows, retries, losses>>

\* The reset at the start takes back every claim but those that were made less than
\* a stage timeout ago.  The mutant leaves every claim to its worker.
Processing == {j \in Jobs : status[j] = "processing"}
MutantStaleClaims(young) == {}
StaleClaims(young) == Processing \ young

Start ==
  /\ ~up
  /\ up' = TRUE
  /\ \E young \in SUBSET Processing :
       /\ status' = [j \in Jobs |-> IF j \in StaleClaims(young) THEN "pending" ELSE status[j]]
       /\ stranded' = young
  /\ \E ids \in ListClaimableIDs(status') : EnqueueProcess(ids)
  /\ UNCHANGED <<review, recipes, workers, approving, restarts, retries, faults>>

Worker(w) ==
  \/ Take(w) \/ Claim(w) \/ UpdateOCR(w) \/ UpdateDraft(w)
  \/ \E resolved \in BOOLEAN : RunMapping(w, resolved)
  \/ StageFails(w) \/ ClaimFails(w) \/ MarkProfanity(w) \/ MarkFailed(w) \/ LastWriteLost(w)

Admin ==
  \/ \E j \in Jobs : Create(j) \/ Reject(j) \/ Retry(j)
  \/ \E j \in Jobs, resolved \in BOOLEAN : EditReview(j, resolved)
  \/ \E a \in Admins : \/ \E j \in Jobs : ApproveRead(a, j)
                       \/ ApproveCommit(a) \/ ApproveFails(a)

Next == Admin \/ SweepClaimable \/ Stop \/ Start \/ \E w \in Workers : Worker(w)

Spec == Init /\ [][Next]_vars

\* Stages have timeouts, a worker loops for ever, the sweeper's ticker keeps
\* ticking, and a dead process is started again.  Nobody makes an admin act.
FairSpec ==
  /\ Spec
  /\ WF_vars(SweepClaimable) /\ WF_vars(Start)
  /\ \A w \in Workers : WF_vars(Worker(w))
-----------------------------------------------------------------------------
(* Properties                                                              *)

TypeOK ==
  /\ status \in [Jobs -> Lifecycle!Statuses \cup {"none"}]
  /\ \A j \in Jobs : review[j].version \in 0..(MaxEdits + 1)
  /\ \A i \in DOMAIN queue : queue[i] \in Jobs
  /\ Len(queue) <= QueueDepth
  /\ \A w \in Workers : (stage[w] = "idle") <=> (job[w] = NoJob)
  /\ ~up => queue = <<>> /\ \A w \in Workers : stage[w] = "idle"

\* Whatever the workers, the sweeper, the admins and restarts do to a row,
\* its status moves along the transitions table and the recipe appears with
\* "persisted" (status.go: "a worker can never regress a terminal or
\* admin-owned state").
FollowsLifecycle == Lifecycle!Spec

\* Two admins approving one import, or one of them twice, create at most one
\* recipe, and an import is persisted exactly when it has one (Approve).
OneRecipePerImport ==
  \A j \in Jobs : /\ Len(recipes[j]) <= 1
                  /\ (status[j] = "persisted") <=> (recipes[j] # <<>>)

\* No recipe comes from a review that a human did not approve in full, even
\* when the mapping resolved every line by itself and the import was ready
\* before anybody looked at it.
HumanApproved ==
  \A j \in Jobs : \A i \in DOMAIN recipes[j] :
    recipes[j][i].approved /\ recipes[j][i].resolved /\ recipes[j][i].version >= 2

\* An import nobody will offer to the pool again before a restart: claimed,
\* and its worker gone.
Held(j) == \E w \in Workers : job[w] = j /\ stage[w] # "claim"
Orphan(j) == status[j] = "processing" /\ ~Held(j)

\* A worker that finishes its mapping late never replaces a review that is
\* already there: the version of a stored review only grows (workerReviewFrom).
ReviewKept ==
  [][\A j \in Jobs : review'[j] # review[j] =>
       review'[j].version > review[j].version]_vars

\* While a worker runs a stage, the row is in the status the stage writes
\* from, unless an admin rejected it ("a duplicate offer is harmless - the
\* in-flight worker keeps the row").
StageStatus(s) == CASE s = "ocr" -> "processing"
                    [] s = "draft" -> "ocred"
                    [] s = "map" -> "drafted"
LiveClaimKept ==
  \A w \in Workers : stage[w] \in {"ocr", "draft", "map"} =>
    status[job[w]] \in {StageStatus(stage[w]), "rejected"}

\* Rows, the channel and workers have their types, the channel is never fuller
\* than ImportQueueDepth, and no worker runs a stage on a row that has moved on.
WorkersConsistent == TypeOK /\ LiveClaimKept

\* Dropped offers, failed stages and restarts delay an import and do not
\* lose it: it leaves the pipeline, also when its worker died with an earlier
\* process, unless the claim was too young when the process started, or the store
\* refused the write that would have said how its last run ended.
InPipeline(j) == status[j] \in {"pending", "processing", "ocred", "drafted"}
JobSettles ==
  \A j \in Jobs : InPipeline(j) ~> (~InPipeline(j) \/ (up /\ Orphan(j) /\ j \in stranded))

\* A restart recovers the imports whose worker died with the old process
\* ("Start recovers jobs orphaned by a previous shutdown and re-enqueues them").
OrphansRecovered == \A j \in Jobs : (Orphan(j) /\ ~up) ~> ~Orphan(j)
=============================================================================
