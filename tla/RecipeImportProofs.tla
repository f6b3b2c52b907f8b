------------------------- MODULE RecipeImportProofs --------------------------
(***************************************************************************)
(* Theorems about RecipeImport, for any number of imports, workers, admins *)
(* and any bounds: the pipeline follows the status table of status.go,     *)
(* creates at most one recipe per import, and only from a review a human   *)
(* approved, overwrites no review and keeps its channel within bounds; and *)
(* with one worker, no running stage loses its row.                        *)
(*                                                                         *)
(* All but the last two need not know which import a worker holds: a       *)
(* status write outside the table of imports changes nothing.              *)
(***************************************************************************)
EXTENDS RecipeImport, TLAPS

Review == [version : Nat, resolved : BOOLEAN, approved : BOOLEAN]

\* What the database and the admins' requests hold.
RowsTyped ==
  /\ status \in [Jobs -> Lifecycle!Statuses \cup {"none"}]
  /\ review \in [Jobs -> Review]
  /\ recipes \in [Jobs -> Seq(Review)]
  /\ approving \in [Admins -> [id : Jobs \cup {NoJob}, read : Review]]

\* An approved review has been edited since the mapping wrote it, and an
\* Approve in flight has read such a review.
Human(r) == r.approved /\ r.resolved /\ r.version >= 2
ApprovedByHuman ==
  /\ \A j \in Jobs : review[j].approved => Human(review[j])
  /\ \A j \in Jobs : status[j] \in {"reviewing", "ready"} => review[j].version >= 1
  /\ \A a \in Admins : approving[a].id # NoJob => Human(approving[a].read)

-----------------------------------------------------------------------------
(* The status table                                                         *)

LEMMA PersistedFrom == FromStatuses("persisted") = {"reviewing", "ready"}
BY DEF FromStatuses, Lifecycle!FromStatuses, Lifecycle!Statuses,
       Lifecycle!Transitions

LEMMA PendingFrom == FromStatuses("pending") = {"profanity", "failed"}
BY DEF FromStatuses, Lifecycle!FromStatuses, Lifecycle!Statuses,
       Lifecycle!Transitions

LEMMA RejectedFrom ==
  FromStatuses("rejected") = Lifecycle!Statuses \ {"rejected", "persisted"}
BY DEF FromStatuses, Lifecycle!FromStatuses, Lifecycle!Statuses,
       Lifecycle!Transitions

-----------------------------------------------------------------------------
(* The nine ways a step can touch the rows and the approvals in flight      *)

Silent == UNCHANGED <<rows, approving>>

Submission ==
  /\ \E j \in Jobs : status[j] = "none" /\ status' = [status EXCEPT ![j] = "pending"]
  /\ UNCHANGED <<review, recipes, approving>>

MoveTo(to) ==
  /\ \E j : status[j] \in FromStatuses(to) /\ status' = [status EXCEPT ![j] = to]
  /\ UNCHANGED <<review, recipes, approving>>
Movement == \E to \in {"processing", "ocred", "drafted", "profanity", "failed",
                       "rejected", "pending"} : MoveTo(to)

Mapping ==
  /\ \E j : \E resolved \in BOOLEAN :
       /\ status[j] = "drafted"
       /\ status' = [status EXCEPT ![j] = ReviewStatus(resolved)]
       /\ review' = [review EXCEPT ![j] = MappedReview(resolved)]
  /\ UNCHANGED <<recipes, approving>>

Edit ==
  /\ \E j \in Jobs, resolved \in BOOLEAN :
       /\ status[j] \in {"reviewing", "ready"} /\ review[j].version <= MaxEdits
       /\ status' = [status EXCEPT ![j] = ReviewStatus(resolved)]
       /\ review' = [review EXCEPT ![j] =
                       [version |-> @.version + 1, resolved |-> resolved,
                        approved |-> resolved]]
  /\ UNCHANGED <<recipes, approving>>

Read ==
  /\ \E a \in Admins, j \in Jobs :
       /\ status[j] \in {"ready", "reviewing"}
       /\ review[j].resolved /\ review[j].approved
       /\ approving' = [approving EXCEPT ![a] = [id |-> j, read |-> review[j]]]
  /\ UNCHANGED rows

Persist ==
  /\ \E a \in Admins :
       /\ approving[a] # Idle
       /\ status[approving[a].id] \in {"reviewing", "ready"}
       /\ status' = [status EXCEPT ![approving[a].id] = "persisted"]
       /\ recipes' = [recipes EXCEPT ![approving[a].id] = Append(@, approving[a].read)]
       /\ approving' = [approving EXCEPT ![a] = Idle]
  /\ UNCHANGED review

Drop ==
  /\ \E S \in SUBSET Admins :
       approving' = [a \in Admins |-> IF a \in S THEN Idle ELSE approving[a]]
  /\ UNCHANGED rows

Recovery ==
  /\ \E stale \in SUBSET {j \in Jobs : status[j] = "processing"} :
       status' = [j \in Jobs |-> IF j \in stale THEN "pending" ELSE status[j]]
  /\ UNCHANGED <<review, recipes, approving>>

StepKind == \/ Silent \/ Submission \/ Movement \/ Mapping \/ Edit
            \/ Read \/ Persist \/ Drop \/ Recovery

\* The statuses the workers' statements name are those of the table.
LEMMA WorkerTargets ==
  /\ ClaimableStatuses \subseteq FromStatuses("processing")
  /\ "processing" \in FromStatuses("ocred")
  /\ "ocred" \in FromStatuses("drafted")
  /\ WorkerStages \subseteq FromStatuses("profanity")
  /\ WorkerStages \subseteq FromStatuses("failed")
BY DEF FromStatuses, Lifecycle!FromStatuses, Lifecycle!Statuses,
       Lifecycle!Transitions, ClaimableStatuses, WorkerStages

LEMMA WorkerKinds ==
  ASSUME NEW w \in Workers, Worker(w)
  PROVE  Silent \/ Movement \/ Mapping
<1> USE DEF Silent, Movement, MoveTo, OwnWrite, NoWrite, WorkerFrame, rows, Set
<1>1. ASSUME Take(w) PROVE Silent
  BY <1>1 DEF Take
<1>2. ASSUME Claim(w) PROVE Silent \/ MoveTo("processing")
  BY <1>2, WorkerTargets DEF Claim
<1>3. ASSUME UpdateOCR(w) PROVE Silent \/ MoveTo("ocred")
  BY <1>3, WorkerTargets DEF UpdateOCR, StageWrite
<1>4. ASSUME UpdateDraft(w) PROVE Silent \/ MoveTo("drafted")
  BY <1>4, WorkerTargets DEF UpdateDraft, StageWrite
<1>5. ASSUME NEW resolved \in BOOLEAN, RunMapping(w, resolved)
      PROVE  Silent \/ Mapping
  <2>1. CASE status[job[w]] \in WorkerReviewFrom
    <3>1. /\ status[job[w]] = "drafted"
          /\ status' = [status EXCEPT ![job[w]] = ReviewStatus(resolved)]
          /\ review' = [review EXCEPT ![job[w]] = MappedReview(resolved)]
          /\ UNCHANGED <<recipes, approving>>
      BY <1>5, <2>1 DEF RunMapping, WorkerReviewFrom
    <3>2. QED
      BY <3>1 DEF Mapping
  <2>2. CASE status[job[w]] \notin WorkerReviewFrom
    BY <1>5, <2>2 DEF RunMapping
  <2>3. QED
    BY <2>1, <2>2
<1>6. ASSUME StageFails(w) \/ ClaimFails(w) \/ LastWriteLost(w) PROVE Silent
  BY <1>6 DEF StageFails, ClaimFails, LastWriteLost
<1>7. ASSUME MarkProfanity(w) PROVE Silent \/ MoveTo("profanity")
  BY <1>7, WorkerTargets DEF MarkProfanity
<1>8. ASSUME MarkFailed(w) PROVE Silent \/ MoveTo("failed")
  BY <1>8, WorkerTargets DEF MarkFailed
<1>9. QED
  BY <1>1, <1>2, <1>3, <1>4, <1>5, <1>6, <1>7, <1>8 DEF Worker

LEMMA StepKinds ==
  ASSUME RowsTyped, [Next]_vars
  PROVE  StepKind
<1> USE DEF rows, Set
<1>1. ASSUME NEW w \in Workers, Worker(w) PROVE StepKind
  BY <1>1, WorkerKinds DEF StepKind
<1>2. ASSUME NEW j \in Jobs, Create(j) PROVE Submission
  BY <1>2 DEF Create, Submission
<1>3. ASSUME NEW j \in Jobs, Reject(j) PROVE MoveTo("rejected")
  BY <1>3 DEF Reject, MoveTo
<1>4. ASSUME NEW j \in Jobs, Retry(j) PROVE MoveTo("pending")
  BY <1>4 DEF Retry, MoveTo
<1>5. ASSUME NEW j \in Jobs, NEW resolved \in BOOLEAN, EditReview(j, resolved)
      PROVE  Edit
  BY <1>5 DEF EditReview, Edit, AdminReviewFrom
<1>6. ASSUME NEW a \in Admins, NEW j \in Jobs, ApproveRead(a, j) PROVE Read
  BY <1>6 DEF ApproveRead, Read
<1>7. ASSUME NEW a \in Admins, ApproveCommit(a) PROVE Persist
  BY <1>7, PersistedFrom DEF ApproveCommit, Persist
<1>8. ASSUME NEW a \in Admins, ApproveFails(a) PROVE Drop
  <2>1. approving' = [b \in Admins |-> IF b \in {a} THEN Idle ELSE approving[b]]
    BY <1>8 DEF ApproveFails, RowsTyped
  <2>2. QED
    BY <2>1, <1>8 DEF Drop, ApproveFails
<1>9. ASSUME SweepClaimable PROVE Silent
  BY <1>9 DEF SweepClaimable, Silent
<1>10. ASSUME Stop PROVE Drop
  <2>1. approving' = [b \in Admins |-> IF b \in Admins THEN Idle ELSE approving[b]]
    BY <1>10 DEF Stop
  <2>2. QED
    BY <2>1, <1>10 DEF Drop, Stop
<1>11. ASSUME Start PROVE Recovery
  BY <1>11 DEF Start, StaleClaims, Processing, Recovery
<1>12. ASSUME UNCHANGED vars PROVE Silent
  BY <1>12 DEF vars, Silent
<1>13. QED
  BY <1>1, <1>2, <1>3, <1>4, <1>5, <1>6, <1>7, <1>8, <1>9, <1>10, <1>11, <1>12
     DEF Next, Admin, StepKind, Movement
-----------------------------------------------------------------------------
(* Types                                                                    *)

LEMMA InitTyped == Init => RowsTyped
BY DEF Init, RowsTyped, Review, Idle, NoReview, Lifecycle!Statuses

LEMMA TypedStep ==
  ASSUME RowsTyped, StepKind
  PROVE  RowsTyped'
<1> USE DEF RowsTyped, rows, Review, Lifecycle!Statuses
<1>1. CASE Silent
  BY <1>1 DEF Silent
<1>2. CASE Submission
  BY <1>2 DEF Submission
<1>3. CASE Movement
  BY <1>3 DEF Movement, MoveTo
<1>4. CASE Mapping
  <2>1. \A r \in BOOLEAN : /\ ReviewStatus(r) \in Lifecycle!Statuses
                           /\ MappedReview(r) \in Review
    BY DEF ReviewStatus, MappedReview
  <2>2. QED
    BY <1>4, <2>1 DEF Mapping
<1>5. CASE Edit
  BY <1>5 DEF Edit, ReviewStatus
<1>6. CASE Read
  BY <1>6 DEF Read
<1>7. CASE Persist
  <2>1. PICK a \in Admins :
          /\ status' = [status EXCEPT ![approving[a].id] = "persisted"]
          /\ recipes' = [recipes EXCEPT ![approving[a].id] = Append(@, approving[a].read)]
          /\ approving' = [approving EXCEPT ![a] = Idle]
    BY <1>7 DEF Persist
  <2>2. approving[a].read \in Review
    OBVIOUS
  <2>3. recipes' \in [Jobs -> Seq(Review)]
    <3>1. \A j \in Jobs : Append(recipes[j], approving[a].read) \in Seq(Review)
      BY <2>2
    <3>2. QED
      BY <2>1, <3>1
  <2>4. QED
    BY <1>7, <2>1, <2>3 DEF Persist, Idle, NoReview
<1>8. CASE Drop
  BY <1>8 DEF Drop, Idle, NoReview
<1>9. CASE Recovery
  BY <1>9 DEF Recovery
<1>10. QED
  BY <1>1, <1>2, <1>3, <1>4, <1>5, <1>6, <1>7, <1>8, <1>9 DEF StepKind

-----------------------------------------------------------------------------
(* One recipe per import                                                    *)

LEMMA InitOneRecipe == Init => OneRecipePerImport
BY DEF Init, OneRecipePerImport

LEMMA OneRecipeStep ==
  ASSUME RowsTyped, OneRecipePerImport, StepKind
  PROVE  OneRecipePerImport'
<1> USE DEF OneRecipePerImport, rows
<1>1. CASE Silent \/ Read \/ Drop
  BY <1>1 DEF Silent, Read, Drop
<1>2. CASE Submission
  BY <1>2 DEF Submission, RowsTyped
<1>3. CASE Movement
  <2>1. \A to : "persisted" \notin FromStatuses(to)
    BY DEF FromStatuses, Lifecycle!FromStatuses, Lifecycle!Transitions
  <2>2. QED
    BY <1>3, <2>1 DEF Movement, MoveTo, RowsTyped
<1>4. CASE Mapping
  BY <1>4 DEF Mapping, RowsTyped, ReviewStatus
<1>5. CASE Edit
  BY <1>5 DEF Edit, RowsTyped, ReviewStatus
<1>6. CASE Persist
  <2>1. PICK a \in Admins :
          /\ status[approving[a].id] \in {"reviewing", "ready"}
          /\ status' = [status EXCEPT ![approving[a].id] = "persisted"]
          /\ recipes' = [recipes EXCEPT ![approving[a].id] = Append(@, approving[a].read)]
    BY <1>6 DEF Persist
  <2>2. ASSUME NEW j \in Jobs, j = approving[a].id
        PROVE  /\ Len(recipes'[j]) = 1 /\ recipes'[j] # <<>>
               /\ status'[j] = "persisted"
    <3>1. recipes[j] = <<>> /\ recipes[j] \in Seq(Review)
      BY <2>1, <2>2 DEF RowsTyped
    <3>2. recipes'[j] = Append(recipes[j], approving[a].read)
      BY <2>1, <2>2 DEF RowsTyped
    <3>3. approving[a].read \in Review
      BY DEF RowsTyped
    <3>4. status'[j] = "persisted"
      BY <2>1, <2>2 DEF RowsTyped
    <3>5. QED
      BY <3>1, <3>2, <3>3, <3>4
  <2>3. ASSUME NEW j \in Jobs, j # approving[a].id
        PROVE  recipes'[j] = recipes[j] /\ status'[j] = status[j]
    BY <2>1, <2>3 DEF RowsTyped
  <2>4. ASSUME NEW j \in Jobs
        PROVE  Len(recipes'[j]) <= 1 /\ (status'[j] = "persisted" <=> recipes'[j] # <<>>)
    <3>1. CASE j = approving[a].id
      BY <2>2, <3>1, 1 <= 1
    <3>2. CASE j # approving[a].id
      BY <2>3, <3>2, Zenon
    <3>3. QED
      BY <3>1, <3>2
  <2>5. QED
    BY <2>4
<1>7. CASE Recovery
  BY <1>7 DEF Recovery, RowsTyped
<1>8. QED
  BY <1>1, <1>2, <1>3, <1>4, <1>5, <1>6, <1>7 DEF StepKind

\* Approving concurrently or repeatedly creates at most one recipe, and an
\* import is persisted exactly when it has one, however many workers, admins,
\* failures and restarts there are.
THEOREM NoDuplicateRecipes == Spec => []OneRecipePerImport
<1> DEFINE IInv == RowsTyped /\ OneRecipePerImport
<1>1. Init => IInv
  BY InitTyped, InitOneRecipe
<1>2. IInv /\ [Next]_vars => IInv'
  BY StepKinds, TypedStep, OneRecipeStep
<1>3. QED
  BY <1>1, <1>2, PTL DEF Spec
-----------------------------------------------------------------------------
(* Only what a human approved                                               *)

LEMMA InitHuman == Init => ApprovedByHuman /\ HumanApproved
BY DEF Init, ApprovedByHuman, HumanApproved, Idle, NoReview

LEMMA ApprovedByHumanStep ==
  ASSUME RowsTyped, ApprovedByHuman, StepKind
  PROVE  ApprovedByHuman'
<1> USE ParamsAssumption DEF ApprovedByHuman, rows
<1>1. CASE Silent
  BY <1>1 DEF Silent, Human
<1>2. CASE Submission
  BY <1>2 DEF Submission, RowsTyped, Human
<1>3. CASE Movement
  <2>1. ASSUME NEW to \in {"processing", "ocred", "drafted", "profanity", "failed",
                           "rejected", "pending"}, MoveTo(to)
        PROVE  ApprovedByHuman'
    BY <2>1 DEF MoveTo, RowsTyped, Human
  <2>2. QED
    BY <1>3, <2>1 DEF Movement
<1>4. CASE Mapping
  <2>1. PICK j : \E resolved \in BOOLEAN :
          /\ status' = [status EXCEPT ![j] = ReviewStatus(resolved)]
          /\ review' = [review EXCEPT ![j] = MappedReview(resolved)]
    BY <1>4 DEF Mapping
  <2>2. \A k \in Jobs : review'[k].approved => Human(review'[k])
    BY <2>1 DEF RowsTyped, MappedReview, Human
  <2>3. \A k \in Jobs : status'[k] \in {"reviewing", "ready"} => review'[k].version >= 1
    BY <2>1 DEF RowsTyped, MappedReview
  <2>4. QED
    BY <1>4, <2>2, <2>3 DEF Mapping, Human
<1>5. CASE Edit
  <2>1. PICK j \in Jobs, resolved \in BOOLEAN :
          /\ status[j] \in {"reviewing", "ready"}
          /\ status' = [status EXCEPT ![j] = ReviewStatus(resolved)]
          /\ review' = [review EXCEPT ![j] =
                          [version |-> @.version + 1, resolved |-> resolved,
                           approved |-> resolved]]
    BY <1>5 DEF Edit
  <2>2. review[j].version \in Nat /\ review[j].version >= 1
    BY <2>1 DEF RowsTyped, Review
  <2>3. \A k \in Jobs : review'[k].approved => Human(review'[k])
    BY <2>1, <2>2 DEF RowsTyped, Human
  <2>4. \A k \in Jobs : status'[k] \in {"reviewing", "ready"} => review'[k].version >= 1
    BY <2>1, <2>2 DEF RowsTyped
  <2>5. QED
    BY <1>5, <2>3, <2>4 DEF Edit, Human
<1>6. CASE Read
  BY <1>6 DEF Read, RowsTyped, Human
<1>7. CASE Persist
  <2>1. PICK a \in Admins :
          /\ status' = [status EXCEPT ![approving[a].id] = "persisted"]
          /\ approving' = [approving EXCEPT ![a] = Idle]
    BY <1>7 DEF Persist
  <2>2. review' = review
    BY <1>7 DEF Persist
  <2>3. \A k \in Jobs : status'[k] \in {"reviewing", "ready"} => status'[k] = status[k]
    BY <2>1 DEF RowsTyped
  <2>4. \A b \in Admins : approving'[b] = approving[b] \/ approving'[b] = Idle
    BY <2>1 DEF RowsTyped
  <2>5. QED
    BY <2>2, <2>3, <2>4 DEF Idle, Human
<1>8. CASE Drop
  BY <1>8 DEF Drop, RowsTyped, Idle, Human
<1>9. CASE Recovery
  BY <1>9 DEF Recovery, RowsTyped, Human
<1>10. QED
  BY <1>1, <1>2, <1>3, <1>4, <1>5, <1>6, <1>7, <1>8, <1>9 DEF StepKind

LEMMA HumanApprovedStep ==
  ASSUME RowsTyped, ApprovedByHuman, HumanApproved, StepKind
  PROVE  HumanApproved'
<1>1. CASE Persist
  <2>1. PICK a \in Admins :
          /\ approving[a] # Idle
          /\ recipes' = [recipes EXCEPT ![approving[a].id] = Append(@, approving[a].read)]
    BY <1>1 DEF Persist
  <2>2. ASSUME NEW j \in Jobs, NEW i \in DOMAIN recipes'[j]
        PROVE  Human(recipes'[j][i])
    <3>1. recipes[j] \in Seq(Review) /\ approving[a].read \in Review
      BY DEF RowsTyped
    <3>2. CASE j = approving[a].id
      <4>1. recipes'[j] = Append(recipes[j], approving[a].read)
        BY <2>1, <3>2 DEF RowsTyped
      <4>2. Human(approving[a].read)
        BY <3>2, ParamsAssumption DEF ApprovedByHuman
      <4>3. CASE i = Len(recipes[j]) + 1
        BY <3>1, <4>1, <4>2, <4>3
      <4>4. CASE i # Len(recipes[j]) + 1
        <5>1. i \in DOMAIN recipes[j] /\ recipes'[j][i] = recipes[j][i]
          BY <2>2, <3>1, <4>1, <4>4
        <5>2. QED
          BY <5>1 DEF HumanApproved, Human
      <4>5. QED
        BY <4>3, <4>4
    <3>3. CASE j # approving[a].id
      <4>1. recipes'[j] = recipes[j]
        BY <2>1, <3>3 DEF RowsTyped
      <4>2. QED
        BY <2>2, <4>1 DEF HumanApproved, Human
    <3>4. QED
      BY <3>2, <3>3
  <2>3. QED
    BY <2>2 DEF HumanApproved, Human
<1>2. CASE ~Persist
  <2>1. recipes' = recipes
    BY <1>2 DEF StepKind, Silent, Submission, Movement, MoveTo, Mapping, Edit,
                Read, Drop, Recovery, rows
  <2>2. QED
    BY <2>1 DEF HumanApproved
<1>3. QED
  BY <1>1, <1>2

\* No recipe is created from a review no human has approved, however late the
\* approval commits and whatever happened to the import in between.
THEOREM OnlyHumanApproved == Spec => []HumanApproved
<1> DEFINE IInv == RowsTyped /\ ApprovedByHuman /\ HumanApproved
<1>1. Init => IInv
  BY InitTyped, InitHuman
<1>2. IInv /\ [Next]_vars => IInv'
  BY StepKinds, TypedStep, ApprovedByHumanStep, HumanApprovedStep
<1>3. QED
  BY <1>1, <1>2, PTL DEF Spec

-----------------------------------------------------------------------------
(* Reviews are not overwritten                                              *)

\* An import has a review only once a mapping has brought it to the admins:
\* none of the statuses a worker writes from has one to lose.
ReviewedStatuses == {"reviewing", "ready", "rejected", "persisted"}
NoReviewYet ==
  \A j \in Jobs : status[j] \notin ReviewedStatuses => review[j].version = 0

LEMMA InitNoReviewYet == Init => NoReviewYet
BY DEF Init, NoReviewYet, NoReview

LEMMA NoReviewYetStep ==
  ASSUME RowsTyped, NoReviewYet, StepKind
  PROVE  NoReviewYet'
<1> USE DEF NoReviewYet, ReviewedStatuses, rows
<1>1. CASE Silent \/ Read \/ Drop
  BY <1>1 DEF Silent, Read, Drop
<1>2. CASE Submission
  BY <1>2 DEF Submission, RowsTyped
<1>3. CASE Movement
  <2>1. ASSUME NEW to \in {"processing", "ocred", "drafted", "profanity", "failed",
                           "rejected", "pending"}, MoveTo(to)
        PROVE  NoReviewYet'
    <3>1. PICK k : status[k] \in FromStatuses(to) /\ status' = [status EXCEPT ![k] = to]
      BY <2>1 DEF MoveTo
    <3>2. review' = review
      BY <2>1 DEF MoveTo
    <3>3. to = "rejected" \/ FromStatuses(to) \cap ReviewedStatuses = {}
      BY DEF FromStatuses, Lifecycle!FromStatuses, Lifecycle!Statuses,
             Lifecycle!Transitions
    <3>4. QED
      BY <3>1, <3>2, <3>3 DEF RowsTyped
  <2>2. QED
    BY <1>3, <2>1 DEF Movement
<1>4. CASE Mapping
  BY <1>4 DEF Mapping, ReviewStatus, RowsTyped
<1>5. CASE Edit
  BY <1>5 DEF Edit, ReviewStatus, RowsTyped
<1>6. CASE Persist
  BY <1>6 DEF Persist, RowsTyped
<1>7. CASE Recovery
  BY <1>7 DEF Recovery, RowsTyped
<1>8. QED
  BY <1>1, <1>2, <1>3, <1>4, <1>5, <1>6, <1>7 DEF StepKind

LEMMA ReviewKeptStep ==
  ASSUME RowsTyped, NoReviewYet, StepKind, NEW j \in Jobs, review'[j] # review[j]
  PROVE  review'[j].version > review[j].version
<1>1. CASE Mapping
  <2>1. PICK k : \E resolved \in BOOLEAN :
          /\ status[k] = "drafted"
          /\ review' = [review EXCEPT ![k] = MappedReview(resolved)]
    BY <1>1 DEF Mapping
  <2>2. k = j
    BY <2>1 DEF RowsTyped
  <2>3. review[j].version = 0
    BY <2>1, <2>2 DEF NoReviewYet, ReviewedStatuses
  <2>4. review'[j].version = 1
    BY <2>1, <2>2 DEF RowsTyped, MappedReview
  <2>5. QED
    BY <2>3, <2>4
<1>2. CASE Edit
  <2>1. PICK k \in Jobs, resolved \in BOOLEAN :
          review' = [review EXCEPT ![k] =
                       [version |-> @.version + 1, resolved |-> resolved,
                        approved |-> resolved]]
    BY <1>2 DEF Edit
  <2>2. review[j].version \in Nat /\ review'[j].version = review[j].version + 1
    BY <2>1 DEF RowsTyped, Review
  <2>3. QED
    BY <2>2
<1>3. QED
  BY <1>1, <1>2 DEF StepKind, Silent, Submission, Movement, MoveTo, Read, Persist,
                    Drop, Recovery, rows

\* A worker that finishes late, an import taken twice and a retry never write
\* over a review: once there is one, only an admin's edit replaces it.
THEOREM ReviewsAreKept == Spec => ReviewKept
<1> DEFINE IInv == RowsTyped /\ NoReviewYet
           KeptStep == \A j \in Jobs : review'[j] # review[j] =>
                         review'[j].version > review[j].version
<1>1. Init => IInv
  BY InitTyped, InitNoReviewYet
<1>2. IInv /\ [Next]_vars => IInv'
  BY StepKinds, TypedStep, NoReviewYetStep
<1>3. IInv /\ [Next]_vars => [KeptStep]_vars
  BY StepKinds, ReviewKeptStep
<1>4. QED
  BY <1>1, <1>2, <1>3, PTL DEF Spec, ReviewKept

-----------------------------------------------------------------------------
(* The channel and the pool                                                 *)

Stages == {"idle", "claim", "ocr", "draft", "map", "fail"}
PoolTyped ==
  /\ queue \in Seq(Jobs) /\ Len(queue) <= QueueDepth
  /\ stage \in [Workers -> Stages]
  /\ job \in [Workers -> Jobs \cup {NoJob}]
  /\ \A w \in Workers : (stage[w] = "idle") <=> (job[w] = NoJob)
  /\ ~up => queue = <<>> /\ \A w \in Workers : stage[w] = "idle"

LEMMA FittingBounds ==
  ASSUME NEW s \in Seq(Jobs)
  PROVE  Fitting(s) \in Seq(Jobs) /\ Len(Fitting(s)) <= QueueDepth
<1>1. CASE Len(s) > QueueDepth
  <2>1. QueueDepth \in Nat /\ QueueDepth <= Len(s)
    BY <1>1, ParamsAssumption
  <2>2. SubSeq(s, 1, QueueDepth) \in Seq(Jobs) /\ Len(SubSeq(s, 1, QueueDepth)) = QueueDepth
    BY <2>1
  <2>3. QED
    BY <1>1, <2>1, <2>2 DEF Fitting
<1>2. CASE ~(Len(s) > QueueDepth)
  BY <1>2, ParamsAssumption DEF Fitting
<1>3. QED
  BY <1>1, <1>2

LEMMA ListingsAreJobs ==
  ASSUME NEW st, NEW ids \in ListClaimableIDs(st)
  PROVE  ids \in Seq(Jobs)
<1>1. PICK n \in Nat : ids \in [1..n -> Jobs]
  BY ParamsAssumption DEF ListClaimableIDs
<1>2. QED
  BY <1>1

LEMMA EnqueueKeepsChannel ==
  ASSUME queue \in Seq(Jobs), NEW ids \in Seq(Jobs), EnqueueProcess(ids)
  PROVE  queue' \in Seq(Jobs) /\ Len(queue') <= QueueDepth
BY FittingBounds, queue \o ids \in Seq(Jobs) DEF EnqueueProcess

LEMMA InitPool == Init => PoolTyped
BY ParamsAssumption DEF Init, PoolTyped, Stages

\* How a worker's step moves it: it pops an import, goes to another stage with
\* the import it has, or ends the job.
LEMMA WorkerMoves ==
  ASSUME PoolTyped, NEW w \in Workers, Worker(w)
  PROVE  /\ stage[w] # "idle" \/ Take(w)
         /\ \/ Take(w)
            \/ /\ queue' = queue
               /\ \/ Finish(w)
                  \/ \E s \in Stages \ {"idle"} : Goto(w, s)
         /\ up' = up
<1> USE DEF WorkerFrame, process, Stages
<1>1. ASSUME Claim(w) \/ UpdateOCR(w) \/ UpdateDraft(w)
      PROVE  /\ stage[w] # "idle" /\ queue' = queue /\ up' = up
             /\ Finish(w) \/ \E s \in Stages \ {"idle"} : Goto(w, s)
  BY <1>1 DEF Claim, UpdateOCR, UpdateDraft, StageWrite
<1>2. ASSUME NEW resolved \in BOOLEAN, RunMapping(w, resolved)
      PROVE  stage[w] # "idle" /\ queue' = queue /\ up' = up /\ Finish(w)
  BY <1>2 DEF RunMapping
<1>3. ASSUME StageFails(w) \/ ClaimFails(w)
      PROVE  stage[w] # "idle" /\ queue' = queue /\ up' = up /\ Goto(w, "fail")
  BY <1>3 DEF StageFails, ClaimFails
<1>4. ASSUME MarkProfanity(w) \/ MarkFailed(w) \/ LastWriteLost(w)
      PROVE  stage[w] # "idle" /\ queue' = queue /\ up' = up /\ Finish(w)
  BY <1>4 DEF MarkProfanity, MarkFailed, LastWriteLost
<1>5. ASSUME Take(w) PROVE up' = up
  BY <1>5 DEF Take
<1>6. QED
  BY <1>1, <1>2, <1>3, <1>4, <1>5 DEF Worker

LEMMA PoolStep ==
  ASSUME PoolTyped, [Next]_vars
  PROVE  PoolTyped'
<1> USE DEF PoolTyped, workers, process
<1>1. ASSUME NEW w \in Workers, Worker(w) PROVE PoolTyped'
  <2>1. up
    BY <1>1, WorkerMoves DEF Take
  <2>2. CASE Take(w)
    <3>1. Head(queue) \in Jobs /\ Tail(queue) \in Seq(Jobs) /\ Len(Tail(queue)) = Len(queue) - 1
      BY <2>2 DEF Take
    <3>2. Len(queue') <= QueueDepth
      BY <2>2, <3>1, ParamsAssumption DEF Take
    <3>3. QED
      BY <1>1, <2>1, <2>2, <3>1, <3>2, WorkerMoves, ParamsAssumption DEF Take, Stages
  <2>3. CASE queue' = queue /\ Finish(w)
    BY <1>1, <2>1, <2>3, WorkerMoves DEF Finish, Stages
  <2>4. CASE queue' = queue /\ stage[w] # "idle" /\ \E s \in Stages \ {"idle"} : Goto(w, s)
    BY <1>1, <2>1, <2>4, WorkerMoves DEF Goto
  <2>5. QED
    BY <1>1, <2>2, <2>3, <2>4, WorkerMoves
<1>2. ASSUME NEW j \in Jobs, Create(j) \/ Retry(j) PROVE PoolTyped'
  <2>1. <<j>> \in Seq(Jobs)
    OBVIOUS
  <2>2. EnqueueProcess(<<j>>) /\ up /\ UNCHANGED <<stage, job, up>>
    BY <1>2 DEF Create, Retry
  <2>3. QED
    BY <2>1, <2>2, EnqueueKeepsChannel
<1>3. ASSUME NEW j \in Jobs, Reject(j) PROVE PoolTyped'
  BY <1>3 DEF Reject
<1>4. ASSUME NEW j \in Jobs, NEW resolved \in BOOLEAN, EditReview(j, resolved)
      PROVE  PoolTyped'
  BY <1>4 DEF EditReview
<1>5. ASSUME NEW a \in Admins,
             ApproveCommit(a) \/ ApproveFails(a) \/ \E j \in Jobs : ApproveRead(a, j)
      PROVE  PoolTyped'
  BY <1>5 DEF ApproveCommit, ApproveFails, ApproveRead
<1>6. ASSUME SweepClaimable PROVE PoolTyped'
  BY <1>6, ListingsAreJobs, EnqueueKeepsChannel DEF SweepClaimable
<1>7. ASSUME Stop PROVE PoolTyped'
  BY <1>7, ParamsAssumption DEF Stop, Stages
<1>8. ASSUME Start PROVE PoolTyped'
  BY <1>8, ListingsAreJobs, EnqueueKeepsChannel DEF Start
<1>9. CASE UNCHANGED vars
  BY <1>9 DEF vars
<1>10. QED
  BY <1>1, <1>2, <1>3, <1>4, <1>5, <1>6, <1>7, <1>8, <1>9 DEF Next, Admin

LEMMA VersionsStep ==
  ASSUME RowsTyped, StepKind, \A j \in Jobs : review[j].version <= MaxEdits + 1
  PROVE  (\A j \in Jobs : review[j].version <= MaxEdits + 1)'
<1>1. CASE Mapping
  <2>1. PICK k : \E resolved \in BOOLEAN :
          review' = [review EXCEPT ![k] = MappedReview(resolved)]
    BY <1>1 DEF Mapping
  <2>2. \A j \in Jobs : review'[j].version = review[j].version \/ review'[j].version = 1
    BY <2>1 DEF RowsTyped, MappedReview
  <2>3. QED
    BY <2>2, ParamsAssumption
<1>2. CASE Edit
  <2>1. PICK k \in Jobs, resolved \in BOOLEAN :
          /\ review[k].version <= MaxEdits
          /\ review' = [review EXCEPT ![k] =
                          [version |-> @.version + 1, resolved |-> resolved,
                           approved |-> resolved]]
    BY <1>2 DEF Edit
  <2>2. ASSUME NEW j \in Jobs PROVE review'[j].version <= MaxEdits + 1
    <3>1. CASE j = k
      <4>1. review[k].version \in Nat /\ review'[k].version = review[k].version + 1
        BY <2>1 DEF RowsTyped, Review
      <4>2. QED
        BY <2>1, <3>1, <4>1, ParamsAssumption
    <3>2. CASE j # k
      BY <2>1, <3>2 DEF RowsTyped
    <3>3. QED
      BY <3>1, <3>2
  <2>3. QED
    BY <2>2
<1>3. CASE review' = review
  BY <1>3
<1>4. QED
  BY <1>1, <1>2, <1>3
     DEF StepKind, Silent, Submission, Movement, MoveTo, Read, Persist, Drop,
         Recovery, rows

\* Whoever else writes a row that a stage is running on, rejects it.
LEMMA OthersRespectClaims ==
  ASSUME RowsTyped, Admin, NEW j \in Jobs,
         status[j] \in {"processing", "ocred", "drafted", "rejected"}
  PROVE  status'[j] \in {status[j], "rejected"} /\ UNCHANGED workers
<1> USE DEF Set, rows, RowsTyped
<1>1. ASSUME NEW i \in Jobs, Create(i) PROVE status'[j] = status[j] /\ UNCHANGED workers
  BY <1>1 DEF Create
<1>2. ASSUME NEW i \in Jobs, Reject(i)
      PROVE  status'[j] \in {status[j], "rejected"} /\ UNCHANGED workers
  BY <1>2 DEF Reject
<1>3. ASSUME NEW i \in Jobs, Retry(i) PROVE status'[j] = status[j] /\ UNCHANGED workers
  BY <1>3, PendingFrom DEF Retry
<1>4. ASSUME NEW i \in Jobs, NEW resolved \in BOOLEAN, EditReview(i, resolved)
      PROVE  status'[j] = status[j] /\ UNCHANGED workers
  BY <1>4 DEF EditReview, AdminReviewFrom
<1>5. ASSUME NEW a \in Admins, ApproveCommit(a)
      PROVE  status'[j] = status[j] /\ UNCHANGED workers
  BY <1>5, PersistedFrom DEF ApproveCommit
<1>6. ASSUME NEW a \in Admins, ApproveFails(a) \/ \E i \in Jobs : ApproveRead(a, i)
      PROVE  status'[j] = status[j] /\ UNCHANGED workers
  BY <1>6 DEF ApproveFails, ApproveRead
<1>7. QED
  BY <1>1, <1>2, <1>3, <1>4, <1>5, <1>6 DEF Admin

LEMMA LiveClaimStep ==
  ASSUME \A v, w \in Workers : v = w,
         RowsTyped, PoolTyped, LiveClaimKept, [Next]_vars
  PROVE  LiveClaimKept'
<1> USE DEF LiveClaimKept, StageStatus
<1>1. ASSUME NEW w \in Workers, Worker(w) PROVE LiveClaimKept'
  <2> USE DEF OwnWrite, NoWrite, WorkerFrame, rows, Set
  <2> SUFFICES stage'[w] \in {"ocr", "draft", "map"} =>
                 status'[job'[w]] \in {StageStatus(stage'[w]), "rejected"}
    OBVIOUS
  <2>1. stage[w] # "idle" => job[w] \in Jobs
    BY DEF PoolTyped
  <2>2. ASSUME Take(w) PROVE stage'[w] = "claim"
    BY <2>2 DEF Take, PoolTyped
  <2>3. ASSUME NEW s \in Stages, Goto(w, s) PROVE stage'[w] = s /\ job' = job
    BY <2>3 DEF Goto, PoolTyped
  <2>4. ASSUME Finish(w) PROVE stage'[w] = "idle"
    BY <2>4 DEF Finish, PoolTyped
  <2>5. CASE Claim(w)
    <3>1. CASE Finish(w)
      BY <2>4, <3>1
    <3>2. CASE Goto(w, "ocr") /\ status' = [status EXCEPT ![job[w]] = "processing"]
      BY <2>1, <2>3, <2>5, <3>2 DEF Claim, Stages, RowsTyped
    <3>3. QED
      BY <2>5, <3>1, <3>2 DEF Claim
  <2>6. CASE UpdateOCR(w)
    <3>1. CASE Goto(w, "fail")
      BY <2>3, <3>1 DEF Stages
    <3>2. CASE Goto(w, "draft") /\ status' = [status EXCEPT ![job[w]] = "ocred"]
      BY <2>1, <2>3, <2>6, <3>2 DEF UpdateOCR, StageWrite, Stages, RowsTyped
    <3>3. QED
      BY <2>6, <3>1, <3>2 DEF UpdateOCR, StageWrite
  <2>7. CASE UpdateDraft(w)
    <3>1. CASE Goto(w, "fail")
      BY <2>3, <3>1 DEF Stages
    <3>2. CASE Goto(w, "map") /\ status' = [status EXCEPT ![job[w]] = "drafted"]
      BY <2>1, <2>3, <2>7, <3>2 DEF UpdateDraft, StageWrite, Stages, RowsTyped
    <3>3. QED
      BY <2>7, <3>1, <3>2 DEF UpdateDraft, StageWrite
  <2>8. CASE StageFails(w) \/ ClaimFails(w)
    BY <2>3, <2>8 DEF StageFails, ClaimFails, Stages
  <2>9. CASE MarkProfanity(w) \/ MarkFailed(w) \/ LastWriteLost(w)
    BY <2>4, <2>9 DEF MarkProfanity, MarkFailed, LastWriteLost
  <2>10. CASE \E resolved \in BOOLEAN : RunMapping(w, resolved)
    BY <2>4, <2>10 DEF RunMapping
  <2>11. QED
    BY <1>1, <2>2, <2>5, <2>6, <2>7, <2>8, <2>9, <2>10 DEF Worker
<1>2. CASE Admin
  <2>1. ASSUME NEW w \in Workers, stage[w] \in {"ocr", "draft", "map"}
        PROVE  status'[job[w]] \in {StageStatus(stage[w]), "rejected"} /\ UNCHANGED workers
    BY <1>2, <2>1, OthersRespectClaims DEF PoolTyped
  <2>2. UNCHANGED workers
    BY <1>2 DEF Admin, Create, Reject, Retry, EditReview, ApproveRead, ApproveCommit,
                ApproveFails
  <2>3. QED
    BY <2>1, <2>2 DEF workers
<1>3. CASE SweepClaimable \/ UNCHANGED vars
  BY <1>3 DEF SweepClaimable, vars, rows, workers
<1>4. CASE Stop
  BY <1>4 DEF Stop
<1>5. CASE Start
  BY <1>5 DEF Start, PoolTyped, workers
<1>6. QED
  BY <1>1, <1>2, <1>3, <1>4, <1>5 DEF Next

LEMMA TypesFromParts ==
  ASSUME RowsTyped, PoolTyped, \A j \in Jobs : review[j].version <= MaxEdits + 1
  PROVE  TypeOK
BY ParamsAssumption DEF TypeOK, RowsTyped, PoolTyped, Review

Typed == /\ RowsTyped /\ PoolTyped
         /\ \A j \in Jobs : review[j].version <= MaxEdits + 1

LEMMA TypedAlways == Spec => []Typed
<1>1. Init => Typed
  BY InitTyped, InitPool, ParamsAssumption DEF Init, NoReview, Typed
<1>2. Typed /\ [Next]_vars => Typed'
  BY StepKinds, TypedStep, PoolStep, VersionsStep DEF Typed
<1>3. QED
  BY <1>1, <1>2, PTL DEF Spec

\* With any number of workers the channel holds imports and never more than
\* its capacity, a worker holds an import exactly while it is busy, and a dead
\* process holds none.
THEOREM ChannelBounded == Spec => []TypeOK
BY TypedAlways, TypesFromParts, PTL DEF Typed

\* In the default deployment, which has one worker, a stage runs on a row whose
\* status is the one it will write from, or that an admin rejected meanwhile:
\* the sweeper's duplicate offers, retries and restarts take no row from it.
THEOREM OneWorkerKeepsItsRow ==
  ASSUME \A v, w \in Workers : v = w
  PROVE  Spec => []WorkersConsistent
<1>1. Init => LiveClaimKept
  BY DEF Init, LiveClaimKept
<1>2. Typed /\ LiveClaimKept /\ [Next]_vars => LiveClaimKept'
  BY LiveClaimStep DEF Typed
<1>3. TypeOK /\ LiveClaimKept => WorkersConsistent
  BY DEF WorkersConsistent
<1>4. QED
  BY <1>1, <1>2, <1>3, TypedAlways, ChannelBounded, PTL DEF Spec

-----------------------------------------------------------------------------
(* Refinement of the status table                                           *)

LEMMA LifecycleStep ==
  ASSUME RowsTyped, StepKind
  PROVE  [Lifecycle!Next]_(Lifecycle!lifecycle)
<1> USE DEF Lifecycle!Next, Lifecycle!lifecycle, Lifecycle!Move, Lifecycle!Submit,
            rows
<1>1. CASE Silent \/ Read \/ Drop
  BY <1>1 DEF Silent, Read, Drop
<1>2. CASE Submission
  BY <1>2 DEF Submission
<1>3. CASE Movement
  <2>1. PICK to \in {"processing", "ocred", "drafted", "profanity", "failed",
                     "rejected", "pending"} :
        \E j : /\ status[j] \in FromStatuses(to)
               /\ status' = [status EXCEPT ![j] = to]
    BY <1>3 DEF Movement, MoveTo
  <2>2. PICK j :
          /\ status[j] \in FromStatuses(to)
          /\ status' = [status EXCEPT ![j] = to]
    BY <2>1
  <2>3. recipes' = recipes
    BY <1>3 DEF Movement, MoveTo
  <2>4. CASE j \in Jobs
    <3>1. to \in Lifecycle!Statuses
      BY DEF Lifecycle!Statuses
    <3>2. \A k \in Jobs : (recipes[k] # <<>> \/ to = "persisted") = (recipes[k] # <<>>)
      OBVIOUS
    <3>3. Lifecycle!Move(j, to)
      BY <2>2, <2>3, <2>4, <3>2 DEF FromStatuses
    <3>4. QED
      BY <2>4, <3>1, <3>3
  <2>5. CASE j \notin Jobs
    <3>1. status' = status
      BY <2>2, <2>5 DEF RowsTyped
    <3>2. QED
      BY <2>3, <3>1
  <2>6. QED
    BY <2>4, <2>5
<1>4. CASE Mapping
  <2>1. PICK j : \E resolved \in BOOLEAN :
          /\ status[j] = "drafted"
          /\ status' = [status EXCEPT ![j] = ReviewStatus(resolved)]
    BY <1>4 DEF Mapping
  <2>2. PICK to \in {"reviewing", "ready"} : status' = [status EXCEPT ![j] = to]
    BY <2>1 DEF ReviewStatus
  <2>3. recipes' = recipes
    BY <1>4 DEF Mapping
  <2>4. CASE j \in Jobs
    <3>1. status[j] \in Lifecycle!FromStatuses(to)
      BY <2>1 DEF Lifecycle!FromStatuses, Lifecycle!Statuses, Lifecycle!Transitions
    <3>2. Lifecycle!Move(j, to)
      BY <2>2, <2>3, <2>4, <3>1
    <3>3. QED
      BY <2>4, <3>2 DEF Lifecycle!Statuses
  <2>5. CASE j \notin Jobs
    BY <2>2, <2>3, <2>5 DEF RowsTyped
  <2>6. QED
    BY <2>4, <2>5
<1>5. CASE Edit
  <2>1. PICK j \in Jobs : \E resolved \in BOOLEAN :
          /\ status[j] \in {"reviewing", "ready"}
          /\ status' = [status EXCEPT ![j] = ReviewStatus(resolved)]
    BY <1>5 DEF Edit
  <2>2. PICK to \in {"reviewing", "ready"} : status' = [status EXCEPT ![j] = to]
    BY <2>1 DEF ReviewStatus
  <2>3. recipes' = recipes
    BY <1>5 DEF Edit
  <2>4. status[j] \in Lifecycle!FromStatuses(to)
    BY <2>1 DEF Lifecycle!FromStatuses, Lifecycle!Statuses, Lifecycle!Transitions
  <2>5. Lifecycle!Move(j, to)
    BY <2>2, <2>3, <2>4
  <2>6. QED
    BY <2>5 DEF Lifecycle!Statuses
<1>6. CASE Persist
  <2>1. PICK a \in Admins :
          /\ status[approving[a].id] \in {"reviewing", "ready"}
          /\ status' = [status EXCEPT ![approving[a].id] = "persisted"]
          /\ recipes' = [recipes EXCEPT ![approving[a].id] = Append(@, approving[a].read)]
    BY <1>6 DEF Persist
  <2>2. approving[a].read \in Review /\ approving[a].id \in Jobs \cup {NoJob}
    BY DEF RowsTyped
  <2>3. CASE approving[a].id \in Jobs
    <3> DEFINE j == approving[a].id
    <3>1. status[j] \in Lifecycle!FromStatuses("persisted")
      BY <2>1, PersistedFrom DEF FromStatuses
    <3>2. recipes'[j] # <<>>
      <4>1. recipes'[j] = Append(recipes[j], approving[a].read)
        BY <2>1, <2>3 DEF RowsTyped
      <4>2. recipes[j] \in Seq(Review)
        BY <2>3 DEF RowsTyped
      <4>3. QED
        BY <2>2, <4>1, <4>2
    <3>3. \A k \in Jobs \ {j} : recipes'[k] = recipes[k]
      BY <2>1 DEF RowsTyped
    <3>4. Lifecycle!Move(j, "persisted")
      BY <2>1, <2>3, <3>1, <3>2, <3>3
    <3>5. QED
      BY <2>3, <3>4 DEF Lifecycle!Statuses
  <2>4. CASE approving[a].id \notin Jobs
    BY <2>1, <2>4 DEF RowsTyped
  <2>5. QED
    BY <2>3, <2>4
<1>7. CASE Recovery
  BY <1>7 DEF Recovery, Lifecycle!Recover
<1>8. QED
  BY <1>1, <1>2, <1>3, <1>4, <1>5, <1>6, <1>7 DEF StepKind

\* The whole pipeline - workers stealing each other's rows, duplicate and
\* dropped offers, crashes - implements the status machine of status.go.
THEOREM ImplementsLifecycle == Spec => FollowsLifecycle
<1>1. Init => Lifecycle!Init
  BY DEF Init, Lifecycle!Init
<1>2. RowsTyped /\ [Next]_vars => RowsTyped'
  BY StepKinds, TypedStep
<1>3. RowsTyped /\ [Next]_vars => [Lifecycle!Next]_(Lifecycle!lifecycle)
  BY StepKinds, LifecycleStep
<1>4. QED
  BY <1>1, <1>2, <1>3, InitTyped, PTL DEF Spec, FollowsLifecycle, Lifecycle!Spec
=============================================================================
