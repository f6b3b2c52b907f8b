----------------------------- MODULE Idempotency -----------------------------
(***************************************************************************)
(* Mutation dedup: the row of platform.idempotency_key for one             *)
(* (user_id, key), the requests that carry that key, and the GraphQL       *)
(* handler that claims the row, executes the mutation and settles the      *)
(* claim (internal/idempotency, internal/bff/idempotency.go, NewGraphQL-   *)
(* Handler).  Rows of other keys never interact with this one.             *)
(*                                                                         *)
(* Time is kept as what is left of the row's deadline and as the time each *)
(* request has spent in its current phase, so the model needs no bound on  *)
(* the clock: expires_at counts down and has passed ("expires_at < now()") *)
(* once row.left is negative.                                              *)
(*                                                                         *)
(* The code keeps no owner in the row.  row.holder is a history field,     *)
(* read by no action, that says which request's INSERT made the claim.     *)
(***************************************************************************)
EXTENDS Integers

CONSTANTS
  Requests,     \* the HTTP requests carrying the key, retries included
  Hashes,       \* payload hashes
  HashOf,       \* the payload hash of each request
  InFlightTTL,  \* life of a claim, counted from the start of Begin
  WaitTimeout,  \* how long a duplicate waits on its in-flight twin
  ExecTimeout,  \* bound on executing a mutation (GraphQLAITimeout)
  SettleTimeout,\* bound on storing the response or releasing the claim
  KeyTTL,       \* retention of a completed response
  MaxClaims,    \* claim attempts of one Begin (3 in the code)
  MaxFaults,    \* bound on failing store calls in one behaviour
  None

ASSUME ParamsAssumption ==
  /\ InFlightTTL \in Nat /\ WaitTimeout \in Nat /\ ExecTimeout \in Nat
  /\ SettleTimeout \in Nat
  /\ KeyTTL \in Nat /\ MaxClaims \in Nat \ {0} /\ MaxFaults \in Nat
  /\ HashOf \in [Requests -> Hashes]
  /\ None \notin Requests /\ None \notin Hashes

VARIABLES
  row,      \* the row under the key
  pc,       \* where each request is in the handler
  claims,   \* claim rounds each Begin has used
  elapsed,  \* time since each request entered Begin, or in the phase after
  held,     \* requests holding an idemClaim
  answer,   \* what the client was told
  effects,  \* requests whose mutation has committed
  faults    \* failing store calls so far

vars == <<row, pc, claims, elapsed, held, answer, effects, faults>>

States == {"idle", "claim", "inspect", "reclaim", "exec", "complete",
           "abandon", "done", "crashed"}

\* In Begin, and in the part of the handler that runs after a claim.
Beginning(r) == pc[r] \in {"claim", "inspect", "reclaim"}
Settling(r) == pc[r] \in {"complete", "abandon"}
Running(r) == pc[r] = "exec" \/ Settling(r)

NoRow == [status |-> "absent", hash |-> None, resp |-> None,
          holder |-> None, left |-> -1]
Absent == row.status = "absent"
InProgress == row.status = "in_progress"
Completed == row.status = "completed"
Lapsed(t) == t < 0

Goto(r, s) == pc' = [pc EXCEPT ![r] = s]

\* Enter the next phase of the handler; the locals of the last one are gone.
Enter(r, s) ==
  /\ Goto(r, s)
  /\ claims' = [claims EXCEPT ![r] = 0]
  /\ elapsed' = [elapsed EXCEPT ![r] = 0]
Answer(r, how, whose) ==
  /\ answer' = [answer EXCEPT ![r] = [how |-> how, resp |-> whose]]
  /\ Enter(r, "done")

Init ==
  /\ row = NoRow
  /\ pc = [r \in Requests |-> "idle"]
  /\ claims = [r \in Requests |-> 0]
  /\ elapsed = [r \in Requests |-> 0]
  /\ held = {}
  /\ answer = [r \in Requests |-> [how |-> "none", resp |-> None]]
  /\ effects = {}
  /\ faults = 0

-----------------------------------------------------------------------------
(* Begin and the claim upsert                                               *)

Begin(r) ==
  /\ pc[r] = "idle"
  /\ Enter(r, "claim")
  /\ UNCHANGED <<row, held, answer, effects, faults>>

\* Begin computes expires and waitUntil once, before its first claim round:
\* this is what is left of each.
ExpiresLeft(r) == InFlightTTL - elapsed[r]
WaitLeft(r) == WaitTimeout - elapsed[r]

\* What INSERT ... ON CONFLICT DO UPDATE leaves when it takes the row.
ClaimedRow(r) == [status |-> "in_progress", hash |-> HashOf[r], resp |-> None,
                  holder |-> r, left |-> ExpiresLeft(r)]
MutantClaimable == Absent \/ InProgress \/ Lapsed(row.left)
Claimable == Absent \/ Lapsed(row.left)

StartExec(r, holding) ==
  /\ Enter(r, "exec")
  /\ held' = IF holding THEN held \cup {r} ELSE held

Claim(r) ==
  /\ pc[r] = "claim"
  /\ \/ /\ Claimable
        /\ row' = ClaimedRow(r)
        /\ StartExec(r, TRUE)
     \/ /\ ~Claimable
        /\ claims' = [claims EXCEPT ![r] = @ + 1]
        /\ Goto(r, "inspect")
        /\ UNCHANGED <<row, elapsed, held>>
  /\ UNCHANGED <<answer, effects, faults>>

\* A store error in Begin fails open: the mutation runs without a claim.  An
\* upsert whose reply was lost may have taken the row all the same.
BeginFails(r) ==
  /\ Beginning(r)
  /\ faults < MaxFaults
  /\ faults' = faults + 1
  /\ \/ row' = row
     \/ pc[r] = "claim" /\ Claimable /\ row' = ClaimedRow(r)
  /\ StartExec(r, FALSE)
  /\ UNCHANGED <<answer, effects>>

-----------------------------------------------------------------------------
(* resolveConflict / checkConflictRow: one Get and what is decided on it.   *)
(* A live twin that may still be waited on decides nothing: the request     *)
(* stays at "inspect" and polls again.                                      *)

MutantMatchesPayload(r) == TRUE
MatchesPayload(r) == row.hash = HashOf[r]

MutantRetryClaim(r) == FALSE
RetryClaim(r) ==
  /\ Absent
  /\ IF claims[r] < MaxClaims
       THEN Goto(r, "claim") /\ UNCHANGED <<claims, elapsed, answer>>
       ELSE Answer(r, "in_flight", None)

Replay(r) ==
  /\ Completed
  /\ IF MatchesPayload(r)
       THEN Answer(r, "replayed", row.resp)
       ELSE Answer(r, "key_reused", None)

StaleTwin(r) ==
  /\ InProgress /\ Lapsed(row.left)
  /\ Goto(r, "reclaim")
  /\ UNCHANGED <<claims, elapsed, answer>>

WaitedEnough(r) == InProgress /\ ~Lapsed(row.left) /\ Lapsed(WaitLeft(r))
GiveUp(r) == WaitedEnough(r) /\ Answer(r, "in_flight", None)

ResolveConflict(r) ==
  /\ pc[r] = "inspect"
  /\ RetryClaim(r) \/ Replay(r) \/ StaleTwin(r) \/ GiveUp(r)
  /\ UNCHANGED <<row, held, effects, faults>>

\* ReclaimStale deletes by expiry, whoever holds the row by then.
DeleteStale == IF InProgress /\ Lapsed(row.left) THEN NoRow ELSE row
ReclaimStale(r) ==
  /\ pc[r] = "reclaim"
  /\ row' = DeleteStale
  /\ Goto(r, "inspect")
  /\ UNCHANGED <<claims, elapsed, held, answer, effects, faults>>

\* The detached sweep that any Begin may start: DeleteExpired, ReclaimStale.
MutantSweep ==
  /\ InProgress \/ Lapsed(row.left)
  /\ row' = NoRow
  /\ UNCHANGED <<pc, claims, elapsed, held, answer, effects, faults>>
Sweep ==
  /\ row # NoRow /\ Lapsed(row.left)
  /\ row' = NoRow
  /\ UNCHANGED <<pc, claims, elapsed, held, answer, effects, faults>>

-----------------------------------------------------------------------------
(* Execution and settling the claim                                         *)

\* The mutation's transaction commits, at most once per execution.
Commit(r) ==
  /\ pc[r] = "exec" /\ r \notin effects
  /\ effects' = effects \cup {r}
  /\ UNCHANGED <<row, pc, claims, elapsed, held, answer, faults>>

\* A success needs the commit and a client error excludes it; a server-class
\* failure (deadline, cost budget, internal) or a panic may strike on either
\* side of it.  Only the first two are cacheable.
ExecGraphQL(r) ==
  /\ pc[r] = "exec"
  /\ \/ /\ r \in held
        /\ Enter(r, "complete") \/ Enter(r, "abandon")
        /\ answer' = answer
     \/ /\ r \notin held
        /\ Answer(r, "executed", r)
  /\ UNCHANGED <<row, held, effects, faults>>

CompletedRow(r) ==
  IF InProgress
    THEN [row EXCEPT !.status = "completed", !.resp = r, !.left = KeyTTL]
    ELSE row

\* complete: an error from the store, which may hide an UPDATE that was
\* applied, and an oversized response both fall back to abandon.
Complete(r) ==
  /\ pc[r] = "complete"
  /\ \/ /\ row' = CompletedRow(r)
        /\ Answer(r, "executed", r)
        /\ held' = held \ {r}
        /\ faults' = faults
     \/ /\ row' = row
        /\ Goto(r, "abandon")
        /\ UNCHANGED <<claims, elapsed, answer, held, faults>>
     \/ /\ faults < MaxFaults
        /\ faults' = faults + 1
        /\ row' = CompletedRow(r)
        /\ Goto(r, "abandon")
        /\ UNCHANGED <<claims, elapsed, answer, held>>
  /\ effects' = effects

MutantAbandonedRow == NoRow
AbandonedRow == IF InProgress THEN NoRow ELSE row
Abandon(r) ==
  /\ pc[r] = "abandon"
  /\ \/ row' = AbandonedRow /\ faults' = faults
     \/ faults < MaxFaults /\ faults' = faults + 1 /\ row' = row
  /\ held' = held \ {r}
  /\ Answer(r, "executed", r)
  /\ effects' = effects

\* The process dies; the row stays as it is.
Crash(r) ==
  /\ Beginning(r) \/ Running(r)
  /\ Enter(r, "crashed")
  /\ held' = held \ {r}
  /\ UNCHANGED <<row, answer, effects, faults>>

-----------------------------------------------------------------------------
(* The clock.  Executions are cut off by their deadline.  The poll interval *)
(* and the latency of a store call are below the unit of time: a request in *)
(* Begin only lets time pass while its poll finds a twin to wait for.       *)

Deadline(r) == IF Settling(r) THEN SettleTimeout ELSE ExecTimeout
Due(r) ==
  \/ pc[r] \in {"claim", "reclaim"}
  \/ /\ pc[r] = "inspect"
     /\ Absent \/ Completed \/ Lapsed(row.left) \/ WaitedEnough(r)

Tick ==
  /\ \A r \in Requests : Running(r) => elapsed[r] < Deadline(r)
  /\ \A r \in Requests : ~Due(r)
  /\ row' = [row EXCEPT !.left = IF Lapsed(@) THEN @ ELSE @ - 1]
  /\ elapsed' = [r \in Requests |->
       IF Running(r) \/ (Beginning(r) /\ WaitLeft(r) >= -1)
         THEN elapsed[r] + 1
         ELSE elapsed[r]]
  /\ UNCHANGED <<pc, claims, held, answer, effects, faults>>

Step(r) ==
  \/ Claim(r) \/ ResolveConflict(r) \/ ReclaimStale(r)
  \/ ExecGraphQL(r) \/ Complete(r) \/ Abandon(r)

Next ==
  \/ \E r \in Requests :
       Begin(r) \/ Step(r) \/ BeginFails(r) \/ Commit(r) \/ Crash(r)
  \/ Sweep
  \/ Tick

Spec == Init /\ [][Next]_vars

\* A live process runs its handlers, and time passes.
FairSpec ==
  /\ Spec
  /\ \A r \in Requests : WF_vars(Step(r))
  /\ WF_vars(Tick)
-----------------------------------------------------------------------------
(* Properties                                                               *)

Row == [status : {"absent", "in_progress", "completed"},
        hash : Hashes \cup {None}, resp : Requests \cup {None},
        holder : Requests \cup {None}, left : Int]

\* The columns of a row agree with its status.
RowOK(x) ==
  /\ x \in Row
  /\ x.status = "absent" => x = NoRow
  /\ x.status # "absent" => x.hash \in Hashes /\ x.holder \in Requests
  /\ x.status = "completed" <=> x.resp \in Requests

\* Every variable has its type; only a completed row carries a response (the
\* claim upsert resets the column to NULL).
TypeOK ==
  /\ RowOK(row)
  /\ pc \in [Requests -> States]
  /\ claims \in [Requests -> Nat]
  /\ elapsed \in [Requests -> Nat]
  /\ held \subseteq Requests
  /\ answer \in [Requests -> [how : {"none", "executed", "replayed",
                                    "key_reused", "in_flight"},
                             resp : Requests \cup {None}]]
  /\ effects \subseteq Requests
  /\ faults \in Nat

\* What a deployment must configure for a claim to outlive its execution:
\* expiry is counted from the start of Begin, so the time spent waiting on a
\* twin, and the last poll, come off the lease.
LeaseCoversExecution ==
  /\ InFlightTTL >= WaitTimeout + 1 + ExecTimeout + SettleTimeout
  /\ KeyTTL >= SettleTimeout

\* A request that holds a claim still owns the row, in progress and with its
\* own payload hash, until it settles: nobody else executes under the key and
\* its Complete or Abandon can hit no other request's claim, although neither
\* statement names an owner.
ClaimExclusive ==
  \A r \in held :
    /\ Running(r)
    /\ row.holder = r /\ row.hash = HashOf[r]
    /\ InProgress \/ (Completed /\ row.resp = r /\ pc[r] = "abandon")

\* config.go's rule (ValidateServer): a claim is not reclaimable while the
\* mutation holding it could still be running.
ClaimNotReclaimable ==
  \A r \in held : pc[r] = "exec" => row.holder = r /\ InProgress /\ ~Lapsed(row.left)

\* A replayed response is the response of an execution of the same payload,
\* by a request whose handler got as far as storing it.
ReplayFaithful ==
  \A r \in Requests : answer[r].how = "replayed" =>
    LET q == answer[r].resp IN
      /\ q \in Requests \ {r}
      /\ HashOf[q] = HashOf[r]
      /\ pc[q] \in {"abandon", "done", "crashed"}

\* Once a response is stored it answers every retry until its retention ends:
\* no sweep, claim, late Complete or Abandon of another request removes it or
\* replaces it early, and it is kept for the whole KeyTTL.
StoredResponseKept ==
  [][ /\ Completed /\ ~Lapsed(row.left) =>
           row'.status = "completed" /\ row'.resp = row.resp
      /\ InProgress /\ row'.status = "completed" => row'.left = KeyTTL ]_row

\* While a response is retained, or another request holds the claim, a request
\* that went through the store without an error never runs the mutation.
NoSecondExecution ==
  [][ \A r \in held : r \in effects' \ effects =>
        /\ ~(Completed /\ ~Lapsed(row.left))
        /\ \A q \in held \ {r} : ~Running(q) ]_effects

\* A duplicate waits on its twin for WaitTimeout and one poll at most.
BoundedWait == \A r \in Requests : Beginning(r) => WaitLeft(r) >= -1

\* Every request that enters Begin gets an answer, unless its process dies.
Answered ==
  \A r \in Requests : Beginning(r) ~> pc[r] \in {"done", "crashed"}
=============================================================================
