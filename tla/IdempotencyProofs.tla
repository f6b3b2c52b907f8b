-------------------------- MODULE IdempotencyProofs --------------------------
(***************************************************************************)
(* Proofs about Idempotency, for every set of requests and every setting   *)
(* of the timeouts.  A claim stays exclusive because of the clock alone:   *)
(* what is left of expires_at always covers what its holder may still run. *)
(***************************************************************************)
EXTENDS Idempotency, TLAPS

\* The longest the handler of r can still run.
RunLeft(r) ==
  IF Settling(r) THEN SettleTimeout - elapsed[r]
                 ELSE ExecTimeout + SettleTimeout - elapsed[r]

PromptBegin == \A r \in Requests : Beginning(r) => elapsed[r] <= WaitTimeout + 1
BoundedRun == \A r \in Requests : Running(r) => elapsed[r] <= Deadline(r)
SettlersHold == \A r \in Requests : Settling(r) => r \in held
LeaseOutlivesRun == \A r \in held : row.left >= RunLeft(r)

Phases == PromptBegin /\ BoundedRun /\ SettlersHold

\* ClaimExclusive strengthened by the clock facts it follows from.
IInv == TypeOK /\ Phases /\ ClaimExclusive /\ LeaseOutlivesRun

-----------------------------------------------------------------------------
(* Type correctness                                                         *)

USE DEF Absent, InProgress, Completed, Lapsed, Beginning, Running, Settling

\* The rows the store statements leave behind are well formed.
LEMMA RowsOK ==
  ASSUME TypeOK, NEW r \in Requests
  PROVE  /\ RowOK(ClaimedRow(r))
         /\ RowOK(CompletedRow(r))
         /\ RowOK(AbandonedRow)
         /\ RowOK(DeleteStale)
         /\ RowOK(NoRow)
<1> USE ParamsAssumption DEF TypeOK, RowOK, Row, NoRow
<1>1. RowOK(ClaimedRow(r))
  BY DEF ClaimedRow, ExpiresLeft
<1>2. RowOK(CompletedRow(r))
  <2>1. CASE InProgress
    <3>1. CompletedRow(r) = [status |-> "completed", hash |-> row.hash,
                             resp |-> r, holder |-> row.holder, left |-> KeyTTL]
      BY <2>1 DEF CompletedRow
    <3>2. QED
      BY <2>1, <3>1
  <2>2. CASE ~InProgress
    BY <2>2 DEF CompletedRow
  <2>3. QED
    BY <2>1, <2>2
<1>3. RowOK(AbandonedRow) /\ RowOK(DeleteStale) /\ RowOK(NoRow)
  BY DEF AbandonedRow, DeleteStale
<1>4. QED
  BY <1>1, <1>2, <1>3

LEMMA InitTypeOK == Init => TypeOK
BY ParamsAssumption DEF Init, TypeOK, RowOK, Row, NoRow, States

LEMMA NextTypeOK == TypeOK /\ [Next]_vars => TypeOK'
<1> SUFFICES ASSUME TypeOK, [Next]_vars
             PROVE  TypeOK'
  OBVIOUS
<1> USE ParamsAssumption, RowsOK DEF TypeOK, States, Enter, Goto, Answer
<1>1. ASSUME NEW r \in Requests, Begin(r)
      PROVE  TypeOK'
  BY <1>1 DEF Begin
<1>2. ASSUME NEW r \in Requests, Claim(r)
      PROVE  TypeOK'
  BY <1>2 DEF Claim, StartExec
<1>3. ASSUME NEW r \in Requests, BeginFails(r)
      PROVE  TypeOK'
  BY <1>3 DEF BeginFails, StartExec
<1>4. ASSUME NEW r \in Requests, ResolveConflict(r)
      PROVE  TypeOK'
  <2> USE <1>4 DEF ResolveConflict
  <2>1. CASE RetryClaim(r)
    <3>1. CASE claims[r] < MaxClaims
      BY <2>1, <3>1 DEF RetryClaim
    <3>2. CASE ~(claims[r] < MaxClaims)
      BY <2>1, <3>2 DEF RetryClaim
    <3>3. QED
      BY <3>1, <3>2
  <2>2. CASE Replay(r)
    BY <2>2 DEF Replay, RowOK, Row
  <2>3. CASE StaleTwin(r) \/ GiveUp(r)
    BY <2>3 DEF StaleTwin, GiveUp
  <2>4. QED
    BY <2>1, <2>2, <2>3
<1>5. ASSUME NEW r \in Requests, ReclaimStale(r)
      PROVE  TypeOK'
  BY <1>5 DEF ReclaimStale
<1>6. ASSUME NEW r \in Requests, Commit(r)
      PROVE  TypeOK'
  BY <1>6 DEF Commit
<1>7. ASSUME NEW r \in Requests, ExecGraphQL(r)
      PROVE  TypeOK'
  BY <1>7 DEF ExecGraphQL
<1>8. ASSUME NEW r \in Requests, Complete(r)
      PROVE  TypeOK'
  BY <1>8 DEF Complete
<1>9. ASSUME NEW r \in Requests, Abandon(r)
      PROVE  TypeOK'
  BY <1>9 DEF Abandon
<1>10. ASSUME NEW r \in Requests, Crash(r)
       PROVE  TypeOK'
  BY <1>10 DEF Crash
<1>11. CASE Sweep
  BY <1>11 DEF Sweep, RowOK, Row, NoRow
<1>12. CASE Tick
  <2>1. RowOK(row')
    BY <1>12 DEF Tick, RowOK, Row, NoRow
  <2>2. QED
    BY <1>12, <2>1 DEF Tick, WaitLeft
<1>13. CASE UNCHANGED vars
  BY <1>13 DEF vars, RowOK
<1>14. QED
  BY <1>1, <1>2, <1>3, <1>4, <1>5, <1>6, <1>7, <1>8, <1>9, <1>10, <1>11,
     <1>12, <1>13 DEF Next, Step

\* Every reachable state is well typed, and only completed rows carry a
\* response (the columns the claim upsert and Complete write).
THEOREM TypeCorrect == Spec => []TypeOK
BY InitTypeOK, NextTypeOK, PTL DEF Spec

-----------------------------------------------------------------------------
(* The phases of the handler                                                *)

\* In Begin, a request that has waited long enough never lets time pass.
LEMMA DueOnceWaited ==
  ASSUME TypeOK, NEW r \in Requests, Beginning(r), Lapsed(WaitLeft(r))
  PROVE  Due(r)
BY DEF TypeOK, RowOK, Row, Due, WaitedEnough

\* A step of r within Begin, into another phase, or between two ways to settle.
PhaseStep(r) ==
  /\ \A q \in Requests \ {r} : /\ pc'[q] = pc[q] /\ elapsed'[q] = elapsed[q]
                               /\ q \in held' <=> q \in held
  /\ \/ elapsed'[r] = 0 /\ (Settling(r)' => r \in held')
     \/ Beginning(r) /\ Beginning(r)' /\ elapsed'[r] = elapsed[r]
     \/ Settling(r) /\ Settling(r)' /\ elapsed'[r] = elapsed[r] /\ r \in held'

LEMMA RequestsPhase ==
  ASSUME TypeOK, Phases, NEW r \in Requests, Begin(r) \/ Step(r) \/ BeginFails(r) \/ Crash(r)
  PROVE  PhaseStep(r)
<1> USE DEF TypeOK, Enter, Goto, Answer, PhaseStep
<1>1. CASE Begin(r) \/ BeginFails(r) \/ Crash(r)
  BY <1>1 DEF Begin, BeginFails, Crash, StartExec
<1>2. CASE Claim(r)
  BY <1>2 DEF Claim, StartExec
<1>3. CASE ResolveConflict(r)
  <2>1. held' = held
    BY <1>3 DEF ResolveConflict
  <2>2. \/ pc' = [pc EXCEPT ![r] = "done"] /\ elapsed' = [elapsed EXCEPT ![r] = 0]
        \/ /\ pc[r] = "inspect" /\ elapsed' = elapsed
           /\ \E s \in {"claim", "reclaim"} : pc' = [pc EXCEPT ![r] = s]
    BY <1>3 DEF ResolveConflict, RetryClaim, Replay, StaleTwin, GiveUp
  <2>3. QED
    BY <2>1, <2>2
<1>4. CASE ReclaimStale(r)
  BY <1>4 DEF ReclaimStale
<1>5. CASE ExecGraphQL(r)
  <2>1. held' = held
    BY <1>5 DEF ExecGraphQL
  <2>2. \E s \in {"complete", "abandon", "done"} :
          /\ pc' = [pc EXCEPT ![r] = s] /\ elapsed' = [elapsed EXCEPT ![r] = 0]
          /\ s = "done" \/ r \in held
    BY <1>5 DEF ExecGraphQL
  <2>3. QED
    BY <2>1, <2>2
<1>6. CASE Complete(r)
  <2>1. pc[r] = "complete" /\ r \in held
    BY <1>6 DEF Complete, Phases, SettlersHold
  <2>2. \/ /\ pc' = [pc EXCEPT ![r] = "done"] /\ elapsed' = [elapsed EXCEPT ![r] = 0]
           /\ held' = held \ {r}
        \/ pc' = [pc EXCEPT ![r] = "abandon"] /\ elapsed' = elapsed /\ held' = held
    BY <1>6 DEF Complete
  <2>3. QED
    BY <2>1, <2>2
<1>7. CASE Abandon(r)
  BY <1>7 DEF Abandon
<1>8. QED
  BY <1>1, <1>2, <1>3, <1>4, <1>5, <1>6, <1>7 DEF Step

LEMMA NextPhases == TypeOK /\ TypeOK' /\ Phases /\ [Next]_vars => Phases'
<1> SUFFICES ASSUME TypeOK, TypeOK', Phases, [Next]_vars
             PROVE  Phases'
  OBVIOUS
<1> USE ParamsAssumption DEF Phases, PromptBegin, BoundedRun, SettlersHold, Deadline
<1>1. ASSUME NEW r \in Requests, PhaseStep(r)
      PROVE  Phases'
  <2>1. ASSUME NEW q \in Requests, q # r
        PROVE  /\ Beginning(q)' => elapsed'[q] <= WaitTimeout + 1
               /\ Running(q)' => elapsed'[q] <= Deadline(q)'
               /\ Settling(q)' => q \in held'
    BY <1>1, <2>1 DEF PhaseStep
  <2>2. /\ Beginning(r)' => elapsed'[r] <= WaitTimeout + 1
        /\ Running(r)' => elapsed'[r] <= Deadline(r)'
        /\ Settling(r)' => r \in held'
    BY <1>1 DEF PhaseStep
  <2>3. QED
    BY <2>1, <2>2
<1>2. CASE Tick
  <2>1. pc' = pc /\ held' = held
    BY <1>2 DEF Tick
  <2>2. ASSUME NEW r \in Requests
        PROVE  /\ Beginning(r)' => elapsed'[r] <= WaitTimeout + 1
               /\ Running(r)' => elapsed'[r] <= Deadline(r)'
    <3>1. elapsed'[r] = IF Running(r) \/ (Beginning(r) /\ WaitLeft(r) >= -1)
                          THEN elapsed[r] + 1 ELSE elapsed[r]
      BY <1>2 DEF Tick
    <3>2. elapsed[r] \in Nat
      BY DEF TypeOK
    <3>3. Running(r) => elapsed[r] < Deadline(r)
      BY <1>2 DEF Tick
    <3>4. Beginning(r) => elapsed[r] <= WaitTimeout
      BY <1>2, <3>2, DueOnceWaited DEF Tick, WaitLeft
    <3>5. Beginning(r) => elapsed'[r] <= WaitTimeout + 1
      BY <3>1, <3>2, <3>4
    <3>6. Running(r) => elapsed'[r] <= Deadline(r)
      BY <3>1, <3>2, <3>3
    <3>7. QED
      BY <2>1, <3>5, <3>6
  <2>3. QED
    BY <2>1, <2>2
<1>3. CASE UNCHANGED <<pc, elapsed, held>>
  BY <1>3
<1>4. QED
  BY <1>1, <1>2, <1>3, RequestsPhase DEF Next, Commit, Sweep, vars

\* A duplicate is held for WaitTimeout and one poll at most.
THEOREM WaitIsBounded == Spec => []BoundedWait
<1>1. Init => Phases
  BY ParamsAssumption DEF Init, Phases, PromptBegin, BoundedRun, SettlersHold
<1>2. TypeOK /\ Phases => BoundedWait
  BY ParamsAssumption DEF TypeOK, Phases, PromptBegin, BoundedWait, WaitLeft
<1>3. QED
  BY <1>1, <1>2, InitTypeOK, NextTypeOK, NextPhases, PTL DEF Spec

-----------------------------------------------------------------------------
(* Claims are exclusive                                                     *)

LEMMA InitIInv == Init => IInv
<1> SUFFICES ASSUME Init
             PROVE  IInv
  OBVIOUS
<1>1. TypeOK
  BY InitTypeOK
<1>2. QED
  BY <1>1, ParamsAssumption
     DEF Init, IInv, Phases, PromptBegin, BoundedRun, SettlersHold, ClaimExclusive,
         LeaseOutlivesRun

LEMMA NextLease ==
  ASSUME LeaseCoversExecution, IInv, TypeOK', Phases', [Next]_vars
  PROVE  ClaimExclusive' /\ LeaseOutlivesRun'
<1> USE ParamsAssumption
    DEF LeaseCoversExecution, IInv, Phases, PromptBegin, BoundedRun, SettlersHold,
        ClaimExclusive, LeaseOutlivesRun, RunLeft, Deadline, Enter, Goto, Answer, TypeOK
<1> DEFINE Claims == ClaimExclusive /\ LeaseOutlivesRun
<1>1. ASSUME NEW r \in Requests, Begin(r)
      PROVE  Claims'
  BY <1>1 DEF Begin
<1>2. ASSUME NEW r \in Requests, Claim(r)
      PROVE  Claims'
  <2> USE <1>2 DEF Claim, Claimable, ClaimedRow, StartExec, ExpiresLeft, RowOK, Row
  <2>1. ClaimExclusive'
    OBVIOUS
  <2>2. LeaseOutlivesRun'
    OBVIOUS
  <2>3. QED
    BY <2>1, <2>2
<1>3. ASSUME NEW r \in Requests, BeginFails(r)
      PROVE  Claims'
  BY <1>3 DEF BeginFails, Claimable, ClaimedRow, StartExec, ExpiresLeft, RowOK, Row
<1>4. ASSUME NEW r \in Requests, ResolveConflict(r)
      PROVE  Claims'
  BY <1>4 DEF ResolveConflict, RetryClaim, Replay, StaleTwin, GiveUp
<1>5. ASSUME NEW r \in Requests, ReclaimStale(r)
      PROVE  Claims'
  BY <1>5 DEF ReclaimStale, DeleteStale, RowOK, Row
<1>6. ASSUME NEW r \in Requests, Commit(r)
      PROVE  Claims'
  BY <1>6 DEF Commit
<1>7. ASSUME NEW r \in Requests, ExecGraphQL(r)
      PROVE  Claims'
  <2>1. row' = row /\ held' = held
    BY <1>7 DEF ExecGraphQL
  <2>2. PICK s \in {"complete", "abandon", "done"} :
          /\ pc' = [pc EXCEPT ![r] = s] /\ elapsed' = [elapsed EXCEPT ![r] = 0]
          /\ pc[r] = "exec" /\ (s = "done" => r \notin held)
    BY <1>7 DEF ExecGraphQL
  <2>3. ClaimExclusive'
    BY <2>1, <2>2
  <2>4. LeaseOutlivesRun'
    BY <2>1, <2>2 DEF RowOK, Row
  <2>5. QED
    BY <2>3, <2>4
<1>8. ASSUME NEW r \in Requests, Complete(r)
      PROVE  Claims'
  <2> DEFINE done == [row EXCEPT !.status = "completed", !.resp = r, !.left = KeyTTL]
  <2>1. r \in held /\ InProgress /\ row.holder = r /\ row.hash = HashOf[r]
    BY <1>8 DEF Complete
  <2>2. CompletedRow(r) = done
    BY <2>1 DEF CompletedRow
  <2>3. /\ done.status = "completed" /\ done.resp = r /\ done.holder = r
        /\ done.hash = HashOf[r] /\ done.left = KeyTTL
    BY <2>1 DEF RowOK, Row
  <2> HIDE DEF done
  <2>4. \A q \in held : q = r
    BY <2>1
  <2>5. CASE row' = done /\ pc'[r] = "done"
    <3>1. held' = {}
      BY <1>8, <2>4, <2>5 DEF Complete
    <3>2. QED
      BY <3>1
  <2>6. CASE pc'[r] = "abandon" /\ held' = held /\ row' \in {row, done}
    <3>1. ClaimExclusive'
      BY <2>1, <2>3, <2>4, <2>6
    <3>2. elapsed' = elapsed /\ pc[r] = "complete"
      BY <1>8, <2>6 DEF Complete
    <3>3. LeaseOutlivesRun'
      BY <2>1, <2>3, <2>4, <2>6, <3>2
    <3>4. QED
      BY <3>1, <3>3
  <2>7. QED
    BY <1>8, <2>2, <2>5, <2>6 DEF Complete
<1>9. ASSUME NEW r \in Requests, Abandon(r)
      PROVE  Claims'
  <2>1. \A q \in held : q = r
    BY <1>9 DEF Abandon
  <2>2. held' = {}
    BY <1>9, <2>1 DEF Abandon
  <2>3. QED
    BY <2>2
<1>10. ASSUME NEW r \in Requests, Crash(r)
       PROVE  Claims'
  BY <1>10 DEF Crash
<1>11. CASE Sweep
  BY <1>11 DEF Sweep, RowOK, Row
<1>12. CASE Tick
  BY <1>12 DEF Tick, WaitLeft, RowOK, Row
<1>13. CASE UNCHANGED vars
  BY <1>13 DEF vars
<1>14. QED
  BY <1>1, <1>2, <1>3, <1>4, <1>5, <1>6, <1>7, <1>8, <1>9, <1>10, <1>11,
     <1>12, <1>13 DEF Next, Step

LEMMA NextIInv ==
  ASSUME LeaseCoversExecution
  PROVE  IInv /\ [Next]_vars => IInv'
BY NextTypeOK, NextPhases, NextLease DEF IInv

\* A request that holds a claim owns the row until it settles, although the
\* row names no owner and neither Complete nor Abandon checks one, provided
\* InFlightTTL covers waiting, executing and settling.
THEOREM ExclusiveClaims ==
  ASSUME LeaseCoversExecution
  PROVE  Spec => []ClaimExclusive
<1>1. IInv => ClaimExclusive
  BY DEF IInv
<1>2. QED
  BY InitIInv, NextIInv, <1>1, PTL DEF Spec

\* The rule ValidateServer states: no claim is reclaimable while the mutation
\* holding it could still be running.
THEOREM LiveClaimsKept ==
  ASSUME LeaseCoversExecution
  PROVE  Spec => []ClaimNotReclaimable
<1>1. IInv => ClaimNotReclaimable
  BY ParamsAssumption
     DEF IInv, Phases, TypeOK, RowOK, Row, BoundedRun, ClaimExclusive, LeaseOutlivesRun,
         RunLeft, Deadline, LeaseCoversExecution, ClaimNotReclaimable
<1>2. QED
  BY InitIInv, NextIInv, <1>1, PTL DEF Spec

\* A mutation never commits under a claim while a stored response is retained
\* for the key or another claim holder is running.
THEOREM SingleExecution ==
  ASSUME LeaseCoversExecution
  PROVE  Spec => NoSecondExecution
<1>1. IInv /\ [Next]_vars =>
        [\A r \in held : r \in effects' \ effects =>
           /\ ~(Completed /\ ~Lapsed(row.left))
           /\ \A q \in held \ {r} : ~Running(q)]_effects
  <2> SUFFICES ASSUME IInv, [Next]_vars, NEW r \in held,
                      r \in effects', r \notin effects
               PROVE  /\ ~(Completed /\ ~Lapsed(row.left))
                      /\ \A q \in held \ {r} : ~Running(q)
    OBVIOUS
  <2>1. pc[r] = "exec"
    BY DEF Next, Step, Begin, Claim, BeginFails, ResolveConflict, ReclaimStale,
           Commit, ExecGraphQL, Complete, Abandon, Crash, Sweep, Tick, vars
  <2>2. QED
    BY <2>1 DEF IInv, ClaimExclusive
<1>2. QED
  BY InitIInv, NextIInv, <1>1, PTL DEF Spec, NoSecondExecution

-----------------------------------------------------------------------------
(* Responses                                                                *)

\* A handler that is past storing its response stays past it.
Stored(q) == pc[q] \in {"abandon", "done", "crashed"}

\* What is replayed: the row's response is of the row's payload, and the
\* request that stored it is past doing so.
ResponseFaithful == Completed => HashOf[row.resp] = row.hash /\ Stored(row.resp)
Faithful == ResponseFaithful /\ ReplayFaithful

LEMMA StoredForGood ==
  ASSUME TypeOK, [Next]_vars, NEW q \in Requests, Stored(q)
  PROVE  Stored(q)'
<1> USE DEF TypeOK, Stored, Enter, Goto, Answer
<1>1. ASSUME NEW r \in Requests, Begin(r) \/ Claim(r) \/ BeginFails(r) \/ ReclaimStale(r)
                                 \/ ExecGraphQL(r) \/ Commit(r) \/ Crash(r)
      PROVE  Stored(q)'
  BY <1>1 DEF Begin, Claim, BeginFails, ReclaimStale, ExecGraphQL, Commit, Crash, StartExec
<1>2. ASSUME NEW r \in Requests, ResolveConflict(r)
      PROVE  Stored(q)'
  BY <1>2 DEF ResolveConflict, RetryClaim, Replay, StaleTwin, GiveUp
<1>3. ASSUME NEW r \in Requests, Complete(r) \/ Abandon(r)
      PROVE  Stored(q)'
  BY <1>3 DEF Complete, Abandon
<1>4. CASE Sweep \/ Tick \/ UNCHANGED vars
  BY <1>4 DEF Sweep, Tick, vars
<1>5. QED
  BY <1>1, <1>2, <1>3, <1>4 DEF Next, Step

\* Where a response comes from: Complete alone stores one, of its own payload.
LEMMA NextResponse ==
  ASSUME IInv, ResponseFaithful, [Next]_vars
  PROVE  ResponseFaithful'
<1> USE ParamsAssumption DEF IInv, TypeOK, RowOK, Row
<1>1. row'.status = "completed" /\ row.status = "completed" /\ row'.resp = row.resp
        /\ row'.hash = row.hash => ResponseFaithful'
  BY StoredForGood DEF ResponseFaithful
<1>2. CASE row' = row
  BY <1>1, <1>2 DEF ResponseFaithful
<1>3. ASSUME NEW r \in Requests, Claim(r) \/ BeginFails(r) \/ ReclaimStale(r) \/ Abandon(r),
             row' # row
      PROVE  ResponseFaithful'
  <2>1. row' = ClaimedRow(r) \/ row' = NoRow
    BY <1>3 DEF Claim, BeginFails, ReclaimStale, Abandon, DeleteStale, AbandonedRow
  <2>2. row'.status # "completed"
    BY <2>1 DEF ClaimedRow, NoRow
  <2>3. QED
    BY <2>2 DEF ResponseFaithful
<1>4. ASSUME NEW r \in Requests, Complete(r), row' # row
      PROVE  ResponseFaithful'
  <2>1. r \in held /\ InProgress /\ row.hash = HashOf[r]
    BY <1>4 DEF Complete, CompletedRow, Phases, SettlersHold, ClaimExclusive
  <2>2. row' = [row EXCEPT !.status = "completed", !.resp = r, !.left = KeyTTL]
    BY <1>4, <2>1 DEF Complete, CompletedRow
  <2>3. row'.resp = r /\ row'.hash = HashOf[r]
    BY <2>1, <2>2
  <2>4. pc' = [pc EXCEPT ![r] = "done"] \/ pc' = [pc EXCEPT ![r] = "abandon"]
    BY <1>4 DEF Complete, Answer, Enter, Goto
  <2>5. QED
    BY <2>3, <2>4 DEF ResponseFaithful, Stored
<1>5. CASE Sweep
  BY <1>5 DEF Sweep, NoRow, ResponseFaithful
<1>6. CASE Tick
  <2>1. /\ row'.status = row.status /\ row'.resp = row.resp
        /\ row'.hash = row.hash
    BY <1>6 DEF Tick
  <2>2. QED
    BY <1>1, <2>1 DEF ResponseFaithful
<1>7. QED
  BY <1>2, <1>3, <1>4, <1>5, <1>6
     DEF Next, Step, Begin, ResolveConflict, Commit, ExecGraphQL, Crash, vars

LEMMA NextReplay ==
  ASSUME IInv, TypeOK', Faithful, [Next]_vars
  PROVE  ReplayFaithful'
<1> USE ParamsAssumption DEF IInv, TypeOK, Faithful
<1> SUFFICES ASSUME NEW r \in Requests, answer'[r].how = "replayed"
             PROVE  \E q \in Requests \ {r} :
                      answer'[r].resp = q /\ HashOf[q] = HashOf[r] /\ Stored(q)'
  BY DEF ReplayFaithful, Stored
<1>1. CASE answer'[r] = answer[r]
  <2>1. PICK q \in Requests \ {r} :
          answer[r].resp = q /\ HashOf[q] = HashOf[r] /\ Stored(q)
    BY <1>1 DEF ReplayFaithful, Stored
  <2>2. QED
    BY <1>1, <2>1, StoredForGood
<1>2. CASE answer'[r] # answer[r]
  <2>1. /\ pc[r] = "inspect" /\ Replay(r) /\ MatchesPayload(r)
        /\ answer'[r].resp = row.resp
    <3>1. ASSUME NEW s \in Requests, ResolveConflict(s)
          PROVE  /\ pc[r] = "inspect" /\ Replay(r) /\ MatchesPayload(r)
                 /\ answer'[r].resp = row.resp
      BY <3>1, <1>2 DEF ResolveConflict, RetryClaim, Replay, StaleTwin, GiveUp, Answer
    <3>2. ASSUME NEW s \in Requests, ExecGraphQL(s) \/ Complete(s) \/ Abandon(s)
          PROVE  FALSE
      BY <3>2, <1>2 DEF ExecGraphQL, Complete, Abandon, Answer
    <3>3. QED
      BY <3>1, <3>2, <1>2 DEF Next, Step, Begin, Claim, BeginFails, ReclaimStale, Commit, Crash,
                              Sweep, Tick, vars
  <2>2. row.resp \in Requests /\ HashOf[row.resp] = HashOf[r] /\ Stored(row.resp)
    BY <2>1 DEF Replay, MatchesPayload, ResponseFaithful, RowOK
  <2>3. row.resp # r
    BY <2>1, <2>2 DEF Stored
  <2>4. QED
    BY <2>1, <2>2, <2>3, StoredForGood
<1>3. QED
  BY <1>1, <1>2

\* A replay answers with the response of an execution of the same payload by
\* another request, which had stored it.
THEOREM ReplaysAreFaithful ==
  ASSUME LeaseCoversExecution
  PROVE  Spec => []ReplayFaithful
<1>1. Init => Faithful
  BY DEF Init, Faithful, ResponseFaithful, ReplayFaithful, NoRow
<1>2. IInv /\ Faithful /\ [Next]_vars => Faithful'
  BY NextTypeOK, NextResponse, NextReplay DEF IInv, Faithful
<1>3. Faithful => ReplayFaithful
  BY DEF Faithful
<1>4. QED
  BY InitIInv, NextIInv, <1>1, <1>2, <1>3, PTL DEF Spec

\* A stored response is neither removed nor replaced while it is retained, and
\* it is stored for the whole of KeyTTL, whatever the timeouts are.
THEOREM ResponsesAreKept == Spec => StoredResponseKept
<1> DEFINE Kept == /\ Completed /\ ~Lapsed(row.left) =>
                        row'.status = "completed" /\ row'.resp = row.resp
                   /\ InProgress /\ row'.status = "completed" => row'.left = KeyTTL
<1>1. TypeOK /\ [Next]_vars => [Kept]_row
  <2> SUFFICES ASSUME TypeOK, [Next]_vars, row' # row
               PROVE  Kept
    OBVIOUS
  <2> USE DEF TypeOK, RowOK, Row
  <2>1. ASSUME NEW r \in Requests, Claim(r) \/ BeginFails(r)
        PROVE  Kept
    <3>1. Claimable /\ row' = ClaimedRow(r)
      BY <2>1 DEF Claim, BeginFails
    <3>2. row'.status = "in_progress"
      BY <3>1 DEF ClaimedRow
    <3>3. QED
      BY <3>1, <3>2 DEF Claimable
  <2>2. ASSUME NEW r \in Requests, ReclaimStale(r) \/ Abandon(r)
        PROVE  Kept
    BY <2>2 DEF ReclaimStale, DeleteStale, Abandon, AbandonedRow, NoRow
  <2>3. ASSUME NEW r \in Requests, Complete(r)
        PROVE  Kept
    <3>1. InProgress /\ row' = [row EXCEPT !.status = "completed", !.resp = r, !.left = KeyTTL]
      BY <2>3 DEF Complete, CompletedRow
    <3>2. QED
      BY <3>1
  <2>4. CASE Sweep \/ Tick
    BY <2>4 DEF Sweep, Tick, NoRow
  <2>5. QED
    BY <2>1, <2>2, <2>3, <2>4
       DEF Next, Step, Begin, ResolveConflict, Commit, ExecGraphQL, Crash, vars
<1>2. QED
  BY InitTypeOK, NextTypeOK, <1>1, PTL DEF Spec, StoredResponseKept
=============================================================================
