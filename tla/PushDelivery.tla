---------------------------- MODULE PushDelivery -----------------------------
(***************************************************************************)
(* The push outbox (internal/notifier/delivery.go): one row of             *)
(* household.push_delivery and the dispatchers that drain it, each of them *)
(* the delivery worker of one server process.  A dispatcher lists the due  *)
(* rows, works through that snapshot one row at a time, and per row        *)
(* claims, looks up the device tokens, sends, and settles the outcome.     *)
(*                                                                         *)
(* Time is in ticks.  A send ends within SendTimeout; the snapshot may be  *)
(* arbitrarily old when its row is reached, because the rows before it     *)
(* may each take a send timeout.  The other steps are prompt.              *)
(***************************************************************************)
EXTENDS Integers, FiniteSets

CONSTANTS
  Dispatchers,
  Tokens,       \* the recipient's device tokens
  MaxAttempts, BaseBackoff, SendTimeout,
  StaleAfter,   \* the age at which a 'sending' row is rescued (5 minutes)
  MaxFaults,    \* bound on crashes, lost answers and refused writes
  MaxRegisters  \* bound on token registrations

ASSUME ParamsAssumption ==
  /\ MaxAttempts \in Nat \ {0} /\ BaseBackoff \in Nat \ {0}
  /\ SendTimeout \in Nat \ {0} /\ StaleAfter \in Nat
  /\ MaxFaults \in Nat /\ MaxRegisters \in Nat

\* 30 seconds (no setting changes it) against 5 minutes.
ASSUME LeaseAssumption == SendTimeout < StaleAfter

VARIABLES
  row,       \* the push_delivery row: status, attempts, `next` ticks until
             \* next_attempt_at, `age` ticks since updated_at
  tokens,    \* identity.device_token rows of the recipient
  pc,        \* where each dispatcher is with this row
  seen,      \* attempts in each dispatcher's snapshot of the row
  busy,      \* ticks its send has taken
  results,   \* what SendEach returned
  delivered, \* multicasts that reached at least one device (history)
  registers, faults

vars == <<row, tokens, pc, seen, busy, results, delivered, registers, faults>>
device == <<tokens, registers>>

Outcomes == {"ok", "gone", "error"}
NoResults == [t \in {} |-> "ok"]
Holding(d) == pc[d] \in {"claimed", "sending", "settling"}

Init ==
  /\ row = [status |-> "pending", attempts |-> 0, next |-> 0, age |-> 0]
  /\ tokens \in SUBSET Tokens
  /\ pc = [d \in Dispatchers |-> "idle"]
  /\ seen = [d \in Dispatchers |-> 0]
  /\ busy = [d \in Dispatchers |-> 0]
  /\ results = [d \in Dispatchers |-> NoResults]
  /\ delivered = 0
  /\ registers = 0
  /\ faults = 0

-----------------------------------------------------------------------------
(* The queries                                                             *)

\* A claim five minutes old.  (Mutants: any claim; no claim.)
MutantStale == row.status = "sending"
MutantNeverStale == FALSE
Stale == row.status = "sending" /\ row.age > StaleAfter

MutantDue == row.status = "pending" \/ Stale
Due == (row.status = "pending" /\ row.next = 0) \/ Stale

\* MarkPushDeliverySending does not look at next_attempt_at.
MutantClaimable == TRUE
Claimable == row.status = "pending" \/ Stale

Write(status, attempts, next) ==
  row' = [status |-> status, attempts |-> attempts, next |-> next, age |-> 0]
MarkSending == Write("sending", row.attempts, row.next)
MarkSent == Write("sent", row.attempts, row.next)
MarkFailed == Write("failed", row.attempts + 1, row.next)
MarkRetry(next) == Write("pending", row.attempts + 1, next)

\* Exponential, from the snapshot's count.
Backoff(n) == BaseBackoff * 2^n

LastAttempt(d) == seen[d] + 1 >= MaxAttempts

RetryOrFail(d) ==
  IF LastAttempt(d) THEN MarkFailed ELSE MarkRetry(Backoff(seen[d]))

-----------------------------------------------------------------------------
(* A dispatcher                                                            *)

Goto(d, to) == pc' = [pc EXCEPT ![d] = to]
Fault == faults < MaxFaults /\ faults' = faults + 1

\* drain: the snapshot.
Poll(d) ==
  /\ pc[d] = "idle" /\ Due
  /\ seen' = [seen EXCEPT ![d] = row.attempts]
  /\ Goto(d, "listed")
  /\ UNCHANGED <<row, device, busy, results, delivered, faults>>

\* deliver: the claim, lost to another dispatcher or refused by the store.
Claim(d) ==
  /\ pc[d] = "listed"
  /\ \/ Claimable /\ MarkSending /\ Goto(d, "claimed") /\ UNCHANGED faults
     \/ ~Claimable /\ Goto(d, "idle") /\ UNCHANGED <<row, faults>>
     \/ Fault /\ Goto(d, "idle") /\ UNCHANGED row
  /\ UNCHANGED <<device, seen, busy, results, delivered>>

\* Delivery to no device is done; otherwise the send starts.
LookupTokens(d) ==
  /\ pc[d] = "claimed"
  /\ \/ tokens = {} /\ MarkSent /\ Goto(d, "idle") /\ UNCHANGED <<busy, results>>
     \/ /\ tokens # {} /\ Goto(d, "sending")
        /\ busy' = [busy EXCEPT ![d] = 0]
        /\ results' = [results EXCEPT ![d] = [t \in tokens |-> "error"]]
        /\ UNCHANGED row
  /\ UNCHANGED <<device, seen, delivered, faults>>

LookupFails(d) ==
  /\ pc[d] = "claimed" /\ Fault
  /\ RetryOrFail(d) /\ Goto(d, "idle")
  /\ UNCHANGED <<device, seen, busy, results, delivered>>

\* The provider answers for every token.
SendEach(d) ==
  /\ pc[d] = "sending"
  /\ \E r \in [DOMAIN results[d] -> Outcomes] :
       /\ results' = [results EXCEPT ![d] = r]
       /\ delivered' = delivered + (IF \E t \in DOMAIN r : r[t] = "ok" THEN 1 ELSE 0)
  /\ Goto(d, "settling")
  /\ UNCHANGED <<row, device, seen, busy, faults>>

\* It delivered, and the answer was lost or came after the timeout: every
\* token shares the error.
AnswerLost(d) ==
  /\ pc[d] = "sending" /\ Fault
  /\ delivered' = delivered + 1
  /\ Goto(d, "settling")
  /\ UNCHANGED <<row, device, seen, busy, results>>

Having(d, outcome) == {t \in DOMAIN results[d] : results[d][t] = outcome}

\* settle: dead tokens go, then the row is marked.  A mark the store refuses
\* is logged and the row stays 'sending'.
MutantReached(d) == Having(d, "ok") = DOMAIN results[d]
Reached(d) == Having(d, "ok") # {}
AllGone(d) == Having(d, "error") = {} /\ Having(d, "gone") # {}

Settle(d) ==
  /\ pc[d] = "settling"
  /\ tokens' = tokens \ Having(d, "gone")
  /\ \/ /\ UNCHANGED faults
        /\ \/ Reached(d) /\ MarkSent
           \/ ~Reached(d) /\ AllGone(d) /\ MarkFailed
           \/ ~Reached(d) /\ ~AllGone(d) /\ RetryOrFail(d)
     \/ Fault /\ UNCHANGED row
  /\ Goto(d, "idle")
  /\ results' = [results EXCEPT ![d] = NoResults]
  /\ UNCHANGED <<registers, seen, busy, delivered>>

\* The process dies, or Stop cancels the context under the send and with it
\* the write that should have settled it.
Crash(d) ==
  /\ pc[d] # "idle" /\ Fault /\ Goto(d, "idle")
  /\ results' = [results EXCEPT ![d] = NoResults]
  /\ UNCHANGED <<row, device, seen, busy, delivered>>

-----------------------------------------------------------------------------
(* The rest of the world                                                   *)

\* UpsertDeviceToken, when a device signs in.
Register(t) ==
  /\ t \notin tokens /\ registers < MaxRegisters
  /\ tokens' = tokens \cup {t} /\ registers' = registers + 1
  /\ UNCHANGED <<row, pc, seen, busy, results, delivered, faults>>

\* Nothing in the code distinguishes ages above StaleAfter + 1.
Tick ==
  /\ \A d \in Dispatchers : /\ pc[d] \notin {"claimed", "settling"}
                            /\ pc[d] = "sending" => busy[d] < SendTimeout
  /\ row' = [row EXCEPT !.next = IF @ > 0 THEN @ - 1 ELSE 0,
                        !.age = IF @ <= StaleAfter THEN @ + 1 ELSE @]
  /\ busy' = [d \in Dispatchers |-> IF pc[d] = "sending" THEN busy[d] + 1 ELSE busy[d]]
  /\ UNCHANGED <<device, pc, seen, results, delivered, faults>>

Dispatcher(d) ==
  \/ Poll(d) \/ Claim(d) \/ LookupTokens(d) \/ LookupFails(d) \/ SendEach(d)
  \/ AnswerLost(d) \/ Settle(d) \/ Crash(d)

Next ==
  \/ \E d \in Dispatchers : Dispatcher(d)
  \/ \E t \in Tokens : Register(t)
  \/ Tick

Spec == Init /\ [][Next]_vars

\* The drain loop polls for ever, every call in it returns, and time passes.
FairSpec == Spec /\ WF_vars(Tick) /\ \A d \in Dispatchers : WF_vars(Dispatcher(d))
-----------------------------------------------------------------------------
(* Properties                                                              *)

\* Two dispatchers never work on the row at once: a claim is not taken over
\* while its send can still be running ("a second dispatcher can never
\* double-send it").
OneHolder ==
  \A d, e \in Dispatchers : Holding(d) /\ Holding(e) => d = e

\* A row that was delivered, or given up on, stays so: no late dispatcher,
\* retry or rescue puts it back in the queue.
SettledForGood ==
  [][row.status \in {"sent", "failed"} => row'.status = row.status]_vars

\* At-least-once, and no worse: the device is notified again only after a
\* crash, a lost answer or a refused write, and a row whose push was
\* delivered is not reported failed except after one of those.
NoNeedlessDuplicate ==
  /\ delivered <= 1 + faults
  /\ row.status = "failed" => delivered <= faults

\* Backoff and budget ("MaxAttempts bounds retries before a row is marked
\* failed"): a pending row is claimed when its backoff has passed and goes back
\* to pending with attempts left, unless its dispatcher's snapshot is older than
\* the row's last attempt.
Outdated(d) == seen[d] < row.attempts
BackoffRespected ==
  row.status = "pending" /\ row'.status = "sending" /\ row.next > 0
    => \E d \in Dispatchers : pc[d] = "listed" /\ pc'[d] = "claimed" /\ Outdated(d)
AttemptsBounded ==
  row.status = "sending" /\ row'.status = "pending" /\ row'.attempts >= MaxAttempts
    => \E d \in Dispatchers : Holding(d) /\ pc'[d] = "idle" /\ Outdated(d)
RetriesBounded == [][BackoffRespected /\ AttemptsBounded]_vars

\* Every push is eventually delivered or given up, whoever dies on the way
\* ("stale 'sending' rows are rescued by the poll query").
EventuallySettled == <>[](row.status \in {"sent", "failed"})
=============================================================================
