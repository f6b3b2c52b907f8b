------------------------- MODULE NotificationsProofs -------------------------
(***************************************************************************)
(* Theorems about PushDelivery, for any number of dispatchers and devices, *)
(* any attempt budget and any number of faults: as long as a send ends     *)
(* before a claim goes stale, a row has one dispatcher at a time, and once *)
(* settled it stays settled.  And about Reminders, which fills the outbox, *)
(* for any number of processes, members, reminders, edits and faults: what *)
(* is pushed follows the members' choices.                                 *)
(***************************************************************************)
EXTENDS PushDelivery, MCReminders, FiniteSetTheorems, TLAPS

\* While a dispatcher holds the row, the row says so, and the claim is no
\* older than the send.
ClaimFresh ==
  \A d \in Dispatchers : Holding(d) =>
    /\ row.status = "sending"
    /\ row.age <= SendTimeout
    /\ pc[d] = "claimed" => row.age = 0
    /\ pc[d] = "sending" => row.age <= busy[d]

ClaimTypes ==
  /\ row = [status |-> row.status, attempts |-> row.attempts,
            next |-> row.next, age |-> row.age]
  /\ row.age \in Nat
  /\ pc \in [Dispatchers -> {"idle", "listed", "claimed", "sending", "settling"}]
  /\ busy \in [Dispatchers -> 0..SendTimeout]

IInv == ClaimTypes /\ ClaimFresh /\ OneHolder

-----------------------------------------------------------------------------
(* One dispatcher at a time                                                 *)

\* A row that is held cannot be claimed.
LEMMA HeldIsNotClaimable ==
  ASSUME IInv, NEW d \in Dispatchers, Holding(d)
  PROVE  ~Claimable /\ ~Due
BY ParamsAssumption, LeaseAssumption
   DEF IInv, ClaimTypes, ClaimFresh, Claimable, Due, Stale

LEMMA InitHolds == Init => IInv
BY ParamsAssumption DEF Init, IInv, ClaimTypes, ClaimFresh, OneHolder, Holding

\* What a dispatcher may do to the row it holds: anything, if it lets go.
LEMMA LettingGo ==
  ASSUME IInv, NEW d \in Dispatchers, Holding(d),
         pc' = [pc EXCEPT ![d] = "idle"],
         busy' = busy,
         \/ row' = row
         \/ \E status, attempts, next : Write(status, attempts, next)
  PROVE  IInv'
<1>1. \A e \in Dispatchers : ~Holding(e)'
  BY DEF IInv, ClaimTypes, OneHolder, Holding
<1>2. ClaimTypes'
  <2>1. CASE row' = row
    BY <2>1 DEF IInv, ClaimTypes
  <2>2. CASE \E status, attempts, next : Write(status, attempts, next)
    BY <2>2 DEF IInv, ClaimTypes, Write
  <2>3. QED
    BY <2>1, <2>2
<1>3. QED
  BY <1>1, <1>2 DEF IInv, ClaimFresh, OneHolder

\* Marking the row, in any way, writes it.
LEMMA MarksWrite ==
  ASSUME NEW d \in Dispatchers,
         \/ MarkSent \/ MarkFailed \/ RetryOrFail(d)
  PROVE  \E status, attempts, next : Write(status, attempts, next)
BY DEF MarkSent, MarkFailed, MarkRetry, RetryOrFail

LEMMA DispatcherStep ==
  ASSUME IInv, NEW d \in Dispatchers, Dispatcher(d)
  PROVE  IInv'
<1> USE ParamsAssumption DEF Goto
<1>1. CASE Poll(d)
  BY <1>1 DEF Poll, IInv, ClaimTypes, ClaimFresh, OneHolder, Holding
<1>2. CASE Claim(d)
  <2>1. busy' = busy /\ pc[d] = "listed"
    BY <1>2 DEF Claim
  <2>2. CASE Claimable /\ MarkSending /\ pc' = [pc EXCEPT ![d] = "claimed"]
    <3>1. \A e \in Dispatchers : ~Holding(e)
      BY <2>2, HeldIsNotClaimable
    <3>2. \A e \in Dispatchers : Holding(e)' => e = d /\ pc'[e] = "claimed"
      BY <2>2, <3>1 DEF IInv, ClaimTypes, Holding
    <3>3. row'.status = "sending" /\ row'.age = 0 /\ ClaimTypes'
      BY <2>1, <2>2 DEF MarkSending, Write, IInv, ClaimTypes
    <3>4. ClaimFresh' /\ OneHolder'
      BY <3>2, <3>3 DEF ClaimFresh, OneHolder
    <3>5. QED
      BY <3>3, <3>4 DEF IInv
  <2>3. CASE row' = row /\ pc' = [pc EXCEPT ![d] = "idle"]
    BY <2>1, <2>3 DEF IInv, ClaimTypes, ClaimFresh, OneHolder, Holding
  <2>4. QED
    BY <1>2, <2>2, <2>3 DEF Claim
<1>3. CASE LookupTokens(d)
  <2>1. Holding(d) /\ pc[d] = "claimed"
    BY <1>3 DEF LookupTokens, Holding
  <2>2. CASE MarkSent /\ pc' = [pc EXCEPT ![d] = "idle"] /\ busy' = busy
    BY <2>1, <2>2, LettingGo, MarksWrite
  <2>3. CASE /\ pc' = [pc EXCEPT ![d] = "sending"]
             /\ busy' = [busy EXCEPT ![d] = 0]
             /\ row' = row
    <3>1. \A e \in Dispatchers : Holding(e)' => e = d
      BY <2>1, <2>3 DEF IInv, ClaimTypes, OneHolder, Holding
    <3>2. pc'[d] = "sending" /\ busy'[d] = 0 /\ row.age = 0 /\ row.status = "sending"
      BY <2>1, <2>3 DEF IInv, ClaimTypes, ClaimFresh
    <3>3. QED
      BY <2>3, <3>1, <3>2 DEF IInv, ClaimTypes, ClaimFresh, OneHolder, Holding
  <2>4. QED
    BY <1>3, <2>2, <2>3 DEF LookupTokens
<1>4. CASE LookupFails(d)
  BY <1>4, LettingGo, MarksWrite DEF LookupFails, Holding
<1>5. CASE SendEach(d) \/ AnswerLost(d)
  <2>1. /\ pc[d] = "sending" /\ pc' = [pc EXCEPT ![d] = "settling"]
        /\ row' = row /\ busy' = busy
    BY <1>5 DEF SendEach, AnswerLost
  <2>2. row.age <= SendTimeout /\ row.status = "sending"
    BY <2>1 DEF IInv, ClaimFresh, Holding
  <2>3. QED
    BY <2>1, <2>2 DEF IInv, ClaimTypes, ClaimFresh, OneHolder, Holding
<1>6. CASE Settle(d)
  BY <1>6, LettingGo, MarksWrite DEF Settle, Holding
<1>7. CASE Crash(d)
  BY <1>7 DEF Crash, IInv, ClaimTypes, ClaimFresh, OneHolder, Holding
<1>8. QED
  BY <1>1, <1>2, <1>3, <1>4, <1>5, <1>6, <1>7 DEF Dispatcher

LEMMA TickStep ==
  ASSUME IInv, Tick
  PROVE  IInv'
<1>1. /\ row'.status = row.status
      /\ row'.age \in {row.age, row.age + 1}
      /\ row' = [status |-> row'.status, attempts |-> row'.attempts,
                 next |-> row'.next, age |-> row'.age]
  BY DEF Tick, IInv, ClaimTypes
<1>2. pc' = pc
  BY DEF Tick
<1>3. \A d \in Dispatchers :
        busy'[d] = IF pc[d] = "sending" THEN busy[d] + 1 ELSE busy[d]
  BY DEF Tick
<1>4. ClaimTypes'
  BY <1>1, <1>2, <1>3, ParamsAssumption DEF Tick, IInv, ClaimTypes
<1>5. ASSUME NEW d \in Dispatchers, Holding(d)
      PROVE  /\ pc[d] = "sending" /\ row'.age <= busy'[d]
             /\ busy'[d] <= SendTimeout
  <2>1. pc[d] = "sending" /\ busy[d] < SendTimeout
    BY <1>5 DEF Tick, Holding
  <2>2. row.age <= busy[d] /\ busy[d] \in Nat /\ row.age \in Nat
    BY <1>5, <2>1, ParamsAssumption DEF IInv, ClaimFresh, ClaimTypes
  <2>3. QED
    BY <1>1, <1>3, <2>1, <2>2, ParamsAssumption
<1>6. ASSUME NEW d \in Dispatchers, Holding(d)
      PROVE  row'.age <= SendTimeout /\ row.status = "sending"
  <2>1. row'.age \in Nat /\ busy'[d] \in Nat
    BY <1>4, ParamsAssumption DEF ClaimTypes
  <2>2. QED
    BY <1>5, <1>6, <2>1, ParamsAssumption DEF IInv, ClaimFresh
<1>7. ClaimFresh'
  BY <1>1, <1>2, <1>5, <1>6 DEF ClaimFresh, Holding
<1>8. QED
  BY <1>2, <1>4, <1>7 DEF IInv, OneHolder, Holding

LEMMA NextHolds == IInv /\ [Next]_vars => IInv'
<1> SUFFICES ASSUME IInv, [Next]_vars PROVE IInv'
  OBVIOUS
<1>1. CASE \E d \in Dispatchers : Dispatcher(d)
  BY <1>1, DispatcherStep
<1>2. CASE \E t \in Tokens : Register(t)
  BY <1>2 DEF Register, IInv, ClaimTypes, ClaimFresh, OneHolder, Holding
<1>3. CASE Tick
  BY <1>3, TickStep
<1>4. CASE UNCHANGED vars
  BY <1>4 DEF vars, IInv, ClaimTypes, ClaimFresh, OneHolder, Holding
<1>5. QED
  BY <1>1, <1>2, <1>3, <1>4 DEF Next

\* However many processes drain the outbox and however they crash, no two of
\* them work on a row at the same time.
THEOREM NoConcurrentDelivery == Spec => []OneHolder
BY InitHolds, NextHolds, PTL DEF Spec, IInv

-----------------------------------------------------------------------------
(* Settled for good                                                         *)

LEMMA SettledStep ==
  ASSUME IInv, [Next]_vars, row.status \in {"sent", "failed"}
  PROVE  row'.status = row.status
<1>1. \A d \in Dispatchers : ~Holding(d)
  BY DEF IInv, ClaimFresh
<1>2. ASSUME NEW d \in Dispatchers, Dispatcher(d)
      PROVE  row' = row
  BY <1>1, <1>2 DEF Dispatcher, Poll, Claim, Claimable, Stale, LookupTokens,
     LookupFails, SendEach, AnswerLost, Settle, Crash, Holding
<1>3. CASE Tick
  BY <1>3 DEF Tick, IInv, ClaimTypes
<1>4. CASE UNCHANGED vars
  BY <1>4 DEF vars
<1>5. QED
  BY <1>2, <1>3, <1>4 DEF Next, Register

\* No retry, rescue or late dispatcher reopens a row that was delivered or
\* given up on.
THEOREM SettledStays == Spec => SettledForGood
<1>1. IInv /\ [Next]_vars =>
        [row.status \in {"sent", "failed"} => row'.status = row.status]_vars
  BY SettledStep
<1>2. QED
  BY <1>1, InitHolds, NextHolds, PTL DEF Spec, SettledForGood
-----------------------------------------------------------------------------
(* At-least-once and no worse                                               *)

\* A delivery is paid for by a fault unless the row is sent or a dispatcher
\* is about to settle it.
Unsettled == \E d \in Dispatchers : pc[d] = "settling" /\ Reached(d)
DeliveriesPaid ==
  /\ delivered \in Nat /\ faults \in Nat
  /\ delivered <= 1 + faults
  /\ row.status # "sent" /\ ~Unsettled => delivered <= faults

ResultTypes == results = [d \in Dispatchers |-> results[d]]

LEMMA ResultsStep == ResultTypes /\ [Next]_vars => ResultTypes'
<1> SUFFICES ASSUME ResultTypes, [Next]_vars PROVE ResultTypes'
  OBVIOUS
<1> USE DEF ResultTypes
<1>1. ASSUME NEW d \in Dispatchers, Dispatcher(d)
      PROVE  \/ results' = results
             \/ \E r : results' = [results EXCEPT ![d] = r]
  BY <1>1 DEF Dispatcher, Poll, Claim, LookupTokens, LookupFails, SendEach,
              AnswerLost, Settle, Crash
<1>2. CASE ~\E d \in Dispatchers : Dispatcher(d)
  BY <1>2 DEF Next, Register, Tick, vars
<1>3. CASE \E d \in Dispatchers : Dispatcher(d)
  BY <1>1, <1>3
<1>4. QED
  BY <1>2, <1>3

LEMMA InitPaid == Init => DeliveriesPaid /\ ResultTypes
BY DEF Init, DeliveriesPaid, ResultTypes

LEMMA PaidDispatcherStep ==
  ASSUME IInv, DeliveriesPaid, ResultTypes, NEW d \in Dispatchers, Dispatcher(d)
  PROVE  DeliveriesPaid'
<1> USE DEF Goto, Fault
<1>1. Holding(d) => /\ row.status # "sent"
                    /\ \A e \in Dispatchers : pc[e] = "settling" => e = d
  BY DEF IInv, ClaimFresh, OneHolder, Holding
<1>2. CASE Poll(d) \/ Claim(d) \/ LookupTokens(d) \/ LookupFails(d)
  <2>1. /\ delivered' = delivered /\ faults' \in {faults, faults + 1}
        /\ pc[d] # "settling" /\ pc'[d] # "settling"
        /\ \A e \in Dispatchers \ {d} : pc'[e] = pc[e]
        /\ \A e \in Dispatchers \ {d} : results'[e] = results[e]
    <3>1. CASE Poll(d) \/ Claim(d) \/ LookupFails(d)
      BY <3>1 DEF Poll, Claim, LookupFails, IInv, ClaimTypes
    <3>2. CASE LookupTokens(d)
      <4>1. /\ delivered' = delivered /\ faults' = faults /\ pc[d] = "claimed"
            /\ \E to \in {"idle", "sending"} : pc' = [pc EXCEPT ![d] = to]
        BY <3>2 DEF LookupTokens
      <4>2. \A e \in Dispatchers \ {d} : results'[e] = results[e]
        BY <3>2 DEF LookupTokens, ResultTypes
      <4>3. QED
        BY <4>1, <4>2 DEF IInv, ClaimTypes
    <3>3. QED
      BY <1>2, <3>1, <3>2
  <2>2. Unsettled => Unsettled'
    BY <2>1 DEF Unsettled, Reached, Having
  <2>3. row.status = "sent" => row'.status = "sent"
    BY SettledStep DEF Next
  <2>4. delivered <= 1 + faults'
    <3>1. delivered \in Nat /\ faults \in Nat /\ delivered <= 1 + faults
      BY DEF DeliveriesPaid
    <3>2. CASE faults' = faults
      BY <3>1, <3>2
    <3>3. CASE faults' = faults + 1
      BY <3>1, <3>3
    <3>4. QED
      BY <2>1, <3>2, <3>3
  <2>5. row'.status # "sent" /\ ~Unsettled' => delivered <= faults'
    BY <2>1, <2>2, <2>3 DEF DeliveriesPaid
  <2>6. delivered' = delivered /\ delivered' \in Nat /\ faults' \in Nat
    BY <2>1 DEF DeliveriesPaid
  <2>7. /\ delivered' <= 1 + faults'
        /\ row'.status # "sent" /\ ~Unsettled' => delivered' <= faults'
    BY <2>4, <2>5, <2>6, Zenon
  <2>8. QED
    BY <2>6, <2>7, Zenon DEF DeliveriesPaid
<1>3. CASE SendEach(d)
  <2>1. pc[d] = "sending" /\ ~Unsettled /\ delivered <= faults
    <3>1. pc[d] = "sending"
      BY <1>3 DEF SendEach
    <3>2. \A e \in Dispatchers : pc[e] # "settling"
      BY <1>1, <3>1 DEF Holding
    <3>3. QED
      BY <1>1, <3>1, <3>2 DEF Unsettled, Holding, DeliveriesPaid
  <2>2. row' = row /\ faults' = faults /\ pc' = [pc EXCEPT ![d] = "settling"]
    BY <1>3 DEF SendEach
  <2>3. PICK r \in [DOMAIN results[d] -> Outcomes] :
          /\ results' = [results EXCEPT ![d] = r]
          /\ delivered' = delivered + (IF \E t \in DOMAIN r : r[t] = "ok" THEN 1 ELSE 0)
    BY <1>3 DEF SendEach
  <2>4. CASE \E t \in DOMAIN r : r[t] = "ok"
    <3>1. Unsettled' /\ delivered' = delivered + 1
      <4>1. results'[d] = r /\ pc'[d] = "settling"
        BY <2>2, <2>3 DEF IInv, ClaimTypes, ResultTypes
      <4>2. Reached(d)'
        BY <2>4, <4>1 DEF Reached, Having
      <4>3. QED
        BY <2>3, <2>4, <4>1, <4>2 DEF Unsettled
    <3>2. QED
      BY <2>1, <2>2, <3>1 DEF DeliveriesPaid
  <2>5. CASE ~\E t \in DOMAIN r : r[t] = "ok"
    BY <2>1, <2>2, <2>3, <2>5 DEF DeliveriesPaid
  <2>6. QED
    BY <2>4, <2>5
<1>4. CASE AnswerLost(d)
  <2>1. pc[d] = "sending" /\ ~Unsettled /\ delivered <= faults
    <3>1. pc[d] = "sending"
      BY <1>4 DEF AnswerLost
    <3>2. \A e \in Dispatchers : pc[e] # "settling"
      BY <1>1, <3>1 DEF Holding
    <3>3. QED
      BY <1>1, <3>1, <3>2 DEF Unsettled, Holding, DeliveriesPaid
  <2>2. delivered' = delivered + 1 /\ faults' = faults + 1
    BY <1>4 DEF AnswerLost
  <2>3. QED
    BY <2>1, <2>2 DEF DeliveriesPaid
<1>5. CASE Settle(d)
  <2>1. /\ pc[d] = "settling" /\ pc' = [pc EXCEPT ![d] = "idle"]
        /\ delivered' = delivered
    BY <1>5 DEF Settle
  <2>2. Unsettled => Reached(d)
    BY <1>1, <2>1 DEF Unsettled, Holding
  <2>3. row.status # "sent"
    BY <1>1, <2>1 DEF Holding
  <2>4. CASE faults' = faults + 1
    BY <2>1, <2>4 DEF DeliveriesPaid
  <2>5. CASE faults' = faults /\ Reached(d) /\ MarkSent
    BY <2>1, <2>5 DEF DeliveriesPaid, MarkSent, Write
  <2>6. CASE faults' = faults /\ ~Reached(d)
    BY <2>1, <2>2, <2>3, <2>6 DEF DeliveriesPaid
  <2>7. QED
    BY <1>5, <2>4, <2>5, <2>6 DEF Settle
<1>6. CASE Crash(d)
  BY <1>6 DEF Crash, DeliveriesPaid
<1>7. QED
  BY <1>2, <1>3, <1>4, <1>5, <1>6 DEF Dispatcher

LEMMA PaidStep ==
  ASSUME IInv, DeliveriesPaid, ResultTypes, [Next]_vars
  PROVE  DeliveriesPaid'
<1>1. CASE \E d \in Dispatchers : Dispatcher(d)
  BY <1>1, PaidDispatcherStep
<1>2. CASE (\E t \in Tokens : Register(t)) \/ Tick \/ UNCHANGED vars
  <2>1. /\ delivered' = delivered /\ faults' = faults
        /\ pc' = pc /\ results' = results /\ row'.status = row.status
    BY <1>2 DEF Register, Tick, vars, IInv, ClaimTypes
  <2>2. QED
    BY <2>1 DEF DeliveriesPaid, Unsettled, Reached, Having
<1>3. QED
  BY <1>1, <1>2 DEF Next

\* Every repeated notification, and every push reported failed that was
\* delivered, is owed to a crash, a lost answer or a refused write.
THEOREM DuplicatesAreFaults == Spec => []NoNeedlessDuplicate
<1> DEFINE Inv == IInv /\ DeliveriesPaid /\ ResultTypes
<1>1. Init => Inv
  BY InitHolds, InitPaid
<1>2. Inv /\ [Next]_vars => Inv'
  BY NextHolds, PaidStep, ResultsStep
<1>3. Inv => NoNeedlessDuplicate
  <2> SUFFICES ASSUME Inv PROVE NoNeedlessDuplicate
    OBVIOUS
  <2>1. row.status = "failed" => ~Unsettled
    BY DEF Unsettled, IInv, ClaimFresh, Holding
  <2>2. QED
    BY <2>1 DEF DeliveriesPaid, NoNeedlessDuplicate
<1>4. QED
  BY <1>1, <1>2, <1>3, PTL DEF Spec

-----------------------------------------------------------------------------
(* Backoff and budget                                                       *)

\* A snapshot is no newer than the row, and while a row waits for its backoff
\* every dispatcher that has listed it did so before its last attempt.
Counted ==
  /\ row.attempts \in Nat
  /\ seen \in [Dispatchers -> Nat]
  /\ \A d \in Dispatchers : seen[d] <= row.attempts
ListedBefore ==
  row.status = "pending" /\ row.next > 0 =>
    \A d \in Dispatchers : pc[d] = "listed" => Outdated(d)

\* What a dispatcher may do to the row's count.
LEMMA MarksCount ==
  ASSUME NEW d \in Dispatchers, MarkSent \/ MarkFailed \/ RetryOrFail(d) \/ MarkSending
  PROVE  /\ row'.attempts \in {row.attempts, row.attempts + 1}
         /\ row'.status = "pending" => /\ ~LastAttempt(d) /\ RetryOrFail(d)
                                      /\ row'.attempts = row.attempts + 1
BY DEF MarkSent, MarkFailed, MarkRetry, MarkSending, RetryOrFail, Write

LEMMA DispatcherRow ==
  ASSUME NEW d \in Dispatchers, Dispatcher(d), IInv
  PROVE  \/ row' = row
         \/ pc[d] = "listed" /\ pc'[d] = "claimed" /\ MarkSending /\ Claimable
         \/ Holding(d) /\ pc'[d] = "idle" /\ (MarkSent \/ MarkFailed \/ RetryOrFail(d))
<1> USE DEF Goto
<1>1. CASE Claim(d)
  BY <1>1 DEF Claim, IInv, ClaimTypes
<1>2. CASE LookupTokens(d) \/ LookupFails(d)
  BY <1>2 DEF LookupTokens, LookupFails, IInv, ClaimTypes, Holding
<1>3. CASE Settle(d)
  BY <1>3 DEF Settle, IInv, ClaimTypes, Holding
<1>4. CASE Poll(d) \/ SendEach(d) \/ AnswerLost(d) \/ Crash(d)
  BY <1>4 DEF Poll, SendEach, AnswerLost, Crash
<1>5. QED
  BY <1>1, <1>2, <1>3, <1>4 DEF Dispatcher

\* Who else has listed the row, and with what count.
LEMMA DispatcherSnapshots ==
  ASSUME NEW d \in Dispatchers, Dispatcher(d), IInv, Counted
  PROVE  \/ Poll(d) /\ row' = row
         \/ /\ seen' = seen
            /\ \A e \in Dispatchers : pc'[e] = "listed" => pc[e] = "listed"
<1>1. CASE Poll(d)
  BY <1>1 DEF Poll
<1>2. CASE ~Poll(d)
  <2>1. seen' = seen /\ \E to \in {"idle", "claimed", "sending", "settling"} :
                         pc' = [pc EXCEPT ![d] = to]
    BY <1>2 DEF Dispatcher, Claim, LookupTokens, LookupFails, SendEach,
                AnswerLost, Settle, Crash, Goto
  <2>2. QED
    BY <2>1 DEF IInv, ClaimTypes
<1>3. QED
  BY <1>1, <1>2

LEMMA CountedDispatcher ==
  ASSUME NEW d \in Dispatchers, Dispatcher(d), IInv, Counted, ListedBefore
  PROVE  Counted' /\ ListedBefore'
<1>1. row'.attempts \in {row.attempts, row.attempts + 1}
  BY DispatcherRow, MarksCount
<1>2. CASE Poll(d) /\ row' = row
  <2>1. /\ seen' = [seen EXCEPT ![d] = row.attempts]
        /\ pc' = [pc EXCEPT ![d] = "listed"] /\ Due
    BY <1>2 DEF Poll, Goto
  <2>2. Counted'
    BY <1>2, <2>1 DEF Counted
  <2>3. ListedBefore'
    BY <1>2, <2>1 DEF ListedBefore, Due, Stale, Outdated, IInv, ClaimTypes, Counted
  <2>4. QED
    BY <2>2, <2>3
<1>3. CASE /\ seen' = seen
           /\ \A e \in Dispatchers : pc'[e] = "listed" => pc[e] = "listed"
  <2>1. Counted'
    BY <1>1, <1>3 DEF Counted
  <2>2. CASE row' = row
    BY <1>3, <2>1, <2>2 DEF ListedBefore, Outdated
  <2>3. CASE row'.status = "pending" => row'.attempts = row.attempts + 1
    BY <1>3, <2>1, <2>3 DEF ListedBefore, Outdated, Counted
  <2>4. QED
    BY <2>1, <2>2, <2>3, DispatcherRow, MarksCount
<1>4. QED
  BY <1>2, <1>3, DispatcherSnapshots

LEMMA CountedStep ==
  ASSUME IInv, Counted, ListedBefore, [Next]_vars
  PROVE  Counted' /\ ListedBefore'
<1>1. CASE \E d \in Dispatchers : Dispatcher(d)
  BY <1>1, CountedDispatcher
<1>2. CASE Tick
  <2>1. /\ row'.status = row.status /\ row'.attempts = row.attempts
        /\ row'.next = IF row.next > 0 THEN row.next - 1 ELSE 0
        /\ seen' = seen /\ pc' = pc
    BY <1>2 DEF Tick, IInv, ClaimTypes
  <2>2. row'.next > 0 => row.next > 0
    BY <2>1
  <2>3. QED
    BY <2>1, <2>2 DEF Counted, ListedBefore, Outdated
<1>3. CASE (\E t \in Tokens : Register(t)) \/ UNCHANGED vars
  BY <1>3 DEF Register, vars, Counted, ListedBefore, Outdated
<1>4. QED
  BY <1>1, <1>2, <1>3 DEF Next

\* A dispatcher breaks the backoff or the budget with an old snapshot only.
LEMMA RetriesStep ==
  ASSUME IInv, Counted, ListedBefore, [Next]_vars
  PROVE  BackoffRespected /\ AttemptsBounded
<1>1. CASE row'.status = row.status
  BY <1>1 DEF BackoffRespected, AttemptsBounded
<1>2. CASE row'.status # row.status
  <2>1. ~Tick /\ ~(\E t \in Tokens : Register(t)) /\ ~UNCHANGED vars
    BY <1>2 DEF Tick, Register, vars, IInv, ClaimTypes
  <2>2. PICK d \in Dispatchers : Dispatcher(d)
    BY <2>1 DEF Next
  <2>3. CASE pc[d] = "listed" /\ pc'[d] = "claimed" /\ MarkSending
    <3>1. row'.status = "sending"
      BY <2>3 DEF MarkSending, Write
    <3>2. BackoffRespected
      BY <2>3 DEF BackoffRespected, ListedBefore
    <3>3. QED
      BY <3>1, <3>2 DEF AttemptsBounded
  <2>4. CASE Holding(d) /\ pc'[d] = "idle" /\ (MarkSent \/ MarkFailed \/ RetryOrFail(d))
    <3>1. row.status = "sending"
      BY <2>4 DEF IInv, ClaimFresh
    <3>2. row'.status = "pending" => ~LastAttempt(d) /\ row'.attempts = row.attempts + 1
      BY <2>4, MarksCount
    <3>3. row'.status = "pending" /\ row'.attempts >= MaxAttempts => Outdated(d)
      BY <3>2, ParamsAssumption DEF LastAttempt, Outdated, Counted
    <3>4. QED
      BY <2>4, <3>1, <3>3 DEF BackoffRespected, AttemptsBounded
  <2>5. QED
    BY <1>2, <2>2, <2>3, <2>4, DispatcherRow
<1>3. QED
  BY <1>1, <1>2

\* For any number of processes, attempts and faults, no row is sent before its
\* backoff has passed or tried again beyond its budget, except by a dispatcher
\* that listed it before its last attempt.
THEOREM RetriesAreBounded == Spec => RetriesBounded
<1> DEFINE Inv == IInv /\ Counted /\ ListedBefore
<1>1. Init => Inv
  BY InitHolds DEF Init, Counted, ListedBefore
<1>2. Inv /\ [Next]_vars => Inv'
  BY NextHolds, CountedStep
<1>3. Inv /\ [Next]_vars => [BackoffRespected /\ AttemptsBounded]_vars
  BY RetriesStep
<1>4. QED
  BY <1>1, <1>2, <1>3, PTL DEF Spec, RetriesBounded

-----------------------------------------------------------------------------
(* The reminder sweeps                                                      *)

Pref == [enabled : BOOLEAN, muted : BOOLEAN, push : BOOLEAN]
Entries == [key : R!Reminders \cup {R!Event}, read : BOOLEAN]
Places == {"idle", "list", "fanout", "feed", "prune", "push"}
AtPair(s) == at[s] \in {"feed", "prune", "push"}

RowsTyped ==
  /\ due \subseteq R!Reminders /\ outbox \subseteq R!Keys
  /\ feed \in [Members -> Seq(Entries)]
  /\ prefs \in [Members -> R!Prefs]
  /\ chosen \in [Members -> [R!Categories -> BOOLEAN]]
  /\ pending \subseteq [who : Members, category : R!Categories, op : Operations, row : Pref]
  /\ R!PushChoiceKept

SweepTyped ==
  /\ at \in [Sweepers -> Places] /\ pass \in [Sweepers -> {"meals", "expiry"}]
  /\ todo \in [Sweepers -> SUBSET R!Keys] /\ cur \in [Sweepers -> R!Keys \cup {R!Nothing}]
  /\ pushOK \in [Sweepers -> BOOLEAN]
  /\ gate \in [Sweepers -> [Members -> R!Prefs \cup {R!Nothing}]]
  /\ agreed \in [Sweepers -> SUBSET R!Keys]

\* A sweep is at a pair exactly while it writes for it.
Placed(s) ==
  /\ todo[s] \subseteq Members \X R!Of(pass[s])
  /\ AtPair(s) <=> cur[s] # R!Nothing
  /\ cur[s] # R!Nothing => cur[s] \in (Members \X R!Of(pass[s])) \ todo[s]
  /\ at[s] = "push" => pushOK[s]
  /\ at[s] \in {"idle", "list"} => todo[s] = {}
  /\ at[s] = "idle" => agreed[s] = {}

\* What a sweep may push, by the preferences as they are, by those it has read and
\* by what it has decided, was agreed to since it began.
Allows(prefRow, k) == R!PushAllowed(prefRow, R!Category(k[2]))
GateWithin(cache, pairs) ==
  \A k \in R!Keys : cache[k[1]] # R!Nothing /\ Allows(cache[k[1]], k) => k \in pairs
Agrees(s) ==
  at[s] # "idle" =>
    /\ R!PushAgreed \subseteq agreed[s] /\ GateWithin(gate[s], agreed[s])
    /\ AtPair(s) /\ pushOK[s] => cur[s] \in agreed[s]

SweepsKept == SweepTyped /\ \A s \in Sweepers : Placed(s) /\ Agrees(s)
RemindersInv == RowsTyped /\ SweepsKept

LEMMA RemindersInit == R!Init => RemindersInv
<1> SUFFICES ASSUME R!Init PROVE RemindersInv
  OBVIOUS
<1>1. <<>> \in Seq(Entries) /\ R!DefaultPref \in Pref
  BY DEF R!DefaultPref, Pref
<1>2. prefs \in [Members -> R!Prefs] /\ R!PushChoiceKept
  BY <1>1 DEF R!Init, R!Prefs, Pref, R!DefaultPref, R!PushChoiceKept
<1>3. RowsTyped
  BY <1>1, <1>2 DEF R!Init, RowsTyped
<1>4. SweepsKept
  BY DEF R!Init, SweepsKept, SweepTyped, Placed, Agrees, AtPair, Places
<1>5. QED
  BY <1>3, <1>4 DEF RemindersInv

\* A pair is not the absence of one.
LEMMA PairIsSomething == \A k \in R!Keys : k # R!Nothing
BY DEF R!Keys, R!Nothing

LEMMA PairsOfPass ==
  ASSUME NEW p \in {"meals", "expiry"}
  PROVE  Members \X R!Of(p) \subseteq R!Keys
BY DEF R!Keys, R!Of, R!Reminders

\* The feed's statements leave each member a sequence of entries.
LEMMA FeedPruned ==
  ASSUME NEW m \in Members, NEW entries \in Seq(Entries), R!PruneRead(m, entries)
  PROVE  \E left \in Seq(Entries) : feed' = [feed EXCEPT ![m] = left]
<1> DEFINE ids == R!Unpruned(entries)
<1>1. ids \subseteq 1..Len(entries) /\ Len(entries) \in Int
  BY DEF R!Unpruned
<1>2. R!Cardinality(ids) \in Nat
  <2>1. R!Cardinality(ids) = Cardinality(ids)
    BY Zenon DEF R!Cardinality, Cardinality
  <2>2. IsFiniteSet(1..Len(entries))
    BY <1>1, FS_Interval
  <2> HIDE DEF ids
  <2>3. IsFiniteSet(ids)
    BY <1>1, <2>2, FS_Subset
  <2>4. QED
    BY <2>1, <2>3, FS_CardinalityType
<1>3. PICK order \in R!Ascending(ids) :
        feed' = [feed EXCEPT ![m] = [i \in DOMAIN order |-> entries[order[i]]]]
  BY DEF R!PruneRead
<1>4. order \in [1..R!Cardinality(ids) -> ids]
  BY <1>3 DEF R!Ascending
<1> HIDE DEF ids
<1>5. \A i \in DOMAIN order : entries[order[i]] \in Entries
  <2>1. \A i \in 1..Len(entries) : entries[i] \in Entries
    OBVIOUS
  <2>2. \A i \in DOMAIN order : order[i] \in 1..Len(entries)
    BY <1>1, <1>4
  <2>3. QED
    BY <2>1, <2>2, Zenon
<1>6. [i \in DOMAIN order |-> entries[order[i]]] \in [1..R!Cardinality(ids) -> Entries]
  BY <1>4, <1>5
<1>7. [i \in DOMAIN order |-> entries[order[i]]] \in Seq(Entries)
  BY <1>2, <1>6
<1>8. QED
  BY <1>3, <1>7

LEMMA FeedMarked ==
  ASSUME feed \in [Members -> Seq(Entries)], NEW m \in Members, NEW i \in DOMAIN feed[m],
         feed' = [feed EXCEPT ![m][i] = [key |-> @.key, read |-> TRUE]]
  PROVE  feed' \in [Members -> Seq(Entries)]
<1>1. feed[m] \in Seq(Entries)
  OBVIOUS
<1>2. feed[m][i] \in Entries
  BY <1>1
<1> DEFINE entry == [key |-> feed[m][i].key, read |-> TRUE]
<1>3. entry \in Entries
  BY <1>2 DEF Entries
<1>5. feed' = [feed EXCEPT ![m] = [feed[m] EXCEPT ![i] = entry]]
  OBVIOUS
<1> HIDE DEF entry
<1>6. [feed[m] EXCEPT ![i] = entry] \in Seq(Entries)
  BY <1>1, <1>3
<1>7. QED
  BY <1>5, <1>6

LEMMA FeedWritten ==
  ASSUME feed \in [Members -> Seq(Entries)], NEW m \in Members,
         \/ \E r \in R!Reminders : R!Insert(m, r)
         \/ R!PruneRead(m, feed[m])
         \/ R!PruneRead(m, Append(feed[m], [key |-> R!Event, read |-> FALSE]))
  PROVE  feed' \in [Members -> Seq(Entries)]
<1>1. feed[m] \in Seq(Entries)
  OBVIOUS
<1>2. \A key \in R!Reminders \cup {R!Event} : Append(feed[m], [key |-> key, read |-> FALSE]) \in Seq(Entries)
  <2>1. \A key \in R!Reminders \cup {R!Event} : [key |-> key, read |-> FALSE] \in Entries
    BY DEF Entries
  <2>2. \A entry \in Entries : Append(feed[m], entry) \in Seq(Entries)
    BY <1>1
  <2>3. QED
    BY <2>1, <2>2, Zenon
<1>3. \E left \in Seq(Entries) : feed' = [feed EXCEPT ![m] = left]
  BY <1>1, <1>2, FeedPruned DEF R!Insert
<1>4. QED
  BY <1>3


\* One sweep moves to a place where it may be.
Moves(s, to, p, left, pair, push, cache, pairs) ==
  /\ at' = [at EXCEPT ![s] = to] /\ pass' = [pass EXCEPT ![s] = p]
  /\ todo' = [todo EXCEPT ![s] = left] /\ cur' = [cur EXCEPT ![s] = pair]
  /\ pushOK' = [pushOK EXCEPT ![s] = push] /\ gate' = [gate EXCEPT ![s] = cache]
  /\ agreed' = [agreed EXCEPT ![s] = pairs]
MayBe(to, p, left, pair, push, cache, pairs) ==
  /\ to \in Places /\ p \in {"meals", "expiry"} /\ left \in SUBSET (Members \X R!Of(p))
  /\ pair \in R!Keys \cup {R!Nothing} /\ push \in BOOLEAN
  /\ cache \in [Members -> R!Prefs \cup {R!Nothing}] /\ pairs \in SUBSET R!Keys
  /\ to \in {"feed", "prune", "push"} <=> pair # R!Nothing
  /\ pair # R!Nothing => pair \in (Members \X R!Of(p)) \ left
  /\ to = "push" => push
  /\ to \in {"idle", "list"} => left = {}
  /\ to = "idle" => pairs = {}
  /\ to # "idle" => /\ R!PushAgreed \subseteq pairs /\ GateWithin(cache, pairs)
                    /\ pair # R!Nothing /\ push => pair \in pairs

LEMMA OneSweep ==
  ASSUME SweepsKept, NEW s \in Sweepers, prefs' = prefs,
         NEW to, NEW p, NEW left, NEW pair, NEW push, NEW cache, NEW pairs,
         Moves(s, to, p, left, pair, push, cache, pairs),
         MayBe(to, p, left, pair, push, cache, pairs)
  PROVE  SweepsKept'
<1>1. /\ at'[s] = to /\ pass'[s] = p /\ todo'[s] = left /\ cur'[s] = pair
      /\ pushOK'[s] = push /\ gate'[s] = cache /\ agreed'[s] = pairs
  BY DEF Moves, SweepsKept, SweepTyped
<1>2. \A v \in Sweepers \ {s} :
        /\ at'[v] = at[v] /\ pass'[v] = pass[v] /\ todo'[v] = todo[v] /\ cur'[v] = cur[v]
        /\ pushOK'[v] = pushOK[v] /\ gate'[v] = gate[v] /\ agreed'[v] = agreed[v]
  BY DEF Moves, SweepsKept, SweepTyped
<1>3. SweepTyped'
  <2>1. left \in SUBSET R!Keys
    BY PairsOfPass DEF MayBe
  <2>2. QED
    BY <2>1 DEF Moves, MayBe, SweepsKept, SweepTyped
<1>4. R!PushAgreed' = R!PushAgreed
  BY DEF R!PushAgreed
<1>5. Placed(s)'
  BY <1>1 DEF MayBe, Placed, AtPair
<1>6. Agrees(s)'
  BY <1>1, <1>4 DEF MayBe, Agrees, AtPair, GateWithin
<1>7. \A v \in Sweepers \ {s} : Placed(v)'
  BY <1>2 DEF SweepsKept, Placed, AtPair
<1>8. \A v \in Sweepers \ {s} : Agrees(v)'
  BY <1>2, <1>4 DEF SweepsKept, Agrees, AtPair, GateWithin
<1>9. QED
  BY <1>3, <1>5, <1>6, <1>7, <1>8 DEF SweepsKept

\* What a sweep keeps it keeps by writing it again.
LEMMA SweepKeeps ==
  ASSUME SweepsKept, NEW s \in Sweepers
  PROVE  /\ pass = [pass EXCEPT ![s] = pass[s]] /\ todo = [todo EXCEPT ![s] = todo[s]]
         /\ cur = [cur EXCEPT ![s] = cur[s]] /\ pushOK = [pushOK EXCEPT ![s] = pushOK[s]]
         /\ gate = [gate EXCEPT ![s] = gate[s]] /\ agreed = [agreed EXCEPT ![s] = agreed[s]]
         /\ at[s] \in Places /\ pass[s] \in {"meals", "expiry"} /\ cur[s] \in R!Keys \cup {R!Nothing}
         /\ todo[s] \in SUBSET (Members \X R!Of(pass[s])) /\ todo[s] \subseteq R!Keys
         /\ pushOK[s] \in BOOLEAN /\ gate[s] \in [Members -> R!Prefs \cup {R!Nothing}]
         /\ agreed[s] \in SUBSET R!Keys /\ Placed(s) /\ Agrees(s)
BY DEF SweepsKept, SweepTyped, Placed

LEMMA SweepStartKeeps ==
  ASSUME SweepsKept, NEW s \in Sweepers, R!SweepStart(s)
  PROVE  SweepsKept'
<1> DEFINE cache == [m \in Members |-> R!Nothing]
<1>1. /\ at[s] = "idle" /\ at' = [at EXCEPT ![s] = "list"] /\ pass' = [pass EXCEPT ![s] = "meals"]
      /\ gate' = [gate EXCEPT ![s] = cache] /\ agreed' = [agreed EXCEPT ![s] = R!PushAgreed]
      /\ UNCHANGED <<prefs, todo, cur, pushOK>>
  BY DEF R!SweepStart, R!Goto, R!FreshGate, R!settings
<1>2. cur[s] = R!Nothing
  BY <1>1, SweepKeeps DEF Placed, AtPair
<1>3. cache \in [Members -> R!Prefs \cup {R!Nothing}] /\ GateWithin(cache, R!PushAgreed)
  BY DEF GateWithin, R!Keys
<1>4. R!PushAgreed \in SUBSET R!Keys
  BY DEF R!PushAgreed
<1>5. todo[s] = {} /\ "list" \in Places
  BY <1>1, SweepKeeps DEF Placed, Places
<1> HIDE DEF cache
<1>6. todo[s] \in SUBSET (Members \X R!Of("meals"))
  BY <1>5
<1>7. todo' = [todo EXCEPT ![s] = todo[s]] /\ cur' = [cur EXCEPT ![s] = cur[s]]
      /\ pushOK' = [pushOK EXCEPT ![s] = pushOK[s]] /\ pushOK[s] \in BOOLEAN
  BY <1>1, SweepKeeps
<1>8. Moves(s, "list", "meals", todo[s], cur[s], pushOK[s], cache, R!PushAgreed)
  BY <1>1, <1>7 DEF Moves
<1>9. MayBe("list", "meals", todo[s], cur[s], pushOK[s], cache, R!PushAgreed)
  BY <1>2, <1>3, <1>4, <1>5, <1>6, <1>7 DEF MayBe
<1>10. QED
  BY <1>1, <1>8, <1>9, OneSweep

LEMMA ListKeeps ==
  ASSUME SweepsKept, NEW s \in Sweepers, due \subseteq R!Reminders, R!List(s)
  PROVE  SweepsKept'
<1>1. /\ at[s] = "list" /\ at' = [at EXCEPT ![s] = "fanout"]
      /\ \E left \in {Members \X (due \cap R!Of(pass[s])), {}} : todo' = [todo EXCEPT ![s] = left]
      /\ UNCHANGED <<prefs, pass, cur, pushOK, gate, agreed>>
  BY DEF R!List, R!Goto, R!settings
<1>2. PICK left \in {Members \X (due \cap R!Of(pass[s])), {}} : todo' = [todo EXCEPT ![s] = left]
  BY <1>1
<1>3. left \in SUBSET (Members \X R!Of(pass[s]))
  OBVIOUS
<1>4. cur[s] = R!Nothing
  BY <1>1, SweepKeeps DEF Placed, AtPair
<1>5. Moves(s, "fanout", pass[s], left, cur[s], pushOK[s], gate[s], agreed[s])
  BY <1>1, <1>2, SweepKeeps DEF Moves
<1>6. MayBe("fanout", pass[s], left, cur[s], pushOK[s], gate[s], agreed[s])
  BY <1>1, <1>3, <1>4, SweepKeeps DEF MayBe, Agrees, Places
<1>7. QED
  BY <1>1, <1>5, <1>6, OneSweep

\* Done with a pair, or giving it up.
LEMMA NextPairKeeps ==
  ASSUME SweepsKept, NEW s \in Sweepers, at[s] \notin {"idle", "list"}, R!NextPair(s),
         UNCHANGED <<prefs, pass, todo, gate, agreed>>
  PROVE  SweepsKept'
<1>1. Moves(s, "fanout", pass[s], todo[s], R!Nothing, FALSE, gate[s], agreed[s])
  BY SweepKeeps DEF Moves, R!NextPair, R!Goto
<1>2. MayBe("fanout", pass[s], todo[s], R!Nothing, FALSE, gate[s], agreed[s])
  BY SweepKeeps DEF MayBe, Agrees, Places
<1>3. QED
  BY <1>1, <1>2, OneSweep

LEMMA DecideKeeps ==
  ASSUME SweepsKept, NEW s \in Sweepers, prefs \in [Members -> R!Prefs], R!Decide(s)
  PROVE  SweepsKept'
<1>1. at[s] = "fanout" /\ UNCHANGED <<prefs, pass, agreed>>
  BY DEF R!Decide, R!settings
<1>2. PICK k \in todo[s] :
        LET m == k[1]
            prefRow == IF gate[s][m] = R!Nothing THEN prefs[m] ELSE gate[s][m]
        IN \/ /\ R!Proceed(s, k, R!FeedAllowed(prefRow, R!Category(k[2])), Allows(prefRow, k))
              /\ gate' = [gate EXCEPT ![s][m] = prefRow]
           \/ R!Proceed(s, k, TRUE, FALSE) /\ UNCHANGED gate
  BY DEF R!Decide, Allows
<1> DEFINE m == k[1]
           prefRow == IF gate[s][m] = R!Nothing THEN prefs[m] ELSE gate[s][m]
           cache == [gate[s] EXCEPT ![m] = prefRow]
<1>3. k \in R!Keys /\ m \in Members /\ k # R!Nothing /\ k \in Members \X R!Of(pass[s])
  BY SweepKeeps, PairIsSomething DEF R!Keys
<1>4. ASSUME NEW feedOK \in BOOLEAN, NEW push \in BOOLEAN, R!Proceed(s, k, feedOK, push),
             NEW into \in [Members -> R!Prefs \cup {R!Nothing}], gate' = [gate EXCEPT ![s] = into],
             GateWithin(into, agreed[s]), push => k \in agreed[s]
      PROVE  SweepsKept'
  <2> DEFINE to == IF feedOK THEN "feed" ELSE IF push THEN "push" ELSE "fanout"
             pair == IF feedOK \/ push THEN k ELSE R!Nothing
             left == todo[s] \ {k}
  <2>1. Moves(s, to, pass[s], left, pair, push, into, agreed[s])
    BY <1>1, <1>4, SweepKeeps DEF Moves, R!Proceed, R!Goto
  <2>2. /\ to \in Places /\ (to \in {"feed", "prune", "push"} <=> pair # R!Nothing)
        /\ (to = "push" => push) /\ to \notin {"idle", "list"}
        /\ pair \in R!Keys \cup {R!Nothing}
        /\ pair # R!Nothing => pair = k
    BY <1>3 DEF Places
  <2>3. left \in SUBSET (Members \X R!Of(pass[s])) /\ k \notin left
    BY SweepKeeps
  <2> HIDE DEF to, pair, left
  <2>4. MayBe(to, pass[s], left, pair, push, into, agreed[s])
    BY <1>1, <1>3, <1>4, <2>2, <2>3, SweepKeeps DEF MayBe, Agrees
  <2>5. QED
    BY <1>1, <2>1, <2>4, OneSweep
<1>5. prefRow \in R!Prefs /\ cache \in [Members -> R!Prefs \cup {R!Nothing}]
  BY <1>3, SweepKeeps
<1>6. GateWithin(gate[s], agreed[s]) /\ R!PushAgreed \subseteq agreed[s]
  BY <1>1, SweepKeeps DEF Agrees
<1>7. \A q \in R!Keys : q[1] = m /\ Allows(prefRow, q) => q \in agreed[s]
  BY <1>6 DEF GateWithin, R!PushAgreed, Allows
<1>8. GateWithin(cache, agreed[s])
  <2>1. \A q \in R!Keys : q[1] \in Members /\ cache[q[1]] = IF q[1] = m THEN prefRow ELSE gate[s][q[1]]
    BY SweepKeeps DEF R!Keys
  <2> HIDE DEF cache, prefRow, m
  <2>2. QED
    BY <1>6, <1>7, <2>1 DEF GateWithin
<1>9. CASE /\ R!Proceed(s, k, R!FeedAllowed(prefRow, R!Category(k[2])), Allows(prefRow, k))
           /\ gate' = [gate EXCEPT ![s][m] = prefRow]
  <2>1. gate' = [gate EXCEPT ![s] = cache]
    BY <1>9
  <2>2. R!FeedAllowed(prefRow, R!Category(k[2])) \in BOOLEAN /\ Allows(prefRow, k) \in BOOLEAN
    BY DEF R!FeedAllowed, Allows, R!PushAllowed
  <2>3. Allows(prefRow, k) => k \in agreed[s]
    BY <1>3, <1>7
  <2> HIDE DEF cache, prefRow
  <2>4. QED
    BY <1>4, <1>5, <1>8, <1>9, <2>1, <2>2, <2>3
<1>10. CASE R!Proceed(s, k, TRUE, FALSE) /\ UNCHANGED gate
  <2>1. gate' = [gate EXCEPT ![s] = gate[s]] /\ gate[s] \in [Members -> R!Prefs \cup {R!Nothing}]
    BY <1>10, SweepKeeps
  <2>2. QED
    BY <1>4, <1>6, <1>10, <2>1
<1>11. QED
  BY <1>2, <1>9, <1>10

LEMMA InsertsKeep ==
  ASSUME SweepsKept, NEW s \in Sweepers, R!FeedInsert(s) \/ R!Prune(s) \/ R!PushInsert(s)
  PROVE  SweepsKept'
<1>1. at[s] \in {"feed", "prune", "push"} /\ UNCHANGED <<prefs, pass, todo, gate, agreed>>
  BY DEF R!FeedInsert, R!Prune, R!PushInsert, R!settings
<1>2. CASE R!NextPair(s)
  BY <1>1, <1>2, NextPairKeeps
<1>3. CASE at[s] = "feed" /\ at' = [at EXCEPT ![s] = "prune"] /\ UNCHANGED cur
           /\ pushOK' = [pushOK EXCEPT ![s] = pushOK[s]]
  <2>1. Moves(s, "prune", pass[s], todo[s], cur[s], pushOK[s], gate[s], agreed[s])
    BY <1>1, <1>3, SweepKeeps DEF Moves
  <2>2. MayBe("prune", pass[s], todo[s], cur[s], pushOK[s], gate[s], agreed[s])
    BY <1>1, <1>3, SweepKeeps DEF MayBe, Placed, Agrees, AtPair, Places
  <2>3. QED
    BY <1>1, <2>1, <2>2, OneSweep
<1>4. CASE at[s] = "prune" /\ at' = [at EXCEPT ![s] = "push"] /\ pushOK[s] /\ UNCHANGED <<cur, pushOK>>
  <2>1. Moves(s, "push", pass[s], todo[s], cur[s], pushOK[s], gate[s], agreed[s])
    BY <1>1, <1>4, SweepKeeps DEF Moves
  <2>2. MayBe("push", pass[s], todo[s], cur[s], pushOK[s], gate[s], agreed[s])
    BY <1>1, <1>4, SweepKeeps DEF MayBe, Placed, Agrees, AtPair, Places
  <2>3. QED
    BY <1>1, <2>1, <2>2, OneSweep
<1>5. QED
  BY <1>2, <1>3, <1>4 DEF R!FeedInsert, R!Prune, R!PushInsert, R!Goto, R!StillPushed

LEMMA EndsKeep ==
  ASSUME SweepsKept, NEW s \in Sweepers, R!EndPass(s) \/ R!Crash(s)
  PROVE  SweepsKept'
<1>1. CASE R!EndPass(s) /\ pass[s] = "meals"
  <2>1. /\ at[s] = "fanout" /\ todo[s] = {} /\ at' = [at EXCEPT ![s] = "list"]
        /\ pass' = [pass EXCEPT ![s] = "expiry"]
        /\ UNCHANGED <<prefs, todo, cur, pushOK, gate, agreed>>
    BY <1>1 DEF R!EndPass, R!Goto, R!settings
  <2>2. Moves(s, "list", "expiry", todo[s], cur[s], pushOK[s], gate[s], agreed[s])
    BY <2>1, SweepKeeps DEF Moves
  <2>3. MayBe("list", "expiry", todo[s], cur[s], pushOK[s], gate[s], agreed[s])
    BY <2>1, SweepKeeps DEF MayBe, Placed, Agrees, AtPair, Places
  <2>4. QED
    BY <2>1, <2>2, <2>3, OneSweep
<1>2. CASE R!EndPass(s) /\ pass[s] # "meals"
  <2>1. /\ at[s] = "fanout" /\ todo[s] = {} /\ at' = [at EXCEPT ![s] = "idle"]
        /\ pass' = [pass EXCEPT ![s] = "meals"] /\ agreed' = [agreed EXCEPT ![s] = {}]
        /\ UNCHANGED <<prefs, todo, cur, pushOK, gate>>
    BY <1>2 DEF R!EndPass, R!Goto, R!settings
  <2>2. Moves(s, "idle", "meals", todo[s], cur[s], pushOK[s], gate[s], {})
    BY <2>1, SweepKeeps DEF Moves
  <2>3. MayBe("idle", "meals", todo[s], cur[s], pushOK[s], gate[s], {})
    BY <2>1, SweepKeeps DEF MayBe, Placed, AtPair, Places
  <2>4. QED
    BY <2>1, <2>2, <2>3, OneSweep
<1>3. CASE R!Crash(s)
  <2> DEFINE cache == [m \in Members |-> R!Nothing]
  <2>1. /\ at' = [at EXCEPT ![s] = "idle"] /\ pass' = [pass EXCEPT ![s] = "meals"]
        /\ todo' = [todo EXCEPT ![s] = {}] /\ cur' = [cur EXCEPT ![s] = R!Nothing]
        /\ pushOK' = [pushOK EXCEPT ![s] = FALSE] /\ gate' = [gate EXCEPT ![s] = cache]
        /\ agreed' = [agreed EXCEPT ![s] = {}] /\ UNCHANGED prefs
    BY <1>3 DEF R!Crash, R!Goto, R!settings
  <2>2. cache \in [Members -> R!Prefs \cup {R!Nothing}]
    OBVIOUS
  <2> HIDE DEF cache
  <2>3. Moves(s, "idle", "meals", {}, R!Nothing, FALSE, cache, {})
    BY <2>1 DEF Moves
  <2>4. MayBe("idle", "meals", {}, R!Nothing, FALSE, cache, {})
    BY <2>2 DEF MayBe, Places
  <2>5. QED
    BY <2>1, <2>3, <2>4, OneSweep
<1>4. QED
  BY <1>1, <1>2, <1>3

\* A preference row is stored: what it allows is agreed to in every sweep under way.
LEMMA StoreKeeps ==
  ASSUME RemindersInv, NEW m \in Members, NEW c \in R!Categories, NEW stored \in Pref,
         R!Store(m, c, stored), UNCHANGED <<at, pass, todo, cur, pushOK, gate>>
  PROVE  prefs' \in [Members -> R!Prefs] /\ SweepsKept'
<1>1. prefs' = [prefs EXCEPT ![m][c] = stored] /\ prefs' \in [Members -> R!Prefs]
  BY DEF R!Store, RemindersInv, RowsTyped, R!Prefs, Pref
<1>2. R!PushAgreed' = {k \in R!Keys : R!PushAllowed(prefs'[k[1]], R!Category(k[2]))}
  BY DEF R!PushAgreed
<1>3. agreed' = [s \in Sweepers |-> IF at[s] = "idle" THEN {} ELSE agreed[s] \cup R!PushAgreed']
  BY <1>2 DEF R!Store
<1>4. R!PushAgreed' \subseteq R!Keys
  BY <1>2
<1>5. SweepTyped'
  BY <1>3, <1>4 DEF RemindersInv, SweepsKept, SweepTyped
<1>6. \A s \in Sweepers : Placed(s)'
  BY <1>3 DEF RemindersInv, SweepsKept, Placed, AtPair
<1>7. \A s \in Sweepers : Agrees(s)'
  BY <1>3 DEF RemindersInv, SweepsKept, Agrees, AtPair, GateWithin
<1>8. QED
  BY <1>1, <1>5, <1>6, <1>7 DEF SweepsKept

LEMMA EditsKeep ==
  ASSUME RemindersInv,
         \/ \E m \in Members, c \in Switched, o \in Operations : R!EditRead(m, c, o)
         \/ \E m \in Members, c \in Switched, on \in BOOLEAN : R!SetPush(m, c, on)
         \/ \E e \in pending : R!EditWrite(e)
  PROVE  RemindersInv'
<1>1. ASSUME NEW m \in Members, NEW c \in Switched, NEW o \in Operations, R!EditRead(m, c, o)
      PROVE  RemindersInv'
  <2>1. /\ pending' = pending \cup {[who |-> m, category |-> c, op |-> o, row |-> prefs[m][c]]}
        /\ UNCHANGED <<due, feed, outbox, at, pass, todo, cur, pushOK, gate, prefs, chosen, agreed>>
    BY <1>1 DEF R!EditRead, R!sweep
  <2>2. prefs[m][c] \in Pref /\ c \in R!Categories
    BY SwitchedAssumption DEF RemindersInv, RowsTyped, R!Prefs, Pref
  <2>3. RowsTyped'
    BY <2>1, <2>2 DEF RemindersInv, RowsTyped, R!PushChoiceKept
  <2>4. SweepsKept'
    BY <2>1 DEF RemindersInv, SweepsKept, SweepTyped, Placed, Agrees, AtPair, R!PushAgreed
  <2>5. QED
    BY <2>3, <2>4 DEF RemindersInv
<1>2. ASSUME NEW m \in Members, NEW c \in Switched, NEW on \in BOOLEAN, R!SetPush(m, c, on)
      PROVE  RemindersInv'
  <2> DEFINE stored == [prefs[m][c] EXCEPT !.push = on]
  <2>1. /\ R!Store(m, c, stored) /\ chosen' = [chosen EXCEPT ![m][c] = on]
        /\ UNCHANGED <<due, feed, outbox, at, pass, todo, cur, pushOK, gate, pending>>
    BY <1>2 DEF R!SetPush, R!sweep
  <2>2. prefs[m][c] \in Pref /\ c \in R!Categories
    BY SwitchedAssumption DEF RemindersInv, RowsTyped, R!Prefs, Pref
  <2>3. stored \in Pref /\ stored.push = on
    BY <2>2 DEF Pref
  <2>4. prefs' = [prefs EXCEPT ![m][c] = stored]
    BY <2>1 DEF R!Store
  <2> HIDE DEF stored
  <2>5. prefs' \in [Members -> R!Prefs] /\ SweepsKept'
    BY <2>1, <2>2, <2>3, StoreKeeps
  <2>6. R!PushChoiceKept'
    <3>1. \A q \in Members, d \in R!Categories :
            /\ prefs'[q][d] = IF q = m /\ d = c THEN stored ELSE prefs[q][d]
            /\ chosen'[q][d] = IF q = m /\ d = c THEN on ELSE chosen[q][d]
      BY <2>1, <2>2, <2>4 DEF RemindersInv, RowsTyped, R!Prefs
    <3>2. QED
      BY <2>3, <3>1 DEF RemindersInv, RowsTyped, R!PushChoiceKept
  <2>7. chosen' \in [Members -> [R!Categories -> BOOLEAN]]
    BY <2>1, <2>2 DEF RemindersInv, RowsTyped
  <2>8. QED
    BY <2>1, <2>5, <2>6, <2>7 DEF RemindersInv, RowsTyped
<1>3. ASSUME NEW e \in pending, R!EditWrite(e) PROVE RemindersInv'
  <2> DEFINE m == e.who
             c == e.category
             stored == R!Edited(e)
  <2>1. /\ pending' = pending \ {e} /\ R!Store(m, c, stored)
        /\ UNCHANGED <<due, feed, outbox, at, pass, todo, cur, pushOK, gate, chosen>>
    BY <1>3 DEF R!EditWrite, R!sweep
  <2>2. m \in Members /\ c \in R!Categories /\ e.row \in Pref /\ prefs[m][c] \in Pref
    BY DEF RemindersInv, RowsTyped, R!Prefs, Pref
  <2>3. stored \in Pref /\ stored.push = prefs[m][c].push
    BY <2>2 DEF R!Edited, Pref
  <2>4. prefs' = [prefs EXCEPT ![m][c] = stored]
    BY <2>1 DEF R!Store
  <2> HIDE DEF stored, m, c
  <2>5. prefs' \in [Members -> R!Prefs] /\ SweepsKept'
    BY <2>1, <2>2, <2>3, StoreKeeps
  <2>6. R!PushChoiceKept'
    <3>1. \A q \in Members, d \in R!Categories :
            prefs'[q][d] = IF q = m /\ d = c THEN stored ELSE prefs[q][d]
      BY <2>2, <2>4 DEF RemindersInv, RowsTyped, R!Prefs
    <3>2. \A q \in Members, d \in R!Categories : prefs'[q][d].push = prefs[q][d].push
      BY <2>3, <3>1
    <3>3. \A q \in Members, d \in R!Categories : prefs[q][d].push = chosen'[q][d]
      BY <2>1 DEF RemindersInv, RowsTyped, R!PushChoiceKept
    <3>4. QED
      BY <3>2, <3>3, Zenon DEF R!PushChoiceKept
  <2>7. QED
    BY <2>1, <2>5, <2>6 DEF RemindersInv, RowsTyped
<1>4. QED
  BY <1>1, <1>2, <1>3

\* Where only rows of the feed, of the outbox or of what is due are written.
LEMMA RowsWritten ==
  ASSUME RowsTyped, due' \subseteq R!Reminders, outbox' \subseteq R!Keys,
         feed' \in [Members -> Seq(Entries)], UNCHANGED <<prefs, chosen, pending>>
  PROVE  RowsTyped'
BY DEF RowsTyped, R!PushChoiceKept

LEMMA SweepRows ==
  ASSUME RemindersInv, NEW s \in Sweepers, R!SweepStep(s) \/ R!Crash(s)
  PROVE  RowsTyped'
<1>1. UNCHANGED <<due, prefs, chosen, pending>>
  BY DEF R!SweepStep, R!SweepStart, R!List, R!Decide, R!FeedInsert, R!Prune, R!PushInsert,
         R!EndPass, R!Crash, R!settings
<1>2. AtPair(s) => cur[s] \in R!Keys /\ cur[s][1] \in Members /\ cur[s][2] \in R!Reminders
  BY DEF RemindersInv, SweepsKept, SweepTyped, Placed, R!Keys
<1>3. feed' \in [Members -> Seq(Entries)]
  <2>1. CASE UNCHANGED feed
    BY <2>1 DEF RemindersInv, RowsTyped
  <2>2. CASE AtPair(s) /\ R!Insert(cur[s][1], cur[s][2])
    BY <1>2, <2>2, FeedWritten DEF RemindersInv, RowsTyped
  <2>3. CASE AtPair(s) /\ R!PruneRead(cur[s][1], feed[cur[s][1]])
    BY <1>2, <2>3, FeedWritten DEF RemindersInv, RowsTyped
  <2>4. QED
    BY <2>1, <2>2, <2>3
       DEF R!SweepStep, R!SweepStart, R!List, R!Decide, R!FeedInsert, R!Prune, R!PushInsert,
           R!EndPass, R!Crash, R!InsertOnce, AtPair
<1>4. outbox' \subseteq R!Keys
  <2>1. CASE UNCHANGED outbox
    BY <2>1 DEF RemindersInv, RowsTyped
  <2>2. CASE AtPair(s) /\ outbox' = outbox \cup {cur[s]}
    BY <1>2, <2>2 DEF RemindersInv, RowsTyped
  <2>3. QED
    BY <2>1, <2>2
       DEF R!SweepStep, R!SweepStart, R!List, R!Decide, R!FeedInsert, R!Prune, R!PushInsert,
           R!EndPass, R!Crash, AtPair
<1>5. QED
  BY <1>1, <1>3, <1>4, RowsWritten DEF RemindersInv, RowsTyped

LEMMA MembersKeep ==
  ASSUME RemindersInv,
         \/ \E m \in Members : R!MarkRead(m) \/ R!EventNotification(m)
         \/ \E r \in R!Reminders : R!Trigger(r)
  PROVE  RemindersInv'
<1>1. UNCHANGED <<outbox, prefs, chosen, pending, at, pass, todo, cur, pushOK, gate, agreed>>
  BY DEF R!MarkRead, R!EventNotification, R!Trigger, R!settings, R!sweep
<1>2. due' \subseteq R!Reminders
  BY DEF R!MarkRead, R!EventNotification, R!Trigger, RemindersInv, RowsTyped
<1>3. feed' \in [Members -> Seq(Entries)]
  <2>1. ASSUME NEW m \in Members, R!MarkRead(m) PROVE feed' \in [Members -> Seq(Entries)]
    BY <2>1, FeedMarked DEF R!MarkRead, RemindersInv, RowsTyped
  <2>2. ASSUME NEW m \in Members, R!EventNotification(m) PROVE feed' \in [Members -> Seq(Entries)]
    BY <2>2, FeedWritten DEF R!EventNotification, RemindersInv, RowsTyped
  <2>3. ASSUME NEW r \in R!Reminders, R!Trigger(r) PROVE feed' \in [Members -> Seq(Entries)]
    BY <2>3 DEF R!Trigger, RemindersInv, RowsTyped
  <2>4. QED
    BY <2>1, <2>2, <2>3
<1>4. RowsTyped'
  BY <1>1, <1>2, <1>3, RowsWritten DEF RemindersInv, RowsTyped
<1>5. SweepsKept'
  BY <1>1 DEF RemindersInv, SweepsKept, SweepTyped, Placed, Agrees, AtPair, R!PushAgreed
<1>6. QED
  BY <1>4, <1>5 DEF RemindersInv

LEMMA RemindersNext == RemindersInv /\ [R!Next]_(R!vars) => RemindersInv'
<1> SUFFICES ASSUME RemindersInv, [R!Next]_(R!vars) PROVE RemindersInv'
  OBVIOUS
<1>1. ASSUME NEW s \in Sweepers, R!SweepStep(s) \/ R!Crash(s) PROVE RemindersInv'
  <2>1. RowsTyped'
    BY <1>1, SweepRows
  <2>2. SweepsKept /\ due \subseteq R!Reminders /\ prefs \in [Members -> R!Prefs]
    BY DEF RemindersInv, RowsTyped
  <2>3. SweepsKept'
    BY <1>1, <2>2, SweepStartKeeps, ListKeeps, DecideKeeps, InsertsKeep, EndsKeep DEF R!SweepStep
  <2>4. QED
    BY <2>1, <2>3 DEF RemindersInv
<1>2. CASE \/ \E m \in Members : R!MarkRead(m) \/ R!EventNotification(m)
           \/ \E r \in R!Reminders : R!Trigger(r)
  BY <1>2, MembersKeep
<1>3. CASE \/ \E m \in Members, c \in Switched, o \in Operations : R!EditRead(m, c, o)
           \/ \E m \in Members, c \in Switched, on \in BOOLEAN : R!SetPush(m, c, on)
           \/ \E e \in pending : R!EditWrite(e)
  BY <1>3, EditsKeep
<1>4. CASE UNCHANGED R!vars
  <2>1. UNCHANGED <<due, feed, outbox, prefs, chosen, pending, at, pass, todo, cur, pushOK, gate, agreed>>
    BY <1>4 DEF R!vars, R!settings, R!sweep
  <2>2. RowsTyped'
    BY <2>1, RowsWritten DEF RemindersInv, RowsTyped
  <2>3. SweepsKept'
    BY <2>1 DEF RemindersInv, SweepsKept, SweepTyped, Placed, Agrees, AtPair, R!PushAgreed
  <2>4. QED
    BY <2>2, <2>3 DEF RemindersInv
<1>5. QED
  BY <1>1, <1>2, <1>3, <1>4, Zenon DEF R!Next

\* A sweep pushes a reminder only to a member whose preferences allowed it at some
\* moment of that sweep (gateCache, decisions), and the push switch is what it was
\* last set to, whatever edits of the same row overlap (SetCategoryPushEnabled
\* beside upsertPref): for every number of processes, edits, faults and crashes.
THEOREM PushesAreConsented == RemindersSpec => []ConsentKept
<1>1. RemindersInv => ConsentKept
  <2> SUFFICES ASSUME RemindersInv PROVE ConsentKept
    OBVIOUS
  <2>1. R!TypeOK
    <3>1. \A m \in Members : feed[m] \in Seq([key : R!Reminders \cup {R!Event}, read : BOOLEAN])
      BY DEF RemindersInv, RowsTyped, Entries
    <3>2. \A e \in pending : e.who \in Members /\ e.category \in R!Categories
      BY DEF RemindersInv, RowsTyped
    <3>3. due \subseteq R!Reminders /\ outbox \subseteq R!Keys /\ prefs \in [Members -> R!Prefs]
      BY DEF RemindersInv, RowsTyped
    <3>4. \A s \in Sweepers :
            /\ todo[s] \subseteq Members \X R!Of(pass[s])
            /\ at[s] \in {"feed", "prune", "push"} <=> cur[s] # R!Nothing
            /\ cur[s] # R!Nothing => cur[s] \in (Members \X R!Of(pass[s])) \ todo[s]
            /\ at[s] = "push" => pushOK[s]
            /\ at[s] = "idle" => agreed[s] = {}
      BY DEF RemindersInv, SweepsKept, Placed, AtPair
    <3>5. QED
      BY <3>1, <3>2, <3>3, <3>4 DEF R!TypeOK
  <2>2. R!PushConsented
    BY DEF RemindersInv, SweepsKept, Placed, Agrees, AtPair, R!PushConsented
  <2>3. QED
    BY <2>1, <2>2 DEF RemindersInv, RowsTyped, ConsentKept, R!ConsentKept
<1>2. QED
  BY <1>1, RemindersInit, RemindersNext, PTL DEF RemindersSpec, R!Spec
=============================================================================
