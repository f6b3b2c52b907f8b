--------------------------- MODULE RefreshesProofs -----------------------------
(***************************************************************************)
(* Theorems about what is derived from what others change - key sets,      *)
(* embeddings, catalog snapshots, a household's tweaks, and the steps and  *)
(* the timeline of an event - for any number of requests, any recipes and  *)
(* tweaks, and any bounds.                                                 *)
(***************************************************************************)
EXTENDS MCRefreshes, MCRecipes, EventPlans, FiniteSetTheorems, TLAPS

(***************************************************************************)
(* Key sets: fetches come one after the other, nobody waits for one that   *)
(* will not end, and the cached key set never goes back.                   *)
(***************************************************************************)

States == {"reading", "read", "done"}
Places == {"idle", "look", "join", "wait", "parse", "retry"} \cup Answers

KeysTyped ==
  /\ key \in Nat /\ set \in Nat
  /\ inflight \in Fetches \cup {NoFetch}
  /\ fetch \in [Fetches -> [state : States, set : Nat, leader : Verifiers \cup {Background}]]
  /\ at \in [Verifiers -> Places]
  /\ joined \in [Verifiers -> Fetches \cup {NoFetch}]

\* Nobody knows a key the provider has not had, and what a fetch has read is
\* not older than what was installed before it.
Ahead ==
  /\ set <= key
  /\ \A f \in Fetches : /\ fetch[f].set <= key
                        /\ fetch[f].state = "reading" => fetch[f].set = None
                        /\ fetch[f].state = "read" /\ fetch[f].set # None => fetch[f].set >= set

OneFetch == \A f \in Fetches : fetch[f].state # "done" <=> f = inflight
WaitersJoined == \A v \in Verifiers : at[v] = "wait" <=> joined[v] # NoFetch

KeysInv == KeysTyped /\ Ahead /\ OneFetch /\ WaitersJoined

-----------------------------------------------------------------------------

LEMMA KeysInit == Init => KeysInv
BY KeySetsAssumption
   DEF Init, KeysInv, KeysTyped, Ahead, OneFetch, WaitersJoined, NotStarted, States, Places, Answers, None

\* A verifier moves from one place to another without waiting in either.
LEMMA MovesKeep ==
  ASSUME KeysInv, NEW v \in Verifiers, NEW to \in Places \ {"wait"},
         at[v] # "wait", Goto(v, to), UNCHANGED <<key, set, inflight, fetch, joined>>
  PROVE  KeysInv'
<1> USE DEF Goto
<1>1. KeysTyped'
  BY DEF KeysInv, KeysTyped
<1>2. Ahead' /\ OneFetch'
  BY DEF KeysInv, Ahead, OneFetch
<1>3. WaitersJoined'
  BY DEF KeysInv, KeysTyped, WaitersJoined
<1>4. QED
  BY <1>1, <1>2, <1>3 DEF KeysInv

\* A verifier begins to wait for the fetch in flight.
LEMMA JoinsKeep ==
  ASSUME KeysInv, NEW v \in Verifiers, NEW f \in Fetches,
         Goto(v, "wait"), joined' = [joined EXCEPT ![v] = f]
  PROVE  /\ at' \in [Verifiers -> Places] /\ joined' \in [Verifiers -> Fetches \cup {NoFetch}]
         /\ WaitersJoined'
BY KeySetsAssumption DEF KeysInv, KeysTyped, Places, WaitersJoined, Goto

LEMMA StartKeeps ==
  ASSUME KeysInv, NEW v \in Verifiers, StartFetch(v)
  PROVE  KeysInv'
<1>1. PICK f \in Fetches :
        /\ Forgotten(f) /\ inflight' = f
        /\ fetch' = [fetch EXCEPT ![f] = [state |-> "reading", set |-> None,
                       leader |-> IF HasStale(v) THEN Background ELSE v]]
        /\ IF HasStale(v) THEN Goto(v, "parse") /\ UNCHANGED joined
                          ELSE Goto(v, "wait") /\ joined' = [joined EXCEPT ![v] = f]
  BY DEF StartFetch
<1>2. at[v] = "join" /\ inflight = NoFetch /\ UNCHANGED <<key, set>>
  BY DEF StartFetch, Running, provider, cache
<1>3. /\ fetch' \in [Fetches -> [state : States, set : Nat, leader : Verifiers \cup {Background}]]
      /\ fetch'[f].state = "reading" /\ fetch'[f].set = 0
      /\ \A g \in Fetches \ {f} : fetch'[g] = fetch[g]
  BY <1>1 DEF KeysInv, KeysTyped, States, None
<1>4. \A g \in Fetches : fetch[g].state = "done"
  BY <1>2, KeySetsAssumption DEF KeysInv, OneFetch
<1>5. OneFetch' /\ Ahead'
  BY <1>1, <1>2, <1>3, <1>4 DEF KeysInv, KeysTyped, OneFetch, Ahead
<1>6. /\ at' \in [Verifiers -> Places] /\ joined' \in [Verifiers -> Fetches \cup {NoFetch}]
      /\ WaitersJoined'
  <2>1. CASE HasStale(v)
    BY <1>1, <1>2, <2>1 DEF KeysInv, KeysTyped, Places, WaitersJoined, Goto
  <2>2. CASE ~HasStale(v)
    BY <1>1, <2>2, JoinsKeep
  <2>3. QED
    BY <2>1, <2>2
<1>7. QED
  BY <1>1, <1>2, <1>3, <1>5, <1>6 DEF KeysInv, KeysTyped

LEMMA WakeKeeps ==
  ASSUME KeysInv, NEW v \in Verifiers, Wake(v)
  PROVE  KeysInv'
<1>1. /\ at[v] = "wait" /\ fetch[joined[v]].state = "done"
      /\ at' = [at EXCEPT ![v] = IF Result(v) = None THEN Verdict(v) ELSE "parse"]
      /\ joined' = [joined EXCEPT ![v] = NoFetch]
      /\ UNCHANGED <<key, set, inflight>>
      /\ \/ fetch' = fetch
         \/ fetch' = [fetch EXCEPT ![joined[v]] = NotStarted]
  <2>1. fetch' = [fetch EXCEPT ![joined[v]] =
                   IF \E w \in Verifiers \ {v} : joined[w] = joined[v] THEN @ ELSE NotStarted]
    BY DEF Wake
  <2>2. fetch' = fetch \/ fetch' = [fetch EXCEPT ![joined[v]] = NotStarted]
    BY <2>1 DEF KeysInv, KeysTyped
  <2>3. QED
    BY <2>2 DEF Wake, Goto, provider, cache
<1>2. joined[v] \in Fetches
  BY <1>1 DEF KeysInv, KeysTyped, WaitersJoined
<1>3. /\ fetch' \in [Fetches -> [state : States, set : Nat, leader : Verifiers \cup {Background}]]
      /\ \A g \in Fetches : fetch'[g] = fetch[g] \/ (fetch'[g].state = "done" /\ fetch[g].state = "done" /\ fetch'[g].set = 0)
  BY <1>1, <1>2 DEF KeysInv, KeysTyped, States, NotStarted, None
<1>4. Ahead' /\ OneFetch'
  BY <1>1, <1>3 DEF KeysInv, KeysTyped, Ahead, OneFetch
<1>5. at' \in [Verifiers -> Places] /\ at'[v] # "wait"
  BY <1>1 DEF KeysInv, KeysTyped, Places, Answers, Verdict
<1>6. WaitersJoined' /\ joined' \in [Verifiers -> Fetches \cup {NoFetch}]
  BY <1>1, <1>5 DEF KeysInv, KeysTyped, WaitersJoined
<1>7. QED
  BY <1>1, <1>3, <1>4, <1>5, <1>6 DEF KeysInv, KeysTyped

LEMMA VerifierKeeps ==
  ASSUME KeysInv, NEW v \in Verifiers,
         (\E k \in 1..MaxRotations : Begin(v, k)) \/ VerifierStep(v) \/ Cancel(v)
  PROVE  KeysInv'
<1> USE DEF Places, Answers
<1>1. CASE \E k \in 1..MaxRotations : Begin(v, k)
  BY <1>1, MovesKeep DEF Begin, provider, cache, fetches
<1>2. CASE Look(v)
  <2>1. Goto(v, "parse") \/ Goto(v, "join")
    BY <1>2 DEF Look
  <2>2. QED
    BY <1>2, <2>1, MovesKeep DEF Look, provider, cache, fetches
<1>3. CASE JoinFetch(v)
  <2>1. CASE HasStale(v)
    BY <1>3, <2>1, MovesKeep DEF JoinFetch, provider, cache, fetches
  <2>2. CASE ~HasStale(v)
    <3>1. /\ Goto(v, "wait") /\ joined' = [joined EXCEPT ![v] = inflight]
          /\ UNCHANGED <<key, set, inflight, fetch>> /\ inflight # NoFetch
      BY <1>3, <2>2 DEF JoinFetch, Running, provider, cache, fetches
    <3>2. inflight \in Fetches
      BY <3>1 DEF KeysInv, KeysTyped
    <3>3. /\ at' \in [Verifiers -> Places] /\ joined' \in [Verifiers -> Fetches \cup {NoFetch}]
          /\ WaitersJoined'
      BY <3>1, <3>2, JoinsKeep
    <3>4. QED
      BY <3>1, <3>3 DEF KeysInv, KeysTyped, Ahead, OneFetch
  <2>3. QED
    BY <2>1, <2>2
<1>4. CASE StartFetch(v)
  BY <1>4, StartKeeps
<1>5. CASE Wake(v)
  BY <1>5, WakeKeeps
<1>6. CASE Parse(v)
  <2>1. Goto(v, "accepted") \/ Goto(v, "rejected") \/ Goto(v, "retry")
    BY <1>6 DEF Parse
  <2>2. QED
    BY <1>6, <2>1, MovesKeep DEF Parse, provider, cache, fetches
<1>7. CASE Retry(v)
  <2>1. Goto(v, "look") \/ Goto(v, "rejected")
    BY <1>7 DEF Retry
  <2>2. QED
    BY <1>7, <2>1, MovesKeep DEF Retry, provider, cache, fetches
<1>8. CASE Answer(v)
  BY <1>8, MovesKeep DEF Answer, provider, cache, fetches
<1>9. CASE Cancel(v)
  <2>1. /\ at' = [at EXCEPT ![v] = Verdict(v)] /\ joined' = [joined EXCEPT ![v] = NoFetch]
        /\ Verdict(v) \in {"rejected", "unavailable"}
        /\ UNCHANGED <<key, set, inflight, fetch>>
    BY <1>9 DEF Cancel, Goto, Verdict, Fault, cache, fetches
  <2>2. QED
    BY <2>1 DEF KeysInv, KeysTyped, Ahead, OneFetch, WaitersJoined
<1>10. QED
  BY <1>1, <1>2, <1>3, <1>4, <1>5, <1>6, <1>7, <1>8, <1>9 DEF VerifierStep

LEMMA FetchKeeps ==
  ASSUME KeysInv, NEW f \in Fetches, FetchStep(f)
  PROVE  KeysInv' /\ set' >= set
<1>1. CASE FetchKeySet(f)
  <2>1. /\ UNCHANGED <<key, set, inflight, at, joined>>
        /\ fetch[f].state = "reading"
        /\ \/ fetch' = [fetch EXCEPT ![f].state = "read", ![f].set = key]
           \/ fetch' = [fetch EXCEPT ![f].state = "read"]
    BY <1>1 DEF FetchKeySet, Fine, Fault, provider, cache, verifier
  <2>2. /\ fetch' \in [Fetches -> [state : States, set : Nat, leader : Verifiers \cup {Background}]]
        /\ fetch'[f].state = "read" /\ fetch'[f].set \in {key, fetch[f].set}
        /\ \A g \in Fetches \ {f} : fetch'[g] = fetch[g]
    BY <2>1 DEF KeysInv, KeysTyped, States
  <2>3. Ahead' /\ OneFetch'
    <3>1. fetch'[f].set \in {key, None}
      BY <2>1, <2>2 DEF KeysInv, Ahead
    <3>2. QED
      BY <2>1, <2>2, <3>1 DEF KeysInv, KeysTyped, Ahead, OneFetch, None
  <2>4. QED
    BY <2>1, <2>2, <2>3 DEF KeysInv, KeysTyped, WaitersJoined
<1>2. CASE Complete(f)
  <2>1. /\ UNCHANGED <<key, at, joined>> /\ fetch[f].state = "read"
        /\ inflight' = NoFetch
        /\ (set' = fetch[f].set /\ fetch[f].set # None) \/ set' = set
        /\ \/ fetch' = [fetch EXCEPT ![f].state = "done"]
           \/ fetch' = [fetch EXCEPT ![f] = NotStarted]
    BY <1>2 DEF Complete, Cleared, provider, verifier, cache
  <2>2. /\ fetch' \in [Fetches -> [state : States, set : Nat, leader : Verifiers \cup {Background}]]
        /\ fetch'[f].state = "done" /\ fetch'[f].set \in {None, fetch[f].set}
        /\ \A g \in Fetches \ {f} : fetch'[g] = fetch[g]
    BY <2>1 DEF KeysInv, KeysTyped, States, NotStarted, None
  <2>3. \A g \in Fetches \ {f} : fetch[g].state = "done"
    BY <2>1 DEF KeysInv, OneFetch
  <2>4. set' \in Nat /\ set' >= set /\ set' <= key
    BY <2>1 DEF KeysInv, KeysTyped, Ahead
  <2>5. OneFetch'
    BY <2>1, <2>2, <2>3, KeySetsAssumption DEF OneFetch
  <2>6. Ahead'
    BY <2>1, <2>2, <2>3, <2>4 DEF KeysInv, KeysTyped, Ahead, None
  <2>7. QED
    BY <2>1, <2>2, <2>4, <2>5, <2>6 DEF KeysInv, KeysTyped, WaitersJoined
<1>3. QED
  BY <1>1, <1>2 DEF FetchStep

\* Only a fetch installs a set.
LEMMA VerifierInstallsNothing ==
  ASSUME NEW v \in Verifiers,
         (\E k \in 1..MaxRotations : Begin(v, k)) \/ VerifierStep(v) \/ Cancel(v)
  PROVE  set' = set
BY DEF Begin, VerifierStep, Look, JoinFetch, StartFetch, Wake, Parse, Retry, Answer, Cancel, cache

LEMMA KeysStep == KeysInv /\ [Next]_vars => KeysInv' /\ set' >= set
<1> SUFFICES ASSUME KeysInv, [Next]_vars PROVE KeysInv' /\ set' >= set
  OBVIOUS
<1>1. ASSUME NEW v \in Verifiers,
             (\E k \in 1..MaxRotations : Begin(v, k)) \/ VerifierStep(v) \/ Cancel(v)
      PROVE  KeysInv' /\ set' >= set
  BY <1>1, VerifierKeeps, VerifierInstallsNothing DEF KeysInv, KeysTyped
<1>2. ASSUME NEW f \in Fetches, FetchStep(f) PROVE KeysInv' /\ set' >= set
  BY <1>2, FetchKeeps
<1>3. CASE Rotate
  BY <1>3 DEF Rotate, cache, fetches, verifier, KeysInv, KeysTyped, Ahead, OneFetch, WaitersJoined
<1>4. CASE Tick \/ UNCHANGED vars
  BY <1>4 DEF Tick, vars, provider, cache, fetches, verifier, KeysInv, KeysTyped, Ahead, OneFetch,
              WaitersJoined
<1>5. QED
  BY <1>1, <1>2, <1>3, <1>4 DEF Next

\* Fetches come one after the other, and a request that waits has a fetch to
\* wait for, in flight or over: no request waits for a result nobody will
\* bring (keySetForIssuer's inflight map and done channels).
THEOREM FetchesCoalesce == Spec => []WaitsForRunning
<1>1. KeysInv => WaitsForRunning
  BY DEF KeysInv, OneFetch, WaitersJoined, WaitsForRunning
<1>2. QED
  BY <1>1, KeysInit, KeysStep, PTL DEF Spec

\* A late answer of the provider never puts back a key set that was rotated
\* away before the installed one was read.
THEOREM SetNeverGoesBack == Spec => NeverOlder
<1>1. KeysInv /\ [Next]_vars => [set' >= set]_vars
  BY KeysStep
<1>2. QED
  BY <1>1, KeysInit, KeysStep, PTL DEF Spec, NeverOlder

(***************************************************************************)
(* Embeddings: the drain of the runner is complete.                        *)
(***************************************************************************)

\* The saves' tasks the runner has accepted and not given up.
Accepted == {s \in Saves : workAt[s] \in {"added"} \cup E!Refreshing}

\* The wait group counts what was accepted, nothing is once it has been waited
\* for, and the sweep refreshes the head of its batch.
RunnerInv ==
  /\ E!TypeOK
  /\ wg = Cardinality(Accepted) + others
  /\ closed <=> up \in {"draining", "drained"}
  /\ up = "drained" => wg = 0
  /\ up = "down" => \A s \in Saves : workAt[s] = "idle"
  /\ workAt[Sweeper] \in E!Refreshing => batch # <<>>

LEMMA AcceptedFinite == IsFiniteSet(Accepted) /\ Cardinality(Accepted) \in Nat
BY EmbeddingsAssumption, FS_Subset, FS_CardinalityType DEF Accepted

LEMMA RunnerNumbers ==
  ASSUME RunnerInv
  PROVE  /\ wg \in Nat /\ others \in Nat /\ others <= Capacity /\ Capacity \in Nat
         /\ Cardinality(Accepted) \in Nat /\ wg = Cardinality(Accepted) + others
BY AcceptedFinite, EmbeddingsAssumption DEF RunnerInv, E!TypeOK

LEMMA RunnerInit == E!Init => RunnerInv
<1> SUFFICES ASSUME E!Init PROVE RunnerInv
  OBVIOUS
<1>1. E!AnyRecipe \in Recipes
  BY EmbeddingsAssumption DEF E!AnyRecipe
<1>2. E!TypeOK
  <2>1. 0 \in 0..MaxVersion /\ 0 \in 0..Capacity /\ 0 \in 0..MaxFaults /\ 0 \in 0..MaxStops
    BY EmbeddingsAssumption, KeySetsAssumption
  <2>2. embedding \in [Recipes -> (0..MaxVersion) \X (0..MaxVersion)]
    BY <2>1 DEF E!Init, E!Null
  <2>3. read \in [E!Workers -> (0..MaxVersion) \X (0..MaxVersion)]
    BY <2>1 DEF E!Init, E!NothingRead, E!Null
  <2>4. target \in [E!Workers -> Recipes]
    BY <1>1 DEF E!Init, E!NoTarget
  <2>5. workAt \in [E!Workers -> {"idle", "saved", "added", "list"} \cup E!Refreshing]
    BY DEF E!Init, E!AllQuiet
  <2>6. content \in [Recipes -> 0..MaxVersion]
    BY <2>1 DEF E!Init
  <2>7. batch \in Seq(Recipes)
    BY DEF E!Init
  <2>8. QED
    BY <2>1, <2>2, <2>3, <2>4, <2>5, <2>6, <2>7 DEF E!Init, E!TypeOK
<1>3. Accepted = {}
  BY EmbeddingsAssumption DEF E!Init, E!AllQuiet, E!Workers, E!Refreshing, Accepted
<1>4. QED
  BY <1>2, <1>3, FS_EmptySet DEF E!Init, E!AllQuiet, E!Workers, E!Refreshing, RunnerInv

\* What a step of a save's task does to the accepted tasks.
LEMMA AcceptOne ==
  ASSUME RunnerInv, NEW s \in Saves, s \notin Accepted, E!Goto(s, "added")
  PROVE  Cardinality(Accepted') = Cardinality(Accepted) + 1
<1>1. Accepted' = Accepted \cup {s}
  BY DEF Accepted, E!Goto, RunnerInv, E!TypeOK, E!Workers
<1>2. QED
  BY <1>1, AcceptedFinite, FS_AddElement

LEMMA ReleaseOne ==
  ASSUME RunnerInv, NEW s \in Saves, s \in Accepted, E!Goto(s, "idle")
  PROVE  /\ Cardinality(Accepted') = Cardinality(Accepted) - 1
         /\ Cardinality(Accepted) >= 1
<1>1. Accepted' = Accepted \ {s}
  BY DEF Accepted, E!Goto, RunnerInv, E!TypeOK, E!Workers, E!Refreshing
<1>2. Cardinality(Accepted') = Cardinality(Accepted) - 1
  BY <1>1, AcceptedFinite, FS_RemoveElement
<1>3. IsFiniteSet(Accepted') /\ Cardinality(Accepted') \in Nat
  BY <1>1, AcceptedFinite, FS_Subset, FS_CardinalityType
<1>4. QED
  BY <1>2, <1>3, AcceptedFinite

Phases == {"idle", "saved", "added", "list"} \cup E!Refreshing

\* Any other step of a save or of the sweep leaves them as they are.
LEMMA AcceptNone ==
  ASSUME RunnerInv, NEW w \in E!Workers, NEW phase \in Phases, E!Goto(w, phase),
         w \in Saves => (w \in Accepted <=> phase \in {"added"} \cup E!Refreshing)
  PROVE  Accepted' = Accepted
BY EmbeddingsAssumption DEF Accepted, E!Goto, RunnerInv, E!TypeOK, E!Workers, E!Refreshing, Phases

LEMMA GotoTyped ==
  ASSUME RunnerInv, NEW w \in E!Workers, NEW phase \in Phases, E!Goto(w, phase)
  PROVE  /\ workAt' \in [E!Workers -> Phases]
         /\ w # Sweeper => workAt'[Sweeper] = workAt[Sweeper]
BY DEF E!Goto, RunnerInv, E!TypeOK, E!Workers, Phases

\* Saving, and the way of its refresh to the runner.
LEMMA SaveKeeps ==
  ASSUME RunnerInv, NEW s \in Saves,
         (\E r \in Recipes : E!Save(s, r)) \/ E!RereadFails(s) \/ E!Submit(s) \/ E!Acquire(s)
  PROVE  RunnerInv'
<1> USE DEF E!process, E!sweep, E!rows, E!Running
<1>1. s \in E!Workers /\ s # Sweeper
  BY EmbeddingsAssumption DEF E!Workers
<1>2. CASE \E r \in Recipes : E!Save(s, r)
  <2>1. PICK r \in Recipes : E!Save(s, r)
    BY <1>2
  <2>2. E!Goto(s, "saved") /\ s \notin Accepted
    BY <2>1 DEF E!Save, Accepted, E!Refreshing
  <2>3. content' \in [Recipes -> 0..MaxVersion]
    BY <2>1, EmbeddingsAssumption DEF E!Save, RunnerInv, E!TypeOK
  <2>4. Accepted' = Accepted
    BY <1>1, <2>2, AcceptNone DEF Phases, E!Refreshing
  <2>5. target' \in [E!Workers -> Recipes]
    BY <2>1 DEF E!Save, RunnerInv, E!TypeOK
  <2>6. QED
    BY <1>1, <2>1, <2>2, <2>3, <2>4, <2>5, GotoTyped
       DEF E!Save, Phases, RunnerInv, E!TypeOK
<1>3. CASE E!RereadFails(s)
  <2>1. E!Goto(s, "idle") /\ s \notin Accepted
    BY <1>3 DEF E!RereadFails, Accepted, E!Refreshing
  <2>2. Accepted' = Accepted
    BY <1>1, <2>1, AcceptNone DEF Phases, E!Refreshing
  <2>3. faults' \in 0..MaxFaults
    BY <1>3, KeySetsAssumption DEF E!RereadFails, E!Fault, RunnerInv, E!TypeOK
  <2>4. QED
    BY <1>1, <1>3, <2>1, <2>2, <2>3, GotoTyped DEF E!RereadFails, Phases, RunnerInv, E!TypeOK
<1>4. CASE E!Submit(s)
  <2>1. s \notin Accepted /\ workAt[s] = "saved"
    BY <1>4 DEF E!Submit, Accepted, E!Refreshing
  <2>2. CASE closed
    <3>1. E!Goto(s, "idle") /\ wg' = wg
      BY <1>4, <2>2 DEF E!Submit
    <3>2. Accepted' = Accepted
      BY <1>1, <2>1, <3>1, AcceptNone DEF Phases, E!Refreshing
    <3>3. QED
      BY <1>1, <1>4, <3>1, <3>2, GotoTyped DEF E!Submit, Phases, RunnerInv, E!TypeOK
  <2>3. CASE ~closed
    <3>1. E!Goto(s, "added") /\ wg' = wg + 1
      BY <1>4, <2>3 DEF E!Submit
    <3>2. Cardinality(Accepted') = Cardinality(Accepted) + 1
      BY <2>1, <3>1, AcceptOne
    <3>3. wg' \in Nat /\ wg' = Cardinality(Accepted') + others
      BY <3>1, <3>2, RunnerNumbers
    <3>4. QED
      BY <1>1, <1>4, <2>3, <3>1, <3>3, GotoTyped
         DEF E!Submit, Phases, RunnerInv, E!TypeOK
  <2>4. QED
    BY <2>2, <2>3
<1>5. CASE E!Acquire(s)
  <2>1. s \in Accepted
    BY <1>5 DEF E!Acquire, Accepted
  <2>2. CASE E!Goto(s, "row") /\ wg' = wg
    <3>1. Accepted' = Accepted
      BY <1>1, <2>1, <2>2, AcceptNone DEF Phases, E!Refreshing
    <3>2. QED
      BY <1>1, <1>5, <2>2, <3>1, GotoTyped DEF E!Acquire, Phases, E!Refreshing, RunnerInv, E!TypeOK
  <2>3. CASE E!Goto(s, "idle") /\ wg' = wg - 1
    <3>1. Cardinality(Accepted') = Cardinality(Accepted) - 1 /\ Cardinality(Accepted) >= 1
      BY <2>1, <2>3, ReleaseOne
    <3>2. wg' \in Nat /\ wg' = Cardinality(Accepted') + others /\ wg # 0
      BY <2>3, <3>1, RunnerNumbers
    <3>3. QED
      BY <1>1, <1>5, <2>3, <3>2, GotoTyped
         DEF E!Acquire, Phases, RunnerInv, E!TypeOK
  <2>4. QED
    BY <1>5, <2>2, <2>3 DEF E!Acquire
<1>6. QED
  BY <1>2, <1>3, <1>4, <1>5

\* Reading for a refresh.
LEMMA LoadKeeps ==
  ASSUME RunnerInv, NEW w \in E!Workers, E!LoadRow(w) \/ E!LoadChildren(w)
  PROVE  RunnerInv'
<1> USE DEF E!process, E!sweep, E!rows, E!Running
<1>1. PICK phase \in {"children", "embed"} : E!Goto(w, phase)
  BY DEF E!LoadRow, E!LoadChildren
<1>2. workAt[w] \in E!Refreshing
  BY DEF E!LoadRow, E!LoadChildren, E!Refreshing
<1>3. Accepted' = Accepted
  BY <1>1, <1>2, AcceptNone DEF Phases, E!Refreshing, Accepted
<1>4. read' \in [E!Workers -> (0..MaxVersion) \X (0..MaxVersion)]
  <2>1. target[w] \in Recipes
    BY DEF RunnerInv, E!TypeOK
  <2>5. content[target[w]] \in 0..MaxVersion
    BY <2>1 DEF RunnerInv, E!TypeOK
  <2>6. 0 \in 0..MaxVersion
    BY EmbeddingsAssumption
  <2>2. CASE E!LoadRow(w)
    BY <2>5, <2>6, <2>2 DEF E!LoadRow, RunnerInv, E!TypeOK
  <2>3. CASE E!LoadChildren(w)
    <3>1. read[w][1] \in 0..MaxVersion
      BY DEF RunnerInv, E!TypeOK
    <3>2. QED
      BY <2>5, <2>3, <3>1 DEF E!LoadChildren, RunnerInv, E!TypeOK
  <2>4. QED
    BY <2>2, <2>3
<1>5. up # "down"
        /\ UNCHANGED <<content, gone, embedding, up, closed, stops, wg, others, target, batch,
                       batchOK, faults>>
  BY DEF E!LoadRow, E!LoadChildren
<1>6. /\ workAt' \in [E!Workers -> Phases]
      /\ workAt'[Sweeper] \in E!Refreshing => workAt[Sweeper] \in E!Refreshing
  BY <1>1, <1>2, GotoTyped DEF Phases, E!Refreshing
<1>7. E!TypeOK'
  BY <1>4, <1>5, <1>6 DEF Phases, RunnerInv, E!TypeOK
<1>8. QED
  BY <1>3, <1>5, <1>6, <1>7 DEF RunnerInv

\* The end of a refresh: a task is released, the sweep's batch gets shorter.
LEMMA OverKeeps ==
  ASSUME RunnerInv, NEW w \in E!Workers, workAt[w] \in E!Refreshing,
         NEW ok \in BOOLEAN, E!Over(w, ok), up # "down",
         embedding' \in [Recipes -> (0..MaxVersion) \X (0..MaxVersion)],
         faults' \in 0..MaxFaults,
         UNCHANGED <<content, gone, up, closed, stops, others, read>>
  PROVE  RunnerInv'
<1>1. CASE w # Sweeper
  <2>1. w \in Saves /\ w \in Accepted
    BY <1>1 DEF E!Workers, Accepted
  <2>2. E!Goto(w, "idle") /\ wg' = wg - 1 /\ UNCHANGED <<target, batch, batchOK>>
    BY <1>1 DEF E!Over, E!sweep
  <2>3. Cardinality(Accepted') = Cardinality(Accepted) - 1 /\ Cardinality(Accepted) >= 1
    BY <2>1, <2>2, ReleaseOne
  <2>4. wg' \in Nat /\ wg' = Cardinality(Accepted') + others /\ wg # 0
    BY <2>2, <2>3, RunnerNumbers
  <2>5. QED
    BY <1>1, <2>2, <2>4, GotoTyped DEF Phases, RunnerInv, E!TypeOK
<1>2. CASE w = Sweeper
  <2>1. batch # <<>> /\ batch \in Seq(Recipes)
    BY <1>2 DEF RunnerInv, E!TypeOK
  <2>2. /\ batch' = Tail(batch) /\ batchOK' = (batchOK \/ ok) /\ wg' = wg
        /\ E!Goto(w, IF Tail(batch) # <<>> THEN "row" ELSE E!AfterBatch(batchOK \/ ok))
        /\ target' = IF Tail(batch) = <<>> THEN target
                     ELSE [target EXCEPT ![w] = Head(Tail(batch))]
    BY <1>2 DEF E!Over
  <2>3. PICK phase \in {"row", "list", "idle"} :
          E!Goto(w, phase) /\ (phase = "row" => Tail(batch) # <<>>)
    BY <2>2 DEF E!AfterBatch
  <2>4. batch' \in Seq(Recipes) /\ target' \in [E!Workers -> Recipes]
    <3>1. Tail(batch) \in Seq(Recipes)
      BY <2>1
    <3>2. Tail(batch) # <<>> => Head(Tail(batch)) \in Recipes
      BY <3>1
    <3>3. QED
      BY <2>2, <3>1, <3>2 DEF RunnerInv, E!TypeOK
  <2>5. batchOK' \in BOOLEAN
    BY <2>2
  <2>6. Accepted' = Accepted
    BY <1>2, <2>3, AcceptNone, EmbeddingsAssumption DEF Phases, E!Refreshing
  <2>7. workAt' \in [E!Workers -> Phases] /\ (workAt'[Sweeper] \in E!Refreshing => batch' # <<>>)
    BY <1>2, <2>2, <2>3 DEF E!Goto, RunnerInv, E!TypeOK, Phases, E!Refreshing
  <2>8. QED
    BY <2>2, <2>4, <2>5, <2>6, <2>7 DEF Phases, RunnerInv, E!TypeOK
<1>3. QED
  BY <1>1, <1>2

LEMMA RefreshEnds ==
  ASSUME RunnerInv, NEW w \in E!Workers, E!Store(w) \/ E!RefreshFails(w)
  PROVE  RunnerInv'
<1> USE DEF E!process, E!rows, E!Running
<1>1. CASE E!Store(w)
  <2>1. embedding' \in [Recipes -> (0..MaxVersion) \X (0..MaxVersion)]
    BY <1>1 DEF E!Store, E!Stored, RunnerInv, E!TypeOK
  <2>2. QED
    BY <1>1, <2>1, OverKeeps DEF E!Store, E!Refreshing, RunnerInv, E!TypeOK
<1>2. CASE E!RefreshFails(w)
  <2>1. faults' \in 0..MaxFaults /\ workAt[w] \in E!Refreshing
    BY <1>2, KeySetsAssumption DEF E!RefreshFails, E!Fault, E!Refreshing, RunnerInv, E!TypeOK
  <2>2. QED
    BY <1>2, <2>1, OverKeeps DEF E!RefreshFails, RunnerInv, E!TypeOK
<1>3. QED
  BY <1>1, <1>2

\* The sweep between its refreshes.
LEMMA SweepKeeps ==
  ASSUME RunnerInv, E!Tick \/ E!ListCandidates \/ E!ListFails
  PROVE  RunnerInv'
<1> USE DEF E!process, E!sweep, E!rows, E!Running
<1>1. Sweeper \in E!Workers /\ Sweeper \notin Saves
  BY EmbeddingsAssumption DEF E!Workers
<1>2. PICK phase \in {"list", "idle", "row"} : E!Goto(Sweeper, phase)
  BY DEF E!Tick, E!ListCandidates, E!ListFails
<1>3. Accepted' = Accepted /\ workAt' \in [E!Workers -> Phases]
  BY <1>1, <1>2, AcceptNone, GotoTyped DEF Phases, E!Refreshing
<1>4. CASE E!Tick
  BY <1>1, <1>3, <1>4 DEF E!Tick, E!Goto, E!Refreshing, Phases, RunnerInv, E!TypeOK
<1>5. CASE E!ListFails
  <2>1. faults' \in 0..MaxFaults
    BY <1>5, KeySetsAssumption DEF E!ListFails, E!Fault, RunnerInv, E!TypeOK
  <2>2. QED
    BY <1>1, <1>3, <1>5, <2>1 DEF E!ListFails, E!Goto, E!Refreshing, Phases, RunnerInv, E!TypeOK
<1>6. CASE E!ListCandidates
  <2>1. PICK listed \in E!Batches :
          IF listed = <<>>
          THEN E!Goto(Sweeper, "idle") /\ UNCHANGED <<target, batch, batchOK>>
          ELSE /\ E!Goto(Sweeper, "row")
               /\ target' = [target EXCEPT ![Sweeper] = Head(listed)]
               /\ batch' = listed /\ batchOK' = FALSE
    BY <1>6 DEF E!ListCandidates
  <2>2. listed \in Seq(Recipes)
    <3>1. PICK n \in Nat : listed \in [1..n -> E!Candidates]
      BY EmbeddingsAssumption DEF E!Batches
    <3>2. QED
      BY <3>1 DEF E!Candidates
  <2>3. CASE listed = <<>>
    BY <1>1, <1>3, <1>6, <2>1, <2>3
       DEF E!ListCandidates, E!Goto, E!Refreshing, Phases, RunnerInv, E!TypeOK
  <2>4. CASE listed # <<>>
    <3>1. Head(listed) \in Recipes
      BY <2>2, <2>4
    <3>2. target' \in [E!Workers -> Recipes]
      BY <2>1, <2>4, <3>1 DEF RunnerInv, E!TypeOK
    <3>3. QED
      BY <1>1, <1>3, <1>6, <2>1, <2>2, <2>4, <3>2
       DEF E!ListCandidates, E!Goto, E!Refreshing, Phases, RunnerInv, E!TypeOK
  <2>5. QED
    BY <2>3, <2>4
<1>7. QED
  BY <1>4, <1>5, <1>6

\* The other tasks, deletions, and the life of the process.
LEMMA ProcessKeeps ==
  ASSUME RunnerInv,
         \/ \E r \in Recipes : E!DeleteRecipe(r)
         \/ E!OtherStarts \/ E!OtherEnds
         \/ E!BeginShutdown \/ E!Drain \/ E!Exit \/ E!Crash \/ E!Start
  PROVE  RunnerInv'
<1> USE DEF E!process, E!sweep, E!rows, E!Running
<1>1. CASE \E r \in Recipes : E!DeleteRecipe(r)
  BY <1>1, EmbeddingsAssumption
     DEF E!DeleteRecipe, Accepted, E!Null, RunnerInv, E!TypeOK
<1>2. CASE E!OtherStarts
  <2>1. Cardinality(E!Tasks) \in Nat
    BY EmbeddingsAssumption, FS_Subset, FS_CardinalityType DEF E!Tasks
  <2>2. others' = others + 1 /\ wg' = wg + 1 /\ Cardinality(E!Tasks) + others < Capacity
    <3>1. others' = others + 1 /\ wg' = wg + 1
      BY <1>2 DEF E!OtherStarts
    <3>2. Cardinality(E!Tasks) + others < Capacity
      <4>1. E!Cardinality(E!Tasks) = Cardinality(E!Tasks)
        BY Zenon DEF E!Cardinality, Cardinality
      <4>2. QED
        BY <1>2, <4>1, Zenon DEF E!OtherStarts
    <3>3. QED
      BY <3>1, <3>2
  <2>3. Accepted' = Accepted
    BY <1>2 DEF E!OtherStarts, Accepted
  <2>4. others' \in 0..Capacity /\ wg' \in Nat /\ wg' = Cardinality(Accepted') + others'
    BY <2>1, <2>2, <2>3, RunnerNumbers
  <2>5. QED
    BY <1>2, <2>4 DEF E!OtherStarts, RunnerInv, E!TypeOK
<1>3. CASE E!OtherEnds
  <2>1. others' = others - 1 /\ wg' = wg - 1 /\ others > 0
    BY <1>3 DEF E!OtherEnds
  <2>2. Accepted' = Accepted
    BY <1>3 DEF E!OtherEnds, Accepted
  <2>3. /\ others' \in 0..Capacity /\ wg' \in Nat /\ wg' = Cardinality(Accepted') + others'
        /\ wg # 0
    BY <2>1, <2>2, RunnerNumbers
  <2>4. QED
    BY <1>3, <2>3 DEF E!OtherEnds, RunnerInv, E!TypeOK
<1>4. CASE E!BeginShutdown
  BY <1>4, EmbeddingsAssumption DEF E!BeginShutdown, Accepted, RunnerInv, E!TypeOK
<1>5. CASE E!Drain
  BY <1>5 DEF E!Drain, Accepted, RunnerInv, E!TypeOK
<1>6. CASE E!Exit \/ E!Crash
  <2>1. E!Died /\ UNCHANGED <<content, gone, embedding, faults>>
    BY <1>6 DEF E!Exit, E!Crash
  <2>2. stops' \in 0..MaxStops
    BY <1>6, EmbeddingsAssumption DEF E!Exit, E!Crash, RunnerInv, E!TypeOK
  <2>3. Accepted' = {}
    BY <2>1 DEF E!Died, E!Workers, Accepted, E!Refreshing
  <2>4. E!AnyRecipe \in Recipes
    BY EmbeddingsAssumption DEF E!AnyRecipe
  <2>7. 0 \in 0..MaxVersion /\ 0 \in 0..Capacity
    BY EmbeddingsAssumption
  <2>8. read' \in [E!Workers -> (0..MaxVersion) \X (0..MaxVersion)]
    BY <2>1, <2>7 DEF E!Died, E!NothingRead, E!Null
  <2>9. target' \in [E!Workers -> Recipes]
    BY <2>1, <2>4 DEF E!Died, E!NoTarget
  <2>10. workAt' \in [E!Workers -> {"idle", "saved", "added", "list"} \cup E!Refreshing]
    BY <2>1 DEF E!Died
  <2>11. batch' \in Seq(Recipes) /\ batchOK' \in BOOLEAN
    <3>1. <<>> \in Seq(Recipes)
      OBVIOUS
    <3>2. QED
      BY <2>1, <3>1, Zenon DEF E!Died
  <2>5. E!TypeOK'
    BY <2>1, <2>2, <2>7, <2>8, <2>9, <2>10, <2>11 DEF E!Died, RunnerInv, E!TypeOK
  <2>6. QED
    BY <2>1, <2>3, <2>5, FS_EmptySet, EmbeddingsAssumption
       DEF E!Died, E!Workers, E!Refreshing, RunnerInv
<1>7. CASE E!Start
  <2>1. embedding' \in [Recipes -> (0..MaxVersion) \X (0..MaxVersion)]
    BY <1>7, EmbeddingsAssumption DEF E!Start, E!Null, RunnerInv, E!TypeOK
  <2>2. Accepted = {} /\ Accepted' = {}
    BY <1>7, EmbeddingsAssumption
       DEF E!Start, E!AllQuiet, E!Workers, E!Refreshing, RunnerInv, Accepted
  <2>3. workAt' \in [E!Workers -> Phases] /\ workAt'[Sweeper] = "list"
    BY <1>7 DEF E!Start, E!AllQuiet, E!Workers, Phases
  <2>4. QED
    BY <1>7, <2>1, <2>2, <2>3 DEF E!Start, E!Refreshing, Phases, RunnerInv, E!TypeOK
<1>8. QED
  BY <1>1, <1>2, <1>3, <1>4, <1>5, <1>6, <1>7

\* Only the sweep lists candidates.
SavesListNothing == \A s \in Saves : workAt[s] # "list"

LEMMA SavesNeverList ==
  ASSUME RunnerInv, SavesListNothing, E!Next
  PROVE  SavesListNothing'
<1>1. /\ workAt \in [E!Workers -> Phases] /\ Sweeper \notin Saves
      /\ Sweeper \in E!Workers /\ Saves \subseteq E!Workers
  BY EmbeddingsAssumption DEF RunnerInv, E!TypeOK, Phases, E!Workers
<1>2. ASSUME NEW w \in E!Workers, NEW phase, E!Goto(w, phase), w = Sweeper \/ phase # "list"
      PROVE  SavesListNothing'
  BY <1>1, <1>2 DEF E!Goto, SavesListNothing
<1>3. ASSUME NEW w \in E!Workers, NEW ok \in BOOLEAN, E!Over(w, ok) PROVE SavesListNothing'
  BY <1>2, <1>3 DEF E!Over
<1>4. ASSUME NEW w \in E!Workers,
             E!LoadRow(w) \/ E!LoadChildren(w) \/ E!Store(w) \/ E!RefreshFails(w)
      PROVE  SavesListNothing'
  BY <1>2, <1>3, <1>4 DEF E!LoadRow, E!LoadChildren, E!Store, E!RefreshFails
<1>5. ASSUME NEW s \in Saves,
             E!TaskStep(s) \/ E!Submit(s) \/ E!RereadFails(s) \/ \E r \in Recipes : E!Save(s, r)
      PROVE  SavesListNothing'
  BY <1>1, <1>2, <1>4, <1>5 DEF E!TaskStep, E!Acquire, E!Submit, E!RereadFails, E!Save
<1>6. CASE E!SweepStep
  BY <1>1, <1>2, <1>4, <1>6 DEF E!SweepStep, E!Tick, E!ListCandidates, E!ListFails
<1>7. CASE (\E r \in Recipes : E!DeleteRecipe(r)) \/ E!OtherStarts \/ E!OtherEnds \/ E!BeginShutdown \/ E!Drain
  BY <1>7 DEF E!DeleteRecipe, E!OtherStarts, E!OtherEnds, E!BeginShutdown, E!Drain, SavesListNothing
<1>8. CASE E!Exit \/ E!Crash \/ E!Start
  BY <1>1, <1>8 DEF E!Exit, E!Crash, E!Start, E!Died, E!AllQuiet, SavesListNothing
<1>9. QED
  BY <1>5, <1>6, <1>7, <1>8 DEF E!Next

LEMMA RunnerStep ==
  ASSUME RunnerInv, [AllNext]_allVars
  PROVE  RunnerInv'
<1>1. CASE E!Next
  <2>1. ASSUME NEW s \in Saves, E!TaskStep(s) \/ E!Submit(s) \/ E!RereadFails(s)
        PROVE  RunnerInv'
    BY <2>1, SaveKeeps, LoadKeeps, RefreshEnds DEF E!TaskStep, E!Workers
  <2>2. ASSUME NEW s \in Saves, NEW r \in Recipes, E!Save(s, r) PROVE RunnerInv'
    BY <2>2, SaveKeeps
  <2>3. ASSUME E!SweepStep PROVE RunnerInv'
    BY <2>3, SweepKeeps, LoadKeeps, RefreshEnds DEF E!SweepStep, E!Workers
  <2>4. QED
    BY <1>1, <2>1, <2>2, <2>3, ProcessKeeps DEF E!Next
<1>2. CASE UNCHANGED embeddings
  BY <1>2 DEF embeddings, Accepted, RunnerInv, E!TypeOK
<1>3. QED
  BY <1>1, <1>2 DEF AllNext, OfKeys, OfEmbeddings, allVars

\* When the runner's Shutdown has returned, nothing that it accepted still
\* runs: a handler that outlasts the HTTP drain submits to a closed runner
\* (Submit, Shutdown of internal/platform/async).
THEOREM DrainIsComplete == AllSpec => []RunnerDrains
<1>1. AllInit => RunnerInv /\ SavesListNothing
  BY RunnerInit, EmbeddingsAssumption
     DEF AllInit, E!Init, E!AllQuiet, E!Workers, SavesListNothing
<1>2. RunnerInv /\ SavesListNothing => RunnerDrains
  <2> SUFFICES ASSUME RunnerInv, SavesListNothing, up = "drained"
               PROVE  others = 0 /\ \A s \in Saves : workAt[s] \in {"idle", "saved"}
    BY DEF RunnerInv, RunnerDrains, E!RunnerDrains, E!TasksDrained
  <2>1. Cardinality(Accepted) + others = 0 /\ others \in Nat
    BY EmbeddingsAssumption DEF RunnerInv, E!TypeOK
  <2>2. others = 0 /\ Cardinality(Accepted) = 0
    BY <2>1, AcceptedFinite
  <2>3. Accepted = {}
    BY <2>2, AcceptedFinite, FS_EmptySet
  <2>4. \A s \in Saves : workAt[s] \in {"idle", "saved"}
    BY <2>3 DEF Accepted, RunnerInv, SavesListNothing, E!TypeOK, E!Workers
  <2>5. QED
    BY <2>2, <2>4
<1>3. RunnerInv /\ SavesListNothing /\ [AllNext]_allVars => (RunnerInv /\ SavesListNothing)'
  BY RunnerStep, SavesNeverList
     DEF AllNext, OfKeys, OfEmbeddings, allVars, embeddings, SavesListNothing
<1>4. QED
  BY <1>1, <1>2, <1>3, PTL DEF AllSpec

(***************************************************************************)
(* Catalog snapshots: what is installed is as new as what was announced.   *)
(***************************************************************************)

AsNew(pages) == \A p \in DOMAIN pages : pages[p] >= announced

SnapsTyped ==
  /\ ver \in Nat /\ announced \in Nat /\ gen \in Nat /\ genSeen \in Nat
  /\ snap \in Seq(Nat) /\ built \in Seq(Nat)
  /\ wrote \in [Writers -> Nat]

\* What has been announced, or is about to be, has been committed, so a page
\* read now is as new.
Committed ==
  /\ announced <= ver
  /\ \A w \in Writers : wrote[w] <= ver

\* A build the generation has not overtaken has missed no announcement.
NotOvertakenIsNew == genSeen <= gen /\ (C!NotOvertaken => AsNew(built))

SnapsInv == SnapsTyped /\ Committed /\ NotOvertakenIsNew /\ InstalledFresh

-----------------------------------------------------------------------------

LEMMA SnapsInit == C!Init => SnapsInv
BY DEF C!Init, SnapsInv, SnapsTyped, Committed, NotOvertakenIsNew, AsNew, InstalledFresh, C!InstalledFresh

\* A step that leaves the catalog and its announcements alone.
LEMMA Undisturbed ==
  ASSUME SnapsInv, UNCHANGED <<ver, announced, gen, genSeen, snap, built, wrote>>
  PROVE  SnapsInv'
BY DEF SnapsInv, SnapsTyped, Committed, NotOvertakenIsNew, C!NotOvertaken, AsNew, InstalledFresh, C!InstalledFresh

\* An empty build has missed nothing.
LEMMA EmptyBuild ==
  ASSUME SnapsInv, built' = <<>>, genSeen' \in 0..gen, snap' \in {snap, built},
         snap' = built => C!NotOvertaken \/ snap' = snap,
         UNCHANGED <<ver, announced, gen, wrote>>
  PROVE  SnapsInv'
<1>1. SnapsTyped' /\ Committed'
  BY DEF SnapsInv, SnapsTyped, Committed
<1>2. NotOvertakenIsNew'
  BY DEF SnapsInv, SnapsTyped, NotOvertakenIsNew, AsNew
<1>3. InstalledFresh'
  <2>1. CASE snap' = snap
    BY <2>1 DEF SnapsInv, InstalledFresh, C!InstalledFresh
  <2>2. CASE snap' = built /\ C!NotOvertaken
    BY <2>2 DEF SnapsInv, InstalledFresh, C!InstalledFresh, NotOvertakenIsNew, AsNew
  <2>3. QED
    BY <2>1, <2>2
<1>4. QED
  BY <1>1, <1>2, <1>3 DEF SnapsInv

LEMMA ImportKeeps ==
  ASSUME SnapsInv, NEW i \in Imports, C!ImportStep(i)
  PROVE  SnapsInv'
<1>1. CASE C!Look(i) \/ C!Join(i) \/ C!Mapped(i)
  BY <1>1, Undisturbed DEF C!Look, C!Join, C!Mapped, C!catalog, C!cached, C!flight
<1>2. CASE C!Lead(i)
  <2>1. CASE C!Fresh
    BY <1>2, <2>1, Undisturbed DEF C!Lead, C!catalog, C!cached, C!flight
  <2>2. CASE ~C!Fresh
    <3>1. built' = <<>> /\ genSeen' = gen /\ snap' = snap /\ UNCHANGED <<ver, announced, gen, wrote>>
      BY <1>2, <2>2 DEF C!Lead, C!cached, C!catalog
    <3>2. genSeen' \in 0..gen
      BY <3>1 DEF SnapsInv, SnapsTyped
    <3>3. QED
      BY <3>1, <3>2, EmptyBuild
  <2>3. QED
    BY <2>1, <2>2
<1>3. CASE C!ReadPage(i)
  <2>1. built' = Append(built, ver) /\ UNCHANGED <<ver, announced, gen, genSeen, snap, wrote>>
    BY <1>3 DEF C!ReadPage, C!catalog, C!cached
  <2>2. SnapsTyped' /\ Committed' /\ InstalledFresh'
    BY <2>1 DEF SnapsInv, SnapsTyped, Committed, InstalledFresh, C!InstalledFresh
  <2>3. AsNew(built) => AsNew(built)'
    <3>1. DOMAIN built' = DOMAIN built \cup {Len(built) + 1}
      BY <2>1 DEF SnapsInv, SnapsTyped
    <3>2. /\ built'[Len(built) + 1] = ver
          /\ \A p \in DOMAIN built : built'[p] = built[p]
      BY <2>1 DEF SnapsInv, SnapsTyped
    <3>3. ver >= announced
      BY DEF SnapsInv, SnapsTyped, Committed
    <3>4. QED
      BY <2>1, <3>1, <3>2, <3>3 DEF AsNew
  <2>4. QED
    BY <2>1, <2>2, <2>3 DEF SnapsInv, NotOvertakenIsNew, C!NotOvertaken
<1>4. CASE C!Install(i)
  <2>1. /\ built' = <<>> /\ genSeen' = 0 /\ UNCHANGED <<ver, announced, gen, wrote>>
        /\ snap' = snap \/ (snap' = built /\ C!NotOvertaken)
    BY <1>4 DEF C!Install, C!Land, C!catalog
  <2>2. genSeen' \in 0..gen
    BY <2>1 DEF SnapsInv, SnapsTyped
  <2>3. QED
    BY <2>1, <2>2, EmptyBuild
<1>5. CASE C!BuildFails(i)
  <2>1. built' = <<>> /\ genSeen' = 0 /\ snap' = snap /\ UNCHANGED <<ver, announced, gen, wrote>>
    BY <1>5 DEF C!BuildFails, C!Land, C!cached, C!catalog
  <2>2. genSeen' \in 0..gen
    BY <2>1 DEF SnapsInv, SnapsTyped
  <2>3. QED
    BY <2>1, <2>2, EmptyBuild
<1>6. QED
  BY <1>1, <1>2, <1>3, <1>4, <1>5 DEF C!ImportStep

LEMMA WriterKeeps ==
  ASSUME SnapsInv, NEW w \in Writers, C!Write(w) \/ C!InvalidateCatalog(w)
  PROVE  SnapsInv'
<1>1. CASE C!Write(w)
  BY <1>1 DEF C!Write, C!cached, C!flight, SnapsInv, SnapsTyped, Committed, NotOvertakenIsNew,
              C!NotOvertaken, AsNew, InstalledFresh, C!InstalledFresh
<1>2. CASE C!InvalidateCatalog(w)
  <2>1. /\ snap' = <<>> /\ gen' = gen + 1 /\ UNCHANGED <<ver, built, genSeen>>
        /\ announced' \in {announced, wrote[w]}
        /\ wrote' = [wrote EXCEPT ![w] = 0]
    BY <1>2 DEF C!InvalidateCatalog, C!flight
  <2>2. SnapsTyped' /\ Committed'
    BY <2>1 DEF SnapsInv, SnapsTyped, Committed
  <2>3. NotOvertakenIsNew' /\ InstalledFresh'
    BY <2>1 DEF SnapsInv, SnapsTyped, NotOvertakenIsNew, C!NotOvertaken, InstalledFresh, C!InstalledFresh
  <2>4. QED
    BY <2>2, <2>3 DEF SnapsInv
<1>3. QED
  BY <1>1, <1>2

LEMMA SnapsStep ==
  ASSUME SnapsInv, [RecipesNext]_<<deriving, catalog, deltas>>
  PROVE  SnapsInv'
<1>1. ASSUME NEW i \in Imports, C!ImportStep(i) PROVE SnapsInv'
  BY <1>1, ImportKeeps
<1>2. ASSUME NEW w \in Writers, C!Write(w) \/ C!InvalidateCatalog(w) PROVE SnapsInv'
  BY <1>2, WriterKeeps
<1>3. CASE C!WriteElsewhere
  BY <1>3 DEF C!WriteElsewhere, C!cached, C!flight, SnapsInv, SnapsTyped, Committed, NotOvertakenIsNew,
              C!NotOvertaken, AsNew, InstalledFresh, C!InstalledFresh
<1>4. CASE C!Expire
  BY <1>4, Undisturbed DEF C!Expire, C!catalog, C!flight
<1>5. CASE UNCHANGED catalog
  BY <1>5, Undisturbed DEF catalog
<1>6. QED
  BY <1>1, <1>2, <1>3, <1>4, <1>5 DEF RecipesNext, C!Next

\* No build that a write overtook is ever installed: every page of the cached
\* snapshot is as new as the last write announced (catalogSnapshot,
\* InvalidateCatalog).
THEOREM SnapshotIsFresh == RecipesSpec => []InstalledFresh
<1>1. RecipesInit => SnapsInv
  BY SnapsInit DEF RecipesInit
<1>2. SnapsInv => InstalledFresh
  BY DEF SnapsInv
<1>3. QED
  BY <1>1, <1>2, SnapsStep, PTL DEF RecipesSpec

(***************************************************************************)
(* A household's tweaks: their drift from the recipe is flagged.           *)
(***************************************************************************)

\* A time taken from the recipe with its version: an edit committed since then
\* has a later time, unless one put updated_at back.
Dated(time, edition) ==
  ~backdated => /\ time <= updatedAt /\ edition <= version
                /\ edition < version => time < updatedAt

Busy(q) == requestAt[q] # "idle"

DeltasTyped ==
  /\ version \in Nat /\ updatedAt \in Nat /\ clock \in Nat /\ backdated \in BOOLEAN
  /\ delta \in [row : Nat, tweaks : Nat, anchor : Nat, base : Nat] /\ seen \in Nat
  /\ requestAt \in [Requests -> {"idle", "load", "steps", "loaded", "write"}]
  /\ kind \in [Requests -> {"edit", "set", "clear", "acknowledge", "copy"}]
  /\ began \in [Requests -> Nat] /\ anchor \in [Requests -> Nat]
  /\ base \in [Requests -> Nat \X Nat]

\* Every transaction has a time of its own, and none has the recipe's.
TimesDiffer ==
  /\ updatedAt <= clock
  /\ \A q \in Requests : Busy(q) => began[q] \in 1..clock /\ began[q] # updatedAt
  /\ \A q, r \in Requests : q # r /\ Busy(q) /\ Busy(r) => began[q] # began[r]

BasesDated ==
  /\ \A q \in Requests :
       requestAt[q] = "write" /\ kind[q] \in {"set", "acknowledge"} =>
         Dated(base[q][1], base[q][2])
  /\ D!Exists => Dated(delta.base, seen)

DeltasInv == DeltasTyped /\ TimesDiffer /\ BasesDated

LEMMA DeltasInit == D!Init => DeltasInv
<1> SUFFICES ASSUME D!Init PROVE DeltasInv
  OBVIOUS
<1>1. DeltasTyped
  BY DEF D!Init, D!NoDelta, DeltasTyped
<1>2. TimesDiffer
  BY DEF D!Init, TimesDiffer, Busy
<1>3. BasesDated
  BY DEF D!Init, D!Exists, BasesDated
<1>4. QED
  BY <1>1, <1>2, <1>3 DEF DeltasInv

\* What a request does to itself only.
LEMMA OwnStepKeeps ==
  ASSUME DeltasInv, NEW q \in Requests, Busy(q),
         NEW to \in {"steps", "loaded", "write"}, D!Goto(q, to),
         to = "write" => kind[q] \in {"copy"},
         UNCHANGED <<version, updatedAt, backdated, delta, seen, clock, kind, began,
                     anchor, base>>
  PROVE  DeltasInv'
BY DEF D!Goto, D!Exists, DeltasInv, DeltasTyped, TimesDiffer, BasesDated, Busy, Dated

\* A request that ends leaves the times of the others.
LEMMA EndKeeps ==
  ASSUME DeltasInv, NEW q \in Requests, D!Idle(q),
         UNCHANGED <<version, updatedAt, backdated, clock>>,
         delta' \in [row : Nat, tweaks : Nat, anchor : Nat, base : Nat], seen' \in Nat,
         D!Exists' => Dated(delta'.base, seen')
  PROVE  DeltasInv'
BY DEF D!Idle, D!Goto, DeltasInv, DeltasTyped, TimesDiffer, BasesDated, Busy, Dated

LEMMA BeginKeeps ==
  ASSUME DeltasInv, NEW q \in Requests,
         NEW k \in {"edit", "set", "clear", "acknowledge", "copy"}, D!Begin(q, k)
  PROVE  DeltasInv'
<1> USE DEF D!Begin, D!Goto, D!recipe, D!tweaks, D!reads
<1>1. DeltasTyped'
  BY DEF DeltasInv, DeltasTyped
<1>2. TimesDiffer'
  BY DEF DeltasInv, DeltasTyped, TimesDiffer, Busy
<1>3. BasesDated'
  BY DEF DeltasInv, DeltasTyped, BasesDated, Dated, D!Exists
<1>4. QED
  BY <1>1, <1>2, <1>3 DEF DeltasInv

LEMMA EditKeeps ==
  ASSUME DeltasInv, NEW q \in Requests, D!Edit(q)
  PROVE  DeltasInv'
<1> USE DEF D!Edit, D!Idle, D!Goto
<1>1. DeltasTyped'
  BY DEF DeltasInv, DeltasTyped, TimesDiffer, Busy
<1>2. TimesDiffer'
  BY DEF DeltasInv, DeltasTyped, TimesDiffer, Busy
<1>3. ASSUME NEW time \in Nat, NEW edition \in Nat, Dated(time, edition)
      PROVE  Dated(time, edition)'
  <2>1. CASE ~backdated /\ ~(began[q] < updatedAt)
    <3>1. updatedAt' > updatedAt /\ version' = version + 1
      <4>1. updatedAt' = began[q] /\ version' = version + 1 /\ requestAt[q] # "idle"
        OBVIOUS
      <4>2. began[q] \in Nat /\ updatedAt \in Nat
        BY DEF DeltasInv, DeltasTyped
      <4> HIDE DEF D!Edit
      <4>3. began[q] # updatedAt
        BY <4>1 DEF DeltasInv, TimesDiffer, Busy
      <4>4. QED
        BY <2>1, <4>1, <4>2, <4>3
    <3>2. QED
      BY <1>3, <2>1, <3>1 DEF DeltasInv, DeltasTyped, TimesDiffer, Busy, Dated
  <2>2. CASE backdated \/ began[q] < updatedAt
    BY <2>2 DEF Dated
  <2>3. QED
    BY <2>1, <2>2
<1>4. D!Exists' => D!Exists /\ delta'.base = delta.base /\ seen' = seen
  BY DEF DeltasInv, DeltasTyped, D!Exists, D!NoDelta
<1>5. \A r \in Requests : requestAt'[r] = "write" => /\ requestAt[r] = "write"
                                                   /\ kind'[r] = kind[r] /\ base'[r] = base[r]
  BY DEF DeltasInv, DeltasTyped
<1>6. BasesDated'
  BY <1>3, <1>4, <1>5 DEF DeltasInv, DeltasTyped, BasesDated
<1>7. QED
  BY <1>1, <1>2, <1>6 DEF DeltasInv

LEMMA RequestKeeps ==
  ASSUME DeltasInv, NEW q \in Requests,
         \/ D!LoadItems(q) \/ D!LoadSteps(q) \/ D!ReadBase(q)
         \/ D!Set(q) \/ D!Clear(q) \/ D!Acknowledge(q) \/ D!RollBack(q)
         \/ D!CopySteps(q) \/ D!CopyItems(q)
  PROVE  DeltasInv'
<1> USE DEF D!recipe, D!tweaks, D!request, D!reads
<1>1. Dated(delta.base, seen) => Dated(delta.base, seen)
  OBVIOUS
<1>2. CASE D!LoadItems(q)
  <2>1. CASE D!Exists \/ kind[q] \in {"set", "copy"}
    <3>1. PICK to \in {"steps", "loaded"} : D!Goto(q, to)
      BY <1>2, <2>1 DEF D!LoadItems
    <3>2. QED
      BY <1>2, <2>1, <3>1, OwnStepKeeps DEF D!LoadItems, Busy
  <2>2. CASE ~(D!Exists \/ kind[q] \in {"set", "copy"})
    BY <1>2, <2>2, EndKeeps DEF D!LoadItems, D!Exists, DeltasInv, DeltasTyped
  <2>3. QED
    BY <2>1, <2>2
<1>3. CASE D!LoadSteps(q)
  BY <1>3, OwnStepKeeps DEF D!LoadSteps, Busy
<1>4. CASE D!ReadBase(q)
  <2>1. Dated(updatedAt, version)
    BY DEF DeltasInv, DeltasTyped, Dated
  <2>2. base' = [base EXCEPT ![q] = <<updatedAt, version>>]
    BY <1>4 DEF D!ReadBase, D!BaseOf
  <2>3. DeltasTyped' /\ TimesDiffer'
    BY <1>4, <2>2 DEF D!ReadBase, D!Goto, DeltasInv, DeltasTyped, TimesDiffer, Busy
  <2>4. BasesDated'
    BY <1>4, <2>1, <2>2 DEF D!ReadBase, D!Goto, D!Exists, DeltasInv, DeltasTyped, BasesDated, Dated
  <2>5. QED
    BY <2>3, <2>4 DEF DeltasInv
<1>5. CASE D!Set(q)
  <2>1. Dated(base[q][1], base[q][2]) /\ base[q][1] \in Nat /\ base[q][2] \in Nat
    BY <1>5 DEF D!Set, DeltasInv, DeltasTyped, BasesDated
  <2>2. /\ delta' \in [row : Nat, tweaks : Nat, anchor : Nat, base : Nat]
        /\ delta'.base = base[q][1] /\ seen' = base[q][2]
    BY <1>5, <2>1 DEF D!Set, DeltasInv, DeltasTyped
  <2>3. QED
    BY <1>5, <2>1, <2>2, EndKeeps DEF D!Set
<1>6. CASE D!Clear(q)
  BY <1>6, EndKeeps DEF D!Clear, D!Exists, D!NoDelta, DeltasInv, DeltasTyped
<1>7. CASE D!Acknowledge(q)
  <2>1. Dated(base[q][1], base[q][2]) /\ base[q][1] \in Nat /\ base[q][2] \in Nat
    BY <1>7 DEF D!Acknowledge, DeltasInv, DeltasTyped, BasesDated
  <2>2. /\ delta' \in [row : Nat, tweaks : Nat, anchor : Nat, base : Nat]
        /\ delta'.base = base[q][1] /\ seen' = base[q][2]
    BY <1>7, <2>1 DEF D!Acknowledge, DeltasInv, DeltasTyped
  <2>3. QED
    BY <1>7, <2>1, <2>2, EndKeeps DEF D!Acknowledge
<1>8. CASE D!RollBack(q) \/ D!CopyItems(q)
  BY <1>8, EndKeeps DEF D!RollBack, D!CopyItems, D!Exists, DeltasInv, DeltasTyped, BasesDated
<1>9. CASE D!CopySteps(q)
  BY <1>9, OwnStepKeeps DEF D!CopySteps, Busy
<1>10. QED
  BY <1>2, <1>3, <1>4, <1>5, <1>6, <1>7, <1>8, <1>9

LEMMA DeltasStep ==
  ASSUME DeltasInv, [RecipesNext]_<<deriving, catalog, deltas>>
  PROVE  DeltasInv'
<1>1. CASE D!Next
  BY <1>1, BeginKeeps, EditKeeps, RequestKeeps DEF D!Next
<1>2. CASE UNCHANGED deltas
  BY <1>2 DEF deltas, DeltasInv, DeltasTyped, TimesDiffer, BasesDated, Busy, Dated, D!Exists
<1>3. QED
  BY <1>1, <1>2 DEF RecipesNext

\* Tweaks are flagged as drifted when the recipe was edited after the version
\* they were written or acknowledged against, unless two edits overlapped and
\* put the recipe's updated_at back (Stale, SetRecipeDelta,
\* AcknowledgeRecipeDelta).
THEOREM DriftIsFlagged == RecipesSpec => []DriftFlagged
<1>1. RecipesInit => DeltasInv
  BY DeltasInit DEF RecipesInit
<1>2. DeltasInv => DriftFlagged
  BY DEF DeltasInv, DeltasTyped, BasesDated, Dated, DriftFlagged, D!DriftFlagged, D!Stale
<1>3. QED
  BY <1>1, <1>2, DeltasStep, PTL DEF RecipesSpec

(***************************************************************************)
(* Events: a slot's copy is the recipe as the household sees it, and the   *)
(* schedule of a slot is right whatever its edits have left.               *)
(***************************************************************************)

-----------------------------------------------------------------------------
(* Induction without an operator to induct on: the set of the numbers that a *)
(* formula holds of stands for the formula.                                  *)

\* What holds of 0 and of the next number up to a bound holds up to the bound.
LEMMA UpTo ==
  ASSUME NEW good \in SUBSET Nat, NEW bound \in Nat, 0 \in good,
         \A n \in good : n < bound => n + 1 \in good
  PROVE  0..bound \subseteq good
<1> DEFINE bad == (0..bound) \ good
<1>1. SUFFICES ASSUME bad # {} PROVE FALSE
  OBVIOUS
<1>2. bad \subseteq Nat
  OBVIOUS
<1>3. PICK m \in bad : \A y \in bad : <<y, m>> \notin OpToRel(<, Nat)
  BY <1>1, <1>2, NatLessThanWellFounded, WFMin
<1>4. m - 1 \in Nat /\ m - 1 < bound
  OBVIOUS
<1>5. m - 1 \notin bad
  <2> SUFFICES ASSUME m - 1 \in bad PROVE FALSE
    OBVIOUS
  <2>1. <<m - 1, m>> \in Nat \X Nat /\ <<m - 1, m>>[1] < <<m - 1, m>>[2]
    BY <1>4
  <2>2. <<m - 1, m>> \in OpToRel(<, Nat)
    BY <2>1 DEF OpToRel
  <2>3. QED
    BY <1>3, <2>2
<1>6. QED
  BY <1>4, <1>5

\* Steps taken one after the other up to a bound.
LEMMA Iterates ==
  ASSUME NEW states, NEW start \in states, NEW bound \in Nat,
         NEW next \in [1..bound -> [states -> states]]
  PROVE  \E h \in [0..bound -> states] :
           h[0] = start /\ \A n \in 1..bound : h[n] = next[n][h[n - 1]]
<1> DEFINE Run(k, h) == /\ h \in [0..k -> states] /\ h[0] = start
                        /\ \A n \in 1..k : h[n] = next[n][h[n - 1]]
           good == {k \in 0..bound : \E h \in [0..k -> states] : Run(k, h)}
<1>1. 0 \in good
  <2>1. Run(0, [k \in 0..0 |-> start])
    OBVIOUS
  <2>2. [k \in 0..0 |-> start] \in [0..0 -> states]
    OBVIOUS
  <2> HIDE DEF Run
  <2>3. QED
    BY <2>1, <2>2
<1>2. ASSUME NEW k \in good, k < bound PROVE k + 1 \in good
  <2>1. PICK h \in [0..k -> states] : Run(k, h)
    OBVIOUS
  <2> DEFINE longer == [n \in 0..(k + 1) |-> IF n = k + 1 THEN next[k + 1][h[k]] ELSE h[n]]
  <2>2. next[k + 1] \in [states -> states] /\ h[k] \in states
    BY <1>2, <2>1
  <2>3. longer \in [0..(k + 1) -> states] /\ longer[0] = start
    BY <1>2, <2>1, <2>2
  <2>4. ASSUME NEW n \in 1..(k + 1) PROVE longer[n] = next[n][longer[n - 1]]
    <3>1. CASE n = k + 1
      BY <3>1, <1>2
    <3>2. CASE n # k + 1
      BY <3>2, <1>2, <2>1
    <3>3. QED
      BY <3>1, <3>2
  <2>5. Run(k + 1, longer)
    BY <2>3, <2>4
  <2> HIDE DEF longer, Run
  <2>6. k + 1 \in 0..bound
    BY <1>2
  <2>7. \E hh \in [0..(k + 1) -> states] : Run(k + 1, hh)
    BY <2>3, <2>5
  <2>8. QED
    BY <2>6, <2>7
<1>3. good \in SUBSET Nat
  OBVIOUS
<1> HIDE DEF good
<1>4. 0..bound \subseteq good
  BY <1>1, <1>2, <1>3, UpTo
<1>5. QED
  BY <1>4 DEF good

\* A finite set of integers has a least member.
LEMMA LeastExists ==
  ASSUME NEW ints \in SUBSET Int, IsFiniteSet(ints), ints # {}
  PROVE  \E x \in ints : \A y \in ints : x <= y
<1> DEFINE HasLeast(t) == \E x \in t : \A y \in t : x <= y
           good == {n \in Nat : \A t \in SUBSET ints : t # {} /\ Cardinality(t) = n => HasLeast(t)}
<1>1. 0 \in good
  BY FS_EmptySet, FS_Subset
<1>2. ASSUME NEW n \in good, n < Cardinality(ints) PROVE n + 1 \in good
  <2> SUFFICES ASSUME NEW t \in SUBSET ints, t # {}, Cardinality(t) = n + 1 PROVE HasLeast(t)
    OBVIOUS
  <2>1. PICK z \in t : TRUE
    OBVIOUS
  <2>2. IsFiniteSet(t)
    BY FS_Subset
  <2>3. Cardinality(t \ {z}) = n
    <3>1. n \in Nat
      OBVIOUS
    <3> HIDE DEF good, HasLeast
    <3>2. Cardinality(t \ {z}) = Cardinality(t) - 1
      BY <2>1, <2>2, FS_RemoveElement
    <3>3. QED
      BY <3>1, <3>2
  <2>4. CASE t \ {z} = {}
    <3>1. \A y \in t : y = z /\ z <= z
      BY <2>1, <2>4
    <3>2. QED
      BY <2>1, <3>1
  <2>5. CASE t \ {z} # {}
    <3>1. t \ {z} \in SUBSET ints
      OBVIOUS
    <3>2. PICK x \in t \ {z} : \A y \in t \ {z} : x <= y
      BY <2>3, <2>5, <3>1
    <3>3. CASE x <= z
      BY <3>2, <3>3
    <3>4. CASE z < x
      <4>1. \A y \in t : z <= y
        BY <3>2, <3>4
      <4>2. QED
        BY <2>1, <4>1
    <3>5. QED
      BY <2>1, <3>3, <3>4
  <2>6. QED
    BY <2>4, <2>5
<1>3. Cardinality(ints) \in Nat /\ good \in SUBSET Nat
  BY FS_CardinalityType
<1> HIDE DEF good
<1>4. Cardinality(ints) \in good
  BY <1>1, <1>2, <1>3, UpTo
<1>5. QED
  BY <1>4 DEF good

LEMMA Least ==
  ASSUME NEW ints \in SUBSET Int, IsFiniteSet(ints), ints # {}
  PROVE  Min(ints) \in ints /\ \A y \in ints : Min(ints) <= y
BY LeastExists DEF Min

-----------------------------------------------------------------------------
(* The order of the steps                                                   *)

\* The rows of one slot: numbers are unique (event_recipe_step), and 1 or more.
WellNumbered(steps) ==
  /\ IsFiniteSet(steps)
  /\ \A s \in steps : s.num \in Nat \ {0} /\ s.dep \in Int /\ s.dur \in Int
  /\ \A s, t \in steps : s.num = t.num => s = t

\* Numbers tell the rows of a slot apart.
LEMMA NumbersOf ==
  ASSUME NEW steps, WellNumbered(steps)
  PROVE  /\ IsFiniteSet(Numbers(steps)) /\ Cardinality(Numbers(steps)) = Cardinality(steps)
         /\ Numbers(steps) \subseteq Nat \ {0}
         /\ \A s \in steps : s.num \in Numbers(steps) /\ Numbered(steps, s.num) = s
         /\ \A n \in Numbers(steps) : Numbered(steps, n) \in steps /\ Numbered(steps, n).num = n
<1> DEFINE f == [s \in steps |-> s.num]
<1>1. f \in Bijection(steps, Numbers(steps))
  BY DEF WellNumbered, Numbers, Bijection, Injection, Surjection, IsInjective
<1>2. ExistsBijection(steps, Numbers(steps))
  BY <1>1 DEF ExistsBijection
<1>3. IsFiniteSet(Numbers(steps)) /\ Cardinality(Numbers(steps)) = Cardinality(steps)
  BY <1>2, FS_Bijection DEF WellNumbered
<1>4. QED
  BY <1>3 DEF WellNumbered, Numbers, Numbered

\* The number that the step with number n depends on.
Awaited(steps, n) == DepOf(Numbered(steps, n))

LEMMA AwaitedTyped ==
  ASSUME NEW steps, WellNumbered(steps), NEW n \in Numbers(steps)
  PROVE  Awaited(steps, n) \in Int
BY NumbersOf DEF WellNumbered, Awaited, DepOf, Nil

\* Some of the steps, each once and behind the one it depends on.
Ordered(steps, order) ==
  /\ order \in Seq(Numbers(steps))
  /\ \A i, j \in 1..Len(order) : order[i] = order[j] => i = j
  /\ \A i \in 1..Len(order) :
       Awaited(steps, order[i]) \in Numbers(steps) =>
         \E j \in 1..(i - 1) : order[j] = Awaited(steps, order[i])

\* A step is free when what it awaits is placed, or missing.
LEMMA FreeIs ==
  ASSUME NEW steps, WellNumbered(steps), NEW placed
  PROVE  Free(steps, placed) =
           {m \in Numbers(steps) \ placed :
              Awaited(steps, m) \in Numbers(steps) => Awaited(steps, m) \in placed}
<1>1. ASSUME NEW m \in Numbers(steps)
      PROVE  (\A e \in DepEdges(steps) : e[2] = m => e[1] \in placed)
             <=> (Awaited(steps, m) \in Numbers(steps) => Awaited(steps, m) \in placed)
  <2>1. \A e \in DepEdges(steps) : e[2] = m => e[1] = Awaited(steps, m)
    BY DEF DepEdges, Awaited
  <2>2. Awaited(steps, m) \in Numbers(steps) =>
          \E e \in DepEdges(steps) : e[2] = m /\ e[1] = Awaited(steps, m)
    <3> SUFFICES ASSUME Awaited(steps, m) \in Numbers(steps)
                 PROVE  <<Awaited(steps, m), m>> \in DepEdges(steps)
      OBVIOUS
    <3>1. Awaited(steps, m) # 0
      BY NumbersOf
    <3>2. QED
      BY <3>1 DEF DepEdges, Awaited
  <2>3. \A e \in DepEdges(steps) : e[1] \in Numbers(steps)
    BY DEF DepEdges
  <2>4. QED
    BY <2>1, <2>2, <2>3
<1>2. QED
  BY <1>1 DEF Free

\* One more step is put in order, or none is free.
LEMMA DrainKeeps ==
  ASSUME NEW steps, WellNumbered(steps), NEW order, Ordered(steps, order)
  PROVE  /\ Ordered(steps, DrainOne(steps, order))
         /\ \/ Len(DrainOne(steps, order)) = Len(order) + 1
            \/ DrainOne(steps, order) = order /\ Free(steps, ToSet(order)) = {}
<1> DEFINE queue == Free(steps, ToSet(order))
           least == Min(queue)
           after == Append(order, least)
<1>1. CASE queue = {}
  BY <1>1 DEF DrainOne
<1>2. CASE queue # {}
  <2>1. queue \subseteq Numbers(steps)
    BY FreeIs
  <2>2. IsFiniteSet(queue) /\ queue \in SUBSET Int
    BY <2>1, NumbersOf, FS_Subset
  <2>3. least \in queue
    BY <1>2, <2>2, Least
  <2>4. /\ least \in Numbers(steps) /\ least \notin ToSet(order)
        /\ Awaited(steps, least) \in Numbers(steps) => Awaited(steps, least) \in ToSet(order)
    BY <2>3, FreeIs
  <2> HIDE DEF least
  <2>5. order \in Seq(Numbers(steps)) /\ ToSet(order) = {order[i] : i \in 1..Len(order)}
    BY DEF Ordered, ToSet
  <2>6. /\ after \in Seq(Numbers(steps)) /\ Len(after) = Len(order) + 1
        /\ after[Len(order) + 1] = least
        /\ \A i \in 1..Len(order) : after[i] = order[i]
    BY <2>4, <2>5
  <2>7. \A i \in 1..Len(order) : order[i] # least
    BY <2>4, <2>5
  <2> HIDE DEF after
  <2>8. \A i, j \in 1..Len(after) : after[i] = after[j] => i = j
    BY <2>5, <2>6, <2>7 DEF Ordered
  <2>9. ASSUME NEW i \in 1..Len(after), Awaited(steps, after[i]) \in Numbers(steps)
        PROVE  \E j \in 1..(i - 1) : after[j] = Awaited(steps, after[i])
    <3>1. CASE i = Len(order) + 1
      <4>1. PICK j \in 1..Len(order) : order[j] = Awaited(steps, least)
        BY <2>4, <2>5, <2>6, <2>9, <3>1
      <4>2. QED
        BY <2>5, <2>6, <3>1, <4>1
    <3>2. CASE i # Len(order) + 1
      <4>1. i \in 1..Len(order)
        BY <2>5, <2>6, <3>2
      <4>2. PICK j \in 1..(i - 1) : order[j] = Awaited(steps, order[i])
        BY <2>6, <2>9, <4>1 DEF Ordered
      <4>3. QED
        BY <2>5, <2>6, <4>1, <4>2
    <3>3. QED
      BY <3>1, <3>2
  <2>10. Ordered(steps, after)
    BY <2>6, <2>8, <2>9 DEF Ordered
  <2>11. DrainOne(steps, order) = after
    BY <1>2 DEF DrainOne, after, least
  <2>12. QED
    BY <2>6, <2>10, <2>11
<1>3. QED
  BY <1>1, <1>2

LEMMA DistinctPlaces ==
  ASSUME NEW steps, NEW order, Ordered(steps, order)
  PROVE  /\ Len(order) \in Nat /\ ToSet(order) \subseteq Numbers(steps)
         /\ Cardinality(ToSet(order)) = Len(order)
<1>1. order \in Seq(Numbers(steps)) /\ Len(order) \in Nat
  BY DEF Ordered
<1>2. ToSet(order) \subseteq Numbers(steps)
  BY <1>1 DEF ToSet
<1>3. order \in Bijection(1..Len(order), ToSet(order))
  BY <1>1 DEF Ordered, ToSet, Bijection, Injection, Surjection, IsInjective
<1>4. ExistsBijection(1..Len(order), ToSet(order))
  BY <1>3 DEF ExistsBijection
<1>5. Cardinality(ToSet(order)) = Len(order)
  BY <1>1, <1>4, FS_CountingElements
<1>6. QED
  BY <1>1, <1>2, <1>5

\* An order of all steps leaves none out.
LEMMA CompleteOrder ==
  ASSUME NEW steps, WellNumbered(steps), NEW order, Ordered(steps, order)
  PROVE  Len(order) = Cardinality(steps) <=> ToSet(order) = Numbers(steps)
BY DistinctPlaces, NumbersOf, FS_Subset

\* The drained order cannot be continued.
LEMMA TopoOrderOrdered ==
  ASSUME NEW steps, WellNumbered(steps)
  PROVE  /\ Ordered(steps, TopoOrder(steps))
         /\ Free(steps, ToSet(TopoOrder(steps))) = {}
<1> DEFINE bound == Cardinality(steps)
           orders == {o \in Seq(Numbers(steps)) : Ordered(steps, o)}
           next == [n \in 1..bound |-> [o \in orders |-> DrainOne(steps, o)]]
           Drains(f) == f = [n \in 0..bound |-> IF n = 0 THEN <<>> ELSE DrainOne(steps, f[n - 1])]
           drained == CHOOSE f : Drains(f)
<1>1. bound \in Nat
  BY FS_CardinalityType DEF WellNumbered
<1>2. <<>> \in orders
  BY DEF Ordered
<1>3. \A o \in orders : DrainOne(steps, o) \in orders
  BY DrainKeeps DEF Ordered
<1>4. \E f : Drains(f)
  <2>1. next \in [1..bound -> [orders -> orders]]
    BY <1>3
  <2> HIDE DEF orders, next
  <2>2. PICK h \in [0..bound -> orders] :
          h[0] = <<>> /\ \A n \in 1..bound : h[n] = next[n][h[n - 1]]
    BY <1>1, <1>2, <2>1, Iterates
  <2>3. \A n \in 1..bound : h[n] = DrainOne(steps, h[n - 1])
    <3> SUFFICES ASSUME NEW n \in 1..bound PROVE h[n] = DrainOne(steps, h[n - 1])
      OBVIOUS
    <3>1. n - 1 \in 0..bound
      BY <1>1
    <3>2. h[n - 1] \in orders
      BY <3>1
    <3>3. next[n][h[n - 1]] = DrainOne(steps, h[n - 1])
      BY <3>2 DEF next
    <3>4. QED
      BY <2>2, <3>3
  <2> HIDE DEF bound
  <2>4. Drains(h)
    BY <1>1, <2>2, <2>3
  <2>5. QED
    BY <2>4
<1>5. TopoOrder(steps) = drained[bound]
  BY DEF TopoOrder
<1>6. Drains(drained)
  BY <1>4
<1> HIDE DEF drained, bound
<1>7. drained[0] = <<>> /\ \A n \in 1..bound : drained[n] = DrainOne(steps, drained[n - 1])
  BY <1>1, <1>6
<1> DEFINE Fits(n) == /\ Ordered(steps, drained[n])
                      /\ Len(drained[n]) = n \/ Free(steps, ToSet(drained[n])) = {}
           good == {n \in 0..bound : Fits(n)}
<1>8. Fits(0)
  BY <1>7 DEF Ordered
<1>9. ASSUME NEW n \in good, n < bound PROVE Fits(n + 1)
  <2>1. drained[n + 1] = DrainOne(steps, drained[n])
    BY <1>1, <1>7, <1>9
  <2>2. /\ Ordered(steps, drained[n + 1])
        /\ \/ Len(drained[n + 1]) = Len(drained[n]) + 1
           \/ drained[n + 1] = drained[n] /\ Free(steps, ToSet(drained[n])) = {}
    BY <2>1, DrainKeeps
  <2>3. CASE Free(steps, ToSet(drained[n])) = {}
    BY <2>1, <2>2, <2>3 DEF DrainOne
  <2>4. CASE Free(steps, ToSet(drained[n])) # {}
    BY <2>2, <2>4
  <2>5. QED
    BY <2>3, <2>4
<1> HIDE DEF Fits
<1>10. bound \in good
  <2>1. 0 \in good /\ good \in SUBSET Nat
    BY <1>1, <1>8
  <2>2. \A n \in good : n < bound => n + 1 \in good
    BY <1>1, <1>9
  <2> HIDE DEF good
  <2>3. QED
    BY <1>1, <2>1, <2>2, UpTo
<1>11. Fits(bound)
  BY <1>10
<1> DEFINE order == drained[bound]
<1>12. Ordered(steps, order)
  BY <1>11 DEF Fits
<1>13. Len(order) = bound => Free(steps, ToSet(order)) = {}
  <2> SUFFICES ASSUME Len(order) = bound PROVE Free(steps, ToSet(order)) = {}
    OBVIOUS
  <2> HIDE DEF order
  <2>1. ToSet(order) = Numbers(steps)
    BY <1>12, CompleteOrder DEF bound
  <2>2. QED
    BY <2>1, FreeIs
<1>14. QED
  BY <1>5, <1>11, <1>12, <1>13 DEF Fits

LEMMA WaitsForIs ==
  ASSUME NEW steps, WellNumbered(steps), NEW s \in steps, NEW d \in steps
  PROVE  WaitsFor(s, d, steps) <=> d.num = Awaited(steps, s.num)
BY NumbersOf DEF WaitsFor, Awaited

\* The steps that are left out wait for each other.
LEMMA CircularIfIncomplete ==
  ASSUME NEW steps, WellNumbered(steps),
         NEW order, Ordered(steps, order), Free(steps, ToSet(order)) = {},
         ToSet(order) # Numbers(steps)
  PROVE  Circular(steps)
<1> DEFINE stuck == {s \in steps : s.num \notin ToSet(order)}
<1>1. stuck # {}
  <2>1. ToSet(order) \subseteq Numbers(steps)
    BY DEF Ordered, ToSet
  <2>2. PICK n \in Numbers(steps) : n \notin ToSet(order)
    BY <2>1
  <2>3. Numbered(steps, n) \in stuck
    BY <2>2, NumbersOf
  <2>4. QED
    BY <2>3
<1>2. ASSUME NEW s \in stuck PROVE \E d \in stuck : WaitsFor(s, d, steps)
  <2>1. /\ Awaited(steps, s.num) \in Numbers(steps)
        /\ Awaited(steps, s.num) \notin ToSet(order)
    BY NumbersOf, FreeIs
  <2>2. PICK d \in steps : d.num = Awaited(steps, s.num)
    BY <2>1 DEF Numbers
  <2>3. WaitsFor(s, d, steps)
    BY <2>2, WaitsForIs
  <2>4. QED
    BY <2>1, <2>2, <2>3
<1>3. stuck \in SUBSET steps
  OBVIOUS
<1> HIDE DEF stuck
<1>4. QED
  BY <1>1, <1>2, <1>3 DEF Circular

\* In an order of all steps, the first of those that wait for each other would
\* wait for one before it.
LEMMA CompleteIfNotCircular ==
  ASSUME NEW steps, WellNumbered(steps),
         NEW order, Ordered(steps, order), ToSet(order) = Numbers(steps)
  PROVE  ~Circular(steps)
<1> SUFFICES ASSUME NEW stuck \in SUBSET steps, stuck # {},
                    \A s \in stuck : \E d \in stuck : WaitsFor(s, d, steps)
             PROVE  FALSE
  BY DEF Circular
<1> DEFINE places == {i \in 1..Len(order) : \E s \in stuck : s.num = order[i]}
<1>1. order \in Seq(Numbers(steps)) /\ Len(order) \in Nat
  BY DEF Ordered
<1>2. places # {}
  <2>1. PICK s \in stuck : TRUE
    OBVIOUS
  <2>2. s.num \in ToSet(order)
    BY NumbersOf
  <2>3. QED
    BY <1>1, <2>2 DEF ToSet
<1>3. places \in SUBSET Int /\ IsFiniteSet(places)
  <2>1. places \in SUBSET (1..Len(order)) /\ IsFiniteSet(1..Len(order))
    BY <1>1, FS_Interval
  <2>2. QED
    BY <2>1, FS_Subset
<1>4. PICK i \in places : \A j \in places : i <= j
  BY <1>2, <1>3, LeastExists
<1>5. PICK s \in stuck : s.num = order[i]
  BY <1>4
<1>6. PICK d \in stuck : WaitsFor(s, d, steps)
  OBVIOUS
<1>7. d.num = Awaited(steps, order[i]) /\ d.num \in Numbers(steps)
  BY <1>5, <1>6, WaitsForIs, NumbersOf
<1>8. PICK j \in 1..(i - 1) : order[j] = d.num
  BY <1>7 DEF Ordered
<1>9. j \in places
  BY <1>1, <1>8
<1>10. QED
  BY <1>4, <1>8, <1>9

-----------------------------------------------------------------------------
(* The times of the steps                                                   *)

\* The schedules under construction.
Times(steps) == [Numbers(steps) -> [start : Int, end : Int]]

LEMMA MinutesTyped ==
  ASSUME NEW d \in Int, NEW g \in Nat \ {0}
  PROVE  EffectiveMinutes(d, g) \in Int
BY DEF EffectiveMinutes, MaxInt32

LEMMA MultipleOf ==
  ASSUME NEW g \in Nat \ {0}, NEW q \in Int
  PROVE  (g * q) % g = 0
OBVIOUS

LEMMA AtLeastOne ==
  ASSUME NEW d \in Int
  PROVE  Max({d, 1}) = IF d > 1 THEN d ELSE 1
<1> DEFINE m == IF d > 1 THEN d ELSE 1
<1>1. m \in {d, 1} /\ \A y \in {d, 1} : m >= y
  OBVIOUS
<1>2. \A x \in {d, 1} : (\A y \in {d, 1} : x >= y) => x = m
  OBVIOUS
<1> HIDE DEF m
<1>3. Max({d, 1}) = m
  BY <1>1, <1>2 DEF Max
<1>4. QED
  BY <1>3 DEF m

\* effectiveMinutes rounds up to the next whole number of slots.
LEMMA MinutesWhole ==
  ASSUME NEW d \in Int, NEW g \in Nat \ {0}
  PROVE  WholeSlots(EffectiveMinutes(d, g), d, g)
<1> DEFINE r == d % g
           q == d \div g
           m == IF r = 0 THEN d ELSE d + g - r
           minutes == EffectiveMinutes(d, g)
<1>1. d = g * q + r /\ r \in 0..(g - 1) /\ q \in Int
  OBVIOUS
<1>2. CASE d <= 0
  <2>1. g % g = 0
    BY MultipleOf
  <2>2. minutes = g
    BY <1>2 DEF EffectiveMinutes
  <2>3. Max({d, 1}) = 1
    BY <1>2, AtLeastOne
  <2>4. g % g = 0 /\ g >= g /\ g >= d /\ g - g < 1
    BY <1>2, <2>1
  <2>5. QED
    BY <2>2, <2>3, <2>4 DEF WholeSlots
<1>3. CASE d > 0
  <2> HIDE DEF r, q
  <2>1. m \in Int /\ m >= d /\ m - g < d /\ Max({d, 1}) = d
    BY <1>1, <1>3, AtLeastOne
  <2>2. m % g = 0 /\ m >= g
    <3>1. CASE r = 0
      <4>1. m = g * q
        BY <1>1, <3>1
      <4>2. q >= 1
        BY <1>1, <1>3, <3>1
      <4>3. g * q >= g
        BY <1>1, <4>2
      <4>4. QED
        BY <1>1, <4>1, <4>3, MultipleOf
    <3>2. CASE r # 0
      <4>1. g * q + g = g * (q + 1) /\ q + 1 \in Int
        BY <1>1
      <4>2. m = g * (q + 1)
        BY <1>1, <3>2, <4>1
      <4>3. q >= 0
        BY <1>1, <1>3
      <4>4. g * (q + 1) >= g
        BY <1>1, <4>3
      <4>5. QED
        BY <4>1, <4>2, <4>4, MultipleOf
    <3>3. QED
      BY <3>1, <3>2
  <2>3. minutes = IF m > MaxInt32 THEN MaxInt32 ELSE m
    BY <1>3 DEF EffectiveMinutes, r
  <2> HIDE DEF m, minutes
  <2>4. CASE m > MaxInt32
    <3>1. d > MaxInt32 - g
      BY <2>1, <2>4 DEF MaxInt32
    <3>2. QED
      BY <2>3, <2>4, <3>1 DEF WholeSlots, minutes
  <2>5. CASE ~(m > MaxInt32)
    <3>1. minutes = m
      BY <2>3, <2>5
    <3>2. QED
      BY <2>1, <2>2, <3>1 DEF WholeSlots, minutes
  <2>6. QED
    BY <2>4, <2>5
<1>4. QED
  BY <1>2, <1>3

LEMMA StartsTyped ==
  ASSUME NEW steps, WellNumbered(steps), NEW times \in Times(steps), NEW n
  PROVE  LET starts == {times[m].start : m \in Dependents(steps, n)}
         IN starts \in SUBSET Int /\ IsFiniteSet(starts)
<1> DEFINE d == Dependents(steps, n)
           starts == {times[m].start : m \in d}
           f == [m \in d |-> times[m].start]
<1>1. d \subseteq Numbers(steps)
  BY DEF Dependents
<1>2. starts \in SUBSET Int
  BY <1>1 DEF Times
<1>3. IsFiniteSet(d)
  BY <1>1, NumbersOf, FS_Subset
<1>4. f \in Surjection(d, starts)
  BY DEF Surjection
<1>5. IsFiniteSet(starts)
  BY <1>3, <1>4, FS_Surjection
<1>6. QED
  BY <1>2, <1>5

LEMMA LatestEndIs ==
  ASSUME NEW goal \in Int, NEW starts \in SUBSET Int, IsFiniteSet(starts)
  PROVE  LET end == LatestEnd(goal, starts)
         IN end \in {goal} \cup starts /\ end <= goal /\ \A x \in starts : end <= x
<1>1. IsFiniteSet(starts \cup {goal}) /\ starts \cup {goal} \in SUBSET Int
  BY FS_AddElement
<1>2. starts \cup {goal} = {goal} \cup starts /\ {goal} \cup starts # {}
  OBVIOUS
<1>3. QED
  BY <1>1, <1>2, Least DEF LatestEnd

\* The step with number n is where the starts of its dependents put it.
InPlace(steps, times, n, goal, g) ==
  /\ times[n].end = LatestEnd(goal, {times[m].start : m \in Dependents(steps, n)})
  /\ times[n].start = times[n].end - EffectiveMinutes(Numbered(steps, n).dur, g)

LEMMA PlaceStepIs ==
  ASSUME NEW steps, WellNumbered(steps), NEW times \in Times(steps),
         NEW n \in Numbers(steps), n \notin Dependents(steps, n),
         NEW goal \in Int, NEW g \in Nat \ {0}
  PROVE  LET after == PlaceStep(steps, times, n, goal, g)
         IN /\ after \in Times(steps)
            /\ \A m \in Numbers(steps) \ {n} : after[m] = times[m]
            /\ InPlace(steps, after, n, goal, g)
<1> DEFINE starts == {times[m].start : m \in Dependents(steps, n)}
           end == LatestEnd(goal, starts)
           minutes == EffectiveMinutes(Numbered(steps, n).dur, g)
           after == PlaceStep(steps, times, n, goal, g)
<1>1. starts \in SUBSET Int /\ IsFiniteSet(starts)
  BY StartsTyped
<1> HIDE DEF starts
<1>2. end \in Int
  BY <1>1, LatestEndIs
<1>3. minutes \in Int
  BY NumbersOf, MinutesTyped DEF WellNumbered
<1>4. after = [times EXCEPT ![n] = [start |-> end - minutes, end |-> end]]
  BY DEF PlaceStep, starts
<1> HIDE DEF end, minutes, after
<1>5. after \in Times(steps)
  BY <1>2, <1>3, <1>4 DEF Times
<1>6. /\ \A m \in Numbers(steps) \ {n} : after[m] = times[m]
      /\ after[n] = [start |-> end - minutes, end |-> end]
  BY <1>4 DEF Times
<1>7. {after[m].start : m \in Dependents(steps, n)} = starts
  <2>1. Dependents(steps, n) \subseteq Numbers(steps) \ {n}
    BY DEF Dependents
  <2>2. QED
    BY <1>6, <2>1 DEF starts
<1>8. InPlace(steps, after, n, goal, g)
  <2>1. after[n].end = end /\ after[n].start = end - minutes
    BY <1>6
  <2>2. after[n].end = LatestEnd(goal, {after[m].start : m \in Dependents(steps, n)})
    BY <1>7, <2>1, Zenon DEF end
  <2>3. after[n].start = after[n].end - EffectiveMinutes(Numbered(steps, n).dur, g)
    BY <2>1 DEF minutes
  <2>4. QED
    BY <2>2, <2>3, Zenon DEF InPlace
<1>9. QED
  BY <1>5, <1>6, <1>8 DEF after

LEMMA DependentsLater ==
  ASSUME NEW steps, WellNumbered(steps), NEW order, Ordered(steps, order),
         NEW i \in 1..Len(order), NEW j \in 1..Len(order),
         order[j] \in Dependents(steps, order[i])
  PROVE  i < j
<1>1. Len(order) \in Nat /\ order[i] \in Numbers(steps)
  BY DEF Ordered
<1>2. Awaited(steps, order[j]) = order[i]
  BY DEF Dependents, Awaited
<1>3. PICK k \in 1..(j - 1) : order[k] = order[i]
  BY <1>1, <1>2 DEF Ordered
<1>4. k = i
  BY <1>1, <1>3 DEF Ordered
<1>5. QED
  BY <1>3, <1>4

\* A step that is placed leaves those that were in their places there.
LEMMA PlaceNext ==
  ASSUME NEW steps, WellNumbered(steps),
         NEW order, Ordered(steps, order), ToSet(order) = Numbers(steps),
         NEW goal \in Int, NEW g \in Nat \ {0},
         NEW times \in Times(steps), NEW last \in 1..Len(order),
         \A i \in (last + 1)..Len(order) : InPlace(steps, times, order[i], goal, g)
  PROVE  LET after == PlaceStep(steps, times, order[last], goal, g)
         IN /\ after \in Times(steps)
            /\ \A i \in last..Len(order) : InPlace(steps, after, order[i], goal, g)
<1> DEFINE after == PlaceStep(steps, times, order[last], goal, g)
<1>1. Len(order) \in Nat /\ \A i \in 1..Len(order) : order[i] \in Numbers(steps)
  BY DEF Ordered
<1>2. order[last] \notin Dependents(steps, order[last])
  BY DependentsLater
<1>3. /\ after \in Times(steps) /\ InPlace(steps, after, order[last], goal, g)
      /\ \A m \in Numbers(steps) \ {order[last]} : after[m] = times[m]
  BY <1>1, <1>2, PlaceStepIs
<1> HIDE DEF after
<1>4. ASSUME NEW i \in (last + 1)..Len(order)
      PROVE  InPlace(steps, after, order[i], goal, g)
  <2>1. i \in 1..Len(order) /\ i > last
    BY <1>1
  <2>2. order[i] \in Numbers(steps) \ {order[last]}
    BY <1>1, <2>1 DEF Ordered
  <2>3. ASSUME NEW m \in Dependents(steps, order[i])
        PROVE  m \in Numbers(steps) \ {order[last]}
    <3>1. m \in Numbers(steps)
      BY DEF Dependents
    <3>2. PICK j \in 1..Len(order) : order[j] = m
      <4>1. order \in Seq(Numbers(steps)) /\ m \in ToSet(order)
        BY <3>1 DEF Ordered
      <4>2. DOMAIN order = 1..Len(order)
        BY <4>1
      <4>3. QED
        BY <4>1, <4>2 DEF ToSet
    <3>3. i < j
      BY <2>1, <3>2, DependentsLater
    <3>4. QED
      BY <1>1, <2>1, <3>1, <3>2, <3>3 DEF Ordered
  <2>4. {after[m].start : m \in Dependents(steps, order[i])}
        = {times[m].start : m \in Dependents(steps, order[i])}
    BY <1>3, <2>3
  <2>5. after[order[i]] = times[order[i]]
    BY <1>3, <2>2
  <2>6. InPlace(steps, times, order[i], goal, g)
    OBVIOUS
  <2>7. QED
    BY <2>4, <2>5, <2>6, Zenon DEF InPlace
<1>5. \A i \in last..Len(order) : i = last \/ i \in (last + 1)..Len(order)
  BY <1>1
<1>6. \A i \in last..Len(order) : InPlace(steps, after, order[i], goal, g)
  BY <1>3, <1>4, <1>5
<1>7. QED
  BY <1>3, <1>6 DEF after

LEMMA AllInPlace ==
  ASSUME NEW steps, WellNumbered(steps),
         NEW order, Ordered(steps, order), ToSet(order) = Numbers(steps),
         NEW goal \in Int, NEW g \in Nat \ {0}
  PROVE  LET times == PlaceSteps(steps, order, goal, g)
         IN /\ times \in Times(steps)
            /\ \A n \in Numbers(steps) : InPlace(steps, times, n, goal, g)
<1> DEFINE bound == Len(order)
           plans == Times(steps)
           start == [n \in Numbers(steps) |-> [start |-> ZeroTime, end |-> ZeroTime]]
           Put(k, times) == PlaceStep(steps, times, order[bound + 1 - k], goal, g)
           next == [k \in 1..bound |-> [times \in plans |-> Put(k, times)]]
           Placing(f) == f = [k \in 0..bound |-> IF k = 0 THEN start ELSE Put(k, f[k - 1])]
           placed == CHOOSE f : Placing(f)
<1>1. bound \in Nat /\ \A i \in 1..bound : order[i] \in Numbers(steps)
  BY DEF Ordered
<1>2. start \in plans
  BY DEF Times, ZeroTime
<1>3. ASSUME NEW k \in 1..bound, NEW times \in plans PROVE Put(k, times) \in plans
  <2>1. bound + 1 - k \in 1..bound
    BY <1>1
  <2>2. order[bound + 1 - k] \notin Dependents(steps, order[bound + 1 - k])
    BY <2>1, DependentsLater
  <2>3. QED
    BY <1>1, <2>1, <2>2, PlaceStepIs
<1> HIDE DEF Put, start
<1>4. \E f : Placing(f)
  <2>1. next \in [1..bound -> [plans -> plans]]
    BY <1>3
  <2> HIDE DEF next, bound, plans
  <2>2. PICK h \in [0..bound -> plans] :
          h[0] = start /\ \A k \in 1..bound : h[k] = next[k][h[k - 1]]
    <3>1. bound \in Nat /\ start \in plans
      BY <1>1, <1>2
    <3>2. QED
      BY <2>1, <3>1, Iterates
  <2>3. ASSUME NEW k \in 1..bound PROVE h[k] = Put(k, h[k - 1])
    <3>1. h[k - 1] \in plans
      BY <1>1
    <3>2. next[k][h[k - 1]] = Put(k, h[k - 1])
      BY <3>1 DEF next
    <3>3. QED
      BY <2>2, <3>2
  <2>4. Placing(h)
    BY <1>1, <2>2, <2>3
  <2>5. QED
    BY <2>4
<1>5. PlaceSteps(steps, order, goal, g) = placed[bound]
  BY DEF PlaceSteps, Put, start
<1>6. Placing(placed)
  BY <1>4
<1> HIDE DEF placed, bound
<1>7. placed[0] = start /\ \A k \in 1..bound : placed[k] = Put(k, placed[k - 1])
  BY <1>1, <1>6
<1> DEFINE Fits(k) == /\ placed[k] \in Times(steps)
                      /\ \A i \in (bound + 1 - k)..bound :
                           InPlace(steps, placed[k], order[i], goal, g)
           good == {k \in 0..bound : Fits(k)}
<1>8. Fits(0)
  BY <1>1, <1>2, <1>7
<1>9. ASSUME NEW k \in good, k < bound PROVE Fits(k + 1)
  <2> DEFINE last == bound - k
  <2>1. /\ last \in 1..bound /\ k + 1 \in 1..bound /\ bound + 1 - (k + 1) = last
        /\ bound + 1 - k = last + 1 /\ k + 1 - 1 = k
    BY <1>1, <1>9
  <2>2. placed[k + 1] = Put(k + 1, placed[k])
    BY <1>7, <2>1
  <2>3. placed[k] \in Times(steps) /\ \A i \in (last + 1)..bound : InPlace(steps, placed[k], order[i], goal, g)
    BY <2>1
  <2> HIDE DEF last, good
  <2>4. placed[k + 1] = PlaceStep(steps, placed[k], order[last], goal, g)
    BY <2>1, <2>2 DEF Put
  <2>5. /\ placed[k + 1] \in Times(steps)
        /\ \A i \in last..bound : InPlace(steps, placed[k + 1], order[i], goal, g)
    BY <2>1, <2>3, <2>4, PlaceNext DEF bound
  <2>6. QED
    BY <2>1, <2>5
<1> HIDE DEF Fits
<1>10. bound \in good
  <2>1. 0 \in good /\ good \in SUBSET Nat
    BY <1>1, <1>8
  <2>2. \A k \in good : k < bound => k + 1 \in good
    BY <1>1, <1>9
  <2> HIDE DEF good
  <2>3. QED
    BY <1>1, <2>1, <2>2, UpTo
<1>11. Fits(bound)
  BY <1>10
<1>12. /\ placed[bound] \in Times(steps)
       /\ \A i \in 1..bound : InPlace(steps, placed[bound], order[i], goal, g)
  BY <1>1, <1>11 DEF Fits
<1>13. \A n \in Numbers(steps) : \E i \in 1..bound : order[i] = n
  BY DEF Ordered, ToSet, bound
<1>14. QED
  BY <1>5, <1>12, <1>13

\* The backward schedule is right whatever the steps, the target and the
\* granularity are: it exists unless steps wait for each other in a circle, and
\* every step takes its whole slots and ends when the first step that needs it
\* begins, or at the target (scheduleRecipe, topoOrder, placeSteps).
THEOREM ScheduleIsRight ==
  ASSUME NEW steps, WellNumbered(steps), NEW goal \in Int, NEW g \in Nat \ {0}
  PROVE  Schedules(ScheduleRecipe(steps, goal, g), steps, goal, g)
<1> DEFINE order == TopoOrder(steps)
           plan == ScheduleRecipe(steps, goal, g)
           times == PlaceSteps(steps, order, goal, g)
<1>1. Ordered(steps, order) /\ Free(steps, ToSet(order)) = {}
  BY TopoOrderOrdered
<1>2. Len(order) = Cardinality(steps) <=> ~Circular(steps)
  BY <1>1, CompleteOrder, CircularIfIncomplete, CompleteIfNotCircular
<1>3. CASE steps = {} \/ Circular(steps)
  BY <1>2, <1>3 DEF Schedules, ScheduleRecipe
<1>4. CASE steps # {} /\ ~Circular(steps)
  <2>1. plan = [unschedulable |-> FALSE, times |-> times]
    BY <1>2, <1>4 DEF ScheduleRecipe
  <2>2. ToSet(order) = Numbers(steps)
    BY <1>1, <1>2, <1>4, CompleteOrder
  <2> HIDE DEF order
  <2>3. /\ times \in Times(steps)
        /\ \A n \in Numbers(steps) : InPlace(steps, times, n, goal, g)
    BY <1>1, <2>2, AllInPlace
  <2> HIDE DEF times, plan
  <2>4. ASSUME NEW s \in steps
        PROVE  LET t == plan.times[s.num]
                   after == {plan.times[m.num].start : m \in {x \in steps : WaitsFor(x, s, steps)}}
               IN /\ WholeSlots(t.end - t.start, s.dur, g)
                  /\ t.end \in {goal} \cup after
                  /\ t.end <= goal /\ \A x \in after : t.end <= x
    <3> DEFINE t == times[s.num]
               starts == {times[m].start : m \in Dependents(steps, s.num)}
               after == {times[m.num].start : m \in {x \in steps : WaitsFor(x, s, steps)}}
    <3>1. s.num \in Numbers(steps) /\ Numbered(steps, s.num) = s /\ s.dur \in Int
      BY NumbersOf DEF WellNumbered
    <3>2. t.end = LatestEnd(goal, starts) /\ t.start = t.end - EffectiveMinutes(s.dur, g)
      BY <2>3, <3>1 DEF InPlace
    <3>3. t.end \in Int /\ t.start \in Int /\ EffectiveMinutes(s.dur, g) \in Int
      BY <2>3, <3>1, MinutesTyped DEF Times
    <3>4. t.end - t.start = EffectiveMinutes(s.dur, g)
      BY <3>2, <3>3
    <3>5. starts \in SUBSET Int /\ IsFiniteSet(starts)
      BY <2>3, StartsTyped
    <3>6. after = starts
      <4>1. ASSUME NEW m \in Dependents(steps, s.num)
            PROVE  \E x \in steps : WaitsFor(x, s, steps) /\ x.num = m
        BY NumbersOf, WaitsForIs DEF Dependents, Awaited
      <4>2. ASSUME NEW x \in steps, WaitsFor(x, s, steps)
            PROVE  x.num \in Dependents(steps, s.num)
        BY <4>2, NumbersOf, WaitsForIs DEF Dependents, Awaited
      <4>3. QED
        BY <4>1, <4>2
    <3> HIDE DEF starts, after
    <3>7. t.end \in {goal} \cup after /\ t.end <= goal /\ \A x \in after : t.end <= x
      BY <3>2, <3>5, <3>6, LatestEndIs
    <3>8. WholeSlots(t.end - t.start, s.dur, g)
      BY <3>1, <3>4, MinutesWhole
    <3>9. plan.times = times
      BY <2>1
    <3>10. QED
      BY <3>7, <3>8, <3>9, Zenon DEF after
  <2>5. plan.unschedulable = FALSE
    BY <2>1
  <2>6. Schedules(plan, steps, goal, g)
    BY <1>4, <2>4, <2>5, Zenon DEF Schedules
  <2>7. QED
    BY <2>6 DEF plan
<1>5. QED
  BY <1>3, <1>4

-----------------------------------------------------------------------------
(* The overlay                                                              *)

\* Rows by place, finitely many.
RowsTyped(rows) ==
  /\ IsFiniteSet(DOMAIN rows) /\ DOMAIN rows \subseteq Int
  /\ \A p \in DOMAIN rows : rows[p].num \in Int /\ rows[p].added \in BOOLEAN

\* The comparison with the places behind it is a total order.
LEMMA BeforeOrders ==
  ASSUME NEW rows, RowsTyped(rows), NEW p \in DOMAIN rows, NEW q \in DOMAIN rows
  PROVE  /\ ~Before(rows, p, p) /\ (p # q => Before(rows, p, q) \/ Before(rows, q, p))
         /\ \A r \in DOMAIN rows : Before(rows, p, q) /\ Before(rows, q, r) => Before(rows, p, r)
BY DEF RowsTyped, Before, SortsBefore

PlaceOf(rows, r) == CHOOSE p \in DOMAIN rows : Rank(rows, p) = r

LEMMA RankOrders ==
  ASSUME NEW rows, RowsTyped(rows), NEW p \in DOMAIN rows, NEW q \in DOMAIN rows,
         Before(rows, q, p)
  PROVE  Rank(rows, q) < Rank(rows, p)
<1> DEFINE Behind(x) == {y \in DOMAIN rows : Before(rows, y, x)}
<1>1. Behind(q) \in SUBSET Behind(p) /\ q \in Behind(p) /\ q \notin Behind(q)
  BY BeforeOrders
<1>2. IsFiniteSet(Behind(p)) /\ IsFiniteSet(Behind(q))
  BY FS_Subset DEF RowsTyped
<1>3. Cardinality(Behind(q)) <= Cardinality(Behind(p))
      /\ Cardinality(Behind(q)) # Cardinality(Behind(p))
  BY <1>1, <1>2, FS_Subset
<1>4. Cardinality(Behind(q)) \in Nat /\ Cardinality(Behind(p)) \in Nat
  BY <1>2, FS_CardinalityType
<1>5. Rank(rows, q) = 1 + Cardinality(Behind(q)) /\ Rank(rows, p) = 1 + Cardinality(Behind(p))
  BY DEF Rank
<1>6. QED
  BY <1>3, <1>4, <1>5

\* The ranks are 1 to the number of rows, each once: the sort is stable and loses
\* no row.
LEMMA Ranks ==
  ASSUME NEW rows, RowsTyped(rows)
  PROVE  LET bound == Cardinality(DOMAIN rows)
         IN /\ bound \in Nat
            /\ \A p \in DOMAIN rows :
                 Rank(rows, p) \in 1..bound /\ PlaceOf(rows, Rank(rows, p)) = p
            /\ \A r \in 1..bound : PlaceOf(rows, r) \in DOMAIN rows /\ Rank(rows, PlaceOf(rows, r)) = r
            /\ \A q, r \in 1..bound : q < r => Before(rows, PlaceOf(rows, q), PlaceOf(rows, r))
<1> DEFINE places == DOMAIN rows
           bound == Cardinality(places)
           f == [p \in places |-> Rank(rows, p)]
<1>1. bound \in Nat /\ IsFiniteSet(places)
  BY FS_CardinalityType DEF RowsTyped
<1>2. ASSUME NEW p \in places PROVE Rank(rows, p) \in 1..bound
  <2> DEFINE behind == {q \in places : Before(rows, q, p)}
  <2>1. behind \in SUBSET (places \ {p})
    BY BeforeOrders
  <2>2. IsFiniteSet(places \ {p}) /\ Cardinality(places \ {p}) = bound - 1
    BY <1>1, FS_RemoveElement
  <2>3. Cardinality(behind) <= bound - 1 /\ Cardinality(behind) \in Nat
    BY <2>1, <2>2, FS_Subset, FS_CardinalityType
  <2>4. Rank(rows, p) = 1 + Cardinality(behind)
    BY DEF Rank
  <2>5. QED
    BY <1>1, <2>3, <2>4
<1>3. ASSUME NEW p \in places, NEW q \in places, Rank(rows, p) = Rank(rows, q) PROVE p = q
  <2> SUFFICES ASSUME p # q PROVE FALSE
    OBVIOUS
  <2>1. Rank(rows, p) < Rank(rows, q) \/ Rank(rows, q) < Rank(rows, p)
    BY BeforeOrders, RankOrders
  <2>2. QED
    BY <1>1, <1>2, <1>3, <2>1
<1>4. f \in Injection(places, 1..bound)
  BY <1>2, <1>3 DEF Injection, IsInjective
<1>5. IsFiniteSet(1..bound) /\ Cardinality(1..bound) = bound
  BY <1>1, FS_Interval
<1>6. f \in Surjection(places, 1..bound)
  BY <1>4, <1>5, FS_Injection
<1>7. ASSUME NEW r \in 1..bound PROVE \E p \in places : Rank(rows, p) = r
  BY <1>6 DEF Surjection
<1> HIDE DEF places, bound
<1>8. \A p \in places : PlaceOf(rows, Rank(rows, p)) = p
  BY <1>3 DEF PlaceOf, places
<1>9. \A r \in 1..bound : PlaceOf(rows, r) \in places /\ Rank(rows, PlaceOf(rows, r)) = r
  BY <1>7 DEF PlaceOf, places
<1>10. ASSUME NEW q \in 1..bound, NEW r \in 1..bound, q < r
       PROVE  Before(rows, PlaceOf(rows, q), PlaceOf(rows, r))
  <2> DEFINE x == PlaceOf(rows, q)
             y == PlaceOf(rows, r)
  <2>1. x \in places /\ y \in places /\ Rank(rows, x) = q /\ Rank(rows, y) = r
    BY <1>9
  <2>2. x # y
    BY <1>10, <2>1
  <2> HIDE DEF x, y
  <2>3. ~Before(rows, y, x)
    BY <1>10, <2>1, RankOrders DEF places
  <2>4. Before(rows, x, y)
    BY <2>1, <2>2, <2>3, BeforeOrders DEF places
  <2>5. QED
    BY <2>4 DEF x, y
<1>11. QED
  BY <1>1, <1>2, <1>8, <1>9, <1>10 DEF places, bound

\* What a slot is linked to: a recipe and a delta that fit the schema.
LinkFits(l) ==
  /\ IsRecipe(l.steps) /\ IsDelta(l.delta)
  /\ \A i \in 1..Len(l.steps) : \A d \in Adds(l.delta.changes) : d.id # l.steps[i].id

Fields == [id : Nat, num : Int, dep : Int, dur : Nat \cup {Nil}, added : BOOLEAN]

LEMMA RecipeTyped ==
  ASSUME NEW r, IsRecipe(r)
  PROVE  /\ Len(r) \in Nat /\ DOMAIN r = 1..Len(r) /\ r \in Seq(Fields)
         /\ \A i \in 1..Len(r) : r[i] \in Fields /\ r[i].added = FALSE
         /\ \A i, j \in 1..Len(r) : r[i].id = r[j].id => i = j
<1> DEFINE plain == [id : Nat, num : Int, dep : Int, dur : Nat \cup {Nil}, added : {FALSE}]
<1>1. r \in Seq(plain)
  BY DEF IsRecipe
<1> HIDE DEF plain
<1>2. /\ Len(r) \in Nat /\ DOMAIN r = 1..Len(r)
      /\ \A i \in 1..Len(r) : r[i] \in plain
  BY <1>1
<1>3. \A i \in 1..Len(r) : r[i] \in Fields /\ r[i].added = FALSE
  BY <1>2 DEF Fields, plain
<1>4. \A i, j \in 1..Len(r) : r[i].id = r[j].id => i = j
  BY <1>2 DEF IsRecipe
<1>5. r \in Seq(Fields)
  BY <1>1, <1>2, <1>3
<1>6. QED
  BY <1>2, <1>3, <1>4, <1>5

LEMMA DeltaTyped ==
  ASSUME NEW c, IsDelta(c), NEW d \in c.changes
  PROVE  /\ d.kind \in {"remove", "replace", "add"} /\ d.id \in Nat \ {0}
         /\ d.num \in Int /\ d.dep \in Int /\ (d.kind = "add" => d.num # Nil)
BY DEF IsDelta

LEMMA MergedPlaces ==
  ASSUME NEW l, LinkFits(l)
  PROVE  LET places == DOMAIN Merged(l.steps, l.delta.changes)
         IN IsFiniteSet(places) /\ places \subseteq Nat \ {0}
<1> DEFINE steps == l.steps
           changes == l.delta.changes
           kept == Kept(steps, changes)
           adds == Adds(changes)
           added == {Len(steps) + d.id : d \in adds}
           f == [d \in adds |-> Len(steps) + d.id]
<1>1. Len(steps) \in Nat
  BY RecipeTyped DEF LinkFits
<1>2. kept \in SUBSET (1..Len(steps)) /\ IsFiniteSet(1..Len(steps))
  BY <1>1, FS_Interval DEF Kept
<1>3. IsFiniteSet(kept)
  BY <1>2, FS_Subset
<1>4. adds \in SUBSET changes /\ IsFiniteSet(adds)
  BY FS_Subset DEF Adds, LinkFits, IsDelta
<1>5. f \in Surjection(adds, added)
  BY DEF Surjection
<1>6. IsFiniteSet(added)
  BY <1>4, <1>5, FS_Surjection
<1>7. IsFiniteSet(kept \cup added)
  BY <1>3, <1>6, FS_Union
<1>8. added \subseteq Nat \ {0}
  BY <1>1, <1>4, DeltaTyped DEF LinkFits
<1>9. DOMAIN Merged(steps, changes) = kept \cup added
  BY DEF Merged
<1>10. QED
  BY <1>2, <1>7, <1>8, <1>9

\* A row of the recipe at its old place.
LEMMA KeptRow ==
  ASSUME NEW l, LinkFits(l), NEW p \in Kept(l.steps, l.delta.changes)
  PROVE  LET s == l.steps[p]
             row == Merged(l.steps, l.delta.changes)[p]
         IN /\ p \in 1..Len(l.steps) /\ p \in DOMAIN Merged(l.steps, l.delta.changes)
            /\ row \in Fields /\ row.id = s.id /\ row.added = FALSE
            /\ row.num = Wished(s, l.steps, l.delta.changes)
            /\ ~Removed(s, l.delta.changes)
<1> DEFINE steps == l.steps
           changes == l.delta.changes
           s == steps[p]
           mine == Anchored(changes, s.id)
           row == Merged(steps, changes)[p]
           wishes == {d.num : d \in {c \in changes : c.kind # "remove" /\ c.id = s.id}} \ {Nil}
<1>1. /\ p \in 1..Len(steps) /\ Len(steps) \in Nat /\ s \in Fields /\ s.added = FALSE
      /\ \A d \in mine : d.kind # "remove"
  BY RecipeTyped DEF Kept, LinkFits
<1>2. /\ p \in DOMAIN Merged(steps, changes)
      /\ row = IF mine = {} THEN s ELSE PatchRecipeStep(s, CHOOSE d \in mine : TRUE)
  BY <1>1 DEF Merged
<1>3. ~Removed(s, changes)
  BY <1>1 DEF Removed, Anchored
<1>4. {c \in changes : c.kind # "remove" /\ c.id = s.id} = mine
  <2>1. \A d \in Adds(changes) : d.id # s.id
    BY <1>1 DEF LinkFits
  <2>2. QED
    BY <1>1, <2>1 DEF Anchored, Adds
<1>5. wishes = {d.num : d \in mine} \ {Nil}
  BY <1>4
<1>6. \A b \in ToSet(steps) : b.id = s.id => b = s
  BY <1>1, RecipeTyped DEF LinkFits, ToSet
<1>7. (CHOOSE b \in ToSet(steps) : b.id = s.id) = s
  <2>1. s \in ToSet(steps)
    BY <1>1, RecipeTyped DEF LinkFits, ToSet
  <2>2. QED
    BY <1>6, <2>1
<1>8. Wished(s, steps, changes) = IF wishes = {} THEN s.num ELSE CHOOSE w \in wishes : TRUE
  <2>1. Wished(s, steps, changes) =
          IF wishes = {} THEN (CHOOSE b \in ToSet(steps) : b.id = s.id).num
          ELSE CHOOSE w \in wishes : TRUE
    BY DEF Wished
  <2> HIDE DEF wishes, s
  <2>2. QED
    BY <1>7, <2>1
<1> HIDE DEF mine, wishes, row, s
<1>9. CASE mine = {}
  <2>1. row = s /\ wishes = {}
    BY <1>2, <1>5, <1>9
  <2>2. QED
    BY <1>1, <1>2, <1>3, <1>8, <2>1 DEF row, s
<1>10. CASE mine # {}
  <2>1. PICK d \in mine : TRUE
    BY <1>10
  <2>2. d \in changes /\ d.id = s.id
    BY DEF mine, Anchored
  <2>3. \A c \in mine : c = d
    <3>1. \A c \in mine : c \in changes /\ c.id = d.id
      BY <2>2 DEF mine, Anchored
    <3>2. QED
      BY <2>2, <3>1 DEF LinkFits, IsDelta
  <2>4. mine = {d} /\ (CHOOSE c \in mine : TRUE) = d
    BY <2>3
  <2>5. d.num \in Int /\ d.dep \in Int
    BY <2>2, DeltaTyped DEF LinkFits
  <2>6. row = PatchRecipeStep(s, d)
    BY <1>2, <1>10, <2>4
  <2>7. /\ row \in Fields /\ row.id = s.id /\ row.added = FALSE
        /\ row.num = IF d.num = Nil THEN s.num ELSE d.num
    BY <1>1, <2>5, <2>6 DEF PatchRecipeStep, Fields
  <2>8. wishes = {d.num} \ {Nil}
    BY <1>5, <2>4
  <2>9. row.num = Wished(s, steps, changes)
    <3>1. CASE d.num = Nil
      BY <1>8, <2>7, <2>8, <3>1
    <3>2. CASE d.num # Nil
      <4>1. wishes = {d.num}
        BY <2>8, <3>2
      <4>2. QED
        BY <1>8, <2>7, <3>2, <4>1
    <3>3. QED
      BY <3>1, <3>2
  <2>10. QED
    BY <1>1, <1>2, <1>3, <2>7, <2>9 DEF row, s
<1>11. QED
  BY <1>9, <1>10

\* A row for an addition, behind the recipe.
LEMMA AddedRow ==
  ASSUME NEW l, LinkFits(l), NEW d \in Adds(l.delta.changes)
  PROVE  LET p == Len(l.steps) + d.id
             row == Merged(l.steps, l.delta.changes)[p]
         IN /\ p \in DOMAIN Merged(l.steps, l.delta.changes) /\ p > Len(l.steps)
            /\ row \in Fields /\ row.id = d.id /\ row.added = TRUE
            /\ row.num = Wished(d, l.steps, l.delta.changes)
<1> DEFINE steps == l.steps
           changes == l.delta.changes
           p == Len(steps) + d.id
           row == Merged(steps, changes)[p]
           wishes == {c.num : c \in {x \in changes : x.kind # "remove" /\ x.id = d.id}} \ {Nil}
<1>1. d \in changes /\ d.kind = "add" /\ Len(steps) \in Nat
  BY RecipeTyped DEF Adds, LinkFits
<1>2. d.id \in Nat \ {0} /\ d.num \in Int \ {Nil} /\ d.dep \in Int
  BY <1>1, DeltaTyped DEF LinkFits, Nil
<1>3. \A c \in changes : c.id = d.id => c = d
  BY <1>1 DEF LinkFits, IsDelta
<1>4. p > Len(steps) /\ p \in DOMAIN Merged(steps, changes)
  BY <1>1, <1>2 DEF Merged
<1>5. (CHOOSE c \in Adds(changes) : Len(steps) + c.id = p) = d
  <2>1. \A c \in Adds(changes) : c \in changes /\ c.id \in Nat
    BY DeltaTyped DEF LinkFits, Adds
  <2>2. \A c \in Adds(changes) : Len(steps) + c.id = p => c = d
    BY <1>1, <1>2, <1>3, <2>1
  <2>3. QED
    BY <2>2
<1>6. row = NewAddedStep(d)
  BY <1>4, <1>5 DEF Merged
<1>7. wishes = {d.num}
  <2>1. {x \in changes : x.kind # "remove" /\ x.id = d.id} = {d}
    BY <1>1, <1>3
  <2>2. QED
    BY <1>2, <2>1
<1>8. Wished(d, steps, changes) = d.num
  <2>1. wishes # {} /\ (CHOOSE w \in wishes : TRUE) = d.num
    BY <1>7
  <2>2. Wished(d, steps, changes) =
          IF wishes = {} THEN (CHOOSE b \in ToSet(steps) : b.id = d.id).num
          ELSE CHOOSE w \in wishes : TRUE
    BY DEF Wished
  <2> HIDE DEF wishes
  <2>3. QED
    BY <2>1, <2>2
<1> HIDE DEF p, row
<1>9. row \in Fields /\ row.id = d.id /\ row.added = TRUE /\ row.num = d.num
  BY <1>2, <1>6 DEF NewAddedStep, Fields
<1>10. QED
  BY <1>4, <1>8, <1>9 DEF p, row

LEMMA MergedCases ==
  ASSUME NEW l, LinkFits(l), NEW p \in DOMAIN Merged(l.steps, l.delta.changes)
  PROVE  \/ p \in Kept(l.steps, l.delta.changes)
         \/ \E d \in Adds(l.delta.changes) : p = Len(l.steps) + d.id
BY DEF Merged

\* What a step is wished to be numbered depends on its id only.
LEMMA WishedById ==
  ASSUME NEW s, NEW t, s.id = t.id, NEW steps, NEW changes
  PROVE  Wished(s, steps, changes) = Wished(t, steps, changes)
BY DEF Wished

\* The merged rows are those of the steps that stay and of the additions, with the
\* numbers they are wished to have.
LEMMA MergedIs ==
  ASSUME NEW l, LinkFits(l)
  PROVE  LET steps == l.steps
             changes == l.delta.changes
             rows == Merged(steps, changes)
             ids == {s.id : s \in {b \in ToSet(steps) : ~Removed(b, changes)}}
                    \cup {d.id : d \in Adds(changes)}
         IN /\ RowsTyped(rows) /\ DOMAIN rows \subseteq Nat \ {0}
            /\ \A p \in DOMAIN rows :
                 /\ rows[p] \in Fields /\ rows[p].num = Wished(rows[p], steps, changes)
                 /\ ~rows[p].added => p \in 1..Len(steps) /\ rows[p].id = steps[p].id
            /\ \A p, q \in DOMAIN rows : rows[p].id = rows[q].id => p = q
            /\ {rows[p].id : p \in DOMAIN rows} = ids
<1> DEFINE steps == l.steps
           changes == l.delta.changes
           rows == Merged(steps, changes)
           kept == Kept(steps, changes)
           adds == Adds(changes)
           OfRecipe(p) == /\ p \in kept /\ p \in 1..Len(steps) /\ rows[p].added = FALSE
                          /\ rows[p].id = steps[p].id /\ ~Removed(steps[p], changes)
           OfAdd(p, d) == /\ d \in adds /\ p = Len(steps) + d.id /\ rows[p].added = TRUE
                          /\ rows[p].id = d.id
<1>1. ASSUME NEW p \in DOMAIN rows
      PROVE  OfRecipe(p) \/ \E d \in adds : OfAdd(p, d)
  <2>1. CASE p \in kept
    BY <2>1, KeptRow
  <2>2. CASE \E d \in adds : p = Len(steps) + d.id
    <3>1. PICK d \in adds : p = Len(steps) + d.id
      BY <2>2
    <3>2. OfAdd(p, d)
      BY <3>1, AddedRow
    <3>3. QED
      BY <3>2
  <2>3. QED
    BY <2>1, <2>2, MergedCases
<1>2. \A p \in kept : p \in DOMAIN rows /\ OfRecipe(p)
  BY KeptRow
<1>3. \A d \in adds : Len(steps) + d.id \in DOMAIN rows /\ OfAdd(Len(steps) + d.id, d)
  BY AddedRow
<1>4. ASSUME NEW p \in DOMAIN rows
      PROVE  rows[p] \in Fields /\ rows[p].num = Wished(rows[p], steps, changes)
  <2>1. CASE p \in kept
    <3>1. /\ rows[p] \in Fields /\ rows[p].id = steps[p].id
          /\ rows[p].num = Wished(steps[p], steps, changes)
      BY <2>1, KeptRow
    <3>2. QED
      BY <3>1, WishedById
  <2>2. CASE \E d \in adds : p = Len(steps) + d.id
    <3>1. PICK d \in adds : p = Len(steps) + d.id
      BY <2>2
    <3>2. rows[p] \in Fields /\ rows[p].id = d.id /\ rows[p].num = Wished(d, steps, changes)
      BY <3>1, AddedRow
    <3>3. QED
      BY <3>2, WishedById
  <2>3. QED
    BY <2>1, <2>2, MergedCases
<1> HIDE DEF rows, kept
<1>5. RowsTyped(rows) /\ DOMAIN rows \subseteq Nat \ {0}
  BY <1>4, MergedPlaces DEF RowsTyped, Fields, rows
<1>6. ASSUME NEW p \in DOMAIN rows, ~rows[p].added
      PROVE  p \in 1..Len(steps) /\ rows[p].id = steps[p].id
  BY <1>1, <1>6
<1>7. ASSUME NEW p \in DOMAIN rows, NEW q \in DOMAIN rows, rows[p].id = rows[q].id
      PROVE  p = q
  <2>1. \A i, j \in 1..Len(steps) : steps[i].id = steps[j].id => i = j
    BY RecipeTyped DEF LinkFits
  <2>2. \A i \in 1..Len(steps) : \A d \in adds : steps[i].id # d.id
    BY DEF LinkFits
  <2>3. CASE OfRecipe(p) /\ OfRecipe(q)
    BY <1>7, <2>1, <2>3
  <2>4. CASE \E c, d \in adds : OfAdd(p, c) /\ OfAdd(q, d)
    BY <1>7, <2>4
  <2>5. QED
    BY <1>1, <1>7, <2>2, <2>3, <2>4
<1>8. {rows[p].id : p \in DOMAIN rows}
      = {s.id : s \in {b \in ToSet(steps) : ~Removed(b, changes)}} \cup {d.id : d \in adds}
  <2>1. ASSUME NEW p \in DOMAIN rows
        PROVE  \/ \E s \in ToSet(steps) : ~Removed(s, changes) /\ rows[p].id = s.id
               \/ \E d \in adds : rows[p].id = d.id
    <3>1. CASE OfRecipe(p)
      <4>1. steps[p] \in ToSet(steps)
        BY <3>1, RecipeTyped DEF LinkFits, ToSet
      <4>2. QED
        BY <3>1, <4>1
    <3>2. QED
      BY <1>1, <3>1
  <2>2. ASSUME NEW s \in ToSet(steps), ~Removed(s, changes)
        PROVE  \E p \in DOMAIN rows : rows[p].id = s.id
    <3>1. PICK p \in 1..Len(steps) : s = steps[p]
      BY RecipeTyped DEF LinkFits, ToSet
    <3>2. p \in kept
      BY <2>2, <3>1 DEF kept, Kept, Removed, Anchored
    <3>3. QED
      BY <1>2, <3>1, <3>2
  <2>3. \A d \in adds : \E p \in DOMAIN rows : rows[p].id = d.id
    BY <1>3
  <2>4. QED
    BY <2>1, <2>2, <2>3
<1>9. QED
  BY <1>4, <1>5, <1>6, <1>7, <1>8 DEF rows

\* A household without a delta sees the recipe, which is its own overlay.
LEMMA PlainIsOverlaid ==
  ASSUME NEW l, LinkFits(l), ~l.delta.exists
  PROVE  Overlaid(l.steps, l.steps, l.delta)
<1> DEFINE steps == l.steps
           changes == l.delta.changes
           bound == Len(steps)
           ids == {s.id : s \in {b \in ToSet(steps) : ~Removed(b, changes)}}
                  \cup {d.id : d \in Adds(changes)}
           wished(i) == Wished(steps[i], steps, changes)
           first(id) == CHOOSE n \in 1..bound : steps[n].id = id
           f == [i \in 1..bound |-> steps[i].id]
<1>1. changes = {}
  BY DEF LinkFits, IsDelta
<1>2. /\ bound \in Nat /\ DOMAIN steps = 1..bound
      /\ \A i \in 1..bound : steps[i] \in Fields /\ steps[i].added = FALSE
      /\ \A i, j \in 1..bound : steps[i].id = steps[j].id => i = j
  BY RecipeTyped DEF LinkFits
<1>3. {steps[i].id : i \in 1..bound} = ids
  BY <1>1, <1>2 DEF ToSet, Removed, Adds
<1>4. bound = Cardinality(ids)
  <2>1. f \in Bijection(1..bound, ids)
    BY <1>2, <1>3 DEF Bijection, Injection, Surjection, IsInjective
  <2>2. ExistsBijection(1..bound, ids)
    BY <2>1 DEF ExistsBijection
  <2> HIDE DEF bound, ids
  <2>3. QED
    BY <1>2, <2>2, FS_CountingElements
<1>5. ASSUME NEW i \in 1..bound PROVE wished(i) = steps[i].num
  <2> DEFINE wishes == {d.num : d \in {c \in changes : c.kind # "remove" /\ c.id = steps[i].id}} \ {Nil}
  <2>1. wishes = {}
    BY <1>1
  <2>2. (CHOOSE b \in ToSet(steps) : b.id = steps[i].id) = steps[i]
    <3>1. steps[i] \in ToSet(steps)
      BY <1>2 DEF ToSet
    <3>2. \A b \in ToSet(steps) : b.id = steps[i].id => b = steps[i]
      BY <1>2 DEF ToSet
    <3>3. QED
      BY <3>1, <3>2
  <2>3. wished(i) = IF wishes = {} THEN (CHOOSE b \in ToSet(steps) : b.id = steps[i].id).num
                    ELSE CHOOSE w \in wishes : TRUE
    BY DEF Wished
  <2> HIDE DEF wishes, wished
  <2>4. QED
    BY <2>1, <2>2, <2>3
<1>6. ASSUME NEW i \in 1..bound, NEW j \in 1..bound, i < j
      PROVE  wished(i) < wished(j)
  <2>1. steps[i].num < steps[j].num
    BY <1>2, <1>6 DEF LinkFits, IsRecipe
  <2> HIDE DEF wished
  <2>2. QED
    BY <1>5, <2>1
<1> HIDE DEF wished, ids, first
<1>7. QED
  BY <1>3, <1>4, <1>6, Zenon DEF Overlaid, wished, ids, first

\* The rows in the order of their ranks, renumbered.
LEMMA AppliedIs ==
  ASSUME NEW l, LinkFits(l), l.delta.exists
  PROVE  LET rows == Merged(l.steps, l.delta.changes)
         IN ApplyStepDelta(l.steps, l.delta) =
              [i \in 1..Cardinality(DOMAIN rows) |-> [rows[PlaceOf(rows, i)] EXCEPT !.num = i]]
<1> DEFINE rows == Merged(l.steps, l.delta.changes)
           bound == Cardinality(DOMAIN rows)
           sorted == StableSorted(rows)
           result == ApplyStepDelta(l.steps, l.delta)
<1>1. bound \in Nat
  BY MergedIs, Ranks
<1>2. sorted = [i \in 1..bound |-> rows[PlaceOf(rows, i)]]
  BY DEF StableSorted, PlaceOf
<1>3. result = [i \in 1..Len(sorted) |-> [sorted[i] EXCEPT !.num = i]]
  BY DEF ApplyStepDelta, Renumbered
<1> HIDE DEF rows, bound, result, sorted
<1>4. Len(sorted) = bound /\ \A i \in 1..bound : sorted[i] = rows[PlaceOf(rows, i)]
  BY <1>1, <1>2
<1>5. result = [i \in 1..bound |-> [rows[PlaceOf(rows, i)] EXCEPT !.num = i]]
  BY <1>3, <1>4
<1>6. QED
  BY <1>5 DEF result, bound, rows

\* Whatever a household's changes are, the overlay of a recipe holds each step
\* that is not removed and each addition once, in the order of the wished
\* numbers, and numbers them 1..N (applyStepDelta).
THEOREM OverlayIsOverlaid ==
  ASSUME NEW l, LinkFits(l), l.delta.exists
  PROVE  Overlaid(ApplyStepDelta(l.steps, l.delta), l.steps, l.delta)
<1> DEFINE steps == l.steps
           changes == l.delta.changes
           rows == Merged(steps, changes)
           places == DOMAIN rows
           bound == Cardinality(places)
           pl(i) == PlaceOf(rows, i)
           result == ApplyStepDelta(steps, l.delta)
           ids == {s.id : s \in {b \in ToSet(steps) : ~Removed(b, changes)}}
                  \cup {d.id : d \in Adds(changes)}
           wished(i) == Wished(result[i], steps, changes)
           first(id) == CHOOSE n \in 1..Len(steps) : steps[n].id = id
<1>1. /\ RowsTyped(rows) /\ places \subseteq Nat \ {0}
      /\ \A p \in places :
           /\ rows[p] \in Fields /\ rows[p].num = Wished(rows[p], steps, changes)
           /\ ~rows[p].added => p \in 1..Len(steps) /\ rows[p].id = steps[p].id
      /\ \A p, q \in places : rows[p].id = rows[q].id => p = q
      /\ {rows[p].id : p \in places} = ids
  BY MergedIs
<1>2. /\ bound \in Nat
      /\ \A p \in places : Rank(rows, p) \in 1..bound /\ pl(Rank(rows, p)) = p
      /\ \A i \in 1..bound : pl(i) \in places /\ Rank(rows, pl(i)) = i
      /\ \A i, j \in 1..bound : i < j => Before(rows, pl(i), pl(j))
  BY <1>1, Ranks
<1>5. result = [i \in 1..bound |-> [rows[pl(i)] EXCEPT !.num = i]]
  BY AppliedIs
<1> HIDE DEF rows, bound, pl, result, ids
<1>6. /\ Len(result) = bound
      /\ \A i \in 1..bound : /\ result[i].id = rows[pl(i)].id /\ result[i].num = i
                             /\ result[i].added = rows[pl(i)].added
  BY <1>1, <1>2, <1>5 DEF Fields
<1>7. {result[i].id : i \in 1..bound} = ids
  <2>1. \A p \in places : \E i \in 1..bound : pl(i) = p
    BY <1>2
  <2>2. {result[i].id : i \in 1..bound} = {rows[p].id : p \in places}
    BY <1>2, <1>6, <2>1
  <2>3. QED
    BY <1>1, <2>2
<1>8. bound = Cardinality(ids)
  <2>1. \A i, j \in 1..bound : result[i].id = result[j].id => i = j
    BY <1>1, <1>2, <1>6
  <2> DEFINE g == [i \in 1..bound |-> result[i].id]
  <2>2. g \in Bijection(1..bound, ids)
    BY <1>7, <2>1 DEF Bijection, Injection, Surjection, IsInjective
  <2>3. ExistsBijection(1..bound, ids)
    BY <2>2 DEF ExistsBijection
  <2>4. QED
    BY <1>2, <2>3, FS_CountingElements
<1>9. ASSUME NEW i \in 1..bound PROVE wished(i) = rows[pl(i)].num
  <2>1. wished(i) = Wished(rows[pl(i)], steps, changes)
    BY <1>6, WishedById
  <2>2. QED
    BY <1>1, <1>2, <2>1
<1>10. ASSUME NEW i \in 1..bound, ~result[i].added PROVE first(result[i].id) = pl(i)
  <2>1. pl(i) \in 1..Len(steps) /\ result[i].id = steps[pl(i)].id
    BY <1>1, <1>2, <1>6, <1>10
  <2>2. \A n, m \in 1..Len(steps) : steps[n].id = steps[m].id => n = m
    BY RecipeTyped DEF LinkFits
  <2>3. QED
    BY <2>1, <2>2
<1> HIDE DEF wished, first
<1>11. ASSUME NEW i \in 1..bound, NEW j \in 1..bound, i < j
       PROVE  \/ wished(i) < wished(j)
              \/ /\ wished(i) = wished(j) /\ ~(result[j].added /\ ~result[i].added)
                 /\ ~result[i].added /\ ~result[j].added =>
                      first(result[i].id) < first(result[j].id)
  <2> DEFINE p == pl(i)
             q == pl(j)
  <2>1. p \in places /\ q \in places /\ Before(rows, p, q)
    BY <1>2, <1>11
  <2>2. /\ rows[p].num \in Int /\ rows[q].num \in Int /\ p \in Int /\ q \in Int
        /\ rows[p].added \in BOOLEAN /\ rows[q].added \in BOOLEAN
    BY <1>1, <2>1 DEF RowsTyped
  <2>3. /\ wished(i) = rows[p].num /\ wished(j) = rows[q].num
        /\ result[i].added = rows[p].added /\ result[j].added = rows[q].added
        /\ ~result[i].added => first(result[i].id) = p
        /\ ~result[j].added => first(result[j].id) = q
    BY <1>6, <1>9, <1>10
  <2> HIDE DEF p, q
  <2>4. \/ rows[p].num < rows[q].num
        \/ /\ rows[p].num = rows[q].num /\ ~(rows[q].added /\ ~rows[p].added)
           /\ ~rows[p].added /\ ~rows[q].added => p < q
    BY <2>1, <2>2 DEF Before, SortsBefore
  <2>5. QED
    BY <2>2, <2>3, <2>4
<1>12. QED
  <2>1. {result[i].id : i \in 1..Len(result)} = ids /\ Len(result) = Cardinality(ids)
    BY <1>6, <1>7, <1>8
  <2>2. \A i \in 1..Len(result) : result[i].num = i
    BY <1>6
  <2>3. \A i, j \in 1..Len(result) : i < j =>
          \/ wished(i) < wished(j)
          \/ /\ wished(i) = wished(j) /\ ~(result[j].added /\ ~result[i].added)
             /\ ~result[i].added /\ ~result[j].added =>
                  first(result[i].id) < first(result[j].id)
    BY <1>6, <1>11
  <2>4. Overlaid(result, steps, l.delta)
    BY <2>1, <2>2, <2>3, Zenon DEF Overlaid, ids, wished, first
  <2>5. QED
    BY <2>4 DEF result

-----------------------------------------------------------------------------
(* Slots                                                                    *)

\* The rows of a slot: finitely many, with unique numbers.
SlotFits(rows) ==
  /\ IsFiniteSet(rows)
  /\ \A s \in rows : s \in [num : Int, dep : Int, dur : Nat \cup {Nil}]
  /\ \A s, t \in rows : s.num = t.num => s = t

LEMMA EffectiveFits ==
  ASSUME NEW l, LinkFits(l)
  PROVE  /\ Effective(l) \in Seq(Fields)
         /\ \A i, j \in 1..Len(Effective(l)) :
              Effective(l)[i].num = Effective(l)[j].num => i = j
<1>1. CASE ~l.delta.exists
  <2>1. Effective(l) = l.steps
    BY <1>1 DEF Effective, ApplyStepDelta
  <2>2. l.steps \in Seq(Fields) /\ Len(l.steps) \in Nat
    BY RecipeTyped DEF LinkFits
  <2>3. \A i, j \in 1..Len(l.steps) : i < j => l.steps[i].num < l.steps[j].num
    BY DEF LinkFits, IsRecipe
  <2>4. \A i \in 1..Len(l.steps) : l.steps[i].num \in Int
    BY RecipeTyped DEF LinkFits, Fields
  <2>5. ASSUME NEW i \in 1..Len(l.steps), NEW j \in 1..Len(l.steps),
               l.steps[i].num = l.steps[j].num
        PROVE  i = j
    <3>1. ~(i < j) /\ ~(j < i)
      BY <2>3, <2>4, <2>5
    <3>2. QED
      BY <2>2, <3>1
  <2>6. QED
    BY <2>1, <2>2, <2>5
<1>2. CASE l.delta.exists
  <2> DEFINE rows == Merged(l.steps, l.delta.changes)
             bound == Cardinality(DOMAIN rows)
             result == Effective(l)
  <2>1. result = [i \in 1..bound |-> [rows[PlaceOf(rows, i)] EXCEPT !.num = i]]
    BY <1>2, AppliedIs DEF Effective
  <2>2. /\ bound \in Nat
        /\ \A i \in 1..bound : rows[PlaceOf(rows, i)] \in Fields
    BY MergedIs, Ranks
  <2> HIDE DEF rows, bound, result
  <2>3. ASSUME NEW i \in 1..bound PROVE result[i] \in Fields /\ result[i].num = i
    <3> DEFINE row == rows[PlaceOf(rows, i)]
    <3>1. row \in Fields /\ result[i] = [row EXCEPT !.num = i] /\ i \in Int
      BY <2>1, <2>2
    <3> HIDE DEF row
    <3>2. QED
      BY <3>1 DEF Fields
  <2>4. result \in Seq(Fields) /\ Len(result) = bound
    BY <2>1, <2>2, <2>3
  <2>5. \A i, j \in 1..Len(result) : result[i].num = result[j].num => i = j
    BY <2>3, <2>4
  <2>6. QED
    BY <2>4, <2>5 DEF result
<1>3. QED
  BY <1>1, <1>2

LEMMA CopyFits ==
  ASSUME NEW l, LinkFits(l)
  PROVE  SlotFits({Row(s) : s \in ToSet(Effective(l))})
<1> DEFINE e == Effective(l)
           rows == {Row(s) : s \in ToSet(e)}
           f == [i \in 1..Len(e) |-> Row(e[i])]
<1>1. /\ Len(e) \in Nat /\ DOMAIN e = 1..Len(e) /\ \A i \in 1..Len(e) : e[i] \in Fields
      /\ \A i, j \in 1..Len(e) : e[i].num = e[j].num => i = j
  BY EffectiveFits
<1> HIDE DEF e
<1>2. rows = {Row(e[i]) : i \in 1..Len(e)}
  BY <1>1 DEF ToSet
<1>3. f \in Surjection(1..Len(e), rows)
  BY <1>2 DEF Surjection
<1>4. IsFiniteSet(rows)
  BY <1>1, <1>3, FS_Interval, FS_Surjection
<1>5. \A s \in rows : s \in [num : Int, dep : Int, dur : Nat \cup {Nil}]
  BY <1>1, <1>2 DEF Row, Fields
<1>6. \A s, t \in rows : s.num = t.num => s = t
  BY <1>1, <1>2 DEF Row
<1>7. QED
  BY <1>4, <1>5, <1>6 DEF SlotFits, e

\* A finite set of integers has a greatest member.
LEMMA Greatest ==
  ASSUME NEW ints \in SUBSET Int, IsFiniteSet(ints), ints # {}
  PROVE  Max(ints) \in ints /\ \A y \in ints : y <= Max(ints)
<1> DEFINE negated == {-x : x \in ints}
           f == [x \in ints |-> -x]
<1>1. f \in Surjection(ints, negated)
  BY DEF Surjection
<1>2. negated \in SUBSET Int /\ IsFiniteSet(negated) /\ negated # {}
  <2>1. IsFiniteSet(negated)
    BY <1>1, FS_Surjection
  <2>2. negated \in SUBSET Int
    OBVIOUS
  <2>3. negated # {}
    OBVIOUS
  <2> HIDE DEF negated
  <2>4. QED
    BY <2>1, <2>2, <2>3
<1>3. PICK x \in negated : \A y \in negated : x <= y
  BY <1>2, LeastExists
<1>4. PICK z \in ints : x = -z
  OBVIOUS
<1>5. \A y \in ints : z >= y
  BY <1>3, <1>4
<1>6. QED
  BY <1>5 DEF Max

\* The slot's link fits the schema, and so do its rows.
PlansInv == LinkFits(link) /\ SlotFits(slot) /\ OverlayFaithful

LEMMA LinksFit ==
  /\ LinkFits(NoLink)
  /\ \A l \in Links \cup PlainLinks : LinkFits(l)
<1>1. IsRecipe(<<>>) /\ IsDelta([exists |-> FALSE, changes |-> {}])
  BY FS_EmptySet DEF IsRecipe, IsDelta
<1>2. LinkFits(NoLink)
  BY <1>1 DEF LinkFits, NoLink, Adds
<1>3. ASSUME NEW l \in Links PROVE LinkFits(l)
  <2>1. l.steps \in Linkable /\ l.delta \in Changes
    BY DEF Links
  <2>2. QED
    BY <2>1, EventPlansAssumption DEF LinkFits
<1>4. ASSUME NEW l \in PlainLinks PROVE LinkFits(l)
  <2>1. l.steps \in Linkable /\ l.delta = [exists |-> FALSE, changes |-> {}]
    BY DEF PlainLinks, NoLink
  <2>2. IsRecipe(l.steps)
    BY <2>1, EventPlansAssumption
  <2>3. Adds(l.delta.changes) = {}
    BY <2>1 DEF Adds
  <2>4. QED
    BY <1>1, <2>1, <2>2, <2>3 DEF LinkFits
<1>5. QED
  BY <1>2, <1>3, <1>4

LEMMA PlansInit == EventsInit => PlansInv
BY LinksFit, FS_EmptySet DEF EventsInit, PlansInv, SlotFits, OverlayFaithful

LEMMA MaterialiseKeeps ==
  ASSUME NEW l, LinkFits(l), Materialise(l)
  PROVE  PlansInv'
<1>1. LinkFits(link)' /\ SlotFits(slot)'
  BY CopyFits DEF Materialise
<1>2. Overlaid(Effective(l), l.steps, l.delta)
  <2>1. CASE l.delta.exists
    BY <2>1, OverlayIsOverlaid DEF Effective
  <2>2. CASE ~l.delta.exists
    BY <2>2, PlainIsOverlaid DEF Effective, ApplyStepDelta
  <2>3. QED
    BY <2>1, <2>2
<1>3. OverlayFaithful'
  BY <1>2 DEF Materialise, OverlayFaithful
<1>4. QED
  BY <1>1, <1>3 DEF PlansInv

LEMMA EditsKeep ==
  ASSUME PlansInv, Edited, SlotFits(slot)'
  PROVE  PlansInv'
<1>1. LinkFits(link)'
  BY DEF PlansInv, Edited
<1>2. OverlayFaithful'
  BY DEF Edited, OverlayFaithful
<1>3. QED
  BY <1>1, <1>2 DEF PlansInv

LEMMA AppendKeeps ==
  ASSUME PlansInv, NEW dep \in {Nil} \cup (1..MaxSteps), NEW dur \in Durations,
         AppendStep(dep, dur)
  PROVE  PlansInv'
<1> DEFINE nums == Numbers(slot) \cup {0}
           num == 1 + Max(nums)
           row == [num |-> num, dep |-> dep, dur |-> dur]
           f == [s \in slot |-> s.num]
<1>1. SlotFits(slot)
  BY DEF PlansInv
<1>2. f \in Surjection(slot, Numbers(slot))
  BY DEF Surjection, Numbers
<1>3. IsFiniteSet(Numbers(slot)) /\ Numbers(slot) \subseteq Int
  BY <1>1, <1>2, FS_Surjection DEF SlotFits, Numbers
<1>4. IsFiniteSet(nums) /\ nums \in SUBSET Int /\ nums # {}
  BY <1>3, FS_AddElement
<1>5. Max(nums) \in Int /\ \A n \in nums : n <= Max(nums)
  BY <1>4, Greatest
<1> HIDE DEF num
<1>6. num \in Int /\ \A s \in slot : s.num # num
  <2>1. \A s \in slot : s.num \in nums /\ s.num \in Int
    BY <1>3 DEF Numbers
  <2> HIDE DEF nums
  <2>2. QED
    BY <1>5, <2>1 DEF num
<1>7. slot' = slot \cup {row} /\ Edited
  BY DEF AppendStep, num
<1>8. row \in [num : Int, dep : Int, dur : Nat \cup {Nil}]
  BY <1>6, EventPlansAssumption DEF Nil
<1>9. IsFiniteSet(slot \cup {row})
  BY <1>1, FS_AddElement DEF SlotFits
<1>10. SlotFits(slot \cup {row})
  BY <1>1, <1>6, <1>8, <1>9 DEF SlotFits
<1>11. QED
  BY <1>7, <1>10, EditsKeep

LEMMA UpdateKeeps ==
  ASSUME PlansInv, NEW dep \in {Nil} \cup (1..MaxSteps), NEW dur \in Durations,
         NEW s \in slot, UpdateStep(s, dep, dur)
  PROVE  PlansInv'
<1> DEFINE row == [s EXCEPT !.dep = dep, !.dur = dur]
           rest == slot \ {s}
<1>1. SlotFits(slot)
  BY DEF PlansInv
<1>2. slot' = rest \cup {row} /\ Edited
  BY DEF UpdateStep
<1>3. row \in [num : Int, dep : Int, dur : Nat \cup {Nil}] /\ row.num = s.num
  <2>1. s \in [num : Int, dep : Int, dur : Nat \cup {Nil}]
    BY <1>1 DEF SlotFits
  <2>2. dep \in Int /\ dur \in Nat \cup {Nil}
    BY EventPlansAssumption DEF Nil
  <2>3. QED
    BY <2>1, <2>2
<1>4. IsFiniteSet(rest)
  BY <1>1, FS_RemoveElement DEF SlotFits
<1>5. IsFiniteSet(rest \cup {row})
  BY <1>4, FS_AddElement
<1>6. \A t \in rest : t.num # s.num
  BY <1>1 DEF SlotFits
<1> HIDE DEF row
<1>7. SlotFits(rest \cup {row})
  BY <1>1, <1>3, <1>5, <1>6 DEF SlotFits
<1>8. QED
  BY <1>2, <1>7, EditsKeep

LEMMA DeleteKeeps ==
  ASSUME PlansInv, NEW s \in slot, DeleteStep(s)
  PROVE  PlansInv'
<1>1. SlotFits(slot)
  BY DEF PlansInv
<1>2. SlotFits(slot \ {s})
  BY <1>1, FS_RemoveElement DEF SlotFits
<1>3. QED
  BY <1>2, EditsKeep DEF DeleteStep

LEMMA PlansNext ==
  ASSUME PlansInv, [EventsNext]_eventVars
  PROVE  PlansInv'
<1>1. CASE AddEventRecipe
  BY <1>1, LinksFit, MaterialiseKeeps DEF AddEventRecipe
<1>2. ASSUME NEW l \in PlainLinks, UpdateEventRecipe(l) PROVE PlansInv'
  BY <1>2, LinksFit, MaterialiseKeeps DEF UpdateEventRecipe
<1>3. CASE SyncEventRecipe
  BY <1>3, MaterialiseKeeps DEF SyncEventRecipe, PlansInv
<1>4. ASSUME NEW dep \in {Nil} \cup (1..MaxSteps), NEW dur \in Durations, AppendStep(dep, dur)
      PROVE  PlansInv'
  BY <1>4, AppendKeeps
<1>5. ASSUME NEW dep \in {Nil} \cup (1..MaxSteps), NEW dur \in Durations,
             NEW s \in slot, UpdateStep(s, dep, dur)
      PROVE  PlansInv'
  BY <1>5, UpdateKeeps
<1>6. ASSUME NEW s \in slot, DeleteStep(s) PROVE PlansInv'
  BY <1>6, DeleteKeeps
<1>7. CASE UNCHANGED eventVars
  BY <1>7 DEF eventVars, PlansInv, OverlayFaithful
<1>8. QED
  BY <1>1, <1>2, <1>3, <1>4, <1>5, <1>6, <1>7 DEF EventsNext

-----------------------------------------------------------------------------

LEMMA PlansAlways == EventsSpec => []PlansInv
BY PlansInit, PlansNext, PTL DEF EventsSpec

\* A slot's copy holds the steps that the household saw when it was taken, in its
\* order and once each, however often it was taken (snapshotRecipeContents,
\* SyncEventRecipe, UpdateEventRecipe).
THEOREM OverlaysAreFaithful == EventsSpec => []OverlayFaithful
<1>1. PlansInv => OverlayFaithful
  BY DEF PlansInv
<1>2. QED
  BY <1>1, PlansAlways, PTL

\* Whatever copies and hand edits leave of a slot whose numbers are positive, its
\* timeline is right (BuildTimeline over AddEventRecipeStep,
\* UpdateEventRecipeStep, DeleteEventRecipeStep).
THEOREM TimelinesAreCorrect == EventsSpec => []TimelineCorrect
<1>1. ASSUME PlansInv PROVE TimelineCorrect
  <2> SUFFICES ASSUME Positive
               PROVE  Schedules(ScheduleRecipe(slot, Target, Granularity), slot, Target, Granularity)
    BY DEF TimelineCorrect
  <2>1. WellNumbered(slot)
    BY <1>1 DEF PlansInv, SlotFits, WellNumbered, Positive, Numbers, Nil
  <2>2. QED
    BY <2>1, EventPlansAssumption, ScheduleIsRight
<1>2. QED
  BY <1>1, PlansAlways, PTL
================================================================================
