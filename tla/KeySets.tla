------------------------------ MODULE KeySets ---------------------------------
(***************************************************************************)
(* The signing keys of one identity provider as the server knows them: the *)
(* JWKS cache of internal/bff/auth.go (keySetForIssuer,                    *)
(* parseVerifiedToken) with its single fetch in flight, the stale set      *)
(* served while a fetch runs, and the rate limit on forced refreshes.      *)
(*                                                                         *)
(* A rotation replaces the provider's one key n by key n + 1, so a key set *)
(* is the number of the key it holds.  The age of the cached set is in     *)
(* steps: "young" within jwksMinRefreshInterval, "old" past jwksCacheTTL.  *)
(***************************************************************************)
EXTENDS Naturals

CONSTANTS
  Background,   \* leads a fetch nobody has to wait for
  NoFetch,
  Fetches,      \* ids of fetches, used again once nobody refers to them
  Verifiers,    \* requests verifying a token
  MaxRotations, \* bound on the provider's keys
  MaxFaults     \* bound on failed fetches and cancelled requests

None == 0       \* no set: nothing cached, or a fetch that failed
Ages == {"young", "usable", "old"}

ASSUME KeySetsAssumption ==
  /\ NoFetch \notin Fetches /\ Background \notin Verifiers
  /\ MaxRotations \in Nat \ {0} /\ MaxFaults \in Nat

VARIABLES
  key,      \* the provider's current key
  set, age, \* a.jwks[issuer]
  inflight, \* a.inflight[issuer]
  fetch,    \* id -> where it is, the set it has read, the request running it
  at,       \* where each verifier is
  token,    \* the key its token is signed with
  entry,    \* the cached set it has read under the read lock, or None
  forced,   \* whether this is its forced refresh
  joined,   \* the fetch it leads or waits for
  missed    \* faults so far

provider == <<key, missed>>
cache == <<set, age>>
fetches == <<inflight, fetch>>
verifier == <<at, token, entry, forced, joined>>
vars == <<provider, cache, fetches, verifier>>

NotStarted == [state |-> "done", set |-> None, leader |-> Background]

Init ==
  /\ key = 1 /\ missed = 0
  /\ set = None /\ age = "old"
  /\ inflight = NoFetch
  /\ fetch = [f \in Fetches |-> NotStarted]
  /\ at = [v \in Verifiers |-> "idle"]
  /\ token = [v \in Verifiers |-> None]
  /\ entry = [v \in Verifiers |-> None]
  /\ forced = [v \in Verifiers |-> FALSE]
  /\ joined = [v \in Verifiers |-> NoFetch]

Goto(v, to) == at' = [at EXCEPT ![v] = to]
Fault == missed < MaxFaults /\ missed' = missed + 1 /\ UNCHANGED key
Fine == UNCHANGED provider

-----------------------------------------------------------------------------
(* keySetForIssuer                                                         *)

\* A token arrives, signed with a key the provider has, or has had.
Begin(v, k) ==
  /\ at[v] = "idle" /\ Goto(v, "look")
  /\ k <= key /\ token' = [token EXCEPT ![v] = k]
  /\ UNCHANGED <<provider, cache, fetches, entry, forced, joined>>

\* Under the read lock: a fresh set serves as it is, and so does a young one to
\* a forced refresh.
Serves(force) == IF force THEN age = "young" ELSE age # "old"
Look(v) ==
  /\ at[v] = "look"
  /\ entry' = [entry EXCEPT ![v] = set]
  /\ Goto(v, IF set # None /\ Serves(forced[v]) THEN "parse" ELSE "join")
  /\ UNCHANGED <<provider, cache, fetches, token, forced, joined>>

\* Under the lock, which the read lock was given up for.  (Mutant: every caller
\* fetches for itself.)
MutantRunning == FALSE
Running == inflight # NoFetch

\* Stale while revalidate: any cached set serves a caller that is not forced.
HasStale(v) == entry[v] # None /\ ~forced[v]
JoinFetch(v) ==
  /\ at[v] = "join" /\ Running
  /\ IF HasStale(v) THEN Goto(v, "parse") /\ UNCHANGED joined
                    ELSE Goto(v, "wait") /\ joined' = [joined EXCEPT ![v] = inflight]
  /\ UNCHANGED <<provider, cache, fetches, token, entry, forced>>
Forgotten(f) == fetch[f].state = "done" /\ \A v \in Verifiers : joined[v] # f
StartFetch(v) ==
  /\ at[v] = "join" /\ ~Running
  /\ \E f \in Fetches :
       /\ Forgotten(f) /\ inflight' = f
       /\ fetch' = [fetch EXCEPT ![f] = [state |-> "reading", set |-> None,
                       leader |-> IF HasStale(v) THEN Background ELSE v]]
       /\ IF HasStale(v) THEN Goto(v, "parse") /\ UNCHANGED joined
                         ELSE Goto(v, "wait") /\ joined' = [joined EXCEPT ![v] = f]
  /\ UNCHANGED <<provider, cache, token, entry, forced>>

\* fetchKeySet, on a context no request can cancel: what the provider holds as
\* it answers, or nothing in jwksFetchTimeout.
FetchKeySet(f) ==
  /\ fetch[f].state = "reading"
  /\ \/ Fine /\ fetch' = [fetch EXCEPT ![f].state = "read", ![f].set = key]
     \/ Fault /\ fetch' = [fetch EXCEPT ![f].state = "read"]
  /\ UNCHANGED <<cache, inflight, verifier>>

\* complete: the set is installed, the waiters may go on, and the next caller
\* may fetch.  (Mutant: a failed fetch stays in the map.)
MutantCleared(f) == IF fetch[f].set = None THEN inflight ELSE NoFetch
Cleared(f) == NoFetch
Complete(f) ==
  /\ fetch[f].state = "read"
  /\ IF fetch[f].set # None THEN set' = fetch[f].set /\ age' = "young" ELSE UNCHANGED cache
  /\ inflight' = Cleared(f)
  /\ fetch' = [fetch EXCEPT ![f] =
       IF \E v \in Verifiers : joined[v] = f THEN [@ EXCEPT !.state = "done"] ELSE NotStarted]
  /\ UNCHANGED <<provider, verifier>>

\* A waiter has the fetch's own result; its leader, if it failed, the set it
\* had read before.
Result(v) ==
  LET f == fetch[joined[v]]
  IN  IF f.set = None /\ f.leader = v THEN entry[v] ELSE f.set
\* Without a set, a forced refresh leaves the first verdict.
Verdict(v) == IF forced[v] THEN "rejected" ELSE "unavailable"
Wake(v) ==
  /\ at[v] = "wait" /\ fetch[joined[v]].state = "done"
  /\ entry' = [entry EXCEPT ![v] = Result(v)]
  /\ Goto(v, IF Result(v) = None THEN Verdict(v) ELSE "parse")
  /\ joined' = [joined EXCEPT ![v] = NoFetch]
  /\ fetch' = [fetch EXCEPT ![joined[v]] =
       IF \E w \in Verifiers \ {v} : joined[w] = joined[v] THEN @ ELSE NotStarted]
  /\ UNCHANGED <<provider, cache, inflight, token, forced>>

\* A request is cancelled while it waits for another's fetch, which goes on.
Cancel(v) ==
  /\ at[v] = "wait" /\ fetch[joined[v]].leader # v
  /\ Fault /\ Goto(v, Verdict(v))
  /\ joined' = [joined EXCEPT ![v] = NoFetch]
  /\ entry' = [entry EXCEPT ![v] = None]
  /\ UNCHANGED <<cache, fetches, token, forced>>

-----------------------------------------------------------------------------
(* parseVerifiedToken                                                      *)

Parse(v) ==
  /\ at[v] = "parse"
  /\ Goto(v, CASE entry[v] = token[v] -> "accepted"
               [] entry[v] # token[v] /\ forced[v] -> "rejected"
               [] OTHER -> "retry")
  /\ UNCHANGED <<provider, cache, fetches, token, entry, forced, joined>>

\* cachedSetHasKey: only a key the cache does not hold is worth a refresh.
WorthRefresh(v) == set # token[v]
Retry(v) ==
  /\ at[v] = "retry"
  /\ IF WorthRefresh(v) THEN Goto(v, "look") /\ forced' = [forced EXCEPT ![v] = TRUE]
                        ELSE Goto(v, "rejected") /\ UNCHANGED forced
  /\ UNCHANGED <<provider, cache, fetches, token, entry, joined>>

Answers == {"accepted", "rejected", "unavailable"}
Answer(v) ==
  /\ at[v] \in Answers /\ Goto(v, "idle")
  /\ token' = [token EXCEPT ![v] = None] /\ entry' = [entry EXCEPT ![v] = None]
  /\ forced' = [forced EXCEPT ![v] = FALSE]
  /\ UNCHANGED <<provider, cache, fetches, joined>>

-----------------------------------------------------------------------------
(* The provider and the clock                                              *)

Rotate ==
  /\ key < MaxRotations /\ key' = key + 1
  /\ UNCHANGED <<missed, cache, fetches, verifier>>

Tick ==
  /\ age # "old" /\ age' = IF age = "young" THEN "usable" ELSE "old"
  /\ UNCHANGED <<provider, set, fetches, verifier>>

VerifierStep(v) ==
  \/ Look(v) \/ JoinFetch(v) \/ StartFetch(v) \/ Wake(v)
  \/ Parse(v) \/ Retry(v) \/ Answer(v)
FetchStep(f) == FetchKeySet(f) \/ Complete(f)

Next ==
  \/ \E v \in Verifiers : \/ \E k \in 1..MaxRotations : Begin(v, k)
                          \/ VerifierStep(v) \/ Cancel(v)
  \/ \E f \in Fetches : FetchStep(f)
  \/ Rotate \/ Tick

\* Requests and fetches run on, clocks too, and members keep signing in with
\* tokens of the provider's current key.
Fairness ==
  /\ \A v \in Verifiers : WF_vars(VerifierStep(v)) /\ WF_vars(Begin(v, key))
  /\ \A f \in Fetches : WF_vars(FetchStep(f))
  /\ WF_vars(Tick)
Spec == Init /\ [][Next]_vars /\ Fairness

-----------------------------------------------------------------------------
(* Properties                                                              *)

TypeOK ==
  /\ key \in 1..MaxRotations /\ missed \in 0..MaxFaults
  /\ set \in 0..MaxRotations /\ age \in Ages
  /\ inflight \in Fetches \cup {NoFetch}
  /\ \A f \in Fetches : fetch[f].state \in {"reading", "read", "done"}
  /\ \A v \in Verifiers :
       /\ at[v] \in {"idle", "look", "join", "wait", "parse", "retry"} \cup Answers
       /\ at[v] = "parse" => entry[v] # None

\* One fetch runs at a time, and nobody waits for a fetch that will not end: it
\* is the one in flight, or it is over and the waiter only has to wake.
WaitsForRunning ==
  /\ \A f \in Fetches : fetch[f].state # "done" <=> f = inflight
  /\ \A v \in Verifiers : at[v] = "wait" <=> joined[v] # NoFetch

\* A late fetch never puts back a key set that the provider had rotated away
\* before the installed one was read ("concurrent refreshes for one issuer
\* coalesce onto a single in-flight fetch").
NeverOlder == [][set' >= set]_vars

\* Whatever fetches fail and whichever callers they leave behind, the cache
\* catches up with the last rotation and keeps it.
CatchesUp == <>[](set = key)

\* Violated: a token "retrying once with refreshed keys when the kid is absent
\* from the cached set" is refused although the cache now holds its key: the
\* refresh that began with the stale set completed before cachedSetHasKey.
KnownKeyAccepted == \A v \in Verifiers : at[v] = "rejected" => set # token[v]
=============================================================================
