----------------------------- MODULE Resolutions ------------------------------
(***************************************************************************)
(* The resolved-user cache (internal/bff/auth.go: cachedUser, cacheUser,   *)
(* InvalidateUser, InvalidateUserID) for one account: which version of its *)
(* row - role, household, bar - a request acts on.                         *)
(*                                                                         *)
(* The account is cached under one key per credential: the provider login  *)
(* its row names, any linked login, and ("lena", user id) for the session  *)
(* tokens the server issues.  Handlers write the row in a transaction and  *)
(* evict after it.  A resolution takes less than a tick of the clock.      *)
(***************************************************************************)
EXTENDS Naturals, FiniteSets, Functions

CONSTANTS
  Requests,
  Session,   \* the cache key of its session tokens
  Primary,   \* of the login in identity.users
  Links,     \* of the logins linked to it
  TTL,       \* userCacheTTL, in ticks
  CacheMax,  \* userCacheMax
  MaxWrites  \* bound on changes of the row

VARIABLES
  row,      \* the row's version, and whether the account is barred
  cache,    \* a.users: key -> the version, its age, and whether it was read
            \* before an eviction it was stored after (history)
  at, key, ver, \* where each request is, its credential, its version
  raced,    \* an eviction passed between its read and its store (history)
  evicted,  \* the newest version whose eviction by ID is complete (history)
  lag       \* ticks since each version was superseded (history)

request == <<at, key, ver, raced>>
vars == <<row, cache, request, evicted, lag>>

CacheKeys == {Session, Primary} \cup Links
Versions == 0..MaxWrites

Init ==
  /\ row = [ver |-> 0, barred |-> FALSE]
  /\ cache = [k \in {} |-> row]
  /\ at = [r \in Requests |-> "idle"]
  /\ key = [r \in Requests |-> Primary]
  /\ ver = [r \in Requests |-> 0]
  /\ raced = [r \in Requests |-> FALSE]
  /\ evicted = 0
  /\ lag = [v \in Versions |-> 0]

With(f, x, v) == [y \in DOMAIN f \cup {x} |-> IF y = x THEN v ELSE f[y]]

Goto(r, to) == at' = [at EXCEPT ![r] = to]
Done(r) ==
  /\ Goto(r, "idle") /\ key' = [key EXCEPT ![r] = Primary]
  /\ ver' = [ver EXCEPT ![r] = 0] /\ raced' = [raced EXCEPT ![r] = FALSE]

-----------------------------------------------------------------------------
(* authenticateSession, provisionUser                                      *)

Usable(k) == k \in DOMAIN cache /\ cache[k].age < TTL

\* (Mutant: a hit extends the entry.)
MutantHit(k) == cache' = [cache EXCEPT ![k].age = 0]
Hit(k) == UNCHANGED cache
Resolve(r, k) ==
  /\ at[r] = "idle" /\ key' = [key EXCEPT ![r] = k]
  /\ IF Usable(k) THEN Goto(r, "resolved") /\ ver' = [ver EXCEPT ![r] = cache[k].ver] /\ Hit(k)
                  ELSE Goto(r, "miss") /\ UNCHANGED <<ver, cache>>
  /\ UNCHANGED <<row, raced, evicted, lag>>

\* A barred account is refused, and nothing is cached for it.
Load(r) ==
  /\ at[r] = "miss"
  /\ IF row.barred THEN Done(r)
                   ELSE Goto(r, "read") /\ ver' = [ver EXCEPT ![r] = row.ver] /\ UNCHANGED <<key, raced>>
  /\ UNCHANGED <<row, cache, evicted, lag>>

\* cacheUser: a full map is swept of expired entries first.
Swept == IF Cardinality(DOMAIN cache) < CacheMax THEN cache
         ELSE Restrict(cache, {k \in DOMAIN cache : Usable(k)})
Store(r) ==
  /\ at[r] = "read" /\ Goto(r, "resolved")
  /\ cache' = With(Swept, key[r], [ver |-> ver[r], age |-> 0, raced |-> raced[r]])
  /\ raced' = [raced EXCEPT ![r] = FALSE]
  /\ UNCHANGED <<row, key, ver, evicted, lag>>

Answer(r) == at[r] = "resolved" /\ Done(r) /\ UNCHANGED <<row, cache, evicted, lag>>

-----------------------------------------------------------------------------
(* Handlers that change the row and evict                                  *)

Write(barred) ==
  /\ row.ver < MaxWrites /\ row' = [ver |-> row.ver + 1, barred |-> barred]
\* The entries go, and a resolution that has read the row is not told.
Evict(r, keys) ==
  /\ Goto(r, "idle") /\ cache' = Restrict(cache, DOMAIN cache \ keys)
  /\ key' = [key EXCEPT ![r] = Primary] /\ ver' = [ver EXCEPT ![r] = 0]
  /\ raced' = [q \in Requests |-> q # r /\ (raced[q] \/ at[q] = "read")]

\* SwitchActiveHousehold, LeaveHousehold, accepting an invite, searchability:
\* the caller's own row.
ChangeOwn(r) ==
  /\ at[r] = "resolved" /\ Write(row.barred) /\ Goto(r, "evictOwn")
  /\ ver' = [ver EXCEPT ![r] = row.ver + 1]
  /\ UNCHANGED <<cache, key, raced, evicted, lag>>

\* InvalidateUser, with the provider and the subject of the caller's row.
EvictOwn(r) ==
  /\ at[r] = "evictOwn" /\ Evict(r, {Primary})
  /\ UNCHANGED <<row, evicted, lag>>

\* An admin, or the owner of the household, changes this account's row.
ChangeOther(r) ==
  /\ at[r] = "idle" /\ \E barred \in BOOLEAN : Write(barred)
  /\ Goto(r, "evictOther") /\ ver' = [ver EXCEPT ![r] = row.ver + 1]
  /\ UNCHANGED <<cache, key, raced, evicted, lag>>

\* InvalidateUserID evicts under every key.  (Mutant: under the login it knows.)
MutantOfUser == {Primary}
OfUser == CacheKeys
EvictOther(r) ==
  /\ at[r] = "evictOther" /\ Evict(r, OfUser)
  /\ evicted' = IF ver[r] > evicted THEN ver[r] ELSE evicted
  /\ UNCHANGED <<row, lag>>

Capped(n) == IF n > TTL THEN TTL + 1 ELSE n
Tick ==
  /\ \A r \in Requests : at[r] # "read"
  /\ cache' = [k \in DOMAIN cache |-> [cache[k] EXCEPT !.age = IF @ < TTL THEN @ + 1 ELSE @]]
  /\ lag' = [v \in Versions |-> IF v < row.ver THEN Capped(lag[v] + 1) ELSE 0]
  /\ UNCHANGED <<row, request, evicted>>

Next ==
  \/ \E r \in Requests :
       \/ \E k \in CacheKeys : Resolve(r, k)
       \/ Load(r) \/ Store(r) \/ Answer(r)
       \/ ChangeOwn(r) \/ EvictOwn(r) \/ ChangeOther(r) \/ EvictOther(r)
  \/ Tick

Spec == Init /\ [][Next]_vars

-----------------------------------------------------------------------------
(* Properties                                                              *)

Entries == [ver : Versions, age : 0..TTL, raced : BOOLEAN]
TypeOK ==
  /\ row \in [ver : Versions, barred : BOOLEAN] /\ evicted \in 0..row.ver
  /\ DOMAIN cache \subseteq CacheKeys
  /\ \A k \in DOMAIN cache : cache[k] \in Entries /\ cache[k].ver <= row.ver
  /\ \A r \in Requests :
       /\ at[r] \in {"idle", "miss", "read", "resolved", "evictOwn", "evictOther"}
       /\ key[r] \in CacheKeys /\ ver[r] \in 0..row.ver

\* "A role change or ban can lag by at most userCacheTTL": no request is served
\* a version that was superseded that long ago.
LagBounded ==
  \A k \in CacheKeys : Usable(k) /\ cache[k].ver < row.ver => lag[cache[k].ver] < TTL

\* Once a handler has evicted an account by its ID, no cached version is older
\* than its change, unless a resolution had read the row before the eviction and
\* stored it after.
EvictionHolds ==
  \A k \in DOMAIN cache : cache[k].ver < evicted => cache[k].raced

\* Entries have their types, none is from the future, and none outlives an
\* eviction but by that race.
CacheConsistent == TypeOK /\ EvictionHolds

\* Violated: InvalidateUser "drops the cached identity resolution ... so the next
\* request re-reads household membership".  A session's entry, and a linked
\* login's, are under other keys.
OwnChangeSeen ==
  [][\A r \in Requests : at[r] = "evictOwn" /\ at'[r] = "idle" =>
       \A k \in DOMAIN cache' : cache'[k].ver >= ver[r] \/ cache'[k].raced]_vars
=============================================================================
