-------------------------- MODULE AccountsAndListsProofs ------------------------
(***************************************************************************)
(* Theorems about the resolved-user cache (Resolutions), a household's     *)
(* meal plans (MealPlans) and a grocery list (Grocery), for any number of  *)
(* requests and every bound: a stale resolution is served for less than    *)
(* userCacheTTL, and it outlives an eviction by user ID only if it was     *)
(* read before that eviction and stored after it; one plan is active; and  *)
(* a list keeps its order, its credits and what was learned from it.       *)
(***************************************************************************)
EXTENDS MCAccountsAndLists, FiniteSetTheorems, TLAPS

Bounds == TTL \in Nat /\ MaxWrites \in Nat

Places == {"idle", "miss", "read", "resolved", "evictOwn", "evictOther"}

Types ==
  /\ row \in [ver : Versions, barred : BOOLEAN] /\ evicted \in 0..row.ver
  /\ DOMAIN cache \subseteq CacheKeys
  /\ \A k \in DOMAIN cache : cache[k] \in Entries /\ cache[k].ver <= row.ver
  /\ at \in [Requests -> Places] /\ key \in [Requests -> CacheKeys]
  /\ ver \in [Requests -> Versions] /\ \A r \in Requests : ver[r] <= row.ver
  /\ raced \in [Requests -> BOOLEAN]
  /\ lag \in [Versions -> Nat]

\* A version that was evicted is on its way to the cache only behind the back
\* of the eviction.
ReadersRaced == \A r \in Requests : at[r] = "read" /\ ver[r] < evicted => raced[r]

\* The row's own version lags by nothing, and neither does one being stored: no
\* tick passes between its read and its store.  A cached one is as old as its
\* lag at least.
LagsBehindAge ==
  /\ \A v \in Versions : v >= row.ver => lag[v] = 0
  /\ \A r \in Requests : at[r] = "read" => lag[ver[r]] = 0
  /\ \A k \in DOMAIN cache : cache[k].age < TTL => lag[cache[k].ver] <= cache[k].age

IInv == Types /\ ReadersRaced /\ EvictionHolds /\ LagsBehindAge

-----------------------------------------------------------------------------

LEMMA InitHolds == Bounds /\ Init => IInv
BY DEF Bounds, Init, IInv, Types, Versions, CacheKeys, Places, Entries, ReadersRaced,
       EvictionHolds, LagsBehindAge

\* A request moves to a place where it stores nothing, and the cache, if it
\* changes, only loses entries.
LEMMA MoveKeeps ==
  ASSUME Bounds, IInv, NEW r \in Requests, NEW to \in Places \ {"read"},
         NEW k \in CacheKeys, NEW v \in 0..row.ver,
         Goto(r, to), key' = [key EXCEPT ![r] = k], ver' = [ver EXCEPT ![r] = v],
         raced' \in [Requests -> BOOLEAN],
         \A q \in Requests \ {r} : at[q] = "read" => raced'[q] \/ raced'[q] = raced[q],
         DOMAIN cache' \subseteq DOMAIN cache,
         \A l \in DOMAIN cache' : cache'[l] = cache[l],
         UNCHANGED <<row, evicted, lag>>
  PROVE  IInv'
<1>1. /\ at' \in [Requests -> Places] /\ key' \in [Requests -> CacheKeys]
      /\ ver' \in [Requests -> Versions] /\ \A q \in Requests : ver'[q] <= row.ver
  BY DEF Bounds, IInv, Types, Versions, Goto
<1>2. Types'
  BY <1>1 DEF IInv, Types
<1>3. ReadersRaced' /\ EvictionHolds'
  BY DEF IInv, Types, ReadersRaced, EvictionHolds, Goto
<1>4. LagsBehindAge'
  BY DEF IInv, Types, LagsBehindAge, Goto
<1>5. QED
  BY <1>2, <1>3, <1>4 DEF IInv

LEMMA SweptLosesEntries ==
  /\ DOMAIN Swept \subseteq DOMAIN cache
  /\ \A l \in DOMAIN Swept : Swept[l] = cache[l]
BY DEF Swept, Restrict

LEMMA StoreKeeps ==
  ASSUME Bounds, IInv, NEW r \in Requests, Store(r)
  PROVE  IInv'
<1> DEFINE e == [ver |-> ver[r], age |-> 0, raced |-> raced[r]]
<1>1. /\ at[r] = "read" /\ at' = [at EXCEPT ![r] = "resolved"]
      /\ cache' = With(Swept, key[r], e)
      /\ raced' = [raced EXCEPT ![r] = FALSE] /\ UNCHANGED <<row, key, ver, evicted, lag>>
  BY DEF Store, Goto
<1>2. /\ DOMAIN cache' \subseteq DOMAIN cache \cup {key[r]}
      /\ \A l \in DOMAIN cache' : cache'[l] = IF l = key[r] THEN e ELSE cache[l]
  <2>1. /\ DOMAIN cache' = {key[r]} \cup DOMAIN Swept
        /\ \A l \in DOMAIN cache' : cache'[l] = IF l = key[r] THEN e ELSE Swept[l]
    BY <1>1 DEF With
  <2>2. QED
    BY <2>1, SweptLosesEntries
<1>3. e \in Entries /\ e.ver = ver[r] /\ e.age = 0 /\ e.raced = raced[r]
  BY DEF Bounds, IInv, Types, Entries
<1>4. Types'
  <2>1. DOMAIN cache' \subseteq CacheKeys
    BY <1>2 DEF IInv, Types
  <2>2. \A l \in DOMAIN cache' : cache'[l] \in Entries /\ cache'[l].ver <= row.ver
    BY <1>2, <1>3 DEF IInv, Types
  <2>3. QED
    BY <1>1, <2>1, <2>2 DEF IInv, Types, Places
<1>5. ReadersRaced'
  BY <1>1 DEF IInv, Types, ReadersRaced
<1>6. EvictionHolds'
  <2>1. ver[r] < evicted => raced[r]
    BY <1>1 DEF IInv, ReadersRaced
  <2>2. QED
    BY <1>1, <1>2, <1>3, <2>1 DEF IInv, EvictionHolds
<1>7. LagsBehindAge'
  <2>1. lag[ver[r]] = 0
    BY <1>1 DEF IInv, LagsBehindAge
  <2>2. QED
    BY <1>1, <1>2, <1>3, <2>1 DEF IInv, Types, LagsBehindAge
<1>8. QED
  BY <1>4, <1>5, <1>6, <1>7 DEF IInv

\* A request that begins to write the row: its version is the newest.
LEMMA WriteKeeps ==
  ASSUME Bounds, IInv, NEW r \in Requests, NEW barred \in BOOLEAN, Write(barred),
         NEW to \in Places \ {"read"}, Goto(r, to),
         ver' = [ver EXCEPT ![r] = row.ver + 1],
         UNCHANGED <<cache, key, raced, evicted, lag>>
  PROVE  IInv'
<1>1. /\ row.ver \in Nat /\ row.ver < MaxWrites
      /\ row' = [ver |-> row.ver + 1, barred |-> barred] /\ row'.ver = row.ver + 1
  BY DEF Write, IInv, Types, Versions, Bounds
<1>2. Types'
  <2>1. row' \in [ver : Versions, barred : BOOLEAN] /\ evicted' \in 0..row'.ver
    BY <1>1 DEF Bounds, IInv, Types, Versions
  <2>2. \A k \in DOMAIN cache : cache[k].ver <= row'.ver
    BY <1>1 DEF Bounds, IInv, Types, Entries, Versions
  <2>3. ver' \in [Requests -> Versions] /\ \A q \in Requests : ver'[q] <= row'.ver
    BY <1>1 DEF Bounds, IInv, Types, Versions
  <2>4. QED
    BY <2>1, <2>2, <2>3 DEF IInv, Types, Goto
<1>3. ReadersRaced' /\ EvictionHolds'
  BY <1>1 DEF IInv, Types, ReadersRaced, EvictionHolds, Goto
<1>4. LagsBehindAge'
  <2>1. \A v \in Versions : v >= row'.ver => v >= row.ver
    BY <1>1 DEF Versions
  <2>2. QED
    BY <2>1 DEF IInv, Types, LagsBehindAge, Goto
<1>5. QED
  BY <1>2, <1>3, <1>4 DEF IInv

LEMMA EvictOtherKeeps ==
  ASSUME Bounds, IInv, NEW r \in Requests, EvictOther(r)
  PROVE  IInv'
<1>1. /\ at' = [at EXCEPT ![r] = "idle"]
      /\ cache' = Restrict(cache, DOMAIN cache \ CacheKeys)
      /\ key' = [key EXCEPT ![r] = Primary] /\ ver' = [ver EXCEPT ![r] = 0]
      /\ raced' = [q \in Requests |-> q # r /\ (raced[q] \/ at[q] = "read")]
      /\ evicted' \in {ver[r], evicted}
      /\ UNCHANGED <<row, lag>>
  BY DEF EvictOther, Evict, OfUser, Goto
<1>2. DOMAIN cache' = {}
  BY <1>1 DEF IInv, Types, Restrict
<1>3. /\ \A q \in Requests \ {r} : at[q] = "read" => raced'[q]
      /\ raced' \in [Requests -> BOOLEAN]
  BY <1>1
<1>4. Types'
  <2>1. /\ at' \in [Requests -> Places] /\ key' \in [Requests -> CacheKeys]
        /\ ver' \in [Requests -> Versions] /\ \A q \in Requests : ver'[q] <= row.ver
    BY <1>1 DEF Bounds, IInv, Types, Versions, Places, CacheKeys
  <2>2. evicted' \in 0..row.ver
    BY <1>1 DEF Bounds, IInv, Types, Versions
  <2>3. QED
    BY <1>1, <1>2, <1>3, <2>1, <2>2 DEF IInv, Types
<1>5. ReadersRaced' /\ EvictionHolds'
  BY <1>1, <1>2, <1>3 DEF IInv, Types, ReadersRaced, EvictionHolds
<1>6. LagsBehindAge'
  BY <1>1, <1>2 DEF IInv, Types, LagsBehindAge
<1>7. QED
  BY <1>4, <1>5, <1>6 DEF IInv

LEMMA TickKeeps ==
  ASSUME Bounds, IInv, Tick
  PROVE  IInv'
<1>1. /\ \A r \in Requests : at[r] # "read"
      /\ cache' = [k \in DOMAIN cache |-> [cache[k] EXCEPT !.age = IF @ < TTL THEN @ + 1 ELSE @]]
      /\ lag' = [v \in Versions |-> IF v < row.ver THEN Capped(lag[v] + 1) ELSE 0]
      /\ UNCHANGED <<row, at, key, ver, raced, evicted>>
  BY DEF Tick, request
<1>2. \A k \in DOMAIN cache :
        /\ cache'[k] \in Entries /\ cache'[k].ver = cache[k].ver
        /\ cache'[k].raced = cache[k].raced
        /\ cache'[k].age = IF cache[k].age < TTL THEN cache[k].age + 1 ELSE cache[k].age
  BY <1>1 DEF Bounds, IInv, Types, Entries, Versions
<1>3. \A v \in Versions : lag'[v] \in Nat /\ lag'[v] <= lag[v] + 1 /\ (v >= row.ver => lag'[v] = 0)
  BY <1>1 DEF Bounds, IInv, Types, Versions, Capped
<1>4. Types'
  BY <1>1, <1>2, <1>3 DEF IInv, Types
<1>5. ReadersRaced'
  BY <1>1 DEF ReadersRaced
<1>6. EvictionHolds'
  BY <1>1, <1>2 DEF IInv, EvictionHolds
<1>7. LagsBehindAge'
  <2>1. ASSUME NEW k \in DOMAIN cache, cache'[k].age < TTL
        PROVE  lag'[cache[k].ver] <= cache'[k].age
    <3>1. cache[k].age \in Nat /\ cache[k].ver \in Versions
      BY DEF Bounds, IInv, Types, Entries
    <3>2. cache[k].age < TTL /\ cache'[k].age = cache[k].age + 1
      BY <1>2, <2>1, <3>1 DEF Bounds
    <3>3. lag[cache[k].ver] <= cache[k].age
      BY <3>2 DEF IInv, LagsBehindAge
    <3>4. QED
      BY <1>3, <3>1, <3>2, <3>3 DEF IInv, Types
  <2>2. QED
    BY <1>1, <1>2, <1>3, <2>1 DEF LagsBehindAge
<1>8. QED
  BY <1>4, <1>5, <1>6, <1>7 DEF IInv

LEMMA RequestKeeps ==
  ASSUME Bounds, IInv, NEW r \in Requests,
         \/ \E k \in CacheKeys : Resolve(r, k)
         \/ Load(r) \/ Store(r) \/ Answer(r)
         \/ ChangeOwn(r) \/ EvictOwn(r) \/ ChangeOther(r) \/ EvictOther(r)
  PROVE  IInv'
<1> USE DEF Places
<1>0. /\ row.ver \in Nat /\ Primary \in CacheKeys /\ raced \in [Requests -> BOOLEAN]
      /\ ver[r] \in 0..row.ver /\ key[r] \in CacheKeys /\ row.barred \in BOOLEAN
  BY DEF Bounds, IInv, Types, Versions, CacheKeys
<1>1. ASSUME NEW k \in CacheKeys, Resolve(r, k) PROVE IInv'
  <2>1. CASE Usable(k)
    <3>1. cache[k].ver \in 0..row.ver
      BY <2>1 DEF Bounds, IInv, Types, Usable, Entries, Versions
    <3>2. /\ Goto(r, "resolved") /\ key' = [key EXCEPT ![r] = k]
          /\ ver' = [ver EXCEPT ![r] = cache[k].ver]
          /\ UNCHANGED <<cache, raced, row, evicted, lag>>
      BY <1>1, <2>1 DEF Resolve, Hit
    <3>3. QED
      BY <1>0, <3>1, <3>2, MoveKeeps
  <2>2. CASE ~Usable(k)
    <3>1. /\ Goto(r, "miss") /\ key' = [key EXCEPT ![r] = k]
          /\ ver' = [ver EXCEPT ![r] = ver[r]]
          /\ UNCHANGED <<cache, raced, row, evicted, lag>>
      BY <1>1, <2>2 DEF Resolve, IInv, Types
    <3>2. QED
      BY <1>0, <3>1, MoveKeeps
  <2>3. QED
    BY <2>1, <2>2
<1>2. ASSUME Done(r), UNCHANGED <<row, cache, evicted, lag>> PROVE IInv'
  <2>1. /\ Goto(r, "idle") /\ key' = [key EXCEPT ![r] = Primary]
        /\ ver' = [ver EXCEPT ![r] = 0] /\ raced' = [raced EXCEPT ![r] = FALSE]
    BY <1>2 DEF Done
  <2>2. /\ raced' \in [Requests -> BOOLEAN] /\ 0 \in 0..row.ver
        /\ \A q \in Requests \ {r} : raced'[q] = raced[q]
    BY <1>0, <2>1
  <2>3. QED
    BY <1>0, <1>2, <2>1, <2>2, MoveKeeps
<1>3. CASE Load(r)
  <2>1. CASE row.barred
    BY <1>2, <1>3, <2>1 DEF Load
  <2>2. CASE ~row.barred
    <3>1. /\ at' = [at EXCEPT ![r] = "read"] /\ ver' = [ver EXCEPT ![r] = row.ver]
          /\ UNCHANGED <<row, cache, key, raced, evicted, lag>>
      BY <1>3, <2>2 DEF Load, Goto
    <3>2. Types'
      BY <1>0, <3>1 DEF IInv, Types, Versions, Bounds
    <3>3. ReadersRaced' /\ EvictionHolds'
      BY <1>0, <3>1 DEF IInv, Types, ReadersRaced, EvictionHolds
    <3>4. lag[row.ver] = 0
      BY <1>0 DEF IInv, Types, LagsBehindAge
    <3>5. LagsBehindAge'
      BY <3>1, <3>4 DEF IInv, Types, LagsBehindAge
    <3>6. QED
      BY <3>2, <3>3, <3>5 DEF IInv
  <2>3. QED
    BY <2>1, <2>2
<1>4. CASE Store(r)
  BY <1>4, StoreKeeps
<1>5. CASE Answer(r)
  BY <1>2, <1>5 DEF Answer
<1>6. CASE ChangeOwn(r)
  <2>1. /\ Write(row.barred) /\ Goto(r, "evictOwn") /\ ver' = [ver EXCEPT ![r] = row.ver + 1]
        /\ UNCHANGED <<cache, key, raced, evicted, lag>>
    BY <1>6 DEF ChangeOwn
  <2>2. QED
    BY <1>0, <2>1, WriteKeeps
<1>7. CASE ChangeOther(r)
  <2>1. PICK barred \in BOOLEAN : Write(barred)
    BY <1>7 DEF ChangeOther
  <2>2. /\ Goto(r, "evictOther") /\ ver' = [ver EXCEPT ![r] = row.ver + 1]
        /\ UNCHANGED <<cache, key, raced, evicted, lag>>
    BY <1>7 DEF ChangeOther
  <2>3. QED
    BY <2>1, <2>2, WriteKeeps
<1>8. CASE EvictOwn(r)
  <2>1. /\ Goto(r, "idle") /\ cache' = Restrict(cache, DOMAIN cache \ {Primary})
        /\ key' = [key EXCEPT ![r] = Primary] /\ ver' = [ver EXCEPT ![r] = 0]
        /\ raced' = [q \in Requests |-> q # r /\ (raced[q] \/ at[q] = "read")]
        /\ UNCHANGED <<row, evicted, lag>>
    BY <1>8 DEF EvictOwn, Evict
  <2>2. /\ raced' \in [Requests -> BOOLEAN]
        /\ \A q \in Requests \ {r} : at[q] = "read" => raced'[q]
    BY <2>1
  <2>3. 0 \in 0..row.ver
    BY <1>0
  <2>4. DOMAIN cache' \subseteq DOMAIN cache /\ \A l \in DOMAIN cache' : cache'[l] = cache[l]
    BY <2>1 DEF Restrict
  <2>5. QED
    BY <1>0, <2>1, <2>2, <2>3, <2>4, MoveKeeps
<1>9. CASE EvictOther(r)
  BY <1>9, EvictOtherKeeps
<1>10. QED
  BY <1>1, <1>3, <1>4, <1>5, <1>6, <1>7, <1>8, <1>9

LEMMA NextKeeps == Bounds /\ IInv /\ [Next]_vars => IInv'
<1> SUFFICES ASSUME Bounds, IInv, [Next]_vars PROVE IInv'
  OBVIOUS
<1>1. CASE UNCHANGED vars
  BY <1>1 DEF vars, request, IInv, Types, ReadersRaced, EvictionHolds, LagsBehindAge
<1>2. QED
  BY <1>1, RequestKeeps, TickKeeps DEF Next

\* Entries have their types, none is newer than the row, and after
\* InvalidateUserID none is older than the change it was called for, unless a
\* resolution read the row before it and stored it after.
THEOREM EvictionIsComplete ==
  ASSUME TTL \in Nat, MaxWrites \in Nat
  PROVE  Spec => []CacheConsistent
<1>1. Bounds
  BY DEF Bounds
<1>2. IInv => CacheConsistent
  BY <1>1 DEF Bounds, IInv, Types, Versions, Places, CacheConsistent, TypeOK
<1>3. QED
  BY <1>1, <1>2, InitHolds, NextKeeps, PTL DEF Spec

\* "A role change or ban can lag by at most userCacheTTL": however resolutions,
\* writes and evictions interleave, nothing superseded that long ago is served.
THEOREM StalenessIsBounded ==
  ASSUME TTL \in Nat, MaxWrites \in Nat
  PROVE  Spec => []LagBounded
<1>1. Bounds
  BY DEF Bounds
<1>2. IInv => LagBounded
  <2>1. ASSUME IInv, NEW k \in CacheKeys, Usable(k) PROVE lag[cache[k].ver] < TTL
    <3>1. /\ k \in DOMAIN cache /\ cache[k].age < TTL /\ lag[cache[k].ver] <= cache[k].age
          /\ cache[k] \in Entries
      BY <2>1 DEF Usable, IInv, Types, LagsBehindAge
    <3>2. lag[cache[k].ver] \in Nat /\ cache[k].age \in Nat
      BY <1>1, <2>1, <3>1 DEF Bounds, IInv, Types, Entries
    <3>3. QED
      BY <1>1, <3>1, <3>2 DEF Bounds
  <2>2. QED
    BY <2>1 DEF LagBounded
<1>3. QED
  BY <1>1, <1>2, InitHolds, NextKeeps, PTL DEF Spec

(***************************************************************************)
(* Meal plans: one is active at most, the one chosen last, and no          *)
(* activation is refused that no other one overtook.                       *)
(***************************************************************************)

Transactions == Requests \cup {M!Merge}
Phases == {"idle", "clearing", "waiting", "writing", "inserting", "inserted", "written"}
Writes == {"inserting", "inserted", "written"}

PlansTyped ==
  /\ plan \in [Plans -> M!Rows] /\ planSeen \in [Plans -> M!Rows]
  /\ owner \in [Plans -> Transactions \cup {Nobody}]
  /\ stepOf \in [Requests -> Phases]
  /\ op \in [Requests -> {"create", "set", "rename", "delete"}]
  /\ own \in [Requests -> Plans \cup {NoPlan}] /\ flag \in [Requests -> BOOLEAN]
  /\ other \in [Requests -> Plans \cup {NoPlan}] /\ overtaken \in [Requests -> BOOLEAN]
  /\ mergeAt \in {"no", "locked", "done"}
  /\ chosen \in Plans \cup {NoPlan} /\ outdated \in BOOLEAN /\ needless \in BOOLEAN

\* A request at work has its plan; one that clears or waits activates it.
RequestsTyped ==
  \A r \in Requests :
    /\ stepOf[r] # "idle" => own[r] \in Plans
    /\ stepOf[r] \in {"clearing", "waiting"} => flag[r]
    /\ op[r] = "delete" => ~flag[r]
    /\ IF stepOf[r] = "waiting" THEN other[r] # own[r] ELSE other[r] = NoPlan

\* What is written and not committed: by the merge nothing but removals, by a
\* request its own plan, and what it clears for it.
Uncommitted ==
  /\ \A q \in Plans : owner[q] = Nobody => plan[q] = planSeen[q]
  /\ \A q \in Plans : owner[q] = M!Merge => plan[q] = M!Gone
  /\ \A q \in Plans, r \in Requests : owner[q] = r =>
       \/ q = own[r] /\ stepOf[r] \in Writes
       \/ q # own[r] /\ flag[r] /\ ~plan[q].active /\ stepOf[r] \in Writes \cup {"writing"}
  /\ \A r \in Requests : stepOf[r] \in Writes =>
       owner[own[r]] = r /\ (plan[own[r]].active <=> flag[r])

\* A written activation is the only one: nothing else is active, and nothing
\* else will be when it commits.
Alone ==
  \A r \in Requests : stepOf[r] \in Writes /\ flag[r] =>
    \A q \in Plans \ {own[r]} : ~plan[q].active /\ (owner[q] # r => ~planSeen[q].active)

\* An activation on its way clears what is active, unless it is overtaken.
Clears ==
  \A r \in Requests, q \in Plans :
    flag[r] /\ q # own[r] /\ planSeen[q].active /\ ~overtaken[r] =>
      /\ stepOf[r] = "waiting" => q = other[r]
      /\ stepOf[r] = "writing" => owner[q] = r

OneActive ==
  /\ \A q \in Plans : /\ planSeen[q].active => planSeen[q].here
                      /\ plan[q].active => plan[q].here
  /\ \A p, q \in Plans : planSeen[p].active /\ planSeen[q].active => p = q
  /\ ~outdated => \A q \in Plans : planSeen[q].active <=> q = chosen

PlansInv ==
  /\ PlansTyped /\ RequestsTyped /\ Uncommitted /\ Alone /\ Clears /\ OneActive
  /\ ~needless

LEMMA PlansInit == M!Init => PlansInv
<1> SUFFICES ASSUME M!Init PROVE PlansInv
  OBVIOUS
<1>1. PICK had \in SUBSET Plans, a \in Plans \cup {NoPlan} :
        /\ a \in had \cup {NoPlan} /\ chosen = a
        /\ planSeen = [q \in Plans |-> [here |-> q \in had, active |-> q = a]]
  BY DEF M!Init
<1>2. planSeen \in [Plans -> M!Rows] /\ \A q \in Plans : planSeen[q].active <=> q = chosen
  <2>1. \A q \in Plans : [here |-> q \in had, active |-> q = a] \in M!Rows
    BY DEF M!Rows
  <2>2. planSeen \in [Plans -> M!Rows]
    BY <1>1, <2>1
  <2>3. QED
    BY <1>1, <2>2
<1>3. \A q \in Plans : planSeen[q].active => planSeen[q].here
  BY <1>1, AccountsAndListsAssumption
<1>4. QED
  BY <1>1, <1>2, <1>3, AccountsAndListsAssumption
     DEF M!Init, PlansInv, PlansTyped, RequestsTyped, Uncommitted, Alone, Clears, OneActive,
         Transactions, Phases, Writes

\* A request's step that touches no plan: it begins or sees what to clear.
LEMMA LookKeeps ==
  ASSUME PlansInv, NEW r \in Requests, M!Look(r)
  PROVE  PlansInv'
<1>1. /\ stepOf[r] = "clearing" /\ stepOf' = [stepOf EXCEPT ![r] = "waiting"]
      /\ other' = [other EXCEPT ![r] = M!Only(M!ActiveIn(planSeen) \ {own[r]})]
      /\ UNCHANGED <<plan, planSeen, owner, op, own, flag, mergeAt, chosen, outdated, overtaken,
                     needless>>
  BY DEF M!Look, M!Goto, M!tables, M!history
<1> DEFINE s == M!ActiveIn(planSeen) \ {own[r]}
<1>2. /\ M!Only(s) \in Plans \cup {NoPlan} /\ M!Only(s) # own[r]
      /\ \A q \in s : q = M!Only(s)
  <2>1. \A p, q \in s : p = q
    BY DEF PlansInv, OneActive, M!ActiveIn
  <2>2. s # {} => M!Only(s) \in s
    BY DEF M!Only
  <2>3. s = {} => M!Only(s) = NoPlan
    BY DEF M!Only
  <2>4. s \subseteq Plans /\ own[r] \notin s
    BY DEF M!ActiveIn
  <2>5. QED
    BY <1>1, <2>1, <2>2, <2>3, <2>4, AccountsAndListsAssumption DEF PlansInv, RequestsTyped
<1>3. PlansTyped' /\ RequestsTyped'
  BY <1>1, <1>2 DEF PlansInv, PlansTyped, RequestsTyped, Phases
<1>4. Uncommitted' /\ Alone'
  BY <1>1 DEF PlansInv, PlansTyped, Uncommitted, Alone, Writes
<1>5. Clears'
  BY <1>1, <1>2 DEF PlansInv, PlansTyped, Clears, M!ActiveIn
<1>6. QED
  BY <1>1, <1>3, <1>4, <1>5 DEF PlansInv, OneActive

LEMMA BeginKeeps ==
  ASSUME PlansInv, NEW r \in Requests, NEW o \in {"create", "set", "rename", "delete"},
         NEW q \in Plans, NEW f \in BOOLEAN, M!Begin(r, o, q, f)
  PROVE  PlansInv'
<1>1. /\ stepOf[r] = "idle" /\ stepOf' = [stepOf EXCEPT ![r] = IF f THEN "clearing" ELSE "writing"]
      /\ op' = [op EXCEPT ![r] = o] /\ own' = [own EXCEPT ![r] = q]
      /\ flag' = [flag EXCEPT ![r] = f] /\ overtaken' = [overtaken EXCEPT ![r] = FALSE]
      /\ o = "delete" => ~f
      /\ UNCHANGED <<plan, planSeen, owner, other, mergeAt, chosen, outdated, needless>>
  BY DEF M!Begin, M!Goto, M!tables
<1>2. PlansTyped' /\ other[r] = NoPlan
  BY <1>1 DEF PlansInv, PlansTyped, RequestsTyped, Phases
<1>3. RequestsTyped'
  BY <1>1, <1>2, AccountsAndListsAssumption DEF PlansInv, PlansTyped, RequestsTyped
<1>4. Uncommitted' /\ Alone'
  BY <1>1 DEF PlansInv, PlansTyped, Uncommitted, Alone, Writes
<1>5. Clears'
  BY <1>1 DEF PlansInv, PlansTyped, Clears
<1>6. QED
  BY <1>1, <1>2, <1>3, <1>4, <1>5 DEF PlansInv, OneActive

LEMMA ClearKeeps ==
  ASSUME PlansInv, NEW r \in Requests, M!Clear(r)
  PROVE  PlansInv'
<1>1. /\ stepOf[r] = "waiting" /\ stepOf' = [stepOf EXCEPT ![r] = "writing"]
      /\ other' = [other EXCEPT ![r] = NoPlan]
      /\ UNCHANGED <<planSeen, op, own, flag, mergeAt, chosen, outdated, overtaken, needless>>
  BY DEF M!Clear, M!Goto, M!history
<1>2. PICK q \in Plans \cup {NoPlan} : q = other[r]
  BY DEF PlansInv, PlansTyped
<1>3. flag[r] /\ own[r] \in Plans /\ \A p \in Plans : owner[p] # r
  BY <1>1 DEF PlansInv, RequestsTyped, Uncommitted, Writes
<1>4. RequestsTyped'
  BY <1>1 DEF PlansInv, PlansTyped, RequestsTyped
<1>5. CASE q = NoPlan
  <2>1. UNCHANGED <<plan, owner>>
    BY <1>2, <1>5 DEF M!Clear
  <2>2. PlansTyped'
    BY <1>1, <2>1 DEF PlansInv, PlansTyped, Phases
  <2>3. Uncommitted' /\ Alone'
    BY <1>1, <2>1 DEF PlansInv, PlansTyped, Uncommitted, Alone, Writes
  <2>4. Clears'
    <3>1. ASSUME NEW t \in Requests, NEW p \in Plans, flag[t], p # own[t], planSeen[p].active,
                 ~overtaken[t], stepOf'[t] = "writing"
          PROVE  owner'[p] = t
      <4>1. CASE t = r
        <5>1. NoPlan \notin Plans
          BY AccountsAndListsAssumption
        <5>2. QED
          BY <1>1, <3>1, <4>1, <1>2, <1>5, <2>1, <5>1 DEF PlansInv, PlansTyped, Clears
      <4>2. CASE t # r
        BY <1>1, <3>1, <4>2, <1>2, <1>5, <2>1 DEF PlansInv, PlansTyped, Clears
      <4>3. QED
        BY <4>1, <4>2
    <3>2. QED
      BY <1>1, <3>1 DEF PlansInv, PlansTyped, Clears
  <2>5. QED
    BY <1>1, <1>4, <2>1, <2>2, <2>3, <2>4 DEF PlansInv, OneActive
<1>6. CASE q # NoPlan
  <2>1. /\ q \in Plans /\ owner[q] = Nobody /\ q # own[r] /\ plan[q] = planSeen[q]
        /\ plan' = [plan EXCEPT ![q].active = FALSE]
        /\ owner' = [owner EXCEPT ![q] = IF plan[q].active THEN r ELSE @]
    BY <1>1, <1>2, <1>3, <1>6 DEF M!Clear, M!Free, PlansInv, RequestsTyped, Uncommitted
  <2>2. PlansTyped' /\ plan'[q].active = FALSE /\ plan'[q].here = plan[q].here
        /\ \A p \in Plans \ {q} : plan'[p] = plan[p] /\ owner'[p] = owner[p]
    BY <1>1, <2>1 DEF PlansInv, PlansTyped, Phases, Transactions, M!Rows
  <2>3. Uncommitted'
    BY <1>1, <1>3, <2>1, <2>2, AccountsAndListsAssumption DEF PlansInv, PlansTyped, Uncommitted, Writes, M!Rows
  <2>4. Alone'
    BY <1>1, <2>1, <2>2, AccountsAndListsAssumption DEF PlansInv, PlansTyped, Alone, Writes
  <2>5. Clears'
    <3>1. ASSUME NEW t \in Requests, NEW p \in Plans, flag[t], p # own[t], planSeen[p].active,
                 ~overtaken[t], stepOf'[t] = "writing"
          PROVE  owner'[p] = t
      <4>1. CASE t = r
        BY <1>1, <3>1, <4>1, <1>2, <2>1, <2>2, AccountsAndListsAssumption DEF PlansInv, PlansTyped, Clears
      <4>2. CASE t # r
        BY <1>1, <3>1, <4>2, <1>2, <2>1, <2>2, AccountsAndListsAssumption DEF PlansInv, PlansTyped, Clears
      <4>3. QED
        BY <4>1, <4>2
    <3>2. QED
      BY <1>1, <3>1 DEF PlansInv, PlansTyped, Clears
  <2>6. OneActive'
    BY <1>1, <2>1, <2>2 DEF PlansInv, OneActive
  <2>7. QED
    BY <1>1, <1>4, <2>2, <2>3, <2>4, <2>5, <2>6 DEF PlansInv
<1>7. QED
  BY <1>5, <1>6

\* A request's transaction is undone, and the request is over.
LEMMA RefuseKeeps ==
  ASSUME PlansInv, NEW r \in Requests, stepOf[r] # "idle", M!Refuse(r), needless' = FALSE,
         UNCHANGED <<planSeen, mergeAt, chosen, outdated, overtaken>>
  PROVE  PlansInv'
<1>1. /\ plan' = [q \in Plans |-> IF owner[q] = r THEN planSeen[q] ELSE plan[q]]
      /\ owner' = [q \in Plans |-> IF owner[q] = r THEN Nobody ELSE owner[q]]
      /\ stepOf' = [stepOf EXCEPT ![r] = "idle"] /\ op' = [op EXCEPT ![r] = "rename"]
      /\ own' = [own EXCEPT ![r] = NoPlan] /\ flag' = [flag EXCEPT ![r] = FALSE]
      /\ other' = [other EXCEPT ![r] = NoPlan]
  BY DEF M!Refuse, M!Undo, M!Leave, M!Goto
<1>2. PlansTyped'
  BY <1>1 DEF PlansInv, PlansTyped, Phases
<1>3. RequestsTyped'
  BY <1>1 DEF PlansInv, PlansTyped, RequestsTyped
<1>4. \A s \in Requests \ {r} : /\ stepOf'[s] = stepOf[s] /\ own'[s] = own[s] /\ flag'[s] = flag[s]
                                /\ op'[s] = op[s] /\ other'[s] = other[s]
  BY <1>1 DEF PlansInv, PlansTyped
<1>5. stepOf'[r] = "idle" /\ ~flag'[r]
  BY <1>1 DEF PlansInv, PlansTyped
<1>6. Uncommitted'
  <2>1. \A q \in Plans : owner'[q] # r
    BY <1>1, AccountsAndListsAssumption
  <2>2. \A q \in Plans, s \in Requests \ {r} : owner'[q] = s => owner[q] = s /\ plan'[q] = plan[q]
    BY <1>1, AccountsAndListsAssumption
  <2>3. \A q \in Plans, s \in Requests \ {r} : owner[q] = s => owner'[q] = s /\ plan'[q] = plan[q]
    BY <1>1, AccountsAndListsAssumption
  <2>4. \A q \in Plans, s \in Requests : owner'[q] = s =>
          \/ q = own'[s] /\ stepOf'[s] \in Writes
          \/ q # own'[s] /\ flag'[s] /\ ~plan'[q].active /\ stepOf'[s] \in Writes \cup {"writing"}
    BY <1>4, <2>1, <2>2 DEF PlansInv, Uncommitted
  <2>5. \A s \in Requests : stepOf'[s] \in Writes =>
          owner'[own'[s]] = s /\ (plan'[own'[s]].active <=> flag'[s])
    BY <1>4, <1>5, <2>3 DEF PlansInv, Uncommitted, RequestsTyped, Writes
  <2>6. \A q \in Plans : /\ owner'[q] = Nobody => plan'[q] = planSeen[q]
                         /\ owner'[q] = M!Merge => plan'[q] = M!Gone
    BY <1>1, AccountsAndListsAssumption DEF PlansInv, Uncommitted
  <2>7. QED
    BY <2>4, <2>5, <2>6 DEF Uncommitted
<1>7. Alone'
  BY <1>1, <1>4, <1>5, AccountsAndListsAssumption DEF PlansInv, Alone, Writes
<1>8. Clears'
  BY <1>1, <1>4, <1>5 DEF PlansInv, Clears
<1>9. OneActive'
  BY <1>1 DEF PlansInv, OneActive
<1>10. QED
  BY <1>2, <1>3, <1>6, <1>7, <1>8, <1>9 DEF PlansInv

\* A request writes its own plan; if it activates it, it is alone.
LEMMA PlanWritten ==
  ASSUME PlansInv, NEW r \in Requests, stepOf[r] = "writing",
         owner[own[r]] \in {Nobody, r}, NEW entry \in M!Rows,
         plan' = [plan EXCEPT ![own[r]] = entry], owner' = [owner EXCEPT ![own[r]] = r],
         entry.active <=> flag[r], entry.active => entry.here,
         flag[r] => M!Awaited(r) = {} /\ M!Standing(r) = {},
         NEW to \in {"inserting", "written"}, M!Goto(r, to),
         UNCHANGED <<planSeen, op, own, flag, other, mergeAt, chosen, outdated, overtaken, needless>>
  PROVE  PlansInv'
<1> DEFINE mine == own[r]
<1>1. mine \in Plans /\ stepOf' = [stepOf EXCEPT ![r] = to]
  BY DEF PlansInv, RequestsTyped, M!Goto
<1>2. /\ plan'[mine] = entry /\ owner'[mine] = r
      /\ \A q \in Plans \ {mine} : plan'[q] = plan[q] /\ owner'[q] = owner[q]
      /\ stepOf'[r] = to /\ \A s \in Requests \ {r} : stepOf'[s] = stepOf[s]
  BY <1>1 DEF PlansInv, PlansTyped
<1>3. PlansTyped'
  BY <1>1 DEF PlansInv, PlansTyped, Phases, Transactions
<1>4. RequestsTyped'
  BY <1>1, <1>2 DEF PlansInv, PlansTyped, RequestsTyped
<1>5. \A s \in Requests \ {r} : stepOf[s] \in Writes => own[s] # mine
  BY AccountsAndListsAssumption DEF PlansInv, Uncommitted
<1>6. Uncommitted'
  <2>1. \A q \in Plans, s \in Requests : owner'[q] = s =>
          \/ q = own[s] /\ stepOf'[s] \in Writes
          \/ q # own[s] /\ flag[s] /\ ~plan'[q].active /\ stepOf'[s] \in Writes \cup {"writing"}
    BY <1>2 DEF PlansInv, Uncommitted, Writes
  <2>2. \A s \in Requests : stepOf'[s] \in Writes =>
          owner'[own[s]] = s /\ (plan'[own[s]].active <=> flag[s])
    BY <1>2, <1>5 DEF PlansInv, Uncommitted, RequestsTyped, Writes
  <2>3. \A q \in Plans : /\ owner'[q] = Nobody => plan'[q] = planSeen[q]
                         /\ owner'[q] = M!Merge => plan'[q] = M!Gone
    BY <1>2, AccountsAndListsAssumption DEF PlansInv, Uncommitted
  <2>4. QED
    BY <2>1, <2>2, <2>3 DEF Uncommitted
<1>7. Alone'
  <2>1. ASSUME NEW s \in Requests, stepOf'[s] \in Writes, flag[s], NEW q \in Plans \ {own[s]}
        PROVE  ~plan'[q].active /\ (owner'[q] # s => ~planSeen[q].active)
    <3>1. CASE s = r
      <4>1. q \notin M!Awaited(r) /\ q \notin M!Standing(r)
        BY <2>1, <3>1
      <4>2. ~plan[q].active /\ (owner[q] # r => ~planSeen[q].active)
        BY <2>1, <3>1, <4>1 DEF M!Awaited, M!Standing, M!Free, PlansInv, Uncommitted
      <4>3. QED
        BY <1>2, <2>1, <3>1, <4>2
    <3>2. CASE s # r /\ q # mine
      BY <1>2, <2>1, <3>2 DEF PlansInv, Alone
    <3>3. CASE s # r /\ q = mine
      <4>1. stepOf[s] \in Writes /\ own[s] # mine /\ own[s] \in Plans
        BY <1>2, <1>5, <2>1, <3>3 DEF PlansInv, RequestsTyped, Writes
      <4>2. owner[own[s]] = s /\ plan[own[s]].active
        BY <2>1, <4>1 DEF PlansInv, Uncommitted
      <4>3. own[s] \in M!Awaited(r)
        BY <3>3, <4>1, <4>2, AccountsAndListsAssumption DEF M!Awaited, M!Free
      <4>4. ~flag[r]
        BY <4>3
      <4>5. ~planSeen[mine].active
        BY <2>1, <3>3, <4>1, AccountsAndListsAssumption DEF PlansInv, Alone
      <4>6. QED
        BY <1>2, <3>3, <4>4, <4>5
    <3>4. QED
      BY <3>1, <3>2, <3>3
  <2>2. QED
    BY <2>1 DEF Alone
<1>8. Clears'
  <2>1. ASSUME NEW s \in Requests, NEW q \in Plans, flag[s], q # own[s], planSeen[q].active,
               ~overtaken[s]
        PROVE  /\ stepOf'[s] = "waiting" => q = other[s]
               /\ stepOf'[s] = "writing" => owner'[q] = s
    BY <1>2, <2>1, AccountsAndListsAssumption DEF PlansInv, Clears
  <2>2. QED
    BY <2>1 DEF Clears
<1>9. OneActive'
  BY <1>2 DEF PlansInv, OneActive
<1>10. QED
  BY <1>3, <1>4, <1>6, <1>7, <1>8, <1>9 DEF PlansInv

\* Write, Delete and CheckHousehold: written, or refused.
LEMMA WritingKeeps ==
  ASSUME PlansInv, NEW r \in Requests,
         M!Write(r) \/ M!Delete(r) \/ M!CheckHousehold(r) \/ M!FailRequest(r)
  PROVE  PlansInv'
<1> DEFINE mine == own[r]
<1>0. needless = FALSE /\ flag[r] \in BOOLEAN
  BY DEF PlansInv, PlansTyped
<1>1. CASE M!Write(r)
  <2>1. /\ stepOf[r] = "writing" /\ owner[mine] \in {Nobody, r} /\ op[r] # "delete"
        /\ UNCHANGED <<planSeen, mergeAt, chosen, outdated, overtaken>>
    BY <1>1 DEF M!Write, M!Free
  <2>2. CASE ~(plan[mine].here \/ op[r] = "create")
    BY <1>0, <1>1, <2>1, <2>2, RefuseKeeps DEF M!Write
  <2>3. CASE plan[mine].here \/ op[r] = "create"
    <3>1. CASE flag[r] /\ M!Standing(r) # {}
      <4>1. M!Refuse(r) /\ needless' = (needless \/ ~overtaken[r])
        BY <1>1, <2>3, <3>1 DEF M!Write
      <4>2. PICK q \in Plans \ {mine} : owner[q] \in {Nobody, r} /\ plan[q].active
        BY <3>1 DEF M!Standing, M!Free
      <4>3. owner[q] # r
        BY <4>2 DEF PlansInv, Uncommitted
      <4>4. planSeen[q].active /\ owner[q] = Nobody
        BY <4>2, <4>3 DEF PlansInv, Uncommitted
      <4>5. overtaken[r]
        BY <2>1, <3>1, <4>2, <4>3, <4>4 DEF PlansInv, Clears
      <4>6. needless' = FALSE
        BY <1>0, <4>1, <4>5
      <4>7. QED
        BY <2>1, <4>1, <4>6, RefuseKeeps
    <3>2. CASE ~(flag[r] /\ M!Standing(r) # {})
      <4> DEFINE entry == [here |-> TRUE, active |-> flag[r]]
                 to == IF op[r] = "create" THEN "inserting" ELSE "written"
      <4>1. /\ flag[r] => M!Awaited(r) = {} /\ M!Standing(r) = {}
            /\ plan' = [plan EXCEPT ![mine] = entry] /\ owner' = [owner EXCEPT ![mine] = r]
            /\ M!Goto(r, to) /\ UNCHANGED <<op, own, flag, other, needless>>
        BY <1>1, <2>3, <3>2 DEF M!Write
      <4>2. entry \in M!Rows /\ (entry.active <=> flag[r]) /\ entry.here
        BY <1>0 DEF M!Rows
      <4>3. to \in {"inserting", "written"}
        OBVIOUS
      <4> HIDE DEF entry, to
      <4>4. QED
        BY <2>1, <4>1, <4>2, <4>3, PlanWritten
    <3>3. QED
      BY <3>1, <3>2
  <2>4. QED
    BY <2>2, <2>3
<1>2. CASE M!Delete(r)
  <2>1. /\ stepOf[r] = "writing" /\ owner[mine] \in {Nobody, r} /\ ~flag[r]
        /\ UNCHANGED <<planSeen, mergeAt, chosen, outdated, overtaken, needless>>
    BY <1>2 DEF M!Delete, M!Free, M!history, PlansInv, RequestsTyped
  <2>2. CASE plan[mine].here
    <3>1. /\ plan' = [plan EXCEPT ![mine] = M!Gone] /\ owner' = [owner EXCEPT ![mine] = r]
          /\ M!Goto(r, "written") /\ UNCHANGED <<op, own, flag, other>>
      BY <1>2, <2>2 DEF M!Delete
    <3>2. M!Gone \in M!Rows /\ ~M!Gone.active
      BY DEF M!Gone, M!Rows
    <3>3. QED
      BY <2>1, <3>1, <3>2, PlanWritten
  <2>3. CASE ~plan[mine].here
    BY <1>0, <1>2, <2>1, <2>3, RefuseKeeps DEF M!Delete
  <2>4. QED
    BY <2>2, <2>3
<1>3. CASE M!CheckHousehold(r)
  <2>1. /\ stepOf[r] = "inserting"
        /\ UNCHANGED <<planSeen, mergeAt, chosen, outdated, overtaken, needless>>
    BY <1>3 DEF M!CheckHousehold, M!history
  <2>2. CASE mergeAt = "done"
    BY <1>0, <1>3, <2>1, <2>2, RefuseKeeps DEF M!CheckHousehold
  <2>3. CASE mergeAt # "done"
    <3>1. stepOf' = [stepOf EXCEPT ![r] = "inserted"] /\ UNCHANGED <<plan, owner, op, own, flag, other>>
      BY <1>3, <2>3 DEF M!CheckHousehold, M!Goto
    <3>2. PlansTyped' /\ RequestsTyped'
      BY <2>1, <3>1 DEF PlansInv, PlansTyped, RequestsTyped, Phases
    <3>3. Uncommitted' /\ Alone' /\ Clears'
      BY <2>1, <3>1 DEF PlansInv, PlansTyped, Uncommitted, Alone, Clears, Writes
    <3>4. QED
      BY <2>1, <3>1, <3>2, <3>3 DEF PlansInv, OneActive
  <2>4. QED
    BY <2>2, <2>3
<1>4. CASE M!FailRequest(r)
  BY <1>0, <1>4, RefuseKeeps DEF M!FailRequest, M!Deadlocked, M!history
<1>5. QED
  BY <1>1, <1>2, <1>3, <1>4

\* A commit publishes what the request wrote.
LEMMA CommitKeeps ==
  ASSUME PlansInv, NEW r \in Requests, M!Commit(r)
  PROVE  PlansInv'
<1> DEFINE mine == own[r]
<1>1. /\ planSeen' = [q \in Plans |-> IF owner[q] = r THEN plan[q] ELSE planSeen[q]]
      /\ owner' = [q \in Plans |-> IF owner[q] = r THEN Nobody ELSE owner[q]]
      /\ stepOf[r] \in Writes
      /\ chosen' = IF op[r] = "rename" THEN chosen
                   ELSE IF flag[r] THEN mine
                   ELSE IF chosen = mine THEN NoPlan ELSE chosen
      /\ outdated' = ((outdated /\ ~(op[r] # "rename" /\ flag[r])) \/ M!Strays(r))
      /\ overtaken' = [s \in Requests |-> flag[s] /\ s # r /\ (overtaken[s] \/ flag[r])]
      /\ stepOf' = [stepOf EXCEPT ![r] = "idle"] /\ op' = [op EXCEPT ![r] = "rename"]
      /\ own' = [own EXCEPT ![r] = NoPlan] /\ flag' = [flag EXCEPT ![r] = FALSE]
      /\ other' = [other EXCEPT ![r] = NoPlan]
      /\ UNCHANGED <<plan, mergeAt, needless>>
  BY DEF M!Commit, M!Publish, M!Leave, M!Goto, Writes
<1>2. mine \in Plans /\ owner[mine] = r /\ (plan[mine].active <=> flag[r])
  BY <1>1 DEF PlansInv, RequestsTyped, Uncommitted, Writes
<1>3. \A s \in Requests \ {r} : /\ stepOf'[s] = stepOf[s] /\ own'[s] = own[s] /\ flag'[s] = flag[s]
                                /\ op'[s] = op[s] /\ other'[s] = other[s]
  BY <1>1 DEF PlansInv, PlansTyped
<1>4. stepOf'[r] = "idle" /\ ~flag'[r]
  BY <1>1 DEF PlansInv, PlansTyped
<1>5. /\ planSeen'[mine] = plan[mine]
      /\ \A q \in Plans \ {mine} : /\ owner[q] = r => flag[r] /\ ~planSeen'[q].active
                                   /\ owner[q] # r => planSeen'[q] = planSeen[q]
                                   /\ flag[r] => ~planSeen'[q].active
  BY <1>1, <1>2 DEF PlansInv, Uncommitted, Alone
<1>6. PlansTyped'
  <2>1. outdated' \in BOOLEAN /\ overtaken' \in [Requests -> BOOLEAN] /\ chosen' \in Plans \cup {NoPlan}
    BY <1>1, <1>2 DEF PlansInv, PlansTyped
  <2>2. QED
    BY <1>1, <2>1 DEF PlansInv, PlansTyped, Phases
<1>7. RequestsTyped'
  BY <1>1 DEF PlansInv, PlansTyped, RequestsTyped
<1>8. Uncommitted'
  <2>1. \A q \in Plans : owner'[q] # r
    BY <1>1, AccountsAndListsAssumption
  <2>2. \A q \in Plans, s \in Requests \ {r} : owner'[q] = s <=> owner[q] = s
    BY <1>1, AccountsAndListsAssumption
  <2>3. \A q \in Plans, s \in Requests : owner'[q] = s =>
          \/ q = own'[s] /\ stepOf'[s] \in Writes
          \/ q # own'[s] /\ flag'[s] /\ ~plan[q].active /\ stepOf'[s] \in Writes \cup {"writing"}
    BY <1>3, <2>1, <2>2 DEF PlansInv, Uncommitted
  <2>4. \A s \in Requests : stepOf'[s] \in Writes =>
          owner'[own'[s]] = s /\ (plan[own'[s]].active <=> flag'[s])
    BY <1>3, <1>4, <2>2 DEF PlansInv, Uncommitted, RequestsTyped, Writes
  <2>5. \A q \in Plans : /\ owner'[q] = Nobody => plan[q] = planSeen'[q]
                         /\ owner'[q] = M!Merge => plan[q] = M!Gone
    BY <1>1, AccountsAndListsAssumption DEF PlansInv, Uncommitted
  <2>6. QED
    BY <1>1, <2>3, <2>4, <2>5 DEF Uncommitted
<1>9. Alone'
  <2>1. ASSUME NEW s \in Requests \ {r}, stepOf[s] \in Writes, flag[s], NEW q \in Plans \ {own[s]}
        PROVE  ~plan[q].active /\ (owner'[q] # s => ~planSeen'[q].active)
    <3>1. ~plan[q].active /\ (owner[q] # s => ~planSeen[q].active)
      BY <2>1 DEF PlansInv, Alone
    <3>2. QED
      BY <1>1, <3>1
  <2>2. QED
    BY <1>1, <1>3, <1>4, <2>1 DEF Alone, Writes
<1>10. Clears'
  <2>1. ASSUME NEW s \in Requests \ {r}, NEW q \in Plans, flag[s], q # own[s],
               planSeen'[q].active, ~overtaken'[s]
        PROVE  /\ stepOf[s] = "waiting" => q = other[s]
               /\ stepOf[s] = "writing" => owner'[q] = s
    <3>1. ~overtaken[s] /\ ~flag[r]
      BY <1>1, <2>1
    <3>2. planSeen[q].active /\ owner[q] # r
      BY <1>2, <1>5, <2>1, <3>1
    <3>3. QED
      BY <1>1, <2>1, <3>1, <3>2 DEF PlansInv, Clears
  <2>2. QED
    BY <1>3, <1>4, <2>1 DEF Clears
<1>11. OneActive'
  <2>1. \A q \in Plans : planSeen'[q].active => planSeen'[q].here
    BY <1>1 DEF PlansInv, OneActive
  <2>2. ASSUME NEW p \in Plans, NEW q \in Plans, planSeen'[p].active, planSeen'[q].active
        PROVE  p = q
    <3>1. CASE flag[r]
      BY <1>5, <2>2, <3>1
    <3>2. CASE ~flag[r]
      BY <1>2, <1>5, <2>2, <3>2 DEF PlansInv, OneActive
    <3>3. QED
      BY <3>1, <3>2
  <2>3. ASSUME ~outdated', NEW q \in Plans PROVE planSeen'[q].active <=> q = chosen'
    <3>1. CASE flag[r]
      <4>1. planSeen'[q].active <=> q = mine
        BY <1>2, <1>5, <3>1
      <4>2. chosen' = mine
        <5>1. CASE op[r] = "rename"
          <6>1. ~outdated /\ ~M!Strays(r)
            BY <1>1, <2>3, <5>1
          <6>2. planSeen[mine].active
            BY <3>1, <5>1, <6>1, <1>2 DEF M!Strays, PlansInv, PlansTyped, M!Rows
          <6>3. QED
            BY <1>1, <1>2, <5>1, <6>1, <6>2 DEF PlansInv, OneActive
        <5>2. CASE op[r] # "rename"
          BY <1>1, <3>1, <5>2
        <5>3. QED
          BY <5>1, <5>2
      <4>3. QED
        BY <4>1, <4>2
    <3>2. CASE ~flag[r]
      <4>1. planSeen'[q].active <=> q # mine /\ planSeen[q].active
        BY <1>2, <1>5, <3>2
      <4>2. ~outdated
        BY <1>1, <2>3, <3>2
      <4>3. planSeen[q].active <=> q = chosen
        BY <4>2 DEF PlansInv, OneActive
      <4>4. CASE op[r] = "rename"
        <5>1. ~planSeen[mine].active
          BY <1>1, <1>2, <2>3, <3>2, <4>4 DEF M!Strays, PlansInv, PlansTyped, M!Rows
        <5>2. QED
          BY <1>1, <4>1, <4>3, <4>4, <5>1
      <4>5. CASE op[r] # "rename"
        BY <1>1, <3>2, <4>1, <4>3, <4>5, AccountsAndListsAssumption
      <4>6. QED
        BY <4>4, <4>5
    <3>3. QED
      BY <3>1, <3>2
  <2>4. QED
    BY <1>1, <2>1, <2>2, <2>3 DEF PlansInv, OneActive
<1>12. QED
  BY <1>1, <1>6, <1>7, <1>8, <1>9, <1>10, <1>11 DEF PlansInv

\* The household is folded into another one, or is not.
LEMMA MergeKeeps ==
  ASSUME PlansInv,
         M!LockHousehold \/ (\E q \in Plans : M!Reassign(q)) \/ M!FinishMerge \/ M!FailMerge
  PROVE  PlansInv'
<1>1. CASE M!LockHousehold
  BY <1>1 DEF M!LockHousehold, M!tables, M!request, M!history, PlansInv, PlansTyped, RequestsTyped,
              Uncommitted, Alone, Clears, OneActive
<1>2. ASSUME NEW q \in Plans, M!Reassign(q) PROVE PlansInv'
  <2>1. /\ owner[q] = Nobody
        /\ plan' = [plan EXCEPT ![q] = M!Gone] /\ owner' = [owner EXCEPT ![q] = M!Merge]
        /\ UNCHANGED <<planSeen, stepOf, op, own, flag, other, mergeAt, chosen, outdated, overtaken,
                       needless>>
    BY <1>2 DEF M!Reassign, M!request, M!history
  <2>2. M!Gone \in M!Rows /\ ~M!Gone.active
    BY DEF M!Gone, M!Rows
  <2>3. /\ plan'[q] = M!Gone /\ owner'[q] = M!Merge
        /\ \A p \in Plans \ {q} : plan'[p] = plan[p] /\ owner'[p] = owner[p]
    BY <2>1 DEF PlansInv, PlansTyped
  <2>4. PlansTyped' /\ RequestsTyped'
    BY <2>1, <2>2 DEF PlansInv, PlansTyped, RequestsTyped, Transactions
  <2>5. Uncommitted'
    <3>1. \A p \in Plans, s \in Requests : owner'[p] = s <=> owner[p] = s
      BY <2>1, <2>3, AccountsAndListsAssumption
    <3>2. \A p \in Plans, s \in Requests : owner[p] = s => plan'[p] = plan[p]
      BY <2>1, <2>3, AccountsAndListsAssumption
    <3>3. \A p \in Plans, s \in Requests : owner'[p] = s =>
            \/ p = own[s] /\ stepOf[s] \in Writes
            \/ p # own[s] /\ flag[s] /\ ~plan'[p].active /\ stepOf[s] \in Writes \cup {"writing"}
      BY <3>1, <3>2 DEF PlansInv, Uncommitted
    <3>4. \A s \in Requests : stepOf[s] \in Writes =>
            owner'[own[s]] = s /\ (plan'[own[s]].active <=> flag[s])
      BY <3>1, <3>2 DEF PlansInv, Uncommitted, RequestsTyped, Writes
    <3>5. \A p \in Plans : /\ owner'[p] = Nobody => plan'[p] = planSeen[p]
                           /\ owner'[p] = M!Merge => plan'[p] = M!Gone
      BY <2>3, AccountsAndListsAssumption DEF PlansInv, Uncommitted
    <3>6. QED
      BY <2>1, <3>3, <3>4, <3>5 DEF Uncommitted
  <2>6. Alone'
    BY <2>1, <2>2, <2>3, AccountsAndListsAssumption DEF PlansInv, Alone
  <2>7. Clears'
    BY <2>1, <2>3, AccountsAndListsAssumption DEF PlansInv, Clears
  <2>8. OneActive'
    BY <2>1, <2>2, <2>3 DEF PlansInv, OneActive
  <2>9. QED
    BY <2>1, <2>4, <2>5, <2>6, <2>7, <2>8 DEF PlansInv
<1>3. CASE M!FinishMerge
  <2>1. /\ \A q \in Plans : planSeen[q].here => owner[q] = M!Merge
        /\ planSeen' = [q \in Plans |-> IF owner[q] = M!Merge THEN plan[q] ELSE planSeen[q]]
        /\ owner' = [q \in Plans |-> IF owner[q] = M!Merge THEN Nobody ELSE owner[q]]
        /\ mergeAt' = "done" /\ chosen' = NoPlan /\ outdated' = FALSE
        /\ UNCHANGED <<plan, stepOf, op, own, flag, other, overtaken, needless>>
    BY <1>3 DEF M!FinishMerge, M!Publish, M!request
  <2>2. \A q \in Plans : planSeen'[q].active = FALSE
    BY <2>1 DEF PlansInv, PlansTyped, Uncommitted, OneActive, M!Gone, M!Rows
  <2>3. \A q \in Plans, s \in Requests : owner'[q] = s <=> owner[q] = s
    BY <2>1, AccountsAndListsAssumption
  <2>4. PlansTyped' /\ RequestsTyped'
    BY <2>1 DEF PlansInv, PlansTyped, RequestsTyped
  <2>5. Uncommitted'
    <3>1. \A q \in Plans : /\ owner'[q] = Nobody => plan[q] = planSeen'[q]
                           /\ owner'[q] # M!Merge
      BY <2>1, AccountsAndListsAssumption DEF PlansInv, Uncommitted
    <3>2. QED
      BY <2>1, <2>3, <3>1 DEF PlansInv, Uncommitted, RequestsTyped, Writes
  <2>6. Alone' /\ Clears' /\ OneActive'
    BY <2>1, <2>2, AccountsAndListsAssumption DEF PlansInv, Alone, Clears, OneActive
  <2>7. QED
    BY <2>1, <2>4, <2>5, <2>6 DEF PlansInv
<1>4. CASE M!FailMerge
  <2>1. /\ plan' = [q \in Plans |-> IF owner[q] = M!Merge THEN planSeen[q] ELSE plan[q]]
        /\ owner' = [q \in Plans |-> IF owner[q] = M!Merge THEN Nobody ELSE owner[q]]
        /\ mergeAt' = "no"
        /\ UNCHANGED <<planSeen, stepOf, op, own, flag, other, chosen, outdated, overtaken, needless>>
    BY <1>4 DEF M!FailMerge, M!Undo, M!request, M!history
  <2>2. \A q \in Plans, s \in Requests :
          /\ owner'[q] = s <=> owner[q] = s
          /\ owner[q] = s => plan'[q] = plan[q]
    BY <2>1, AccountsAndListsAssumption
  <2>3. PlansTyped' /\ RequestsTyped'
    BY <2>1 DEF PlansInv, PlansTyped, RequestsTyped
  <2>4. Uncommitted'
    <3>1. \A q \in Plans : /\ owner'[q] = Nobody => plan'[q] = planSeen[q]
                           /\ owner'[q] # M!Merge
      BY <2>1, AccountsAndListsAssumption DEF PlansInv, Uncommitted
    <3>2. \A q \in Plans, s \in Requests : owner'[q] = s =>
            \/ q = own[s] /\ stepOf[s] \in Writes
            \/ q # own[s] /\ flag[s] /\ ~plan'[q].active /\ stepOf[s] \in Writes \cup {"writing"}
      BY <2>2 DEF PlansInv, Uncommitted
    <3>3. \A s \in Requests : stepOf[s] \in Writes =>
            owner'[own[s]] = s /\ (plan'[own[s]].active <=> flag[s])
      BY <2>2 DEF PlansInv, Uncommitted, RequestsTyped, Writes
    <3>4. QED
      BY <2>1, <3>1, <3>2, <3>3 DEF Uncommitted
  <2>5. Alone' /\ Clears' /\ OneActive'
    BY <2>1, AccountsAndListsAssumption DEF PlansInv, Alone, Clears, OneActive
  <2>6. QED
    BY <2>1, <2>3, <2>4, <2>5 DEF PlansInv
<1>5. QED
  BY <1>1, <1>2, <1>3, <1>4

LEMMA PlansStep == PlansInv /\ [AllNext]_<<part, vars, grocery, plans>> => PlansInv'
<1> SUFFICES ASSUME PlansInv, [AllNext]_<<part, vars, grocery, plans>> PROVE PlansInv'
  OBVIOUS
<1>1. CASE M!Next
  BY <1>1, BeginKeeps, LookKeeps, ClearKeeps, WritingKeeps, CommitKeeps, MergeKeeps DEF M!Next
<1>2. CASE UNCHANGED plans
  BY <1>2 DEF plans, PlansInv, PlansTyped, RequestsTyped, Uncommitted, Alone, Clears, OneActive
<1>3. QED
  BY <1>1, <1>2 DEF AllNext

\* A household has one active plan at most, the one last activated on purpose,
\* however activations, renames, deletions and a merge interleave; and only an
\* activation that another one overtook is refused
\* (meal_plan_one_active_per_household, ErrConflict).
THEOREM OneActivePlan == AllSpec => []PlansConsistent
<1>1. PlansInv => PlansConsistent
  <2> SUFFICES ASSUME PlansInv PROVE M!PlansConsistent
    BY DEF PlansConsistent
  <2> DEFINE s == M!ActiveIn(planSeen)
  <2>1. M!TypeOK /\ M!RefusedWhenOvertaken
    BY DEF PlansInv, PlansTyped, Uncommitted, OneActive, M!TypeOK, M!RefusedWhenOvertaken
  <2>2. \A p, q \in s : p = q
    BY DEF PlansInv, OneActive, M!ActiveIn
  <2>3. Cardinality(s) <= 1
    <3>1. CASE s = {}
      BY <3>1, FS_EmptySet
    <3>2. ASSUME NEW q \in s PROVE Cardinality(s) <= 1
      <4>1. s = {q}
        BY <2>2
      <4>2. QED
        BY <4>1, FS_Singleton
    <3>3. QED
      BY <3>1, <3>2
  <2>4. ~outdated => M!Only(s) = chosen
    <3>1. ASSUME ~outdated PROVE M!Only(s) = chosen
      <4>1. \A q \in Plans : q \in s <=> q = chosen
        BY <3>1 DEF PlansInv, OneActive, M!ActiveIn
      <4>2. CASE chosen \in Plans
        <5>1. s = {chosen}
          BY <4>1, <4>2 DEF M!ActiveIn
        <5>2. QED
          BY <5>1 DEF M!Only
      <4>3. CASE chosen = NoPlan
        <5>1. s = {}
          BY <4>1, <4>3, AccountsAndListsAssumption DEF M!ActiveIn
        <5>2. QED
          BY <4>3, <5>1 DEF M!Only
      <4>4. QED
        BY <4>2, <4>3 DEF PlansInv, PlansTyped
    <3>2. QED
      BY <3>1
  <2>5. M!Cardinality(s) = Cardinality(s)
    BY Zenon DEF M!Cardinality, Cardinality
  <2>6. QED
    BY <2>1, <2>3, <2>4, <2>5 DEF M!PlansConsistent, M!ActiveAsChosen, PlansInv, PlansTyped
<1>2. QED
  BY <1>1, PlansInit, PlansStep, PTL DEF AllSpec, AllInit

-----------------------------------------------------------------------------
(***************************************************************************)
(* The grocery list: a place in the check-off order, a credit and a route  *)
(* row go with each check, whatever overlaps.                              *)
(***************************************************************************)

Behind == {"toggling", "flipped", "checking"}
RowHeld == {"bound", "checking", "flipped"}
CallSteps == {"idle", "toggle", "replace", "replacing"} \cup Behind \cup RowHeld
GroceryRow == [item : G!Identities, checked : BOOLEAN, seq : Nat, generated : BOOLEAN]

LinesTyped ==
  /\ lastId \in 0..MaxLines /\ DOMAIN lines \subseteq 1..lastId
  /\ lines \in [DOMAIN lines -> GroceryRow] /\ flips \in Nat
RoutesTyped ==
  /\ learned \in [DOMAIN learned -> Nat] /\ DOMAIN learned \subseteq G!Keys
  /\ ranked \subseteq DOMAIN learned /\ \A k \in DOMAIN learned : learned[k] > 0 \/ k \in ranked
  /\ noted \in [G!Ids -> G!Keys \cup {<<>>}]
StockTyped ==
  /\ usual \in G!Identities /\ pantry \in [Items -> Nat] /\ balance \in [G!Ids -> Int]
StoresTyped == listStore \in Stores \cup {Generic} /\ stores \subseteq Stores
CallsTyped ==
  /\ step \in [Requests -> CallSteps]
  /\ line \in [Requests -> {0} \cup G!Ids] /\ brand \in [Requests -> G!Identities]
  /\ before \in [Requests -> [item : G!Identities, checked : BOOLEAN]]
  /\ place \in [Requests -> Nat] /\ doomed \in [Requests -> SUBSET G!Ids]
  /\ \A c \in Requests : step[c] \in {"bound", "checking"} => brand[c] \in Items

\* One request has the list's lock, one has a line's, and the line it has stays.
LocksHeld ==
  /\ \A c, d \in Requests : step[c] \in Behind /\ step[d] \in Behind => c = d
  /\ \A c, d \in Requests, l \in G!Ids : G!Holds(c, l) /\ G!Holds(d, l) => c = d
  /\ \A c \in Requests : step[c] \in RowHeld => line[c] \in DOMAIN lines

\* Places are used once, and one computed under the list's lock is behind all of them.
PlacesUsed ==
  \A l \in DOMAIN lines : lines[l].seq <= flips /\ (lines[l].checked <=> lines[l].seq > 0)
PlacesNew ==
  \A c \in Requests : step[c] \in {"flipped", "checking"} =>
    place[c] \in 1..(flips + 1) /\ \A l \in DOMAIN lines : lines[l].seq < place[c]

\* A line that has credited has a brand to debit, an unchecked one is in no route row,
\* and a line to come is in no books.
Booked ==
  /\ G!CreditOnce
  /\ \A l \in DOMAIN lines : balance[l] = 1 => G!CreditItem(lines[l]) # Unbranded
  /\ \A l \in DOMAIN lines : ~lines[l].checked => noted[l] = <<>>
  /\ \A l \in G!Ids : l > lastId => balance[l] = 0 /\ noted[l] = <<>>

Typed == LinesTyped /\ RoutesTyped /\ StockTyped /\ StoresTyped
ListInv ==
  /\ Typed /\ CallsTyped /\ LocksHeld /\ PlacesUsed /\ PlacesNew /\ G!SeqsDistinct
  /\ Booked /\ G!LearnedMatchesChecks

-----------------------------------------------------------------------------
(* What the operators of the grocery list do                               *)

LEMMA IdsFinite == G!Ids = 1..MaxLines /\ IsFiniteSet(G!Ids) /\ MaxLines \in Nat
BY AccountsAndListsAssumption, FS_Interval DEF G!Ids

LEMMA SameCardinality == \A s : G!Cardinality(s) = Cardinality(s)
BY Zenon DEF G!Cardinality, Cardinality

LEMMA NoKeyIsEmpty == <<>> \notin G!Keys
BY DEF G!Keys

\* A bounded set of numbers has a greatest element.
LEMMA Greatest ==
  ASSUME NEW s \in SUBSET Nat, s # {}, NEW bound \in Nat, \A x \in s : x <= bound
  PROVE  G!Max(s) \in s /\ \A x \in s : x <= G!Max(s)
<1> DEFINE t == {bound - x : x \in s}
<1>1. t \subseteq Nat /\ t # {}
  OBVIOUS
<1>2. PICK m \in t : \A y \in t : <<y, m>> \notin OpToRel(<, Nat)
  BY <1>1, NatLessThanWellFounded, WFMin
<1>3. \A y \in t : m <= y
  <2> SUFFICES ASSUME NEW y \in t, y < m PROVE FALSE
    BY <1>1
  <2>1. <<y, m>> \in Nat \X Nat /\ <<y, m>>[1] < <<y, m>>[2]
    BY <1>1
  <2>2. <<y, m>> \in OpToRel(<, Nat)
    BY <2>1 DEF OpToRel
  <2>3. QED
    BY <1>2, <2>2
<1>4. PICK g \in s : m = bound - g
  OBVIOUS
<1>5. \A x \in s : x <= g
  BY <1>3, <1>4
<1>6. \E x \in s : \A y \in s : x >= y
  BY <1>5
<1>7. QED
  BY <1>6 DEF G!Max

LEMMA MaxSeqIsLast ==
  ASSUME LinesTyped, PlacesUsed
  PROVE  G!MaxSeq \in 0..flips /\ \A l \in DOMAIN lines : lines[l].seq <= G!MaxSeq
<1> DEFINE s == {lines[l].seq : l \in DOMAIN lines} \cup {0}
<1>1. \A l \in DOMAIN lines : lines[l].seq \in Nat /\ lines[l].seq <= flips
  BY DEF LinesTyped, GroceryRow, PlacesUsed
<1>2. s \in SUBSET Nat /\ s # {} /\ flips \in Nat /\ \A x \in s : x <= flips
  BY <1>1 DEF LinesTyped
<1>3. G!Max(s) \in s /\ \A x \in s : x <= G!Max(s)
  BY <1>2, Greatest
<1>4. QED
  BY <1>2, <1>3 DEF G!MaxSeq, G!Lines

-----------------------------------------------------------------------------
(* Route rows                                                               *)

LEMMA Counted ==
  ASSUME NEW k
  PROVE  /\ IsFiniteSet({l \in G!Ids : noted[l] = k})
         /\ Cardinality({l \in G!Ids : noted[l] = k}) \in Nat
BY IdsFinite, FS_Subset, FS_CardinalityType

\* A check is noted in a route row, which counts it.
LEMMA RecordCounts ==
  ASSUME RoutesTyped, G!LearnedMatchesChecks, NEW l \in G!Ids, NEW k \in G!Keys,
         noted[l] = <<>>, G!Record(l, k)
  PROVE  RoutesTyped' /\ G!LearnedMatchesChecks' /\ noted' = [noted EXCEPT ![l] = k]
<1>1. /\ DOMAIN learned' = DOMAIN learned \cup {k}
      /\ learned'[k] = (IF k \in DOMAIN learned THEN learned[k] ELSE 0) + 1
      /\ \A j \in DOMAIN learned \ {k} : learned'[j] = learned[j]
      /\ learned' = [j \in DOMAIN learned' |-> learned'[j]]
      /\ noted' = [noted EXCEPT ![l] = k] /\ ranked' = ranked /\ strayed' = strayed
  BY DEF G!Record, G!Extended, RoutesTyped
<1>2. RoutesTyped'
  BY <1>1 DEF RoutesTyped
<1>3. G!LearnedMatchesChecks'
  <2> SUFFICES ASSUME NEW j \in G!Keys \ strayed
               PROVE  (IF j \in DOMAIN learned' THEN learned'[j] ELSE 0)
                        = Cardinality({m \in G!Ids : noted'[m] = j})
    BY <1>1, SameCardinality DEF G!LearnedMatchesChecks
  <2> DEFINE had == {m \in G!Ids : noted[m] = j}
  <2>1. (IF j \in DOMAIN learned THEN learned[j] ELSE 0) = Cardinality(had)
    BY SameCardinality DEF G!LearnedMatchesChecks
  <2>2. CASE j = k
    <3>1. {m \in G!Ids : noted'[m] = j} = had \cup {l} /\ l \notin had
      BY <1>1, <2>2, NoKeyIsEmpty DEF RoutesTyped
    <3>2. Cardinality(had \cup {l}) = Cardinality(had) + 1
      <4>1. IsFiniteSet(had)
        BY Counted
      <4>2. QED
        BY <3>1, <4>1, FS_AddElement
    <3>3. QED
      BY <1>1, <2>1, <2>2, <3>1, <3>2
  <2>3. CASE j # k
    <3>1. {m \in G!Ids : noted'[m] = j} = had
      BY <1>1, <2>3, NoKeyIsEmpty DEF RoutesTyped
    <3>2. QED
      BY <1>1, <2>1, <2>3, <3>1
  <2>4. QED
    BY <2>2, <2>3
<1>4. QED
  BY <1>1, <1>2, <1>3

\* An observation is taken back, or the rows it should have been in are strayed.
LEMMA RetractCounts ==
  ASSUME RoutesTyped, StoresTyped, G!LearnedMatchesChecks, NEW l \in G!Ids,
         NEW was, was.item \in G!Identities, was.checked \in BOOLEAN, NEW now, ~now.checked,
         G!Observe(l, was, now)
  PROVE  RoutesTyped' /\ G!LearnedMatchesChecks' /\ noted' = [noted EXCEPT ![l] = <<>>]
<1> DEFINE k == <<listStore, was.item>>
           less == IF learned[k] > 0 THEN learned[k] - 1 ELSE 0
<1>1. /\ learned' = IF was.checked THEN G!Retracted(k) ELSE learned
      /\ noted' = [noted EXCEPT ![l] = <<>>] /\ ranked' = ranked
      /\ strayed' = strayed \cup (IF was.checked /\ k = noted[l] THEN {}
                                  ELSE IF was.checked THEN {k, noted[l]} ELSE {noted[l]})
  BY DEF G!Observe, G!Remembered
<1>2. k \in G!Keys
  BY DEF StoresTyped, G!Keys
<1>3. /\ \A j \in G!Keys \ {k} : (j \in DOMAIN learned' <=> j \in DOMAIN learned)
                                 /\ (j \in DOMAIN learned => learned'[j] = learned[j])
      /\ was.checked /\ k \in DOMAIN learned =>
           IF less = 0 /\ k \notin ranked THEN k \notin DOMAIN learned'
                                          ELSE k \in DOMAIN learned' /\ learned'[k] = less
      /\ ~was.checked \/ k \notin DOMAIN learned => learned' = learned
      /\ DOMAIN learned' \subseteq DOMAIN learned
      /\ learned' = [j \in DOMAIN learned' |-> learned'[j]]
  BY <1>1 DEF G!Retracted, G!Restrict, RoutesTyped
<1>4. RoutesTyped'
  <2>1. \A j \in DOMAIN learned' : learned'[j] \in Nat /\ (learned'[j] > 0 \/ j \in ranked)
    <3> SUFFICES ASSUME NEW j \in DOMAIN learned'
                 PROVE  learned'[j] \in Nat /\ (learned'[j] > 0 \/ j \in ranked)
      OBVIOUS
    <3>1. j \in DOMAIN learned /\ learned[j] \in Nat /\ (learned[j] > 0 \/ j \in ranked)
          /\ j \in G!Keys
      BY <1>3 DEF RoutesTyped
    <3>2. CASE j = k /\ was.checked
      <4>1. learned'[j] = less /\ ~(less = 0 /\ j \notin ranked) /\ less \in Nat
        <5>1. k \in DOMAIN learned /\ was.checked /\ learned[k] \in Nat
          BY <3>1, <3>2
        <5>2. less \in Nat
          BY <5>1
        <5>3. IF less = 0 /\ k \notin ranked THEN k \notin DOMAIN learned'
              ELSE k \in DOMAIN learned' /\ learned'[k] = less
          BY <1>3, <5>1
        <5>4. QED
          BY <3>2, <5>2, <5>3
      <4> HIDE DEF less, k
      <4>2. QED
        BY <4>1
    <3>3. CASE ~(j = k /\ was.checked)
      BY <1>3, <3>1, <3>3
    <3>4. QED
      BY <3>2, <3>3
  <2>2. ranked \subseteq DOMAIN learned'
    BY <1>3 DEF RoutesTyped
  <2>3. noted' \in [G!Ids -> G!Keys \cup {<<>>}]
    BY <1>1 DEF RoutesTyped
  <2>4. QED
    BY <1>1, <1>3, <2>1, <2>2, <2>3 DEF RoutesTyped
<1>5. G!LearnedMatchesChecks'
  <2> SUFFICES ASSUME NEW j \in G!Keys \ strayed'
               PROVE  (IF j \in DOMAIN learned' THEN learned'[j] ELSE 0)
                        = Cardinality({m \in G!Ids : noted'[m] = j})
    BY SameCardinality DEF G!LearnedMatchesChecks
  <2> DEFINE had == {m \in G!Ids : noted[m] = j}
  <2>1. /\ j \in G!Keys \ strayed
        /\ (IF j \in DOMAIN learned THEN learned[j] ELSE 0) = Cardinality(had)
    BY <1>1, SameCardinality DEF G!LearnedMatchesChecks
  <2>2. CASE noted[l] = j
    <3>1. was.checked /\ j = k
      BY <1>1, <2>2
    <3>2. {m \in G!Ids : noted'[m] = j} = had \ {l} /\ l \in had
      BY <1>1, <2>2, NoKeyIsEmpty DEF RoutesTyped
    <3>3. Cardinality(had \ {l}) = Cardinality(had) - 1 /\ Cardinality(had) \in Nat
          /\ Cardinality(had \ {l}) \in Nat
      <4>1. IsFiniteSet(had) /\ IsFiniteSet(had \ {l})
        BY Counted, FS_Subset
      <4>2. Cardinality(had \ {l}) = IF l \in had THEN Cardinality(had) - 1 ELSE Cardinality(had)
        BY <4>1, FS_RemoveElement
      <4>3. QED
        BY <3>2, <4>1, <4>2, FS_CardinalityType
    <3>4. j \in DOMAIN learned /\ learned[j] = Cardinality(had) /\ learned[j] > 0
      BY <2>1, <3>3
    <3>5. QED
      BY <1>3, <3>1, <3>2, <3>3, <3>4
  <2>3. CASE noted[l] # j
    <3>1. {m \in G!Ids : noted'[m] = j} = had
      BY <1>1, <2>3, NoKeyIsEmpty DEF RoutesTyped
    <3>2. CASE was.checked
      <4>1. j # k
        BY <1>1, <2>3, <3>2
      <4>2. QED
        BY <1>3, <2>1, <3>1, <4>1
    <3>3. CASE ~was.checked
      BY <1>3, <2>1, <3>1, <3>3
    <3>4. QED
      BY <3>2, <3>3
  <2>4. QED
    BY <2>2, <2>3
<1>6. QED
  BY <1>1, <1>4, <1>5

-----------------------------------------------------------------------------
(* Requests that have not written yet                                       *)

\* What the requests' own fields keep, of a step that changes one of them.
LEMMA WaitStep ==
  ASSUME ListInv, NEW c \in Requests,
         UNCHANGED <<lines, lastId, flips, noted, learned, ranked, strayed, usual, pantry, balance,
                     listStore, stores>>,
         CallsTyped',
         \A d \in Requests \ {c} : /\ step'[d] = step[d] /\ line'[d] = line[d]
                                   /\ place'[d] = place[d] /\ doomed'[d] = doomed[d],
         step'[c] \in Behind => step[c] \in Behind \/ G!ListFree,
         \A l \in G!Ids : G!Holds(c, l)' => G!Holds(c, l) \/ G!RowFree(c, l),
         step'[c] \in RowHeld => line'[c] \in DOMAIN lines,
         step'[c] \in {"flipped", "checking"} => place'[c] = G!MaxSeq + 1
  PROVE  ListInv'
<1> USE DEF ListInv
<1>1. Typed'
  BY DEF Typed, LinesTyped, RoutesTyped, StockTyped, StoresTyped
<1>2. LocksHeld'
  <2>1. ASSUME NEW d \in Requests, NEW e \in Requests, step'[d] \in Behind, step'[e] \in Behind
        PROVE  d = e
    BY <2>1 DEF LocksHeld, G!ListFree, Behind
  <2>2. \A d \in Requests \ {c}, l \in G!Ids : G!Holds(d, l)' <=> G!Holds(d, l)
    BY DEF G!Holds
  <2>3. ASSUME NEW d \in Requests, NEW e \in Requests, NEW l \in G!Ids,
               G!Holds(d, l)', G!Holds(e, l)'
        PROVE  d = e
    BY <2>2, <2>3 DEF LocksHeld, G!RowFree
  <2>4. \A d \in Requests : step'[d] \in RowHeld => line'[d] \in DOMAIN lines'
    BY DEF LocksHeld
  <2>5. QED
    BY <2>1, <2>3, <2>4 DEF LocksHeld
<1>3. PlacesUsed' /\ G!SeqsDistinct'
  BY DEF PlacesUsed, G!SeqsDistinct, G!Lines
<1>4. PlacesNew'
  <2>1. G!MaxSeq \in 0..flips /\ \A l \in DOMAIN lines : lines[l].seq <= G!MaxSeq
    BY MaxSeqIsLast DEF Typed
  <2>2. \A l \in DOMAIN lines : lines[l].seq \in Nat
    BY DEF Typed, LinesTyped, GroceryRow
  <2>3. flips \in Nat
    BY DEF Typed, LinesTyped
  <2>4. ASSUME NEW d \in Requests, step'[d] \in {"flipped", "checking"}
        PROVE  place'[d] \in 1..(flips + 1) /\ \A l \in DOMAIN lines : lines[l].seq < place'[d]
    <3>1. CASE d = c
      BY <2>1, <2>2, <2>3, <2>4, <3>1
    <3>2. CASE d # c
      BY <2>4, <3>2 DEF PlacesNew
    <3>3. QED
      BY <3>1, <3>2
  <2>5. QED
    BY <2>4 DEF PlacesNew
<1>5. Booked' /\ G!LearnedMatchesChecks'
  <2>1. Booked'
    BY DEF Booked, G!CreditOnce, G!CreditItem, G!Lines
  <2>2. G!LearnedMatchesChecks'
    BY DEF G!LearnedMatchesChecks
  <2>3. QED
    BY <2>1, <2>2
<1>6. QED
  BY <1>1, <1>2, <1>3, <1>4, <1>5

LEMMA AnswerTyped ==
  ASSUME CallsTyped, NEW c \in Requests, G!Answer(c)
  PROVE  /\ CallsTyped' /\ step'[c] = "idle"
         /\ \A d \in Requests \ {c} : /\ step'[d] = step[d] /\ line'[d] = line[d]
                                      /\ place'[d] = place[d] /\ doomed'[d] = doomed[d]
<1>1. /\ 0 \in Nat /\ {} \in SUBSET G!Ids /\ "idle" \in CallSteps
      /\ Unbranded \in G!Identities
      /\ G!Unread \in [item : G!Identities, checked : BOOLEAN]
  BY DEF CallSteps, G!Identities, G!Unread
<1>2. QED
  BY <1>1 DEF CallsTyped, G!Answer

LEMMA Waits ==
  ASSUME ListInv, NEW c \in Requests,
         \/ \E l \in G!Ids : G!Toggle(c, l) \/ \E i \in Items : G!Bind(c, l, i)
         \/ G!LockList(c) \/ G!Flip(c) \/ G!CheckOn(c) \/ G!Regenerate(c)
         \/ G!DeleteGenerated(c) \/ G!Rollback(c)
  PROVE  ListInv'
<1> USE DEF G!vars, G!list, G!routes, G!stock, G!counters, G!history
<1>t. /\ CallsTyped /\ LinesTyped /\ LocksHeld
      /\ \A l \in DOMAIN lines : l \in G!Ids
  BY IdsFinite DEF ListInv, Typed, LinesTyped
<1>m. G!MaxSeq + 1 \in Nat
  BY MaxSeqIsLast DEF ListInv, Typed, LinesTyped
<1>1. ASSUME NEW l \in G!Ids, G!Toggle(c, l) PROVE ListInv'
  <2>1. CallsTyped'
    BY <1>t, <1>1 DEF CallsTyped, G!Toggle, G!Lines, LinesTyped, GroceryRow, CallSteps
  <2>2. /\ step'[c] = "toggle"
        /\ \A d \in Requests \ {c} : /\ step'[d] = step[d] /\ line'[d] = line[d]
                                     /\ place'[d] = place[d] /\ doomed'[d] = doomed[d]
    BY <1>t, <1>1 DEF CallsTyped, G!Toggle
  <2>3. QED
    BY <1>1, <2>1, <2>2, WaitStep DEF G!Toggle, G!Holds, Behind, RowHeld
<1>2. ASSUME NEW l \in G!Ids, NEW i \in Items, G!Bind(c, l, i) PROVE ListInv'
  <2>1. CallsTyped'
    BY <1>t, <1>2 DEF CallsTyped, G!Bind, CallSteps, RowHeld, G!Identities
  <2>2. /\ step'[c] = "bound" /\ line'[c] = l /\ l \in DOMAIN lines /\ G!RowFree(c, l)
        /\ \A d \in Requests \ {c} : /\ step'[d] = step[d] /\ line'[d] = line[d]
                                     /\ place'[d] = place[d] /\ doomed'[d] = doomed[d]
    BY <1>t, <1>2 DEF CallsTyped, G!Bind, G!Lines
  <2>3. \A m \in G!Ids : G!Holds(c, m)' => m = l
    BY <2>2 DEF G!Holds
  <2>4. QED
    BY <1>2, <2>1, <2>2, <2>3, WaitStep DEF G!Bind, Behind, RowHeld
<1>3. ASSUME G!LockList(c) PROVE ListInv'
  <2>1. CallsTyped'
    BY <1>t, <1>3 DEF CallsTyped, G!LockList, CallSteps, Behind
  <2>2. /\ step'[c] = "toggling" /\ G!ListFree
        /\ \A d \in Requests \ {c} : /\ step'[d] = step[d] /\ line'[d] = line[d]
                                     /\ place'[d] = place[d] /\ doomed'[d] = doomed[d]
    BY <1>t, <1>3 DEF CallsTyped, G!LockList
  <2>3. QED
    BY <1>3, <2>1, <2>2, WaitStep DEF G!LockList, G!Holds, Behind, RowHeld
<1>4. ASSUME G!Flip(c) PROVE ListInv'
  <2>1. CallsTyped'
    BY <1>t, <1>m, <1>4 DEF CallsTyped, G!Flip, CallSteps, Behind
  <2>2. /\ step[c] = "toggling" /\ step'[c] = "flipped" /\ place'[c] = G!MaxSeq + 1
        /\ line'[c] = line[c] /\ line[c] \in DOMAIN lines /\ G!RowFree(c, line[c])
        /\ \A d \in Requests \ {c} : /\ step'[d] = step[d] /\ line'[d] = line[d]
                                     /\ place'[d] = place[d] /\ doomed'[d] = doomed[d]
    BY <1>t, <1>4 DEF CallsTyped, G!Flip, G!Lines
  <2>3. \A m \in G!Ids : G!Holds(c, m)' => m = line[c]
    BY <2>2 DEF G!Holds
  <2>4. QED
    BY <1>4, <2>1, <2>2, <2>3, WaitStep DEF G!Flip, Behind, RowHeld
<1>5. ASSUME G!CheckOn(c) PROVE ListInv'
  <2>1. CallsTyped'
    BY <1>t, <1>m, <1>5 DEF CallsTyped, G!CheckOn, CallSteps, Behind
  <2>2. /\ step[c] = "bound" /\ step'[c] = "checking" /\ place'[c] = G!MaxSeq + 1
        /\ line'[c] = line[c] /\ G!ListFree
        /\ \A d \in Requests \ {c} : /\ step'[d] = step[d] /\ line'[d] = line[d]
                                     /\ place'[d] = place[d] /\ doomed'[d] = doomed[d]
    BY <1>t, <1>5 DEF CallsTyped, G!CheckOn
  <2>3. \A m \in G!Ids : G!Holds(c, m)' => G!Holds(c, m)
    BY <2>2 DEF G!Holds
  <2>4. line[c] \in DOMAIN lines
    BY <1>t, <2>2 DEF LocksHeld, RowHeld
  <2>5. QED
    BY <1>5, <2>1, <2>2, <2>3, <2>4, WaitStep DEF G!CheckOn
<1>6. ASSUME G!Regenerate(c) PROVE ListInv'
  <2>1. CallsTyped'
    BY <1>t, <1>6 DEF CallsTyped, G!Regenerate, CallSteps, G!Generated, G!Lines
  <2>2. /\ step'[c] = "replace"
        /\ \A d \in Requests \ {c} : /\ step'[d] = step[d] /\ line'[d] = line[d]
                                     /\ place'[d] = place[d] /\ doomed'[d] = doomed[d]
    BY <1>t, <1>6 DEF CallsTyped, G!Regenerate
  <2>3. QED
    BY <1>6, <2>1, <2>2, WaitStep DEF G!Regenerate, G!Holds, Behind, RowHeld
<1>7. ASSUME G!DeleteGenerated(c) PROVE ListInv'
  <2>1. CallsTyped'
    BY <1>t, <1>7 DEF CallsTyped, G!DeleteGenerated, CallSteps
  <2>2. /\ step'[c] = "replacing" /\ doomed'[c] = doomed[c]
        /\ \A l \in doomed[c] : G!RowFree(c, l)
        /\ \A d \in Requests \ {c} : /\ step'[d] = step[d] /\ line'[d] = line[d]
                                     /\ place'[d] = place[d] /\ doomed'[d] = doomed[d]
    BY <1>t, <1>7 DEF CallsTyped, G!DeleteGenerated
  <2>3. \A m \in G!Ids : G!Holds(c, m)' => m \in doomed[c]
    BY <2>2 DEF G!Holds
  <2>4. QED
    BY <1>7, <2>1, <2>2, <2>3, WaitStep DEF G!DeleteGenerated, Behind, RowHeld
<1>8. ASSUME G!Rollback(c) PROVE ListInv'
  <2>1. /\ CallsTyped' /\ step'[c] = "idle"
        /\ \A d \in Requests \ {c} : /\ step'[d] = step[d] /\ line'[d] = line[d]
                                     /\ place'[d] = place[d] /\ doomed'[d] = doomed[d]
    BY <1>t, <1>8, AnswerTyped DEF G!Rollback
  <2>2. QED
    BY <1>8, <2>1, WaitStep DEF G!Rollback, G!Holds, Behind, RowHeld
<1>9. QED
  BY <1>1, <1>2, <1>3, <1>4, <1>5, <1>6, <1>7, <1>8

-----------------------------------------------------------------------------
(* Commits of a check                                                       *)

\* The writer of a line has the list's lock and the line's: nobody else's place or
\* line is touched, and its own place is behind the others.
LEMMA CommitStep ==
  ASSUME ListInv, NEW c \in Requests, step[c] \in {"flipped", "checking"}, G!Answer(c),
         NEW l, l = line[c], NEW now \in GroceryRow, lines' = [lines EXCEPT ![l] = now],
         \/ flips' = flips /\ now.seq = lines[l].seq
         \/ flips' = flips + 1 /\ now.seq \in {0, place[c]},
         now.checked <=> now.seq > 0,
         usual' \in G!Identities, usual # Unbranded => usual' # Unbranded,
         pantry' \in [Items -> Nat],
         balance' \in [G!Ids -> Int], \A m \in G!Ids \ {l} : balance'[m] = balance[m],
         balance'[l] <= IF now.checked THEN 1 ELSE 0,
         balance'[l] = 1 => now.item # Unbranded \/ usual' # Unbranded,
         RoutesTyped', G!LearnedMatchesChecks', \A m \in G!Ids \ {l} : noted'[m] = noted[m],
         ~now.checked => noted'[l] = <<>>,
         UNCHANGED <<lastId, listStore, stores>>
  PROVE  ListInv'
<1> USE DEF ListInv
<1>1. /\ l \in DOMAIN lines /\ l \in G!Ids /\ DOMAIN lines' = DOMAIN lines
      /\ DOMAIN lines \subseteq G!Ids /\ l <= lastId
      /\ lines'[l] = now /\ \A m \in DOMAIN lines \ {l} : lines'[m] = lines[m]
      /\ lines' \in [DOMAIN lines -> GroceryRow]
  BY IdsFinite DEF LocksHeld, RowHeld, Typed, LinesTyped
<1>2. flips \in Nat /\ place[c] \in 1..(flips + 1)
      /\ \A m \in DOMAIN lines : lines[m].seq \in Nat /\ lines[m].seq < place[c]
                                 /\ lines[m].seq <= flips
  BY DEF Typed, LinesTyped, GroceryRow, PlacesNew, PlacesUsed
<1>3. Typed'
  <2>1. LinesTyped'
    BY <1>1, <1>2 DEF Typed, LinesTyped
  <2>2. StockTyped' /\ StoresTyped'
    BY DEF Typed, StockTyped, StoresTyped
  <2>3. QED
    BY <2>1, <2>2 DEF Typed
<1>4. /\ CallsTyped' /\ step'[c] = "idle"
      /\ \A d \in Requests \ {c} : /\ step'[d] = step[d] /\ line'[d] = line[d]
                                   /\ place'[d] = place[d] /\ doomed'[d] = doomed[d]
  BY AnswerTyped
<1>5. LocksHeld'
  <2>1. \A d \in Requests : step'[d] \in Behind \cup RowHeld => d # c
    BY <1>4 DEF Behind, RowHeld
  <2>2. \A d \in Requests, m \in G!Ids : G!Holds(d, m)' => d # c /\ G!Holds(d, m)
    BY <1>4 DEF G!Holds
  <2>3. QED
    BY <1>1, <1>4, <2>1, <2>2 DEF LocksHeld
<1>6. PlacesUsed'
  <2> SUFFICES ASSUME NEW m \in DOMAIN lines
               PROVE  lines'[m].seq <= flips' /\ (lines'[m].checked <=> lines'[m].seq > 0)
    BY <1>1 DEF PlacesUsed
  <2>1. CASE m = l
    BY <1>1, <1>2, <2>1
  <2>2. CASE m # l
    BY <1>1, <1>2, <2>2 DEF PlacesUsed
  <2>3. QED
    BY <2>1, <2>2
<1>7. PlacesNew'
  <2> SUFFICES ASSUME NEW d \in Requests, step'[d] \in {"flipped", "checking"} PROVE FALSE
    BY DEF PlacesNew
  <2>1. d # c /\ step[d] \in Behind /\ step[c] \in Behind
    BY <1>4 DEF Behind
  <2>2. QED
    BY <2>1 DEF LocksHeld
<1>8. G!SeqsDistinct'
  <2> SUFFICES ASSUME NEW m \in DOMAIN lines, NEW n \in DOMAIN lines, lines'[m].checked,
                      lines'[m].seq = lines'[n].seq
               PROVE  m = n
    BY <1>1 DEF G!SeqsDistinct, G!Lines
  <2>1. \A p \in DOMAIN lines \ {l} : /\ lines'[p] = lines[p] /\ lines[p].seq < place[c]
                                      /\ lines[p].seq \in Nat
                                      /\ (lines[p].checked <=> lines[p].seq > 0)
    BY <1>1, <1>2 DEF PlacesUsed
  <2>2. CASE m # l /\ n # l
    BY <2>1, <2>2 DEF G!SeqsDistinct, G!Lines
  <2>3. CASE flips' = flips /\ now.seq = lines[l].seq
    <3>1. lines[m].seq = lines[n].seq /\ lines[m].checked
      BY <1>1, <2>1, <2>3 DEF PlacesUsed
    <3>2. QED
      BY <3>1 DEF G!SeqsDistinct, G!Lines
  <2>4. CASE now.seq \in {0, place[c]}
    BY <1>1, <1>2, <2>1, <2>2, <2>4
  <2>5. QED
    BY <2>3, <2>4
<1>9. Booked'
  <2>1. G!CreditOnce'
    BY <1>1 DEF G!CreditOnce, G!Lines, Booked
  <2>2. ASSUME NEW m \in DOMAIN lines, balance'[m] = 1 PROVE G!CreditItem(lines[m])' # Unbranded
    <3>1. CASE m = l
      BY <1>1, <2>2, <3>1 DEF G!CreditItem
    <3>2. CASE m # l
      BY <1>1, <2>2, <3>2 DEF G!CreditItem, Booked
    <3>3. QED
      BY <3>1, <3>2
  <2>3. \A m \in DOMAIN lines : ~lines'[m].checked => noted'[m] = <<>>
    BY <1>1 DEF Booked
  <2>4. \A m \in G!Ids : m > lastId => balance'[m] = 0 /\ noted'[m] = <<>>
    <3>1. lastId \in Nat /\ l \in Nat /\ \A m \in G!Ids : m \in Nat
      BY <1>1, IdsFinite DEF Typed, LinesTyped
    <3>2. \A m \in G!Ids : m > lastId => m # l
      BY <1>1, <3>1
    <3>3. QED
      BY <3>2 DEF Booked
  <2>5. QED
    BY <1>1, <2>1, <2>2, <2>3, <2>4 DEF Booked
<1>10. QED
  BY <1>3, <1>4, <1>5, <1>6, <1>7, <1>8, <1>9

LEMMA Observed ==
  ASSUME ListInv, NEW l \in DOMAIN lines, NEW was, was.item \in G!Identities,
         was.checked \in BOOLEAN, NEW now \in GroceryRow,
         lines[l].checked # now.checked, G!Observe(l, was, now)
  PROVE  /\ RoutesTyped' /\ G!LearnedMatchesChecks'
         /\ \A m \in G!Ids \ {l} : noted'[m] = noted[m]
         /\ ~now.checked => noted'[l] = <<>>
<1>1. l \in G!Ids /\ RoutesTyped /\ StoresTyped /\ G!LearnedMatchesChecks
      /\ noted \in [G!Ids -> G!Keys \cup {<<>>}]
      /\ lines[l].checked \in BOOLEAN /\ now.checked \in BOOLEAN /\ now.item \in G!Identities
  BY IdsFinite DEF ListInv, Typed, LinesTyped, RoutesTyped, GroceryRow
<1>2. CASE now.checked
  <2>1. noted[l] = <<>>
    BY <1>1, <1>2 DEF ListInv, Booked
  <2>2. <<listStore, now.item>> \in G!Keys
    BY <1>1 DEF StoresTyped, G!Keys
  <2>3. G!Record(l, <<listStore, now.item>>)
    BY <1>2 DEF G!Observe
  <2>4. QED
    BY <1>1, <1>2, <2>1, <2>2, <2>3, RecordCounts
<1>3. CASE ~now.checked
  BY <1>1, <1>3, RetractCounts
<1>4. QED
  BY <1>2, <1>3

LEMMA Adjusted ==
  ASSUME pantry \in [Items -> Nat], NEW i \in Items, NEW delta \in {-1, 1}, G!Adjust(i, delta)
  PROVE  pantry' \in [Items -> Nat]
BY DEF G!Adjust

LEMMA Toggled ==
  ASSUME ListInv, NEW c \in Requests, G!CommitToggle(c)
  PROVE  ListInv'
<1> DEFINE l == line[c]
           now == G!Flipped(lines[l], place[c])
           credit == G!CreditItem(now)
           delta == IF now.checked THEN 1 ELSE -1
<1>1. /\ step[c] = "flipped" /\ lines' = [lines EXCEPT ![l] = now]
      /\ IF credit = Unbranded THEN UNCHANGED <<pantry, ledger, balance>>
         ELSE G!Adjust(credit, delta) /\ G!Book(l, credit, delta)
      /\ G!Observe(l, before[c], now) /\ flips' = flips + 1 /\ G!Answer(c)
      /\ UNCHANGED <<lastId, listStore, stores, usual>>
  BY DEF G!CommitToggle
<1>2. /\ l \in DOMAIN lines /\ l \in G!Ids /\ lines[l] \in GroceryRow /\ place[c] \in Nat
      /\ before[c].item \in G!Identities /\ before[c].checked \in BOOLEAN
      /\ usual \in G!Identities /\ pantry \in [Items -> Nat] /\ balance \in [G!Ids -> Int]
      /\ place[c] > 0
  BY <1>1, IdsFinite DEF ListInv, LocksHeld, RowHeld, Typed, LinesTyped, StockTyped, CallsTyped,
                         PlacesNew
<1>3. /\ now \in GroceryRow /\ (now.checked <=> ~lines[l].checked) /\ now.item = lines[l].item
      /\ now.seq \in {0, place[c]} /\ (now.checked <=> now.seq > 0)
  <2>1. /\ lines[l] \in GroceryRow /\ place[c] \in Nat
        /\ now = [lines[l] EXCEPT !.checked = ~lines[l].checked,
                                 !.seq = IF lines[l].checked THEN 0 ELSE place[c]]
    BY <1>2 DEF G!Flipped
  <2> HIDE DEF now
  <2>2. now.seq = IF lines[l].checked THEN 0 ELSE place[c]
    BY <2>1 DEF GroceryRow
  <2>3. now \in GroceryRow /\ now.item = lines[l].item /\ (now.checked <=> ~lines[l].checked)
    BY <2>1 DEF GroceryRow
  <2>4. QED
    BY <1>2, <2>2, <2>3
<1>4. /\ RoutesTyped' /\ G!LearnedMatchesChecks' /\ (~now.checked => noted'[l] = <<>>)
      /\ \A m \in G!Ids \ {l} : noted'[m] = noted[m]
  <2>1. lines[l].checked # now.checked
    BY <1>2, <1>3 DEF GroceryRow
  <2> HIDE DEF now
  <2>2. QED
    BY <1>1, <1>2, <1>3, <2>1, Observed
<1>5. /\ balance[l] <= IF lines[l].checked THEN 1 ELSE 0
      /\ balance[l] = 1 => lines[l].item # Unbranded \/ usual # Unbranded
      /\ balance[l] \in Int
  BY <1>2 DEF ListInv, Booked, G!CreditOnce, G!Lines, G!CreditItem
<1>6. credit = IF lines[l].item # Unbranded THEN lines[l].item ELSE usual
  BY <1>3 DEF G!CreditItem
<1>7. lines[l].item \in G!Identities /\ lines[l].checked \in BOOLEAN /\ now.checked \in BOOLEAN
  BY <1>2, <1>3 DEF GroceryRow
<1>8. /\ pantry' \in [Items -> Nat] /\ balance' \in [G!Ids -> Int]
      /\ \A m \in G!Ids \ {l} : balance'[m] = balance[m]
      /\ balance'[l] <= IF now.checked THEN 1 ELSE 0
      /\ balance'[l] = 1 => now.item # Unbranded \/ usual # Unbranded
  <2> HIDE DEF now, credit
  <2>1. CASE credit = Unbranded
    <3>1. balance' = balance /\ pantry' = pantry /\ balance[l] # 1
      BY <1>1, <1>5, <1>6, <2>1
    <3>2. balance[l] <= IF now.checked THEN 1 ELSE 0
      BY <1>3, <1>5, <1>7, <3>1
    <3>3. QED
      BY <1>2, <3>1, <3>2
  <2>2. CASE credit # Unbranded
    <3>1. credit \in Items
      BY <1>2, <1>6, <1>7, <2>2 DEF G!Identities
    <3>2. delta \in {-1, 1} /\ balance' = [balance EXCEPT ![l] = @ + delta]
          /\ G!Adjust(credit, delta)
      BY <1>1, <2>2 DEF G!Book
    <3>3. pantry' \in [Items -> Nat]
      BY <1>2, <3>1, <3>2, Adjusted
    <3>4. balance'[l] = balance[l] + delta /\ balance' \in [G!Ids -> Int]
          /\ \A m \in G!Ids \ {l} : balance'[m] = balance[m]
      BY <1>2, <3>2
    <3>5. balance'[l] <= IF now.checked THEN 1 ELSE 0
      <4>1. CASE now.checked
        BY <1>3, <1>5, <3>4, <4>1
      <4>2. CASE ~now.checked
        BY <1>3, <1>5, <3>4, <4>2
      <4>3. QED
        BY <4>1, <4>2
    <3>6. now.item # Unbranded \/ usual # Unbranded
      BY <1>3, <1>6, <2>2
    <3>7. QED
      BY <3>3, <3>4, <3>5, <3>6
  <2>3. QED
    BY <2>1, <2>2
<1> HIDE DEF now, l
<1>9. l = line[c]
  BY DEF l
<1>10. QED
  BY <1>1, <1>2, <1>3, <1>4, <1>8, <1>9, CommitStep

LEMMA Checked ==
  ASSUME ListInv, NEW c \in Requests, G!CommitCheck(c)
  PROVE  ListInv'
<1> DEFINE l == line[c]
           bound == [lines[l] EXCEPT !.item = brand[c]]
           now == IF bound.checked THEN bound ELSE G!Flipped(bound, place[c])
<1>1. /\ step[c] = "checking" /\ lines' = [lines EXCEPT ![l] = now]
      /\ IF ~bound.checked
         THEN /\ G!Adjust(brand[c], 1) /\ G!Book(l, brand[c], 1)
              /\ G!Observe(l, bound, now) /\ flips' = flips + 1
         ELSE UNCHANGED <<pantry, learned, ranked, flips, ledger, balance, noted, strayed>>
      /\ usual' = brand[c] /\ G!Answer(c)
      /\ UNCHANGED <<lastId, listStore, stores>>
  BY DEF G!CommitCheck, G!Transitioned, G!routes, G!history
<1>2. /\ l \in DOMAIN lines /\ l \in G!Ids /\ lines[l] \in GroceryRow /\ place[c] \in Nat
      /\ brand[c] \in Items /\ brand[c] \in G!Identities /\ brand[c] # Unbranded
      /\ pantry \in [Items -> Nat] /\ balance \in [G!Ids -> Int]
      /\ place[c] > 0 /\ RoutesTyped /\ G!LearnedMatchesChecks
  BY <1>1, IdsFinite, AccountsAndListsAssumption
     DEF ListInv, LocksHeld, RowHeld, Typed, LinesTyped, StockTyped, CallsTyped, PlacesNew,
         G!Identities
<1>3. /\ bound \in GroceryRow /\ bound.checked = lines[l].checked /\ bound.item = brand[c]
      /\ bound.seq = lines[l].seq /\ bound.checked \in BOOLEAN
      /\ (lines[l].checked <=> lines[l].seq > 0)
  BY <1>2 DEF GroceryRow, ListInv, PlacesUsed
<1>4. /\ now \in GroceryRow /\ now.checked /\ now.item = brand[c] /\ now.seq > 0
      /\ IF bound.checked THEN now.seq = lines[l].seq ELSE now.seq = place[c]
  BY <1>2, <1>3 DEF G!Flipped, GroceryRow
<1>5. /\ balance[l] <= IF lines[l].checked THEN 1 ELSE 0
      /\ balance[l] \in Int
  BY <1>2 DEF ListInv, Booked, G!CreditOnce, G!Lines
<1>6. CASE bound.checked
  <2> HIDE DEF now, bound, l
  <2>1. /\ RoutesTyped' /\ G!LearnedMatchesChecks' /\ balance' = balance /\ pantry' = pantry
        /\ noted' = noted /\ flips' = flips
    BY <1>1, <1>2, <1>6 DEF RoutesTyped, G!LearnedMatchesChecks
  <2>2. l = line[c]
    BY DEF l
  <2>3. balance'[l] <= IF now.checked THEN 1 ELSE 0
    BY <1>3, <1>4, <1>5, <1>6, <2>1
  <2>4. QED
    BY <1>1, <1>2, <1>4, <1>6, <2>1, <2>2, <2>3, CommitStep
<1>7. CASE ~bound.checked
  <2> HIDE DEF now, bound, l
  <2>1. /\ RoutesTyped' /\ G!LearnedMatchesChecks'
        /\ \A m \in G!Ids \ {l} : noted'[m] = noted[m]
    <3>1. bound.item \in G!Identities /\ lines[l].checked # now.checked
      BY <1>2, <1>3, <1>4, <1>7
    <3>2. G!Observe(l, bound, now)
      BY <1>1, <1>7
    <3>3. QED
      BY <1>2, <1>3, <1>4, <3>1, <3>2, Observed
  <2>2. /\ G!Adjust(brand[c], 1) /\ balance' = [balance EXCEPT ![l] = @ + 1] /\ flips' = flips + 1
    BY <1>1, <1>7 DEF G!Book
  <2>3. pantry' \in [Items -> Nat]
    BY <1>2, <2>2, Adjusted
  <2>4. /\ balance' \in [G!Ids -> Int] /\ \A m \in G!Ids \ {l} : balance'[m] = balance[m]
        /\ balance'[l] <= 1
    BY <1>2, <1>3, <1>5, <1>7, <2>2
  <2>5. l = line[c]
    BY DEF l
  <2>6. QED
    BY <1>1, <1>2, <1>4, <1>7, <2>1, <2>2, <2>3, <2>4, <2>5, CommitStep
<1>8. QED
  BY <1>3, <1>6, <1>7

-----------------------------------------------------------------------------
(* Lines that come and go, and the stores' rows                             *)

\* Lines are added with nothing booked, and lines nobody holds go.
LEMMA LinesStep ==
  ASSUME ListInv, NEW kept \in SUBSET DOMAIN lines, NEW fresh \in SUBSET {lastId + 1},
         lines' = G!Extended(G!Restrict(lines, kept), fresh, G!NewLine(TRUE))
           \/ lines' = G!Extended(G!Restrict(lines, kept), fresh, G!NewLine(FALSE)),
         lastId' = IF fresh = {} THEN lastId ELSE lastId + 1, lastId' <= MaxLines,
         NEW c, CallsTyped',
         \A d \in Requests \ {c} : /\ step'[d] = step[d] /\ line'[d] = line[d]
                                   /\ place'[d] = place[d] /\ doomed'[d] = doomed[d],
         c \in Requests => step'[c] = "idle",
         \A d \in Requests \ {c} : step[d] \in RowHeld => line[d] \in kept,
         UNCHANGED <<flips, noted, learned, ranked, strayed, usual, pantry, balance,
                     listStore, stores>>
  PROVE  ListInv'
<1> USE DEF ListInv
<1>1. lastId \in Nat /\ lastId' \in Nat /\ lastId <= lastId' /\ DOMAIN lines \subseteq 1..lastId
      /\ MaxLines \in Nat
  BY IdsFinite DEF Typed, LinesTyped
<1>2. PICK new \in {G!NewLine(TRUE), G!NewLine(FALSE)} :
        lines' = [x \in kept \cup fresh |-> IF x \in kept THEN lines[x] ELSE new]
  <2>1. ASSUME NEW n
        PROVE  G!Extended(G!Restrict(lines, kept), fresh, n)
                 = [x \in kept \cup fresh |-> IF x \in kept THEN lines[x] ELSE n]
    BY DEF G!Extended, G!Restrict
  <2>2. QED
    BY <2>1
<1>3. new \in GroceryRow /\ ~new.checked /\ new.seq = 0
  <2>1. ASSUME NEW g \in BOOLEAN
        PROVE  /\ G!NewLine(g) \in GroceryRow
               /\ ~G!NewLine(g).checked /\ G!NewLine(g).seq = 0
    BY DEF G!NewLine, GroceryRow, G!Identities
  <2>2. QED
    BY <2>1
<1>4. /\ DOMAIN lines' = kept \cup fresh
      /\ \A x \in kept : x \in DOMAIN lines /\ x \in DOMAIN lines' /\ lines'[x] = lines[x]
                         /\ lines[x] \in GroceryRow
      /\ \A x \in fresh \ kept : lines'[x] = new /\ x = lastId + 1 /\ x = lastId' /\ x \in G!Ids
      /\ DOMAIN lines' \subseteq 1..lastId'
      /\ \A x \in DOMAIN lines' : x \in kept \/ x \in fresh \ kept
  BY <1>1, <1>2, IdsFinite DEF Typed, LinesTyped
<1>5. Typed'
  <2>1. LinesTyped'
    BY <1>1, <1>2, <1>3, <1>4 DEF Typed, LinesTyped
  <2>2. RoutesTyped' /\ StockTyped' /\ StoresTyped'
    BY DEF Typed, RoutesTyped, StockTyped, StoresTyped
  <2>3. QED
    BY <2>1, <2>2 DEF Typed
<1>6. LocksHeld'
  <2>1. \A d \in Requests : step'[d] \in Behind \cup RowHeld =>
          d # c /\ step'[d] = step[d] /\ line'[d] = line[d]
    BY DEF Behind, RowHeld
  <2>2. \A d \in Requests, m \in G!Ids : G!Holds(d, m)' => G!Holds(d, m)
    BY DEF G!Holds
  <2>3. \A d \in Requests : step'[d] \in RowHeld => line'[d] \in DOMAIN lines'
    BY <1>4, <2>1
  <2>4. QED
    BY <2>1, <2>2, <2>3 DEF LocksHeld
<1>7. PlacesUsed' /\ PlacesNew' /\ G!SeqsDistinct'
  <2>1. PlacesUsed'
    BY <1>3, <1>4 DEF PlacesUsed, Typed, LinesTyped
  <2>2. PlacesNew'
    <3> SUFFICES ASSUME NEW d \in Requests, step'[d] \in {"flipped", "checking"}
                 PROVE  place'[d] \in 1..(flips + 1)
                        /\ \A x \in DOMAIN lines' : lines'[x].seq < place'[d]
      BY DEF PlacesNew
    <3>1. d # c /\ step[d] = step'[d] /\ place'[d] = place[d]
      OBVIOUS
    <3>2. place[d] \in 1..(flips + 1) /\ \A x \in DOMAIN lines : lines[x].seq < place[d]
      BY <3>1 DEF PlacesNew
    <3>3. flips \in Nat
      BY DEF Typed, LinesTyped
    <3>4. QED
      BY <1>3, <1>4, <3>1, <3>2, <3>3
  <2>3. G!SeqsDistinct'
    <3> SUFFICES ASSUME NEW m \in DOMAIN lines', NEW n \in DOMAIN lines', lines'[m].checked,
                        lines'[m].seq = lines'[n].seq
                 PROVE  m = n
      BY DEF G!SeqsDistinct, G!Lines
    <3>1. m \in kept /\ lines[m].checked /\ lines[m].seq > 0
      BY <1>3, <1>4 DEF PlacesUsed
    <3>2. n \in kept
      BY <1>3, <1>4, <3>1
    <3>3. QED
      BY <1>4, <3>1, <3>2 DEF G!SeqsDistinct, G!Lines
  <2>4. QED
    BY <2>1, <2>2, <2>3
<1>8. Booked'
  <2>1. \A x \in fresh \ kept : balance[x] = 0 /\ noted[x] = <<>>
    BY <1>1, <1>4 DEF Booked
  <2>2. G!CreditOnce'
    <3> SUFFICES ASSUME NEW x \in DOMAIN lines'
                 PROVE  balance[x] <= IF lines'[x].checked THEN 1 ELSE 0
      BY DEF G!CreditOnce, G!Lines
    <3>1. CASE x \in kept
      BY <1>4, <3>1 DEF Booked, G!CreditOnce, G!Lines
    <3>2. CASE x \in fresh \ kept
      BY <1>3, <1>4, <2>1, <3>2
    <3>3. QED
      BY <1>4, <3>1, <3>2
  <2>3. \A x \in DOMAIN lines' : balance[x] = 1 => G!CreditItem(lines[x])' # Unbranded
    BY <1>4, <2>1 DEF Booked, G!CreditItem
  <2>4. \A x \in DOMAIN lines' : ~lines'[x].checked => noted[x] = <<>>
    BY <1>4, <2>1 DEF Booked
  <2>5. \A x \in G!Ids : x > lastId' => balance[x] = 0 /\ noted[x] = <<>>
    BY <1>1, IdsFinite DEF Booked
  <2>6. QED
    BY <2>2, <2>3, <2>4, <2>5 DEF Booked
<1>9. G!LearnedMatchesChecks'
  BY DEF G!LearnedMatchesChecks
<1>10. QED
  BY <1>5, <1>6, <1>7, <1>8, <1>9

\* A step that leaves the lines and the requests alone.
LEMMA RoutesStep ==
  ASSUME ListInv, RoutesTyped', StoresTyped', G!LearnedMatchesChecks',
         UNCHANGED <<lines, lastId, flips, noted, usual, pantry, balance,
                     step, line, brand, before, place, doomed>>
  PROVE  ListInv'
<1> USE DEF ListInv
<1>1. Typed' /\ CallsTyped'
  BY DEF Typed, LinesTyped, StockTyped, CallsTyped
<1>2. LocksHeld' /\ PlacesUsed' /\ PlacesNew'
  BY DEF LocksHeld, PlacesUsed, PlacesNew, G!Holds
<1>3. G!SeqsDistinct' /\ Booked'
  BY DEF G!SeqsDistinct, Booked, G!CreditOnce, G!CreditItem, G!Lines
<1>4. QED
  BY <1>1, <1>2, <1>3

LEMMA Replaced ==
  ASSUME ListInv, NEW c \in Requests, G!Replace(c)
  PROVE  ListInv'
<1> DEFINE kept == DOMAIN lines \ doomed[c]
<1>1. /\ step[c] = "replacing" /\ G!Answer(c)
      /\ \/ lines' = G!Restrict(lines, kept) /\ UNCHANGED lastId
         \/ /\ lastId < MaxLines /\ lastId' = lastId + 1
            /\ lines' = G!Extended(G!Restrict(lines, kept), {lastId + 1}, G!NewLine(TRUE))
      /\ UNCHANGED <<flips, noted, learned, ranked, strayed, usual, pantry, balance,
                     listStore, stores>>
  BY DEF G!Replace, G!Lines, G!routes, G!stock, G!counters, G!history
<1>2. /\ CallsTyped' /\ step'[c] = "idle"
      /\ \A d \in Requests \ {c} : /\ step'[d] = step[d] /\ line'[d] = line[d]
                                   /\ place'[d] = place[d] /\ doomed'[d] = doomed[d]
  BY <1>1, AnswerTyped DEF ListInv
<1>3. \A d \in Requests \ {c} : step[d] \in RowHeld => line[d] \in kept
  <2> SUFFICES ASSUME NEW d \in Requests \ {c}, step[d] \in RowHeld, line[d] \in doomed[c]
               PROVE  FALSE
    BY DEF ListInv, LocksHeld
  <2>1. line[d] \in G!Ids
    BY DEF ListInv, CallsTyped
  <2>2. G!Holds(d, line[d]) /\ G!Holds(c, line[d])
    BY <1>1 DEF G!Holds, RowHeld
  <2>3. QED
    BY <2>1, <2>2 DEF ListInv, LocksHeld
<1>4. lastId \in 0..MaxLines /\ MaxLines \in Nat
  BY IdsFinite DEF ListInv, Typed, LinesTyped
<1>5. CASE lines' = G!Restrict(lines, kept) /\ UNCHANGED lastId
  <2>1. lines' = G!Extended(G!Restrict(lines, kept), {}, G!NewLine(TRUE))
    BY <1>5 DEF G!Extended, G!Restrict
  <2> HIDE DEF kept
  <2>2. kept \in SUBSET DOMAIN lines
    BY DEF kept
  <2>3. {} \in SUBSET {lastId + 1} /\ lastId' <= MaxLines
        /\ lastId' = IF {} = {} THEN lastId ELSE lastId + 1
    BY <1>4, <1>5
  <2>4. QED
    BY <1>1, <1>2, <1>3, <2>1, <2>2, <2>3, LinesStep
<1>6. CASE /\ lastId < MaxLines /\ lastId' = lastId + 1
           /\ lines' = G!Extended(G!Restrict(lines, kept), {lastId + 1}, G!NewLine(TRUE))
  <2> HIDE DEF kept
  <2>2. kept \in SUBSET DOMAIN lines
    BY DEF kept
  <2>3. {lastId + 1} \in SUBSET {lastId + 1} /\ lastId' <= MaxLines
        /\ lastId' = IF {lastId + 1} = {} THEN lastId ELSE lastId + 1
    BY <1>4, <1>6
  <2>4. QED
    BY <1>1, <1>2, <1>3, <1>6, <2>2, <2>3, LinesStep
<1>7. QED
  BY <1>1, <1>5, <1>6

LEMMA Edited ==
  ASSUME ListInv, G!AddLine \/ \E l \in G!Ids : G!DeleteLine(l)
  PROVE  ListInv'
<1> USE DEF G!list, G!routes, G!stock, G!request, G!history
<1>1. Nobody \notin Requests /\ lastId \in 0..MaxLines /\ MaxLines \in Nat
  BY AccountsAndListsAssumption, IdsFinite DEF ListInv, Typed, LinesTyped
<1>2. /\ UNCHANGED <<flips, noted, learned, ranked, strayed, usual, pantry, balance,
                     listStore, stores>>
      /\ UNCHANGED <<step, line, brand, before, place, doomed>>
  BY DEF G!AddLine, G!DeleteLine
<1>3. CallsTyped'
  BY <1>2 DEF ListInv, CallsTyped
<1>4. \A d \in Requests \ {Nobody} : /\ step'[d] = step[d] /\ line'[d] = line[d]
                                     /\ place'[d] = place[d] /\ doomed'[d] = doomed[d]
  BY <1>2
<1>5. \A d \in Requests : step[d] \in RowHeld => line[d] \in DOMAIN lines /\ line[d] \in G!Ids
  BY IdsFinite DEF ListInv, LocksHeld, CallsTyped, Typed, LinesTyped
<1>6. CASE G!AddLine
  <2>1. lines' = G!Extended(lines, {lastId + 1}, G!NewLine(FALSE))
        /\ lastId' = lastId + 1 /\ lastId < MaxLines
    BY <1>6 DEF G!AddLine
  <2>2. G!Restrict(lines, DOMAIN lines) = lines
    BY DEF G!Restrict, ListInv, Typed, LinesTyped
  <2>3. DOMAIN lines \in SUBSET DOMAIN lines /\ {lastId + 1} \in SUBSET {lastId + 1}
        /\ lastId' <= MaxLines /\ lastId' = IF {lastId + 1} = {} THEN lastId ELSE lastId + 1
    BY <1>1, <2>1
  <2>4. QED
    BY <1>1, <1>2, <1>3, <1>4, <1>5, <2>1, <2>2, <2>3, LinesStep
<1>7. ASSUME NEW l \in G!Ids, G!DeleteLine(l) PROVE ListInv'
  <2> DEFINE kept == DOMAIN lines \ {l}
  <2>1. lines' = G!Restrict(lines, kept) /\ lastId' = lastId
        /\ \A d \in Requests : ~G!Holds(d, l)
    BY <1>7 DEF G!DeleteLine, G!Lines
  <2>2. lines' = G!Extended(G!Restrict(lines, kept), {}, G!NewLine(FALSE))
    BY <2>1 DEF G!Extended, G!Restrict
  <2>3. \A d \in Requests \ {Nobody} : step[d] \in RowHeld => line[d] \in kept
    BY <1>5, <2>1 DEF G!Holds, RowHeld
  <2>4. kept \in SUBSET DOMAIN lines /\ {} \in SUBSET {lastId + 1}
        /\ lastId' <= MaxLines /\ lastId' = IF {} = {} THEN lastId ELSE lastId + 1
    BY <1>1, <2>1
  <2> HIDE DEF kept
  <2>5. QED
    BY <1>1, <1>2, <1>3, <1>4, <2>2, <2>3, <2>4, LinesStep
<1>8. QED
  BY <1>6, <1>7

\* A manual rank counts nothing; a store's rows that are reset are history's.
LEMMA Rerouted ==
  ASSUME ListInv,
         \/ G!Reorder
         \/ \E s \in Stores \cup {Generic} : G!SetStore(s) \/ G!ResetRoute(s) \/ G!DeleteStore(s)
  PROVE  ListInv'
<1> USE DEF G!list, G!routes, G!stock, G!request, G!history
<1>1. /\ RoutesTyped /\ StoresTyped /\ G!LearnedMatchesChecks
      /\ \A l \in DOMAIN lines : lines[l].item \in G!Identities
  BY DEF ListInv, Typed, LinesTyped, GroceryRow
<1>2. CASE G!Reorder
  <2> DEFINE dragged == {<<listStore, lines[l].item>> : l \in DOMAIN lines}
  <2>1. /\ ranked' = ranked \cup dragged /\ learned' = G!Extended(learned, dragged, 0)
        /\ UNCHANGED <<lines, lastId, flips, noted, usual, pantry, balance,
                       step, line, brand, before, place, doomed>>
        /\ UNCHANGED <<listStore, stores, strayed>>
    BY <1>2 DEF G!Reorder, G!Lines
  <2>2. dragged \subseteq G!Keys
    BY <1>1 DEF StoresTyped, G!Keys
  <2> HIDE DEF dragged
  <2>3. learned' = [k \in DOMAIN learned \cup dragged |->
                      IF k \in DOMAIN learned THEN learned[k] ELSE 0]
    BY <2>1 DEF G!Extended
  <2>4. RoutesTyped'
    BY <1>1, <2>1, <2>2, <2>3 DEF RoutesTyped
  <2>5. G!LearnedMatchesChecks'
    <3> SUFFICES ASSUME NEW k \in G!Keys \ strayed
                 PROVE  (IF k \in DOMAIN learned' THEN learned'[k] ELSE 0)
                          = (IF k \in DOMAIN learned THEN learned[k] ELSE 0)
      BY <1>1, <2>1 DEF G!LearnedMatchesChecks
    <3>1. QED
      BY <2>3
  <2>6. StoresTyped'
    BY <1>1, <2>1 DEF StoresTyped
  <2>7. QED
    BY <2>1, <2>4, <2>5, <2>6, RoutesStep
<1>3. ASSUME NEW s \in Stores \cup {Generic}, G!SetStore(s) \/ G!DeleteStore(s) PROVE ListInv'
  <2>1. /\ UNCHANGED <<lines, lastId, flips, noted, usual, pantry, balance,
                       step, line, brand, before, place, doomed>>
        /\ UNCHANGED <<learned, ranked, strayed>>
        /\ listStore' \in {s, Generic, listStore} /\ stores' \subseteq stores
    BY <1>3 DEF G!SetStore, G!DeleteStore
  <2>2. StoresTyped' /\ RoutesTyped'
    BY <1>1, <2>1 DEF StoresTyped, RoutesTyped
  <2>3. G!LearnedMatchesChecks'
    BY <1>1, <2>1 DEF G!LearnedMatchesChecks
  <2>4. QED
    BY <2>1, <2>2, <2>3, RoutesStep
<1>4. ASSUME NEW s \in Stores \cup {Generic}, G!ResetRoute(s) PROVE ListInv'
  <2> DEFINE left == DOMAIN learned \ G!OfStore(s)
  <2>1. /\ UNCHANGED <<lines, lastId, flips, noted, usual, pantry, balance,
                       step, line, brand, before, place, doomed>>
        /\ UNCHANGED <<listStore, stores>>
        /\ learned' = [k \in left |-> learned[k]]
        /\ ranked' = ranked \ G!OfStore(s) /\ strayed' = strayed \cup G!OfStore(s)
    BY <1>4 DEF G!ResetRoute, G!Restrict
  <2>2. StoresTyped' /\ RoutesTyped'
    BY <1>1, <2>1 DEF StoresTyped, RoutesTyped
  <2>3. G!LearnedMatchesChecks'
    <3> SUFFICES ASSUME NEW k \in G!Keys \ strayed, k \notin G!OfStore(s)
                 PROVE  (IF k \in DOMAIN learned' THEN learned'[k] ELSE 0)
                          = (IF k \in DOMAIN learned THEN learned[k] ELSE 0)
      BY <1>1, <2>1 DEF G!LearnedMatchesChecks
    <3>1. QED
      BY <2>1
  <2>4. QED
    BY <2>1, <2>2, <2>3, RoutesStep
<1>5. QED
  BY <1>2, <1>3, <1>4

LEMMA ListInit == G!Init => ListInv
<1> SUFFICES ASSUME G!Init PROVE ListInv
  OBVIOUS
<1> USE DEF G!Init
<1>1. /\ MaxLines \in Nat /\ MaxLines >= 2 /\ Unbranded \in G!Identities /\ 2 \in 0..MaxLines
      /\ G!Ids = 1..MaxLines
  BY AccountsAndListsAssumption, IdsFinite DEF G!Identities
<1>2. /\ \A g \in BOOLEAN : /\ G!NewLine(g) \in GroceryRow
                            /\ ~G!NewLine(g).checked /\ G!NewLine(g).seq = 0
      /\ G!Unread \in [item : G!Identities, checked : BOOLEAN]
  BY DEF G!NewLine, G!Unread, GroceryRow, G!Identities
<1>3. /\ DOMAIN lines = 1..2 /\ lines \in [1..2 -> GroceryRow]
      /\ \A l \in DOMAIN lines : ~lines[l].checked /\ lines[l].seq = 0
  BY <1>2
<1>4. LinesTyped
  BY <1>1, <1>3 DEF LinesTyped
<1>5. DOMAIN learned = {} /\ learned \in [DOMAIN learned -> Nat] /\ RoutesTyped
  BY DEF RoutesTyped
<1>6. StockTyped /\ StoresTyped
  BY <1>1 DEF StockTyped, StoresTyped
<1>7. CallsTyped
  BY <1>1, <1>2 DEF CallsTyped, CallSteps
<1>8. LocksHeld /\ PlacesNew
  BY DEF LocksHeld, PlacesNew, Behind, RowHeld, G!Holds
<1>9. PlacesUsed /\ G!SeqsDistinct
  <2>1. \A l \in DOMAIN lines : lines[l].seq = 0 /\ lines[l].checked = FALSE /\ flips = 0
    BY <1>3 DEF GroceryRow
  <2> HIDE DEF G!Init
  <2>2. QED
    BY <2>1 DEF PlacesUsed, G!SeqsDistinct, G!Lines
<1>10. Booked
  BY <1>1, <1>3 DEF Booked, G!CreditOnce, G!Lines
<1>11. G!LearnedMatchesChecks
  <2> SUFFICES ASSUME NEW k \in G!Keys
               PROVE  0 = Cardinality({l \in G!Ids : noted[l] = k})
    BY <1>5, SameCardinality DEF G!LearnedMatchesChecks
  <2>1. {l \in G!Ids : noted[l] = k} = {}
    BY NoKeyIsEmpty
  <2>2. QED
    BY <2>1, FS_EmptySet
<1>12. QED
  BY <1>4, <1>5, <1>6, <1>7, <1>8, <1>9, <1>10, <1>11 DEF ListInv, Typed

LEMMA ListStep == ListInv /\ [AllNext]_<<part, vars, grocery, plans>> => ListInv'
<1> SUFFICES ASSUME ListInv, [AllNext]_<<part, vars, grocery, plans>> PROVE ListInv'
  OBVIOUS
<1>1. CASE G!Next
  <2>1. ASSUME NEW c \in Requests, G!Request(c) PROVE ListInv'
    BY <2>1, Waits, Toggled, Checked, Replaced DEF G!Request
  <2>2. QED
    BY <1>1, <2>1, Edited, Rerouted DEF G!Next
<1>2. CASE UNCHANGED grocery
  <2>1. /\ UNCHANGED <<lines, lastId, flips, noted, usual, pantry, balance,
                       step, line, brand, before, place, doomed>>
        /\ UNCHANGED <<learned, ranked, strayed, listStore, stores>>
    BY <1>2 DEF grocery
  <2>2. RoutesTyped' /\ StoresTyped' /\ G!LearnedMatchesChecks'
    BY <2>1 DEF ListInv, Typed, RoutesTyped, StoresTyped, G!LearnedMatchesChecks
  <2>3. QED
    BY <2>1, <2>2, RoutesStep
<1>3. QED
  BY <1>1, <1>2 DEF AllNext

\* However check-offs, brand picks, regenerations and edits of a list overlap, a line
\* has a place in the check-off order exactly while it is checked, no two have the
\* same, each is credited once at most, and the router has learned the checks that
\* are there, but for the rows an uncheck did not find (LockGroceryList,
\* ToggleGroceryItemChecked, CheckGroceryListItemOn, observeCheckChange).
THEOREM ChecksGoTogether == AllSpec => []ListAndRouteConsistent
<1>1. ListInv => ListAndRouteConsistent
  <2> SUFFICES ASSUME ListInv PROVE G!ListAndRouteConsistent
    BY DEF ListAndRouteConsistent
  <2>1. G!TypeOK
    BY DEF ListInv, Typed, LinesTyped, RoutesTyped, StockTyped, PlacesUsed, GroceryRow,
           G!TypeOK, G!Lines
  <2>2. QED
    BY <2>1 DEF ListInv, Booked, G!ListAndRouteConsistent, G!ListConsistent
<1>2. QED
  BY <1>1, ListInit, ListStep, PTL DEF AllSpec, AllInit
=============================================================================
