# LENA2 in TLA+

TLA+ specifications of the LENA2 server (`src/`): what its concurrent parts do,
what they promise, which of the promises TLC checks on small instances and
which TLAPS proves for every instance.

LENA2 is a household assistant (recipes, pantry, groceries, wine cellar, meal
plans, events) with one Go server, a Postgres database and thin clients. The
server is a GraphQL BFF over domain packages. Every package that keeps state
keeps it in Postgres; a few keep some in memory too. The server may run as
several processes over one database, and it restarts.

Contents:

1. [Inventory](#1-inventory)
2. [Modules and how they correspond to the code](#2-modules-and-how-they-correspond-to-the-code)
3. [Runs](#3-runs)
4. [Fairness](#4-fairness)
5. [Where the code and its comments disagree](#5-where-the-code-and-its-comments-disagree)
6. [Proofs](#6-proofs)
7. [What is not covered](#7-what-is-not-covered)

## 1. Inventory

`PROJECT.json` lists the same components with their source paths, and under
`hazards` each behaviour that is hard to test, at its line.

### Modelled

**Mutation dedup** (`internal/idempotency`, `internal/bff/idempotency.go`, the
handler in `internal/bff/resolver.go`) - `Idempotency`.
State: one row of `platform.idempotency_key` per (user, key). Operations:
`Begin` (claim upsert, waiting on an in-flight twin, reclaiming a stale one),
`Complete`, `Abandon`, the detached sweep of expired rows. The handler calls
`Begin` before it executes a mutation, and completes or abandons the claim
after. Hard: retries racing the original, expiry while the mutation runs, a
`Complete` or `Abandon` that names no owner, store errors that fail open, a
crash with the claim held. Correct when one execution runs at a time, a replay
is the response of the same payload, and everybody gets an answer.

**Recipe OCR import pipeline** (`internal/app/recipeimport`) - `RecipeImport`,
`ImportLifecycle`.
State: `recipe.recipe_import` (status, OCR text, draft, review), a bounded Go
channel, a worker pool, a sweeper. Operations: submission, claim, three stages
per job, admin review, approve, reject, retry, start and shutdown. Approve
creates a catalog recipe in one transaction with the status change; OCR and the
LLM are external. Hard: a full channel drops offers, the sweeper offers what a
worker holds, stages fail at any point, admins race the workers and each other,
processes die between two stages. Correct when the status follows the
transitions table, an import makes one recipe and only from a review a human
approved, and no import is lost.

**The catalog snapshot of the imports** (`catalogSnapshot` and `InvalidateCatalog`
in `internal/app/recipeimport/service.go`) - `CatalogSnapshots`.
State: a cached catalog, a generation, at most one build in flight that any
number of imports wait for. Operations: map an import (use, join or build),
list the catalog page by page, a catalog write followed by its invalidation.
Hard: a write between two pages, an invalidation during a build. Correct when
what is installed holds every announced write.

**Push delivery** (`internal/notifier/delivery.go`) - `PushDelivery`.
State: the outbox `household.push_delivery`, the recipients' device tokens.
Operations: poll, claim, token lookup, send, settle, the rescue of stale
`sending` rows. The notifier and household invites enqueue rows; the provider is
external. Hard: two processes drain one outbox from snapshots of different age,
answers are lost, settling writes fail, shutdown cancels them. Correct when one
dispatcher sends at a time, a settled row stays settled, duplicates come from
faults only, attempts and backoff are bounded, every row settles.

**Reminder sweep and preferences** (`internal/notifier/sweep.go`, `service.go`) -
`Reminders`.
State: the feed, the outbox, the preference rows; per sweep a cache of the
members' preferences. Operations: the passes over meal slots and over expiring
pantry items, each of whose statements commits by itself; opting in and out of
a category and of pushes, muting, reading, pruning. Hard: a failure between the feed row and the push
row, preferences edited during a sweep, read-then-write edits that overlap, two
processes sweeping at once. Correct when only what was agreed to is pushed
and every due reminder appears, in the end, in the feed and if agreed in the
outbox.

**Household membership, roles, invites** (`internal/household`,
`resolver_household.go` and `resolver_identity.go` of `internal/bff`) - `Household`.
State: the tables `household.households`, `household_member` and `invites`, and
the active pointer on `identity.users`. Operations: create, leave, switch, invite, accept, decline,
cancel, set role, transfer, remove, delete an account. Hard: READ COMMITTED
transactions that decide on a cached identity and on unlocked reads; successor
promotion; pointer and membership are two tables. Correct when a household has
exactly one owner and goes with its last member, the pointer is a membership,
and people enter by live invites only.

**Identity and the admin set** (`internal/identity`, `provisionUser` of
`internal/bff/auth.go`) - `Identity`.
State: `identity.users` (role, active, status), `identity.user_login`.
Operations: promote, demote, activate, deactivate, approve, deny, delete an
account, link and unlink a login, a sign-in with its provisioning, approval gate
and zero-admin bootstrap. Hard: two admins demote each other, provisioning is a
chain of statements without a transaction, deletion decides on an unlocked read.
Correct when an active admin remains, a fresh install gets one, and an account
always has a login.

**Sessions** (`internal/session`, `internal/bff/session_handler.go`) - `Sessions`.
State: `identity.session`, rows linked into families by rotation. Operations:
issue, refresh, sign out, revoke a family or a user's sessions, purge. Hard: two
refreshes of one token, a replay detected inside a transaction that rolls back
and acted on outside of it, an UPDATE over rows that another transaction is
adding to. Correct when a family has one live token and revocation is for good.

**Authentication** (`internal/bff/auth.go`) - `KeySets` and `Resolutions`.
State: per provider a cached key set with single-flight fetches; a bounded cache
of resolved users under (provider, subject). Operations: verify a token (fresh
or stale keys, a forced refetch for an unknown key id), resolve a caller,
evict one by credential or by user id, evict the oldest. Hard: fetches outlive
their requests, overlap and fail; a resolution read before an invalidation is
stored after it; one account has several cache keys. Correct when keys never go
back and catch up with the provider, and a cached identity lags by the cache's
lifetime at most.

**Grocery lists and store routing** (`internal/grocery`,
`internal/bff/resolver_grocery.go`) - `Grocery`.
State: a list's lines, the household's usual brand, the pantry stock, the walk
order learned per store. Operations: check off and on, pick a brand, regenerate
from the plan, add, delete, reorder, choose, reset and delete a store. Hard:
toggles read before they lock, list and line locks are taken in either order,
credit and learned position must be undone by the uncheck. Correct when a
check-off is credited once and the learned order is that of the checks.

**Recipes' tweaks** (`internal/recipe/delta.go`) - `RecipeDeltas`, `StepDeltas`.
State: one household's changes to a canonical recipe, with the version they are
based on, and an audit log. Operations: set, clear, acknowledge; an admin's edit;
the overlay on a recipe's steps. Hard: drift is told by timestamps that are a transaction's beginning, the
set is read by several statements before the lock. Correct when an edit after
the household's last look is flagged and the overlay applies each change once,
in order.

**Events and timeline** (`internal/event`) - `EventPlans`, `Timeline`.
State: a slot's copy of the recipe's steps. Operations: link, re-link, sync,
append, update and delete a step; the backward schedule. Hard: numbers with gaps
or zero, dependencies forward, circular, missing; the copy under an immediate
foreign key. Correct when steps that depend on each other do not overlap and
everything is done by the target time.

**Recipe embeddings, the async runner, shutdown** (`internal/app/recipeembed`,
`internal/platform/async`, `cmd/lena/main.go`) - `Embeddings`.
State: vectors, a semaphore and a wait group, the sweep's batch. Operations:
save, submit, refresh, delete, sweep, drain, exit, crash, start. Hard: a full
runner drops work, `Submit` races `Shutdown`, a refresh works on what it read.
Correct when a drained runner runs nothing, and every recipe gets its embedding.

**Pantry and cellar stock** (`internal/userprefs`, `resolver_userprefs.go` of
`internal/bff`) - `Stock`.
State: one row per household and item, or bottle. Operations: set, update,
increment, delete, mark as a favourite; the merge of one household's stock into
another's when an invite is accepted, and its deletion with the household. Hard:
a merge is three statements with snapshots of their own, while members of both
households write; inserts and the merge wait for each other. Correct when a
merge neither creates nor loses stock and fails by a deadlock only.

**Meal plans** (`internal/mealplan`, `resolver_mealplan.go`) - `MealPlans`.
State: a household's plans, one of which may be active. Operations: create,
update with or without `isActive`, delete; the merge that takes all plans. Hard:
an activation clears what its snapshot shows and then meets a partial unique
index. Correct when the active plan is the one last activated, and only a
concurrent activation is refused.

### Not modelled, or seen only through another module

| Component | State and operations | Why |
|---|---|---|
| Slots and nutrition of meal plans (`internal/mealplan`) | slot rows | one unique index per plan; CRUD, and sums of floats |
| Wine (`internal/wine`) | catalog rows | CRUD |
| Inventory, nutrition, units (`internal/inventory`) | catalog rows | `CatalogSnapshots` has a catalog write and its hook; the rest is admin CRUD and unit arithmetic on floats, which TLA+'s tools do not compute with |
| Analytics (`internal/analytics`) | scores rebuilt from a log | real-valued decay |
| Favourite flags, dates, notes and minima of stock (`internal/userprefs`) | columns of the stock rows | single-statement upserts; `Stock` has the quantities, `Grocery` the credit of a check-off |
| AI suggestions and tools (`internal/ai`) | none | prompts, provider calls, read-only tools |
| OCR text parsing (`internal/ocrimport`) | none | text processing; `RecipeImport` sees its outcome (fails, profane, resolved) |
| Other resolvers, cost, depth and rate limits (`internal/bff`) | none, or counters of one user | one domain call, or several in one unit of work; limits are arithmetic on one request |
| Provider code exchanges (`internal/bff/apple.go`, `discord.go`, `oauthoidc.go`) | none | calls to external services |
| Transactions (`internal/platform/dbtx`) | none | they are the atomic commits and rollbacks of the modules |
| Generated query code (`sqlc/`) | none | its text is `queries.sql`, whose statements are actions |
| Commands, clients, migrations | - | wiring, single-shot tools, UI; migrations give the constraints the modules rely on |

## 2. Modules and how they correspond to the code

`PROJECT.json` maps every definition to its lines. Five conventions hold
throughout:

* One SQL statement is one step. A transaction that decides under a lock it
  holds to its commit is one step; what it reads without that protection is read
  in an earlier step. An UPDATE over several rows works on the rows of its own
  snapshot.
* Time is relative: a row keeps the ticks *left* to a deadline or the ticks
  *since* an update, saturated where the code no longer distinguishes values.
  No run needs a bound on the clock, except `RecipeDeltas`, whose clock counts
  the transactions begun.
* A lost reply, a refused write and a crash are explicit steps, counted by a
  bounded `faults` (or `crashes`, `restarts`, `stops`) variable. `Idempotency`,
  `Household`, `Identity` and `Grocery` need no bound on crashes and rollbacks.
* History variables, which no action reads, record what a property has to talk
  about: `row.holder` in `Idempotency`, `recipes` and `stranded` in `RecipeImport`,
  `delivered` in `PushDelivery`, `raced` in `Household`, `unguarded`, `stopped`,
  `shadow` and `wasAdmin` in `Identity`, `covered` and `condemned` in `Sessions`,
  `agreed` and `chosen` in `Reminders`, `raced`, `evicted` and `lag` in
  `Resolutions`, `announced` and `since` in `CatalogSnapshots`, `ledger`, `balance`,
  `noted` and `strayed` in `Grocery`, `seen` and `backdated` in `RecipeDeltas`, `copy`
  in `EventPlans`, `net`, `raced` and `victim` in `Stock`, `chosen`, `strayed`,
  `overtaken` and `needless` in `MealPlans`.
* Identifiers of rows that are never compared for age are handed out again, or
  bounded by a constant; data a property does not look at is left out.

`MCHousehold`, `MCRefreshes`, `MCNotifications`, `MCAccountsAndLists`, `MCRecipes`
and `MCRecipesAndEvents` put two or three components that share no state side by
side (the two of `MCNotifications` meet in the insert of an outbox row, which is
where `PushDelivery` begins). A variable (`part`, in `MCRecipes` `deriving`) picks one in the initial
state and never changes: the state graph is the disjoint union of the
components' graphs, and only the running one is scheduled. `MCRecipesAndEvents`
extends `MCRecipes` and keeps a `part` of its own, so that `RefreshesProofs` can
extend `MCRecipes` next to `MCRefreshes`, which has one too.

### Idempotency

| Model | Code |
|---|---|
| `row` | the row of one (user_id, key); `left` is `expires_at - now()` |
| `pc` | `claim`/`inspect`/`reclaim`: `Begin`'s loop; `exec`: `ExecGraphQL`; `complete`/`abandon`: the `idemClaim` methods of these names |
| `elapsed` | time since `Begin`'s start (its `expires`, `waitUntil`), later since the phase began |
| `Claim` | the `Claim` query, the upsert whose WHERE takes only a lapsed row |
| `ResolveConflict` | one `Get` and `checkConflictRow`: claim again, replay, key reuse, reclaim, give up |
| `BeginFails` | a store error: the handler fails open and executes without a claim |
| `Commit` | the mutation's own transaction, anywhere in `exec` |
| `Complete`, `Abandon` | conditional UPDATE and DELETE on `in_progress`, no owner in either |
| `Sweep` | `DeleteExpired` and `ReclaimStale` of the detached sweep |

`Tick` waits for prompt steps: an execution ends by `ExecTimeout`, settling by
`SettleTimeout`, a poll is below the unit of time. `Lapsed(t)` is `t < 0`, for
the SQL compares strictly.

### RecipeImport and ImportLifecycle

`ImportLifecycle` is the abstract specification: `status.go`'s transitions
table, the recipe appearing with `persisted`, and `Recover` for the startup
reset the table does not list. `RecipeImport` instantiates it with
`recipe <- [j |-> recipes[j] # <<>>]`; `FollowsLifecycle` is `Lifecycle!Spec`.

| Model | Code |
|---|---|
| `queue`, `EnqueueProcess` | the `jobs` channel; a send into a full one is dropped |
| `SweepClaimable` | `ListClaimableIDs` and one offer per row |
| `Take`, `Claim` | `worker`, `runJob` and `Process` up to `Claim`'s conditional UPDATE |
| `UpdateOCR`, `UpdateDraft`, `RunMapping` | the three stages, each ending in one conditional UPDATE |
| `StageFails`, `MarkFailed`, `MarkProfanity` | the ways a stage ends otherwise |
| `LastWriteLost` | a refused final status write, which is logged only |
| `ApproveRead`, `ApproveCommit`, `ApproveFails` | `Approve` before and in its transaction |
| `Stop`, `Start` | `Shutdown` or a crash; `ResetProcessing`, first offers |

`Start` may come at any time after `Stop`: any of the dead claims may still be
too young for the reset, which asks for the stage timeout (`StaleClaims`).
`stranded` collects the claims that were, and the imports whose last status write
the store refused; `JobSettles` excuses them alone, and `OrphansRecovered`
excuses nothing (section 5.4).

### CatalogSnapshots

| Model | Code |
|---|---|
| `ver`, `announced` | the version of each catalog page, and the one whose `InvalidateCatalog` has run |
| `snap`, `unexpired`, `gen` | `snap`, `snapBuiltAt` against `catalogSnapshotTTL`, `snapGen` |
| `Look`, `Join`, `Lead` | `catalogSnapshot`: a usable snapshot, the build in flight (`singleflight`), a build of one's own, which notes the generation |
| `ReadPage` | one page of the listing, as it stands at that moment |
| `Install` | the build ends: it is kept if nothing was invalidated meanwhile (`NotOvertaken`), and shared with every waiter in any case |
| `BuildFails`, `Mapped` | the build's error goes to everybody; the import has used its snapshot |
| `Write`, `InvalidateCatalog`, `WriteElsewhere` | a catalog mutation and its hook, two steps; a write by another process, which has no hook |
| `Expire` | the snapshot reaches `catalogSnapshotTTL` |

### PushDelivery

One outbox row and any number of dispatchers, one per process. `seen` is the
snapshot `ListDuePushDeliveries` returned, which may be old when its row is
reached; `Claim` is `MarkPushDeliverySending`; `SendEach` lets every token end
in ok, gone or error; `AnswerLost` delivers and reports an error; `Settle`
removes gone tokens and marks the row, or the mark is refused; `Crash` also
stands for `Stop` cancelling the settling write. Rows do not interact except
through the age of a snapshot, which is arbitrary here.

### Reminders

| Model | Code |
|---|---|
| `due` | reminders whose trigger has passed: the slots and items the sweep's queries list |
| `SweepStart`, `List`, `Decide`, `EndPass` | `Sweep`: one listing per kind, then each reminder in turn |
| `gate`, `FreshGate` | `newGateCache`: a member's preferences are read once per sweep |
| `FeedInsert`, `Prune`, `PushInsert` | the statements of one reminder: dedup-keyed inserts, and `PruneReadNotifications`, which keeps `KeepRead` read rows; a failure is logged and the sweep goes on |
| `EditRead`, `EditWrite` | `SetCategoryEnabled`, `MuteCategory`, `ClearMute`: a read, then an upsert of all columns |
| `SetPush` | `SetCategoryPushEnabled`, one statement |
| `EventNotification`, `MarkRead` | other rows of the same feed, and the member's reading |
| `Trigger` | the next reminder falls due |
| `Crash` | a process dies anywhere and sweeps again when it starts |

`agreed` collects the pairs whose push the member allowed at some moment of the
sweep; it is recomputed from the stored preferences at every write and owes
nothing to the gate. `chosen` is the push switch last set, `pending` the edits
that have read and not written.

### Household

| Model | Code |
|---|---|
| `memberships` | `household_member` ordered by `created_at` (the order successor and fallback use) |
| `active` | `users.household_id`, `household_role` |
| `DeleteMyAccount`, `ClassifyMembership`, `CommitDelete` | the memberships listed without a lock; each household locked in turn, its member counted, its successor chosen; the DELETE with its cascades, and the households dissolved |
| `request` with phase `begun` | a resolver that has passed `requireHouseholdRole` (cached identity) or has read the caller's row |
| `LockHousehold` | `GetHouseholdByIDForUpdate` and the checks and reads after it |
| `Commit...` | the writes; everything they rely on that is *not* protected was read in an earlier step |
| `Reject` | refused checks, conflicts, deadlock victims, store errors: rolled back |
| `Depart` | the common part of leave and remove: fallback pointer or fresh household |
| `AcceptHouseholdInvite` | `acceptInvite` without a household to merge |
| `AcceptAndMerge`, `CommitMerge` | with one: `acceptInvite` up to `validateMergeSource`'s unlocked look at the caller's membership and role; then the source's lock, the count of its members and the writes |

Locks: an INSERT or UPDATE that names a household takes a share of its row
lock through the foreign key, so such a write waits for `Free(h)`. Accepting an
invite without a merge, declining and cancelling one and creating a household
read nothing unprotected and are single steps. An accept that merges has the
joined household locked and the invite's row written (`InviteFree`, `UserFree`:
others that change the invite, or delete its users, wait) while it looks at the
source unlocked. What a request decides under its locks it
keeps: `held` are the households it has locked, `gone` those it dissolves,
`heirs` the rows it promotes. `raced` collects the kinds of outdated read a
commit has used: `pointer` (a pointer or a fallback membership moved), `role`
(the caller of a transfer was no longer the owner), `account` (the
memberships listed for a deletion had changed) and `merge` (the merged household
was no longer the caller's). The first household of a new
user is not in the module.

`Unused` hands out household ids again once nothing mentions them: ids are
never compared for age, so this is a renaming and keeps the state space finite.

### Identity

| Model | Code |
|---|---|
| `users`, `login` | the two tables; a user is named by its primary identity |
| `AdminMutation`, `MutateUnlocked` | the resolver's checks; promote, activate, approve and deny are one UPDATE |
| `LockAdminSet`, `MutateLocked` | demote, deactivate and delete: `pg_advisory_xact_lock` and the count of `others`, then the write or its refusal |
| `DeleteAccount`, `DeletePlain` | `DeleteUser`, which picks the guarded or the plain DELETE by an unlocked read |
| `LinkLogin`, `UnlinkLogin` | one transaction each |
| `SignIn`, `RefreshLogin`, `CreateLogin`, `Gate`, `ApproveProvisioned`, `MakeAdmin` | `provisionUser` and `approveProvisionedUser`, a statement each |
| `Fail` | the request dies or a statement is refused, between any two of them |

`unguarded` says that a plain DELETE removed an account that had become an
admin, `stopped` that a bootstrap ended between its two statements, `shadow`
collects accounts created for an identity that was being linked elsewhere: the
exceptions the properties name, all in section 5. `wasAdmin` says that there
was an admin once. `Forgotten` keeps requests about a deleted account from
being taken for requests about one created later under its name.

### Sessions

| Model | Code |
|---|---|
| `session` | row id to user, family, revoked, replaced_by; an absent row was purged |
| `Authenticate`, `Issue` | a sign-in: the account is admitted, then `Issue` of `internal/session` inserts its row |
| `Lookup`, `Lock`, `Rotate`, `Rollback` | `Refresh`: the read by hash, the SELECT FOR UPDATE with the reuse test, the insert and update that commit, or the rollback before a reused family is revoked |
| `RevokeBegin`, `RevokeEnd` | an UPDATE over a family or a user: it takes its snapshot, then waits for row locks and writes |
| `SignOut`, `RevokeSession` | one's own token, one row at a time |
| `Bar`, `Reactivate`, `DeleteUser` | deactivation or denial, which goes on to `RevokeBegin`; activation; the cascade |
| `Purge` | the deletion of expired rows, the only trace of expiry: a row that has expired is refused like a revoked one and then deleted |
| `Crash` | the process dies between any two statements |

`covered` is the snapshot a revocation began with, `condemned` the rows that
finished ones covered.

### KeySets and Resolutions

`KeySets` is one issuer.

| Model | Code |
|---|---|
| `Begin`, `Look` | a token to verify; `keySetForIssuer`'s look at the cache: a young set is used, a usable one is used while a fetch runs behind it, an old one never (`Serves`) |
| `StartFetch`, `JoinFetch` | the single flight: whoever needs a fetch starts it or joins the one running (`HasStale` says who need not wait) |
| `FetchKeySet`, `Complete` | its goroutine: the provider's answer or a failure, then the cache write; it outlives the request |
| `Wake`, `Cancel` | a waiter takes the result, or its request ends |
| `Parse`, `Retry`, `Answer` | the signature check, and the one forced refresh for an unknown key id (`WorthRefresh` is `cachedSetHasKey`) |
| `Rotate`, `Tick` | the provider changes its keys; the cached set ages: young, usable, old |

`Resolutions` is one account, with a version that every change of the account
raises, and the keys its resolution is cached under: one per session, primary
and linked credential.

| Model | Code |
|---|---|
| `Resolve`, `Load`, `Store`, `Answer` | `authenticateSession`, `provisionUser`: a usable entry (`Hit`), else the row as read, `cacheUser` (which drops the expired entries when full, `Swept`), the request served |
| `ChangeOwn`, `EvictOwn` | a mutation of one's own row, then `InvalidateUser`, which drops the primary key only |
| `ChangeOther`, `EvictOther` | a change through an admin or another member, then `InvalidateUserID`, which drops every key of the account (`OfUser`) |
| `Tick` | entries age |

`lag` is the ticks since each version was superseded.

### Grocery

A request is a transaction that waits for the list's row lock (`ListFree`) and
for a line's (`RowFree`); the statements after its last lock and the commit are
one step, and Postgres breaks a cycle of waits by aborting either (`Rollback`).

| Model | Code |
|---|---|
| `AddLine`, `DeleteLine` | the list's own mutations |
| `Toggle`, `LockList`, `Flip`, `CommitToggle` | `ToggleGroceryListItemChecked`: the row as read before the lock, the lock, the UPDATE, then learning and the pantry credit |
| `Bind`, `CheckOn`, `CommitCheck` | picking a brand, which also checks the line off |
| `Regenerate`, `DeleteGenerated`, `Replace` | `ReplaceGeneratedItems`: delete and inserts |
| `Record`, `Retracted`, `Observe`, `Remembered` | the store router's observation of a check-off and its retraction |
| `Adjust`, `CreditItem` | the pantry upsert, for the brand of the line or the usual one |
| `SetStore`, `Reorder`, `ResetRoute`, `DeleteStore` | the store and route mutations |

`ledger` books what each line has credited per brand, `balance` over all brands;
`noted` is the route row in which
each line's check was recorded; `strayed` are the rows that an overlapping
uncheck, or a reset, has left askew: the exception `LearnedMatchesChecks` names.

### RecipeDeltas, StepDeltas, EventPlans, Timeline

`RecipeDeltas` is one recipe and one household, and the times at which things
are read.

| Model | Code |
|---|---|
| `Begin`, `Edit` | an editing transaction begins (which sets its `now()`) and commits |
| `LoadItems`, `LoadSteps` | `loadDeltaSet`, one statement each |
| `ReadBase`, `Set`, `Clear`, `Acknowledge`, `RollBack` | the write of a tweak set, its deletion and its acknowledgement; `BaseOf` is the version recorded as its base |
| `CopySteps`, `CopyItems` | the statements that fill an event's slot |

`seen` is the last edit the household has been shown, `backdated` says that an
edit committed after one that began later.

`StepDeltas` has the pure overlay (`applyStepDelta`: drop, patch, add, sort,
renumber) and `Overlaid`, a definition by what the result must be: the kept
steps in order, every change applied once, numbers from 1 without a gap. The
merged rows are a function on the places they are appended at (`Merged`: a step's
index, then the added ones by id), and the stable sort gives each its rank, the
number of rows that go before it (`Before`, `Rank`).
`Timeline` has the schedule (`scheduleRecipe`: topological order by a sorted queue, placement
from the end), each loop a function on the number of rounds (`DrainOne`,
`PlaceStep`), and `Schedules`, which says of a plan that every step is rounded up
to the granularity (or clamped to what an int32 holds), ends by the target, and
begins only after what it waits for, unless they are part of a cycle.
`EventPlans` applies both to every slot a
sequence of links (`AddEventRecipe`, `UpdateEventRecipe`), syncs
(`SyncEventRecipe`) and hand edits (`AppendStep`, `UpdateStep`, `DeleteStep`)
can leave; `Copyable` is the foreign key on a copy's dependencies, `IsRecipe` and
`IsDelta` are what the schema says of a recipe's steps and of a household's
changes.

### Embeddings

| Model | Code |
|---|---|
| `Save`, `Submit`, `RereadFails` | a mutation of a recipe and `refreshEmbeddingAsync`: the recipe is read again, then submitted; a full semaphore drops it |
| `Acquire`, `OtherStarts`, `OtherEnds` | a slot of the runner, shared with other tasks |
| `LoadRow`, `LoadChildren`, `Store`, `RefreshFails`, `Over` | a refresh, of a task or of the sweep: two reads, the vector of what was read, its end |
| `Tick`, `ListCandidates`, `ListFails` | the sweep's ticker, and one batch of `Sweep` |
| `BeginShutdown`, `Drain`, `Exit` | `cmd/lena`: the HTTP drain and `Runner.Shutdown`, then the sweep's context |
| `Crash`, `Start` | at any moment; a new process sweeps at once |
| `DeleteRecipe` | a recipe goes while its refresh runs |

### Stock

A row as last written (`row`), as last committed (`seen`), and the transaction
whose write is not committed (`owner`).

| Model | Code |
|---|---|
| `Begin` | a resolver's read of the holding, outside its transaction |
| `Set`, `UpdateUserBottle`, `IncrementUserItem`, `Favorite`, `Upsert` | the upserts: an absolute quantity, the one that was read, a difference, an empty holding |
| `DeleteUserItem`, `NothingToWrite` | the deletion of the row that was read; requests that touch no stock |
| `CheckHousehold` | an insert's foreign key, which waits for a household locked by the merge |
| `Commit` | the commit; an increment deletes a row that came to nothing first |
| `LockTarget`, `LockSource` | `LockHousehold` of both, or of the dissolved one |
| `FoldReads`, `FoldWrites`, `MoveRow`, `DropRow` | `MergeHouseholdItemConflicts`, `ReassignHouseholdItems`, `DeleteMergedHouseholdItems`, or `DeleteHouseholdStock`; the same for bottles |
| `DeleteHousehold`, `RefusedDelete` | the household's row goes, unless stock still refers to it |
| `FailInsert`, `FailMerge` | the database breaks a cycle of waits |

`net` books what the committed operations leave; `raced` says that the source's
row changed between the fold's read and the row's deletion.

### MealPlans

| Model | Code |
|---|---|
| `Begin` | the request, and the read an update starts from |
| `Look`, `Clear` | `DeactivateOtherMealPlans`: the rows its snapshot shows, then the write, once they are free |
| `Write`, `Delete` | the row itself; `Awaited` and `Standing` are `meal_plan_one_active_per_household`, which waits for an entry in doubt and conflicts with one that stands |
| `CheckHousehold`, `Commit` | as in `Stock` |
| `LockHousehold`, `Reassign`, `FinishMerge` | `ReassignHousehold` in the transaction of an accepted invite |
| `FailRequest`, `FailMerge` | a deadlock's two victims |

`chosen` is the plan last activated on purpose; `strayed` says that a rename
wrote back an outdated `is_active`, `needless` that an activation nobody had
overtaken was refused.

## 3. Runs

Each property of a passing run has one seeded defect in `PROJECT.json`
(`mutants`, the `Mutant...` operators of the modules) that makes it fail under
that run's configuration.

| Run | Instance | Shows |
|---|---|---|
| `idempotency` | 3 requests, two with one payload and one with another; TTL 5 >= wait 1 + poll 1 + execute 2 + settle 1; key TTL 2; 2 claim rounds; 1 store fault | `ClaimExclusive`, `ReplayFaithful`, `StoredResponseKept`, `NoSecondExecution`, `Answered` |
| `import` | 2 workers, 2 admins, 2 imports, channel of 1; 1 edit, retry and restart | `OneRecipePerImport`, `HumanApproved`, `FollowsLifecycle`, `ReviewKept` |
| `import_live` | 1 worker (the default), 1 admin, also 1 refused write; restarts soon or late after a claim | `WorkersConsistent`, `JobSettles` |
| `import_restart` | 1 import, 1 worker, 1 restart | violates `OrphansRecovered` |
| `notifications` | outbox: 2 dispatchers, 2 tokens, 3 attempts, 2 faults, 1 registration; sweeps: 1 sweeper, 1 member, 1 meal and 1 expiry reminder, 1 event, 1 read row kept, 2 edits, 1 fault | `OneHolder`, `NoNeedlessDuplicate`, `SettledForGood`, `RetriesBounded`, `PushesSettle`; `ConsentKept`, `RemindersReach` |
| `household` | membership: 3 users, 4 household ids, 2 requests in flight, 3 in all; stock: 2 requests beside a merge or a dissolution, quantities up to 1 before they are summed | `HouseholdsConsistent`, `MembershipsHold`; `StockConsistent` |
| `sessions` | 2 overlapping requests, 2 users, 3 session rows, 1 crash | `FamiliesConsistent`, `RevocationHolds`, `DeadFamilyStaysDead` |
| `sessions_reuse` | the same | violates `ReuseRevokesFamily` |
| `identity` | 2 accounts, one on the administrators' list, 2 overlapping requests, an empty database, the approval gate on | `AdminRemains`, `BootstrapCompletes`, `LoginsConsistent` |
| `refreshes` | key sets: 2 verifiers, 2 fetches, 2 rotations, 1 fault; embeddings: 2 recipes, one of which always fails, 2 saves, a runner of 1, a batch of 2, 1 stop | `NeverOlder`, `KeysCatchUp`; `RunnerDrains`, `EventuallyEmbedded` |
| `accounts_and_lists` | resolutions: 2 requests, a session and the primary login, TTL 2, a cache of 2, 2 changes; list: 2 requests, 1 brand, 1 store, up to 3 lines, 2 flips, 1 edit; plans: 2 requests, 3 plans | `LagBounded`, `CacheConsistent`; `ListAndRouteConsistent`; `PlansConsistent` |
| `recipes` | catalog: 2 imports, 2 writers, 2 pages; tweaks: 2 requests, 4 transactions; events: 11 recipes of up to 3 steps under every delta of up to 2 changes, slots of up to 4 steps with one hand edit | `InstalledFresh`; `DriftFlagged`; `TimelineCorrect`, `OverlayFaithful` |

A property is usually a conjunction of named parts, the type invariant among
them: `HouseholdsConsistent` is `TypeOK`, one owner for every household, and an
active pointer that is a membership.

### Bounds and why they are enough

* **idempotency.** The conflicts are between a holder, a waiting duplicate, and
  a third request that arrives while the second executes or reuses the key with
  another payload; three requests give all of them. The times are the smallest
  at which waiting, executing and settling each take time and the lease is
  exactly covered. `MaxClaims` 2 (3 in the code) still reaches the exhausted
  case. One fault suffices: a fault takes a request out of the protocol, or
  falls back from complete to abandon.
* **import.** Two imports fill a channel of one, so offers are dropped and one
  import is queued twice; two workers and two admins meet on one row. `MaxEdits`
  1 lets an approved review be edited before its approval commits. Symmetry in
  workers and admins is used in a run that checks no liveness. `MaxFaults` is 0
  in it: a refused write leaves a row as it is and is in `import_live`.
  `import_restart` needs one import, one claim and one restart to fail.
* **notifications, the outbox.** Three attempts have a first retry, a later one with a longer backoff
  and an exhausted budget; `StaleAfter` 2 against `SendTimeout` 1 keeps the
  code's order (5 minutes against 30 seconds); two faults allow a crash and a
  lost answer in one behaviour.
* **household.** The start has an owner with an admin in one household, the
  owner of another with that admin as a member, and a pending invite between
  them: successor, fallback, merge, dissolution and the deletion of an account
  in one or two households are all one request away. Two slots give every pair
  of overlapping requests, the third request a follow-up. The deadlock check is
  off: requests are bounded, and a system all of whose users are done idles.
  `MaxMembers` 3 is never reached by three users through `HasRoom`: the cap is
  modelled and not exercised. Stock: two writers beside the merge are one in each
  household, or two in one; two ones added make a sum that no single write gives.
* **sessions, identity.** What can go wrong takes two requests between whose
  statements something commits; the third session row is the successor of a
  successor. Identity begins before the first sign-in, so bootstrap, linking, the
  last admin's demotion and deletion all occur. Sessions may come to rest (its
  deadlock check is off).
* **refreshes.** Two fetches let one outlive its request and the next overlap
  it; two rotations let a late one be old. A recipe that always fails with a
  batch of two is what `EventuallyEmbedded` allows (section 5.16).
* **accounts_and_lists.** Two writes make a version that is two behind. Three
  lines are a line, what regenerates beside it, and an addition. Two flips are two
  checks at once, or a check and the uncheck that overlaps it. Three plans are
  an active one and two that are activated at once. Requests are
  symmetric, and the plans, of which at most one is active where `MealPlans`
  chooses among them; no component has liveness. No login is linked: a linked
  credential is a further key with the lifetime of the others.
* **recipes.** Two pages are the least a build can read at different times; four
  transactions are two edits around a tweak and a slot. The recipes are those with
  gaps, from zero, forward and circular dependencies, two dependents, and no
  duration; granularity 15 against a duration of 20 makes rounding visible. The
  transactions are bounded, so the deadlock check is off.
* **notifications, the sweeps.** A meal and an expiry have different categories and listings; one
  read row kept makes pruning happen; two edits overlap. `MaxSweepFaults` is
  the `MaxFaults` of `Reminders`, under a name that does not clash with that of
  `PushDelivery`.

## 4. Fairness

* `Idempotency!FairSpec`: each live request's handler runs on (`Step`), and time
  passes (`Tick`). Crashes, faults, the sweep and new requests are not fair. A
  crashed request is excused by `Answered`.
* `RecipeImport!FairSpec`: the sweeper's ticker ticks, a dead process is started
  again, each worker loops (every stage has a timeout). Admins are not fair;
  `JobSettles` asks for nothing an admin must do. It is checked with the default
  one worker: with more, two workers may take one import from each other without
  end. `JobSettles` leaves out a row in `processing` whose worker is gone if the
  process found it too young to reset when it started, or the store refused the
  last status write: nothing in a running process takes it up.
* `PushDelivery!FairSpec`: each drain loop runs on and time passes. Faults are
  bounded; with unbounded crashes no outbox settles.
* `Reminders!Fairness`: each sweeper's steps are weakly fair, for `Start` sweeps
  at once and its ticker goes on. Members and faults are not fair.
* `KeySets!Fairness`: a verifier's steps and a fetch's are fair (`jwksFetchTimeout` ends
  it), time passes, and users with the provider's current key sign in again.
  Rotations, cancellations and faults are not fair.
* `Embeddings!Fairness`: a save goes on to its submission, a task's refresh and the sweep go on,
  a drained process exits and is started again. Crashes, faults, stops and saves
  are not fair; what a full runner has dropped is left to the sweep.
* `MCRefreshes` and `MCNotifications` schedule the running component alone.
* `Household`, `Sessions`, `Identity`, `Grocery`, `Resolutions`,
  `CatalogSnapshots`, `RecipeDeltas`, `EventPlans`, `Stock` and `MealPlans` have
  no liveness property:
  a request is bounded by its context and nothing must eventually happen.

## 5. Where the code and its comments disagree

`PROJECT.json` (`findings`) quotes the comment and says what the code does.
The first and the fourth have runs of their own. The others come out when the named definition
takes the place of the properties in the named configuration.

1. **A reused token's family survives** (`sessions_reuse`). The revocation is
   one UPDATE with the snapshot it began with; a rotation that commits meanwhile
   leaves a successor alive (`session/service.go:3`). A deactivation and a
   sign-out miss it in the same way.
2. **A waiter's lease is short.** `Begin` computes `expires_at` before it waits,
   so a duplicate that takes over holds its claim for the rest of the TTL only,
   and `ValidateServer` asks only `TTL > execution` (`config.go:335`).
   `ClaimNotReclaimable` in `MCIdempotency.cfg` with TTL 4, wait 2 and execution 3.
   `LeaseCoversExecution` is the rule under which it holds; the defaults, 150 s =
   30 s + 120 s, leave no room for the last poll and settling.
3. **Stolen imports.** Between stages a row is `ocred` or `drafted`, which the
   sweeper may offer again: with two workers, or two processes, the second takes
   the import from under the first (`recipeimport/service.go:568`). `LiveClaimKept`
   in `MCRecipeImport.cfg`.
4. **Stranded imports** (`import_restart`). The startup reset ignores rows younger
   than the stage timeout and runs once (`recipeimport/service.go:195`): a process
   that is started again soon after a claim leaves that import in `processing`.
5. **The status reset is not in the transitions table** although "anything not
   listed is rejected" (`status.go:53`); `ImportLifecycle!Recover` is that step.
6. **An import may join an outdated build** (`recipeimport/service.go:773`).
   `NextImportFresh` in `MCRecipesAndEvents.cfg`.
7. **Push attempts beyond the budget, and without backoff.** The retry decision
   uses the snapshot's count, the claim checks neither count nor
   `next_attempt_at` (`delivery.go:73`, `notifier/queries.sql:154`).
   `AttemptsBounded` and `BackoffRespected` in `MCNotifications.cfg`;
   `RetriesBounded` speaks of snapshots that were current.
8. **Two owners.** Overlapping transfers by one owner both commit, because the
   caller's role is not read again under the lock
   (`resolver_household.go:1109`). `SingleOwner` in `MCHousehold.cfg`.
9. **A switch may keep a lost membership.** `SetActiveHousehold` reads the
   membership in its statement's snapshot and locks nothing of it
   (`identity/queries.sql:239`). `ActiveIsMember` without its premise.
10. **A deleted account leaves a household without an owner, with two, or takes
    somebody else's with it.** The roles and the households come from a list that
    was read before any lock, and the count under the lock does not look who the
    one member is (`resolver_identity.go:279-284`). `OwnedHouseholds` and
    `DissolvedAlone` in `MCHousehold.cfg`. **An accept that merges may take
    somebody else's household too**: the caller's membership and role in the
    source are read before its lock, and afterwards only its members are counted,
    although "shared households are always rejected"
    (`resolver_household.go:356`). `DissolvedAlone` again, or `MembershipsHold`
    with `"account"` alone in its premise.
11. **A denial is overwritten** by a first sign-in's approval (`auth.go:617`).
    `DenialNeverUndone` in `MCIdentity.cfg`.
12. **The last admin may delete the account** if the promotion comes between
    `DeleteUser`'s read and its plain DELETE (`identity/service.go:872`); a
    **bootstrap may stop** between approval and promotion (`auth.go:615`).
    `AdminRemains` and `BootstrapCompletes` without their premises.
13. **One's own change is not seen** by a session whose cache key is not the one
    that `InvalidateUser` drops (`auth.go:801`). `OwnChangeSeen` in
    `MCAccountsAndLists.cfg`.
14. **A known key is refused** when another request's refresh completes between
    the parse and the look for the key id (`auth.go:526`). `KnownKeyAccepted` in
    `MCRefreshes.cfg`.
15. **An edit's embedding may stay old** for good: only rows without an embedding are
    swept (`resolver.go:351`). `EmbeddingCatchesUp` in `MCRefreshes.cfg` with
    `MaxVersion` 2, `Recipes` {1} and `Broken` {}.
16. **The sweep may starve**: as many failing recipes as a batch holds, with the
    lowest ids, end every sweep (`recipeembed/service.go:222`). `EventuallyEmbedded`
    without its premise and with `BatchSize` 1.
17. **Shutdown aborts** import stages and the embedding sweep at once
    (`resolver.go:248`); the models have both.
18. **The pantry is debited for what was never credited**: a line checked off
    before it had a brand (`resolver_grocery.go:723`). `PantryMatchesList`.
19. **A deleted store's route rows stay** (`grocery/store.go:173`). `RoutesCascade`.
20. **A pruned reminder comes again** (`0036_notification_manager.up.sql:53`), and
    **a mute set meanwhile is undone** by `SetCategoryEnabled`
    (`notifier/service.go:147`). `DueKeyKept` and `MuteUndisturbed` in
    `MCNotifications.cfg`.
21. **Drift may go unflagged** when overlapping edits commit in the other order
    (`recipe/delta.go:52`); **the audit log's sides may not chain**
    (`delta.go:644`); **a slot may be copied from two versions**
    (`resolver_event.go:817`). `EveryDriftFlagged`, `HistoryChains` and
    `CopyOfOneVersion`.
22. **Renumbering forgets the dependencies** (`delta.go:115`); **a forward
    dependency cannot be copied** (`0032_event_recipe_steps.up.sql:29`); **step 1 of
    a recipe numbered from 0 has no default edge** (`timeline.go:185`).
    `DependenciesKept`, `EveryRecipeCopies`, and `TimelineCorrect` without
    `Positive`, in `MCRecipesAndEvents.cfg`.

23. **A merge may lose stock**: what a member credits to the source between the
    fold's read and the row's deletion is deleted with it
    (`userprefs/queries.sql:250`). `StockSummed` in `MCHousehold.cfg`.
24. **A bottle's update without a quantity, and a first favourite, undo a
    concurrent write**: both write the quantity they read before their transaction
    (`resolver_userprefs.go:515`, `:293`). `OmittedPreserved` and
    `FavoriteKeepsStock` in `MCHousehold.cfg`.
25. **A second slot for one meal is an internal error**: `resolver_mealplan.go:460`
    relies on the conflict of the unique index, which `AddMealSlot` does not
    translate (`mealplan/service.go:280`). No definition: the slots are not modelled.

Some of these definitions belong to a module that the run's module instantiates
under a name (`Grocery`, `MealPlans`, `CatalogSnapshots`, `RecipeDeltas`,
`Stock`, `Embeddings`, `Reminders`): unless the MC module repeats them, as
`MCRecipes` does for 21, a definition there has to refer to them.

## 6. Proofs

TLAPS checks the theorems for any number of requests, workers, admins,
dispatchers, tokens, sessions, accounts, users, households, plans, verifiers and
so on, and any values of the bounds. Every one of the 33 safety properties that
the passing runs check is a theorem; liveness is not. All parts have the same layout:
`Init => IInv`, a case analysis for `IInv /\ [Next]_vars => IInv'` with a step
per action, and a QED by PTL.

**What is assumed.** The modules' named assumptions, which TLC evaluates in
every run, say of the constants what the configuration or the schema says:
bounds and timeouts are numbers, markers such as `None` are none of the values
they stand in for, the names of requests are none of those of the merge and the
sweeper, the sets of requests whose members are counted are finite. Four say
more: `LeaseAssumption` (`SendTimeout < StaleAfter`, both constants of
the code); `FoundingAssumption`, that the tables a behaviour of `Household`
starts from are rows with one owner each, one row per user and household, a
membership behind every pointer, and invites to households that exist;
`AccountsAndListsAssumption`, that a list has room for the two lines it starts
with; and `EventPlansAssumption`, that the recipes and tweaks are what their
tables hold (`IsRecipe`, `IsDelta`): rows in the order of their numbers, unique in
a recipe, no negative durations, one change per step, a number and an id of its
own for an addition, and a positive granularity.
Three more conditions are hypotheses of the theorems that need them:
`LeaseCoversExecution`, `RequireApproval`, and one worker.

**How lists are written.** The library's induction theorems take an operator,
which the provers cannot instantiate, so what `SelectSeq` or `SortSeq` computes
cannot be proved. Induction on a number can be done by hand: a set that holds 0 and
with each number the next holds them all (`UpTo`, from the least number it would
miss), and with it a recursive function that iterates a step exists and does so
(`Iterates`); the two loops of `Timeline` are written as such functions. Elsewhere,
where the code keeps an order, the modules say which list results instead of
computing it: `Household` removes
a membership by the places of the rows that stay (`Nth`, `Kept`), the claimable
imports and the embeddings' candidates are the list of a set in the order of the
query (`ListClaimableIDs`, `Batches`), pruning keeps the unpruned places
(`Unpruned`, `Ascending`). The proofs then speak of places only.

**`IdempotencyProofs`.** `TypeCorrect` and `WaitIsBounded` need no
assumption beyond the parameters. `ExclusiveClaims`, `LiveClaimsKept`,
`SingleExecution` and `ReplaysAreFaithful` also assume `LeaseCoversExecution`,
the deployment rule of section 5.2. `ClaimExclusive` is not inductive: nothing in
it says why the row of a running request cannot lapse. `IInv` adds two
things: `Phases`, which bounds the time a request has spent where it is and
needs no assumption (`WaitIsBounded` is its first part), and `LeaseOutlivesRun`,
which says that what is left of the row's deadline covers what the holder may
still spend. `Claim` and `Tick` are where the arithmetic is used, `Sweep` and
`ReclaimStale` are where it pays (a held row is not lapsed, so neither touches
it). `SingleExecution` follows from `IInv` in one step of `Commit`.
`ReplaysAreFaithful` carries the payload's hash from the claim to the stored
response (`ResponseFaithful`) and needs exclusive claims to know whose response
`Complete` stores. `ResponsesAreKept` is an action property and holds whatever
the timeouts are.

**`RecipeImportProofs`.** `NoDuplicateRecipes`: a recipe is appended only in
the step that moves the row to `persisted`, and `persisted` is in no
`FromStatuses`. `OnlyHumanApproved`: an approved review was written by
`EditReview` alone (`ApprovedByHuman`: what is approved has version 2 or more
and is resolved), and what `Approve` read before its transaction has that form
whatever happens to the row meanwhile. `ImplementsLifecycle`: initial states map
to initial states and every action maps to `Submit`, `Move`, `Recover` or a
stutter, using `OneRecipePerImport` so that a recipe changes with `persisted`
only. The module first shows that each action is one of nine kinds of step
(`StepKind`), and these theorems argue over the kinds. So does `ReviewsAreKept`:
no status a worker writes from has a review to lose (`NoReviewYet`).
`ChannelBounded` is the type invariant with the channel's capacity.
`OneWorkerKeepsItsRow` has one worker as its hypothesis, for section 5.3 is what
two do: a stage then runs on a row in the status it will write from, or one that
an admin has rejected meanwhile, because nobody but the worker, an admin and the
start of a process moves a row, and a dead process runs no stage.

**`NotificationsProofs`.** The outbox and the sweeps that fill it.
`NoConcurrentDelivery`: `ClaimFresh` says that while a dispatcher holds the row it
is `sending` and no older than the time the send has taken, so no other
dispatcher finds it stale. `SettledStays` and `DuplicatesAreFaults` rest on it:
settled rows are neither pending nor sending, and each multicast that reached a
device is paid for by the row being settled as sent or by a fault
(`DeliveriesPaid`). `RetriesAreBounded` adds two facts: a dispatcher's snapshot
counts no more attempts than the row (`Counted`), and while a row waits for its
backoff every dispatcher that has listed it did so before its last attempt
(`ListedBefore`). `PushesAreConsented`: a sweep's `agreed` holds what the
preferences allow now, what its gate cache allows, and the pair it has decided to
push (`Agrees`), and a sweep is at a pair exactly while it writes for it
(`Placed`). A write of the preferences can only add to `agreed`, a gate is filled
from preferences that allow what it allows, and the edits in flight carry the
push switch they have read, which only `SetPush` changes.

**`HouseholdProofs`, stock.** `StockIsKept`: a merge or a dissolution neither
creates nor loses stock unless the source's row changed under the fold, and only
a deadlock fails it. `StockInv` names what each write of the merge has left behind
(`MergeWrites`): the source's stock folded into the target's row, its row moved,
or none to move; `RowsOwned` says that an uncommitted row belongs to a request that
is about to commit it; and `InsertsBarred` that no insert has passed the lock of a
household, which is why the deletion of the source's household is never refused
(`RefusedDelete` is never enabled).

**`HouseholdProofs`, membership.** `HouseholdsStayOwned` (`HouseholdsConsistent`)
and `InvitesAreTheWayIn` (`MembershipsHold`, an action property). The properties
speak of the tables; what makes them inductive is what a request in flight still
relies on when it commits. `MemberInv` is `TablesTyped`, `Secure` (the
properties) and `RequestsFit`, which says for each request: the row of its target
is there with a role the operation permits (`TargetStays`), a household it will
dissolve has one member (`GoneAlone`), the heirs it will promote are members of
locked households (`HeirsFit`), a household it departs from as the owner has an
heir or another owner (`Succeeded`), and a deletion has locked the households of
the first memberships it listed (`ListLocked`); and no household is locked by
two. A step of one request leaves those of the others true because it writes no
row of a household they hold (`Steady`), the one exception being an account that
goes on an outdated list, which `raced` records. Removing a row keeps the order of
the others, so the successor is who the list says: the lemmas on places come
before the actions. `InvitesAreTheWayIn` adds `InvitesKept`: the invite that a
merge has accepted is there until it commits, since the invite's row is written,
and its sender's household is locked. That a merge dissolves nobody else's
household is what the code does not keep, and the property says so: where the
source is still the caller's when it is counted, the one member is the caller,
and otherwise the commit puts `merge` into `raced`.

**`RefreshesProofs`.** Key sets: `FetchesCoalesce` (one fetch in flight, and every
waiter waits for it or for one that has ended: `OneFetch`, `WaitersJoined`) and
`SetNeverGoesBack`, from `Ahead`: what the running fetch has been answered is no
older than what is cached. Embeddings: `DrainIsComplete`, from the wait group
counting exactly what was accepted and not yet given up (`RunnerInv`), so that
nothing is left when it is zero; the sweep works on its own batch. Catalog:
`SnapshotIsFresh`, as the pages of a build were read after the generation was
noted; `NotOvertakenIsNew` says that if the generation is still the same, every
page read so far is at least as new as the last announced write, and `Committed`
that a write is in the table before it is announced. Tweaks: `DriftIsFlagged`.
Transactions have times of their own (`TimesDiffer`), and a time taken from the
recipe together with its version is earlier than that of any edit committed
since, unless one put `updated_at` back, the named race (`Dated`).
Events: `ScheduleIsRight` is about the algorithm, for any finite set of steps with
distinct positive numbers. By induction on the rounds the order lists no step
twice and each after what it awaits (`Ordered`); after as many rounds as there
are steps nothing is free, so what is left over waits in a circle, and a circle
is never drained: the order is complete exactly if there is none. By induction
from the last step of the order every step placed is where its dependents, all
placed before it, want it (`InPlace`), and later rounds do not move it.
`OverlayIsOverlaid`: going before is a total order on the merged rows (`Before`),
so the ranks are a bijection to 1..N, and the sorted list is the merged rows in
that order. `OverlaysAreFaithful` and `TimelinesAreCorrect` follow from `PlansInv`:
the slot was linked to a recipe and changes that fit each other, and its rows have
distinct numbers whatever was copied or edited, so both algorithms apply.

**`AccountsAndListsProofs`.** `EvictionIsComplete` and `StalenessIsBounded`: a
request that read before an eviction and has not stored yet is marked
(`ReadersRaced`), so an entry older than the eviction is one of the named race
(`EvictionHolds`); `LagsBehindAge` says that a version is superseded no longer
than the entry that holds it is old. `OneActivePlan`: an activation that is
written and not committed is alone, now and once everything else commits
(`Alone`), and one that is on its way clears what is active unless another has
overtaken it (`Clears`), so the index refuses overtaken ones only.
`ChecksGoTogether` (`ListAndRouteConsistent`): one request has the list's lock and
one a line's, and the line it has stays (`LocksHeld`); a place computed under the
list's lock is behind all others (`PlacesNew`); a line that has credited more than
it took back has a brand to debit, so its uncheck debits it, and an unchecked line
is in no route row (`Booked`). Every step is one of four kinds: a request that waits or gives
up (`WaitStep`), a commit of a check (`CommitStep`), lines that come and go
(`LinesStep`), and the stores' rows (`RoutesStep`). What a route row counts is
the cardinality of the lines noted in it, which a check or an uncheck changes by one
(`RecordCounts`, `RetractCounts`).

**`SessionsProofs`.** `OneTokenPerFamily`: a request that is about to rotate
holds the lock of a live row (`RotatorsHoldLive`), and a family's live row is
the one nobody has replaced. `RevocationIsFinal` and `NoFamilyRevives` rest on
it and on `SnapshotsComplete`, which says what a revocation's snapshot may have
missed: rows that did not exist yet.

**`IdentityProofs`.** `AnAdminRemains`: one request holds the advisory lock
(`OneHolder`), and while it does nobody else shrinks the set it counted
(`GuardHolds`). `FirstApprovedIsAdmin` assumes the approval gate
(`RequireApproval`) and says by `NoAdminYet` who is on the way to being the
first admin. `EveryAccountHasALogin` concerns `identity.user_login` against the
accounts.

**Only model-checked.** All liveness (`Answered`, `JobSettles`, `PushesSettle`,
`RemindersReach`, `KeysCatchUp`, `EventuallyEmbedded`, and the counterexample of
`OrphansRecovered`): TLAPS has no ENABLED.

## 7. What is not covered

**Not modelled** are the components of the second table in section 1, with the
reasons given there, and of the modelled ones:

* the first household of a new user (`ensureDefaultHousehold`), whose repair
  after a conflict re-adds a membership it has read outside any transaction;
* the lists and events that a merge moves (stock and plans are in `Stock` and
  `MealPlans`, apart from the memberships), and what an account's deletion
  cascades to beyond memberships, invites, logins and sessions;
* an invalidation of the catalog snapshot before its write commits, which the
  comment at `inventory/service.go:58` allows and no reachable caller makes; and
  reminders of a kind the gate cache does not know (`notifier/sweep.go:514`),
  which are not gated at all;
* appliance conflicts of a schedule, and tweaks of ingredients;
* store errors of the idempotency sweep, and several rows of one outbox: rows
  meet in the age of a snapshot only.

**Hazards without a property.** Each hazard of `PROJECT.json` has one, except half
of the one at `Approve`: an edit saved between its read and its commit is in the
review of a `persisted` import and not in the recipe. The recipe is the review
that an admin approved (`HumanApproved`), which is all the code promises. For some
hazards the property holds with an exception, named by a history variable
(`raced`, `strayed`, `stopped`, `shadow`, `backdated`, `stranded`) or an operator
(`Outdated`): section 5 has the exceptions. Beside them the code is exposed to:
a token registered again between a send and
its settlement, which deletes it by value (`delivery.go:254`); the overflow of
the backoff's shift at some thirty attempts (`delivery.go:287`); an error text
beyond `VARCHAR(500)`, which makes the mark fail
(`0050_push_notifications.up.sql:52`); the member cap when several invites are
accepted at once, held by the lock (`resolver_household.go:313`).

**Worth doing next:** the first household; the merge of two catalog
ingredients (`inventory/service.go`).
