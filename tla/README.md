# TLA+ verification of the AWO ERP framework

AWO is a multi-tenant ERP written in Go. The server is `awo/cmd/server/main.go`; it wires the
framework under `awo/` to PostgreSQL and Redis and loads the platform modules
(`awo/platform/*`) and the business modules (`modules/finance`). `internal/**`, `db/**` and
`cmd/ui` belong to the generation before it and are not linked by that server; they are out of
scope.

This directory holds TLA+ models of the parts of the framework whose correctness depends on
interleavings, failures and ordering, TLC configurations that check them on small instances, and
TLAPS proofs for instances of every size.

## 1. Inventory

| Part | State | Operations | Interacts with |
|---|---|---|---|
| Human sessions (`awo/platform/iam/service.go`, `awo/contrib/redis/session_store.go`, `awo/auth/session.go`, `awo/platform/iam/hooks.go`) | Redis `session:{token}`, a Redis sorted set of tokens per user, table `iam_sessions`, table `iam_user_roles` | Login, ValidateToken (with recovery from SQL), Logout, RevokeUserSessions, UserRoleChangeHook | `RequireAuth` calls ValidateToken on every request; EntityService runs the hook in its transaction |
| Event outbox (`awo/events/outbox/relay.go`) | table `events_outbox`, PostgreSQL advisory lock | Publish, poll (lock, select, deliver, update, unlock) | action handlers publish; the relay calls subscribers |
| API tokens (`awo/platform/iam/service.go`) | `iam_api_tokens`, `iam_service_accounts`, a 60 s Redis cache | ValidateAPIToken, revocation | `RequireAuth` |
| Entity service and pipeline (`awo/api/service/entity.go`, `awo/runtime/pipeline.go`, `awo/contrib/pgx/repo.go`) | entity tables, transactions, hooks | Create, Update, Delete, startWorkflows | audit writer, hooks, naming, Temporal |
| Audit trail (`awo/audit`) | `platform_audit_log` | Apply / Write with a failure policy per category | runs in the entity service's transaction |
| Naming series (`awo/naming`) | Redis counters | Allocate | pipeline, before the transaction |
| Distributed lock (`awo/contrib/redis/lock.go`) | Redis `lock:{key}` with a TTL | Acquire, TryAcquire, Release, Extend | offered to modules |
| Rate limits (`awo/api/middleware/ratelimit.go`, `awo/contrib/redis/cache.go`) | Redis counters with a TTL | RateLimit, LoginRateLimit | HTTP middleware |
| Scheduler (`awo/scheduler`) | job table, cron runner | Start, Stop, Schedule, Cancel, Status | offered to modules |
| Finance (`modules/finance/handlers.go`) | journal entries, fiscal years, periods | status transitions, reverse, close year | action runtime |
| Tenants (`awo/api/middleware/tenant.go`, `awo/platform/tenant`) | `platform_tenant` | resolve, provision, suspend | every request |
| Permissions (`awo/auth/casbin.go`) | Casbin policy in memory | reload, enforce | every request |
| Definitions, compiler, module registry, migrations | compiled schema | run once at start-up | everything |
| Server-driven UI, OpenAPI, docgen, reports | none | render | HTTP |
| Front-end shell (`awo/web.old/src/main.js`, superseded by `awo/web/pages/index.html`) | session history of the browser, navigation entries, page shown, embedded AMIS instances | boot, click, jump, back and forward, responses | server-driven UI endpoints |

What is hard about it:

* **One fact in several stores.** A session is a Redis key, an index member and an SQL row, and no
  transaction spans them; every call between them may fail after its effect (a lost reply), Redis
  evicts keys and restarts empty, and requests of the same user run concurrently.
* **Read outside, write inside.** Recovery, entity updates, finance transitions and token caching
  read a value, leave the transaction (or never had one) and act on it later.
* **Hooks before the commit.** After-hooks run inside the transaction, so their effects on Redis
  are visible before the change that caused them, and stay when it is rolled back.
* **Autocommit where a transaction is meant.** The outbox writes and locks through plain pool
  connections.
* **Retries with limits.** Deliveries, locks with TTLs and rate windows.
* **Responses out of order.** The shell starts a fetch per navigation and never cancels one.

The properties that make each part correct are listed with its module in section 3;
`PROJECT.json` lists every hazard at its line.

## 2. Plan

| Step | Modules | State |
|---|---|---|
| 1 | **Sessions**, its history extension **SessionsHistory**, **SessionsProofs** | checked and proved |
| 2 | **Outbox** as a refinement of the abstract **EventQueue**, **OutboxProofs** | checked and proved |
| 3 | **EntityService**, **EntityProofs** | checked and proved |
| 4 | **Ledger** (`modules/finance`), **LedgerProofs** | checked and proved |
| 5 | **RedisLock** as a refinement of the abstract **Lease**, **RedisLockProofs** | checked and proved |
| 6 | **ApiTokens** and **RateLimit**, composed in **ApiGate**, **ApiGateProofs** | checked and proved |
| 7 | **Shell** (front end), **ShellProofs** | checked and proved |

"Proved" means every invariant, action property and refinement that a passing run checks; liveness
stays with TLC (section 5). A naming module becomes worthwhile when the server wires the naming
service (section 6).

## 3. Modules

### Sessions

`Sessions.tla` models one tenant. Every round trip to Redis or PostgreSQL is one action, so that
requests interleave exactly where the code waits. `redis`, `index` and `sessions` are the three
stores, `userRoles` the committed role assignments, `req[p]` the program counter and locals of
request p, `issued` and `known` history (what GenerateToken was used for; which tokens a client
has). The clock is shared by the application, Redis (TTL) and PostgreSQL (`NOW()`).

| Code | Actions |
|---|---|
| `Login` | LoginVerify, LoginLoadRoles, LoginStore, LoginIndex, AuditLogin |
| `ValidateToken`, `recoverSessionFromDB` | ValidateBegin, ValidateLoad, RecoverSelect, RecoverRoles, RecoverStore, RecoverIndex, ValidateCheck, RequestDone |
| `Logout` | LogoutDel, LogoutZRem, AuditLogout |
| `RevokeUserSessions` | RevokeBegin, RevokeList, RevokeDeleteAll, AuditRevoke |
| `UserRoleChangeHook` in EntityService's transaction | RoleChangeBegin, HookList, HookDeleteAll, CommitRole |
| Redis | Tick, RedisEvict, RedisRestart |

Modelling decisions:

* A failing call either has no effect or fails after its effect (the reply was lost); what the
  code does next (abort, ignore, go on) is taken from each call site. The rows of `iam_sessions`
  are written best-effort by the code, so they may be missing for live sessions.
* The prune of `ListUserTokens` and the ZRANGE after it are one action; the prune is best-effort
  (its failure leaves the index as it is) and nothing depends on the moment between them.
* Callers supply the tenant context: `TenantResolver` runs before `RequireAuth`.
* The password check only decides whether a login starts. Formats of tokens, hashes and JSON are
  abstracted to the token itself: the code looks rows up by a collision-free hash.
* The login audit through `writeAuthAudit` changes none of this state and is left out.

Properties (all hold):

* `SessionMatchesIssue`: every copy of a session has the user and expiry of its login.
* `BulkRevocationScoped`: indexes and lists of tokens contain only tokens of their user.
* `RevocationFinal`: a token that is gone from Redis, whose row is revoked or was never written
  (the INSERT of a login is best-effort), and that no request carries, stays so and authorizes
  nothing. Requests that carry it are excluded because they do bring it back, see below.
* `NoAuthorizationAfterExpiry`: no authorization after the expiry of the login.

What the code does although its comments say otherwise:

* The role-change hook deletes keys but leaves `revoked_at` NULL, so the next request restores the
  session it was meant to end (run `role_change_final` refutes `RoleChangeFinal`).
* ValidateToken is documented to answer a missing key with 401 (service.go:428-430, "The session does
  not exist; the client must re-authenticate"; SESSION_MODEL.md:126, "Key absent (expired or revoked)
  → HTTP 401", and :211, "Sessions MUST be stored in Redis, not PostgreSQL"). It restores the session
  from `iam_sessions` instead, which the comment inside the function announces (service.go:440-442,
  "handles Redis eviction/restart without forcing users to re-authenticate"). The repository
  contradicts itself here, so no property demands or forbids the recovery itself; the properties say
  what a recovered session may be and when it may no longer come back.
* A recovery that has read its row writes the key back after the DEL of a logout. The session is
  live again until it expires, although the row is then marked revoked: a request that begins when
  the logout is complete is authorized (run `revoked_not_authorized` refutes `RevokedNotAuthorized`;
  SESSION_MODEL.md:216, "Sessions MUST be revocable immediately").
* `DeleteAll` deletes the whole index, with entries added since it was read: such a session is live
  and no later bulk revocation finds it.
* A login between the role-change hook and the COMMIT caches the old roles, and nothing revokes it.

### Outbox and EventQueue

`Outbox.tla` models `OutboxWriter.Publish`, the business transaction around it, and one relay per
server instance. `outbox[e]` is the row of event e, `lock` the owner of the advisory lock,
`relay[i]` the poll of instance i (its batch, the event and the handler it is at, whether its
connection is alive), `handled` the handler calls that returned nil. `Chain(e)` is the order in
which `deliver` calls subscribers. A lost connection drops the lock on the server while the relay
goes on calling handlers with what it has read; a crash forgets the poll. The errors of the two
UPDATEs are ignored, as in the code.

`EventQueue.tla` is the promise of package `events`: published events become pending, a pending
event is acknowledged only when all its subscribers have seen it, or given up; settled events stay
settled; deliveries may repeat. `ImplementsQueue` is the refinement under the mapping `Status`.

Properties (all hold): `DeliveredMeansHandled` (at-least-once, whichever instance marks the row),
`NoStaleBatch` (an instance with a live connection is alone and its rows are still pending),
`ImplementsQueue`, and the liveness property `EventuallySettled`.

Divergences: `Publish` writes on its own autocommit connection, so an event is delivered although
its transaction is open or rolled back (run `published_by_commit` refutes `PublishedByCommit`). No
dead-letter table exists: a row that has used up its attempts stays and is skipped for good. The
comments of `relay.go` also announce exponential backoff, the code retries at every poll; and
`Publish` JSON-encodes the payload bytes, so subscribers get a base64 string rather than the
payload that was published.

### EntityService

`EntityService.tla` models Create, Update and Delete of `awo/api/service/entity.go` for one entity
type. `rows` are the committed rows, `lock[id]` the transaction that has written a row, `req[r]` the
request. `Accepted` stands for field validation and naming: the set of records they let pass.
`Hooks` are the before hooks, which run after validation and the check of immutable fields and may
rewrite the record: what they may return for a record and the row read before it, nothing when they
refuse. `HooksAssumption` says that before-update hooks leave immutable fields alone. The hooks of
the repository do: they refuse (SlugValidator, StatusValidator, TransitionGuard, CodeValidator,
MoveGuard, FieldNameValidator, LoginAuditImmutableGuard), compute a path at creation
(PathComputeHook) or hash a password (UserPasswordHasher); none is registered as BeforeValidate or
BeforeSave. `Policies` are the audit settings the entity can have: an error that is propagated or
suppressed, or no audit record at all ("off": `DisableAudit`, a disabled configuration, or the
feature flag of the writer, which the migration seeds as false).

| Code | Actions |
|---|---|
| `EntityService.Create`, `RunBeforeCreate` | CreateBegin, Insert |
| `EntityService.Update`, `RunBeforeUpdate` | UpdateBegin, WriteRow |
| `EntityService.Delete` | DeleteBegin, WriteRow |
| `RunAuditRecord`, `audit.Apply` | Audit |
| `RunAfterCreate/Update/Delete` | RunAfter |
| `Repository.WithTx` | Commit, Fail, Rollback |
| `startWorkflows` | StartWorkflow, WorkflowFails |

Reads before `WithTx` run on plain pool connections, without `set_tenant_context`. Under forced row
level security they would find nothing, and every update and deletion would end with not found;
`PoolReads` is this property of the database role, and the runs take it to be TRUE (the proofs take
either). After hooks that fail are part of Fail.

Properties (all hold): `StoredRecordsValid` (every row is what the hooks made of a record that
validation accepted as a whole; concurrent patches never combine into one that no request has
prepared), `ImmutableFieldsKept`, `NoResurrection`, `WorkflowsOnlyForCommitted`, and the
liveness property `EveryRequestEnds`. What makes the first two hold is also what breaks the next
one: an update writes back *every* field as it was read before the transaction.

What the code does although its comments say otherwise:

* `repo.Update` is said to apply a partial patch; it undoes patches of other fields that committed
  since the read (run `update_patches_only` refutes `UpdatePatchesOnly`). `TransitionGuard` of
  `platform/tenant/hooks.go` is one victim: an update that has read a SUSPENDED tenant activates it
  after another has archived it, which is meant to be terminal.
* The audit record takes its actor from the metadata of the record that the repository read back,
  which carries none, so with auditing on `AuditRecord.Validate` always fails. Under the propagating
  policy the mutation is then rolled back, under the suppressing one it commits without an audit
  row. AuditValid models this by the `actor` field. With auditing off, which is how the migration
  leaves the feature flag, Write returns before it validates and nothing fails. Were records
  written, their before image would be the stale read.
* `UserPasswordHasher` is said to leave an absent password unchanged. It looks at the merged record,
  in which the stored digest stands for an absent password, and hashes that again: after any patch of
  a user the password no longer matches. `Hooks` admits such a rewrite; what it does to a digest is
  read from the code and outside the properties.
* A workflow start that fails after the commit is logged and never retried.

### Ledger

`Ledger.tla` models all handlers of `modules/finance/handlers.go` by the statuses they start from
and lead to (`Operations`), one action per statement: Get (read and compare), CreateReversal, Query,
LockPeriod, PeriodsDone, Update, Commit, Fail. Handlers without a transaction write at once, the
reversal and the closing at their COMMIT; `completed` records which entries were marked and which
years closed. The driver behind `ActionRuntime` is an interface (`runtime.EntityDriver`) that the
repository does not implement yet; the model takes it to be PostgreSQL at READ COMMITTED through
`WithTx`, whose row locks make updates wait and whose deadlock detection aborts one transaction of
a cycle (`DeadlockDetected`). `wrapTx` has no caller.

Properties (all hold): `ReversalsPaired` and `ClosingsAtomic` (reversal and closing are all or
nothing: periods become locked and years closed only in a step that commits a whole closing),
`FinalUnlessOverlapped` (a final status is left only by a request that had read an earlier
one), and the liveness property `EveryActionEnds`, which needs the deadlock detection because
closings lock the same periods in any order.

The exception in `FinalUnlessOverlapped` is real. The status is not compared again when it is
written, so two overlapping requests can cancel a processed payment, post an entry again that was
reversed meanwhile, reverse an entry twice (two reversals exist then), or open a period that the
closing of its year has locked. `cancelAction` is documented to start from non-terminal statuses
only; it compares a status that may be stale when it writes. The record that
`reverseJournalEntry` creates has no `entry_date` and no `currency`, which its definition requires
(definition_journal.go:112-116, 140-145): a driver that validates would refuse every reversal, which
is the failing branch of `CreateReversal`. The model also lets it succeed, as the handler intends, so
the safety properties cover more behaviours than such a driver has. `periodsByFiscalYear` returns no filter, so closing one year locks the periods of all years;
its comment says that "the fiscal year check provides safety", but there is no such check. A period
created between the query and the COMMIT stays unlocked; creation of periods is not in the model.

### ApiTokens, RateLimit and ApiGate

`ApiTokens.tla` models `ValidateAPIToken` and `lookupAPIToken` with the cache of looked-up tokens,
`RateLimit.tla` the middleware over the Redis counter, `ApiGate.tla` the chain of the router: the
requests that authentication passes are counted, under one clock. Times are remaining ticks, so the
clock is unbounded. `expires_at` of a token is fixed, requests name the tenant of their token, and
Redis does not evict keys. Authentication refuses when Redis fails, the limiter admits (FailOpen).

A client of `RateLimit` is a key of the counter. `ApiGate` derives it as the middleware does
(`RateKey`): the user id from the fiber locals, or else the address. No middleware sets that local
(`LocalsUserID`), so the key is always tenant and address.

Properties (all hold):

* `RefusalFinal`: once a token is revoked or expired, not cached and carried by no request, it is
  never cached or accepted again.
* `RevocationTakesEffect` (liveness): every revoked or expired token gets there, although a late
  `Cache.Set` may store it after the revoker's DEL and clients may use it incessantly.
* `SlidingWindow`: the counter admits at most `Limit` requests of one tenant and address in any
  period of the window's length, wherever it begins; requests let through because Redis failed are not counted. The sum
  over the period is stated by its running totals, a function that exists and stays below `Limit`:
  an equation between neighbours is something a proof can carry from step to step, a folded sum is
  not.
* `QuietClientAdmitted`: after a window without requests the counter is gone.

The limit is documented per user (ratelimit.go:22, "1000 req/min per tenant+user";
docs/18-security/SECURITY_MODEL.md:128; docs/11-cache/CACHE_KEY_REFERENCE.md:67-73). Because of the
key a user on two addresses gets twice the limit (run `per_user_limit` refutes `LimitPerUser`), and
the users behind one address share one.

`cache.go` says that the TTL is set "if the key was just created"; it is set every time. That is
what makes the window a sliding one, and it also means that a client that keeps sending stays
rejected. `LoginRateLimit` is the same algorithm under another key.

### RedisLock and Lease

`RedisLock.tla` models `awo/contrib/redis/lock.go` for one key: Begin, Granted, Refused, Wait and
AcquireFails are Acquire and TryAcquire, Release and Extend the Lua scripts. Each call has a ttl of its
own, taken to be positive. Replies may be lost after their effect, clients may die anywhere, and Redis
may evict the key or restart without it (`LoseKey`). `lease[c]` is what client c may rely on: the ticks
that its last grant still covers; after an Extend that returned an error, the lesser of what was left
and what was asked for, since the script may have run. `orphaned` are the clients whose key was lost
under them. `Lease.tla` is the promise of package `lock`.

Properties (all hold, for the grants whose key Redis has kept): `MutualExclusion` of leases,
`OthersKeepOut` (a late Release or Extend never takes the key from the next owner),
`AbandonedLockFreed` (liveness: a key that nobody owns goes away) and `ImplementsLease`. A client that
works on after its lease is not protected; the interface documents that.

The exception is real. `lock.go` of package `lock` announces the Redlock algorithm, which survives the
loss of an instance; the code uses one Redis, and when that loses the key a second client is let in.

### Shell

`Shell.tla` models the single-page shell of `awo/web.old/src/main.js`, the fullest of the shells in
the repository. It is superseded: `awo/cmd/server/main.go:287-289` serves `awo/web/pages/index.html`,
which has the same routes and the same uncancelled fetch per navigation, but redirects no address,
navigates once per click, shows a 403 as an error and unmounts the previous page when it renders the
next. What is shown of this shell therefore carries over to the served one only where they agree.

Event handlers are atomic;
every navigation is a flight that its response, in any order, ends. `hist` and `at` are the session
history, `active` what sidebar and breadcrumb show, `content` what the page shows, `mounted` the
AMIS instances that are embedded. Paths are sequences of segments; `parseRoute` is translated as a
function on them.

| Code | Actions |
|---|---|
| `loadNav().then(...)` | Boot |
| `handleNavClick`, which the document's click listener follows | handleNavClick |
| click listener, `amisEnv.jumpTo`, `popstate` | ClickLink, jumpTo, PopState |
| `navigate` up to its fetch | navigate |
| `navigate` after its fetch | Embed, ShowError, Denied |
| 401 in `amisEnv.fetcher` | FetcherDenied |
| the browser: a new document, with a new or with the kept history | Load, Reload |

Properties (all hold): `HighlightFollowsLocation`, `NewestShowsLocation`, and the liveness property
`NavigationSettles`. `NewestShowsLocation` speaks of addresses of the form that the comment above
`parseRoute` documents (`WellFormed`); of any other, `parseRoute` ignores the segments it does not
know, so that several addresses show one page. The run has such an address, too.

Behaviours a maintainer should know, which the properties allow for: an older response that
arrives last replaces the newer page (`NewestShowsLocation` speaks of the newest navigation only); a
click on a sidebar entry is handled twice, with two history entries and two requests; an instance
whose page is replaced by a late response is never unmounted, although the comment says that the
previous instance is unmounted first; a navigation answer of JSON `null` leaves the static spinner
of `index.html` for good. `amisEnv.fetcher` turns `page` and `perPage` into `offset` and `limit`,
while the list handler of the API reads `page` and `page_size`: a conversion without state, left out
of the model like theme, sidebar toggles, search and the debug overlay.

## 4. Runs

| Run | Bounds | Result |
|---|---|---|
| `sessions_two_users` | 2 requests, 2 users, 1 token, 1 role, TTL 2, clock 0..3, failures and evictions | pass, about 170 000 states |
| `role_change_final` | 2 requests, 1 user, no failing calls | violated, as described above |
| `revoked_not_authorized` | as `role_change_final` | violated, as described above |
| `outbox_delivery` | 2 instances, 2 events, 1 time, a typed and a wildcard subscriber, 2 attempts, batches of 1, up to 1 fault; fair | pass, about 253 000 states |
| `published_by_commit` | 1 instance, 1 event, no faults | violated, as described above |
| `entity_records` | 2 requests, 1 id, 2 fields under a joint rule, one of them rewritten by a hook, 1 immutable field filled in by a hook, 3 values, all audit settings; fair | pass, about 40 000 states |
| `update_patches_only` | 2 requests, 1 id, the same fields | violated, as described above |
| `ledger_actions` | 2 requests; an entry with up to 2 reversals, or a payment, or 2 years with 2 periods; fair | pass, about 9 000 states |
| `api_gate` | 2 requests of one client, 1 token that expires or not, cache TTL 2, window 2, limit 2, failures; fair | pass, about 41 000 states |
| `per_user_limit` | 2 requests of one account from 2 addresses | violated, as described above |
| `redis_lock` | 3 clients, 4 tokens, TTLs 1 and 2, a Redis that loses the key; fair | pass, about 49 000 states |
| `shell_navigation` | every type of route and an address of none, 4 navigations per document, reloads with up to 2 entries of history; fair | pass, about 680 000 states |

Why the bounds are enough. The races in these components are between two actors (a recovery and a
revocation, two relays, two updates); the lock needs three clients, because a wrong release lets the
third in, and four tokens, so that a key left behind can keep one. TTL 2 with a clock up to 3 lets a
session be live, be recovered later, be at its boundary and expire within one behaviour; the proofs
of section 5 extend the session run to any number of tokens. Two attempts distinguish a first
failure from the last; a batch limit of one makes events compete for the batch, and one fault (a
crash, a lost connection or a failed UPDATE) is enough for a batch to be taken up by the other
instance; the safety proofs cover any number of faults and any times of occurrence. One id suffices for
EntityService, which never touches two records in one request. The books of the ledger run share no
record, and no handler touches more than one of them. The entry has two ids for reversals so that it
can be reversed twice and a reversal can be reversed. A window and a cache TTL of two ticks have a
beginning, an inside and an end. Four navigations allow a sidebar click (two of them) after the
first page, and an overtaking response.

Named bounds in the guards: `TokenAvailable` (logins), `MaxNow` (clock), `MaxFaults`, `IdAvailable`
and `EntryAvailable` (an insert that begins finds an id), `MaxCount` (the counter saturates above
the limit), `MaxTTL` (what callers of the lock ask for), `MaxNavigations`, `MaxHistory` (the history
that a reload takes over). The runs of Sessions use symmetry, since requests, users and tokens are
interchangeable and they check no liveness; the other passing runs check liveness and use none.

Deadlock is checked everywhere: requests, polls and users can always go on.

Fairness, beyond which nobody is obliged to do anything:

* Each HTTP request runs in its own goroutine and each server runs its relay: weak fairness of the
  steps of each request and each relay. Starting requests, publishing and administration are not
  fair.
* An UPDATE that waits for a row lock: strong fairness (`WriteRow`, `Write`), because PostgreSQL
  queues the waiters of a row. Its deadlock detection is weakly fair.
* Time passes in ApiGate and RedisLock, where TTLs are what ends things: weak fairness of Tick.
* `fetch` settles: weak fairness of the response to each navigation of the shell.
* For `EventuallySettled` faults are finite (`MaxFaults`).

## 5. Proofs

`SessionsProofs.tla` proves, for any sets of requests, users, tokens and roles, any TTL, with
failures and evictions:

| Theorem | Statement |
|---|---|
| `TypeCorrect` | `Spec => []TypeOK` |
| `SessionsMatchIssue` | `Spec => []SessionMatchesIssue` |
| `BulkRevocationsScoped` | `Spec => []BulkRevocationScoped` |
| `RevocationIsFinal` | `Spec => RevocationFinal` |
| `NeverAuthorizedAfterExpiry` | `Spec => NoAuthorizationAfterExpiry` |

The only assumption is `ConstantAssumption` of Sessions (types of the constants; None is not a
user, a token or a record). None of the properties is inductive. `Inv` adds: a request past its
first read carries what was issued; the token of a login in flight is in no other request, not yet
known to clients and has no row; a row exists only for known tokens; lists are empty outside bulk
revocations. `InitInv` and one lemma per action (`Step...`) give `InvHolds`, of which the three
invariants are consequences. `RevocationFinal` is proved step by step from `Inv`: a dead token was
issued before, so no login stores it, its key is missing and its row revoked or absent, so no validation
finds it (`Dead...` lemmas); expiry follows from the payload being as issued (`AsIssued`).

`EntityProofs.tla` proves, for any sets of requests, ids, fields and values, any validation rule,
any before hooks that keep immutable fields, any audit settings, whether or not pool reads see rows:

| Theorem | Statement |
|---|---|
| `EntityTypeCorrect` | `EntitySpec => []EntityTypeOK` |
| `RecordsAreValid` | `EntitySpec => []StoredRecordsValid` |
| `WorkflowsAreForCommitted` | `EntitySpec => []WorkflowsOnlyForCommitted` |
| `ImmutableFieldsAreKept` | `EntitySpec => ImmutableFieldsKept` |
| `DeletedStaysDeleted` | `EntitySpec => NoResurrection` |

`EntityAssumption` and `HooksAssumption` are the assumptions. What a request writes was read earlier, so the invariant
`EntityInv` has to relate it to the row as it is now: a transaction past its write holds the lock of
its row (`RowsOwned`), so no two commit to the same row in between (`OwnersApart`) and the row still
exists; a stale record agrees with the row on immutable fields (`ImmutableAgree`), which another
commit preserves because its own record agrees too; rows belong to created ids and a creation in
flight owns an id that is not (`RowsCreated`, `IdsKnown`).

`RedisLockProofs.tla` proves, for any clients, tokens and TTLs, with or without loss of the key:

| Theorem | Statement |
|---|---|
| `LockTypeCorrect` | `LockSpec => []LockTypeOK` |
| `LocksExclude` | `LockSpec => []MutualExclusion` |
| `OthersAreKeptOut` | `LockSpec => OthersKeepOut` |
| `LockImplementsLease` | `LockSpec => ImplementsLease` |

from `LockAssumption`. `LockInv` adds that busy clients have distinct tokens and that a running grant
whose key was not lost is backed by it, under the token of its client, for at least as long
(`GrantsBacked`). A free
key then means that no grant runs (`FreeKeyNoGrant`) and an owner is alone (`OwnerAlone`); the
refinement maps the owner to the client whose grant runs, and every step ends a grant, begins one
where there was none, or changes no owner (`StepLease`).

`OutboxProofs.tla` proves, for any instances, events, times, subscribers, batch limit and number of
attempts and faults:

| Theorem | Statement |
|---|---|
| `OutboxTypeCorrect` | `OutboxSpec => []OutboxTypeOK` |
| `DeliveredIsHandled` | `OutboxSpec => []DeliveredMeansHandled` |
| `LiveBatchesAreFresh` | `OutboxSpec => []NoStaleBatch` |
| `RelayImplementsQueue` | `OutboxSpec => ImplementsQueue` |

from `OutboxAssumption`. The UPDATE that marks a row comes steps after the handlers it stands for, so
`OutboxInv` says what a poll knows at each of its program points: its event is one of its batch
(`PollPoint`), the handlers before the next one have returned nil, all of them when the row is about
to be marked (`PollProgress`), and while its connection lives it has the advisory lock and all its
rows are pending (`PollLive`). A poll that has lost its connection knows nothing of the rows; that it
still marks only what it has handled is `PollProgress`, which does not mention the connection. For the
refinement each action is a step of EventQueue on the one event it touches, or leaves every status.

`LedgerProofs.tla` proves, for any actors, entries, payments, years and (finitely many) periods:

| Theorem | Statement |
|---|---|
| `LedgerTypeCorrect` | `LedgerSpec => []LedgerTypeOK` |
| `ReversalsArePaired` | `LedgerSpec => []ReversalsPaired` |
| `ClosingsAreAtomic` | `LedgerSpec => ClosingsAtomic` |
| `FinalStatusIsKept` | `LedgerSpec => FinalUnlessOverlapped` |

from `LedgerAssumption`: the kinds of documents are disjoint, None is no actor, record or status.
`LedgerInv` relates row locks to program counters. A request works on a record that exists, by the
steps of its own operation (`Sound`); a lock is held only for what its transaction has written
(`Holds`); a reversal that marks its original has inserted an entry, and a transaction that commits
has written its record (`Complete`). What `Commit` makes visible is then exactly a pair, or a year
with its periods. Deadlock detection is only used as one more way to roll back: no theorem depends on
which cycles it finds.

`ApiGateProofs.tla` proves, for any requests, tokens, clients, lifetimes, TTL, limit and window:

| Theorem | Statement |
|---|---|
| `TokensTypeCorrect` | `GateSpec => []TokensTypeOK` |
| `LimitTypeCorrect` | `GateSpec => []LimitTypeOK` |
| `WindowIsSliding` | `GateSpec => []SlidingWindow` |
| `QuietClientsAreAdmitted` | `GateSpec => []QuietClientAdmitted` |
| `RefusalIsFinal` | `GateSpec => RefusalFinal` |

from the assumptions of the three modules. A window that holds at most `Limit` requests may hold one
more after the next, so `LimitInv` ties the history to the counter: the key lives for a window after
the last counted request (`KeyLasts`), the running totals stay below the count, and there is nothing
admitted since that request (`Counted`). When a tick drops the key, the totals are therefore all zero.
With a TTL that is set only when the key is created, the lemma that counting renews it fails, and with
it the theorem. `RefusalFinal` goes step by step: a token that is over stays over; an empty cache has
no hit; a row read afterwards is revoked or expired; and a `Cache.Set` needs a request that carries the
token (`EndedBy...` lemmas).

`ShellProofs.tla` proves, for any segments, paths, navigation entries and number of navigations:

| Theorem | Statement |
|---|---|
| `ShellTypeCorrect` | `ShellSpec => []ShellTypeOK` |
| `HighlightIsLocation` | `ShellSpec => []HighlightFollowsLocation` |
| `NewestIsLocation` | `ShellSpec => []NewestShowsLocation` |

from `ShellAssumption`. `ShellInv` adds that flights are numbered up to `serial`, that the newest waits
for the endpoint of the address (`NewestAwaitsLocation`), and that nothing has been counted while the
navigation entries are missing (`NothingStarted`), when `navigate` changes the address and then throws.
`EndpointIsAddress` is the 1:1 mapping of URLs and endpoints, for every address of the documented form.

Only model-checked: the liveness properties `EventuallySettled`,
`EveryRequestEnds`, `EveryActionEnds`, `RevocationTakesEffect`, `AbandonedLockFreed` and
`NavigationSettles`, which need fairness and ENABLED; and that the documented behaviours which the
violation runs refute do fail.

## 6. Not modelled

The component list of `PROJECT.json` names each part and its reason:

* start-up code without concurrency (definitions, compiler, module registry) and the migration
  runner, a wrapper of golang-migrate, which does the locking;
* rendering (server-driven UI, OpenAPI, reports);
* thin clients of other engines (Temporal, Casbin);
* tenant resolution, which reads one row per request and keeps nothing, and `TenantService`, whose
  methods are stubs; entity definitions and hooks without control of their own (organizations,
  settings, flags, mail, notifications);
* the naming series, which the server does not wire into the pipeline. Its counter key contains
  year and month even when the pattern shows neither, so that numbers would repeat after a month;
* the scheduler, which nothing starts. Its Cancel clears a flag that the cron callback never reads;
* the legacy services under `internal/` and `db/`, which the server does not link;
* third-party scripts of the front end (the AMIS SDK, the search of the documentation site) and its
  presentation.
