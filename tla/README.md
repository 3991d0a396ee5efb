# Verification of backend-infrastructure-go

TLA+ models of the parts of this backend whose correctness depends on the order
of steps: background tasks and their schedules, sessions, second factors, codes
sent by mail, users, roles and permissions, the rate limit, the start and the end
of a process, and the circuit breaker. TLC checks the models on small instances;
TLAPS proves the most important properties for every value of the constants.
Paths below are relative to the repository (`src/`).

Contents: [the system](#the-system), [modules](#modules), [runs](#runs),
[fairness](#fairness), [proofs](#proofs), [findings](#findings),
[known limits](#known-limits), [not modelled](#not-modelled), [plan](#plan).

## The system

One Go module builds four processes from `cmd/`: the API, the worker, the
scheduler and the migrator. They share PostgreSQL (durable state) and Redis
(sessions, codes, rate limits, and the Asynq queue). A TypeScript console
(`web/`) calls the API.

| Component | State | Operations | What makes it correct |
|---|---|---|---|
| Task submission and outbox (`pkg/modules/task/service.go`, `pkg/platform/database/taskstore`) | `task_executions`, `task_outbox_messages` | `Submit`, `DispatchPending`, `MarkPublishSucceeded` | what was accepted is published although the API, Redis or PostgreSQL fails between two steps |
| Queue adapter and worker (`pkg/platform/queue`, `internal/app/tasks.go`) | the Asynq task, its retry count, its unique lock, its lease | `Publish`, `ProcessTask`, `HandleError`, the dispatcher's ticker | retries end, exhaustion is recorded, a redelivery does no harm |
| Execution store and processor (`pkg/modules/task`) | status and attempt of an execution | `Process`, `Fail`, `ClaimExecution`, `UpdateExecution` | one handler per attempt, outcomes final and of the latest attempt |
| Refresh sessions (`pkg/modules/iam/refresh.go`, `service.go`) | two Redis keys per session | `Login`, `Refresh`, `Logout`, `Consume`, `RevokeAll` | one session per user, a token is rotated once, revocations hold |
| Authentication service (`pkg/modules/iam/authentication_service.go`, `iamstore/authentication.go`) | settings version, TOTP step, recovery codes, challenges | `Login`, `VerifyLogin`, `PutSecurity`, `Enroll`, `Confirm`, `Disable` | a code or challenge is used once, stale snapshots are refused, a reset invalidates what the old password authorized |
| Email codes and registration (`pkg/platform/authcache`, `authentication_service.go`) | code, attempts and receipt keys | issue, verify, consume, `Register` | five errors end a code, a code registers one user |
| Users, RBAC, bootstrap (`iamstore/repository.go`, `pkg/modules/iam`) | users, roles, bindings | `SetUserActive`, `ReplaceUserRoles`, `BindBootstrapAdmin` | an active administrator always remains |
| Authorization and audit (`pkg/platform/httpserver/iamhttp`, `pkg/modules/iam/service.go`, `internal/app/audit.go`) | roles, role permissions, audit events | `Authorize`, `GrantPermission`, `ReplaceRolePermissions`, `CreateRole`, `DeleteRole`, `record` | who is not entitled changes nothing, a replacement replaces, the trail claims no change that was not made |
| Scheduling (`pkg/platform/scheduler`, `internal/app/tasks.go`) | registered cron entries | `Replace`, the refresh ticker, `ScheduledSubmission` | a schedule fires once per period, a partial failure is repaired |
| Circuit breaker (`pkg/platform/resilience/breaker.go`) | state, generation, failures, probe flag | `Execute`, `State` | late results are fenced, one probe at a time |
| Retry (`pkg/platform/resilience/retry.go`) | none across calls | `Retry`, `nextBackoff` | bounded attempts, no overflow of the delay |
| Lifecycle and stack (`pkg/lifecycle`, `internal/app/stack.go`) | started components, close hooks | `Run`, `Add`, `Close` | everything started is stopped, in reverse order, in bounded time |
| Rate limit (`pkg/httpkit/middleware.go`, `pkg/platform/httpserver`) | sliding window in Redis, buckets in memory | `RateLimit`, `Allow` | never more than the limit within a window |
| Transactions, cache, mailer, configuration, observability, handlers, console | see `PROJECT.json` | | |

How they interact. The API calls `Submit`, which writes PostgreSQL and publishes
to Asynq. Every worker process runs an Asynq server, whose handler calls
`Processor.Process`, and a ticker that publishes the outbox rows the API left
behind. The scheduler registers cron entries, which Asynq turns into tasks that
call `Submit` in turn. Every process is built, served and stopped by
`lifecycle.Run`; the containers restart it when it ends. Every API request
passes `RateLimit` and, on protected routes, `Authenticate` and
`RequirePermission`, which read the account and its permissions again. The authentication service reads PostgreSQL, keeps codes
and challenges in Redis and opens sessions through the refresh store; user
management revokes them through the same store. There are no shared locks
between processes: they meet in SQL statements (whose `WHERE` clauses are
compare-and-set), in row locks of transactions, and in Lua scripts.

What is hard here, and what the properties are for, is listed line by line
under `hazards` in `PROJECT.json`: statements whose reply is lost, deliveries
repeated by the queue, goroutines that outlive their deadline or lease, values
read several round trips before they are used, batches aborted half way,
processes that stop between two steps.

## Modules

| Module | Models | Role |
|---|---|---|
| `TaskPipeline` | submission, outbox, dispatcher, worker, processor, failure handler | specification |
| `TaskExecution` | what clients may rely on of one execution row | abstract specification, implemented by `TaskPipeline` |
| `MCTaskPipeline` | constants of the task runs | TLC |
| `MCTaskSubmission` | a store with an outbox or one without, in one run | TLC |
| `TaskPipelineProofs` | | theorems |
| `RefreshTokens` | the refresh store's scripts and the requests around them | specification |
| `MCRefreshTokens` | constants of the session runs | TLC |
| `RefreshTokensProofs` | | theorems |
| `SecondFactor` | the security row of a user, its login challenges and the requests that read and write them | specification |
| `MCSecondFactor` | symmetry of the second-factor runs | TLC |
| `SecondFactorProofs` | | theorems |
| `EmailCodes` | codes sent by mail, registration and verification of addresses | specification |
| `MCEmailCodes` | settings, symmetry and horizon of the email runs | TLC |
| `EmailCodesProofs` | | theorems |
| `AdminGuard` | bootstrap of the first administrator, and the management of users and their roles lock by lock | specification |
| `AdminGuardProofs` | | theorems |
| `CircuitBreaker` | the breaker and its callers | specification |
| `Lifecycle` | a process from its builder to its exit: `Stack` and `lifecycle.Run` | component specification |
| `Scheduling` | `Refresher`, `AsynqRegistrar` and `schedulerRuntime.Run` | component specification |
| `SchedulerProcess` | the scheduler process: `Scheduling` as a component of `Lifecycle` | composition |
| `SchedulerProcessProofs` | | theorems |
| `AccessControl` | authorization, roles, their permissions and the audit events | specification |
| `MCAccessControl` | symmetry of the access run | TLC |
| `AccessControlProofs` | | theorems |
| `RateLimiter` | `RateLimit` over the Redis sliding window | specification |
| `MCRateLimiter` | symmetry of the rate run | TLC |
| `ResilienceProofs` | `CircuitBreaker` and `RateLimiter` | theorems |

Operators whose names end in a suffix after an underscore and whose comment says
"Faulty variant" are mistakes one could make in the code. No specification uses
them; each is listed under `mutants`, and substituting it for the definition it
precedes makes the named property fail.

### TaskPipeline

Every SQL statement and every Redis call is one step. A queue id is a fresh
UUID, so an execution row, its outbox row and its Asynq task share an
identifier.

* `status`, `attempt` are the columns of `task_executions`; `outbox` is
  `published_at` of `task_outbox_messages` (`none` before the row exists), and
  `rank` the order of `created_at`.
* `submit[e]` is the program counter of `SubmissionService.Submit`;
  `disp[w]` is one `DispatchPending` call: its counter, the rows it listed and
  those it saw queued. `OutboxStores` says whether the store of a
  `SubmissionService` may implement `OutboxStore`: the submission creates an outbox row or not,
  and `Outboxed(e)` tells the two apart from then on.
* `run[s]` is a slot of an Asynq server. A slot has two goroutines, the handler
  (`h`: `Process`, statement by statement) and the one that waits for it (`a`:
  Asynq's processor and `HandleError`), because Asynq stops waiting when the
  context ends or the lease is lost while `Process` runs on. The attempt number
  `n` is `Retried + 1`, as `ProcessTask` computes it.
* `queue`, `retried`, `lock` are Asynq's. Asynq is a library, so its part is
  modelled from how the code uses it and marked external: a task id that is
  still known is a conflict (which `Publish` turns into success); the unique lock
  is tested before the id; retry and scheduled sets are one state, `pending`; an
  archived task is never run again; the recoverer takes an active task without
  a lease, retries or archives it, and calls no error handler; a worker without
  a lease writes nothing.
* `enqueued` and `faults` are bookkeeping: the tasks that ever reached Redis,
  and the number of failures so far. `Fault(kind)` is the guard of every step
  that goes wrong. A failed statement may have taken effect or not.

| Action | Code |
|---|---|
| `SubmitReject`, `SubmitCreate`, `SubmitPublish`, `SubmitMark`, `SubmitFail` | `Submit` with and without an outbox store |
| `SubmitCrash`, `Crash` | the API or a worker process stops |
| `DispatchList`, `DispatchPublish`, `DispatchMark` | `OutboxDispatcher.DispatchPending` |
| `Dequeue`, `GetExecution`, `ClaimExecution`, `Handle`, `MarkSucceeded`, `MarkCancelled` | `AsynqHandler.ProcessTask` and `Processor.Process` |
| `TakeResult`, `TakeContextDone`, `TakeLeaseLost`, `FailGet`, `FailUpdate`, `Archive` | Asynq's processor with `FailureHandler.HandleError` and `Processor.Fail` |
| `Expire`, `LoseLease`, `Abort`, `Recover`, `LockExpire` | deadlines, leases, forced shutdown, the recoverer, lock expiry |

The cleanup context of `MarkCancelled` and `Fail` is a fresh one with a
timeout; that it expires is the fault kind `db`. Failed statements on the outbox
(creation, mark) are a kind of their own, since they do not keep an execution from
finishing.

`TaskExecution` says the same of one row in six actions: claims take increasing
attempt numbers, an outcome is written by the latest attempt only, `failed` only
by the last one. The refinement mapping keeps `status` and `attempt` and maps
`handlers` to the attempts of the slots that are past their claim
(`Holding`).

### RefreshTokens

A session is `tokenKey[t] = u` and `userKey[u] = t`. Each Lua script is one
operator (`Replace`, `Rotate`, `Revoke`, `Consume`, `RevokeAll`) and one step.
What the service does before and after a script (`Lookup`, the `SELECT` of the
user, the `UPDATE` after `RevokeAll`) are steps of their own; `req[r]` holds
what a request has read. `Reply` loses the answer to a script that stored a
token; `Abandon` ends a request between two steps. Passwords are counted
instead of hashed. `revs`, `epoch` and `parent` are history variables: how
often a user was revoked, since when a token's session exists, which token it
replaced. Redis expiry removes both keys
at once, because one script writes both with the same `PX`; the millisecond
between two lazy deletions is not modelled.

### SecondFactor

One user: users share no row of `user_security_settings`, and the only table
they share, `authentication_consumptions`, is keyed by challenge. Every
statement, transaction and Redis script is one step; a request carries in
`req[r]` what it has read, and the `version` column decides whether a later
write still applies.

* `row` is the row of `user_security_settings`: `TOTPEnabled` is
  `row.secret # NoSecret`, as in `securityFromDB`; secrets are numbered in the
  order they are drawn. `verified` is `users.email_verified_at`, `password`
  counts the resets.
* `challenge[c]` is the hash in Redis (`version`, `attempts`), `consumptions` the
  rows `challenge:<digest>`, `clock` the 30 second step of `Crypto.Verify`.
  `late` holds the enrollments and the batches of recovery codes whose expiry
  has passed.
* A TOTP code is the pair (secret, step), a recovery code the pair (batch,
  position), so a code verifies exactly if it was computed from what the
  service checks it against; that two steps have the same six digits is left
  out.
* `spent` and the field `password` of a challenge are history: the proofs that
  were accepted, and the password that authorized a challenge.

| Action | Code |
|---|---|
| `LoginCredentials`, `LoginSecurity`, `LoginRecheck`, `LoginIssue` | `Login` in mode `totp` and `challengeStore.Issue` |
| `VerifyAttempt`, `VerifyProof`, `VerifyConsume`, `VerifyDelete` | `VerifyLogin`, `challengeStore.Attempt` and `Consume`, `ConsumeCredential` |
| `PutUser`, `PutRead`, `PutSave` | `PutSecurity` and `SaveSecurity` (with the recheck under the lock in `MaySave`) |
| `EnrollUser`, `EnrollRead`, `EnrollSave`, `ConfirmRead`, `ConfirmSave` | `Enroll` and `Confirm` |
| `DisableProof`, `DisableConsume`, `DisableSave` | `Disable` |
| `ResetPassword`, `ChangeEmail`, `VerifyEmail` | `Store.UpdateUserPassword`, `Store.UpdateUser`, `AuthenticationStore.VerifyEmail` |
| `Abandon` | every refusal, conflict and error between two steps |
| `Tick`, `Lapse`, `ExpireChallenge`, `Prune` | clocks, expiries, `PruneAuthenticationConsumptions` |

A request that is refused changes nothing, so refusals that rest on state the
module does not have (a wrong password, an inactive account, the global
settings) are `Abandon` too. The sessions a login opens and `Disable` revokes
are those of `RefreshTokens`.

### EmailCodes

A code is a hash in Redis, `code[<<mail, purpose>>]` (`id`, `errors`, and its
expiry `until`); that it was used is a row of `authentication_consumptions`,
`consumed`. The two are written by different statements, in the order: verify
(Redis), commit (PostgreSQL), clean up (Redis). Between them a request holds its
`receipt` in `req[r]`.

| Action | Code |
|---|---|
| `Issue`, `IssueRefused` | `RequestEmailCode`, `RequestEmailVerification`, `issueScript` (`Counted`, `StoreCode`) |
| `LoginCode` | `VerifyAndConsume`, called by `Login` in email mode |
| `RegisterRead`, `VerifyEmailRead`, `Verify` | what the service reads before the transaction, and `Store.Verify` |
| `RegisterCommit`, `VerifyEmailCommit` | the transactions of `AuthenticationStore`; `Accept` is the receipt in them |
| `Cleanup`, `Abandon` | `Store.Consume` after the commit; every refusal, failure or lost reply |
| `PutSettings`, `CreateUser`, `ChangeEmail`, `Tick` | an administrator, the user's profile, time |

Time is counted in ticks, which stand for any unit: what matters is the order of
expiries. `MaxLatency` is how many ticks may pass between `started` and the run of
`verifyScript`, which is by how much the expiries of two receipts of one code may
differ. The code bounds it by nothing but the timeouts of its calls. A use is recorded
with the expiry of its own receipt and pruned when that has passed, so a second
receipt of the code that expires later is accepted in between, if the code is
still in Redis: `AcceptedOnce`, which the comment in `VerifyEmail` and the documents
promise, is violated (run `email_code_replay`, see Findings). What holds is
`SecondUseLate`: a receipt with `MaxLatency` or more left is never the second one, so
a code is replayable only as long as two calls of `Store.Verify` differ, at the end
of its life. With `MaxLatency <= 1` that is never (the receipt is compared strictly,
the pruning is not), so the runs have 2.
A transaction is one step, because it holds the row of the settings or of the
user from its first read to its commit. `uses`, `wrong`, `matched` and `proved`
are history: how often a code was accepted, how many wrong ones were tried
against it, which codes were presented correctly, which address an account's
code was sent to.

### AdminGuard

`LockSystemAdminRole` and `LockActiveSystemAdministratorIDs` are what keeps two
administrators from removing each other, so every lock is a step: the row of the
role, then the rows of the administrators that the statement's snapshot has
found, one by one and each evaluated again when it is locked (READ COMMITTED).
`held` says who holds which lock, `tx[r]` what a transaction has read and what it
has written to `user_roles` and not committed (`inserted`, `deleted`).

Locks are modelled from PostgreSQL's documented behaviour and marked external.
`SELECT ... FOR UPDATE`, `DELETE` and an `UPDATE` of a key (`Take`) conflict with each other and
with the `FOR KEY SHARE` of a foreign key's check (`Share`); an `UPDATE` of another
column, such as `is_active`, conflicts with the former only (`Writable`). A row that
was inserted or deleted is locked until its transaction ends: a `DELETE` waits
for those who have deleted the row, and does not see what others have inserted; an
`INSERT ... ON CONFLICT DO NOTHING` waits for both. It puts its row in place first;
the foreign keys are checked at the end of the statement (`ReferenceUser`, then
`ReferenceRole`), with the row in place, which is what closes the circles
described under Known limits. `WaitsFor` is the graph that PostgreSQL's deadlock
detector looks at, and `Circle` what it looks for.

| Action | Code |
|---|---|
| `Seed`, `AssignUserRole`, `CommitRoles` | `SeedBootstrapAdmin`, `BootstrapAdmin`, `BindBootstrapAdmin` |
| `FirstLogin`, `Initialize` | the branch of `Login` before the initialization |
| `Begin`, `LockSystemAdminRole`, `ListAdministrators`, `LockAdministrator` | the beginning of `Store.SetUserActive(false)` and `Store.ReplaceUserRoles` |
| `Deactivate` | the `UPDATE` and the commit of `SetUserActive(false)` |
| `ReplaceUserRoles`, `DeleteRow`, `AssignUserRole`, `ReferenceUser`, `ReferenceRole`, `CommitRoles` | `DeleteUserRoles` row by row, every `AssignUserRole` with its foreign keys, the commit |
| `AssignRole`, `ReferenceUser`, `ReferenceRole`, `CommitRoles` | `Store.AssignRole`, a statement without a transaction around it |
| `DeleteRole`, `DeleteRow`, `CommitRoles` | `Store.DeleteRole` and its `ON DELETE CASCADE` |
| `Create`, `Activate` | single statements, or rows nobody else can see |
| `LockFirst`, `LockSecond`, `Commit` | `withLockedSecurity` with `UpdateUser` or `UpdateUserPassword`, and `VerifyEmail` |
| `Rollback`, `Refuse`, `DetectDeadlock` | an error or a cancelled context; the refusals; PostgreSQL's detector |

Left out: that the first `EnsureSecuritySettings` of a user inserts the row it then
locks, the cascade of `DeleteRole` to `role_permissions` (`AccessControl` has it), and
`CreateRole`, so a role that was deleted does not come back.

The initial state is that of a new installation or of one whose accounts are
older than the migration of the settings, which binds nobody.

### CircuitBreaker

The five fields of the struct, with `now() - openedAt` counted in ticks up to
the timeout, and what each caller carries from `acquire` to `record`: whether it
runs and with which generation. `Finish` is the deferred `record`, for the three
classes of result the code tells apart; a panic is an error. `State` is the call
that advances the state without admitting anybody.

### Lifecycle, Scheduling and SchedulerProcess

`Lifecycle` is `Execute` of any role: `phase` says where it is, `open` and
`closers` are the resources and the stack, `run[c]` the goroutine of a component,
`results` the channel they return into, `hook[c]` the goroutine of a Shutdown
hook. The component `Owner` closes the stack in its hook; the others are
arbitrary, as `lifecycle.Run` treats them.

| Action | Code |
|---|---|
| `OpenResource`, `BuildFails`, `AbortClose` | the builders, `Stack.Add`, `closeBuildResources` |
| `StartComponents`, `Return`, `PeerEnds`, `PeerFails` | the goroutines of `lifecycle.Run` |
| `SelectParent`, `SelectResult` | its first `select`; `context.Canceled` is no error once the context is cancelled |
| `HookClose`, `HookReturns`, `SelectHook` | the hooks, in reverse order, and `Stack.Close` |
| `Expire`, `SelectExpired`, `SelectStopped` | the one timeout over hooks and goroutines |
| `Signal`, `Restart` | SIGTERM, `restart: unless-stopped` |

`Scheduling` is the scheduler role. `db` is what `ListEnabledTaskSchedules` would
return, `entries` the map of the registrar, `cron` the entries Asynq really has:
what the three have to do with each other is the question. A content and its
fingerprint are one number.

| Action | Code |
|---|---|
| `Enabled`, `Unchanged`, `Register`, `Swap`, `SwapFails`, `Undo`, `Remove`, `Replaced` | `Refresher.Refresh` and `AsynqRegistrar.Replace`, call by call |
| `Start`, `Tick`, `Cancel`, `Fail`, `Breaks` | `schedulerRuntime.Run` and a call that fails in it |
| `Edit` | a schedule or its definition is changed meanwhile |

`SchedulerProcess` composes them: the goroutine of `Owner` takes the steps of
`Scheduling` until it sees the cancelled context, while the hook may already close
the pool under it (`ServeClosed`), and `Reboot` starts both afresh.

### AccessControl

`req[r]` is a request from the access token to the audit event. The account and
its permissions are read by two statements (`RequireActiveUser`, `Authorize`), and
the statements of an operation are steps with the row locks that make them wait:
an inserted or a deleted row of `role_permissions` stays locked until the commit, an
insert shares the row of its role, a `DELETE` waits for rows that others
have deleted and passes over them when they are gone. A change becomes visible with
its commit. `entitled`, `effective` and `met` are history: whose user was active
and held the permission while the request was under way, which changes were
committed, and what overlapping requests for the same role asked for.

| Action | Code |
|---|---|
| `Begin`, `RequireActiveUser`, `Authorize`, `Deny` | `Authenticate`, `RequirePermission`, `Service.Authorize`, `ListUserPermissions` |
| `Refuse`, `CreateRole`, `GrantPermission`, `DeleteRole`, `Cascade` | the operations of `iamstore.Store`, with `ON DELETE CASCADE` |
| `ReplaceBegin`, `ReplaceDelete`, `ReplaceInsert`, `ReplaceCommit` | `ReplaceRolePermissions` |
| `Record` | `auditedIAM.record` and `BestEffortRecorder.Preserve` |
| `SetUserActive`, `ReplaceUserRoles` | user management, whose locks are in `AdminGuard` |
| `DetectDeadlock` | PostgreSQL fails one of the requests that wait for each other |

### RateLimiter

One client. `zset` is the sorted set of the script and `expires` the end of its
key; `skew[p]` is by how much the clock of process p is ahead, `req[r].now` what
it said when `Allow` read it. `Allow` and `Deny` are the two outcomes of the script
and what the middleware makes of them; after either the reply may be lost, upon
which the Redis client repeats the call or gives up (`Lost`, `OnError`).
`Arrive` and `Retry` are the client, which comes back when `Retry-After` has
passed. `TimePasses` is the clock, and the expiry of the key with it.
`served` and `quiet` are history: when a critical route served each request,
and the denied requests since whose denial nothing was admitted.

## Runs

| Run | Instance | Properties | Shows |
|---|---|---|---|
| `task_claims` | 1 execution with 1 retry and a unique lock, created with an outbox row or without, 2 slots, 1 dispatcher, up to 3 failures of all 9 kinds, slots symmetric | `ClaimExclusive`, `RetriesExact`, `PublishedMeansEnqueued`, `OutcomeFinal`, `ImplementsTaskExecution` | redeliveries, stale handlers and republished rows do not disturb a claim, a retry count or an outcome |
| `task_submission` | 2 executions (one retry, none), one unique lock, batch of 1, 1 failure of the API, of a publish or of the outbox; or no outbox store, 2 submissions with one idempotency key, one unroutable, 2 failed publishes | `OutboxDrains`, `OutboxFinishes`, `FallbackFinishes` | no outbox row is lost or starved, and what is accepted gets an outcome: the purpose of the outbox, and the fallback path of `Submit` |
| `task_exhaustion_sync` | 1 execution, 1 failed statement | `ExhaustionSynchronized` (violated) | see Findings |
| `breaker` | 3 callers, threshold 3, timeout 2, 8 generations | `ProbeAccounted`, `OpenIsQuiet`, `BelowThreshold`, `Recovery`, `ProbeEnds` | late results and concurrent probes |
| `refresh_tokens` | 2 users, 3 tokens, 2 requests | `IndexConsistent`, `RevocationHolds`, `RotatedOnce`, `OthersUntouched` | interleavings between a `Lookup` and its script |
| `second_factor` | 2 requests, 1 challenge with 2 attempts, 1 secret, 1 recovery code, 2 time steps, 1 reset, 4 versions; all operations | `SpentStaysSpent`, `ChallengeBound`, `ModeMatchesSecret`, `EmailModeVerified`, `ProofAcceptedOnce`, `FactorKept` | a proof is used once, a reset ends what the old password authorized, whole-row writes from stale snapshots are refused |
| `email_codes` | 2 requests, 1 account, 1 address, 3 purposes, 2 codes, 3 settings, latency 2, 4 ticks (3 with both codes) | `TypeOK`, `VerifiedMailbox`, `SecondUseLate`, `RegistrationPolicy`, `NewerCodeSpared`, `GuessesBounded` | settings and addresses that change under a request, right and wrong codes in any order, a cleanup that comes late or never, a record that is pruned before the last receipt has expired |
| `email_code_replay` | 2 requests, 1 code to verify an address, latency 2 | `AcceptedOnce` (violated) | see Findings |
| `admin_guard` | 2 accounts, 2 requests, 2 roles | `AdministratorRemains`, `TransactionsEnd` | administrators who remove each other; circles of waiting go through a replacement of roles only |
| `scheduler_process` | 2 components, 2 resources, 2 schedules with 2 contents, 1 edit of any of them, 1 failure or signal, restarts without bound | `RegistrationsExact`, `CleanExit`, `StopEnds`, `ChangesReach` | no schedule fires twice or is forgotten by a refresh that fails half way; a process that stops ends, clean unless its timeout cut it short |
| `access_control` | 2 accounts, 2 requests, 2 roles, 2 permissions, 1 change of an account | `EffectsAuthorized`, `TrailTruthful`, `SupersededGone` | permissions read in statements of their own, replacements that overlap with grants and deletions, lost replies |
| `rate_limit` | 3 requests, 2 processes, limit 2 in a window of 4 ticks, skew 1, delay 1, 8 moments | `WindowBound`, `RetryAfterSuffices` | clocks that disagree, calls that arrive late, are repeated or lost |

Why the bounds are enough. An execution interferes with another one only
through a slot, the dispatcher's batch and the idempotency key; the claims run
therefore has one execution and all failures, and the submission run has two
executions and a batch that holds one of them. Two slots are the smallest
number in which a stale handler meets its successor, and one retry the smallest
in which the attempts differ. Three failures allow a lost reply, a redelivery
and a crash in one behaviour. Three tokens let a session be replaced or rotated
twice, two requests are what a race takes, and the second user shows that
scripts do not reach across users. Three callers with a threshold of three
let a failure be counted while an older call is still running; eight generations
are two full rounds through open, half-open and closed with two failed probes.
Every write of the security row raises its version, so `MaxVersion` bounds the
number of writes: four are an enrollment, its confirmation, a use of the factor
and a stale write, a reset or a disabling after it. Two attempts let two answers to
one challenge overlap, and two time steps give a code of the current and of the
next step. That a factor is disabled and enrolled again is covered by the proofs.
A code is replaced once (two codes) while it is alive; its life, the
cooldown and the window all end within `MaxTime`, and a code of the first tick can be
accepted twice (`Horizon` ends behaviours with two codes a tick earlier); an address changes to one
outside the model and back. Two transactions suffice for a race and for a circle
of locks, as every transaction locks one user and all administrators; circles of more
are covered by the proof.
Two schedules are what it takes for one failed call to leave one schedule
refreshed and the other not, and two contents for one to replace the other; one
failure ends a refresh, and the process then starts from nothing. Two requests
for the permissions of a role are what it takes to overlap; the initial states hold every
assignment of permissions to a role and of roles to accounts. Three requests
against a limit of two are the smallest number that can exceed it, and a window
of four ticks less the skew and the delay still holds two moments.
The bounds `MaxFaults`, `MaxGeneration`, `MaxRevocations`, `MaxResets`,
`MaxSecrets`, `MaxClock`, `MaxVersion`, `MaxChanges` and `MaxEdits` are constants
of the modules; the theorems hold for all their values.

Deadlock is checked in all runs but two. `TaskPipeline` may stutter
when nothing is left to do (`Rest`), so a deadlock is a pipeline that is stuck
with work left; `AccessControl` may when every request is done, so no request
waits for a lock for good. The breaker run ends at its bound on generations and
the rate run at the end of its clock; they do not check deadlock.

## Fairness

* `TaskPipeline!Fairness`: a `Submit` call goes on; the dispatcher's ticker
  fires (`runOutboxDispatcher`); the Asynq server takes pending tasks, its
  recoverer runs and locks expire (they have a TTL); a handler and the goroutine
  that waits for it take their next step, since handlers run under a deadline.
  Weak fairness suffices: none of these steps is disabled by others again and
  again. Nothing is assumed of failures, which are bounded in number by
  `MaxFaults`, nor that a client submits anything.
* `AdminGuard!Fairness`: a transaction proceeds if again and again the lock it
  waits for is free (strong fairness, as PostgreSQL queues waiting
  transactions). The deadlock detector is assumed for a `ReplaceUserRoles` that is part
  of a circle (`DetectDeadlock`; PostgreSQL runs it after `deadlock_timeout`), and for
  nothing else: a circle without one would not be repaired and `TransactionsEnd`
  would fail.
* `SchedulerProcess!Fairness`: the goroutines of the runtime take their next step,
  timers fire (the ticker of the refresh and the shutdown timeout) and the
  container restarts a process that has exited. Nothing is assumed of the other
  component or of a hook, which may hang; failures, signals and edits are
  bounded in number. `AccessControl` and `RateLimiter` state safety only.
* `CircuitBreaker!Fairness`: an operation that runs ends, and `Execute` records
  in a deferred call. Neither callers nor the clock are fair.

`AcceptedFinishes` (as `OutboxFinishes` and `FallbackFinishes`) is checked with failures
of the API, of publishes and of the outbox only.
With worker failures it does not hold, as a crash on the last attempt leaves an
execution running for good (nothing reaps it); the documents do not promise
otherwise, and the hazard is listed.

## Proofs

All theorems hold for any finite number of executions, any workers, slots,
retries and bounds (`ConstantsAssumption`), any users, tokens and requests
(`RefreshAssumption`), any requests, challenges, secrets, steps and versions
(`SecondFactorAssumption`), any accounts, addresses, codes, limits and settings
(`EmailCodesAssumption`), any accounts,
requests and roles (`AdminAssumption`), any callers, threshold and timeout
(`BreakerAssumption`), any users, roles, permissions and changes
(`RolesAssumption`, `PermissionsAssumption`, `ChangesAssumption`), any number of
components, resources, schedules, contents, edits and failures
(`ComponentsAssumption`, `ResourcesAssumption`, `SchedulesAssumption`,
`BoundsAssumption`), any requests, processes, limit, window, unit of
`Retry-After`, skew and delay (`LimitAssumption`, `WindowAssumption`,
`TimingAssumption`).

* `TaskPipelineProofs`. `TypeCorrect`, `ClaimsExclusive`, `OutcomesFinal`,
  `RetriesStayExact`, `PublishedWereEnqueued`, `Implements`,
  `AcceptedNeverForgotten`, `ExhaustionsSynchronized`.
  `ClaimExclusive` is not inductive: that two slots hold the same attempt is
  excluded only if a slot that holds attempt n knows that the recorded attempt
  has reached n. The invariant adds that `Holding(s)` implies
  `attempt[exec] >= n`; a claim of n needs `attempt < n`, so nobody holds n when
  it succeeds, and the recorded attempt never decreases. `RetryInv`, for
  `RetriesExact`: no task was retried more often than `MaxRetries`, the failure
  handler runs only for a task that has exhausted them, and a submission fails its
  execution only if it has no outbox row (`FailsUnpublished`), which it has only from a
  store without an outbox (`PlainRows`). `OutboxInv`, for
  `PublishedMeansEnqueued`: the places of outbox rows are distinct, whatever is in
  the queue, in a slot or past queued was enqueued, and so was the row a
  dispatcher is about to mark. With `RetryInv` every step is shown to be one of
  `TaskExecution` or to leave its variables alone (`StepImplements`). The last two
  assume `ReliableWorkers`, the failures of the run `task_submission`: the API, publishes
  and the outbox may fail, workers do not. `AttendedInv` says where an enqueued
  execution without an outcome is (`Attended`): in the queue with as many retries as
  attempts, or with the one slot that has its task, before the claim of the next
  attempt or past it with the attempt of the row. So a claim never fails, an error is
  retried or recorded, and a row whose task is enqueued again is done or still in
  hand. The first of them, `AcceptedNeverForgotten`, also assumes that every store has an
  outbox. Neither theorem holds if a worker may fail (see Findings and Known limits).
* `RefreshTokensProofs`. `TypeCorrect`, `IndexStaysConsistent`,
  `RevocationsHold`, `TokensRotateOnce`, `OthersStayUntouched`. The invariant
  adds what a request has read (its user and token exist), that a token not yet
  drawn has no key and no successor, and that a rotated token has none. Every
  step is shown to leave the keys alone, to close sessions, or to open one with
  a fresh token; each part of the invariant is proved for those three
  cases instead of for every action.
* `SecondFactorProofs`. `TypeCorrect`, `ModesMatchSecrets`,
  `EmailModesVerified`, `FactorsKept`, `SpentProofsStaySpent`,
  `ChallengesBound`, `ProofsAcceptedOnce`. The strengthening is what the version column is for: as
  long as a request's version is still the row's, the row is what the
  request has read (`RequestOK`), so a write that passes the comparison writes
  back nothing old; and no request or challenge carries a version ahead of the
  row's. Added to it: secrets in force or pending have been drawn, a batch of
  recovery codes is older than the row, and so is every batch that was used.
* `EmailCodesProofs`. `TypeCorrect`, `MailboxesVerified`, `RegistrationsObey`,
  `NewerCodesSpared`, `GuessesStayBounded`, `SecondUsesLate`. The invariant
  (`CodeInv`) says that a code in Redis was drawn for one key only, is not over and
  counts the errors that were made against it, and that a request has a receipt
  only of a code that was presented. For `SecondUseLate`, whatever `MaxLatency` is
  (`Once`): the expiries of two receipts of a code are at most `MaxLatency` apart, so
  as long as a receipt, or the code, has that much left, a use of the code is
  recorded with an expiry that is not over; and a login code, which leaves no record, has
  no receipts and is deleted with its use.
* `AdminGuardProofs`. `TypeCorrect`, `AdministratorsRemain`, `BindingsStable`,
  `CirclesThroughReplacements`.
  The invariant (`GuardInv`) says which locks a request holds at every point
  (`LocksOK`), and that a request that has listed the administrators holds the
  lock of the role, alone, and that those it has listed are administrators until
  it ends (`ListHolds`): whoever is counted cannot be removed by somebody else in
  between. While a replacement deletes and inserts rows one by one, one of those it has
  counted keeps the role (`LeavesOne`). For the first login: who is bound has the
  role, and who is about to complete the login is an active administrator.
  `CirclesThroughReplacements` ranks transactions by what they may still wait for
  (`Rank`): unless one of them is a replacement past its checks, a transaction waits
  only for those of a lower rank, through locks (`LockRank`) and through rows of
  `user_roles` (`RowRank`), and the least rank of a circle contradicts it.
* `ResilienceProofs`, the breaker. `TypeCorrect`, `ProbesAccounted`,
  `OpensQuietly`, `StaysBelowThreshold`, `RecoversInOrder`. The invariant adds that
  no call carries a generation ahead of the breaker's, which is why a change of
  generation leaves no current call.
* `ResilienceProofs`, the rate limiter. `LimiterTypeCorrect`, `LimiterBounded`,
  `WindowsBounded`, `RetriesSuffice`. `WindowBound` counts served requests and the
  script counts entries, so the invariant (`LimiterInv`) ties the two: as long as
  a served request lies in the span (the window less skew and delay), the sorted
  set holds an entry of it and its key does not expire (`ServedKnown`). No call is
  older than `MaxDelay` and none is ahead by more than `MaxSkew` (`CallsTimely`), so
  no script prunes such an entry. When a request is served, those served
  before it in the same span are no more than the entries the script has counted
  (`RequestsCounted`: the entries map onto the requests), which are fewer than
  `Limit`. For `RetryAfterSuffices` the invariant says of everybody who was denied, and
  since whose denial nothing was admitted, that there is room when the delay is over
  (`QuietRoom`): the set is not full or its oldest entry is pruned by then. That a
  set of scores has a least one (`Least`) is the well-foundedness of the naturals, and
  `RetrySeconds` rounds up (`WholeSeconds`).
* `AccessControlProofs`. `TypeCorrect`, `OnlyEntitledPass`, `TrailsTruthful`,
  `ReplacementsSupersede`. `SupersededGone` needs most: the invariant says at
  every point of a replacement that what its role holds is about to be deleted,
  was asked for, or belongs to a request that overlapped (`Fits`), and that
  requests pending for one role know of each other (`AllMet`). For
  `EffectsAuthorized` it suffices that whoever is entitled now is recorded
  (`EntitledNow`), as the permission is found by one statement that looks at the
  account as well. Steps are of three kinds, and each is shown to keep the
  invariant: a request moves on, a change commits, a request begins.
* `SchedulerProcessProofs`. `TypeCorrect`, `RegistrationsStayExact`,
  `ExitsClean`. A step belongs to one component and leaves the other alone, but
  for the restart, so there is one invariant for each. Scheduling:
  `RegistrationsExact` speaks of what the registrar knows; the invariant says at
  every point of a refresh what Asynq holds, one entry of each noted schedule
  (`Exact`) or two of the one that is being replaced (`Doubled`), and that the
  schedules the loop has visited are noted. Lifecycle: the stack holds what is
  open in the order of opening, hooks are called one after another from the last
  (`HooksInOrder`), and the hook of the owner returns with an empty stack.

Only model-checked: the liveness properties (`OutboxDrains`, `OutboxFinishes`,
`FallbackFinishes`, `ProbeEnds`, `TransactionsEnd`, `StopEnds`, `ChangesReach`; fairness
is out of the prover's reach). For two of them the safety they rest on is proved:
`NothingForgotten` for `OutboxFinishes`, and `CirclesReplace` for `TransactionsEnd`.

## Findings

* `task_exhaustion_sync`: `Processor.Fail` accepts a queued execution
  (`ValidateTransition`) but updates `WHERE status = running`. If the last
  attempt fails before its claim, for which one failed `SELECT` is enough, the
  update conflicts, Asynq archives the task and the execution stays queued.
  The tests and `docs/plans/SP-06-task-asynq.md` say that exhaustion is
  synchronized to PostgreSQL.
* `email_code_replay`: two requests verify the same code, and the call of one takes
  longer, so its receipt expires earlier. It is accepted, and its cleanup of Redis
  is late or fails. When its receipt has expired, the transaction of the other request
  prunes the record of the use (`pkg/platform/database/iamstore/authentication.go:277`)
  and accepts the same code again. The comment at
  `pkg/modules/iam/authentication_service.go:493` says that the durable receipt
  prevents replay even if the cleanup fails, and `docs/authentication.md` (lines 36
  and 84) says so as well. The window is the difference of the two calls.

## Known limits

What reading the code against its documents has shown and no property states:

* `ResetUserPassword` revokes the sessions before it writes the new hash, and
  `Login` stores its token without looking at the password again. A login that
  overlaps the reset keeps a session opened with the old password;
  `api/openapi.yaml:347` says that the operation revokes the user's sessions.
  `RevocationHolds` is about the sessions that existed before.
* `Enroll` verifies the password, then reads the security row and its version,
  and does not look at the user again (as `Login` does). A reset between the two
  reads does not stop the enrollment, although the comment at
  `pkg/platform/database/iamstore/repository.go:202-203` says that it invalidates
  enrollment authorized by the old password.
* Two overlapping `ReplaceRolePermissions` may leave the union of what they asked
  for, since neither `DELETE` sees what the other inserts, and PostgreSQL may fail
  one that inserts in the opposite order; `api/openapi.yaml:596` calls the
  replacement atomic. `SupersededGone` is therefore stated up to overlapping
  requests.
* `AssignRole(u, x)` and `ReplaceUserRoles(u, {admin, x})` of an administrator u can wait
  for each other: the former has inserted its row and waits for the row of u that the
  latter has locked, whose `INSERT` waits for that row. A seed of the account and the
  cascade of `DeleteRole` close the same circle with a replacement. PostgreSQL ends one
  of the requests with an error, after which the other goes on; without a
  replacement no circle closes.
* A refresh that fails once ends the scheduler process, which relies on the
  container to start again; that is what `ChangesReach` shows to be sound, and
  why it needs the restart.
* A worker that dies on the last attempt leaves an execution running; a context
  error before the claim revokes a task whose execution is still queued; a
  scheduled dispatch that is repeated after `Submit` took effect submits twice.
  No document promises otherwise.
* The sliding window counts by the clocks of the API processes, so `WindowBound`
  is about a window less their skew and the delay of a call. With equal clocks and no
  delay it is the whole window.

## Not modelled

* Cryptography (passwords, JWT, TOTP codes) and SMTP are outside what a model
  checker can say.
* Configuration, logging, metrics, response formatting, decoding of requests and
  generated scanning of rows keep no state of their own; migrations are run by a
  tool and enter the models through their constraints.
* The in-memory rate limiter and `resilience.Retry` are used by no process of the
  repository (tests and local development only).
* Audit listing and paging read rows and their count in two statements and
  change nothing. Names and descriptions (`UpdateRole`, preferences) take part in no
  property.
* The console keeps no state the backend relies on; its shared refresh would be a
  module of its own.

## Plan

Every part with state of its own that several processes or goroutines reach is
modelled, and every safety property of a passing run is proved.
Left to prove is the safety that the other
liveness properties rest on: that a stopping process is never stuck (`StopEnds`), and
that what a refresh has read is registered before the next one (`ChangesReach`).
