# Verification of issuerd

issuerd is an identity provider (OpenID Connect, OAuth 2, an admin API, user
federation and an MCP server for agents) written in Rust. Its nodes are
stateless: whatever two requests have to agree on is either in the database or
in a shared cache. Every handler is an `async` function that touches this
shared state in several awaits, on any node, at any time, and that may be
dropped between two of them. This directory holds TLA+ models of the places
where that matters, TLC configurations that check them on small instances, and
TLAPS proofs about most of them.

Paths below are relative to the repository. `PROJECT.json` maps every
definition that models code to the lines it stands for.

## 1. Inventory

| Component | State it keeps | Operations that change it |
|---|---|---|
| Exact-operation approval (`issuerd-mcp/src/executor.rs`, `step_up.rs`, `issuerd-server/src/ciba_step_up.rs`, `ciba_approval.rs`, `mcp_strict.rs`, `issuerd-storage/src/step_up.rs`) | cache: pending operation, approval, CIBA request, poll lock; database: user session, table `mcp_step_up_grants`, the target of the mutation | propose, initiate, approve or deny, poll, issue, execute |
| Token endpoint (`issuerd-server/src/routes/oidc.rs`) | cache: authorization code, used-code marker, revocation and rotation markers; database: user sessions | authorize, redeem, replay, refresh, revoke, log out |
| Session-validity cache (`session_cache.rs`) | cache: snapshot per session, tombstone per session, version per user | lookup with population, logout, admin revocation, deletion of a user |
| Login throttling and one-time codes (`issuerd-auth-flow/src/login_failures.rs`, `totp.rs`, `built_in.rs`) | cache: failure counter, lockout marker; database: last used time step | gate, count, arm, check, consume, reset |
| In-memory cache (`issuerd-cluster/src/cache.rs`) | a concurrent map of entries with expiry | the operations of the `DistributedCache` trait |
| Redis cache (`redis_cache.rs`) | the Redis server | the same trait, one command or Lua script each |
| Device grant and legacy CIBA (`routes/oidc.rs`, `ciba_step_up.rs`) | cache: the request, for devices under two keys; the poll lock | poll, approve or deny, consume |
| Email codes (`issuerd-auth-flow/src/email_code.rs`) | cache: the code in force, counters of mails and of attempts per user, code and address | request, submit, accept, burn, clear |
| Initial access tokens (`issuerd-admin-api/src/initial_access.rs`) | cache: the token, its counter of uses | mint, use, revoke |
| Client assertions, DPoP | one cache entry per `jti` | mark |
| Claims and userinfo caches (`claims_cache.rs`, `userinfo_cache.rs`, `issuerd-cluster/src/invalidate.rs`) | cache: entries tagged with the realm's epoch, rendered bodies tagged with epoch and generations, the counters themselves | load and store, bump and delete |
| Signing keys (`state.rs`, `keys.rs`) | database rows, a lease in the cache, a key store per node | bootstrap, rotation, periodic refresh |
| Authentication-flow executor (`issuerd-auth-flow/src/executor.rs`, `routes/login_api.rs`, `issuerd-admin-api/src/flows.rs`) | cache: the stage a login waits at; database: the flow's configuration | execute, challenge, continue; edit |
| Identity brokering (`routes/broker.rs`, `issuerd-core/src/broker.rs`) | cache: the state of a round trip, the pending flow, the first-login entry; database: accounts, links, roles and the record of those that mappers granted | round trip, first login, forms, linking, unlinking, mapping |
| Registration, account and reset routes | flow state in cache entries | one request per step of a flow |
| Federation (`issuerd-federation/src/sync.rs`, `issuerd-core/src/roles.rs`, `built_in.rs`) | local rows of directory users, groups, memberships | full sync, import at the first login, reconciliation |
| Admin API, storage back ends, protocol parsing, token crypto, configuration, provisioning, web client | rows, files | CRUD, parsing, signing |

How they interact: routes call `Storage` and `DistributedCache` and nothing
else that is shared. There are no locks across nodes except leases made of
cache entries with a TTL (the poll lock, the key bootstrap lock). The atomic
building blocks are the cache's conditional operations (`create_if_absent`,
`compare_and_swap`, `claim_and_create`, `get_and_delete`, `increment`) and
database transactions or conditional updates. The in-memory cache is the back
end of a single node; its callers are the same handlers, running on several
threads.

What is hard, and hence what the models contain: interleavings of handlers
between any two awaits; calls that take effect although their answer is lost;
handlers that die; entries and leases that expire under a handler; values that
were read before an await and are used after it; compensation that itself
fails; whole records written back from a copy that may be stale; loss of the
whole cache. The 40 places where this bites hardest are the hazards of
`PROJECT.json`, each with the properties that would catch it.

What makes each component correct:

* approval: an operation is decided once, applied at most once, only when
  approved, only to the content that was approved, only while its grant lives;
* token endpoint: a code yields one pair of tokens, a refresh token one
  successor, reuse revokes, and what was torn down stays torn down;
* session cache: a session that ended is not reported valid, at once where the
  code says at once and after a bounded time in any case;
* throttling: the number of guesses is bounded whatever races; a code is
  accepted once;
* cache: every conditional operation has one winner;
* polled grants: one decision, one exchange, none after the expiry or, for CIBA,
  no later than the request was stored late, polls at their interval, an approval
  that is not lost;
* email codes and initial access tokens: no budget is overrun by more than can
  be stated, and nothing is taken out of force by who does not own it;
* read caches: a change of definitions is visible at once, any other after a
  bounded time;
* signing keys: one initial pair, always an active key, one set on all nodes in
  the end;
* flows: nothing required is skipped, nothing disabled runs, and every login
  request ends;
* federation: local accounts stay local, and memberships end up as reported;
* brokering: no account is left behind without a link, none in use disappears, a
  flow is spent once, and mappers revoke only what they granted.

## 2. Plan

Built, in this order, the most consequential protocol first:

1. `ExactOperation`, `StepUp`, `MCStepUp`, `StepUpProofs`
2. `TokenGrants`, `MCTokenGrants`, `TokenGrantsProofs`
3. `SessionCache`, `MCSessionCache`, `SessionCacheProofs`
4. `LoginThrottle`
5. `InMemoryCache`, `InMemoryCacheProofs`, and `GlobMatch`
6. `PolledGrants`: the device grant and CIBA without an operation
7. `EmailCode` and `InitialAccess`, which with `LoginThrottle` make `MCBudgets`;
   `BudgetsProofs`, about all three
8. `ReadCaches`, which with `InMemoryCache` makes `MCCaches`; `ReadCachesProofs`
9. `FlowExecutor` and `SigningKeys`, which with `GlobMatch` make `MCLoops`;
   `LoopsProofs`
10. `FederationSync` and `Brokering`, which with `PolledGrants` make `MCRecords`;
    `RecordsProofs`

To come:

1. An abstract cache specification (one atomic step per operation) that
   `InMemoryCache` is compared with, on the keys for which it holds.
2. The reset of credentials, whose entries are single-use as those of
   `InMemoryCache` are.

## 3. Modules and the code

### Conventions

A handler is a *task*: a record with a program counter and the local values
it carries over an await. Each action is what the handler does from one access
to shared state to the next. A remote call ends in one of three ways: `"ok"`;
`"lost"`, done but reported as an error; `"fail"`, not done and reported as an
error. A cache entry is its expiry time, or a record that contains it; 0 means
absent and an entry is visible while its expiry lies in the future. Variables
called history in the declarations are read by properties only. Operators
named `Bug...` are the forms a plausible defect would give the operator that
follows them; no action uses one. They show that each property can fail.

Components that share no state are checked side by side in one run where they
raise the same kind of question (`MCBudgets`, `MCLoops`, `MCRecords`) or are of the same kind
(`MCCaches`). The
variable `on` says which of them a behaviour is of; it is chosen in the initial
state and never changes. The variables of the others stay at a fixed value, so
that the state space is the sum of theirs and not the product, and a variable
that several of them declare belongs to the one that runs.

### StepUp and ExactOperation

`ExactOperation` is the contract in five actions: an operation is proposed,
decided, and applied or failed; applying needs approval and the captured state
of the target. `StepUp` is the protocol:

| Action | Code |
|---|---|
| `Propose`, `Park` | `coordinate_strict` without a step-up token: read the target, fix operation and expiry; then store the pending operation |
| `InitiateStart`, `InitiateClaim`, `InitiateCreate`, `InitiateRestore` | `initiate`: read, move pending to approval, create the request, hand back on failure |
| `ApproveLoad`, `ApproveLock`, `DecideRead`, `DecideClaim`, `ApproveUnlock` | `post_handler`, `decide_with_poll_lock`, `decide` |
| `PollRead`, `PollLock`, `PollCas`, `PollIssue`, `PollGrant`, `PollConsume`, `PollUnlock` | `poll`, `poll_locked`, `issue`, `create_grant` |
| `ExecVerify`, `ExecTx`, `ExecCommitted` | `execute_strict`, `execute_grant_once`, `apply_mutation`, `strict_committed` |
| `Tick`, `Drift`, `CacheLoss`, `Crash` | time, other administrators, a restarted cache, dropped handlers |

The target of the mutations is its content, [seen, hidden]: what an approval shows
and what redaction leaves out of it (the `redacted_...` functions of
`storage/step_up.rs`). `Precondition` compares the redacted content with what the
operation captured, for equality and with nothing else, as `apply_mutation` does;
`Effective` writes the proposed content and keeps what redaction removed. `Drift`
is any other administrator's write: to another content, back to an earlier one, or
to what is hidden only. A proposal may also leave the content as it is, as an
assignment with `ON CONFLICT DO NOTHING` does. So two operations that captured the
same content can both be applied, and `SnapshotSpentUntilRestored` says when: only
if the first changed nothing an approval shows, or the content came back in
between. `trail` is the history of contents that says so. The SQL of each
kind of mutation is not modelled. A request has two times, as in the code: `until`
is the expiry it states, `exp` the end of its cache entry, which starts to
live when it is stored. The lock is deleted unconditionally by whoever
created it, as in the code, so a late handler deletes another one's lock.

### TokenGrants

`Authorize` issues a code for a session. `Redeem...` is the authorization-code
branch: take the code, load or create the session, mint, write the used
marker. `Replay...` is what happens when the code is gone: read the used
marker, bar the access token, mark the refresh token. `Refresh...` reads
marker and session, touches the session, claims the token by an increment and
mints the successor. `Kill` and `LogoutToken` are the logout by refresh token; `EndSession`
and `RevokeRefresh` are the single-write forms. `Backend` chooses how
`increment` treats a marker that is not a number: Redis refuses, the
in-memory cache counts from zero. A cache error while reading the used marker is
treated as "nothing was minted", as in the code; a replay neither
deletes the session nor revokes the successors of a rotated token, which is why
`ReuseRevokes` speaks of the pair minted from the code only.

### SessionCache

`Lookup`, `CheckVersion`, `CheckTombstone` believe a snapshot; `LoadBefore`,
`LoadRow`, `LoadVersion`, `LoadAfter`, `Populate` load and write one, in the
order in which `load_and_cache` awaits. `Logout`, `AdminRevoke` and
`DeleteUser` delete rows; `Mark`, `Drop` and `Bump` are the invalidations that
follow, each of which may fail or be lost. `Answer` ends a request. `Tick`
lets no request outlive `MaxRequest`, and `CacheAssumption` says that a
tombstone (24 h in the code) outlives a snapshot and two requests.

### LoginThrottle

One slot (realm, identifier, source) and one credential, chosen by `path`. `Gate`, `Count`,
`Arm`, `Check`, `Consume` are the path of a code (`reserve_otp_attempt`,
`verify`, `consume_totp_step`): counted before it is checked. `Gate`, `Check`,
`Record`, `Lock` are the path of a password (`record_failure`): counted after a
wrong check. `CheckUnrecorded` is a password check when the federation
providers cannot be loaded. `ClearCounter` and `ClearMarker` are the two
deletes of a reset, by success or by `AdminClear`.

### InMemoryCache and GlobMatch

One step per shard guard of the map: `Get` and `GetRemove` are separate because
`get` drops its guard before it removes an expired entry; `claim_and_create` is
compare, remove and insert under a mutex only it takes. `OpsOn` says which
operations callers use on which key, since the guarantees depend on it.
`GlobMatch` is the matcher's loop, one iteration per step, with `Matches` as the
reference definition and `Escape` as `escape_scan_pattern`. `Matches` is a recursive
function over the pattern: `from[i]` is the set of positions of the key from which the rest of the
pattern spells the rest of the key.

### PolledGrants

One request from the moment its code was answered. `DevicePoll` reads the
record; `DeviceWrite` and `DeviceWriteMirror` are the two plain sets of its
pacing write, `LoadUser`, `DeviceConsume`, `DeviceClean` and `Issue` the rest of a
poll that finds an approval. `VerifyRead` and `VerifyAuthenticate` are the
page on which the user signs in. `CibaPoll`, `CibaLock`, `CibaSlow`, `CibaPace`,
`CibaConsume` and `CibaUnlock` are `poll` and `poll_locked`; `DecideRead` and
`DecideSwap` are the approval page, whose write compares with what it read. The
lifetime of an entry starts with the `set` that stores it, up to `StoreDelay` after
`expires_at` was fixed, and for devices under each of the two keys by itself. CIBA's swaps keep
that lifetime and its poll does not look at `expires_at` again once it has begun; a device poll
checks the record it took.

### EmailCode and InitialAccess

`ChargeSource`, `ChargeUser` and `Store` issue a code within the two send budgets.
`Load`, `CountSource`, `CountAttempt`, `Compare`, `LoadUser`, `Accept`,
`ClearSendBudget` and `Burn` are `verify` in the order of its awaits: an attempt
is counted before it is compared, on a counter that belongs to the code. In
`InitialAccess`, `Verify` reads the token and `Use` counts; `RevokeToken` and
`RevokeCounter` are the two deletes of a revocation.

### ReadCaches

`Begin`, `ReadCounter`, `ReadBody`, `Epoch`, `Get`, `Load`, `Put` and `WriteBody` are a
userinfo request: it reads the counters, believes a rendered body that carries
them, and otherwise builds one from entries or from storage and writes it
under the counters it read first. `Read` is what it makes of one counter and
`Counted` where that leads. `Commit`, `Bump`, `Delete` and `BumpEpoch` are a
change and what follows it, each call of which may fail.

### FlowExecutor

A flow is a sequence of stages, each an authenticator or a sub-flow, with a
requirement. The stack holds one frame per call of `execute_stages`. What an
authenticator answers is not known, so `ExecuteStage` tries every outcome and
`Challenge` ends the request; `Continue` is the next request of the same login,
which resumes at the stage the challenge was for, in whatever flow an
administrator has left in the meantime. `UpdateExecution` (any requirement of any stage),
`DeleteExecution`, `AddExecution`, `AddFlowExecution` and `UpdateFlow` (another list of stages,
so another order) are the operations of `flows.rs`; each goes through `Save`, which writes nothing if
the flows would not be `Valid`. The field `priority` that `update_execution` also sets is read neither by the
executor nor by the storage, which keep the order of the list. `Applied` and `AppliedResumed` are what the outcome of a stage
does, in a first pass and at the resume point. A realm's flows are one of `Trees`.

### SigningKeys

`Start`, `Acquire`, `ListKeys`, `CreateKey`, `Relist`, `Release` and `BootFails` are
a node's boot under the lease, `RefreshRead` and `RefreshApply` its refresh
task, `Rotate...` and `Disable...` the two admin operations, each a read and its
writes.

### FederationSync

`Stream`, `LoadExistingUsers`, `BulkCreateUsers`, `CreateUser`, `UpdateUser`,
`LoadIndex` and `Finish` are a full sync; `FindUser` and again `CreateUser` a first
login. Both go through the reconciliation of one user after the other:
`ListUserGroups`, then `ResolveGroupByName`, `Adopt`, `CreateSyncGroup`,
`LookupWinner` and `AddUserGroup` for every reported group, then `CheckGroup` and
`RemoveUserGroup` for every membership that was found. The `Edit...` actions are
administrators and the directory; a deleted row may come back under the same name,
with another id (`gen`). `LoadGroup` and `AddGroupRealmRoles` are
read and write of a role mapping, whose write carries the marker as it was read.
Names to be created, updated and reconciled are sets that are worked off in any order,
because the order is the directory's. `hist.dirty` says that something disturbed the sync:
a login or an administrator wrote, a call failed, a group was adopted, or another sync was under way.

### Brokering

`RoundTrip` is the way to the provider and back, `TakePending`, `FindLink`, `LoadUser`
and `FirstLogin` are `finish_login` up to its decision (`Decide`). `Submit`, `Form` and
`Password` are the pages of a first login: the entry is taken when a form comes
in and stored again when it fails. `CreateUser`, `CreateLink` and `DeleteUser` make an
account and its link, or undo it; the unique keys of the links table decide
races. `RevokeMappedRoles`, `ListHeld`, `GrantRole` and `SaveUser` are
`sync_mapped_roles` and the write of the row it ends with; they run on creation, on
linking and, with `syncMode=force`, on every login. `Unlink` and `DeleteLink` are
the account console, `AssignRole`, `RemoveRole` and `RemoveUser` administrators, `Die` a
dropped handler. `pass` says for what a request maps, and so in which order the
steps come: a new account is mapped before it is linked, an old one after.

## 4. Runs

| Run | Question | Instance | Result |
|---|---|---|---|
| `stepup_race` | May a human, two polls and an execution decide, apply or extend anything twice? `AppliedAtMostOnce`, `AppliedOnlyIfApproved`, `GrantWithinOperation`, `DecisionsAreFinal`, `ImplementsContract` | 1 operation, 1 request, 1 approver, 2 pollers (one told to slow down), 1 executor, lock TTL 1, clock to 3, 2 contents | holds, 1.1 M states |
| `stepup_target` | When may two approvals of one content of the target both be applied, and may one operation be claimed by two requests? `SnapshotSpentUntilRestored`, `OneDecisionPerOperation`, `IInv` | 2 operations, 2 requests, one task of each kind, 2 visible and 2 hidden contents, 1 change by someone else | holds, 1.9 M |
| `stepup_announce` | Is a commit announced once? `AnnouncedAtMostOnce` | 2 executors | violated |
| `token_rotation` | May two refresh tokens of one grant be usable? `OneLiveTokenPerGrant` | 1 code, 3 tokens, 2 handlers, Redis, expiry and leeway | holds, 2.8 M |
| `token_replay` | What does a code presented twice lead to? `CodeExchangedOnce`, `ReuseRevokes`, `RefreshNeverRecreates` | 1 code, 2 tokens, 2 handlers, with and without offline access, in-memory cache, clock to 3 | holds, 1.2 M |
| `token_teardown` | `TeardownKillsRefresh` with a second code outstanding | 2 codes, 2 tokens | violated |
| `token_claim` | Is a refresh token claimed once? `RefreshClaimedOnce` | 1 code, 3 tokens, 2 handlers, in-memory cache | violated |
| `session_cache` | May an ended session be reported valid, and for how long? `LogoutIsImmediate`, `StalenessIsBounded` | 2 readers, 1 deleter, 2 creations and 2 deletions, clock to 4 | holds, 4.1 M |
| `budgets` | How many guesses, mails and registrations, and how often is a code accepted? `OtpRateBounded`, `CodeAcceptedOnce`, `PasswordRateBounded`; `EmailAttemptsExact`, `EmailCodeAcceptedOnce`, `EmailSendsBounded`; `RegistrationsBounded` | 2 requests; threshold 2, clock to 4, 2 resets; 2 addresses, 2 codes, 3 submissions; 1 use allowed, 4 tried, a revocation; 1 request lost half way | holds |
| `records` | What do handlers do to each other that write back what they read? `CibaExchangedOnce`, `CibaPollsPaced`, `NoLateTokens`, `DeviceApprovalSpentOnce`; `QuietSyncIsExact`, `LocalAccountsKept`; `BrokeredAccountsExact`, `FlowSpentOnce`, `LocalRolesKept` | 2 polls, 2 approval forms, 2 users, 1 lost handler or write, lifetime 2, stored up to 1 late, clock to 3; 2 users, 1 group, every state of rows and directory to begin with, a sync and a login, 2 runs, 1 edit or failed call; 1 identity, 1 local account in every state, 2 flows, 2 requests, 2 round trips, 3 forms with 2 wrong passwords allowed, 1 edit, failed call or death | holds, 4.7 M |
| `loops` | Do the loops end, and with the right result? `PatternsMatch`; `FlowHonoured`, `FlowEnds`; `OneInitialPair`, `SomeKeyActive`, `NodesConverge` | all patterns of up to 4 and keys of up to 3 bytes over two letters and the metacharacters; every flow of up to 3 stages and those of 2 over a sub-flow, 2 tries, 1 edit of any kind at any time; 2 nodes, 1 administrator, 4 keys, 2 changes, 1 crash | holds, 1.5 M |
| `caches` | How old may an answer be? `DefinitionsExact`, `StaleBounded`. Has every conditional operation of the in-memory cache one winner? `OneCreator`, `SingleUse` | 2 requests, a user and the catalogue of definitions, 1 change, 1 failed call, TTL 2, clock to 3; 3 threads, a lock, a single-use value and a pending record, 3 writes, TTL 1, clock to 2 | holds, 6.0 M |

Why the bounds are enough to be interesting. All lifetimes are one to three
ticks, so that entries, leases and grants expire while a handler is between two
steps (`stepup_target` alone has no ticks: it is about the order of
executions, and expiry is in `stepup_race`). Two tasks
of a kind are enough for a race for one winner; the map operations of the
cache, where one thread frees a key that two others compete for, have three.
Three tokens give a rotated token and two candidates for its successor. One edit of the flows is enough to put, drop, require or move
a stage before, at or behind the one a login waits at, and two tries to come back to it twice. Two requests per operation are what is needed to
claim, hand back and claim again. Counters of the environment (drift, lost
requests, creations, writes) are bounded by the constants called `Max...`;
nothing else is. In `caches` a request takes no time (`MaxRequest = 0`), since what matters
is the order of its calls and those of a change; with a longer one the same bound, which counts it
twice, has to hold. `QuietSyncIsExact` is about the second of two runs after any start, so what an earlier
crossed run leaves behind is part of it. Symmetry is used over tasks and identifiers of safety runs
only. `CHECK_DEADLOCK FALSE` is set because the clock stops at its bound
and because a system in which no request arrives stops.

Fairness. The protocols promise no progress: a client may never poll, a human
never decide, a handler may be dropped. No fairness is assumed for them
and no liveness claimed. `FlowEnds` assumes that a request which runs takes its
next step: it is sequential code, and authenticators answer. `NodesConverge` assumes
the same of every node's refresh task, which runs as long as its
node does; nothing is assumed of boots, administrators or crashes.

## 5. Where code and documents disagree

Each violated run states what a document or a comment of the repository says.

* `stepup_announce`: `docs/mcp-server.md` says that a repeated call does not
  repeat audit and invalidation; two overlapping calls do, since the decision is
  made from a status read before the transaction. The mutation itself is never
  repeated.
* `token_teardown`: `docs/security.md` says that teardown of a session kills
  refresh ability; the redemption of another code of the same session creates
  its row again.
* `token_claim`: a comment in `oidc.rs` (lines 4654-4656) says of the claim of a refresh token that
  "every concurrent or later attempt observes an already-claimed token".
  `InMemoryCache::increment` counts a marker that is not a number from zero, and logout,
  revocation and code reuse store the byte 1 under the same key: with this back end a
  refresh under way claims a token again that a concurrent logout has just marked.
  `token_rotation` is about Redis, which refuses the increment.

The models show further limits of the code that have no run of their own;
the passing properties are stated so that they are visible:

* A refresh token is accepted until its expiry plus the clock-skew leeway,
  but its rotation marker expires with it, so that the same comment is wrong of a token presented
  again in the leeway, with either back end. `OneLiveTokenPerGrant` therefore
  excepts grants in which a token was exchanged in the leeway (`stale`).
* The precondition of an approved operation compares redacted content. A change that was undone,
  one that redaction hides, or an operation that changes nothing leaves an older approval
  applicable; `SnapshotSpentUntilRestored` states what remains.
* The entry of a CIBA request lives from its `set` (`oidc.rs`, line 2883), its `expires_at` is
  fixed before (line 2868), and a poll compares with `expires_at` only at its
  start (`ciba_step_up.rs`, line 472), not when it takes the entry (line 564). A request can
  so be exchanged after its `expires_at`, by as much as it was stored late. `NoLateTokens` says so;
  for devices it says never.
* The version of a user is read after the session row, so a snapshot of a
  deleted user's session can carry the new version. It is one of the ways a
  request of `session_cache` can be wrong for a bounded time.
* The failure counter's TTL is not renewed, so a lockout that outlives it
  ends the escalation that `docs/security.md` describes, and the sub-threshold
  attempts begin again. `OtpRateBounded` counts them per window.
* `InMemoryCache::get` removes an expired key after it let go of the entry and
  can remove a fresh one, which no property forbids. `OneCreator` is checked on keys that are not read with
  `get`; with `"get"` among the operations of `k1` in `MCCaches` it fails,
  and the lockout marker is such a key.
* A password check while the federation providers cannot be loaded is not recorded as a failure;
  `PasswordRateBounded` is about the recorded ones.
* `claim_and_create` of the in-memory cache is atomic against other claims
  only. Its callers claim keys they otherwise only write and read, as `k3` in
  `MCCaches`.
* The module documentation of `session_cache.rs` (lines 23-28) counts the
  admin API's revocation among the deletions that write a tombstone; it only
  drops the snapshot (`sessions.rs`, lines 126-129). How long the session is believed is bounded by `StalenessIsBounded`.
* The device grant writes with plain sets. A poll's pacing write can put
  back a code that another poll has consumed, or erase an approval stored after
  it read, although a comment (`oidc.rs`, lines 5095-5098) says that "an approved device code is
  single-use" and that only the first concurrent consumer observes the entry.
  `DeviceApprovalSpentOnce` counts such writes (`clobbered`).
* The windows of the send budgets per user and per address begin at different
  times, so the mails of one stretch of time can exceed one budget;
  `EmailSendsBounded` counts the windows.
* A registration under way while its initial access token is revoked starts a
  new counter. `RegistrationsBounded` allows one more round for it.
* A boot that outlives its lock, or dies between its two inserts, leaves a
  second or an incomplete initial pair; `OneInitialPair` excepts both. Two
  overlapping calls that rotate and disable can leave no active key, since `disable_key` lists,
  checks and updates in separate calls (`keys.rs`, lines 283-291), although
  `tests/KEYCLOAK_DIFFS.md` (line 189) says that "the last remaining active key overall cannot be
  disabled". `SomeKeyActive` is about calls that do not overlap; with two administrators and without that
  hypothesis it fails.
* `userinfo_cache.rs` (lines 24-26) says that the very next request misses after a
  change. The client is read before the generation, so a request can render an
  old client under a new generation. `claims_cache.rs` (lines 36-38) and `invalidate.rs`
  (lines 9-10) give one read-cache TTL as the bound when an invalidation is lost; a body may be
  rendered from an entry that is about to expire and then lives a lifetime of its own. `StaleBounded` gives two requests and two
  lifetimes of an entry as the bound.
* A challenge inside a sub-flow cannot be resumed (the stage is looked for in
  the flow itself). Resuming at an alternative makes the alternatives after it a group
  of their own, and if it fails none of them is tried. A group that begins
  with a sub-flow is not treated as one.
* Flows are read anew by every request (`state.rs`, line 80: "deliberately uncached so admin
  flow edits take effect immediately"), but a login that waits at a stage goes on from there. What an edit
  puts before that stage, or makes required there, this login is not asked for, and it succeeds without it.
  `FlowHonoured` excepts exactly these stages (`Imposed`, `excused`). A challenge that was asked in a
  sub-flow can be resumed after all if an edit has put its stage into the login's own flow.
* The sync writes the whole row of a user or group as it read it.
  `docs/user-federation.md` says that role mappings of groups are never touched;
  the write that adopts a group puts back those that the index had loaded.
  In the other direction, a role mapping that crosses an adoption removes the marker
  again. A run that adopts a group leaves users it
  has already reconciled as they were until the next one, and the loser of a race to create a
  group uses the winner's without adopting it. `QuietSyncIsExact` is about
  runs without an adoption.
* An account that a brokered login has just created can be linked by its e-mail
  address by another login before its creator links it. The creator's rollback then
  deletes an account that is in use, with the other's link; `crossed` in
  `BrokeredAccountsExact` marks these.
* A role assigned by hand while the mapper pass of a login is under way can be
  recorded as the mapper's and revoked by a later one; `LocalRolesKept` is about
  assignments that do not cross a pass. The pass also writes the whole row of the user as it
  loaded it, over an administrator's change in between, and the guard against
  unlinking the last sign-in method is a check before the write.

## 6. Proofs

`StepUpProofs` proves, for every set of operations, requests and tasks and all
lifetimes, that `IInv` is an invariant, and from it `OneDecisionPerOperation`,
`AppliedAtMostOnce`, `AppliedOnlyIfApproved`, `SnapshotSpentUntilRestored`,
`GrantWithinOperation`, the action property `DecisionsAreFinal` and the
refinement `ImplementsContract`. The assumptions are `TimeAssumption` (lifetimes are
natural numbers, those that must be positive are) and `NoOpAssumption` (the mark for
"no operation" is not an operation).

None of the properties is inductive. The argument treats the right to
decide an operation as a token: it is created with the pending entry, moves to
an approval entry and possibly back, and is spent by the decision. `Capability`
says that at most one request of an operation holds or has spent it, and that
none does while the pending entry is there. `Minted` says that requests belong to
proposed operations and that an unused identifier has no entries. `IniInv` and
`AppInv` say what the handlers under way have in their hands; in particular,
nobody can have decided a request that is still being created, so handing the
operation back on failure creates no second token. `Authority` follows
"authorized" from the decision to the request, to every poller's copy of it and
to the grant. `Applied` ties the number of commits to the grant table: one
grant per operation (unique key) and one transaction that leaves the status
"active" give at most one commit. `Proposed` and `Exact` are about content: the trail ends
at the present content, and every operation in it replaced what it captured by what it
proposed. If two operations that captured the same content are in the trail, the content
before the second is that one, so it was there again after the first had changed it; this is
`SnapshotSpentUntilRestored`. Nothing in it counts versions. Each conjunct has one
lemma or step per action. The refinement reads the phase of an operation off
the decision and its outcome off the grants; every step is an abstract step or
a stutter because `IInv` determines both.

`TokenGrantsProofs` proves `CodeExchangedOnce`, `ReuseRevokes`, the action
property `RefreshNeverRecreates` and `OneLiveTokenPerGrant` for any codes, tokens, sessions
and handlers (`TokenAssumption`: identifiers of different kinds are
different, lifetimes are natural numbers). In `GrantInv` a code is in one
place at a time, not issued, in the cache, with the one handler that took it, or exchanged
(`CodeInv`); the used marker and the revocation markers
outlive what they are about (`UsedInv`, `ReuseInv`), so a replay that finds no
marker is one of a pair that has expired. `RotationInv` says that a grant
has one unmarked token or one handler that claimed it. It rests on the claim being an increment that
reports 1 only once, and that is why `OneLiveToken` has the hypothesis
`Backend = "redis"`: the in-memory cache counts from zero on a marker that
a revocation wrote.

`InMemoryCacheProofs` proves `OneCreator` and `SingleUse` of the cache of `MCCaches`, each from what the callers
of the cache keep to: `CreatedUnread` (keys made with `create_if_absent` are not read
with `get`) and `ClaimedAlone` (keys that are claimed are not taken in another way).
The module's run assumes both of its own `OpsOn` (`CallersAssumption`), where
TLC evaluates them. While a creator reigns its entry is in the map (`ReignInv`);
a used value is gone or about to be removed by the claim that holds the mutex (`UseInv`).

`SessionCacheProofs` proves `LogoutIsImmediate` and `StalenessIsBounded`. `EndedInv`
says that after a logout the tombstone differs from everything the cache held
before, for longer than any of that lives; this is where `TombTTL >= PosTTL + 2 * MaxRequest` of
`CacheAssumption` is used. `Remembers` and `Knows` say what a lookup
under way has seen, and that what it may still write is no newer than that.

`RecordsProofs` proves the four properties of `PolledGrants`. For CIBA the
poll lock and the comparison of the write leave one decision and one poll that
takes the record, so the tokens are at most the decisions. The entry ends no later than
`Lifetime + StoreDelay` and no swap prolongs it, which is all that bounds a late exchange; for devices
the check after the take does. For devices, where
writes are plain sets, `DevicePaid` pays for every token with the first record or with
a write that replaced another record than the one it was made from (`clobbered`),
which is as much as the code gives.

It also proves `FlowSpentOnce`, `BrokeredAccountsExact` and `LocalRolesKept` of
`Brokering` and the action property `LocalAccountsKept` of `FederationSync`, for any
identities, accounts, flows, requests and syncs, from `RecordsAssumption`: accounts the
broker creates are new ones, and `MaxFailures` is positive, as `max(1)` in the code makes
it. `BrokerInv` has three parts. In `FlowInv` a flow is pending, in a first-login entry,
in the hands of one request or spent, and wherever it is its number of tries is the number
of wrong passwords so far; so a race for it has one winner, and an entry stored again is no new
start. In `NewsInv` an account has at most one creator, one that is there was
linked or stranded or has its creator, and if it was linked while its creator is still at work
it was crossed, which is why the rollback deletes nothing in use otherwise. In `RoleInv`
neither the row nor any copy of it records a local role, and a request about
to grant it does not know who holds it, so it will not record the grant either. `Placed`
says what a request has in its hands at each of its steps. For the sync, `LinkInv`
says that a copy of a row is never newer than the row and, where the id is the
same, has the same link: the update, which is addressed by id, writes what is there.

`QuietSyncIsExact` needs more (`SyncInv`). `FedTypes` and `MembersInv` give
every variable its shape and every membership a user and a group that are there. `OneSync` is about a sync that nothing
has disturbed: it is the only one, and `QuietInv` says what it has done and what is left at each
of its steps. `HandsInv`: the directory, the index and the ids in its hands are
as they are in storage. `ListsInv`: before the reconciliation begins, every user who is linked and reported
is still to be updated or already on the list, and no membership has changed. `Turn`: a user
on the list has his memberships as they were, every other one as they should be. `UserInv`:
for the user at hand, the reported groups he is not in are still to be joined, the marked ones he is in without being
reported are still to be looked at, and nothing else has changed. A group that the sync creates disturbs nobody who is done,
because nobody is in a group that is not there. That the invariant holds for any number of syncs and logins
rests on `hist.dirty` and on `RecordsAssumption` (a task is a sync or a login).

`LoopsProofs` proves `OneInitialPair`, `SomeKeyActive`, `FlowHonoured` and
`PatternsMatch`, from `KeysAssumption` (a lock lives for some time), `FlowAssumption` (a realm's flows are sequences of
stages, ids are unique in a flow, and there is one for logins) and `GlobAssumption`. In `KeysInv` a node between its list and its
release holds the lock as long as no boot has outlived it (`LeaseInv`), so one boot finds the table empty
(`PairInv`), and nobody serves before the pair is complete (`QuietInv`); without an overlap, the rows a request
is going to demote or disable leave an active one (`ActiveInv`).

`FlowInv` has one predicate for all places where a login can stop, `Behind`: every stage before
this one is met (passed if it is required, one of its group passed if it is an alternative), or excused because an edit
imposed it, or one of the group that is still open. It holds of every frame of the stack, and
(`PendingInv`) of the stage a login waits at, wherever that stage stands by now (`Awaits`). An edit preserves it
because a stage that comes to ask something new is in `Imposed` and one that asked before
asks no more than it did; that ids are unique in a flow, which `Valid` keeps up, is why
a stage has one place. At the end of a flow nothing is before it that is not met or excused, so
nothing is missed. `BrokenInv` follows an operational failure to the end of its request.

`GlobInv` says what the loop decides: the pattern spells the key if the rest of it spells the rest of the key,
as long as there was no star; afterwards if what follows the last star does so from the retried byte or from a
later one. That going back to the last star is enough is the last conjunct of `LoopInv`. The
reference definition is a recursive function; that it exists, and that an escaped name spells
itself only, are proved by induction on sets of numbers (`LeastNat`, `NatSet`: a set
that contains 0 and with every number the next contains them all), which needs no operator as a parameter.

`BudgetsProofs` proves `CodeAcceptedOnce`, `OtpRateBounded` and
`PasswordRateBounded` for any number of requests and any thresholds
(`ThrottleAssumption`). For the first, `OtpInv` adds that every
accepted step is at or below the watermark; a request's own copy of the watermark
may be arbitrarily old, and only the conditional update matters. For the
bounds `RateInv` says there is a number W of windows of the failure counter and a
number K of lockouts that fit into the time since the last reset (`Windowed`), and that
the guesses tried are at most what these windows and the present counter have
counted (`Counted`), plus one per lockout for a code and one per concurrent request and
lockout for a password. The witnesses W and K change when a counter begins again or a
marker is set. For passwords the bound needs
`MinWait > 0`: with a wait of zero the code locks nobody out, and the statement
says so.

It also proves `EmailAttemptsExact`, `EmailCodeAcceptedOnce`,
`EmailSendsBounded` and `RegistrationsBounded`. `AttemptInv` is why an attempt
is counted before it is compared: every comparison has a number of its own, and while a code is
in force its counter is at least as young. `EmailInv` counts the windows of the send budget as
`RateInv` does. `InitialInv` shows that the counter of uses outlives the
token; `BudgetsAssumption` asks for it that a request is shorter than the 60 s
`used_counter_ttl` adds (`MaxRequest <= Grace`).

`ReadCachesProofs` proves `DefinitionsExact` and `StaleBounded`. For the first, `ExactInv`
has a function X from epochs to what the definitions were when the epoch
became current; it is monotone, every entry and body is as new as its tag says, and a request
never writes under an epoch later than the one it read before it loaded. For the
second, `AgeInv` follows a version from storage to an entry, to a body and to the
answer: each cache adds at most one request and one lifetime (`Span`), so an
answer is at most two of them old. Only the first is conditional: a request that could not
read its counters (`hist.blind`) tags what it renders with counters it reads afterwards.

Two operators were ambiguous until they were reasoned about: `ReadCounter` of `ReadCaches` and
`Applied` of `FlowExecutor` had `CASE` guards that overlap. TLC takes the
first that holds and TLA+ takes any; the guards are now disjoint and mean what the
code's order of tests means.

Two models were changed so that they could be reasoned about, without a change of what they say about
the code: `GlobMatch` has recursive functions instead of recursive operators, and `FederationSync` sets
instead of sequences in an arbitrary order. In the latter a second sync that begins while one is under way
now counts as a disturbance, which one sync at a time could not show.

Every invariant and every action property of the passing runs is proved. Only model-checked
are the liveness properties `FlowEnds` and `NodesConverge`, which the prover cannot reason
about, and what the three runs that expect a violation show.

## 7. Not modelled

* Cryptography, signatures, encodings, parsing: tokens are identities with
  lifetimes.
* The checks of one request that touch no shared state (client binding, DPoP, PKCE,
  `not_before`, disabled users) are folded into the early returns of the
  actions.
* Redis is taken to execute one command or script atomically, and PostgreSQL to
  run the grant transaction serializably, as the code asks it to. Loss of the cache is modelled
  for the approval protocol only.
* PAR, JAR, consent, token exchange, registration, account and reset
  routes: requests that validate and take single-use entries with
  `get_and_delete`, which `InMemoryCache` covers.
* The authorization endpoint's own use of the executor, which after a wrong
  password resumes at the password stage; the model has the JSON login.
* The discovery cache, which is a TTL cache without invalidation, and client
  changes in `caches` (the module has them, the instance does not).
* Data of users and groups a sync overwrites, LDAP and Kerberos.
* Discovery, the code exchange, attribute mappers and user names in `broker.rs`.
* Import of key rows, and the key material.
* Of the flows API: creating, copying and deleting a flow, which touch flows no login can reach by then; the
  configuration of executors; built-in flows, which are read-only. Binding another flow to the realm is an
  `UpdateFlow` of the login's own. Edits do not overlap one another.
* Other handlers that write the whole row of a user (`account.rs`, line 418, `users.rs`, line 401)
  and could put back the record of mapped roles a pass has changed; a creation or link of
  an account that is committed but reported as an error.
* Remember-me markers and the mode without read cache in `session_cache.rs`.
* CRUD of the admin API, storage back ends beyond the methods used here,
  provisioning, configuration, the web client: no concurrent protocol of their own.
