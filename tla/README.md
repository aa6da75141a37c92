# A TLA+ model of the agent-events server

agent-events is one Go process (chi router, pgx pool, Postgres) in which users sign in
with an identity token, give API keys to agents, and agents write events. This directory
models the parts of it that decide something, checks them with TLC on small instances and
proves their main properties with TLAPS for every instance.

All paths below are relative to `src/server/` unless they say otherwise.

## 1. The system

| Component | State | Operations | Hard behaviour | What makes it correct |
|---|---|---|---|---|
| In-memory rate limiter, `internal/adapters/memory/rate_limiter.go` | map (action, key, window) -> count, at most 4096 entries, a mutex; lost in a restart | `Allow`, with `prune` and `evict` | the bound, eviction in random map order, window boundaries, restart in mid-window | the map is bounded; a window grants its quota and no more unless a bucket is lost; no early refusal |
| Agent API keys, `core/usecase/auth.go`, `adapters/postgres/agent_repository.go` | table `agents`; row locks on `users`; the connection pool | `CreateAgent` (one transaction), `RevokeAgent`, `AuthenticateAgent`, `ListAgents` | concurrent creations against a limit; read-then-write in revoke and authenticate; lost commit answers; rollback on every error path; waiting on a lock while holding a connection | the cap holds; no lock leaks; no circle of waits; a revocation is final and effective; a shown key works |
| Events, `core/usecase/event.go`, `adapters/postgres/event_repository.go` | table `events` | `Create`, `Get`, `Update`, `Delete`, `List` | get-then-write without a transaction or a version | only the owner writes; deleted events stay deleted; the operations are atomic |
| Sign-in and user tokens, `core/usecase/auth.go`, `user_repository.go`, `user_token_repository.go` | tables `users`, `user_tokens` | `Exchange`, `AuthenticateUser`, `RevokeUserToken` | racing first sign-ins; failure between the user's and the token's statement; logout against requests in flight | one user per identity for good; a token is its identity's; dead tokens are refused |
| Expired-token cleanup, `cmd/api/main.go` | a goroutine with a ticker | `DeleteExpired` every hour and at start | a time stamp older than the statement; failures; restart | only expired tokens go, and all of them in the end |
| HTTP router, middleware, handlers, `internal/transport/http` | none of its own | decode, authenticate, call a service, write the answer; 30 s timeout | the request's context ends in the middle of a handler | errors become the right answers |
| Client address, `handler/auth.go` `clientIP` | none | the rightmost entry that is no trusted proxy | blanks, entries that are no addresses, what the client wrote itself | the exchange limit counts the right client |
| Identity verifiers, `internal/adapters/oidc` | provider key sets (library) | choose a verifier per provider, dispatch, verify | several issuers, audiences, tenants; the development fallback | an identity comes only from its own provider |
| Configuration, `pkg/config` | none | load and validate | numeric bounds, a product that wraps | the services start with what they rely on |
| Lifecycle, `cmd/api/main.go`, `postgres/db.go` | hooks, pool, listener, schema version | open pool, migrate, serve; shut down | 10 s of shutdown against 30 s requests; order of hooks; Postgres hanging; death between migrations | requests find a complete schema and an open pool; a stop is graceful and ends; a start ends |
| Errors, DTOs, logging, generated queries, migrations | none | translate | - | - |

The parts meet in three ways. A handler calls a service, which calls a repository: each
repository call is one SQL statement that commits by itself, except
`CreateIfUnderLimit`, which is a transaction. Services call the limiter before they do
anything else (`events.create` keyed by user, `auth.exchange` keyed by client address).
And `RequireAgent` and `RequireUser` authenticate a request before its handler runs;
what they found is not looked at again.

## 2. Modules

| Module | What it is | Models |
|---|---|---|
| `FixedWindowQuota` | abstract: a key gets its first Max calls of every window that is not forgotten | |
| `RateLimiter` | detailed: the bucket map | rate limiter |
| `AgentDirectory` | abstract: a directory of agents each request reads or changes at one instant | |
| `AgentKeys` | detailed: statements, transaction, row lock, pool | agent keys, `RequireAgent` |
| `EventStore` | abstract: a store of events each request reads or changes at one instant | |
| `EventService` | detailed: get-then-write handlers | events |
| `UserSessions` | abstract: accounts and sessions each request takes part in at one instant | |
| `SignIn` | detailed: sign-in, tokens, cleanup loop | sign-in, tokens, cleanup, `RequireUser` |
| `AgentEvents` | composition: `RequireAgent`, limiter, `EventService`, timeout, revocations | `/api/v1/events` end to end |
| `ClientAddress`, `IdentityVerifiers`, `Config` | operators, without state | `clientIP`; `internal/adapters/oidc`; `pkg/config` |
| `ExchangeDoor` | composition: start from an environment, proxies, limiter, verifiers | `POST /auth/exchange` up to the identity |
| `Lifecycle` | detailed: a process from start to exit, over and over | `cmd/api/main.go`, `postgres/db.go` |
| `MC...` | values for TLC: model values, symmetry sets, limits, environments | |
| `RateLimiterProofs`, `AgentKeysProofs`, `AgentDirectoryProofs`, `EventServiceProofs`, `SignInProofs`, `AgentEventsProofs`, `ExchangeDoorProofs`, `LifecycleProofs` | theorems and their proofs | |

### How the modules fit together

`RateLimiter` implements `FixedWindowQuota`, `AgentKeys` implements `AgentDirectory`,
`EventService` implements `EventStore` and `SignIn` implements `UserSessions`; each
refinement is a property of a run and a theorem. The two compositions rest on that. `AgentEvents` uses `EventService` as it stands, through
`INSTANCE`, and the limiter as `FixedWindowQuota`; it reads and revokes an agent in one
step, which `AgentDirectory` permits. It sends creations and deletions through: a PUT
passes the same door, clock and timeout as a DELETE and its own races are in
`EventService`; a GET changes nothing. `ExchangeDoor` stops where the identity is known;
`SignIn` starts there. `Lifecycle` looks at the same handlers from below, as users
of the pool that a stop takes away.

### How state and steps correspond to the code

*Time.* `clock` is `time.Now()`. It does not go back. Windows, lifetimes and the touch
interval are whole units of it.

*Handlers.* A request is a process. `pc` says which statement or call comes next, or
which answer was given (`StatusCode` maps the error kinds to them); `call` has the
arguments; other per-request variables are the Go locals the rest of the handler reads
(`row`, `event`, `user`, `at`). The local computation between two statements belongs to the
step before it. Every step of the handlers that waits for the database is an action of
its own, so that other requests, crashes and the clock come in between.

*Failures.* A statement may fail without effect (`StatementFails`, `StepFails`: the
database is away, or the context of the request ended), and a write or a commit may take
effect while its answer is lost (`Goto(r, "internal")` beside the effect). `Crash` ends
all handlers; what was committed stays, open transactions are rolled back, and the row
locks of a dead process are taken to be free at once.

*Transactions.* The pool leaves Postgres at READ COMMITTED, so the `COUNT` of
`CreateIfUnderLimit` sees what is committed when it runs, after the row lock was
granted. The inserted row becomes visible in `Commit`; until then it is in the handler
alone. `ConnFree` is the pool: a transaction keeps a connection from `Begin` to its
end, any other statement needs one while it runs.

*Keys, tokens, ids.* A key or token is found by the SHA-256 hash of 32 random bytes and
an id is a random UUID. A key stands for its agent, a token for itself, and a fresh one is one
nobody has.

*The limiter's map.* `counts[b] = 0` stands for an absent entry. One call is one step,
as the mutex makes it. `Evictions` is the set of results the random order of a Go map
gives.

*The request's time.* In `AgentEvents` the router's timeout is `InTime`: no statement
runs for a request older than `requestTimeout`, since every statement takes the request's
context. The code between statements takes no notice of it.

*A quota that forgets.* `FixedWindowQuota` forgets a window when the map is full, and all of
them in a restart, because that is what the limiter does. In the compositions the
histories `counted` and `checks` are forgotten together with the window they were counted in, so
`EventsWithinQuota` and `ClientsWithinQuota` are about windows that are still remembered;
how much a key gets when one is lost is `GrantsWithinQuota`.

*Proxies.* A proxy appends the address it was called from to the one `X-Forwarded-For` line
there is. `honest` marks requests of a client that is no proxy and whose every
proxy is trusted; of others the address can be anything, and the limit still holds per address.

*Environments.* `Config` reads a record of the variables that decide something. Numbers are
numbers already (one that does not parse is zero, as viper has it, and a port that does
not parse is refused like zero). `Wrap` is the two's complement product of
hours and `time.Hour`.

*The process.* In `Lifecycle` `main` is the main goroutine: a constructor, the hook that is
being run, or `running`. `hooks` and `started` are fx's: hooks start in the order they
were appended, and those that started stop in reverse, all of them, also when one returns an error, within
fx's stop timeout. A constructor that fails ends the process without running a hook.
`reachable` may change at any time, also in the middle of a statement. `version`
is the only thing that outlives a process. That fx, `http.Server.Shutdown`,
`pgxpool.Close` and goose behave so is taken from their use in `main.go` and `db.go`; it
is noted at each action.

*History variables*: `granted` and `losses` (RateLimiter), `issued`, `revokeAcked`,
`late` (AgentKeys), `removed` (EventService), `shown`, `loggedOut`, `late` (SignIn),
`late`, `ticket`, `counted` (AgentEvents), `honest`, `checks` (ExchangeDoor), `alarm`
(Lifecycle).
No guard of a handler reads them, except that clients present only keys they were given
and that fresh ids are fresh.

*Left out of the modelled operations*: `ListAgents`, `ListEvents` and `Whoami` are one
read, or none, and change nothing. Validation in the handlers (malformed JSON, missing
fields) answers before the service is called. Users are never deleted by
the code, so the branches for a stored agent or token whose user is missing never run. `prune`'s
branch for an action without a limit never runs, as no bucket of such an action is made. The email of a user
is overwritten at each sign-in and read by nothing but the answers. An actor without a user is refused
by `Create`, and `RequireAgent` never lets one through.

## 3. What is checked

Every passing run finds no error in a complete state space; the sizes are distinct states.

| Run | Bounds | Properties | States |
|---|---|---|---|
| `limiter` | 2 keys, 2 actions with windows of 3 and 2 s (and one without a limit), 2 buckets, restarts | `TypeOK`, `TrackedBounded`, `GrantsWithinQuota`, `RefusedOnlyWhenSpent`, `ImplementsQuota` (refines `FixedWindowQuota`) | 341 000 |
| `limiter_eviction` | one action, no restart | `PerWindowLimit` is violated | |
| `agent_keys` | 3 requests of one user, cap 1, 2 agents, 2 connections, 2 instants | `TypeOK`, `ActiveAgentsWithinLimit`, `LockOnlyInTransaction`, `KeyShownIsStored`, `RevokedKeyRefused`, `RevocationIsFinal` | 3 297 000 |
| `agent_directory` | 2 requests, 2 users, 2 agents, 2 connections, fairness | `EveryRequestAnswered`, `ImplementsDirectory` (refines `AgentDirectory`) | 509 000 |
| `events` | 3 requests, 2 owners, 1 event, 2 contents, 2 instants, faults | `TypeOK`, `NoResurrection`, `OnlyOwnerWrites`, `DeleteSucceedsOnce`, `ImplementsStore` (refines `EventStore`) | 313 000 |
| `event_missing`, `event_bump` | 2 requests of one owner, no faults | `MissingEventIsNotFound`, `UpdateBumpsUpdatedAt` are violated | |
| `sign_in` | 2 requests, 2 identities, 2 tokens of life 1 in 3 instants | `TypeOK`, `SignedInAsIdentity`, `DeadTokenRefused`, `OneUserPerIdentity`, `LiveTokenKept`, `ImplementsSessions` (refines `UserSessions`) | 887 000 |
| `sign_in_cleanup` | 1 request, 2 tokens, fairness | `ExpiredTokensGo` | 21 000 |
| `agent_events` | 2 requests, 2 agents of one user and a second user, 2 events, quota of 1 per window of 2, timeout 1, 3 instants | `EventsWithinQuota`, `DatedNearCounting`, `WritesAreAuthorized`, `RevocationTakesHold` | 866 000 |
| `lifecycle` | 3 requests and the cleanup on 2 connections, 2 migrations, 10 s and 15 s in units of 5 s, fairness | `TypeOK`, `ListeningImpliesReady`, `CleanExit`, `NoFalseAlarm`, `GraceForRequests`, `StartsOrExits`, `StopsOnSignal` | 73 800 |
| `exchange_door` | 17 environments, 2 requests, 2 clients and a proxy that is one, chains of 0 to 2 proxies, 4 headers, 192 tokens, durations of 8 bits | `CountedByClient`, `ClientsWithinQuota`, `NoForgedIdentity`, `ConfigKeepsPromises` | 225 000 |

Why these bounds are enough for the cases that matter:

- Limiter. Two buckets and two keys of two actions let a call meet a full map with
  expired buckets, with live ones, with its own bucket among those evicted and with others; a
  clock of 2 crosses the end of the short window inside the long one.
- Agents. With a cap of one, two creations already compete; the third request revokes,
  or is the one that has to wait. `agent_directory` has as many connections as requests: a
  query on the pool from inside the transaction then deadlocks, which is a mutant of that run.
- Events. Two handlers between their read and their write and a third that changes or
  deletes the event is the longest race the code has, since a handler writes once.
- Tokens. Life 1 puts requests, deletions and old cutoffs before, at and after the expiry.
- Event routes. Two agents of one user compete for a quota of one. A window of two and a
  timeout of one let a creation be counted in one window and dated in the next, and let
  an agent be revoked before, while and after its request is let in.
- Exchange. One change at a time from an environment that is accepted decides each branch of
  `Load`. Three hours of fifty units wrap to a negative 8-bit duration and six to a positive
  one. With two proxies a chain has one to skip and one to be called by.
- Lifecycle. Two migrations have a state between them. With two connections three requests and
  the cleanup contend, one waits, and one is refused when the pool closes. Two units of
  shutdown and three in all tell the hook's timeout from fx's.

`SYMMETRY` is used in safety runs only.

The bounds are named in the modules: `MaxClock` everywhere, `MaxCount` and `MaxGrants`
in `RateLimiter`. The clock stops at its bound; nothing else does.

### Disagreements between the code and what is written about it

- `limiter_eviction`: the README promises per-user event-creation limits. A call that meets a full
  map deletes buckets of windows still running, perhaps the caller's own, and the key
  then gets Max calls more. What is true instead is proved: Max calls for each life of the
  bucket (`GrantsWithinQuota`), and the promise itself while fewer than 4096 windows run at a
  time and the process is not restarted (`ExactWhileRoomy`).
- `event_missing`: the tests expect not found for an update or delete of a missing
  event. If the event goes between the handler's read and its write, the repository does
  say not found, but the service wraps that as an internal error. Without faults that is the
  only way to an internal answer here (`InternalIsLostRace`).
- `event_bump`: the tests expect an update to move `UpdatedAt` forward. The stamp is
  taken before the write; the later write may carry the earlier stamp. No stamp is ever
  before the creation or ahead of the clock (`DatesStayInOrder`).

### Fairness

- `AgentKeys!FairSpec`: strong fairness of the steps of each request. A step waits only
  for a connection (`pgxpool` serves waiters in order) or a row lock (so does Postgres),
  and Go runs a goroutine that can run. That a statement fails or a request times out is
  never relied on: without that help the requests still end.
- `Lifecycle!FairSpec`: weak fairness of the main goroutine's steps (`BootStep`,
  `StopStep`) and of time while it stops (`Tick`). Postgres, the requests and the cleanup
  are not fair: Postgres may hang for ever, a body may never end. The timeouts that end the
  waits (`ConstructorFails`, `ShutdownEnds`, `StopTimesOut`) are part of the fair steps.
- `SignIn!FairSpec`: the ticker fires (weak fairness of `CleanupWakes`), and of the
  deletions it starts not all fail (strong fairness of `DeleteExpired`). Nothing is assumed of requests,
  crashes or the clock; a crash restarts the loop, which deletes at once.

## 4. What is proved

The theorems hold for all sets of requests, users, keys, agents and tokens and for all values of
the other constants that satisfy the modules' `ASSUME`s. These say what
`config.Validate` guarantees (limits and lifetimes of at least one), that the model bounds are
numbers, and that `None` is none of the values. `AgentEvents` also assumes finitely many requests and
event ids, as it counts them, and a timeout no longer than a window (30 s and a day); `ExchangeDoor` that
networks hold addresses, and that no tenant is called `common`.

Every property of a passing run that is not a liveness property is a theorem.

`RateLimiterProofs`
- `TypeCorrect`, `QuotaByLives` (`GrantsWithinQuota`), `NeverRefusedEarly`
  (`RefusedOnlyWhenSpent`). The invariant is `IInv`: a bucket that is
  counted now has granted at most Max per loss before this life plus what its count explains
  (`CountsExplainGrants`). `GrantsWithinQuota` alone is not inductive: it would allow a
  bucket with no count left that has already granted everything without a loss. The
  point of the proof is that prune removes only buckets nobody can call again.
- `MapBounded` (`TrackedBounded`), by the cardinality of what `evict` leaves.
- `QuotaImplemented` (`ImplementsQuota`). A running window of the quota is a bucket that prune leaves,
  so prune does not show; when the map is full, what `evict` leaves is one of the sets the quota may
  remember, since it leaves one less than the capacity.
- `ExactWhileRoomy`: while fewer than `maxTrackedBuckets` windows run and there is no restart, nothing is
  lost (`NothingLost`) and `PerWindowLimit`, which `limiter_eviction` violates, holds. Expired buckets may
  fill the map meanwhile. `ExactForFewKeys` gets there from the number of keys: a key has at most one running
  window of an action (`OneRunningWindow`), so fewer pairs of the two than entries are enough.

`AgentKeysProofs`
- `TypeCorrect`, from `TInv`: the types, and what each program counter says of the
  call (`StepArgs`).
- `NoLockLeaks` (`LockOnlyInTransaction`), inductive only with its converse
  `HolderHasLock`: who is past the lock step has the lock.
- `LimitHolds` (`ActiveAgentsWithinLimit`). The count and the commit are different steps;
  `RoomWhileLocked` carries the room found by the one to the other, because nobody
  else commits an agent of that user while the row is locked.
- `KeysShownAreStored` (`KeyShownIsStored`), `RevokedStaysOut` (`RevokedKeyRefused`), `RevokedForGood`
  (`RevocationIsFinal`), from `KeyInv`: a creation's id is its own and not stored before its commit
  (`OwnID`), what a revocation read of owner and revocation still holds when it writes
  (`RevokeFollows`), and an acknowledged revocation is in the table, so that later requests can
  only be refused or fail (`AckFollows`). The last two rest on `RowsKept`: three steps write
  the table, and none changes an owner or a revocation there is.

- `NobodyWaitsInACircle` and `HandlersAreShort` are what `EveryRequestAnswered` rests on besides
  fairness: who waits for a row or a connection waits for a transaction that can go on or for one
  that waits for the row's owner, who can (by the lock's invariant, and because a transaction has its
  connection already); and a handler takes at most five steps and never goes back.

`AgentDirectoryProofs`
- `DirectoryImplemented` (`ImplementsDirectory`). A creation takes effect when it commits, or
  when it counts and finds the limit reached; a revocation when it writes, or finds the agent
  revoked already; an authentication when it reads the agent. Every other step is a stutter. That a commit
  fits under the limit is `RoomWhileLocked` again; that two creations do not share an agent is `OwnID`.

`EventServiceProofs`
- `TypeCorrect`, `DeletedForGood` (`NoResurrection`), `OnlyOwnersWrite` (`OnlyOwnerWrites`), `OneDeleteWins`
  (`DeleteSucceedsOnce`), from `IInv`: the step of a handler decides its operation and
  what it has in hand (`CallFollows`); an id that was drawn is nobody else's and no event's until
  it is saved, and every other id is of an event there is or was (`IDsFollow`); the owner compared
  at the read is the owner at the write (`OwnerFollows`). The statements look at the id
  only, so none of the properties follows from a single statement.
- `StoreImplemented` (`ImplementsStore`). A handler takes effect at its write, or at the read that answers it.
  A write that finds no row maps to a failed request of the store.
- `DatesStayInOrder`: in the table and in every answer `UpdatedAt` is between `CreatedAt` and the clock, although
  writes may carry old stamps; from `CreatedFollows`, that the copy a handler read has the `CreatedAt` of the row.
- `InternalIsLostRace`: where statements do not fail, a request answered with an internal
  error is about an event that another request removed.

`SignInProofs`
- `TypeCorrect`.
- `UsersAreForGood` (`OneUserPerIdentity`): the upsert finds at most one row of an
  identity (`UniqueUsers`), and the row a handler has in hand stays that identity's
  (`UserInHand`).
- `SignInIsOwn` (`SignedInAsIdentity`), `DeadStayDead` (`DeadTokenRefused`),
  `LiveStayLive` (`LiveTokenKept`), from `TokenInv`: a drawn token is nobody else's until it is stored
  (`FreshUntilStored`), so no row is written twice; logged out tokens are not stored;
  a request that came with a dead token is still at its lookup or refused; a cutoff is never ahead of the clock.
- `SessionsImplemented` (`ImplementsSessions`). The account of an identity is its one row; a session is
  a stored row that has not expired. So the cleanup is a stutter, and so is a token that is drawn but not
  stored; time ends sessions. It needs, besides the invariants above, that a request has no
  user in hand before its token was read (`ActorFollows`), and that a token that is to be
  stored has its time stamp (`StampFollows`).

`LifecycleProofs`
- `TypeCorrect`, `ReadyWhenListening` (`ListeningImpliesReady`), `ExitIsClean`
  (`CleanExit`), `NoFalseAlarms` (`NoFalseAlarm`), from `IInv`. What a process has is
  decided by how far up or down its hooks it is: `HooksInOrder` says that the hooks of a
  process that starts or stops are logger, pool, server, cleanup, `StartedFollows` how many of
  them are up, and `PoolFollows`, `ListeningFollows`, `CleanerFollows` and
  `RequestsFollow` what that says of the pool, the listener, the loop and the requests.
  None of the four properties is inductive alone: that the pool is open while the server
  listens follows only from the server's hook being above the pool's.
- `GraceGiven` (`GraceForRequests`), an action property: from `IInv`, a step that refuses a
  request or ends the process is taken when no request is left, or after `Shutdown` has used its time
  up.
- `StopIsBounded` (`StopGoesOn`) and `StartIsBounded` (`BootGoesOn`) are what `StopsOnSignal` and
  `StartsOrExits` rest on besides fairness: a stop has at most `stopTimeout` seconds and nine steps
  left (`StopLeft`), a start nine steps and its missing migrations (`BootLeft`); what is left never grows and each
  step of the main goroutine makes it less, whatever the rest of the process does.

`AgentEventsProofs` cites what `EventServiceProofs` proves of the service (`INSTANCE`): every step
of the composition is one of the service or leaves it alone (`ServiceMoves`).
- `WritesAuthorized` (`WritesAreAuthorized`), `RevocationIsTimely` (`RevocationTakesHold`), from
  `DoorInv`: a request past the door came before its agent was revoked, if that was revoked at
  all, and acts for the agent's user. With the router's timeout the first of these bounds how long
  a revoked agent may still write.
- `QuotaForEvents` (`EventsWithinQuota`). Counting and inserting are two steps that may lie in two
  windows, so the count of a window says nothing of events by itself. Between the two the
  creation holds a ticket. Of one window, tickets and events together are no more than it has
  spent while it runs, nor than Max when it is over (`HeldWithinSpent`): an insert turns a ticket into
  an event, a failure drops it, and nobody gets a new one after the window.
- `DatesFollowCounting` (`DatedNearCounting`): a ticket is of a window that was not over when the request came
  (`TicketsFollow`), and the insert runs within the request's time.
- `RoutesImplementStore`: what the routes do to events is `EventStore`, too, behind authentication,
  limit and timeout. A request the timeout cuts off is one that failed.
- `TypeCorrect`.

`ExchangeDoorProofs`
- `ClientIsFound`: for headers and chains of any length, behind trusted proxies that append
  to the header `clientIP` returns the client, whatever the client wrote in front and
  whatever blanks were left behind. `ScanFromTheRight` is all of `clientIP` behind a trusted peer, and
  `FrontIgnored` that what stands in front of an entry no proxy wrote decides nothing. `HeaderIgnored`: without a
  trusted peer the header decides nothing.
- `CountedUnderOwnAddress` (`CountedByClient`) applies them at the arrival of a request. That a scan of
  any length ends somewhere takes well-foundedness of the numbers.
- `QuotaForClients` (`ClientsWithinQuota`): what a client has tried is no more than its own
  address's window has spent (`CountsFollow`), which needs the theorem before.
- `IdentitiesAreReal` (`NoForgedIdentity`), `PromisesKept` (`ConfigKeepsPromises`), from
  `ProcessFollows`: what a running server verifies and trusts with is made of the environment
  it was started from.
- `LifetimesAreAsWritten` (`LifetimeAsWritten`): tokens of a server that started live for
  `USER_TOKEN_TTL_HOURS` just when so many hours are a duration the machine has; otherwise
  for another positive time. It rests on what `Wrap` computes (`WrapIs`).

Only model-checked: the four liveness properties, `EveryRequestAnswered`, `ExpiredTokensGo`,
`StartsOrExits` and `StopsOnSignal`; fairness and `ENABLED` are beyond the prover. For all but `ExpiredTokensGo` their safety part is
proved, as said above. What the code
violates is shown by counterexample, in the runs above.

## 5. Not modelled

- Signatures, key sets and discovery of the providers: the OIDC library's. The verifiers' own
  checks are modelled; discovery appears as a constructor that may fail.
- DTOs and logging: they rename and print. (What is logged matters once, for
  `NoFalseAlarm`.)
- `GET` routes, `/healthz`, unknown routes, recovery from panics, body limits: they change
  nothing, or are the HTTP library's.
- What the migrations do to the tables: one-shot DDL. They are counted, one at a time, in
  `Lifecycle`; the tables are modelled as they stand after the last.
- Two server processes on one database: the README says single instance only. Migrations and the limiter
  would need another model.
- How numbers, addresses and networks are parsed: the standard library's and viper's.

## 6. What could come next

1. A clock that is set back: `time.Now()` decides windows, expiries and cutoffs, and here it only
   goes forward.
2. Updates in `AgentEvents`, with `OnlyOwnerWrites` restated for agents.
3. A second server process during a deployment, when the README's promise of one instance
   is to be given up: the migrations' lock and the limiter in memory are what would break.
