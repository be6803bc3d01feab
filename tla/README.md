# EchoGPT backend: verification project

TLA+ models of the state-changing core of the EchoGPT backend (NestJS, Prisma,
PostgreSQL, optional Redis), checked by TLC on small instances, with theorems
about them proved by TLAPS for every value of their constants.

Every definition is translated from the source; `PROJECT.json` ("map") names the
lines each one stands for. To re-run: `tlasany M.tla`,
`tlc -workers 2 -config X.cfg M`, `tlapm M.tla`.

## 1. The system

The backend is a stateless HTTP server over one PostgreSQL database. A request
runs as a chain of awaited Prisma statements, and between any two of them other
requests, of this server or of another instance, may commit. There are no
background jobs: billing periods roll over, and due downgrades are carried out,
when a request of the user happens to look.

| Component | State | Operations | Interacts with |
| --- | --- | --- | --- |
| Subscriptions (`subscriptions.service.ts`) | `subscriptions`, `subscription_plans`; a partial unique index allows one ACTIVE row per user | current subscription (rollover, due switch, provisioning), status, allowance check, upgrade, downgrade, admin plan and status writes | read by every metered call; counts usage |
| Billing periods (`billing-period.util.ts`) | none (pure) | `calculateNextPeriodEnd` | called wherever a period begins |
| Usage (`usage.service.ts`, `SubscriptionUsageGuard`) | `api_usage_logs` | count successful calls of a window, record a call, best-effort record | guard before, handler check, log after each chat message or search |
| Sessions (`auth.service.ts`, `users.service.ts`, `admin.service.ts`) | `sessions`, `users` | login, refresh with rotation and reuse detection, logout, change password, delete account, change account status | all transactions of `users` and `sessions` rows |
| Registration and verification (`auth.service.ts`) | `users`, `email_verification_tokens` | register, verify, resend | e-mail transport, first subscription |
| Admin accounts (`admin.service.ts`) | `users.isActive`, `users.roleId` | status, role, guard on the last administrator | revokes sessions |
| Providers (`providers.service.ts`) | `ai_providers`, `user_ai_providers`, default flags under two partial unique indexes | create, update, set default (system, user), enable, delete, resolve credentials | read by chat |
| Chat (`chat.service.ts`) | `conversations`, `messages` | create, list, rename, soft delete, send, stream | allowance, provider, usage log |
| Completion stream (`ai-completion.service.ts`, `chat.controller.ts`) | one stream's buffer, abort signal, deadline | chunks, end, abort by the client, timeout | provider, HTTP response |
| Search (`search.service.ts`, `search-cache.service.ts`) | `web_searches`, cache in Redis | search, history, suggestions | allowance, provider, Redis, usage log |
| Rate limiting (`redis.service.ts`, `fail-open-throttler.storage.ts`) | counters with expiry in Redis | INCR then EXPIRE, fail open | every route |
| Redis connection (`redis.service.ts`) | the client's status, retries, the flag `available` | connect, retry, give up, mark by events and commands | the cache, the rate limit, health reports |
| Paged lists (`admin`, `users`, `chat`, `search`, `subscriptions` services) | none; a client's walk over the pages | `findMany` with skip and take, `count` | every table while others write it |
| Reports and health (`admin.service.ts`, `health.service.ts`) | none; figures counted by statements of their own | dashboard, analytics, usage summary, health | every table, the database's availability |
| Seed (`prisma/seed.ts`) | roles, plans, the administrator, providers | upserts, statement by statement | whatever administrators did to those rows |
| Configuration and mail (`env.validation.ts`, `configuration.ts`, `email.service.ts`) | the environment, what is read of it | validate, read, construct, send | every service at its start |
| The rest | none of their own | JWT strategy and guards, profile, encryption, Swagger, exception filter, provider health check | |

What is hard, and what makes each part correct:

- **Subscriptions.** Requests act on a row they read several statements before,
  by id and without re-checking it. Correct: at most one ACTIVE row; billing
  windows stay on the grid of whole cycles whoever rolls them; nobody ends up
  without a subscription; paid time is not taken away; a user who comes back
  ends up in the current window; a downgrade comes at the end of the cycle.
- **Usage.** Check and charge are separated by a provider call that may last as
  long as a billing window. Correct: only delivered answers are charged; the
  overshoot of a limit is bounded by the calls in flight.
- **Sessions.** READ COMMITTED: `updateMany` writes the rows its snapshot saw
  and a concurrent insert is in no snapshot. Correct: a token is rotated once; a
  revocation leaves no session alive except ones that raced it; the two lock
  orders (session then user, user then session) never close a cycle.
- **Billing periods.** Month ends and leap days. Correct: no month is skipped,
  no day slips, over any number of rollovers.
- **Verification.** A token verifies once; a resend leaves one usable token; no
  link is used up for nothing.
- **Admin accounts.** There is always an active administrator; a deleted account
  stays deleted.
- **Providers.** At most one default each; a default is enabled; resolution
  never picks a disabled provider.
- **Chat and streams.** What is stored, charged and reported of an exchange
  agree, whoever ends it first; an answer cut short is not stored; a title the
  user gave stays; a silent provider holds no request for ever.
- **Throttle.** A counter that counts also expires; the memory that stands in for
  Redis gives up what matters least.
- **Search.** An answer from the cache is one of the configured provider, to this
  query and limit; no state of Redis fails a search; a silent provider ends at its
  timer.
- **Redis connection.** It settles: connected, or given up; and Redis that stays
  away is reported as down at last.
- **Lists.** A client that walks all pages misses a row, or sees one twice, only
  if a write or a shared time stamp explains it.
- **Reports.** Figures that should add up differ by no more than the writes
  meanwhile; a report whose database fails says so.
- **Seed.** Run again after any death it restores the first day; it is refused
  only for what others did, and never takes the default provider away by itself.
- **Configuration.** What was validated is what is in force; what was accepted
  starts, if it has a secret, a database URL and a database.

`PROJECT.json` ("hazards") lists these at their lines, with the properties that
would catch them. Some of what can go wrong does go wrong, and is not against any
documentation: a race that the code leaves open. The property then names the race as
the only way (`OnlyRacedSurvive`, `DeletedIsFinal`, `AdminsKept`, `TitleKept`,
`DeletedGrowsOnlyByOverlap`, `PriorTokensInvalid`, `ShownOnce`, `FiguresAgree`,
`SeedYields`): it tells the race from a fault, and does not say that the race
cannot happen. Three hazards have no property, because what the code does there
contradicts nothing that is written down; their notes say so.

## 2. The modules

```
QuotaGate            what metering promises (abstract)
   ^  INSTANCE, refinement mapping in Metering
Metering             metered calls, EXTENDS Subscriptions: a check runs the
   |                 actions of getCurrentSubscription on the same request
Subscriptions        rows, plans and the requests on them
Exchange             what a chat exchange promises (abstract)
   ^  INSTANCE, refinement mapping in Chat
Chat                 exchanges with a provider, and the conversation they write
BillingPeriod        the calendar arithmetic Subscriptions abstracts to ticks
TokenChain           what the rotation of refresh tokens promises (abstract)
   ^  INSTANCE, refinement mapping in Sessions
Sessions             sessions and the users row under READ COMMITTED
Providers            the two tables of providers and the choice for a chat
Accounts             users, verification tokens and administrators
Throttle             the counters of the rate limit, in Redis and in memory
RedisClient          the connection to Redis and what the server believes of it
Search               searches, their cache and provider, EXTENDS RedisClient
Listing              paged lists, walked while rows are written
Reports              figures counted side by side, and the health checks
Seed                 the seed script on a system in use
Settings             the environment from validation to the services
MCRedis              one instance of Search and Throttle, which both work with
                     Redis and share no state: part chooses the one that is run
MCPlatform           so for BillingPeriod, Listing, Reports, Seed, Settings and
                     Accounts
X_proofs             the theorems about module X (Metering_proofs also QuotaGate's,
                     Chat_proofs Exchange's, Sessions_proofs TokenChain's);
                     Platform_proofs those about BillingPeriod, RedisClient,
                     Search, Listing, Reports, Seed and Settings
MC*                  instances for TLC
```

### Subscriptions

One user's rows, the plan table, and a set of requests, each with a program
counter and what it remembers: the row it read, that row's plan, the target plan
it looked up, and the time it took with `new Date()`. One action is one awaited
statement with the code that follows it:

| Code | Actions |
| --- | --- |
| `getCurrentSubscription` | `FindActive`, `Decide`, then `Switch` (due downgrade) or `Roll` (rollover by id) |
| `createDefaultFreeSubscription` | `Provision` (the plan is looked up), `Insert`, `Adopt` (another request provisioned first) |
| `getSubscriptionStatus`, the allowance check | `ReadStart` ... `Reply` |
| `upgrade` | `ChangeStart`, the actions above, `Check`, then `Restore` or `Replace` |
| `downgrade` | `ChangeStart`, the actions above, `Check`, `Schedule` |
| `adminUpdateSubscriptionStatus` | `AdminStart`, `AdminApply` |
| `adminCreatePlan`, `adminUpdatePlan` | `AdminWritePlan` |
| error of a statement, death of the server | `Fail` |

A `$transaction` is one step. Each one here starts with an update of the rows it
replaces and ends with an insert or update the partial unique index decides, so
two of them serialise on the row lock or the index. The loser is rolled back
without effect: the outcome in which the P2002 handler runs its recovery query in
the aborted transaction, which throws, and the whole switch is undone.

Abstracted: dates are ticks and a plan's cycle a number of ticks; `canceledAt`
is whether it is null; `endDate`, which nothing reads, is left out; price and
limit are numbers compared as `isHigherPlan` does (limit 0 stands for null).

### Metering and QuotaGate

Metering adds to a reading request the stages of a metered call: the guard's
check, the handler's check, the provider, the store and the usage log. The
contents of messages and searches are left out; `Answer` chooses success or
failure, `Die` ends a call between any two statements (and is a swallowed error
of `safeRecordUsage`). QuotaGate states the promise without tables: calls pass
a gate that compares the charges of the window with the limit and are charged
later. `Metering!Phase` and `Used` map one to the other. A check that holds a
window which has ended is `stale`, and passes the gate with whatever the old
window still allowed.

### Sessions and TokenChain

The users row, the account's sessions and the requests on them. The module keeps
what READ COMMITTED does: `Snapshot` evaluates `updateMany`'s condition,
`Sweep` waits for the locks on those rows, writes them and commits; a rotation
is `RotateClaim` (the conditional update that takes the row lock) and
`RotateCommit` (the insert). Locks are read off the program counters: `Held` is
what a request has locked, `Wanted` the rows its next statement writes, and it
waits for whoever holds one of those (`Waits`). Two fields of a session are history, not columns: `parent`/`family` (whose rotation made
it) and `raced` (it was created around a revocation). The password is the number
of the change that set it. Reuse of a rotated token, and losing the claim of a
rotation, revoke all live sessions, as the code does.

`TokenChain` says what this is for, without rows, locks and requests: a login has
a chain of tokens, each of which replaces the one before in one step, and a token
that is no longer good never is again. In it a live session is a good token, with
its login and its number. A rotation is two steps in the code and becomes one
there, at its commit; the claim is only a lock until then.

### Chat and Exchange

One conversation and the requests on it: `sendMessage`, `streamMessage`,
`updateConversation`, `deleteConversation`. A request's program counter says what
it awaits; a step ends at the next await of I/O, which is where the client's
abort and the deadline can strike, because Node runs the generators and the SSE
loop of the controller between two reads without interruption.

| Code | Actions |
| --- | --- |
| `createConversation` | `Init` |
| `getOwnedConversation` | `Find`, or `Refuse` |
| `checkRequestAllowance`, `resolveChatCredentials` | `Allow`, or `Refuse` |
| `loadRecentMessages` and the call | `History` |
| `fetchRaw` and the loops of `streamOpenAi` and `streamClaude` | `Connected`, `Piece`, `StreamEnds`, `ProviderFails` |
| `fetchJson` | `Answer`, `ProviderFails` |
| `createDeadline`, the controller's `AbortController` | `Deadline`, `Abort` |
| the handlers of errors and `safeRecordUsage` | `LogFailure` |
| the transaction, the log, the `done` event | `Store`, `Charge` |
| `updateConversation`, `deleteConversation` | `Change` |

An answer is the number of pieces it came in. The statuses of a failure are kept
because the code decides by them what is logged. Taken from the runtime: a fetch,
or a pending read of its body, whose signal is aborted is rejected with an
`AbortError`, before the reader is cancelled by the listener of `iterateSse`
(the fetch's own listener was registered first). Were it the other way round, the
cancelled read would report the end of the stream, and half an answer would be
stored as a whole one: the mutant `CutEndsStream`. When the event `close` of a
request comes is left open: at any time or never.

`Exchange` says what is promised in terms of outcomes only: what was received,
sent, stored, charged and told. Its invariant `Agreement` is proved, and `Chat`
implements it, so it holds of the code's model.

Two things a reader may not expect of the code, neither against its
documentation: an abort or a timeout while the body is read is logged as a 502
(only before the response is it a 499, which is not logged, or a 504), and the end
of a stream counts as the end of an answer even if the provider reported an error
in it, because `streamOpenAi` and `streamClaude` skip what they do not know.

### Providers

The system's providers and one user's configurations of them, both as tables of
flags (active or enabled, default, has a key), and the requests on them. Names,
slugs and URLs are left out; a row is there or empty.

| Code | Actions |
| --- | --- |
| `createProvider` | `CreateStart`, then `Snapshot`, `Clear` if it is to be the default, and `Write` |
| `updateProvider`, `setProviderActive` | `UpdateStart`, `Write` |
| `setDefaultProvider`, `setUserDefaultProvider` | `SetDefaultStart`, `Snapshot`, `Clear`, `Write` |
| `upsertUserProvider` | `UpsertStart`, (`Snapshot`, `Clear`,) `Find`, `Write`: with an `include`, Prisma reads first and then inserts or updates |
| `deleteProvider`, `deleteUserProvider` | `DeleteStart`, `Delete`, which takes the configurations along by the foreign key |
| `resolveChatCredentials` | `AskStart` or `ResolveStart`, `SystemDefault`, `Oldest`, `Config`, `Reply` |

The `updateMany` that clears the old default is two actions, because under READ
COMMITTED it evaluates its condition on a snapshot (`Snapshot`), waits for the
locks on the rows it found and evaluates it again on them (`Clear`): a default set
in between is in no snapshot, and the partial unique index then refuses the
second one (`Accepted`). Nothing a transaction wrote is seen before its last
statement, so the write and the commit are one action. Locks are read off the
program counters: `Wanted` is what a request's next statement writes, and a
deletion waits for the provider and all its configurations at once. No cycle of
waits closes (`NoCircularWait`): only the row that was the default is ever locked
from one statement to the next, so whoever holds it finds the row it is about to
make the default free.

What a request misses (`missed`) is history: the rows that others wrote since it
began. The properties use it to tell a race from a fault.

Three things a reader may not expect, none of them against the documentation
unless races are counted: a default that another request set meanwhile makes
`createProvider` answer that the slug exists (every P2002 is reported so,
`providers.service.ts:79`); a configuration may be the user's default while it
is disabled (`upsertUserProvider` does not mind; the resolution passes it over);
and the system default can be inactive, or deleted, if the check that forbids it
(`admin-providers.controller.ts:114`) read the row before a switch.
`OnlyStaleWritesUnsettle` says that this race is the only way.

### Accounts

The accounts as sets of flags (there, active, admin, verified, deleted), the
verification tokens, and the requests on both. Names, passwords and the text of
mails are left out; a mail may arrive at any time or never.

| Code | Actions |
| --- | --- |
| `register` | `RegisterStart`, `Create` |
| `verifyEmail` | `VerifyStart`, `WriteById` |
| `resendVerification` | `ResendStart`, `Snapshot` and `Create` (its transaction) |
| `softDeleteAccount` | `DeleteStart`, `WriteById` |
| `updateUserStatus`, `updateUserRole`, behind `JwtStrategy` and `RolesGuard` | `ChangeStart`, `Find`, `CountAdmins`, `WriteById` |
| error of a statement, death of the server | `Fail` |

`missed`, `late`, `shaken` and `beside` are history: what others wrote while a
request ran. That a token can verify after it was used up is finding 4. What holds
under every overlap and failure is that no link is used up for nothing
(`NoLinkLost`): the transaction of a resend invalidates the old links only together
with a new one. Four things a reader may not expect, which the properties name as
the exceptions they are:

- the last administrator can delete his own account, for `softDeleteAccount`
  counts nobody;
- two administrators can demote or deactivate each other at the same moment,
  because the count and the write are two statements outside a transaction;
- an account deleted between an administrator's `findUnique` and his `update`
  can come back active;
- the count is of active administrators whatever the status of the account to be
  demoted, so the last active one cannot demote another that is inactive.

### Throttle

The counters in Redis, the entries of `memory` in the order of insertion, and the
hits in flight. `Incr` and `Expire` are the two commands of `RedisService.incr`;
each may be answered, carried out without an answer (the hit is then counted in
the memory as well, or `ioredis` sends the command again), or not carried out.
`Pttl` is the third command, whose failure costs nothing. `FallBack` is
`incrementMemory` (`Swept`, `Counted`, `Evicted`). `Restart` empties Redis, which
`docker-compose.yml` runs without persistence; `Die` empties the memory of the
server. Of a count the model keeps whether it is the first, on which `EXPIRE`
depends; what is compared with the limit is left out, as is a command that Redis
carries out after its time-out, and the plain `get`, `set` and `del`.

A reader may not expect that a hit is counted in both places when only its reply
is lost, and that a counter whose `EXPIRE` was lost stays: nobody sets its time
to live later, so once it passes the limit its client is refused until Redis
restarts or evicts it. `OnlyOrphansStay` says that this is the only way.

### RedisClient and Search

`RedisClient` is the connection ioredis keeps for `RedisService`: `Ready`,
`AttemptFails` (with the count of `retryStrategy`, which gives up for good), `Drop`
(a lost connection, which Redis may close without an error), and what a command
does to the flag (`CommandReplies`, `CommandFails`). `Search` runs on it: the
lookup in the cache, the provider or the mock, the fill, the row and the log. Of
an answer the model keeps who gave it, to what question, and whether it has
results; a question is what `buildKey` makes of query and limit. A `SET` whose
reply was given up may land later (`strays`). The server may be restarted with
another provider, in mock mode, or without a cache. With these the entries
written under the name `mock` are seen to be never read, since a lookup goes by
the configured name.

### Listing

One list is walked page by page. A row is its time stamp, 0 while `where` leaves
it out; a statement may commit with a stamp that is one tick old, and ties are
ordered anyhow, which is what `orderBy` on a column that is not unique allows.
`Lists` holds what the six lists do: ascending or not, whether rows move
(`updatedAt`), leave, and come back. `excuse` is history: the rows a write may
have hidden or shown again. So a client of the API can count on what
`ShownOnce` says, and on no more: a conversation that had
another deleted above it is skipped, and the two messages of one exchange, if
they share a millisecond, may swap places between pages.

### Reports

A report is the set of its figures, each counted under a snapshot of its own and
in any order, but for what the code awaits first (`ReadFirst`: the ping of
`getSystemHealth`) or last (`ReadLast`: the days, the current period). Time is in
half days so that a period may cut a day. Three things a reader may not expect,
each one named by a property as the limit of what holds: `providers.inactive` is
a difference of two counts and may be negative (`FiguresAgree`); the default period of
`getUsageByDay` touches 31 days of which 30 are returned, and is not applied to
the totals beside it (`DaysAddUp`); and `getSystemHealth` says `degraded` only when
the database goes or comes back between its statements, because otherwise the
counts beside the ping fail the report (`DownOnlyInPassing`).

### Seed

The statements of `main` in their order, each committed by itself; the API's
writes of the same rows in between (`Touched`); death anywhere (`SeedDies`). A
renamed plan is not found by name and keeps the slug, so the upsert is refused;
so is OpenAI as the default beside another. `ADMIN_EMAIL` is trimmed but not put
in small letters, and `login` looks for small letters: `SeedRestores` has to leave
out an address with capitals. The seed sets the password and revokes no session.

### Settings

A variable is the form of its text: what `Number`, `parseInt`, `trim` and
truthiness tell apart. One variable stands for each kind; the mail variables, the
secrets and `NODE_ENV` stand for themselves. `Validate` is `validateEnv` and what
ConfigModule then adds to the process's environment, `Construct` the services'
constructors, `ConnectDatabase` the `$connect` in `PrismaService.onModuleInit`,
which stops the server on a blank `DATABASE_URL` (the validation lets it pass) and
when there is no database, and `SendMail` the first mail, which is skipped with
`EMAIL_MOCK` and in the environment of the tests. The properties are exact: the
server is up if and only if `Startable`, a number is in force as it was validated
if and only if, and so on. So they also say where two readers differ: `1e3` is
1000 to the validation and 1 to `parseInt`, unless it came from `.env`, in which
case ConfigModule has replaced it by the number; `1` is a Boolean to the validation
and not `'true'`; an empty `JWT_ACCESS_SECRET` is falsy to the validation and not
nullish to `??`, so the server stops while it starts.

### BillingPeriod

`calculateNextPeriodEnd` on year, month and day, with what the JavaScript setters
do to a day that a month does not have (`Normal`), applied again and again as a
rollover does. The time of day, which the code never sets, and daylight saving
are left out. The reference definitions (`DayNumber`, `MonthNumber`, `IsLeast`)
count days and months independently of it.

## 3. The runs

All bounds are CONSTANTS with the word *bound* in their declaration. The runs set
`CHECK_DEADLOCK FALSE` because every module stops by its bounds: when the clock,
the events or the rows are used up and no request is in flight, nothing is left
to do.

The type invariants of all modules are proved (section 4). The runs repeat only
that of Throttle (`ThrottleTypeOK`), which says more than types: the memory is never
above its limit.

| Run | Properties | Shows |
| --- | --- | --- |
| `subs` | RowsCoherent, WindowsOnGrid, CoverageKept, KeptForThePeriod | two requests of any kind, an admin who sets statuses, withdraws a plan and changes its price, failures |
| `subs_live` | CatchesUp | a user who keeps coming back ends up in the current window |
| `subs_downgrade` | DowngradeOnTime (violated) | a stale rollover carries a pending downgrade into another cycle |
| `metering` | MeteringAccurate, UsageBounded, ImplementsGate | three overlapping calls around the end of a window |
| `metering_idle` | UsageBounded (violated) | after several missed periods a sequential user is served more than the limit |
| `sessions` | RotationExclusive, OnlyRacedSurvive, ImplementsChain, Answered | two overlapping requests on the sessions of an account |
| `sessions_password` | SessionsMatchPassword (violated) | a login with the old password outlives the change |
| `chat` | CutNeverKept, ImplementsExchange, TitleKept, DeletedGrowsOnlyByOverlap, Served | two overlapping requests on a conversation, with everything that may end an exchange |
| `providers` | DefaultKept, OnlyStaleWritesUnsettle, OnlyOvertakenRefused, NoCircularWait, ResolutionInOrder | two overlapping requests on the providers and a user's configurations |
| `accounts_single_use` | TokenSingleUse (violated) | a verification that read its token before a resend invalidated it verifies the account all the same |
| `redis` | CacheFits, SearchServed, ConnectionSettles | two overlapping searches, two outages or restarts, three configurations |
| | ThrottleTypeOK, OnlyOrphansStay, OldestFirst, WindowEnds | hits of three clients with lost replies, restarts and deaths |
| `platform` | PeriodsFollowCalendar | subscriptions that begin at the borders of every month of four years, six cycles, sixteen periods |
| | ShownOnce | three lists of up to four rows, two to a page, walked during two writes |
| | FiguresAgree, DownOnlyInPassing | each report over up to two rows, with a write and a failure of the database |
| | SeedRestores, SeedYields | two runs of the seed, each of which may die anywhere, and two writes of others |
| | ReadersAgree | every form of the variables of one kind at a time, with and without a database |
| | AdminsKept, DeletedIsFinal, PriorTokensInvalid, NoLinkLost | four requests, two at a time, on an administrator, a user and a newcomer |

Why the bounds are enough to see what matters:

- `subs`: two requests, plans `free` and `pro` with cycles of two ticks, three
  ticks, three events. A request can be overtaken by a whole operation of the
  other, a period can end while a request waits, an upgrade, a downgrade and an
  interference fit in three events; several missed periods are the business of
  `subs_live`, which runs four ticks. `WithdrawPro` makes the scheduled
  plan unavailable, as it is or with another price. A switch overtaken by a
  rollover needs an upgrade, a pending cancellation, and two reads at its end: it is
  reached here (and does lose a fresh period, which is why `KeptForThePeriod` names
  that case). So is an upgrade that overwrites a period because the plan it
  compared with was repriced before it committed.
- `metering`: limit 1 and three requests reach the bound Limit + 2 of
  `UsageBounded` exactly. The clock runs during calls, so a call may be admitted
  in one window and charged in the next. Four calls are needed to tell the gate
  from one that is off by one.
- `metering_idle`: one request and a clock that stands still during calls, so the
  violation is due to the missed periods alone.
- `sessions`: two requests and three rows: a login, its rotation, and another
  session born while a revocation is in progress. Two events: an account operation
  and a second one, a failure or an expiry.
- `chat`: two requests, because a conversation is shared by no more than the
  exchange and whatever overtakes it (another exchange, a renaming, a deletion);
  two pieces, so that an answer can be cut after a part of it.
- `providers`: two seeded providers and a third, so that a default can move, a
  provider that is not the default be deleted, and the oldest active one differ
  from the default; three requests, two of them at a time: a deactivation
  overtaken by a switch, and a resolution of what they leave. Keys are given by
  the initial states (the flags the requests set are `on` and `def`).
- `platform`, accounts: the administrator of the seed, a registered user who may have been
  promoted, and an address that is free; four requests, two at a time: two
  administrators at each other, a promotion, a deletion between another request's
  reading and writing. Three tokens: one that two resends race to replace.
  `accounts_single_use` needs less: two accounts and two tokens.
- `redis`, throttle: the memory has room for two clients; a window lasts two ticks,
  so hits can be counted in both halves of it. The part runs twice: with two hits
  that overlap, so one can count while the other has yet to send `EXPIRE`, of two
  clients (`FewKeys`); and with three clients and one hit at a time (`LoneHit`), so
  that the memory evicts and two entries have an order.
- `platform`, billing: subscriptions begin on the first two and the last days of
  every month of 2023, 2024, 2099 and 2100 and are rolled over fifteen times:
  every month length, leap days, a century year without one, and more than a year
  of months. The theorem says it of every day and any number of rollovers.
- `redis`, search: the second request overtakes the first or finds what it
  cached; the entry lives for one tick, so that it ends between the two; one
  `SET` at a time is on its way after it was given up; two events allow Redis to
  go before and after a restart. `MaxRetries` is 1: the client gives up after two
  failed attempts instead of eleven.
- `platform`, lists: four rows on pages of two, so that a row can cross the one
  border in either direction, and a page be left over; three stamps, so that rows
  can tie or be ordered; two writes, one to move a row away and one to put another
  in its place.
- `platform`, reports: two rows make sums of every shape; `DayLimit` is 1 for 30, so
  that two rows on two days are one too many; the period of a summary is the
  current one or one that is over.
- `platform`, seed: two runs, so that the second finds what the first left; two
  writes, one before it and one within it.
- `platform`, settings: the variables of other kinds have their usual values,
  since no reader combines two kinds.

### Fairness

`WF_vars(Step(r))` for each request: once started, a request's next statement
is eventually executed. The event loop runs the continuation of a settled promise
and the database answers a statement or breaks its lock wait. Nothing obliges a
client to send a request, so starts are not fair. `CatchesUp` assumes instead
that requests keep starting (`[]<><<ReadStart>>`), and is not needed of a user who
never returns; the other conjunct of its premise is that plan `free` exists,
without which provisioning throws. Weak fairness is enough
for `Answered` because a run has finitely many rotations (they are bounded by
the rows), so a lock that is released is at last not taken again; in PostgreSQL
the queue of waiters on a row does that. What the run checks is that no cycle of
waits closes, which `Sessions_proofs!WaitsEnd` proves for any number of requests
and rows. Requests that meet the bound on rows are left out of it.

In `Chat`, `WF_vars(Serve(r))` is the event loop and the database, and
`WF_vars(Deadline(r))` the timer of `createDeadline`, which is set before the
call and disposed of in the `finally` after it. Nothing is asked of the provider,
which may be silent for ever or stream without end, or of the client. So `Served`
rests on the deadline alone, and fails when the deadline covers the connection
only (mutant `DeadlineToConnect`).

In `Throttle`, time passes (`WF_throttleVars(Tick)`) and each hit goes on
(`WF_throttleVars(Step(r))`), since `commandTimeout` rejects a command that Redis leaves
unanswered. Clients may hit for ever, which is what `WindowEnds` must withstand.

In `Search`, `WF(Serve(r))` is the event loop, the database, `commandTimeout` and
the timer of `fetchJson`; `WF(Connection)` is ioredis, which reconnects after a
delay or gives up. Nothing is asked of the provider or of Redis: `SearchServed`
holds if both are silent for ever, and `ConnectionSettles` assumes in each half
that Redis at last stays away, or stays.

### Findings

1. **A downgrade may come a cycle late** (`subs_downgrade`).
   `getCurrentSubscription` rolls over by id from the copy of the row it read.
   If a downgrade is scheduled in between and the period ends before the clock
   is read, the row moves into a new period with the downgrade still pending.
   `subscriptions.controller.ts:98` says "at the end of the current billing
   cycle". It takes two overlapping requests: `AloneDowngradesOnTime` proves that one
   request at a time is never late, and `DowngradesLateOnlyInRaces` that a rollover
   which carries a downgrade along read the row before it was scheduled.
2. **A user who was away is metered in a past window** (`metering_idle`). One
   call of `getCurrentSubscription` advances one period. A metered call runs it
   twice, so after more missed periods the checks count the usage of a window that
   is over, find none, and let the call through, which is charged in the current
   one. `subscriptions.service.ts:189` says "Enforces subscription request limit".
   No race is needed. `AloneOvershootsSlowly` proves how far it goes without one: the limit
   `L` is not passed before `2 L + 1` periods are over, and after `K` periods a
   window holds at most `(K + 1) / 2` charges, or `L` if that is more.
3. **A session may survive a password change** (`sessions_password`). A login
   that verified the old password, or a rotation in progress, inserts a session
   that the revoking `updateMany` did not see. `users.service.ts:150` says
   "revokes all active refresh-token sessions in a transaction". It takes two
   overlapping requests: `AloneRevokesAll` proves that nothing survives otherwise.
4. **A token may verify after it was used up** (`accounts_single_use`).
   `verifyEmail` checks `usedAt` on the row it read; its transaction then writes by
   id, without asking again (`auth.service.ts:428`). A resend that invalidates the
   token in between does not stop it, nor does another verification with the same
   token. `schema.prisma:109` says "A token is single-use: once usedAt is set, it
   cannot be reused". It takes two overlapping requests: `VerifyStart` refuses a
   token that was used before it came.

`OnlyRacedSurvive` and `KeptForThePeriod` say how far these go: nothing else
survives a revocation; a period is taken away only by a switch that a rollover
overtook, or by an upgrade whose plan was repriced meanwhile.

## 4. What is proved

Theorems hold for every value of the constants that satisfies the named
assumptions of the modules (`ConstantsAssumption`, `MeteringAssumption`,
`BoundsAssumption`, `DaysAssumption`, `PiecesAssumption`, `ProvidersAssumption`,
`AccountsAssumption`, `ThrottleAssumption`, `RedisAssumption`, `SearchAssumption`,
`ListingAssumption`, `ReportsAssumption`, `SeedAssumption`), which TLC evaluates on
every run: any number of requests, plans, sessions, rows, clients, retries and
ticks, and any length of run. They ask little more than types; those that say more are
these:
`MeteringAssumption` (the module composes the user's calls only, without an
administrator who writes plans or statuses), `ThrottleAssumption` (there is a
client), and `ReportsAssumption` (a report is about its own table). Two
hypotheses are explicit: `GateAssumption`, because QuotaGate is used through
INSTANCE (MCMetering has TLC evaluate it for the instance), and `[]KeepsUp`,
explained below. The theorems named `Alone...` are about `Requests = {one}`: a user
whose requests come one after the other. They tell a race from a fault that needs
none, and are stated for the findings.

Subscriptions and metering:

| Theorem | Says | Argument |
| --- | --- | --- |
| `Subscriptions_proofs!TypeCorrect` | `[]TypeOK` | with what a request holds at each program counter (a row and its plan from `decide` on), without which the stale row read by `Roll` has no type |
| `CoherentRows` | `[]RowsCoherent` | the index is modelled by what it refuses; the work is `ScheduledIsPending`, which survives stale writes by id because `Schedule` and `Restore` write both columns |
| `CoverageIsKept` | `CoverageKept` | action by action: each one that takes ACTIVE from a row puts another in its place or is an admin's |
| `WindowsTile` | `[]WindowsOnGrid` | `GridInv`: every row, and every copy of one that a request still holds, begins a whole number of cycles after the row was made, and ends one cycle later (for plans whose cycle no administrator rewrites); a rollover from a stale copy goes back on the grid, never off it; division is reasoned about by `QuotientUnique` |
| `PeriodsAreKept` | `KeptForThePeriod` | `SwitchLoses`: a due switch read an end that was over, so a row that is entitled now ends later; `ReplaceLoses`: a plan that was higher when it was checked is not lower unless one of the two was repriced |
| `DowngradesLateOnlyInRaces` | a period in which a downgrade is pending is extended only by a rollover whose copy of the row had none pending | `OnlyRollMovesEnd`, `OnlyDecideRolls`: only a rollover moves an end, and only `Decide` leads to one, from a copy that it keeps |
| `AloneDowngradesOnTime` | `DowngradeOnTime` for one request at a time | then the copy is the row until it is resolved (`CopyStaysFresh`) |
| `AloneRollsForward` | for one request at a time, a window that moves moves on to the next one, which has begun | the same: a rollover continues the row as it is |
| `Metering_proofs!MeterTypeCorrect` | `[]MeterTypeOK` | the invariant of Subscriptions is kept by the calls' steps too |
| `MeteringIsAccurate` | `[]MeteringAccurate` | `AccurateInv`: what is stored is what is logged and what `Recording` has still to log, as cardinalities; each step adds to one of them or moves one over |
| `UsageIsBounded` | of the abstract gate: charges stay within the limit and one call for each other call in flight | `GateInv` counts the calls that can no longer be refused against the bound |
| `MeteringImplementsGate` | `MeterSpec /\ []KeepsUp => ImplementsGate` | the step simulation. `CallsInv` says that there is one row, whose windows tile time from the first call; then a request that has resolved its row either holds the window of the clock, and its count is the gate's `used` (`CountsTheWindow`), or is late, which is the gate's `stale`. One lemma for each kind of step: `ResolveImplements`, `PassCheckImplements`, `RecordImplements`, `ClockImplements`, ... |
| `WindowsAreBounded` | `MeterSpec /\ []KeepsUp => []UsageBounded` | the gate's bound, carried down by the refinement |
| `FirstPeriodsKeepUp` | `[]KeepsUp` if the run ends within two periods | so the hypothesis is not empty |
| `AloneOvershootsSlowly` | without `KeepsUp`, for one request at a time: `Used` is at most the limit, or twice `Used` at most `Periods + 1` | `Balance`: while the row lags behind, each charge of the current window was paid for with two rollovers, and `Pace` counts those the call in flight still has to make; once it has caught up, the check counts the current window (`PeriodNumbers`, `RollCounts`, `ClockTurns` for the arithmetic) |

`KeepsUp` says that no rollover is written after the period it begins is over. It
fails for a user who stays away for more than a whole period, and must be assumed:
without it the bound is false, which `metering_idle` (finding 2) shows;
`AloneOvershootsSlowly` is what is left of it for one request at a time. `metering`
checks the refinement and the bound within two periods, where `FirstPeriodsKeepUp`
says that everyone keeps up.

Sessions, chat, providers, accounts:

| Theorem | Says | Argument |
| --- | --- | --- |
| `Sessions_proofs!TypeCorrect` | `[]TypeOK` | |
| `RotationIsExclusive` | a session is rotated at most once, a login has one live session | the invariant adds that a session whose rotation holds the lock is live and no other request holds it, and that a parent is not live |
| `RevocationMissesOnlyRaced` | `[]OnlyRacedSurvive` | the invariant adds that a revocation in progress has every live session that is not raced in its snapshot |
| `RotationImplementsChain` | the refinement: every step of Sessions is a login, a rotation or a revocation of TokenChain, or a stutter | a session whose rotation holds the lock is live until the commit, so that claim and insert together replace one good token by one of its login |
| `ChainIsKept` | of TokenChain's promises: a login has at most one good token, and one that is no longer good never is again | `OneGood` from the invariant, `NeverAgain` step by step |
| `Sessions_proofs!WaitsEnd` | `[]NoCircularWait` | who holds a session waits for none, and who holds the users row waits only for sessions |
| `AloneRevokesAll` | for one request at a time, every live session was let in by the current password, and a closed account has none | the snapshot of a revocation is then all the live sessions, and what a login verified is still the password |
| `Chat_proofs!TypeCorrect` | `[]TypeOK` | |
| `ChatImplementsExchange` | the refinement: every step of Chat is a step of Exchange or a stutter, for any number of requests and pieces | `ChatInv` ties what is stored and charged to the program counter; `Step` says what one request's step does to its outcome (`Moves`) and that it leaves the others alone |
| `OutcomesAgree` | of the abstract exchange: what is stored, charged and told agrees | an open exchange has told and charged nothing (`Settled`) |
| `ChatOutcomesAgree` | so it does in Chat | `OutcomesAgree` through the refinement |
| `CutIsNeverKept` | an answer that was cut short is never stored, charged or reported as done | part of `ChatInv` |
| `TitleIsKept` | an automatic title replaces one only in a race | `TitleFits`: a request that read the default title can tell by the version whether it is still there |
| `DeletionIsFelt` | an exchange that stores into a deleted conversation began before its deletion | `TitleFits` again: the deletion is a write, and an exchange that has read the conversation since finds it there |
| `EveryStepCounts` | every step brings one request nearer to its end and leaves the others where they are | `Rank` counts the steps and pieces ahead of a program counter; no handler goes back |
| `StepsBounded` | no request has more than `9 + MaxPieces` steps ahead of it, and only one that is over has none | from the types |
| `Providers_proofs!TypeCorrect`, `AtMostOneDefault` | types; at most one default in each table | the index refuses a second default, and a transaction whose cleared rows are locked keeps what it saw: `Fits` says at each program counter what holds between a request and the tables |
| `DefaultIsKept` | a table loses its default only to a deletion or a user's own request | a write that clears a default sets another in the same commit |
| `OnlyStaleWritesCanUnsettle` | a usable default is lost only to a stale check | what a request read of its row still holds unless the row is in `missed` |
| `RefusalsAreRaces` | a refusal by the database means a race | the snapshot holds every default unless another request committed |
| `ResolutionIsInOrder` | the documented priority, as an order on providers | one conjunct of the invariant for each program counter: what the reads so far have excluded |
| `Providers_proofs!WaitsEnd` | `[]NoCircularWait` | `HolderWaitsForNone`: one row of a table is the default, and what a transaction has locked of it is locked by no other |
| `Accounts_proofs!TypeCorrect` | `[]AccountsTypeOK` | |
| `AdminsAreKept` | the administrators end only by a deletion of their own, or if they changed while a request ran | from `count` on, a request that will take an administrator away does not take the only one, unless it is `shaken` |
| `DeletionIsFinal` | a deleted account is written only by a request that began before | from `find` on, the account is not deleted unless it is in `missed` |
| `PriorTokensAreInvalid` | two usable tokens of an account were made side by side | the snapshot of a resend holds every usable token but those in `late` |
| `LinksAreKept` | `[]NoLinkLost`: a link is used up only by a verification of its account or for a newer one, whatever overlaps or fails | `Snapshot` of a resend and its `Create` are two statements of one transaction, so what it swept is written only with the new token; a verification writes the token and the account together |

What `redis` and `platform` run:

| Theorem | Says | Argument |
| --- | --- | --- |
| `Throttle_proofs!TypeCorrect` | `[]ThrottleTypeOK`, with the Map never above its limit | `Evicted` gives up one entry for the one `Counted` adds |
| `OnlyOrphansRemain` | `[]OnlyOrphansStay` | inductive once it names the requests that are `About` a client |
| `OldestIsFirst` | `[]OldestFirst` | an entry is put at the end with the longest time to live, so the Map is ordered by what is left; the sweep keeps that order: `Nth` is monotonic, and exists because ranks grow by at most one |
| `OnlyFirstHitsLengthen` | a counter's time to live grows only when a first hit makes it, or by the `EXPIRE` of a request that found none | one case for each command |
| `Platform_proofs!PeriodsTypeCorrect` | days of the calendar | `Normal` returns a day of the calendar for the arguments the code gives it |
| `CalendarFollowed` | periods agree with day and month counts | `TypeOK /\ PeriodsFollowCalendar` is inductive; lemmas give the day number after a day, a week, a month and a year |
| `ReadersOfSettingsAgree`, `SettingsReadersAgree` | `[]ReadersAgree`; the first for every combination of texts, where the run varies one kind of variable at a time | `SettingsInv`: the process's environment is the file's until it is validated, and each name's `Assigned` value since |
| `SeedTypeCorrect`, `SeedIsRestoring` | types; `[]SeedRestores`, for any number of runs | `Left`: what the statements before the current one have left, while nobody else wrote |
| `SeedIsYielding` | `SeedYields` | one case for each statement |
| `SearchTypeCorrect`, `CacheIsFit` | types; `[]CacheFits` | `EntryFits`: an entry's key is the question its answer was given to and its provider's name; age and time to live add up unless it is a stray |
| `RedisNeverFails` | a search fails only in a step of the provider's: the safety half of `SearchServed` | one case for each step: the others leave with an answer |
| `RedisFlagFollows` | the flag `available` never says up of a client that is not there or has given up, and of a lost connection only until an attempt has failed; the client gives up only after `MaxRetries + 1` failed attempts in a row | `FlagFollows` is inductive: each event of the client moves status, retries and flag together, and a command moves the flag only while connected |
| `GivenUpForGood` | a client that has given up comes back only with a restart of the server | step by step |
| `ListingTypeCorrect`, `ListsShowOnce` | types; `[]ShownOnce`, for any number of rows, page size and writes | `BorderHolds` compares the number of rows ahead of a row with the border between the pages read and those to come: a row that no write excuses is before it exactly if it was shown. `TotalHolds`: the total that ends the walk is above the place of every such row |
| `ReportsTypeCorrect`, `ReportsAgree` | types; `[]FiguresAgree` for any table, task and number of writes | a figure that is still to be counted is taken as it would be counted now (`Seen`): then counting changes nothing, and one write moves one row, so that the parts of a total drift from it by at most one (`PartsStayClose`) |
| `ReportsDownInPassing` | `[]DownOnlyInPassing` | `PingHolds`: while the database neither goes nor comes, each figure tells which it was |

Proving changed the model in places. Guards of `CASE` in Seed and Settings that
overlapped, of which TLC takes the first and the logic any, are now disjoint.
`FiguresAgree` is stated with explicit sums instead of a fold over the parts, and
`Swept` with the n-th of a set of indices. Assumptions on constants that the
proofs needed and the code justifies were added (a report about its own table, at
least one client, a stamp to give to a row).

Only model-checked:

- liveness, which is out of the prover's reach. Of each property the part that
  needs no fairness is proved:

  | Property | Proved of it |
  | --- | --- |
  | CatchesUp | `AloneRollsForward`: with one request at a time each rollover is a step towards the current window; with several, `WindowsTile`: a stale one goes back on the grid |
  | Answered | `WaitsEnd`: in every set of waiting requests one can go on |
  | Served | `EveryStepCounts`, `StepsBounded`: a request that keeps making steps is over after a bounded number of them |
  | WindowEnds | `OnlyFirstHitsLengthen`: a client that keeps hitting cannot keep its counter alive; `OnlyOrphansRemain`: which counters have no end |
  | SearchServed | `RedisNeverFails`: no state of Redis fails a search |
  | ConnectionSettles | `RedisFlagFollows`, `GivenUpForGood`: what the flag says in the states it settles in, and that giving up is final |

- what recursive definitions compute for every input: the library's induction
  theorems take an operator as a parameter. The least-number principle can be
  had without one (`LeastNumber`, from `WFMin` and `NatLessThanWellFounded`), and is what
  the proofs about ranks in Throttle and Listing rest on.

## 5. What is not modelled

- **Time of day and daylight saving** in billing periods.
- **Access tokens.** They only admit requests; every operation is modelled as
  open to whoever may start it. Not revoking them before they expire is the
  design.
- **Two users.** Rows of different users never meet in the modelled tables.
- **Contents** of messages, searches, answers, mails.
- **The provider and model a conversation remembers**, which an exchange
  overwrites, and the mock answers of `ai-completion.service.ts`.
- **Reads of one statement** (a search's suggestions, a user's details, the
  recent messages of a conversation): they see one snapshot and change nothing.
- **User profile**: a single row is read and written by its owner.
- **Encryption, Swagger, the exception filter, the health check of a provider**:
  functions of their arguments, one outgoing request, formatting.
- **Token sums, averages and groupings** of the reports by provider, endpoint and
  status code: aggregates like the counts that are modelled, with `take: 20`.

## 6. Plan

Done, most important first: Subscriptions, QuotaGate and Metering, Sessions,
BillingPeriod, Exchange and Chat, Providers, Accounts, Throttle, RedisClient and
Search, Listing, Reports, Seed, Settings. What is left:

1. Proofs: the bound on the charges of a window for several overlapping requests
   of a user who does not keep up (`AloneOvershootsSlowly` has it for one).
2. The provider and model columns of a conversation, and the sharing of a
   conversation's history between overlapping exchanges.
3. The chat's choice of credentials composed with Providers, so that an exchange
   whose provider is withdrawn while it runs is part of the checks.
