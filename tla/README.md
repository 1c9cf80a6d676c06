# Coifyn: specifications and proofs

TLA+ specifications of the Coifyn API (`src/backend`), the TLC configurations
that check them on small instances, and TLAPS proofs of the properties that hold
for every value of their constants. The code is the reference: an operator that
stands for code says in its comment which function it translates, and
`PROJECT.json` ("map") gives the lines.

To run a check: `tlc -config MCOutbox_safety.cfg MCOutbox.tla`; to check proofs:
`tlapm OutboxProofs.tla`.

## 1. The system

Coifyn is a SaaS for salons: a NestJS modular monolith over PostgreSQL and Redis,
started as several identical API instances, and four Next.js applications. No
module of the backend keeps state that matters in memory, except the realtime
bus; everything is a row or a Redis key, and what is hard is what several
requests and instances do to the same rows.

| Component | State | Operations | Talks to |
|---|---|---|---|
| Database scope (`persistence`) | one PostgreSQL transaction per use case, carried by AsyncLocalStorage; the pool's 10 connections | `withTenant`, `withSystem`, `withAnon`, `withBootstrapSalon` -> `runScoped`: connection, begin, settings, statements, commit or rollback | everything |
| Domain events (`events`) | `domain_event` rows, `published_at`; BullMQ jobs in Redis | `EventBus.emit` in the use case's transaction; `RelayWorker.tick` on every instance | use cases; consumers of the queue |
| Staff authentication (`auth`) | `user`, `session`, `password_reset` | register, login (with re-hash), refresh (rotation), logout, forgot, reset, update me; the guard | database, events |
| Customer authentication (`customer-auth`) | `customer`, `customer_session`, `customer_verification` | register, verify, login, logout, forgot, reset, update me | database, events |
| Branches and chairs (`tenancy`) | `branch`, `chair`, `branch_membership` | create, update, delete, retire, replace a member's branches | authorization, events, audit |
| Roles and members (`rbac`) | `role`, `role_permission`, `membership` | assign, create, update, delete | authorization, events, audit |
| Authorization (`rbac/application/authorize.ts`) | none, reads the above | `can`, `check`: membership, role, grants, branch, a statement each | roles, branches |
| Idempotency (`common/idempotency`) | one Redis key per scope, method, path and Idempotency-Key; a staff user is a scope of its own, customers and anonymous callers share the scope `anon` | lookup, claim, finish, release | Redis, every write handler |
| Notifications (`notifications`) | `notification` rows; the client's Last-Event-ID | emit, backlog and live stream, mark read | realtime bus |
| Realtime bus (`realtime`) | listeners in memory, a poll cursor in memory | publish, subscribe, poll of `domain_event` every two seconds; the stream's access check, heartbeat and five-minute end | notifications, salon and branch streams |
| Onboarding (`tenancy/application/create-salon.ts`) | salon, first branch, Owner membership | create salon (409 with any membership); `ResolveCurrentSalon` reads it back | tenancy, rbac |
| Salon settings, audit, storage and payment adapters | rows written once per use case, or none | update, list, adapt | use cases |
| API client (`frontend/packages/api-client`) | tokens in the browser | request, refresh on 401, one retry | the API |
| Applications, configuration, health, logging | no shared state | pages, formatting | |

`PROJECT.json` ("components") has the status of each, "hazards" lists line by line
what in this code a test would hardly reach.

### How the parts interact

A request passes guards that read, then the idempotency interceptor, then a use case.
The use case runs in one transaction, reads, decides, writes, and emits its event
by inserting a row in that same transaction. After the commit the relay of any
instance forwards the row to BullMQ. A notification is a transaction of its own;
its row is committed and then published on the bus of the process it happened in,
which hands it to the streams open in that process only.

### What is hard

* **READ COMMITTED.** No isolation level is configured, no query locks what it
  reads (the relay's is the only `FOR UPDATE`), and no table has a foreign key.
  Each check a use case makes can be stale when its write commits.
* **Several instances** poll the same outbox, may die in the middle of it, and
  share the idempotency keys.
* **Two stores.** The relay adds jobs to Redis and stamps rows in PostgreSQL; an
  idempotent request commits in PostgreSQL and stores its response in Redis. A
  crash falls between the two.
* **Expiry**: of claims, responses, sessions and codes, while they are in use.
* **Rights read before they are used.** A check is several statements, a stream is
  checked once and lives on, and the rights it read may change under it.
* **Ten connections**, one of them held by the relay while it waits for Redis.
* **A cursor in memory** over rows that may commit in another order than they began,
  kept as a `Date`, and moved by polls that may overlap.
* **A stream with a gap**: backlog first, subscription second, over a bus that is
  local to a process, with ids cut to milliseconds.

### What makes each component correct

* events: nothing committed is lost, nothing uncommitted is sent, nothing is
  forwarded twice without a fault, causes go before effects;
* staff sessions: a rotated token is dead, a reset ends the codes, the sessions and
  the password before it, transactions do not wait for each other;
* customers: an email and a phone are one account's each, no account is left without a way to be
  verified;
* branches and roles: what is deleted stays deleted; a live chair has a live
  branch, a salon keeps a branch and an Owner, a member's role exists, a
  replacement of a set leaves the set asked for;
* idempotency: one effect per key, replays of real responses, no key blocked by an
  attempt that has ended;
* realtime bus: the poll's cursor passes no row that is due and was not broadcast, and
  what is due is broadcast in the end;
* requests: all are served by a pool smaller than their number, even while Redis is down,
  but for those that wait for Redis themselves, what a check let pass
  was allowed at some time during it, a user gets one salon, streams end with their
  clients and, sooner or later, with the right to listen;
* notifications: the client's cursor never passes a row it lacks, and every row
  arrives in the end; three kinds of rows are exempt (section 5).

## 2. The modules

### `Outbox` and `EventDelivery`

`EventDelivery` is what the outbox promises: committed events are delivered, at
least once, sooner or later. `Outbox` is how: the emitting transactions (`Begin`,
`Emit`, `Commit`, `Abort`; `occurred_at` is the transaction's start), and the
relay's tick with a step for each statement: `Fetch` is `fetchUnpublished` (FOR
UPDATE SKIP LOCKED, oldest `occurred_at` first; ties and rows locked by others
as PostgreSQL treats them), `Publish` is `addBulk` with the event id as the job id,
`Mark` is `markPublished`, `CommitTick` the commit. `TickFails` throws at any of
them, possibly after Redis executed the command. `Crash` replaces the process and
leaves its transaction, with its locks, in `orphans` until `EndOrphan`: PostgreSQL
ends it, as a commit if the COMMIT had been sent. `Complete` is BullMQ finishing a
job and forgetting the oldest of the completed ones (`removeOnComplete`).
`Delivery == INSTANCE EventDelivery` is the refinement: `happened` is the committed
events, `delivered` the forwarded ones.

### `ReadCommitted`

The database for all the modules below, instantiated by each with its rows:
`View` (a statement reads what is committed and its own writes), `Write` (takes
the row lock, waits for another holder), `CommitTx`, `RollbackTx`. A row that may be
inserted exists from the start as "absent". The entries of unique indexes are rows
of their own where two inserts can meet there; a second insert waits, then
conflicts. An UPDATE of many rows is two steps, finding its rows in its snapshot and
writing those that still match after any wait.

### `StaffSessions`

One account, every use case of `auth/application` that writes. `pc` names the next
statement of each request; `loc` is what the use case keeps in local variables.
`latest`, `known`, `spent` and the session fields `pw` and `from` are history: which passwords the
account has had, which codes a committed reset could have been made with, which password a session
descends from, which session it was rotated from. `Expire`, `RaiseParams` (a release
with stronger argon2 parameters, which makes login re-hash) and `Disable` are the
environment. `UpdateMe` writes the user's row, which is what a login's re-hash waits for.
Accounts do not interact, so one is enough. `Needs` and `Waits` say which rows a statement waits
for and whose.

`Store == INSTANCE SessionStore` is the refinement. `SessionStore` says what the account is promised
without statements, rows held or transactions: `SignUp`, `Login`, `Exchange`, `Logout` and `Reset`
each take effect in one step. When it is `strict` an exchange consumes a live token, a login opens a
session with the account's password and keeps that password, and a reset ends every live session.
Otherwise it says what overlapping requests may still do: a login may open a session with, and bring back, an
earlier password of the account (the one it verified); a token that another exchange, a logout or a reset has ended
meanwhile may still be exchanged; a reset may leave live a token it did not see. Two sign-ups of one
account, a session of a password the account never had, and a token that comes back are excluded either way.
`strict` is mapped to `serial`, tokens to session rows, `grant` to the password a session descends
from. Each of these four weakenings is needed: without it TLC finds a run that takes it.

### `CustomerAuth`

Several accounts, because here they do interact: email and phone are each optional
and unique in its column, and `register` with both looks only one of them up. A phone is any text of
6 to 32 characters, so `Email` and `Phone` may be one text (they are in the run): `NamedBy` is
`findByEmailOrPhone`, which then takes either account. Codes of both flows
share a table, told apart by `purpose`. Passwords are left out; what they show is the
same as in `StaffSessions`. `Needs` and `Waits` are those of `StaffSessions`; here a verification locks codes before
the account and a reset the account before codes, each codes of its own purpose.

### `Branches` and `Roles`

The two halves of salon administration that write the same rows from several use
cases. Each member's permissions are read in the step that starts the request
(`MayManage`, `May`). A membership or a grant row carries the number of the request
that inserted it, because a DELETE that found the old row does not delete the new
one. `Branches` keeps `is_active`, since delete and retire clear it. `UpdateRole` always
writes both name and grants: its DTO marks neither optional.

### `Idempotency`

The attempts sent with one key. `Get*` and `Begin*` are the lookup and the claim,
`Succeed`/`Fail` the handler, `Finish`/`Release` the fire-and-forget calls that do not
ask whose claim they overwrite. `claimant` and `cut` are history: who made the last claim, and who
was cut off from its own. `Resend` is ioredis sending again a command whose
reply was lost, `Crash` and `FailCommitted` the outcomes nobody hears of, `Expire` the
TTL, which may run out under a running handler.

### `NotificationStream`

One recipient and one EventSource. `BeginEmission`, `CommitEmission`, `Publish` are EmitNotification
(`PublishElsewhere`: in another process), `Connect`, `ReadBacklog`, `Subscribe` the
handler of the stream, `Receive` the browser, `End` the five-minute timer, `Break` a
lost connection. `Refuse` is `JwtAuthGuard`'s 401, after which EventSource gives up: the model's client
presents a token, and any connection may be its last. (The hook of the repository,
`use-notification-stream.ts:33-35`, presents none: with it as it stands every connection is refused.)
Two rows may have one `created_at`. Time is counted in steps, `PerMs` of them to a millisecond, so that
an id (a `Date`) is coarser than `created_at`. `Timestamps` has this conversion (`Millis`) for this module
and `RealtimeBus`, whose poll cuts the same way. `outOfOrder` and `cut` are history: the rows
that committed after a later one, and those beyond a backlog's limit. `Tied` are the rows that share an
exact millisecond, which the cursor `gt(created_at)` cannot tell apart.

### `RealtimeBus`

One instance's poll of `domain_event`. `Begin` and `Commit` are the transactions that emit:
`occurred_at` is the start of the transaction, so rows commit in any order. `PollStart` takes
the cursor, `PollQuery` reads the oldest rows after it, `PollDeliver` broadcasts them and sets
the cursor to the last one; an interval that fires again before the query has returned is a
second element of `Poll`. `PollFail` is a query that throws, `Restart` a process that comes up with
a cursor at its own "now". The cursor is a `Date` and forgets microseconds (`Cut`, `PerMs` steps to
a millisecond). `late` (rows committed behind a cursor in use) and `start` are history: they say
which rows the design can be asked for.

### `RequestScopes`

The composition: requests of one user as the sequence of scopes they run in, on one instance. A scope
waits in `queue` for a connection (`Grant`, first come first served), runs (`Statement`), and gives the
connection back, with the next scope asking again (`NextScope`) or none (`EndScope`). Three kinds of
request stand for all: `CreateSalon` (guard, look for a salon, create it), `UpdateSalon` (guard,
`ResolveCurrentSalon`, check, write) and the realtime stream (guard, branch, check, then open without a
connection). Between the guard and the use case a request with an Idempotency-Key (`Keyed`) waits for
Redis, without a database connection (`Claim`), and Redis may never answer. `FindMember`, `FindGrants`
and `FindBranch` are `Authorize.can`, a statement each (the two reads of `roles.findById` are one step:
of the role's row no check reads more than its id, and its deletion takes the grants along), and
`Change` is what other members commit in between. The relay's tick keeps its connection from `Fetch` to
`Publish`, where Redis may never answer. `EndStream`, `Reconnect` and `Leave` are the stream's timer and
client; `unheard` are the streams whose client left before the handler listened for its close.

### The flag `serial`

In `StaffSessions`, `Branches` and `Roles`, `serial` is chosen in the initial state: a
deployment that happens to serve one request at a time, or one that overlaps
them. Properties named `Serial...` are what the code's checks are *for*: every
sequence of requests, failures included, keeps them, provided two requests do not
overlap. The same run also explores the overlapping deployments, for the
properties that need no such condition. The gap between the two is real: `roles_owner`
shows a check that overlapping requests defeat, and section 5 lists the others.

## 3. The runs

| Run | Instance | Distinct states | Shows |
|---|---|---|---|
| `outbox_safety` | 3 events, 2 instances, batches of 2, 2 kept jobs, 1 failed tick, 1 crash | 372,126 | at-least-once, at most one repeat per fault, deduplication, causal order, refinement of `EventDelivery`'s safety |
| `outbox_live` | 2 events, 1 instance, batches of 1, 2 failed ticks, 1 crash, fairness | 16,383 | refinement of `EventDelivery` with its liveness |
| `staff_safety` | 2 concurrent requests, 5 in all, 3 sessions, 2 codes, 3 passwords, 1 parameter change | 379,468 | rotation, codes, resets, no circular wait, refinement of `SessionStore` |
| `customers_safety` | 2 concurrent requests, 5 in all, 2 accounts, one text for email and phone, 3 codes, 2 sessions | 72,723 | identifiers, no lock-out, no circular wait |
| `branches_safety` | 2 concurrent requests, 3 in all, 3 branches, 2 chairs, 2 labels, an owner and a manager | 28,308 | deletion rules |
| `roles_safety` | 2 concurrent requests, 3 in all, 2 members, 2 custom roles, any initial assignment with an Owner | 53,206 | last Owner, dangling roles |
| `idempotency_retries` | 4 attempts, 1 fault, any expiries and crashes | 26,717 | one effect, real replays, claims have owners |
| `realtime_poll` | 3 events, 2 polls, batches of 2, 2 steps per ms, 1 fault, fairness | 144,455 | the cursor passes nothing due, what is due is broadcast; no deadlock |
| `request_scopes` | pool of 2, 2 ticks, 2 custom roles, 2 changes; a newcomer's two `CreateSalon` and an `UpdateSalon`, or a member's `CreateSalon`, or a member's stream; one of each kind of write with a key; fairness | 88,184 | everyone is served, checks, onboarding, ends of streams |
| `stream_reconnect` | 3 notifications, backlog of 2, 2 instances, 1 break, 2 steps per ms, 0 or 1 steps between starts, fairness | 286,182 | the cursor covers, everything arrives |

`roles_owner` and `stream_gap` are the violation runs; section 5 describes them.

The properties:

* **Outbox**: `PublishedWasForwarded`, `ForwardedOncePerFault` (two healthy instances never
  forward one row; each repeat is paid for by a fault), `PublishedNotForwardedAgain`,
  `DedupedWhileKept` (BullMQ drops a re-relay unless enough other jobs pushed the first out of
  memory), `CausalOrder`, `DeliverySafety`, `DeliverySpec`. `LocksDisjoint` is a theorem only.
* **StaffSessions**: `RotatedTokenDead`, `UsedCodeDead` (once a reset has committed, every code that
  was live when it looked its own one up is consumed, parallel ones included), `ResetRevokesEarlier` (a reset
  waits for a refresh or logout that holds a session, and leaves none of those it saw),
  `NoCircularWait` (among any requests being served one waits for none of them, and nobody waits
  for a request that has ended), `StoreSpec` (the refinement). `SerialNoStaleSession` and
  `SerialLatestPasswordStored`, which `StoreSpec` covers in the run, are theorems.
* **CustomerAuth**: `OneAccountPerColumn` (no two accounts with one email, nor with one phone),
  `NotLockedOut`, `NoCircularWait`.
* **Branches**: `NeverRevived`, `SerialDeletionRules` (a live chair has a live branch, and a
  branch is left). **Roles**: `DeletedForGood`, `SerialMemberRules` (an Owner is left, and every
  member's role exists).
* **Idempotency**: `ExecutedOnce`, `ReplayIsReal`, `ClaimHasOwner` (retries are refused as "already in
  progress" only while the claimant is, or was cut off from its claim). `NoOverlap` is a theorem only.
  That Redis ends a claim left behind is its TTL, which the model takes for granted.
* **RealtimeBus**: `PassedWasBroadcast`, `EventuallyBroadcast`.
* **RequestScopes**: `RequestsServed` (a keyed request may wait for Redis for ever and holds up nobody),
  `AllowedHadRight`, `SecondSalonByOverlap`,
  `ListenersHaveClients`, `RevokedStreamEnds`.
* **NotificationStream**: `CursorCovers`, `EventuallyReceived` (unless the guard refuses the client).

Each of these modules also has one `TypeOK` (`StreamTypeOK` in `NotificationStream`, whose proofs share a module with
`RealtimeBus`). In `RequestScopes` it says as well that a holder has a
connection or waits for one, never both, which is what nesting scopes would break.

### The bounds

Every bound is a CONSTANT whose comment starts with "bound". Requests (`MaxRequests`) are what grows a
state space here. Two at a time is what a race between a check and a write takes; three in all lets one
request prepare a state and two race in it; authentication needs five, since a sign-up, a login, a code
request, a reset and a refresh are one story. Three events and two instances let a batch limit, a
skipped row and a re-relay happen together. `KeepCompleted` and `Limit` are 2 so that they are exceeded.
`MaxGap` is 1: with two steps to a millisecond, notifications that share a millisecond, an exact one or
not, share a `created_at` or share neither, all occur. `RoomIn` starts an inserting request only while a
row is left for it: rows are never the reason a request stops. `Perm` is reduced to `role:assign` in
`roles_safety`, which is what one grant opens the way to. `realtime_poll` checks deadlock, since a poll
goes on for ever; in the other runs it is off, because a bounded run stops when its requests are used
up. That transactions never wait for each other in a circle is the invariant `NoCircularWait` where the
code's order of writes decides it. It takes PostgreSQL to lock the rows of one UPDATE of several in one
order for all, that of the scan, and the model to take them in one step; no table has a foreign key, so
an insert locks no row of another table. `Branches` and `Roles` do without: two replacements of sets may
deadlock in PostgreSQL, which ends one of them, and `Abort` covers that.

In `realtime_poll` two polls and a batch of two are what it takes to set the cursor
back and to fill a millisecond; three events let one be committed late behind the other two. In
`request_scopes` the pool of two leaves one connection beside the relay's tick, which is the case the
design must survive, and two changes are what a check needs to be wrong, so that one is shown not to be.
`Traffic` names the requests that come together: all three kinds at once multiply the
state space without meeting in more than the pool.

Symmetry is declared for safety runs only, over sets whose elements the module does not
distinguish; runs with liveness have none.

### Fairness

* Outbox: `WF` on each instance's tick, because `setInterval` calls `tick` for as long
  as the process lives and a statement or a Redis call returns or throws; `WF` on the end
  of orphaned transactions, which PostgreSQL's keep-alive gives. Use cases and queue
  consumers owe nothing.
* RealtimeBus: `WF` on each poll's next step, because the interval fires while the process is up and
  a query returns or throws. Emissions owe nothing.
* RequestScopes: `WF` on handing out a free connection, on the statement a holder owes, and on the
  stream's timer and the client's reconnection. Redis owes neither the tick nor a keyed request an answer
  (`Publish` and `Claim` have no fairness), and no request, tick, change or departure need come.
* NotificationStream: `WF` on reconnecting or being refused (EventSource retries while the page is open,
  and nothing says that the guard lets it in),
  on the handler's steps, on the delivery of written events, and on the timer that ends a
  stream. Emissions owe nothing, not even their publish.

## 4. The proofs

Eight modules, named for their components (`RealtimeProofs` is about `RealtimeBus` and
`NotificationStream`). What each proves holds for every value of its
constants: any number of requests, rows, instances, events, faults. In each, a few invariants that
nobody asks of the code carry the ones that matter; each is named and commented where it stands.

**`OutboxProofs`**: `Spec => []TypeOK`, then the invariant `IInv`. The properties are not
inductive on their own: that `Mark` stamps only forwarded rows depends on what the instance's
open transaction holds. `IInv` adds `HeldRows` (rows held by an open transaction, an orphan's
too, are committed and unpublished; those an instance has forwarded or marked, and those a marked
orphan may still publish, were forwarded) and `ForwardBudget`: an event is forwarded at most
`faults + crashes` times, and once more if it is published or held by a living tick that has
already forwarded it; when that tick fails or its instance dies, the fault pays for the forward.
`LocksDisjoint` is what makes the accounts add up, since no two ticks can count the same row. From it:
`RelayLocksDisjoint`, `NoEventLost`, `ForwardBound`, `NoForwardAfterPublished`, and
`ImplementsDelivery`, where every step maps to `Happen`, `Deliver` or a stutter.
`OrderBetweenTicks` (causal order): what an event has seen was committed before it began and is
older, so it is forwarded, locked by another tick, or in the same batch. `SecondJobComesLate`
(deduplication): a job that Redis has forgotten left `KeepCompleted` different completed jobs behind it;
counting them is why this one assumes a finite set of events.

**`IdempotencyProofs`**, for any finite or infinite set of attempts. `ExecutedOnce` counts
effects, and is not inductive: a handler that runs will add one. `Paid` counts effects and
busy attempts together (those that run, or hold a pending release that may free the key)
against the key being taken, expiries and faults: a claim takes the key, a release frees the key
and ends a busy attempt, an expiry pays for the key it frees. `Stored` says only committed attempts
are about to store. `ClaimHasOwner` is inductive as it stands. From them: `OneEffect`,
`HandlersExclusive`, `RealReplays`, `ClaimsHaveOwners`.

**`RealtimeProofs`**. `PassedWasBroadcast` is about the one cursor of the instance, but the polls that
overlap set it from rows they read earlier. `IInv` follows a poll through its phases: `AskedFromBehind`
(the cursor it took is behind every row the streams lack), `ReadFromBehind` (having read, it holds each
such row, or only rows before it). That the batch is the oldest rows (`BatchIsOldest`) and that cutting
a time never moves it forward (`CutBelow`) are the lemmas this rests on. For the notifications,
`CursorCovers` says that the client's Last-Event-ID passes no row it lacks, which depends on what is
still on its way. `StreamInv` says it of each stage: `BacklogInv` of the rows the handler has read and
not yet written (up to each of them none is left out), `PipeInv` of the events written (up to each id
they carry, those before it bring what is missing), `CursorInv` of the client. An id moves past a
millisecond only once a row of it is stored (`Reached`): what commits with an earlier time later is out
of order by definition. Ties are the other exception: a row that shares its exact millisecond with a
stored one is owed by nobody (`Tied`), one that shares any other microsecond is. From it
`StreamTypeCorrect` and `CursorCoversReceived`.

**`RequestScopesProofs`**. `PoolInv`: whoever is in a scope is at exactly one place of the
queue or has exactly one connection, and connections are no more than the pool has. `OverlapInv`: no
salon there is was created by a request answered before the one that is about to create another came.
`CheckInv` relates what a check has read, what it remembers of the user's rights and
the rights there are now, for no change and for one: a role read before the one change and
grants read after it are those the user had on one side of it.

**`StaffSessionsProofs`**. Rows only move on (absent, then live, then dead), and what a transaction has
written and not committed (`dirty`) is never behind what is committed (`db`). Progress says for each
place in a use case which rows it must have moved by then: a reset that reaches the sessions has
consumed every code it could have been made with. No commit or rollback brings a token or a code back.
`SerialInv` is the second invariant: with one request at a time, what a request found is still so when
it commits. From them: `RotatedTokensAreDead`, `UsedCodesAreDead`, `ResetEndsSessions`,
`NoStaleSessionWhenSerial`, `LatestPasswordWhenSerial`. `LocksInv` says before which statements a
request may hold which rows (`MayHold`). It gives `WaitsAreNoCircle`: the statements that wait lock the
account first, then codes, then sessions, so of any requests the one that is furthest along waits for
none of the others. `ImplementsStore` is the refinement of `SessionStore`, for any number of requests,
tokens and codes: every commit is the operation its use case stands for, every other step a stutter.
`StoreInv` is what that takes. `Tokens`: when a request is about to commit it has written the token it
issues and at most the one this replaces, or has only ended tokens. `Account`: the account's row it
holds has the password it was given or the one it had. `Tasked`: the token it was given exists and, when
requests do not overlap, is still live. `Passwords`: what a request chose is nobody's yet and any other
password in use is one the account has had, which is how a reset of requests that do not overlap is
known to end all (a live token it left would have the new password).

**`CustomerAuthProofs`**. An account keeps its identifiers, and every identifier in use has its row in
the unique index, pointing at the one account that has it: `ColumnNamesOneAccount`. A code
of an account nobody has verified is spent only in the transaction that verifies it:
`UnverifiedHaveTheirCode`. `LocksInv` is that of `StaffSessions` with the purpose of each code: a
verification waits for the account with codes in hand, but no request that holds the account waits for codes
of that purpose (`WaitsAreNoCircle`).

**`BranchesProofs`**, **`RolesProofs`**. The same scheme: rows move on from `db` to `dirty`
(`RowsMove`, `RolesMove`), `LocOK` types what each request remembers, and for the serial rules
`SerialOK` says that what a check found (another live branch, no live chair, two Owners, no member of the
role) still holds when the write that it allows is made. `NothingRevived` and `NoRoleRevived` need no serial
deployment.

The lemmas `WriteEffect`, `CommitEffect` and `RollbackEffect` of each of the last four say once what a step of
`ReadCommitted` does to `db`, `dirty` and `holder`; a step of a use case then is one line.

Assumptions: those the modules state on their constants (`OutboxAssumption`, `ScopesAssumption` and so
on). `KeysAssumption` says that an entry of a unique index, written as a tuple, is not a row of a table.
All are evaluated by TLC in the runs.

Only model-checked is what is liveness: `DeliverySpec`, `EventuallyReceived`,
`EventuallyBroadcast`, `RequestsServed`, `RevokedStreamEnds`. The prover does not treat fairness, which is
defined with ENABLED. Every invariant and every action property of the passing runs is a theorem, and both
refinements are (of `EventDelivery` without its fairness).

## 5. What the checks found

Two runs show the code do what a comment or a document of the repository says it does not:

* **A salon without Owner** (`roles_owner`): two requests that each demote one of
  two Owners both count two.
* **A notification the open stream misses** (`stream_gap`): the backlog is awaited
  before the subscription, so a notification raised in between is in neither. A later
  reconnect brings it, which is what `EventuallyReceived` shows.

Other behaviours are reachable in the models, and the properties are stated around them. For some of them a
comment or a document says, without the condition, what the code does under one:

* two refreshes that present one token at the same time both get a successor: `rotate` does not look at
  how many rows its revoke changed (`refresh.ts:10-14`: a token "already rotated" is rejected);
* two resets that present one code at the same time both set a password, and a code that an overlapping
  request creates outlives a reset (`password-resets.repo.ts:47-48`: "so a code is never reusable"; the
  customers' `customer-verifications.repo.ts:52-54` says the same);
* a text may be the email of one customer and the phone of another, and `findByEmailOrPhone` takes
  either account (`customers.repo.ts:25`: "Login accepts either identifier in one field");
* two notifications with one `created_at` on an exact millisecond: the id of the first passes the second,
  which no later backlog brings. `src/phases/architecture.md:141` documents the cursor `createdAt|id`,
  the code compares `created_at` alone (`notifications.repo.ts:53`). A notification that commits
  behind the cursor, or lies beyond the limit of 100, is not brought either;
* a row that commits behind the poll's cursor is never broadcast; a millisecond with a full batch of
  rows holds the cursor where it is until a restart (`architecture.md:145-147`: "a change emitted on another
  instance still arrives"); and notifications are no rows of `domain_event`, so the poll brings none;
* customers share the idempotency scope `anon`: two of them that send one key to one path are answered
  as if they were one (`idempotency.interceptor.ts:21-22`: "same key + method + path + caller");
* with Redis down, a request with an Idempotency-Key is never answered
  (`maxRetriesPerRequest: null`, `redis.module.ts:22`), while all others are.

For these nothing in the repository says otherwise that we know of:

* a chair created between `DeleteBranch`'s look at the chairs and its commit lives on in the deleted
  branch; two deletions may take the last two branches;
* two replacements of a member's branches, or of a role's grants, leave the union of both;
* two onboarding requests of one user give two salons, after which `ResolveCurrentSalon` answers 501;
* a check passes although the user never had the right, with two changes during it (the role it read
  loses the user, then gains the grant);
* a client that leaves while its stream's access is checked, or while the backlog is read
  (`notifications.controller.ts:94`), leaves a listener and a heartbeat behind;
* a poll that overlaps a later one sets the cursor back, and
  the rows after it are broadcast again, as the rows of the cursor's own millisecond are by each poll;
* the poll publishes to `salon:<id>` or to the aggregate's type, so subscribers of other topics
  hear only their own process.

## 6. Not modelled, and why

* Row-level security and the settings `runScoped` writes for it: the policies are SQL
  (`drizzle/manual/0001_rls_and_triggers.sql`) and narrow what a statement sees to the caller's salons, of
  which each module has one. Hence `Database scope` is partly modelled.
* Marking notifications read and the unread count: one UPDATE of the recipient's own rows, one
  COUNT; nothing decides by them. Hence `Notifications` is partly modelled.
* Wording, validation, hashing, token formats, names, opening hours: data no property tells apart.
* The in-memory idempotency store and `LoggingEventPublisher`: development only.
* Audit rows: written by the use case's transaction and never read to decide.
* The API client: its refresh on 401 runs only with a handler, and no application configures one.
* Storage and payment adapters (stateless, uncalled), configuration, health, logging, the
  error format, the applications' pages.

## 7. Plan

Done, in this order: `EventDelivery`, `Outbox`; `ReadCommitted` and `StaffSessions`; `Branches`;
`Roles`; `Idempotency`; `NotificationStream`; `CustomerAuth`; `RealtimeBus`; `RequestScopes`, which
composes the guard, onboarding, salon settings, authorization, the stream and the relay over one pool;
`SessionStore`, refined by `StaffSessions`; the proofs of all of these.

What remains:

1. Abstract specifications of the same kind for `CustomerAuth` (accounts, sessions and codes as one
   store) and for `Roles` and `Branches` with `serial`, whose rules would be their invariants.
2. The theorem that `SessionStore` alone leaves no live token of an earlier password when strict, from
   which that of `StaffSessions` follows by the refinement.
3. `ApiClient`, once an application configures its refresh handler: parallel requests answered 401,
   each with its refresh and one retry, over `StaffSessions`' rotation and `Idempotency`.

Modules to be proved about declare no RECURSIVE operator, name the assumptions on their
constants, and have one action per statement of a use case.
