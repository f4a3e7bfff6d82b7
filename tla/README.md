# TLA+ models of go-clean-arch-poc

A task-management service in Go: REST, gRPC and GraphQL transports over use
cases (`internal/application/usecase`), PostgreSQL through sqlc repositories,
Redis for sessions and caching, Kafka plus an in-process bus for events, S3 for
attachments, and WebSocket, SSE, Socket.IO and GraphQL subscriptions for realtime
updates. Almost everything that is hard about it happens *between* calls to
these stores: no use case but the role seeding runs in a transaction, rows have no
version column, and cache and event errors are swallowed. The models therefore
make every external call a step of its own and let requests, failures, crashes
and timers interleave between them.

Paths below are relative to `src/`.

## 1. Inventory

| Part | State | Operations | Hard behaviour | What makes it correct |
|---|---|---|---|---|
| Authentication sessions (`usecase/auth`, `usecase/user`, `infrastructure/auth/jwt`, `auth/middleware.go`) | `users`, `user_roles` rows; Redis keys `app:session:{user}:{jti}` and `app:token:blacklist:{jti}` with TTLs; tokens in clients' hands | Register, Login, RefreshToken, Logout, ChangePassword, ValidateToken, AssignRole, RemoveRole, UpdateUser, DeleteUser | SCAN-based bulk deletion against concurrent logins; swallowed cache errors; the two keys of a pair | a dead token stays dead; checks fail closed; tokens reflect the account |
| Task lifecycle (`domain/entity/task.go`, `usecase/task`, `repository/task_repository.go`) | `tasks`, `task_labels` | create, update, assign, unassign, status changes, complete, archive, labels, delete | read–modify–write without a version; cascades from users | the status machine; deleted stays deleted |
| Task cache (`usecase/task`, Redis) | `app:task:{id}`, `app:tasks:list:{hash}` | GetTask, ListTasks, invalidation after each write | late fills; cascades that bypass the invalidation | stale only where cache-aside cannot help it |
| Attachments and cleanup worker (`usecase/task`, `storage/s3`, `application/worker`) | S3 objects, `task_attachments`, cleanup requests in Kafka and in a channel | upload, delete, delete with the task or with the account that created it, cleanup | two stores without a transaction; calls that fail after taking effect; offsets marked before the work is done; two consume loops on one group | objects and rows agree; no reported deletion is forgotten |
| User accounts and user cache (`usecase/user`, `usecase/auth`, `repository/user_repository.go`) | `users`, `user_roles`; `app:user:{id}`, `app:user:email:{email}`, `app:users:list:{hash}` | create, register, update, delete, password and role changes; GetUser, GetUserByEmail, ListUsers | a row and its roles are written by separate statements; whole entities are written back; one account under three kinds of key | the account is what was asked for; stale keys only in known places |
| Roles and seeding (`usecase/user`, `repository/role_repository.go`, `postgres/unit_of_work.go`) | `roles`, `permissions`, `role_permissions`, `user_roles` | SeedSystemRoles, RunInTransaction | two servers seed one database while others serve; upserts on a name that another transaction inserted | all or nothing; users keep their roles; no seeder hangs |
| Realtime transports (`transport/{websocket,sse,graphql,socketio}`) | client sets, bounded channels | register, unregister, broadcast, heartbeat, subscribe, ping | a loop that sends to itself, sends on closed channels, one slow transport stalling the others | no deadlock, no send on a closed channel |
| Event delivery (`messaging/{fanout,kafka,memory}`, `worker/event_consumer.go`) | topics, offsets, channels of capacity 100, handlers, stop state | Publish, Subscribe, Start, Stop | drops, typed-nil publishers, waiting transports | an event taken from the bus reaches every transport |
| Bootstrap and shutdown (`cmd/server/main.go`) | which clients could be built; the stack of deferred calls | start, signal, Shutdown, the deferred calls | streams that keep Shutdown waiting; the order of the deferred calls | nobody uses a store that was closed; the process ends |
| Access control (`auth/rbac`, `auth/acl`, `transport/rest/{router,handler}`) | `acl_entries`; the claims of a token | the guards of each route; GrantAccess, RevokeAccess, RevokeAllAccess | one decision reads the entries in up to 2(n+1) statements for n roles | nothing runs that no entry granted; a standing grant is honoured |
| In-memory cache (`cache/memory`) | a map of values with deadlines | Get, Set, SetNX, Expire, Increment, Delete, cleanup | deadlines are compared in two ways, and some calls do not look at them | reads and SetNX never see a lapsed value; only Expire and Increment can bring one back |
| Labels (`usecase/label`) | `labels`, unique on lower(name) | create, rename, delete | check-then-insert; the cascade to tasks | unique names |
| Others | – | local file storage, monitor, gRPC and GraphQL handlers, query builders, validators, config, logging, generated code | see *Not modelled* | – |

How they interact: a transport calls one use case; the use case calls
repositories, then the cache (`invalidate…`), then the publisher (`publish…`).
`fanout.Publisher` sends to Kafka and to the local bus. The Kafka consumer feeds
the background handlers (the attachment cleanup among them); the local bus feeds
the realtime hubs, and the cleanup handler too if no Kafka subscriber could be
built. Deleting a user or a label changes tasks and their attachments through foreign
keys, behind the task use case. Role and password changes delete the sessions of the account.

The hazards, each at its line, are in `PROJECT.json` under `hazards`.

## 2. Modules

| Module | Models |
|---|---|
| `TokenLifecycle` | abstract: a token is unissued, live, dead, in that order |
| `AuthSessions` | one account, its session keys and its revocation list; implements `TokenLifecycle` |
| `TaskLifecycle` | abstract: status and assignee of one task, strict (`Serial = TRUE`) or with lost updates |
| `Tasks` | one task: its row, its cache entry, a list page, its events; implements `TaskLifecycle` |
| `AttachmentLifecycle` | abstract: what becomes of an attachment's object and row, whatever fails |
| `Attachments` | the attachments of one task: objects, rows, cleanup requests, crashes; implements `AttachmentLifecycle` |
| `Accounts` | several accounts, their roles and the user cache |
| `Seeding` | `SeedSystemRoles` on several servers, with the transactions of the database |
| `SSEBroker`, `WebSocketHub` | the loop of each transport, the goroutines of its clients, and the channels between |
| `Realtime` | composes the two with the local bus, the realtime and background consumers, GraphQL subscriptions and the end of the process |
| `AccessControl` | the guards of a REST route, over the claims and over changing ACL entries |
| `ExpiringMap` | abstract: a map with deadlines, without a clock, in which a lapsed value counts until it is forgotten (`Revives`) or not |
| `MemoryCache` | the in-memory cache; implements `ExpiringMap` |
| `MC…` | instances for TLC |
| `…Proofs` | theorems: sessions, tasks, attachments, accounts, seeding, realtime, access control, the in-memory cache |

Common conventions. `pc[r]` is the next external call of request `r`, `req[r]`
its local variables. `Call(ok)` is an external call that answers or fails, and
`MaxFaults` budgets the failures; a request whose context was cancelled is one
whose next calls fail. A definition `MutX` is a plausible bug in `X`, kept next to
it: with it in place of `X`, the property named in `PROJECT.json` must fail.
`CancelFirst` and `StopLate` are such bugs of `Defers`. History variables (`erased`, `loggedOut`, `past`,
`late`, `reported`, `missed`, `cut`, `lasting`, `wanted`, `broken`, `excused`, `slow`, `standing`,
`granted`, and the field `stale`) are never read by a guard.

### AuthSessions

One account is enough: session keys contain the user, and no operation touches
two accounts. `sessions` and `blacklist` are sets of keys, `expired` the JTIs past
`exp`, `grant` what a pair was minted from.

* `Begin`, `CheckBlacklist`, `CheckSession` are the middleware and
  `ValidateToken`, or the same checks in `RefreshToken`. They differ in the user
  they look under: a refresh token carries no `userId` claim, so as a bearer token
  it finds no session, while an access token passes as a refresh token
  (`HasSessionKey`).
* `FindUser`, `FindRoles`, `UpdateRow`, `SyncRead`, `SyncRoles`: `FindBy…`, `Update` and
  `syncUserRoles`, statement by statement. A failure leaves a prefix done.
  The user and its roles are read by two queries outside a transaction, so the
  entity a request works on can mix two states of the account. `FindRoles` also
  stands for the credential check and the in-memory change that follow it.
* `Mint`, `StoreAccess`, `StoreRefresh`: `generateAuthOutput`.
* `ScanStart`, `ScanDelete`, `ScanEnd`: `DeletePattern`. SCAN returns every key
  present from its start to its end and may return later ones, so `todo` is
  what it must delete and everything else it may.
* `LogoutBlacklist` … `LogoutAccessKey`: `Logout`, call by call.
* `Expire`, `DropSession`, `DropBlacklist`: the clock and the TTLs.

The refinement of `TokenLifecycle` (`TokensNeverRevive`) reads the keys as they
stand: a token is live while every check accepts it (`Live`: its session key is
there, no entry of the revocation list, not past `exp`), dead while one of them
refuses it although its session key was written once, unissued before. `erased`
only tells those two apart. That dead stays dead is therefore about the order in
which the keys go: with an entry of the revocation list that lasts less than its
token (`MutDropBlacklist`), a logged-out token whose session key was not deleted comes
back.

Assumed of Redis: a write that failed was not applied, and keys survive until
their TTL. `MaxFaults` counts failures of any call. A start without Redis (a
typed-nil client) is not in the model: the first call panics.

### Tasks

One task and one list page that would show it. `note` stands for the fields
clients edit freely (description, title, priority, due date), `Absent` for a page
without the task. Every mutation is `FindTask` (and `CheckRef`), `UpdateTask`,
`DropEntry`, `DropList`, `Publish`. `UpdateTask` writes back the whole entity the
request read, with the SQL's `COALESCE` for the description and without the
labels, which no statement of the program writes; rows of `task_labels` can come
from outside, and `GetTask` reads them. `Evict` is either TTL. `DeleteUser` and `DeleteLabel` are the
foreign keys' `CASCADE` and `SET NULL`, reached from the other use cases.

### Attachments

Each upload has an object of its own, since the key contains a fresh UUID, so an
attachment stands for its row, its object and its cleanup request alike. A
failed call may have taken effect (`Outcome`), because a timeout says nothing.
`connected` says which Kafka clients could be built when the process started: a
missing publisher is a typed nil whose first use panics (`Publish`), a missing
subscriber makes the local bus feed the cleanup handler. `session` is the topic
the consumer group is serving: `Subscribe` runs one `Consume` loop per topic on
one group, and sarama runs one session at a time, until a rebalance ends it
(`Rebalance`). `Deliver` is `ConsumeClaim`: the offset is marked when the request
is on the channel, and may or may not be committed before the next rebalance or
crash. `Handle` deletes once. `Crash` loses all that is in memory. `DeleteUser` is the deletion
of the account that created the task: `tasks` and `task_attachments` follow by ON
DELETE CASCADE, and nobody looks at the objects. `known` in `SaveRow` says whether the
uploader, who may be somebody else, still has an account (`uploaded_by` is set to
NULL in rows that are there). `missed` and `cut`
name the three kinds of orphan that `ObjectsAccounted` leaves: rows saved after
`DeleteTask` listed them, rows that went with the account (both `missed`), and
uploads that ended within `FileStorage.Upload` or with
the process. `AttachmentsAccountViolation.cfg` shows the second of them without any
failure. `lasting` collects the uploads that were answered, until a deletion
lists them or the account is deleted. Those keep their row and their object however many calls fail
(`UploadsLast`): whatever removes an object or a row, late or repeated, is about
another attachment. The refinement maps each object and row to none, stored or
gone: none while it was not made and an upload may still come to that (`Coming`). Its
step `Disown` is the deletion of the account, the only one that takes the row of
an attachment that should last. `RetriesHappen` says that there are again and again
no objects left of the deletions that were reported, which is that each of them is
removed, since no object comes back; `DeletionsComplete` says so for as long
as the consumer group comes back to the task topic.

### Accounts

`row` and `roles` are the tables, `cache` the keys that hold an account under its
id, under its address, and in a list page. A request goes through `findRow`,
`findRoles` (`FindByID`), the checks of its use case (`checkEmail`, `findRole`), the
statement on `users` (`InsertRow`, `UpdateRow`, `DeleteRow`), the statements of
`syncUserRoles` (`SyncRead`, one `SyncWrite` per role) and one `Drop` per cache key of
`invalidateUserCaches`, or for a read `Store`. The unique index on the address and
the foreign key of `user_roles` refuse what they refuse in the database. A
failed `Drop` is swallowed, any other failure ends the request where it is.

`wanted` folds the answered requests in the order they wrote; `stale` marks a
request that holds an older picture of an account than the last one written;
`broken` collects the accounts a stale request wrote or a failure left between
row and roles; `excused` the keys that may be stale, each for a reason that
`CachesCoherent` lists. Two properties carry the model: whatever else happens, a
stored account is what was asked for, and a cached answer is the database's.

### Seeding

PostgreSQL at READ COMMITTED, one row per role: `role` is the newest version,
`owner` the server whose transaction wrote it, `before` what others still see. A
statement that meets another transaction's row waits (`Free`; `clearing` is a
DELETE that waits, whose condition is evaluated again when the other ends).
`FindAll` and `DeleteByNames` remove the roles that the code no longer defines,
then each desired role goes through `FindByName`, `RemoveAllPermissions`,
`UpsertRole` and one `AddPermissionToRole` per permission. `UpsertRole` keeps the
id of a row that is there, while the code goes on with the id of its own entity;
`ForeignKeyViolation` is what follows. `Fault` is a failing statement or a dying
server, `Restart` the next start. `NoWaitCycle` is about the waits: every server
takes the rows in the order of `desiredRoles`, a slice, where ranging over a map
would give each process an order of its own (`MutName`); a DELETE by names takes
its rows at once here. `AssignRole` and `RemoveRole` come from servers
that serve. The database a seeder finds is any: never seeded, seeded by an older
version with `Obsolete` roles, or changed by hand.

### SSEBroker, WebSocketHub, Realtime

Messages are counted, because nothing depends on what they say. In `SSEBroker`,
`broker` is where `Run` is: in its `select`, sending a heartbeat, or gone;
`listeners` its map; `stream[c]` where the handler of `c` is between the two
unbuffered sends that register and unregister it. In `WebSocketHub`, `reader` and
`writer` are the two pumps of a connection, `members` the hub's map, `closedSend`
the channels the hub closed. A send on a closed channel sets `panicked`, which
ends the process.

`Realtime` adds the way of an event (`Publish`, `Take`, `ToWebSocket`, `ToSSE`,
`ToGraphQL`: one goroutine passes it to the transports in turn, and Socket.IO is a
library whose broadcast is assumed to return) and the end of the process:
`Signal`, `ShutdownReturns` or `ShutdownTimesOut` (after which `os.Exit` skips the
deferred calls), then the calls in `deferred`, last deferred first. `LoopsOutlivePublishers`
is why the order matters: cancelled before the consumer was stopped, the loops would
return and the consumer wait for room in a channel nobody drains. Two kinds of
goroutine outlive all this, both on hijacked connections that Shutdown does not
wait for. A WebSocket reader may still wait to register or unregister when the hub
has returned; it waits for the end of the process and nobody waits for it, which is
why `LoopsOutlivePublishers` speaks of the consumer and the SSE streams, and of main having
no call left to wait in. A GraphQL subscription may still have an event to look up
when the cache and the database are closed; `StoresOutliveConsumers` is about the
consumers and the requests Shutdown waits for, and
`RealtimeSubscriptionsViolation.cfg` shows the subscription. `Writer` is what
the handlers are given: `middleware.ResponseWriter` embeds the interface and so
has neither `Flush` nor `Hijack`. With `Routed = TRUE`, which is what main builds,
every stream is refused; the run `Realtime` mounts the handlers without the router
(`Routed = FALSE`), since what happens behind the refusal would otherwise not be
reached.

### AccessControl

The three record constants `TaskHandler`, `UserHandler` and `RegisterRoutes` say what
each operation asks for. `Claims` decides over the token
(`HasPermissionFromClaims`, with the table `RolePermissions`), `CanAccess` sends one
statement of `Queries` per step: for the user and for each role in the token the
permission, then `admin`. `GrantAccess`, `RevokeAccess` and `RevokeAllAccess` may come
between any two of them; in this repository only tests call them, so such a change
comes from another program or an administrator at the same table. `granted` and `standing` remember which entries stood
when. The subject of `Token` guards is `AuthSessions`.

### MemoryCache

Every call holds the lock, so every call is one action. `After` and `Before` are
the two comparisons of the code; they differ at the very instant of the deadline.
The refinement maps a value to a phase: live, due (that instant), lapsed,
absent. `ExpiringMap` is instantiated twice. With `Revives`, which is what the code
implements (`KeepsItsPromises`), reads and `SetNX` never see a lapsed value and do not
depend on the cleaner, while `Expire` and `Increment` work on one the cleaner has not
taken yet and bring it back. Without it a lapsed value is gone for every call, as
the port and `Exists` have it (`LapsedIsGone`), which `MemoryCacheLapsedViolation.cfg` refutes. `Half` is half the numbers a counter takes (2^63 in the code, 2 in the run), so that
`Increment` wraps within the bound. No server of this repository builds the cache; its factory does.

## 3. Runs

| Run | Instance | Shows |
|---|---|---|
| `AuthSessionsSeq` | 1 request, 2 pairs, 2 passwords, 2 roles, 1 fault | every sequence of operations but logout, which the next run has: `LiveTokensCurrent` |
| `AuthSessions` | 2 requests, 2 pairs, 1 fault; login, logout, password change | `NoResurrection`, `InvalidatedNeverAccepted`, `LogoutSurvivesOneFault`, `TokensNeverRevive` (refinement) |
| `Tasks` | 2 requests, up to 4 operations, no fault | `CacheCoherent`, `EventsFollowWrites`, `UpdatesAreLegal` (refinement, with lost updates) |
| `TasksSerial` | 1 request, up to 3 operations, 1 fault, all operations and cascades | `SerialUpdatesAreLegal` (strict refinement), `EventsFollowWrites` |
| `Attachments` | 2 requests, 2 attachments, 2 faults or crashes, the deletion of the account | `ObjectsAccounted`, `RowsBacked`, `DeletionsKept`, `UploadsLast`, `DeletionsComplete` (liveness) |
| `Accounts` | 2 requests, 3 operations, 2 accounts, 3 addresses, 2 passwords, 2 roles, 1 fault | `AccountsAsAsked`, `CachesCoherent` |
| `Seeding` | 2 servers, 2 desired roles and an obsolete one, 2 permissions, 1 user, 1 fault, 1 restart | `ServesSeededRoles`, `NoWaitCycle`, `SeedingKeepsUsers` (action property), `StartsEnd`, `OneServes` (liveness) |
| `Realtime` | a client of each transport, every channel of capacity 1 | `NoSendOnClosed`, `OnlySlowClientsPanic`, `StoresOutliveConsumers`, `LoopsOutlivePublishers`, `EventsFlow`, `ShutdownEnds` (liveness) |
| `AccessControl` | 1 request after another, tokens with up to 2 roles, 2 entries, 1 fault | `RunsOnlyIfGranted`, `StandingGrantIsHonoured`, `StrongerRolePasses` |
| `MemoryCache` | 2 keys, 3 ticks, 2-bit counters | `KeepsItsPromises` (refinement of `ExpiringMap` with `Revives`) |
| `AuthReloginViolation` | – | a login that overlaps a password change leaves tokens of the old password |
| `RealtimeStreamsViolation` | `Routed = TRUE` | every SSE stream and WebSocket is refused |

The last two check what a document of the repository says, and `findings` quotes
it. Eight more configurations refute other statements of the documents and
comments; they are counterexamples to look at, listed in `findings` or, for the
subscriptions, under `hazards` without being runs of the project:

| Configuration | Module | TLC refutes | Because |
|---|---|---|---|
| `AuthLogoutViolation.cfg` | `MCAuthSessions` | `LogoutKillsPair` | a logout that meets a bulk invalidation leaves the refresh token working |
| `TasksStatusViolation.cfg` | `MCTasks` | `DoneOnlyArchives` | a lost update takes a DONE task back |
| `TasksLabelViolation.cfg` | `MCTasks` | `LabelStored` | an added label is announced and never stored |
| `TasksCascadeViolation.cfg` | `MCTasks` | `CacheCoherent` | deleting a user leaves its tasks in the cache |
| `AttachmentsRetryViolation.cfg` | `MCAttachments` | `RetriesHappen` | the consumer of the task topic may never get a session |
| `AttachmentsAccountViolation.cfg` | `MCAttachments` | `NothingLeftBehind` | the deletion of an account takes the rows of attachments and leaves the objects, without any failure |
| `RealtimeSubscriptionsViolation.cfg` | `MCRealtime` | `SubscriptionsEndFirst` | a subscription has an event to look up in stores that were closed; only with handlers mounted without the router, behind which no subscription opens |
| `MemoryCacheLapsedViolation.cfg` | `MCMemoryCache` | `LapsedIsGone` | `Increment` and `Expire` work on a value whose time has passed |

`AttachmentsLifecycle.cfg` (`MCAttachments`) checks the refinement of
`AttachmentLifecycle` on the instance of the run `Attachments`, without liveness; it
passes, and TLAPS proves it for every instance.

**Why the bounds are enough.** Two requests: each property is about one writer
and one reader or another writer of the same keys, and the proofs, which have no
bound, confirm that for those proved. Two pairs: one that is being destroyed and
one that is being created. Two passwords, two roles: old and new. Three addresses: the one an account had, the one it was
given and the one a request still holds that read it before (with two, a
`Register` that ends late always holds one of the other two). One fault where
a property promises something for at most one; two for `DeletionsKept`, so that
its limit is explored. Four task operations: two writes and two reads may
overlap in every way. Three account operations: two that overlap, after or before
a third that makes the account or fills the cache. Two attachments: one whose
deletion races with the upload of another. Two seeders and two roles: one seeder
is ahead on one role while the other is on the next. Channels of capacity 1 are
full after one message, which is all that the capacities 100 and 256 matter for;
the proofs hold for every capacity. One SSE, one WebSocket and one GraphQL client:
clients of one transport meet only in the loop that serves them one by one, and
no behaviour of the run has both a WebSocket client and a subscription, because
GraphQL never makes the consumer wait. Three ticks: a deadline is set, reached and passed. Requests,
pairs, users, addresses, passwords and entries are symmetric in the safety runs;
the runs with a liveness property use no symmetry.

`CHECK_DEADLOCK FALSE` is used where the system really stops: `Tasks` and
`Accounts`, whose `MaxOps` requests are all there are; `Seeding`, whose servers end;
`Realtime`, whose process does. In the others a state without a step would be an
error, and there is none.

**Fairness.** Three models need any.

* `Attachments`: weak fairness of `Handle`, because the consumer's goroutine takes
  from its channel as long as the process runs, and strong fairness of `Deliver`,
  because a session about the task topic that comes back again and again lasts
  long enough to read what is there. Nothing is assumed about rebalances: with
  `[]<>(session = "tasks")` as a premise the retry happens (`DeletionsComplete`),
  without it it may not (`AttachmentsRetryViolation.cfg`).
* `Seeding`: weak fairness of each seeder's own steps. A statement that waits for
  another transaction is not enabled, so this only says that the database answers
  statements that can be answered.
* `Realtime`: weak fairness of the steps that stay possible once they are, and
  strong fairness where a tick or another sender can get ahead: Go's `select`
  chooses among ready cases at random and a channel serves its senders in order.
  No client is assumed to read, to write or to leave: `EventsFlow` therefore says
  that no client can stall the others. `ShutdownEnds` does not assume that streams
  end either: the timeout is among the ways out.

No request of a client is assumed to finish in any model.

## 4. Proofs

Checked by TLAPS for every value of the constants, from the assumptions in the
modules (bounds are naturals, `None` is no member of the data, a text is no number, there is a
password, the default role is a role, the creator is no other user, capacities
are positive, the desired roles are listed once and none of them is obsolete).
Each proof module has the same shape: the initial states satisfy `IInv`, each
action preserves it (one lemma per action, or per group of actions that change the
same part), and `IInv` implies what the runs check.

* **Sessions** (`AuthSessionsProofs`). `NoResurrection` is not inductive: a
  request between `Mint` and `StoreRefresh` could write a key that was erased.
  `IInv` adds that erased and existing keys belong to minted pairs
  (`StoreInv`), that a request about to write a key holds a pair no client has
  yet and whose key has never existed (`RequestInv`), and that no two requests
  write the same pair (`UniqueWriter`). From it: `Resurrection`, `FailsClosed`,
  and `ImplementsLifecycle`, the refinement of `TokenLifecycle`: a token becomes live only in
  the step that writes its session key for the first time, and of what refuses it
  the erased key does not come back and the entry of the revocation list goes only after
  `exp`. `LogoutHolds`
  needs more, `LogoutInv`: without a failure a logged-out token is both erased and
  revoked (or expired), with one failure it is one of them (`LogoutStore`); so a
  request that presents it is stopped by one of its two checks (`LogoutRequest`).
  `LiveTokensAreCurrent` is about instances with one request (`Solo`). `CurrentInv`
  says for each step what the request knows of the account it read
  (`Informed`) and in which steps the account has changed and the sessions are
  still to be ended (`Unsettled`); in all others every token that works carries the
  account's password and roles. `AbsentInv` and `StepOps` say which steps go with
  which account and operation. The proof groups the steps by what they write: the row, the roles,
  a minted pair, the keys a scan erases, or nothing.
* **Tasks** (`TasksProofs`). `IInv` adds that the stored row is the last of its
  past (`RowInv`) and what each request knows at each step (`RequestInv`): the
  entity it is about to write is one legal update away from a row the task has
  had, and what it is about to announce has happened. From it: `EventsAreTrue`,
  `ImplementsLifecycle` (refinement of `TaskLifecycle` with lost updates), and,
  for instances without the cascades (`NoCascades`), `Coherence`. `SerialUpdates`
  is about instances with one request (`Solo`): only the deletion of an account can
  come between its read and its write, and takes the assignee off the row, so
  what was read is the row or names an assignee who is gone, and then the foreign
  key refuses the write (`SerialInv`).
* **Attachments** (`AttachmentsProofs`). `IInv` adds what the control state says
  about local variables (`RequestInv`), that what is stored or queued was
  uploaded (`UsedInv`), that nobody but its upload knows an attachment before
  its row is saved (`FreshInv`), that every object a deletion has dealt with is gone or
  has a request (`KeptInv`), that `DeleteTask` has listed the rows or they are
  `missed` (`ListInv`), and where a faultless upload has its object and row
  (`UploadInv`). For `NoOrphans` a step that starts with at most one failure either
  keeps the upload at the object, or asks for the object, or ends in `cut`; `KeptInv`
  serves the deletions. `LastInv` says that an upload that was answered is in no
  queue and on no list and belongs to no request at work, and that before a row is
  saved its object is there; a step then only reaches what its request holds or has
  listed (`TouchStep`), so all other attachments keep what they have. From it: `NoOrphans`,
  `DownloadsFindObjects`, `CleanupNotLost`, `AnsweredUploadsLast`, and `ImplementsLifecycle`,
  the refinement of `AttachmentLifecycle`: steps that put, save or list, the deletion of
  the account (`DisownStep`), and all others only lose (`DropStep`).
* **Accounts** (`AccountsProofs`). `AccountsAsAsked` is not inductive: while a
  request is between the row and its roles nothing is said of the account, and
  when it ends something must be. `IInv` adds what a request knows at each
  step (`Knows`); that the entity of a request nobody wrote over is still the stored
  account (`Picture`); and that of the requests that sync one account at once all
  but one are stale, while the account of the one that is not is on its way to its
  entity, which is what was asked for (`AccountInv`, `OnItsWay`). From it:
  `AccountsAreAsAsked`.
* **The user cache** (`AccountsProofs`). `CacheInv` adds to
  `CachesCoherent` what the deletions a request has ahead are good for (`Announces`):
  none before its write; after it the id, the address it saves and the lists, and
  the row it syncs the roles of still has that address unless somebody wrote over
  it. The proof follows the answers of the database: a write of an account changes those for its
  id, for its addresses before and after, and the lists (`OtherAnswers`); the
  picture a request has not been overtaken in tells the address before. From it:
  `CachesAreCoherent`.
* **Seeding** (`SeedingProofs`). A seeder reads rows that others may commit over
  before it writes them, so `IInv` says for each step what the row can have
  become (`WorkInv`): the roles behind a seeder are its own and seeded, those ahead are not
  its own, the one it works on is cleared, or another's seeding. `RowInv` adds
  that an open transaction keeps the id and the users of a desired role and that
  only a working server owns rows. From it: `ServersFindTheirRoles`,
  and `UsersKeepTheirRoles` for the action property. `SeedersNeverDeadlock` orders
  the servers by how far they are: one waits only for who is further, whose open
  transaction owns the row it wants (`RanksRise`), so among any servers the one that
  is furthest waits for none of them (`Greatest`, from the well-foundedness of the
  naturals).
* **Realtime** (`RealtimeProofs`). `SSEInv` and `HubInv` say where the handler or
  reader is whose client a loop knows, and whose channel a loop has closed;
  `EndInv` reads off the remaining deferred calls what has been stopped. From it:
  `ClosedChannelsAreForgotten`, `PanicNeedsASlowClient`, `StoresCloseLast`, for every
  number of clients and every capacity. `LoopInv` adds that a loop returns only once
  the context is cancelled, which is the last of the deferred calls, so that none is left
  and all that `EndInv` reads off them is done: `LoopsReturnLast`.
* **Access control** (`AccessControlProofs`). `GuardInv`: what grants a guarded
  request is known to the history, and an entry that stood all the time is one
  none of the statements sent so far asks about. At the last statement there is
  none left, which needs that `Queries` covers every subject
  and permission that `Matches` accepts. From it: `UseCasesAreGranted`,
  `StandingEntriesAreFound`, for tokens with any number of roles. `StrongerRolesPass`
  rests on `PassedInv` (nothing runs that the claims do not pass) and on
  what the table of roles says: a stronger role matches every permission a
  route asks for that the weaker one matches (`StrongerMatches`).
* **In-memory cache** (`MemoryCacheProofs`). `TypeCorrect`, and the refinement of
  `ExpiringMap` (`ImplementsExpiringMap`): `PhaseFacts` reads an item's two
  comparisons off its phase, then there is one lemma per call. Counters go round, so
  `Increment` needs that a sum has exactly one counter that differs from it by whole
  turns (`WrapTypes`, `WrapOnly`). A tick moves a phase by at most one and the cleaner
  only takes what has lapsed (`TickKey`, `CleanupKey`).

So every safety property, action property and refinement of the runs is a
theorem. Only model-checked is liveness (`DeletionsComplete`, `EventsFlow`,
`ShutdownEnds`, `StartsEnd`, `OneServes`), which is out of the prover's reach.

## 5. Divergences met while modelling

Each with its lines in `PROJECT.json` under `findings`:

* a login in flight survives a password change (`AuthReloginViolation`);
* behind the router of main no SSE stream, WebSocket or GraphQL subscription can be
  opened (`RealtimeStreamsViolation`);
* those of the configurations above but the one about subscriptions, which the router
  keeps from happening;
* `Register` and `ChangePassword` delete no cache key, against ADR 0004;
* `RoleRepository.Save` keeps the id of the row on a conflict of names and goes on
  with the id of the entity, so the second of two servers that seed a fresh
  database exits;
* a Kafka publisher that could not be built is a typed nil: `fanout.Publisher`
  takes it for a working one and panics before the local bus is reached, against
  `docs/status.md:53`; the use cases do the same with a Redis client;
* the seeded permissions name single resources ("task"), the routes plural ones
  ("tasks"), so of the two only the table in the code decides;
* `ChangeStatus` archives tasks that are not done, against `CanTransitionTo`;
* an empty description is kept out by `COALESCE`.

Smaller ones, without a finding: an object is orphaned when the `HeadObject` after
its upload fails (`cut`); the total of `FindAll` ignores the filter, and so does the user
repository's `FindAll` the `RoleID` of `ListUsers`; a refresh token carries no `userId`,
an access token passes as a refresh token.

## 6. Plan

Done: sessions, tasks with their cache, attachments with the cleanup worker,
accounts with their cache, seeding, realtime with the shutdown, access control,
the in-memory cache; the proofs above.

Left, in this order:

1. Kafka delivery of the other topics: several consumers in a group and what
   they may see twice;
2. labels as a module of their own: check-then-insert against the unique index.

### Not modelled

* **gRPC and GraphQL handlers, most of the REST handlers** (`transport/grpc/services.go`,
  `schema.resolvers.go`, `rest/handler`): each translates one request into one call
  of a use case and keeps no state; those calls are the operations of the models.
  What the REST handlers and middlewares decide is in `AccessControl`, what the
  logging middleware hides in `Realtime`.
* **Generated code** (`generated.go`, `*.pb.go`, the Swagger document, mocks): half
  of the repository's lines, written by gqlgen, protoc, swag and mockery from
  schemas. The sqlc functions run one statement each; the statement is modelled
  where a repository runs it, and its Go wrapper is not.
* **Local file storage**: only the factory builds it, no server uses it, and each
  call is one file operation.
* **Background monitor**: counters behind one mutex; the alert is a function of the
  failure streak.
* **Query builders, pagination**: text of SQL statements; what they return is
  data the models abstract.
* **Validators and value objects**: pure predicates on one input; the models issue
  only requests that pass them.
* **Configuration, logging, tracing**: nothing that others read after the start.
* **`cmd/grpc`**: starts and ends as `cmd/server` does, without streams.
* **Parts without a caller**: `PublishBatch`, `Unsubscribe`, `CanManageTask` and the
  other decisions over entities, the `Subscriptions` of a WebSocket client.
* **Socket.IO**: a library; its broadcast is assumed to return.
