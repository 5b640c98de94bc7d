# A verification project for the users service

The users service (Go, Gin, Ent on Postgres, Redis, Kafka) registers accounts,
signs users in, resets passwords and keeps their devices, settings, roles and
subscriptions.  This directory holds TLA+ models of it, the TLC configurations
that check them and proofs checked by TLAPS.  Paths below are relative to the
repository (`app/...`); PROJECT.json maps every definition to its lines.

## The system and its parts

| part | state | operations | what is hard |
|---|---|---|---|
| account tables (`repositories`, `models/ent`) | Postgres rows: users, settings, devices, activation, verification, reset and second factor codes | one transaction each, READ COMMITTED | handlers are sequences of transactions; several replicas of the service share the tables |
| account operations (`services/auth_service.go`, `services/users_service.go`) | none of their own; locals of a running handler | register, activate, log in, second factor, reset, remove, settings | stale reads, half-done sequences, errors after a commit |
| router, controllers, request tracker (`routes`, `controllers`, `middlewares/limit_requests_middleware.go`) | per-client request times behind one mutex | admit or refuse a request, run its handler | the mutex is held while the handler runs |
| bearer authentication (`middlewares/auth_middleware.go`, `infrastructure/cache_store.go`) | Redis entries of encrypted claims | look up, validate, store in the background | two layers of encryption on one path, one on the other |
| profiles, roles, listings (`services/users_service.go`) | rows of users and roles; locals of a running handler | change mail and phone, roles, list | what is compared was loaded earlier; events and answers after the commit |
| user cache (`repositories/handlers.go`) | Redis entries of users | set after a read, delete after a write | written outside the transaction; never read back |
| Kafka consumers (`config/kafka.go`, `services/*_handler.go`, `middlewares/kafka_message_handler_middleware.go`) | position and committed offset per partition | handle, commit, rebalance, stop | failed messages, redelivery, crash between handling and commit |
| event notifier (`infrastructure/event_notifier.go`) | producer queue | produce an event after a commit | lost when the process stops; refuses settings that were not loaded |
| WebSocket requests (`controllers/handlers.go`, `models/requests/web_socket_helper.go`) | a progress channel, a connection | report, forward, close | two goroutines, one connection, a client that may stall |
| process life (`cmd/main.go`, `config/config.go`, `infrastructure/consumer_manager.go`) | server, consumers, clients open or closed | start, signal, shut down | consumers run on while their resources are closed |
| hashing and signing (`services/auth_service.go`) | a pool of workers on a bounded channel | hash, compare, sign, validate | callers block on the pool without their context |
| diagnostics, metrics, documentation, generated Ent code | none | | pure input and output |

Interactions: the router hands a request to the tracker, which runs its handler
with the mutex held; the handler calls the account or user service, which calls
the repository (transactions, then Redis) and afterwards the notifier.  Kafka
consumers run beside them in the same process and write the same tables through
the same repository.  Several replicas of the process share Postgres, Redis and
the consumer groups.

### What makes each part correct

- **Tables and account operations.**  A handler acts on what it loaded some
  transactions ago; what it relies on must still hold (`HandlersBacked`).  An
  activation code is spent by the activation, a second factor and a session
  belong to a device of an account that was activated, a password changes only
  under a reset code, and every account goes through one life.
- **Tracker.**  Requests are weighed in the order they get the mutex, which is
  not the order of their times; the limit must hold all the same, and every
  request must get its turn.
- **Consumers.**  The group must never pass a message that was not tried, never
  go back, and redelivery must not double a subscription.
- **Profiles and the user cache.**  A mail and a phone belong to one account,
  whoever checked what when; an update that is reported done is done, and one
  that is refused changed nothing; an old cache entry has a known cause.
- **Bearer authentication.**  Whatever the cache holds and whenever its
  goroutines run, a handler runs only for a signed token that had not expired
  when its request came.
- **Process life.**  A signal ends the process.  What was accepted is answered,
  and no event of it is lost, unless a timeout passed; consumers are told to
  stop before what they use is closed.
- **WebSocket requests.**  Progress arrives in order; the handler and the
  forwarder end, and write at the same time only in a known case.

## Modules

| module | models | state | actions |
|---|---|---|---|
| `UsersTables` | `models/ent/migrate/schema.go`, `repositories/handlers.go`, the replicas | rows of `users` (with the two-factor flag of their settings), the code an account owns in each code table, number of device rows per owner and token, signed tokens, clock; `pc`, `job` (locals) and `answer` of each replica | `TransactionFails`, `Restart`, `Tick`; `Goto` and `Reply` move a handler |
| `Registration` | `Register`, `ResendActivationCode`, `ActivateAccount`, `RemoveAccount`, `UpdateSettings` | the same | one per transaction, or two where another replica may come between the read and the write of one |
| `SignIn` | `Login`, `FindOrCreateDevice`, `CreateSecondFactorCode`, `VerifySecondFactor`, `GenerateJWT`, `VerifyAccount` | the same | the same |
| `PasswordReset` | `RequestPasswordReset`, `ResendResetCode`, `CancelPasswordReset`, `ConfirmPasswordReset` | the same | the same |
| `AuthService` | the three on the same tables, and the router | | `Next`, fairness, properties |
| `AccountLifecycle` | the abstract specification: absent, pending, active, removed, and who ever opened a session | `status`, `signedIn` | `Register`, `Activate`, `Remove`, `OpenSession` |
| `AuthServiceProofs` | proofs about `AuthService`, for any number of replicas | | |
| `AuthSerialProofs` | proofs of what it guarantees while handlers do not overlap | | |
| `KafkaConsumer` | `config/kafka.go` (`NewKafkaConsumer`), `subscription_event_handler.go`, `user_action_handler.go`, what they write | subscriptions, removed accounts; committed offset, owner and position per partition; place and message of each loop; what `Handle` returned and how often `Poll` delivered each message (history) | `Loop`, `Poll`, `Handle`, `Save`, `CommitMessage`; the group's `Assign`, `Rebalance`, `Evict`; `Crash`, `Stop`, `Restart`; `RemoveAccount` of the HTTP side |
| `AtLeastOnce` | the abstract specification: messages are tried in the order of their partition, and passed after that | `tried`, `passed` | `Try`, `Pass` |
| `KafkaConsumerProofs` | proofs about `KafkaConsumer` | | |
| `RequestTracker` | `middlewares/limit_requests_middleware.go` | clock, time each request read, how far it is, what the map remembers, holder of the mutex | `Arrive`, `Limit`, `Finish`, `Tick` |
| `RequestTrackerProofs` | proofs about it | | |
| `UserProfile` | `services/users_service.go`, `UpdateCache`, `InvalidateCache` and the operations of the repository they are used in | mail, phone and removal of each account, roles, the cached row of each user; users whose entry may be stale (history); `pc`, `job`, `answer` of each replica | `UpdateUser`, `CheckContacts`, `SaveContacts`, `RemoveAccount`, `MarkRemoved`, `UpdateDetails`, `AddRole`, `RevokeRole`, `Index`, `GetUserByResetCode`, `CacheUser`, `Invalidate`; `Expire`, `TransactionFails`, `Restart` |
| `UserProfileProofs` | proofs about it | | |
| `BearerAuth` | `middlewares/auth_middleware.go`, `GenerateJWT` and `ValidateJWT`, the claims in `cache_store.go` | clock, signed tokens and their expiry, cached entries (layers of encryption, end), goroutines under way; `pc`, `job`, `answer` of each replica | `Arrive`, `Lookup`, `CheckCached`, `ValidateJWT`, `Serve`; `CacheValidClaims` and `DeleteClaims` in the background; `GenerateJWT`, `Restart`, `Tick` |
| `BearerAuthProofs` | proofs about it | | |
| `ProcessLife` | `cmd/main.go`, `Application.Shutdown`, `StopAll` | how far `main` is, which timeouts passed, what is open; where each request, event and consumer loop is | the steps of the shutdown; `Accept` to `Produce` of a request; `Deliver`; `Poll` to `CommitMessage` of a loop; `Signal`, `Kill` |
| `ProcessLifeProofs` | proofs about it | | |
| `WebSocketRequest` | `handleWebSocketRequest`, `WebSocketHelper`, `ProgressReporter` | where handler, starter and forwarder are, the channel, what is being written and what arrived, the connection | one per step of the handler and of the forwarder; `PeerStalls`, `PeerLeaves`, `Collide` |
| `WebSocketRequestProofs` | proofs about it | | |
| `MCAuthService`, `MCKafkaConsumer`, `MCRequestTracker`, `MCUserProfile`, `MCBearerAuth`, `MCProcessLife` | instances for TLC | | |

Definitions marked *Variant* are forms of an action or an operator with a bug
in it; no specification uses them.  They are the mutants that show that each
property can fail: PROJECT.json pairs each property with the variant that
breaks it.

### How the code is read

- **One handler per replica.**  `LimitRequestsMiddleware` holds the tracker's
  mutex through `ctx.Next()`, so a replica runs one handler at a time: a replica
  is a process with one `pc`.  All interleaving of the account operations comes
  from replicas that share Postgres.
- **Transactions.**  The isolation level is READ COMMITTED (`BeginTx(ctx, nil)`).
  A transaction that reads and then writes is two steps where another replica's
  commit between them matters (code queries, `FindOrCreateDevice`,
  `ActivateAccount`); unique indexes decide at the insert.
- **What is abstracted.**  A user is its mail, a device its token, a hash the
  password it was made of.  Codes are model values; the loop that draws a code
  until one is free is one step that takes any free one, so it is disabled, as
  the loop is endless, when none is.  Phone, names, roles and the text of events
  and answers are left out; the notifier decides only between answers, by the
  `Create...Event` operators.
- **Errors.**  `TransactionFails` lets any transaction fail and `Restart` lets
  the process die between any two.  Dereferences of nil are the answer "panic",
  which gin turns into a 500.
- **Kafka.**  The broker is modelled as the loop uses it: one owner per
  partition, offsets stored when a message is polled, revocation served inside
  `Poll` and `Close`, eviction at any time, commits that may fail and are refused
  from a consumer that is no longer the owner.
- **Profiles.**  `UserProfile` has its own view of the table of users, with
  contacts instead of codes: its accounts are activated, because its callers hold
  a token.  One transaction is one step, except that another replica may come
  between the two uniqueness queries of `UpdateUser` and its write.  A row that
  is not found again is what the code dereferences: "panic".
- **Bearer.**  A payload in Redis is the number of layers of encryption around it.
  The store of this repository leaves one on claims; the middleware is written
  against an interface whose other implementation (claims kept as `CacheClaims`
  makes them, as the tests have it) leaves two, and both are instances
  (`StoredLayers`).
- **Process life.**  A request is what matters of a handler when things are
  closed under it: its transaction, its event, its answer.  A handler and a
  consumer loop need not ever go on; the steps of `main` do.
- **WebSocket.**  Messages are numbers in the order of the reports.  The
  connection is gorilla's: one writer at a time, which it enforces by a panic,
  and no deadline unless one is set.

## Runs

| run | shows | bounds |
|---|---|---|
| `auth_all` | types, `HandlersBacked`, `ActivationCodeSpent`, `SecondFactorBacked`, `SessionBacked`, `PasswordChangeNeedsCode`, and that the service implements `AccountLifecycle` | 2 replicas, 1 account, 2 devices, 2 passwords, 1 code, all operations: every pair of handlers interleaves on one account. Two devices so that a token can name the wrong one, two passwords so that one can change |
| `auth_serial` | what one replica guarantees and several do not: `DeviceUnique`, `PendingAccountHasCode`, `RemovedIsFrozen`, `PasswordLoginCurrent` | 1 replica, 2 accounts, 2 codes and 2 passwords, clock to 2 with a lifetime of 1, so that accounts reuse each other's codes and codes expire |
| `auth_live` | every accepted request is answered | 2 replicas, 1 account, 2 codes; no symmetry |
| `kafka_spread` | `NothingSkipped`, that the group implements `AtLeastOnce` (`DeliverySpec`, so offsets never go back), `DeliveredOncePerFault`, `SubscriptionsDistinct` although updates can be lost | 2 consumers, 2 partitions, messages of one user in both, any 2 faults |
| `kafka_keyed` | `LoadedIsCurrent`, `SubscriptionsConverge` when messages are keyed by user and nobody is evicted | 2 consumers, 1 partition, 2 users, 4 messages that add and remove, 2 faults |
| `kafka_actions` | every message is handled, although the ones before it end in errors | 2 consumers, 2 partitions, 5 messages: two user actions, which are never saved, and three unusable ones; any single fault; no symmetry |
| `tracker` | `NewestWindowBounded`, every request gets its turn | 4 requests of 2 clients, limit 2, window 1, clock to 3: three requests of one client are one more than the limit, and the clock passes the window twice |
| `profile` | `ContactsUnique`, `AnswersTrue`, `StaleHasACause` | 2 replicas, 2 accounts, 3 mails (one is free), 1 phone both want, 1 role; symmetry |
| `bearer` | `OnlyValidServed`, `DeletesAreHarmless`, `RefusedForAReason` | 2 tokens, 2 replicas, both kinds of store, lifetimes of 2, clock to 4: an entry stored late outlives its token; 1 goroutine of each kind per token |
| `life` | `RequestsAnswered`, `EventsFlushed`, `ConsumersWarned`, `ShutdownEnds` | 2 requests, so that one waits for the mutex; 2 consumers; a queue of 1, so that it refuses; no symmetry |
| `websocket` | `ProgressInOrder`, `TwoWritersOnlyOnFailure`, `HandlerReturns`, `ForwarderEnds` | the real capacity of 10 and 13 reports: channel, forwarder and a blocked service hold 12 between them |
| `device_duplicated` | violation of `DeviceUnique` | 2 replicas |

A race needs two handlers, two consumers or two requests, and each of them is a
handful of steps long, so two replicas show every pairwise interleaving; what a
third could add is covered by the theorems, which hold for any number.
`MaxNow` and `MaxFaults` bound the clock and the faults.  The tracker runs
without deadlock checking because its requests are used up, and so does the
WebSocket request, which ends, or waits for ever for a client that reads nothing.

`DeviceUnique`, `PendingAccountHasCode`, `RemovedIsFrozen` and
`PasswordLoginCurrent` are checked (and proved, in `AuthSerialProofs`) for handlers
that take turns, as those of a single replica do, on purpose: with a
second one each of them fails (a device inserted twice; a code deleted by value
when it belongs to another account already; a login that finishes on what it
loaded before the account was removed or its password changed).  The model with
two replicas has these behaviours, and only `device_duplicated` is a run of its
own because the README promises the contrary.

### Fairness

- `AuthService!FairSpec`: `WF_vars(Step(p))`.  A goroutine that has accepted a
  request is scheduled until its handler returns.  Nobody is obliged to call, to
  fail or to restart.  The step that draws a code is disabled when no code is
  free, so the liveness of `auth_live` rests on codes (900,000 values in the code)
  outnumbering accounts.  Reset and second factor codes are never deleted: in a
  table that is full the loop does spin for ever.
- `KafkaConsumer!FairSpec`: weak fairness of a consumer's loop and of the restart
  of a process that stopped (its supervisor); strong fairness of the assignment
  of a partition, which happens inside `Poll`: a consumer is there again and
  again, but not all along.
- `RequestTracker!FairSpec`: strong fairness of getting the mutex, because
  `sync.Mutex` hands itself over to a goroutine that has waited for a
  millisecond; weak fairness of a handler's end.
- `ProcessLife!FairSpec`: weak fairness of the shutdown alone.  Every wait in it has
  a timeout (`server.Shutdown`, `Flush`) or ends by itself (`StopAll` waits only for
  the calls of `Cancel`).  No request, consumer or delivery is obliged to go on, so
  `ShutdownEnds` holds whatever hangs.
- `WebSocketRequest!FairSpec`: weak fairness of the handler's goroutine and of the
  forwarder.  The service call must return, but need not report; the client
  need not send its request, read, or leave.  Both liveness properties except a
  client that stays and reads nothing.

## Findings

| run | what |
|---|---|
| `device_duplicated` | two replicas insert the same device; `Only()` then refuses every login from it |

Met while modelling, without a run of their own.  In the account operations:

- A confirmed reset changes the password, answers with an error, and its code
  can be used again: `GetUserByResetCode` loads the user without the code, so
  `RemoveResetCode` refuses (`users_repository.go:628`).
- A second factor code is never removed: clearing the edge sets a NOT NULL column
  to NULL, the transaction rolls back and the error is logged
  (`users_repository.go:674`).
- The expiry of codes is computed when the process starts
  (`ent/schema/second_factor_code.go:35`), so codes created five minutes later are
  born expired.
- `ResendActivationCode` of an activated account and a failing `RemoveAccount`
  dereference nil (the model answers "panic"); a login with a second factor
  always ends in an error after it has stored the code, because no loader loads
  the second factor target.
- The reset endpoints for cancelling, confirming and resending are all bound to
  `RequestPasswordReset` (`routes/auth_routes.go`), and `Route` in `AuthService`
  says so; activation and reset codes have an expiry that nothing checks.

In the other parts:

- Every `UpdateUser` that changes something ends in a 500 after its commit: it
  announces the change with a verification or activation code that an activated
  account does not have (`users_service.go:64`).  The test of the success mocks the
  repository.  `UpdateDetails` and its siblings dereference details that their
  helper does not load; `AddRole` on a removed account, which no route reaches,
  commits and then panics.
- No user action is ever recorded: `CreateUserAction`
  (`users_repository.go:1141`) sets neither the type nor the device of the author,
  which the schema requires (`ent/schema/user_action.go:22`, `:42`), so the client
  refuses every row (`ent/useraction_create.go:125`) and the handler returns an
  error.  The message is passed with the next success of its partition, or when
  the partition is revoked.  The tests of the handler mock the repository, and the
  one of the method itself is empty (`users_repository_test.go:97`).  In
  `KafkaConsumer` a user action therefore has `SaveFails` and no `Save`.
- A message whose handler failed is not tried again unless its partition changes
  hands before the group has passed it: `DeliveredOncePerFault` and
  `NothingSkipped` say how often it is tried.
- A cached token makes the authentication panic for as long as the entry lives
  (`DecacheClaims` decrypts what `Get` has decrypted already); `BearerAuth` has it as
  the answer "500", and `RefusedForAReason` says when it can come.
- `StopAll` reports consumers as stopped that were only told to; their loops may
  be in a handler when the clients are closed, and when the process exits.
- The tracker reads the clock before it locks its mutex, so an earlier window
  may end up above the limit; the latest one never does, which is a theorem.
- The wait group of `handleWebSocketRequest` waits for a goroutine that only starts
  the forwarder: progress that was reported but not forwarded yet is lost when
  the handler returns, and a failure is written beside the forwarder.  The test
  sleeps for ten milliseconds and mocks the connection.

`NewApp` passes the signing keys to `NewAuthService` in the wrong order and sets
no `TokenDuration`: as wired there, no token can be signed, and one would expire
the moment it is signed.  `AuthService` models the service as its constructor
and its tests describe it, with a `GenerateJWT` that may sign or fail.
A request whose authentication ends in a panic never reaches its handler and is
no step of that module.

## Proofs

TLAPS checks the following for every value of the constants that satisfies the
assumptions of the modules (`NullsAssumption`, `ClockAssumption` and
`OperationsAssumption`; `LogAssumption`, `FaultsAssumption` and
`ConsumersAssumption`; `TrackerAssumption`; `ProfileAssumption`;
`BearerAssumption`; `LifeAssumption`; `CapacityAssumption`): the null values are
not values, clocks and bounds are natural numbers, logs are sequences of messages,
the requests and the consumers are finitely many.  Three theorems state further
hypotheses, named below.

**AuthServiceProofs.**  `TypeCorrect`, `ActivationSpendsCode`,
`SecondFactorsAreBacked`, `SessionsAreBacked`, `HandlersAreBacked`,
`PasswordsNeedCodes`, and `ImplementsLifecycle`, the refinement of
`AccountLifecycle`.  No property is inductive alone, because a step writes what
its handler loaded earlier.  The invariant is

    Inv == TypeOK /\ TablesBacked /\ HandlersBacked

where `TablesBacked` has the properties of the tables and `RowsOrdered` (removed
only after active, active only if it exists), and `HandlersBacked` says what
each handler in flight may rely on.  The steps of other replicas keep that part
because the tables only move forward: `TablesAdvance` (an account never becomes
inactive, an activation code is never replaced, a reset code never goes away, a
device row is never deleted, sessions only grow) is shown of every step, and
`HandlerKept` shows that it preserves `HandlerBacked` of every other replica.
That reset codes never go away is a defect seen from the caller and a lemma
seen from the proof; a corrected `RemoveResetCode` would break
`PasswordsNeedCodes` for several replicas, and the proof shows where.

**AuthSerialProofs.**  `DevicesStayUnique`, `PendingAccountsKeepCodes`,
`LoginsStayCurrent`, `RemovedStaysFrozen`: the four properties of `auth_serial`, for
any number of replicas as long as no two of them run a handler at a time
(`[]HandlersTakeTurns` is the hypothesis).  One replica satisfies that by itself
(`SingleReplicaTakesTurns`), so `SingleReplica` states all four of it outright; two
replicas have all four violated when handlers do overlap.  The invariant
`SerialInv` says that a handler finds the row, the code and the device as it loaded
them (`UpToDate`): more than `HandlersBacked`, and true because only a handler
under way writes, and it is the only one.  Two facts about the tables had to be
added: an activation code has one owner (`ActivationCodesUnique`; without it the
deletion by value takes another account's code), and no device row is without its
owner (`StrangersOwnNothing`; without it the device of a registration could be a
second one).

**KafkaConsumerProofs.**  `ConsumersTyped`, `NeverSkips`, `NeverGoesBack`,
`NeverDoubles`.  The invariant strengthens `NothingSkipped` by: the message a
consumer handles exists (`JobsInLog`); an owner has polled what it is handling
and nothing after it (`JobsAtPosition`, because `Poll` is not called again
before the handler returns); everything an owner has polled was tried, but for
the message it is handling (`PolledTried`); only a message that was tried is
committed (`CommitTried`); polling goes on from where the group is
(`PositionAhead`); a closed consumer owns nothing (`ClosedOwnsNothing`).  The
callback runs inside `Poll`, when the consumer handles nothing, so what it
commits was tried; that is the step that fails if the callback runs beside the
loop.

`ImplementsDelivery` is the refinement of `AtLeastOnce`: a first return of `Handle`
is `Try`, every commit is `Pass`, all else is a stutter, redelivery included.
Besides the invariant and `NeverGoesBack` it needs `BusyInOrder`: all that comes
before the message a consumer handles was tried, also when the consumer has lost
the partition since.

`DeliveredOnlyPerFault` rests on an account (`DeliveriesPaid`): the deliveries of
a message so far, one more if it may be polled next, and the stops that are under
way are together at most one more than the faults.  A step of a consumer `Affords`
what it adds: `LoopAffords` (errors and refused commits add nothing),
`PollAffords` (a delivery uses up what the message was owed), `FaultAffords`;
stops count because a partition changes hands at their end and not when the fault
happens.

`LoadsStayCurrent` and `SubscriptionsSettle` assume `Orderly`: the events about a
user's subscriptions are in one partition, and no consumer is evicted.  Then a busy
consumer owns the partition of its message and the group has not passed it
(`BusyOwns`), so no two consumers update one user at a time
(`UpdatesAreAlone`).  That the subscriptions converge is not inductive, because a
crash makes old events be handled again, which for a while undoes later ones.
`LastWriteStands` therefore speaks of each subscription alone, and only when every
event about it was passed since (`Passed`, which a partition loses again for what
was polled but not committed): then it is as the last of them says.  A redelivered
event either is the last one or is followed by one that has not been passed again.

**RequestTrackerProofs.**  `TrackerTyped` and `LatestWindowWithinLimit`.  The
invariant speaks of every time `t` not before the latest request that was
weighed, instead of the latest request (`WindowWithinLimit`), so that a refused
request, which moves the end of the window, needs no argument about maxima; and
it says that what the map forgot lies more than a window before something that
was weighed (`ForgottenIsOld`), so that what a request is weighed against
includes all that its window holds, even if it is not the latest.

**UserProfileProofs.**  `ProfileTyped`, `ContactsStayUnique`, `UpdateAnswersTrue`,
`StaleEntriesHaveACause`.  Uniqueness needs no invariant about handlers, because
the indexes decide and not the queries; but what a handler is about to write must
be of an account (`JobsBacked`), which also says how the row that was read again
relates to the request: a value that was asked for and differs from the loaded
one was written, so it was read back unless the account was removed.  For the
cache, a listing under way holds the row of the table or its user is in `missed`
(`ListingsFollowed`), so that what a listing stores late is accounted
for.  A user leaves `missed` when the entry is deleted and no listing holds an
older row, so that each time an entry is stale again there is a new cause.

**BearerAuthProofs.**  `BearerTyped`, `ServedTokensAreValid`,
`LateDeletesAreHarmless`, `RefusalsHaveReasons`.  An entry, a goroutine that will
store one, and a request that is past a check exist only for tokens that were
signed; the expiry of a signed token never changes; a request that is served had
its token unexpired at some moment not before it came.

**ProcessLifeProofs.**  `LifeTyped`, `GracefulShutdownAnswers`, `LossHasACause`,
`ClientsCloseLast`.  An event is queued only by a request in its handler; after a
drain that was not forced there is none, so a queue that was flushed stays empty
until the producer is closed.

**WebSocketRequestProofs.**  `SocketTyped`, `ProgressKeepsOrder`,
`TwoWritersNeedFailure`, for any capacity and number of reports.  (The types of this
module, with the channel never above its capacity, are `SocketTyped`; no run repeats
them.)  The invariant
(`OnTheWay`) says that the messages under way are consecutive: what arrived, the
one being written, the channel, up to the last one handed over.

Every safety property and both refinements that the runs check are theorems.  Only
model-checked are the six liveness properties (`EveryRequestAnswered` of
`AuthService` and of `RequestTracker`, `EveryMessageHandled`, `ShutdownEnds`,
`HandlerReturns`, `ForwarderEnds`): they need ENABLED for their fairness, which the
prover does not support.  `device_duplicated` is a counterexample and as such the
business of TLC.

## Plan

1. `UsersTables`, `Registration`, `SignIn`, `PasswordReset`, composed in
   `AuthService`; `AccountLifecycle` and the refinement; the proofs.  Done.
2. `KafkaConsumer`, `RequestTracker` and their proofs.  Done.
3. `UserProfile`, `BearerAuth`, `ProcessLife`, `WebSocketRequest` and their proofs.
   Done.
4. `AuthSerialProofs`; `AtLeastOnce`, its refinement and the remaining proofs about
   `KafkaConsumer`.  Done.
5. Left: abstract specifications of the other components (a session that is open
   for `BearerAuth`, a channel that loses only its tail for `WebSocketRequest`) and
   their refinement.

Checking everything stays a matter of minutes, so a run is kept for each question
and not for each defect: the defects met on the way are listed above.

## Not modelled

The middlewares of Kafka handlers (`NewApp` wires none of them in) and `Cleanup` of
the tracker (never started); the hashing pool (ten workers for one handler at a
time); diagnostics, metrics, documentation, settings and the validation of
single values (no state that another part depends on); the text of events and
answers.

The generated Ent client is not modelled either: its tables are, from the schema
and the migrations.  It is most of the lines of the repository that are not
tests, which is why the share of lines that the modules stand for is small.  Of
the 6,500 lines of services, repository, middlewares, controllers, routes,
infrastructure, configuration and start-up, where the state of the system is,
they stand for two fifths; the rest is interfaces, wiring, logging and
documentation comments.
