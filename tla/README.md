# A verification development of the logistics platform

This directory holds TLA+ specifications of the platform's services, the TLC
configurations that check them on small instances, and theorems about them
checked by TLAPS. `PROJECT.json` lists the components, runs, hazards, findings
and theorems, and maps every definition that models code to its source lines.

Check a run with `tlc -config <run>.cfg <module>`, a proof with
`tlapm <module>.tla`.

## 1. Inventory

The platform is a set of Go services around gRPC, each with its own MySQL
schema (a master for writes, a slave for reads), and the brokers Kafka, NATS
JetStream and RabbitMQ.

| Component | State | Operations | Talks to |
|---|---|---|---|
| matching engine (`matching_service`) | rows `bids`, `asks`, `matches`; a mutex; geohash index | `SubmitBid`, `SubmitAsk`, `SubmitOffer`, `ProcessOfferQueue`, `RejectOffer`, `AcceptOffer` | wallet (gRPC `CheckBalance`), Kafka (`wallet.hold_deposit`), NATS (offers), RabbitMQ (notices) |
| wallet (`wallet_service`) | rows `wallets`, `transactions`, `processed_messages`; search index | `Deposit`, `HoldDeposit`, `ReleaseAndPay`, `TransferMoney`, `CheckBalance` | Kafka consumer, Elasticsearch |
| deposit pipeline (`wallet_service/internal/di`, `adapter/kafka`, `pkg/concurrencyUtils`) | offsets, a channel of 100 records, one worker | consume, mark, commit, take | matching engine -> wallet |
| auth (`auth_service`) | rows `users`, `refresh_tokens` | `Register`, `Login`, `GoogleCallback`, `RefreshToken`, `Logout`, `VerifyToken` | called by the gateway |
| notifications (`notification_service`, `pkg/mq`) | notifications, preferences, `processed_events`, unread counter in Redis | `DispatchEvent`, `MarkAsRead`, `MarkAllAsRead`, `Delete`, `CountUnread` | RabbitMQ consumer, mail, push |
| KYC (`kyc_service`) | dossiers | `SubmitKYC`, `ReviewKYC` | asked by the gateway before a driver goes on duty |
| vehicles (`vehicle_service`) | vehicles, documents, availability, locations; Redis cache and GEO index | `RegisterVehicle`, `UpdateVehicle`, `UpdateVehicleStatus`, `AdminVerifyVehicle`, `DeleteVehicle`, documents and their review, `ReportLocation`, `SetAvailability`, `SearchNearby` | Redis; gateway |
| users (`user_service`) | users, profiles, addresses, devices; Redis cache | registration, profile, address and device updates, deletion | Redis; called by the gateway at registration and at every login with a password |
| gateway, media, tokens | none of their own | HTTP translation, pre-signed URLs, JWT | all services |

What is hard in them, and what makes them correct:

- **Matching.** Handlers of several goroutines read a row, decide and write it
  back. Reads go to the slave, which may be behind. `AcceptOffer` writes to the
  wallet topic, `matches`, `bids` and `asks` without a transaction, so each step
  can fail or be the last one before a crash. Offers are redelivered until they
  are acknowledged. Correct means: a bid is sold once, for the quote
  that stands and with a deposit requested for it, except where a stale read, a lost
  record or a cut-off accept is to blame; the row follows its state machine; every
  offer is answered; the mutex is released on each path.
- **Wallet.** Concurrent transactions check balances and lower them later, lock
  rows in different orders, and get the same message twice. Correct means: they
  amount to atomic operations each applied at most once, no balance below zero,
  books, inbox and balances agree, no lock cycle.
- **Deposit pipeline.** A record is acknowledged when it enters a channel in
  memory, and at a shutdown even without entering it; the worker drops what fails.
  Correct means: every deposit requested is frozen if the payer can cover it, once, or
  its loss has a cause one can name.
- **Engine and wallet together.** The balance is checked now and frozen later; other
  operations lower it in between, and a service that finds no wallet when it starts
  checks nothing (`MockWalletClient`), which the flow document calls the present state
  (docs/flows/shipper-order-flow.md:125). Correct means: a deposit turned down had the
  money when it was asked for, or was not checked.
- **Auth.** Two refreshes with one token; logout, reuse and revocation against a
  refresh in flight; two registrations of one address. Correct: a login is good for
  one token at a time; after a logout or revocation no session lives; an account
  keeps its role.
- **Notifications.** Redelivery, one requeue and then dead letter, lost
  connections and restarts; a cached counter against concurrent writers. Correct:
  no event is lost between broker and inbox, and each creates its notifications
  once, no more than it has entries; a wrong counter has a known cause and becomes right.
- **KYC, vehicle documents.** Check-then-act reviews without a conditional
  update. Correct: a decision nobody was racing stands.
- **Vehicles.** The KYC check, the vehicle's copy and the driver's switch are read
  and written in three steps of two services; copies are stored after their
  invalidation; an index entry is written from an earlier read. Correct: who takes
  orders had a dossier that read approved, whoever wrote that, and a vehicle that a
  reviewer verified; a search returns no vehicle that was unfit or
  off duty throughout; copies and index are wrong only for causes one can name.
- **Users.** The same copies, with several keys for one row; registration and the
  change of a default address are two statements each. Correct: copies as above;
  an account has a profile unless it was cut off; one default address unless calls
  cross.

`PROJECT.json` lists each of these hazards at its line.

## 2. Modules

```
BidLifecycle              Ledger
     ^ implements            ^ implements   ^ instance
  Matching                 Wallet           |
     |    \                  |   \          |
     |     \  extends        |    \ extends |
     |      `--------------- | ---- | ---- DepositFlow
     |                       |    DepositPipeline   |
     |                       |      |               |
 MatchingInv             WalletInv  |               |
     |                       |    PipelineInv    FlowInv
     |                       |      |               |
 MatchingProofs --.      WalletProofs               |
                  |          |      |               |
                  |          `-- PipelineProofs     |
                  `------------------------------ FlowProofs

 EventInbox
     ^ implements
 Notifications         Fleet         Account        Sessions
     |                   |              |               |
 NotificationsInv    FleetInv      AccountInv           |
     |                   |              |               |
 NotificationsProofs FleetProofs   AccountProofs  SessionsProofs
```

| Module | Models |
|---|---|
| `BidLifecycle` | abstract: the documented state machine of a bid, PENDING - NEGOTIATING - MATCHED, one transition a step |
| `Matching` | `matching_engine.go`, its repository, server, offer consumer and notifier |
| `MatchingInv` | the inductive invariants of `Matching` |
| `MatchingProofs` | theorems about `Matching` |
| `Ledger` | abstract: balances and the set of references applied; an operation is one step |
| `Wallet` | `wallet.go` and its repositories as database transactions with locks |
| `WalletInv`, `WalletProofs` | invariants and theorems of `Wallet` |
| `DepositPipeline` | topic, consumer group, channel and worker in front of `Wallet` |
| `PipelineInv`, `PipelineProofs` | invariant and theorems of `DepositPipeline` |
| `DepositFlow` | `Matching` and `Ledger` composed through `CheckBalance` (the wallet's or the mock's) and the hold topic, next to the wallet's other operations |
| `FlowInv`, `FlowProofs` | invariant and theorem of `DepositFlow` |
| `Sessions` | `auth.go` of `auth_service` and its repositories |
| `SessionsProofs` | invariant and theorems of `Sessions` |
| `EventInbox` | abstract: an event is taken into the inbox in one step and once, with at most one notification per entry |
| `Notifications` | `pkg/mq/rabbitmq.go`, the consumer, use case and repository of `notification_service`, its counter in Redis |
| `NotificationsInv`, `NotificationsProofs` | invariant and theorems of `Notifications` |
| `Fleet` | `kyc_service`, `vehicle_service` with cache and GEO index, the gateway's guard before the switch |
| `FleetInv`, `FleetProofs` | invariant and theorems of `Fleet` |
| `Account` | `user_service` with its copies, the gateway's `ensureProfile` |
| `AccountInv`, `AccountProofs` | invariant and theorems of `Account` |
| `MCMatching`, `MCWallet`, `MCDepositFlow`, `MCSessions`, `MCNotifications`, `MCFleet`, `MCAccount` | values, symmetry and definitions for TLC |

### Matching

| State | Code |
|---|---|
| `db` | the tables `bids` and `asks`, as the sequence of states from the slave's (head) to the master's (last), at most `Lag` apart |
| `contracts`, `holds` | table `matches`; records published on `wallet.hold_deposit` |
| `used` | how many contract identifiers exist (bounded by `MaxContracts`) |
| `offers` | JetStream messages not acknowledged |
| `mu`, `th` | the engine's mutex; program counter and locals of each goroutine |
| `published` | the notices sent by the last step |
| `submitted` | history of quotes, read by properties only |
| `slips` | history of what went wrong, read by properties only: bids on which a handler acted after a read the master had left behind (`stale`), contracts whose deposit request the producer lost (`lost`), contracts whose `AcceptOffer` ended between that request and the flip of the bid (`cut`) |

Each handler is cut at its calls to the database, wallet or a broker, since
other goroutines and failures may come in there; what lies between two calls is
one step. `ProcessOfferQueue` is `TakeOffer`/`RefuseOffer`, `OfferUpdate`,
`OfferForward`, `OfferAck`; `RejectOffer` is `RejectBegin`, `RejectUpdate`,
`RejectNotify`; `AcceptOffer` is `AcceptBegin`, `BalanceRefused` or
`BalanceSuffices`, `RequestHold`, `WriteContract`, `MatchBid`, `MatchAsk`, `Announce`. `Faults` says
which failures may occur: statements fail (`db`), notices (`mq`), deposit
requests (`kafka`) or acknowledgements (`ack`) are lost, the process ends
(`crash`). Definitions marked `(variant)` are not part of the specification: each
is a plausible bug, used to see that a property would notice it.

Abstractions: prices are small numbers; which pending rows are near enough and
how they rank is an arbitrary selection; `SubmitBid` includes its broadcast, which
reads but decides nothing; `matchChan` has no reader and is left out; the balance
check is a free choice here and real in `DepositFlow`. There is one engine
process (the mutex is local to it), as `docker-compose` deploys it. A failed read
of an offer's bid ends in a Nak, which changes no state.

### Wallet

`tx[s]` is the transaction of goroutine `s`: `mark` (insert the reference into
`processed_messages`), `lock` (the next `SELECT ... FOR UPDATE`, in the code's
order, with the balance check that follows it), `commit`, `index`. `Rows(op)`,
`Delta(op, w)` and `Posts(op)` describe an operation: what it locks, what it
changes, what it books. Writes appear at the commit, since no other transaction
sees them earlier; a rollback leaves no trace. `Scan = TRUE` is the schema as it is: `wallets.user_id` has no
index, so under InnoDB's default isolation a locking read locks the rows it scans,
that is all of them; the runs have this value. `Scan = FALSE` locks single rows, as
with an index on `user_id`; the theorems hold for both, but for `NoDeadlockVictims`,
which needs the scan: with single row locks the lock orders do meet. `Parties` are the
wallets that calls may name, the escrow among them; only `ReleaseAndPay` is between
users, with the escrow as its third party (with the escrow as payer its two
separate checks would not add up; nothing in the repository calls it).

### DepositPipeline and DepositFlow

`DepositPipeline` adds the topic, the offsets marked by the session, the offsets
committed at the broker, and the channel (`Cap` counts its buffer and the record
in the hands of `OrDone`). Records of one contract are distinct, so offsets are
sets. On SIGTERM `main` cancels the context and stops the server (`Shutdown`); until the
process ends (`Restart`) the handler's `select` may take its `ctx.Done()` branch and
return nil, so that the consumer marks a record that never entered the channel
(`Discard`; `dropped` until the process ends), and the worker gets nothing done, since
its statements carry that context. `lost` is a history: the requests whose transaction
was rolled back, and those that waited in memory or were dropped, their offsets
committed, when the process ended; `refused`, those turned down because the wallet was
missing or short of money.

`DepositFlow` puts the engine next to `Ledger`, which `Wallet` implements: the
wallet's inner steps do not matter there. `Engine` is a step of `Matching` in which
`BalanceSuffices` needs `CheckBalance`; the request is published a step later, and
`HoldDeposit`, the worker's handling of it, comes whenever it does. `Client` is any
other operation of the wallet: payments in, transfers, settled trips. `mock` says
whether `newWalletClient` found the wallet when the engine's process started
(`Restart`); the mock has money for everything. The histories are `unchecked`
(contracts the mock vouched for) and `debited` (users whose balance `Client` has
lowered). Contract ids are fresh and clients' references are others here; what equal
references do is the matter of `DepositPipeline`.

### Sessions

`account` is the table `users` by its unique address, `sessions` the table
`refresh_tokens` in the order of creation. Each handler is cut at its statements:
`Register` and `GoogleCallback` look the address up and `Save` inserts later;
`RefreshToken` reads and judges the row, then either `MarkUsed` (a conditional
update) and `Create`, or `RevokeAllForUser`; `Login` ends in `Create`; `Logout` is
one update. The history of a row (`parent`, `login`, `ended`) and `cut`, the sessions that
existed when a reuse was detected, are read by properties only. Time is left out:
an expired token is refused without any change. Goroutines share only the tables,
so the end of the process is for each of them a failing statement.

### Notifications

| State | Code |
|---|---|
| `queue`, `unacked`, `dlq` | the broker: ready messages with their redelivered flag, those delivered and not acknowledged, the dead letter queue |
| `process`, `open`, `buffer` | `Consumer.Start` runs, has returned, or the process is down; its channel; deliveries the library holds |
| `handler` | what the single consuming goroutine is doing |
| `processed`, `told`, `unread`, `muted` | the inbox table, the rows an event created per user, the unread rows of a user, switched-off preferences |
| `cache`, `excused` | the counter in Redis; a history of why it may be wrong |
| `th` | API handlers between two calls |

`Recipients` counts the entries of an event that name a user: the candidates of a cargo
are asks, so a driver may be among them more than once. `Handle`, `DispatchEvent` (one
entry at a time, each with its own look at the preferences), `CreateWithEventGuard` (one
transaction, one row per entry kept), the deletion of the counters, and `Ack` or `Nack`
are the steps of the consumer. `ConnectionLost`
closes the channel: the broker takes everything unacknowledged back, and
`StartReturns` when the buffered deliveries are used up; nothing in the code calls
`Start` again, so only `Boot` after a restart consumes again, if it finds the broker:
without one the service starts all the same and has no consumer. `MarkAsRead`,
`MarkAllAsRead`, `Delete` and the administrator's message write rows in one step and delete
the counter in the next; `CountUnread` reads the rows and stores the count in two
steps. A statement that fails may have taken place, with only its answer lost.
Texts and templates are left out, and an event is named by its identifier.

### Fleet

`paper` is the review state of dossiers (named by their driver) and vehicle
documents; `row`, `duty`, `cache`, `geo` are the vehicle rows, the drivers'
switches, the copies and the GEO index. Every call about a vehicle begins with
`GetVehicleByID`: `Lookup` takes the copy, or reads the row, which `Store` copies in a step
of its own, so a writer may come in between. Then the call acts (`UpdateVehicle`,
`UpdateVehicleStatus`, `UpdateVerification`, `DeleteVehicle`, `UpsertAvailability`,
`UpsertLocation`, `UploadDocument`, `DeleteDocument`) and its Redis commands
follow one by one (`invalidateVehicle`, `GeoAdd`, `GeoRemove`), each of which may
fail without anybody noticing. `SetDriverAvailability` is the gateway's check of the
dossier before a driver goes on duty. `ReviewBegin` and `ReviewWrite` are a review of
either service. A search is `SearchNearby` (index, or the switches when Redis fails),
`ReadVehicles`, `ReadAvailabilities`, or `searchNearbyFallback`. `Crash` ends
`vehicle_service`; reviews of dossiers run in another process and go on.
Coordinates, capacity and vehicle type are an arbitrary selection of the index.
The histories say whose dossier a reviewer has approved (`approved`) and who has only
submitted it as approved (`claimed`), which vehicles were verified (`verified`), which
copies and entries have an excuse (`excused`, `strayed`), which entries were made for a
vehicle unfit then and ever since (`relisted`), which decisions had no rival (`final`),
and what has been fit or on duty since each search began (`seen`).

### Account

One account with its copies: `row`, `profile`, `book` (addresses with their flag),
`device` (the row of one token, ours or somebody else's). `kind` names the one of the
five kinds of copy that a behaviour follows, so that one `cache` suffices; a `DEL` of several keys
is a `drop` step if the followed key is among them. `RegisterUser` and
`CreateProfile` are two statements, `ClearDefaultAddress` and `WriteAddress` as
well, with the deletion of the list between them; whose a device is, is read before it is
written. `AlreadyExists` is a login with a password through the gateway's `ensureProfile`
(`GoogleCallback` does not call it).

## 3. Runs

| Run | Question | Bounds |
|---|---|---|
| `match_flow` | with fresh reads: is a bid sold twice, or money asked for without a contract, only by an accept that was cut off; is a deposit turned down only when it was not checked or the money went elsewhere; do rows follow the state machine? | 2 bids of a shipper with money for one deposit, 1 other user, 1 ask, 1 price, 2 callers + consumer, 2 contracts, 1 reference of another operation; `db`, `ack`, `crash` faults |
| `match_lag` | with stale reads: are contracts at the quote that stands, with their deposit request, and states backed by contracts? | 1 bid, 2 asks, 2 prices, 1 caller + consumer, 2 contracts, slave 1 state behind; `db`, `kafka`, `ack`, `crash` faults |
| `match_live` | is every offer answered, every lock released? | 1 bid, 2 asks, slave 1 state behind; `ack`, `db` faults |
| `match_takeover` | violation: a stale read lets a second quote replace the first | 1 bid, 2 asks |
| `wallet_books` | do transactions implement the ledger, do inbox, books and balances agree, can transactions wait for each other? | 2 users + escrow, 2 references, 3 goroutines, all faults |
| `deposits` | is a request applied at most once, is its end on record, is it frozen in the end if the payer can cover it, through everything the pipeline meets? | 1 user, who pays and is paid, + escrow, 2 contracts, a transfer with one's reference, channel of 1, rebalances, storage errors, shutdowns, restarts |
| `sessions` | is a login good for one token at a time, does a logout end it, can an account be replaced? | 2 addresses, 2 roles, 2 goroutines, 3 sessions, failing statements |
| `sessions_reuse` | violation: a refresh in flight survives the revocation after a reuse | 1 user, 2 goroutines, 4 sessions |
| `notifications` | can an event be lost or taken in twice, does each settle, is a wrong counter explained and does it become right? | 2 events, 1 user, 1 caller + consumer, prefetch 2, all faults |
| `fleet` | is who takes orders cleared, what a search returns fit, what is stale explained, does a decision stand? | 1 driver, 1 vehicle, 1 document, 2 callers, all faults |
| `account` | is a stale copy explained, is an account whole, is there one default address? | each of 5 kinds of copy, 2 addresses, 2 callers, all faults |
| `account_repair` | violation: a login does not repair an interrupted registration | the same, crashes only |

Why these bounds are enough. A conflict in the engine is between two goroutines on
one bid; two bids of one shipper compete for his money, and an accept of one overlaps
steps on the other. One ask is enough there: an ask may quote both bids, and quote one
again after a rejection; `match_lag` has two asks to tell drivers apart, and two prices to
tell quotes apart. Two contracts allow a bid to be sold a second time, which may happen
only for the causes on record, and a shipper's second deposit to be turned down. A
slave one state behind already shows every row stale that a longer lag would show,
one write at a time. In the wallet a conflict has two transactions on overlapping
rows; with opening balances of 1 and amounts of 1 every check is at its boundary.
Three goroutines in `wallet_books` allow one to wait while two others progress. A
channel of one record is full at once, and one user who pays and is paid is enough for
a record to meet a balance that covers it or not. Two refreshes of one token, or a refresh and
a logout, are two goroutines (`Logout` needs none); three sessions are a login, its
successor, and either a second successor or a second login. A second event may be
prefetched, buried or redelivered while the first is handled; the first names its user
twice; users share nothing but events, and the counter's races have one writer and one
reader, here a caller and the consumer. In `fleet` and `account` every race is between two calls about one vehicle or account;
vehicles share only the index, which is a set. A driver who changes vehicles needs
two and is therefore only in the proof, which is for any number. The runs with
symmetry (`match_flow`, `match_lag`, `wallet_books`, `sessions`, `fleet`, `account`) treat
the permuted values alike and check no liveness.

Fairness. In `FairSpec` of `Matching` handlers go on (statements return, the wallet
call has a timeout), the slave replays, and JetStream delivers a message until it
is acknowledged. Delivery gets strong fairness because it needs the mutex, which
others take in between: Go's mutex hands itself to a waiter after a millisecond.
Users, crashes and lost acknowledgements are not fair: a message may lose every
acknowledgement. Only that the update of a quote does not fail on every delivery for ever
is assumed (`UpdateFails`), without which no code could answer it. In `PFairSpec` of `DepositPipeline` the
consumer polls, the worker loops and InnoDB serves lock waits in order; fetching competes with the rebalances
and waits for room, hence strong fairness. A process asked to stop is
replaced, and processes end only finitely often; nothing assumes that a rebalance or an offset commit happens. In `FairSpec` of
`Notifications` the broker delivers, the consumer and the handlers go on, and a
counter in Redis reaches the end of its five minutes; failures, crashes and the
restart after one are not fair. `CounterConverges` speaks of behaviours in which the
rows of the users stop changing.

Every `cfg` checks for deadlock: users can always do something, or a rebalance can.

Definitions marked `(variant)` in any module are not part of the specification: each is
a plausible bug, used to see that a property would notice it (`PROJECT.json`, "mutants").

## 4. What the violations say

- **match_takeover.** `GetBid` reads the slave. After one quote has set
  NEGOTIATING on the master, a second quote may still read PENDING and overwrite
  it; the flow document (docs/flows/shipper-order-flow.md:123) promises the later
  driver is told that the bid is taken. The same stale read lets a rejection or a
  quote reopen a MATCHED bid. `OneContractPerBid` and `AcceptsCurrentQuote` therefore
  except bids on which a handler acted after such a read (`slips.stale`), and
  `Lifecycle` is proved and checked only for `Lag = 0`.
- **sessions_reuse.** `RevokeAllForUser` updates the rows that exist. A refresh that
  has passed `MarkUsed` creates its row afterwards, and this session outlives the
  revocation that docs/flows/authentication-flow.md:168 says ends all of them.
- **account_repair.** `RegisterUser` writes the user and then the profile, without a
  transaction (user.go:90-110). If it is cut off in between, the profile is missing;
  at the next login with a password `ensureProfile` calls `RegisterUser` again, gets
  `ALREADY_EXISTS` for the address and returns as if nothing were missing
  (auth_controller.go:63). The comment at auth_controller.go:69 and
  docs/flows/authentication-flow.md:330 say that the next login repairs it.

Observations met while modelling that no run states:

Engine and wallet

- A crash between `UpdateBid` and the notice in `ProcessOfferQueue` leaves the bid
  soft-locked by a quote its shipper never hears of: the redelivered offer finds
  the bid taken and answers "busy".
- When `UpdateBid` fails after `CreateMatchContract`, the bid stays NEGOTIATING and
  a second accept makes a second contract and hold: `OneContractPerBid` excepts an accept
  cut off there (`slips.cut`). The deposit is requested before the contract is written
  (matching_engine.go:338-352), so an accept cut off between the two leaves a hold that
  nothing releases; `HoldHasContract` excepts that attempt and no other.
- A deposit request the producer loses goes unnoticed, as docs/flows/shipper-order-flow.md:127
  knows; `DepositRequested` excepts that very request (`slips.lost`).
- `RejectOffer` does not compare `ask_id` with `offered_ask_id`: it cancels the quote
  under negotiation and notifies the driver of the ask it names.
- `AcceptOffer` does not look at the status of the ask; one trip can be matched
  by two bids. `expires_at` is stored and never enforced. An offer for a bid that
  does not exist is Nak'd for ever.
- Two accepts of one shipper pass the balance check on the same money
  (matching_engine.go:330). docs/flows/shipper-order-flow.md:101 says that the check comes
  first so that no hold is published which is sure to be refused, and that is what
  `DepositsCovered` states: at the check the money was there, or the mock was asked. A hold
  may still be refused, for the shipper's money may go to another contract of his, or out
  through a transfer or a settled trip, before the wallet gets to the record. With the mock
  client, which the document calls the present state (:125), nothing is checked at all.
- A storage error, or any transaction that rolls back, drops the deposit: the handler
  calls every error of `HoldDeposit` non-retryable (injection.go:111), where the
  consumer's comment (consumer.go:40) expects system errors to be retried. A process that
  ends loses what waits in the channel. When the context is done the handler may return
  nil without handing the record on (injection.go:122-127), and the consumer marks it
  (consumer.go:44), although docs/services/wallet-service.md:40 counts on Kafka's
  at-least-once delivery. `HoldDelivered` excepts them by `lost`, `NoneForgotten` by
  `lost` and `dropped`.
- The amount of a deposit crosses the wire as a float of a tenth of the price and is
  truncated to hundredths (injection.go:107).
- `CreateWallet` sets neither balance nor status, which the schema requires, so the
  escrow wallet must be created by hand; the models assume it was (`Seeded`).
- `wallet_service` does not import its `ent/runtime` package; the models assume it
  is linked, as the generated code demands.
- After a hold, payment or transfer the wallets are read back by wallet id in a
  query by user id; the search index keeps the old balance. `Index` models it.
- `Transfer` takes its reference from the client and shares the inbox with contract
  ids; with equal references the later operation is a silent no-op. `deposits` has
  such a transfer, and `HoldDelivered` speaks of the other references.
- `ReleaseAndPay` has no caller in the repository. The `driver_id` of the deposit
  request carries the shipper's id.

Sessions

- A refresh repeated after a lost answer, or by a second tab, counts as reuse and
  revokes every session of the user, as documented. The row's lifetime is
  `DefaultRefreshTTL` whatever lifetime is configured for the token. `DeleteExpired`
  has no caller. `GoogleCallback` takes any error of the lookup for a new user; the
  unique key then refuses the insert.

Notifications

- After a lost connection the broker is dialled again, but `Start` has returned and
  nothing calls it again (rabbitmq.go:315): the service publishes and no longer
  consumes until it is restarted. `EventSettled` excepts a stopped consumer.
- A service that finds no broker at its start has no consumer until it is restarted
  (injection.go:112-116).
- The candidates of a cargo are asks: neither the engine (`FindAskForBid`,
  notifier.go:50-63) nor the consumer (matching_consumer.go:99-137) leaves out a driver
  met before, so one with two asks nearby gets two notifications of one event, where
  docs/flows/matching-notification-flow.md:78 speaks of one. `TakenInOnce` promises no
  more than one per entry.
- A redelivery caused by a lost connection counts as the one retry: the first
  failure after it buries the event.

Fleet

- A search reads vehicles and switches one after the other: it may return a vehicle
  that was never fit and on duty at the same instant. `FoundWasFit` says what is true.
- A vehicle back from maintenance returns to the index with its next position only.
  An inactive vehicle may go on duty. A driver who goes on duty with another vehicle
  leaves the entry of the one before.
- A position report that has read `is_online` puts the vehicle back into the index after
  the driver has gone off duty (repo.go:451-470). And it looks at nothing else: without any
  race, the next report of a driver on duty lists a vehicle in maintenance or rejected
  again, which docs/services/vehicle-service.md:57-65 says must leave the index. A search
  filters it out (`FoundWasFit`); `IndexFollows` excepts it by `relisted`.
- A driver stays on duty when the dossier is rejected later; the review of a vehicle's
  documents gates nothing.
- `SubmitKYC` stores the status it is given (kyc.go:27-39), and the gateway passes on what
  the driver wrote (kyc_controller.go:45-68): a driver can submit a dossier that reads
  "approved" and go on duty without the review that docs/flows/driver-onboarding-flow.md:12
  and :51-61 describe. `OnDutyWasCleared` therefore speaks of a dossier that read approved, and
  of a reviewer for the vehicle only.
- Two reviewers of one paper both see it pending and the later one decides. A vehicle's
  load is limited by the capacity of the cached copy.

Account

- Two calls that set a default address can leave two defaults.
- A device registered by two owners in turn, with a third call between reading and
  writing, leaves the list of the owner in between as it was.
- `ListAddresses` takes its copy whatever page size is asked for and reports the length
  of the copy as the total.
- A deleted account comes back at its owner's next login with a password. A login through
  Google calls no `ensureProfile` (auth_controller.go:247-267).

## 5. Proofs

All theorems hold for every value of the constants that satisfies the modules'
assumptions. "Extra" names what a theorem assumes beyond them.

| Theorem | Establishes | Extra |
|---|---|---|
| `MatchingProofs!Typing` | `TypeOK` | |
| `MatchingProofs!MatchedIsContracted` | `MatchedHasContract` | |
| `MatchingProofs!ContractPriceQuoted` | `PriceWasQuoted` | |
| `MatchingProofs!DepositIsRequested` | `DepositRequested` | |
| `MatchingProofs!LifecycleImplemented` | `Matching` implements `BidLifecycle` | `Lag = 0` |
| `MatchingProofs!SoldOnce` | `OneContractPerBid` | |
| `MatchingProofs!CurrentQuoteSold` | `AcceptsCurrentQuote` | |
| `MatchingProofs!HoldIsContracted` | `HoldHasContract` | |
| `WalletProofs!WalletTyping` | `TypeOK`: no negative balance | |
| `WalletProofs!WalletImplementsLedger` | `Wallet` implements `Ledger` | |
| `WalletProofs!InboxMatchesBooks` | `InboxAtomic` | |
| `WalletProofs!BooksBalance` | `Balanced`: a balance is its opening value and the sum of its entries | |
| `WalletProofs!NoDeadlockVictims` | `NoLockCycle` | `Scan = TRUE`, as the schema is |
| `PipelineProofs!PipelineTyping` | `PipelineTypeOK` | |
| `PipelineProofs!RequestsAccounted` | `NoneForgotten` | |
| `PipelineProofs!PipelineIsWallet` | `DepositPipeline` implements `Wallet` | |
| `PipelineProofs!PipelineSerialized` | `DepositPipeline` implements `Ledger` | |
| `FlowProofs!RefusalsExplained` | `DepositsCovered` | |
| `SessionsProofs!SessionTyping` | `TypeOK`: every session has an account | |
| `SessionsProofs!LoginHasOneToken` | `OneTokenPerLogin` | |
| `SessionsProofs!LogoutIsFinal` | `LogoutEnds` | |
| `SessionsProofs!AccountIsKept` | `RoleIsKept` | |
| `NotificationsProofs!NotificationTyping` | `TypeOK`: a message is in one place, the prefetch window is kept | |
| `NotificationsProofs!EventsAreKept` | `NothingLost` | |
| `NotificationsProofs!InboxImplemented` | `Notifications` implements `EventInbox` | |
| `NotificationsProofs!CounterStaleOnlyByRace` | `StaleOnlyByRace` | |
| `FleetProofs!FleetTyping` | `TypeOK`: a switch names an existing vehicle of its driver | |
| `FleetProofs!RoadWasCleared` | `OnDutyWasCleared` | |
| `FleetProofs!FoundFit` | `FoundWasFit` | |
| `FleetProofs!CopiesStaleOnlyByRace` | `StaleOnlyByRace` | |
| `FleetProofs!IndexIsFollowed` | `IndexFollows` | |
| `FleetProofs!DecisionsStand` | `DecisionStands` | |
| `AccountProofs!AccountTyping` | `TypeOK`: only what exists is copied | |
| `AccountProofs!AccountCopiesStaleOnlyByRace` | `StaleOnlyByRace` | |
| `AccountProofs!AccountIsWhole` | `WholeAccount` | |
| `AccountProofs!OneDefault` | `OneDefaultUnlessCrossed` | |

The arguments:

- **ContractInv** (MatchingInv). `MatchedHasContract` is not inductive: `MatchBid`
  flips the row of the goroutine's local copy. The invariant adds that a goroutine
  past `write_contract` has its contract in `contracts` with the ask and price of
  its local row; that one about to write its contract has published its hold, unless that
  record is on `slips.lost`; and that every row a reader can hold, in any state of `db`
  or in a local, is either without a quote or quotes a submitted offer.
  None of it speaks of fresh reads, which is why it holds for every lag.
- **LockInv**. A goroutine with a program counter inside the critical section holds the
  mutex, and its local row is the row of the master, unless a handler has acted on an
  out-of-date row of that bid. With `Lag = 0` none ever does (`NeverStale`), and each write is
  a transition of `BidLifecycle`. For every lag, `LockInv` and `ContractInv` together give
  `CurrentQuoteSold`: the row that is sold is the row that stands.
- **SaleInv**. A contract's bid is matched, or the mutex holder is about to match it, or
  its accept was cut off, or its bid is stale; so a second accept of it can begin only in
  the last two cases. `HoldHasContract` is inductive with the types: the request names the
  goroutine that will write its contract, and an end of that goroutine is recorded (`End`).
- **WalletInv**. Two transactions past the insert of their reference have different
  references (the unique key), and two transactions hold disjoint rows; so what a
  transaction has read under its locks, the balances that cover it, is still true
  when it commits, and the commit is a step of `Ledger`. `Locks` never contains
  more than `Blocks` blocks, for both values of `Scan`.
- **BooksInv**. A commit changes `balance` by `Delta` and adds `Posts` to `entries`;
  the sums agree only if what is added is new. For operations with a reference that is
  `InboxAtomic`; for deposits, which have none, `NewDeposits` carries it (`FirstDeposit`, a
  bound of the model, keeps two equal deposits apart, which the code does by a fresh
  entry id). That a sum splits over disjoint sets is a lemma about `Total`, whose
  definition is recursive and which no induction theorem can be used for: it is proved from
  a smallest finite set on which it fails.
- **LocksInv**. Where a locking read locks all it scans, at most one transaction holds
  locks, and it is blocked by nobody: so a cycle of waits has no second member.
- **PipelineInv**. `NoneForgotten` is not inductive: it needs to know whose reference
  it is that the worker's transaction finds in the inbox. `OneRequest`, `WorkerOK` and
  `ClientsOK` say which goroutine works on what, `InboxExplained` that a reference in the
  inbox is its own request's, which is then frozen, or a transfer's. A record leaves
  memory only into `lost`, `refused` or the books, and one that never was there is
  `dropped` until the process ends. Each step of the
  pipeline is a step of `Wallet` or leaves it alone, and so `Ledger` follows
  from `WalletImplementsLedger`.
- **FlowInv**. `DepositsCovered` is about the end of a request, but the money is seen two
  steps before. `Seen` says that the balance `AcceptOffer` has checked is there while it is
  about to publish, unless the mock vouched for it or the shipper's money has gone;
  `Backed` says the same of every request not yet handled, where what has gone is another
  contract of the shipper or money another operation took. It holds for every lag, since the
  price checked is the price published, which `ContractInv` keeps positive.
- **SessionInv**. `OneTokenPerLogin` is not inductive: the goroutine between
  `MarkUsed` and `Create` has a token nobody sees yet. The invariant counts it: while
  a goroutine is about to issue a token in exchange, every token of that login is
  used, and no other goroutine is about to issue one for it. `MarkUsed` keeps this
  since its condition is part of the update. For
  `LogoutEnds` it says that a row revoked before its exchange stays unused, while a
  row that has a successor is used.
- **DeliveryInv** (NotificationsInv). `NothingLost` is not inductive: `Ack` removes the
  message. `HandlerOK` says that a positive answer is given for an event that is
  unusable or in the inbox, and `ChannelOK` that, while the channel is open, what the
  consumer holds is what the broker keeps unacknowledged: so a negative answer moves
  the message to the queue or to the dead letters, and a closed channel gives
  everything back. That an event not in the inbox has no notifications, and that the rows
  kept so far and the entries left never exceed those of the event, makes the
  transaction a step of `EventInbox`.
- **RoadInv** (FleetInv). `OnDutyWasCleared` is about the switch, but the permission
  travels: `ClearedOK` follows it through the caller's local state (dossier checked, row read, copy
  stored, switch about to be written) and through the copies, since a
  stale copy may grant what the row no longer does. `PapersOK` says that nobody is
  still about to write a paper whose decision had no rival. `SearchOK` bounds what a search has kept so
  far by what was fit, or on duty, since it began; it is kept by a lemma about how far
  a step can take a search, apart from the tables' own invariant. For copies and
  index the invariant is the property itself: each writer leaves a pending deletion or an
  excuse behind, and an addition of a vehicle that should not be listed is one of
  `strayed` or `relisted`.
- **AccountInvariant** (AccountInv). `StaleOnlyByRace` and `WholeAccount` are inductive
  together with `TypeOK`: each writer leaves a pending deletion or an excuse behind, and
  what does not exist has no copy. `OneDefaultUnlessCrossed` is not: between the two
  statements nothing tells that the flags are cleared. `DefaultsOK` adds
  that, while no two calls that set a default have crossed, there is at most one such
  call, and one that is past clearing finds no default but the address it writes.

Only model-checked: liveness (`OfferAnswered`, `MutexReleased`, `HoldDelivered`,
`EventSettled`, `CounterConverges`), since fairness and ENABLED are beyond the prover.
Every other property of a passing run is stated by a theorem.

## 6. Not modelled

- Generated code, which is most of the repository's lines: the `ent` clients
  (`*/ent/*.go` outside `schema`) and the protobuf and gRPC stubs (`api/`). They are
  made from the schemas and `.proto` files and contain no logic of this system; the
  models take a statement or a message as one step that may fail, and read the schemas
  for unique keys and defaults. A module about them would be about the generators.
- Scoring and geohash arithmetic: binary floating point, which TLC cannot evaluate. The
  engine's model lets it choose any rows, so what is checked does not depend on it.
- The deposit amount's path from price to float to hundredths, for the same reason.
- HTTP translation in the gateway (one gRPC call per request, no state), the signing
  and verification of tokens, pre-signed URLs, mail and push transports, search
  queries, notification templates and texts, and the documentation tools.
- Time: lifetimes of tokens and copies appear as steps that may happen
  at any moment.

## 7. What is left

`Notifications` composed with the engine's notices, now published by an arbitrary
sender.
