# NetTapu in TLA+

Models, model-checking configurations and machine-checked proofs for the part of
NetTapu where time, money and several processes meet: bidding on an auction,
ending it, administering it, settling the deposits of its participants, paying
and refunding, getting events and notifications out, and keeping a browser
signed in.

Paths are relative to the repository. `A/` stands for
`apps/auction-service/src/modules/auctions/`, `M/` for
`apps/monolith/src/modules/`, `DB/` for `database/migrations/`.

Contents: [inventory](#1-the-system) · [modules](#2-the-modules) ·
[runs](#3-the-runs) · [fairness](#4-fairness) · [proofs](#5-the-proofs) ·
[findings](#6-where-the-code-and-its-documents-disagree) ·
[limits](#7-what-is-not-modelled) · [plan](#8-plan)

## 1. The system

Two NestJS services over one PostgreSQL database and one Redis. The *monolith*
has users, listings, payments, campaigns and content; the *auction service* has
everything about auctions. Both run as several replicas; within a replica
JavaScript's single thread lets another request run at every `await`.

| component | where | state it keeps | operations | talks to |
|---|---|---|---|---|
| Bidding | `A/services/bid.service.ts` | `auctions.auctions` (price, count, end), `auctions.bids`, `bid_rejections` | `placeBid`, 15 phases | Redis lock, row lock, outbox |
| Redis locks | `A/services/redis-lock.service.ts` | `bid:lock:auction:*`, `auction:ending:lock:*`, `auction:settlement:lock:*`, all with a TTL | `acquire` (SET NX PX), `release` (compare and delete) | every worker and bid |
| Ending worker | `A/workers/auction-ending.worker.ts` | status, winner, final price | `tick` every second: LIVE→ENDING, ENDING→ENDED in two transactions | row lock, outbox, gateway |
| Administration | `A/services/auction.service.ts` | the same row | `create`, `updateStatus`, `remove` | trigger of `DB/020` |
| Gateway | `A/gateways/auction.gateway.ts` | rooms and rate limits in memory | `place_bid`, `admin_extend_time`, broadcasts | Bidding, the row |
| Settlement | `A/services/settlement.service.ts`, `A/workers/settlement.worker.ts`, `A/controllers/admin-settlement.controller.ts` | `settlement_manifests`: one row per auction, its items in a JSON column | initiate, pass over a manifest, finalise, expire, escalate, retry | Deposit lifecycle |
| Deposit lifecycle | `A/services/deposit-lifecycle.service.ts` | `payments.deposits`, `payment_ledger`, `refunds` | capture, refund | POS client |
| POS client | `A/services/payment.service.ts` | circuit breaker in memory | `captureDeposit`, `refundDeposit`, 5 s timeout | provider |
| Outbox | `A/services/outbox-writer.service.ts`, `A/workers/outbox-relay.worker.ts`, `A/events/consumers/` | `event_outbox`, a PostgreSQL advisory lock | `write` in the business transaction; `tick` relays a batch, retries, gives up | viewers' sockets, the monolith's notification queue |
| Payments | `M/payments/services/payment.service.ts`, `pos-callback.service.ts`, `reconciliation.worker.ts` | `payments.payments`, `pos_transactions`, `deposits`, ledger | `initiate`, `processCallback`, `verifyBankTransfer`, `capture`, `cancel`, reconciliation `tick` | provider, the buyer's browser |
| Refunds | `M/payments/services/refund.service.ts` | `payments.refunds` | `initiateRefund` in three phases | provider |
| Notifications | `M/notifications/` | `crm.notification_queue` | `enqueue`, `poll`, `processNotification` | e-mail, SMS and push providers |
| Sessions | `M/auth/auth.service.ts`, `apps/web/src/lib/api-client.ts`, `apps/web/src/providers/auth-provider.tsx`, the web's refresh route | `auth.refresh_tokens`; two cookies; each tab's token and queue | login, refresh with rotation, revoke all | API calls of the pages |
| Cluster | `packages/shared/src/cluster/` | worker ids | forks workers, replaces the dead | which process runs background workers |
| Users, listings, campaigns, CRM | `M/auth`, `M/listings`, `M/campaigns`, `M/crm` | a table or two each | create/read/update/delete | database |
| Triggers | `DB/011`, `DB/012`, `DB/020`, `DB/027` | none | refuse illegal status changes, edits of an outcome, edits of append-only tables | every writer |

**What makes it hard.** A Redis lock whose TTL is shorter than the work under it, so
that it may be lost while its holder continues. State read before a lock and
used after it (the price a bidder was shown, the status a worker polled, an
entity `save()` writes back, a manifest loaded before its lock). Calls to the
provider between a read and the transaction that records them. Crashes between
two transactions of one job. Retries of what may have happened already.
Administrators acting on the same rows without a lock. A session-level database
lock on whatever connection the pool hands out. Refresh tokens that are good
once, in a browser where several calls notice at once that they need one.

**What makes each component correct.**

- *Bidding and ending*: bids rise by the increment and stop when the auction
  does; the row, which caches the bids table, agrees with it; the outcome is the
  highest bid; who was told "accepted" has a bid; the outbox alone tells the
  whole story; every live auction is ended.
- *Administration*: a stopped auction does not reopen; it is cancelled or sold,
  not both.
- *Settlement*: the winner's deposit is captured and the others refunded, once;
  deposits, ledger, refund records and provider agree; an acknowledged item is
  done; "settled" means paid; every ended auction is settled or given to a
  person.
- *Outbox relay*: every event leaves the outbox; "processed" means shown and
  posted; none is given up early; viewers first see events in order.
- *Payments and refunds*: the provider is asked for a payment's money once; books and
  provider agree; a place in an auction stands against money; what is stuck, and can be
  found, is; refunds are paid once and never promise more than was captured.
- *Notifications*: "sent" is true; none is given up early; none is forgotten unless a
  process died.
- *Sessions*: a page that is denied several times at once refreshes once and is
  not signed out for it; one sign-in is one session; every call is answered.

## 2. The modules

| module | models |
|---|---|
| `EnglishAuction` | abstract: what an auction promises its bidders |
| `LiveAuction` | the row, bids, outbox, both Redis locks, every `placeBid`, every ending worker, a Redis that may fail; implements `EnglishAuction` |
| `AuctionAdmin` | extends `LiveAuction` with `updateStatus`, `admin_extend_time` and the trigger |
| `DepositEscrow` | abstract: what settlement promises the depositors |
| `Settlement` | the auction's status, deposits, ledger, refunds, provider, manifest, every settlement worker, the retry endpoint; implements `DepositEscrow` |
| `OutboxRelay` | relays, the advisory lock on a pool, the outbox rows, both consumers, the notification end point, the cluster's restarts |
| `PaidPlaces` | abstract: what taking payments promises buyers and the auction |
| `Payments` | `POST /payments`, the provider, the buyer, callbacks, administrators, the reconciliation worker; implements `PaidPlaces` |
| `RefundBudget` | abstract: what refunding promises |
| `Refunds` | `POST /refunds` and the provider, for one captured payment; implements `RefundBudget` |
| `Notifications` | the notification queue, its dispatchers and a provider |
| `Session` | one browser: tabs, API calls, the two cookies; the server's refresh tokens |
| `MCLiveAuction`, `MCAuctionAdmin`, `MCSettlement`, `MCOutboxRelay`, `MCPayments`, `MCRefunds`, `MCNotifications`, `MCSession` | instances for TLC |
| `LiveAuction_proofs`, `AuctionAdmin_proofs`, `Settlement_proofs`, `OutboxRelay_proofs`, `Refunds_proofs`, `Notifications_proofs`, `Payments_proofs`, `Session_proofs` | the theorems |

**Steps.** A transaction that takes a row lock (`SELECT … FOR UPDATE`) is one step
from taking the lock to its COMMIT: no other transaction sees the row in
between, and what failing in the middle leaves behind is what failing at the
start does. Everything outside is cut wherever the code awaits something another
process can change: `placeBid` is Submit (phase 0), TakeBidLock (1), Begin (2–3),
Place or Reject (4–13), ReleaseBidLock (14); a settlement item is Visit (the deposit
is read), InitiateRefund, CallPos, Record, SaveItem.

**`LiveAuction`.** `req[r]` is a call, with the reference price its bidder was
shown and the time its transaction began, which is what `NOW()` returns until it
ends. `Keys` are idempotency keys: an attempt of one bidder at one amount, and calls
with the same key are its retries. Consents, deposits and bans, which do not
change during a bid, are the constant set `Eligible`. A bid's id is its place in
`bids`. A lock belongs to a request or worker and is lost whenever the
TTL runs out (`ExpireBidLock`, `ExpireEndLock`). `Die` is a process that dies or a client
connection that does.

**`AuctionAdmin`.** `updateStatus` is three steps because TypeORM's `save()` is two:
a second SELECT, against which the entity's columns are compared, and an
UPDATE of those that differ. Columns that a bid or the worker changed since the
entity was read differ too, and are written back. The trigger is
`TriggerAllows`. The client's version is compared once, when the entity is read, and
is left out.

**`Settlement`.** `worker[w].copy` is the manifest entity in a worker's memory: read
by `Load` before `LockToProcess`, changed by `Mark`, written whole by `SaveItem`,
`Finalize` and `GiveUp`. Here `save()` is one step: its diff can only write fewer
columns of a copy that is already arbitrarily old. The provider is `pos`, the
set of what it has done: it knows its payment reference and does a thing once (the
adapters pass no idempotency key on), and "No" is a refusal, an open breaker or a
lost reply, with the thing done or not. Deposits in the items are those `held` when
the auction ended; `Collected` are those nobody ever moved there. The 48 hours
are one event; that a manifest has over 500 items is a flag. Redis failing is
`Die`: the tick is over.

**`OutboxRelay`.** `relay[r]` is a tick: its place in the code and its batch, whose
copies carry the attempts the SELECT saw; `Mark` writes the row by its id whatever it
has become, with the copy's count plus one. The advisory lock belongs to a connection,
so here to a process: `TryLock` succeeds again for the process that leaked it (its pool
may hand out that connection), `Unlock` may miss, `CloseIdle` and `LoseLock` end it. A
connection other than the leaked one refuses, which is a tick that does nothing.
`Post` is accepted, refused, or accepted and not heard in five seconds. `told` is what
was accepted; a post without a user, for "everyone", is accepted and then dropped, so
`Notified` is less. An ended auction without a winner is posted to nobody. The
events are the input that `LiveAuction`'s outbox ends with; `Kinds` fixes them in sequence
order, and `OutboxTellsTheRow` of `LiveAuction` says what they are.

**`Payments`.** A payment, its ledger entries and its idempotency key are written
together and are one value of `Payment`. `req[r]` is a `POST /payments`: fast path,
phase 1, the provider's call with no lock held, the transaction that records the answer.
`pos` is what the provider has done, `booked` the payments with a `pos_transactions`
row, `deposit` who has each user's place in an auction. The insert of a second deposit for one place fails
inside the transaction; PostgreSQL has then aborted it, and its COMMIT rolls
back: `Book` changes nothing. Capture and cancellation hold the row lock over the call. A
reconciliation tick takes the advisory lock, as leaky as the relay's, reads two batches of the
`BatchSize` oldest stale payments (`Oldest`; `line` is their order), and of each copy asks the
provider and applies the answer in two steps, the second under the row lock. `Finds` says which of them
the adapter is able to find: the mock gateway both, PayTR neither, iyzico those it sends the id of.

**`Refunds`.** One payment, its refunds and its `POST /refunds`; amounts are whole units, as
the code counts in cents. "Die" is a process that dies or a last transaction that fails,
whose error is logged and swallowed.

**`Notifications`.** A dispatcher's copy may be of any age: the poll's batch is worked off row by
row, without a lock, by every process of the monolith. `BecomeDue` is the backoff.

**`Session`.** An access token and a refresh token issued together share a number. Between
two awaits a tab's JavaScript is one step; the server's refresh is a step for each query
(`LookUp`, then `RevokeAll` or `Rotate`, `CheckUser`, `Issue`), with no lock between them. `flight` is the
client's side and `job` the servers': `BreakOff` ends the first and not the second, and the
answer's cookies may have come or not. The route deletes the cookies on any answer but a success
(`TakeCookies`), whether the token was replayed, had expired after its seven days, belonged to a
deactivated account, or the API refused for a reason of its own (`ApiFails`: the throttle, a failed
query). `overlap` remembers that two refreshes met which no queue keeps
apart (two tabs, or a call and a page load), of which the second use of a refresh token
revokes every session; `raced` that two passed the look-up with one token.

Definitions whose comment begins "A seeded bug" are not part of any
specification: they are the mistakes each property has been shown to notice.

## 3. The runs

`tlc -workers 2 -config MCX_name.cfg MCX`. All passing runs end within a minute
or so on two workers.

| run | asks | instance | result |
|---|---|---|---|
| `bidding` | is it one English auction, do row and bids agree, is "accepted" durable? | 3 calls of 2 attempts (one retried), 2 amounts, 1 worker, clock 0–2, extension 2, window 1 | holds |
| `ending` | is it ended, once, whatever fails, and does the outbox tell it? | 2 workers, 1 bid in the window, 2 failures among worker errors, crashes and Redis outages, clock 0–3 | holds |
| `racing` | what survives administrators' stale copies; do bids come before the end in the outbox? | 2 commands, 2 calls (one by an outsider), 1 worker, from "scheduled" | holds |
| `settling` | do money, books and manifest stay true; is it an escrow? | 2 workers, winner and a loser, 2 tries, 1 item per tick, 1 failure | holds |
| `escalating` | is every settling auction where the workers look, and every ended one settled or handed over? | 2 workers, 1 item, a collected deposit, expiry, oversize, 1 failure, 1 manual move | holds |
| `paying` | do books, provider and places agree, is the provider asked once, is what is stuck and can be found resolved, is it all one book of paid places? | 2 payments for one place (one a transfer), 2 requests, 1 reconciliation worker with batches of 1, 1 mishap | holds |
| `refunding` | is a refund paid once, is the captured amount never exceeded, is it one budget? | 3 refunds of 1 or 2 of 3 units, 4 requests | holds |
| `relaying` | does every event leave, at least once, in order, with its attempts counted, for good? | 2 relays, 2 events, 2 attempts, 1 mishap | holds |
| `mailing` | is "sent" true, is every row dealt with, are few forgotten? | 2 dispatchers, 2 rows, 2 attempts, 1 mishap | holds |
| `refreshing` | does one tab's queue keep the session, and one session only, is every call answered? | 1 tab, its load and 2 calls, 1 mishap | holds |
| `frozen` | is the outcome frozen once ended? | 1 call, 1 worker, 2 commands | violated |
| `clustered` | does every event leave in cluster mode? | 1 worker, 1 crash, the events of an auction nobody bid on | violated |

Each property is in the run where it is hardest to keep. Every module states its type invariant and
the proofs keep it for all instances; only `bidding` lists one (`TypeOK` of `LiveAuction`).

**Why these bounds.** Two bidders and a retry are enough for every order of two
transactions past a lost lock, and of a retry against its first call. The clock
has a value before, at and after the end, and room for one extension. Two
workers are enough for any stale copy: a third could only save another copy of
the same kind, and the proofs cover any number. Two tries and one item per tick make
failing once, failing for good and finishing in a later tick all happen; the
code's three tries and five items are not different in kind. Failures are bounded
by `MaxFaults`, an administrator's moves by `MaxMoves`, the clock by `MaxTime`. The
provider's refusals and lost replies and the expiry of locks are unbounded.

Two requests and two payments for one place are the least that race for a key and for a
place. Refunds of one and two units fill three in every order. One mishap can be a crash, a failed query
or a lost lock at any step, and the leak of the advisory lock is unbounded; two relays
overlap whenever it is lost, and the proofs cover any number. Two notification rows are in
one batch, so that a mishap on one shows what becomes of the other. A page load is to a tab's calls what another tab would
be: a refresh their queue knows nothing of. `MaxMishaps` bounds what goes wrong in
`OutboxRelay`, `Payments`, `Notifications` and `Session`; access tokens expire whenever they like, and refresh tokens
once their access tokens have. A batch of one is enough for payments that stand in each other's way, and two
payments for every order of them. One broken connection is enough for a tab to race what it gave up on: that
refresh is served on, and the next denied call's meets it.

**What holds is not obvious.** In `bidding` the lock may be lost at any time, so that two
requests are past it at once; it is the re-read of the price under the row lock
(phase 8) that keeps bids rising, and dropping it is the mutant. In `settling` a
replica may save a copy from before the other did anything; acknowledgements
stay true only because deposits never go back, and the books stay single only
because each record re-checks the deposit's status under its row lock. In `relaying` two relays may
hold the same events in stale batches; order survives because the batch is sorted
and a failed event was shown before it failed. In `paying` a verdict may be older than
a callback; the status is read again under the lock, and dropping that is the mutant.

Symmetry: replicas, administrators' commands or retries of one key are
interchangeable and used only in runs without liveness. Deadlock is not checked:
requests are answered, the clock stops at its bound and a settled auction leaves
nothing to do.

## 4. Fairness

Weak fairness, and only where something in the code or its platform keeps trying:

- a worker's step: `setInterval` calls `tick` for ever (1 s for ending, 5 s for
  settlement and the like for the relay, dispatchers and reconciliation), a tick that failed is logged and the next one starts, and a provider
  call ends within its timeout;
- the expiry of a Redis lock: it is set with PX;
- for the relay, that thirty seconds pass (`GrowStale`) and that an interval falls again on a
  connection that can have the lock (`TryLock`);
- for reconciliation, the same two: a tick that has begun goes on (`TickStep`) and the interval falls on a
  connection that can have the lock (`TryLock`); nothing makes a payment get into a batch,
  which is why `Stuck` asks that it is among the oldest;
- for a browser, that a request that was made is served and its answer handled;
- Redis returning: ioredis reconnects by itself;
- the clock.

Nothing is assumed of bidders, buyers, callbacks, who may never come, administrators, the provider's answers (it may refuse
for ever) or the 48 hours. Failures are finite because a process that crashes
for ever does nothing.

## 5. The proofs

Checked by TLAPS for all values of the constants that satisfy the named
assumptions: `ConstantsAssumption`, `AdminAssumption`, `SettlementAssumption`,
`NoManifestAssumption` (the marker `None` is not a manifest), `RelayAssumption`,
`RefundsAssumption`, `NotificationsAssumption`, `PaymentsAssumption` and
`SessionAssumption`. They say that amounts,
times and bounds are numbers, that the increment is positive (checked in the
database) and the like. That an extension is as long as the window is not assumed,
except by the two theorems that need it (`Refinement` and `SniperExtendsWhenLongEnough`); that no
administrator moves a settlement by hand only where a theorem says so (`MaxMoves = 0`).

- `LiveAuction_proofs`: `TypeCorrect`, `BidsRiseAlways`, `RowMatchesBidsAlways`,
  `AcceptedIsDurableAlways`, and `Refinement`: with `SniperExtension >=
  SniperWindow`, `LiveAuction` implements `EnglishAuction`. The invariant is
  inductive only as a whole. The worker's choice of a winner has a type, and is the
  last bid, because the bids rise (`TopBidIsLast`); they rise because the price a bid
  is compared with is the last bid's (`PriceIsLastBid`); and a request that has
  begun knows when (`BegunIsDated`). `BidsAreOffers` is what the refinement needs: an
  attempt cannot be counted twice, since its amount is taken. `OutboxTellsTheRowAlways`
  is apart: it counts the places of each event (`Told`), and a step that appends one
  adds one place (`AtAppend`, `PlaceEvents`). `SniperExtendsWhenLongEnough` is the other half of a
  disagreement of section 6: with that hypothesis no bid brings the end forward.
- `AuctionAdmin_proofs`: `StoppedForGoodAlways`, `AdminTypesAlways`, `CancelledSellsNothingAlways`,
  `OutboxTellsTheBidsAlways`. For the first the trigger is the only guard; the rest is that the row keeps its columns whoever
  writes it. For the others bids need not rise, since an administrator's copy may lower the price; a
  highest bid exists all the same (`HasTop`). A winner or an announced result is found
  only in a row that was ended, and a copy that names a winner was read from one
  (`WinnersAreClosed`, `EntitiesAreRows`); from there the trigger allows no cancelling. What the outbox tells
  of the bids is proved once for the steps of `LiveAuction` (`BidsTold`), and holds under administrators
  because no stale copy reopens an auction after its ending was announced (`EndingsComeLast`).
- `Settlement_proofs`: `SettlementTypeCorrect`, `BooksAlwaysMatch`,
  `AcknowledgementsAreTrue`, `SettledAuctionsArePaid`, `SettlingIsWatchedAlways`, and
  `SettlementIsAnEscrow` and `HeldDepositsAreAllSettled` (if no administrator moves the status by hand). The
  invariant says of every copy, however old, what it says of the row: what is
  acknowledged is done, and what is pending has a retry left (`ItemsOK`). It is kept by any
  save because deposits and the provider's record only advance (`Advance`,
  `ItemsAdvance`, `ReplicaAdvance`), and they do because each deposit goes one way
  (`OneWay`). `NothingYet` is why a manifest lists exactly what was held.
  One lemma per action; the quiet ones share `QuietStep`, `QuietMark` and
  `QuietRest`, the saving ones `RowStep`. No settling auction is stranded because a copy was read from an
  active manifest and never changes its status (`CopiesAreActive`), whoever saves it, and a step that writes
  another status ends the settling in the same transaction.

- `OutboxRelay_proofs`: `RelayTypesAlways`, `AtLeastOnceAlways`, `GivenUpLateAlways`,
  `FirstSeenInOrderAlways`, `AttemptsCountedAlways`, `FinishedForGoodAlways`. What a tick
  and a row know of the past (`TickKnows`, `RowKnows`: what was shown, which posts were accepted, how many
  deliveries were started) stays true because the past only grows (`Grows`); so a copy
  may be of any age and any number of relays may hold it. Order needs more: while nothing
  went wrong the lock keeps ticks apart (`OneTick`), a batch leaves out no earlier event nobody saw
  (`BatchesInOrder`), and what is no longer pending was seen (`TakenIsSeen`). So
  is the count of attempts exact, and what is finished final: until something goes wrong a copy says what its
  row says (`Current`).
- `Refunds_proofs`: `RefundTypesAlways`, `PaidOutOnceAlways`, `NeverOverCommittedAlways`,
  `StatusTellsTotalAlways`, and `RefundsAreABudget`: `Refunds` implements `RefundBudget`. A key is opened once,
  so one request at most is past `Open` with it, and the provider has not been asked before. The totals are sums
  over finite sets of refunds; what adding, removing or changing one does to them is proved from the sum's defining
  equation by way of a smallest set for which it fails, since an induction theorem cannot be cited.
- `Notifications_proofs`: `NotificationTypesAlways`, `SentWasMailedAlways`,
  `GivenUpLateAlways`, `FewAreForgottenAlways`: a copy's count is at most the times the row was taken
  up, and each row left in "sending" with nobody at it has a mishap of its own to account for it.
- `Payments_proofs`: `PaymentTypesAlways`, `AskedAtMostOnceAlways`, `BooksMatchProviderAlways`,
  `SeatsMatchPaymentsAlways`, `TriggerNeverFiresAlways`, and `PaymentsArePaidPlaces`: `Payments`
  implements `PaidPlaces`. Every step makes only allowed moves of a
  payment, of the provider, of the records and of the places (`RowMove`, `PosMove`,
  `BookedMove`, `DepositMove`), and such moves keep what is claimed. One request at most is past phase 1
  with a key (`Asking`). A reconciliation worker's verdict may be out of date, but what it says of the
  provider stays true (`WorkerKnows`) and the status is read again. The refinement has one
  lemma for each kind of step (the row alone, the row and its place, the provider alone, both under the
  row lock).
- `Session_proofs`: `SessionTypesAlways`, `SessionSurvivesAlways`, `OneSessionAlways`, `QueueHasAnOwnerAlways`. A tab's
  calls refresh one at a time (`OneRefresh`); while no other tab or page load met them (`Apart`) and nothing went
  wrong, the refresh in the air is the only one served (`Attended`), and carries the cookie's token, which is good or past its
  seven days (`Kept`) until it is rotated, and then the new one is (`Good`). For one session only, none of that is
  needed: unless two look-ups passed with one token, at most one token is good or about to be issued
  (`Single`), whoever refreshes and whatever breaks.

Only model-checked: the liveness properties (`AuctionGetsEnded`, `EndedGetsSettled`,
`StuckGetsResolved`, `EventsLeave`, `RowsAreDealtWith`, `CallsSettle`), because the
provers do not reason about `ENABLED`, and the violations. Every invariant, action property and
refinement of the passing runs is a theorem.

## 6. Where the code and its documents disagree

Two are runs that must fail, and findings in `PROJECT.json` with the lines they quote.

- `frozen`: a status saved from a copy read before the auction ended erases winner
  and final price; migration 020 freezes them only from "settling" on. The same
  write-back puts an old price back over a bid.
- `clustered`: a crashed cluster worker is replaced under an id that does not run the
  background workers; nothing relays, ends or settles from then on.

Further disagreements are stated as properties of the modules, which do not hold and which no run
lists. To see one, check the property alone with the instance named:

| property | instance | what the code does |
|---|---|---|
| `SniperExtends` of `LiveAuction` | `bidding` with `SniperWindow = 2`, `SniperExtension = 1`, `ScheduledEnd = 2` | the new end counts from the bid (`A/services/bid.service.ts:361`), so it may come forward; never when the extension is as long as the window (`SniperExtendsWhenLongEnough`) |
| `RetryIsRecognised` of `LiveAuction` | `bidding` | the look-up of phase 3 runs before the row lock; a retry waiting there is refused for the price its first call set |
| `WinnerIsHighestBid` of `AuctionAdmin` | `racing` | an administrator may end an auction by hand; no winner is chosen and the worker never returns |
| `RetryIsAccepted` of `Settlement` | `settling` with `MaxMoves = 1` and the provider refusing | the retry endpoint asks for a transition migration 020 forbids |
| `EveryDepositSettled` of `Settlement` | `escalating` | deposits still "collected", which may bid, are skipped; the auction is called settled. With every deposit held it is true (`HeldDepositsAreAllSettled`) |
| `ManifestStaysCompleted` of `Settlement` | `settling` without failures | manifests are loaded before their lock; a replica saves a completed one back to "active" |
| `HeldMoneyIsFound` of `Payments` | `paying` | "the reconciliation worker correctly identifies stale payments" (`docs/pre-production-validation-audit.md:823`), but only the oldest 50, and rows the provider does not know stay among them for ever |
| `ParticipantsAreTold` of `OutboxRelay` | `relaying` | the consumer posts without a user what is for losers and participants (`A/events/consumers/notification-event.consumer.ts:115-121`), and the monolith drops it (`M/notifications/notification.service.ts:271`) |
| `GoodCookieKept` of `Session` | `refreshing` | any answer of the API but a success deletes the cookies (`apps/web/src/app/api/auth/session/refresh/route.ts:57`) |
| `NeverTwoGood` of `Session` | `refreshing` | the look-up of a refresh token and its revocation are two queries with no lock (`M/auth/auth.service.ts:151-176`) |

And some are visible in a definition: `Book` of `Payments` rolls back where the comment at
`M/payments/services/payment.service.ts:473` says "Log but don't fail the payment"; `Resolve`
provisions a payment without a deposit or a `pos_transactions` row, after which `Capture` and `Cancel` refuse
it; `AskStatusInVain` lets a network error expire a payment whose money is held; `Abandon` of
`Notifications` leaves a row in "sending" that nothing looks for; what
`Notified` of `OutboxRelay` leaves out of `told` is dropped with an answer that says "queued".

## 7. What is not modelled

`PROJECT.json` lists every component with its status and reason, and the
hazards no property covers.

- Broadcast rooms, presence and rate limits, which no later step reads; the circuit breaker's clock (an
  open breaker is a refused call); the limit of ten live auctions and
  `MAX_MANIFESTS_PER_TICK`, which count other auctions' rows; amounts of deposits, which
  nothing computes with; `deposit_transitions`, written with every ledger row in the same
  transaction.
- Listings, reservations, offers and campaigns: reads, checks and saves with no lock or constraint between
  them. The properties one would state (three reservations at most, the last prize once, an
  accepted offer stays so) hold of no interleaving, and a model would only restate that.
- The live feed of the web pages: it joins with a snapshot and applies broadcasts that may be
  older; the page shows what came last, and nothing acts on it but a bid's reference
  price, which is any price in `LiveAuction`.
- Consents, reconciliation reports, land-registry queries, content, analytics, user interfaces, deployment: no
  protocol between steps.
- PayTR's capture and cancellation adapters, which report success without calling anyone:
  `BooksMatchProvider` is about a provider that does what its answers say.
- Two tabs of one browser: `Session` has any number, the run has one (a second one's refreshes are like the
  page load's).

`AuctionAdmin` and `Settlement` meet at the status: the first ends
where an administrator moves an ended auction on, which is `MoveStatus` in the
second.

## 8. Plan

Done, in order: `EnglishAuction`, `LiveAuction`, `AuctionAdmin`, `DepositEscrow`,
`Settlement`, `OutboxRelay`, `Payments`, `Refunds`, `Notifications`, `Session`, the abstract
`RefundBudget` and `PaidPlaces`, and the proofs above.

Left: a circuit breaker with its clock, to say how fast an open one uses up a
manifest's retries.
