# flash-sale: formal model

TLA+ modules, TLC configurations and TLAPS proofs for the flash sale: its
server, its browser client and its stress harness. Source references are relative
to `server/src/` unless they start with another top-level directory (`client/`,
`stress/`, `db/`, `docs/`). `PROJECT.json` holds, for every definition,
the lines it translates; the hazards at their lines; the runs; the mutants.

## 1. Inventory

The sale: a bounded window `[startTime, endTime)`, a bounded stock, one unit per
buyer, a buyer being a canonical e-mail address. Several API instances share one
Redis and one MongoDB. Redis decides; MongoDB only keeps the audit trail.

| Component | State | Operations | Talks to |
|---|---|---|---|
| Order path: `routes/order.ts`, `services/order.ts`, `adapters/redis/orders.ts`, `order.lua`, `client.ts` | `stock:{saleId}:remaining`, `orders:{saleId}:users`, Redis' script cache; per instance one pipelined connection | `POST /order`, `GET /order/:email`, the order script, the membership probe, per-command timeout, `NOSCRIPT` fallback | Redis (EVALSHA, EVAL, SISMEMBER), XADD and PUBLISH not awaited |
| Write-behind audit: `adapters/redis/order-queue.ts`, `worker/`, `adapters/mongo/bulk-audit.ts` | stream `queue:orders`, its consumer group and pending lists; collections `users`, `orders`, `orderlines` | enqueue, create group, read pending, read new, five-phase bulk write, ack, back off, stop | Redis, MongoDB |
| Boot: `bootstrap.ts`, `adapters/redis/migrate.ts`, `reconcile.ts`, `adapters/mongo/sale-bootstrap.ts` | the same two keys, the v1.0 flat keys, `sale.stockQuantity` | flat-key migration, warm/cold gate, rebuild | Redis, MongoDB; runs before `listen()` |
| Sale events: `services/sale-events.ts`, `routes/sale.ts`, `adapters/redis/events.ts`, `services/sale-status.ts`, `adapters/redis/stock.ts` | per instance: registered streams, pending emit, promise chain, `sawTerminal`, subscription; per stream: the buffer; window timers | connect, domain event, emit, heartbeat, close all, window open and close | PSUBSCRIBE, PUBLISH, GET of the stock key |
| Sale resolver: `middleware/sale-resolver.ts` | slug cache with a TTL | resolve | MongoDB |
| Status hook: `client/src/hooks/useSaleStatus.ts`, `client/src/api/sale.ts` | the `EventSource`, channel, status on screen, watchdog, reconnect, poll and connect-deadline timers | open, frame, error, poll, re-sync, refetch, 404, unmount | SSE stream, `GET /status` |
| Order hook and page: `client/src/hooks/useOrder.ts`, `client/src/api/order.ts`, `client/src/pages/SalePage.tsx` | the in-flight and mounted refs, phase, verdict, field error | submit, settle, give up after ten seconds, close, type | `POST /order`, the status hook |
| Stress harness: `stress/run.ts`, `reset.ts`, `verify.ts`, `k6-order.js` | the phase, the verifier's samples, the saved window, the scores of the burst | seed, stop, wipe, start, burst, verify, close and reopen the window | containers, Redis, MongoDB, the API |
| Seeding: `db/scripts/seed-db.ts` | collections, `stockQuantity`, the window | upserts | MongoDB |
| Catalogue, listing, routing, payment no-op, config, models, UI | none of interest | reads, parsing | |

### What is hard, and what makes each part correct

- **Order path.** Commands of many instances interleave; a timeout answers 503
  while its command stays on the wire and may still commit; the clock is read
  before the await; a connection loss drops some suffix of what was written.
  Correct means: at most `Stock` buyers accepted, each at most once; the counter
  and the set agree; every answer is true; a buyer who was told of the order is
  never refused later; nobody is enqueued twice; `sale.sold_out` goes out once
  and not early; every request is answered.
- **Write-behind.** Crash between any two awaits, unordered bulk writes that apply
  a part and fail, redelivery, trimming, two workers, changed consumer names.
  Correct means: acknowledged implies durable; no entry of the stream is lost
  track of; no two workers write one entry; rows are neither duplicated nor
  dangling; every entry is eventually persisted.
- **Boot.** Crash between any two calls of a migration and a rebuild that are not
  transactions, against instances already serving. Correct means: the sentinel
  never stands beside an incomplete set; nothing is sold twice; a warm boot
  touches nothing; a restarted fleet comes to serve.
- **Sale events.** Events of several publishers and timers are coalesced, some are
  never published, and frames are composed from reads that overtake each other.
  Correct means: once all is quiet, every open stream shows the present state;
  a sold-out sale is shown as such even if every event is lost; no stream goes back
  to an older state.
- **Status hook.** Stream, polls, deadline, watchdog, reconnect and re-sync race, and
  an answer may come after the state that asked for it is gone. Correct means: the
  page is never left without a stream or a timer; an open stream is the sole
  writer; a 404 is final; once all is quiet the page shows the sale as it is, unless
  the code itself lets it go (a re-sync over a frame, a lost event on a live channel).
- **Order hook and page.** An abandoned POST may still commit, a proxy may answer for
  the server, two clicks may come before a render. Correct means: one POST in
  flight; a verdict is true; a spinner ends.
- **Stress harness.** It wipes the stores key by key and rewrites the window, with a
  worker still draining, and judges by counts. Correct means: PASS is only
  printed for a fair sale that is left open; an interrupted reset does not
  oversell; the poll of the verifier ends.

## 2. Modules

| Module | Models |
|---|---|
| `SaleContract` | what the order endpoint promises: an atomic register of accepted buyers, truthful answers, a 503 at any time |
| `OrderFlow` | the order path on several instances |
| `OrderFlowProofs` | type correctness and safety of `OrderFlow`, and what accepted orders send without awaiting it, proved |
| `OrderFlowRefinement` | conservation of stock, and `OrderFlow` implements `SaleContract`, proved |
| `WriteBehind` | the stream, the workers, the bulk write |
| `SaleBoot` | migration, gate and rebuild on several instances, with traffic |
| `SaleBootProofs` | type correctness and safety of `SaleBoot` under its two conditions, proved |
| `SaleEvents` | broadcaster, SSE route and window timers |
| `SaleEventsProofs` | type correctness of `SaleEvents`, and what its streams show, proved |
| `WriteBehindProofs` | type correctness and safety of `WriteBehind`, proved |
| `StatusView` | what the status hook promises the page: a body and a channel |
| `SaleStatusHook` | the status hook: stream, reads and timers |
| `SaleStatusHookProofs` | safety of `SaleStatusHook`, and that it implements `StatusView`, proved |
| `OrderHook` | the order hook, with the network and the server it talks to |
| `SalePage` | the composition of `StatusView` and `OrderHook` in the page |
| `SalePageProofs` | one request in flight and true verdicts in `SalePage`, proved |
| `StressRun` | the stress harness against the stack it judges |
| `StressRunProofs` | what a PASS means and what an interrupted reset leaves, proved |
| `MC...` | constants, symmetry and bounds for TLC |

The definitions that a comment calls *Mutant* are not part of the specifications: each is
a plausible bug of the definition below it, kept to show that some property
notices it.

### OrderFlow

`wire[a]` and `inbox[a]` are the two directions of the connection of instance
`a`. `Handle` is everything a handler does up to its first await: check the
clock, write the command. `RunEvalSha`, `RunEval`, `RunSIsMember`, `RunXAdd` and
`RunPublish` are Redis executing the oldest command of a connection; `OnCreated`,
`OnDecided`, `OnNoScript`, `OnProbed` and `OnChecked` are the rest of the handler once the
reply is delivered, with every command it then writes; `Timeout` is `raced()`
(`orders.ts:63-77`) giving up; `DropLate` is the reply that nobody waits for any
more. Without a connection a command fails at once (`disableOfflineQueue`).
`LoseConnection` covers a broken socket and the death of the process, which keeps
nothing else in memory; Redis still executes a prefix of what was written.
`accepted` and `known` are history: whom the script ever accepted, and whether a
request's buyer had been told so before. A retry by a client is another request.

Left out, because no state is touched before or by it: validation (400), unknown
routes (404), e-mail canonicalisation, the payment provider (a no-op that
approves). A script reply that does not parse cannot come from `order.lua`.

`LossySpec` adds `LoseKeys`: Redis loses the sale's keys under traffic and nobody
rebuilds them, since only a boot does. The refinement is not claimed there, and
does not hold: `SISMEMBER` on a set that is gone answers "no" where the script
fails closed, so outside the window (and for `GET`) a buyer already told of the
order can be told otherwise.

### WriteBehind

Entries are numbered by their XADD; `log` keeps them all, `gone` of them have left the
stream by `MAXLEN` trimming or its loss. `pel` is the pending list of each
consumer name, `last` the group's last delivered entry. `pc[w]` is the await at which worker
`w` stands: each has an outcome that succeeds and one that fails before or after
it took effect; a bulk write that fails has applied any part of its operations.
`OrderByEmail` is the map from e-mail to order id of `bulk-audit.ts:89-98`.
`SIGTERM` is `Stop`: the loop ends at its next turn; `Crash` is any other death.
How the Redis client reports a pending entry that was trimmed (without its
message, or by rejecting the whole reply) is not in this repository: both are
possible (`ReadPending`, `ReadRejected`). The length of the back-off is not
modelled, only that it ends.

### SaleBoot

Each Redis and MongoDB call of the boot is a step; a crash after or instead of
any of them is `Crash`. Traffic is one atomic `Accept` (whose XADD may be lost),
the worker one `Record`, a run of the seeding script one `Reseed`. Initially the
keys are any combination an earlier release or boot leaves: none, namespaced, flat, or
both. A command a dead process had written is not executed later; a boot that
times out on a command exits, and its connection with it.

`Next` describes the boot under two conditions that no code enforces.

- Instances boot one at a time (`Rolling`). The repository deploys one container of the
  API, which publishes a port of the host (`docker-compose.yml:22-23`); nothing keeps a
  second deployment from booting beside it.
- The sentinel or Redis is lost only once the accepted orders are recorded (`Drained`),
  and the sentinel is deleted only once the flat keys are gone (`FlatGone`: flat keys of
  v1.0 that are still there when the sentinel is deleted would be taken for current).
  Once it is drained Redis may be lost at any moment of a boot; the instance whose SET
  is then on the wire goes down with it.

`ConcurrentBootSpec` and `UndrainedSpec` lift one condition each, and in each the sale
oversells. `SaleBootUndrained.cfg` shows the second; TLC finds the first from
`SaleBoot.cfg` with the `SPECIFICATION` exchanged, `WarmTouchesNothing` violated too.

A crash is no condition: it may fall anywhere. One place is fatal. The
migration renames the sentinel first (`migrate.ts:90-95`), so a crash before the second
RENAME leaves it beside an empty set, and the next boot deletes the buyers of v1.0
instead of renaming them. The
history variable `torn` records such a crash. `NoOversell`, `OneUnitPerBuyer` and
`SentinelLast` say nothing after it, and could not: without that exception TLC violates
all three. `WarmTouchesNothing` and `EventuallyServing` hold after it as before.

### SaleEvents

One instance, `Self`, with its streams; the others only publish. Events carry no
payload: a frame is composed from a fresh `GET`, so the promise chain is a
counter of emits still owed and `reads` the pipelined GETs, of which Redis has
executed a prefix. A GET that was given up (its stream left, or the command timed out)
stays on the connection as `Abandoned`, and its reply is dropped when it comes
(`DropReply`). A stream is `connecting` between its registration and its
snapshot (`routes/sale.ts:62-95`), during which frames go to `buffer`; `shown` is
the last frame sent. `Publish` delivers the oldest event an instance owes
straight to the subscriber's callback: the time in between is part of the
time before. `LoseEvents` is an order answered 503 after its commit, or a PUBLISH
that fails. How long ago the last emit was is not modelled: `Coalesce` may take
the leading edge or the trailing one. The `getActiveSale()` lookup is a constant,
as the boot wires it.

### StatusView and SaleStatusHook

A status is the *version* it was read at: `truth` is what the server would report
now, and grows up to `MaxVersion`. `body` is what is on screen, `channel` the
claim of liveness, `frame` the last frame of the present connection. `calls` are
the `GET /status` requests in flight: a kind (cold read, fallback poll, recovery re-sync,
refetch after an order) and the truth when sent; the answer may be any version since then.
`source` is what `sourceRef` holds; `hung` and `dead` are a handshake and an open
socket that nobody will ever answer. `polling`, `retry` and `deadline` are the timers that
are armed; their lengths are not modelled.

The server's side is what `SaleEvents` and `routes/sale.ts` leave to a client. `Advance` is a
change of the sale whose event is published, or lost (`published` stays behind
`truth`). `Frames` are the frames a connection may deliver next: the first is the
snapshot; the second may be older, composed before the snapshot and flushed behind it
(`routes/sale.ts:93-98`, run `sale_events_order`); from then on (`flushed`) they are
chained and never go back, which `SaleEventsProofs` proves (`NeverBack`). `FrameDue` is the frame
the server owes: a snapshot, or one no older than the last event that was published.

`OnOpen`, `OnFrame`, `OnError` are the `EventSource` handlers; `Watchdog`, `Reconnect`,
`PollTick`, `ConnectDeadline` the timers; `OnPoll`, `OnResync`, `OnRefetch` what is
done with an answer, which `FetchSaleStatus` has narrowed first. A hidden tab is
not modelled: the hook has no code for it. Neither is a `slug` that changes under a
mounted page, which no link of the client does; the doubled effect of a development build is
left to `OrderHook`, where it matters (`StrictMode`).

`StatusView` keeps the body and the channel and forgets the rest. Its rule: on a
live channel only a frame changes the body, whatever order the frames come in, but
for `Rewind`, the recovery re-sync, which `rewound` owns up to. The listener compares a
frame with nothing, so the view promises no order either.

### OrderHook and SalePage

A POST is a message, `posts[n]`: travelling until the server sees it, answered
until the client does or has given up. `awaited` are the promises still pending.
`Serve` answers in the words of `SaleContract`, `Intercept` is a captive portal.
`Submit`, `Settle`, `GiveUp`, `ClearVerdict`, `ClearFieldError` are the hook's; `busy` is
the phase as last set, `spinner` as last rendered: the gap between the two is
what the in-flight ref is for.

`SalePage` instantiates `OrderHook` with the sale that the view reads
(`Timeline[truth + 1]`, or none at all, which is a 404 for both) and extends `StatusView`,
which `SaleStatusHook` is proved to implement: the timers of the one hook are not multiplied with the
messages of the other. `CanBuy` is the gate of the form (`SalePage.tsx:131-148`),
`InactiveFrame` the panel's choice for a 409.

### StressRun

`pc` is the phase of `run.ts`; the stack is reduced to what the harness reads
and writes: two Redis keys, the audit rows, the queue behind them, the window in
MongoDB, the API and the window it booted with. `Persist` is the worker, which
the reset does not stop. `Wipe` is one write of the reset, `Post` one attempt of
k6 and what the API does with it, `Sample` one turn of `pollUntilStable`, `RestoreWindow` the
`finally` block. A phase that fails is recorded (`failed`), and most end
the run; `Abort` is an interrupt at any await.

`replies` are the answers k6 has received. It judges them at the end: `Scored` is
`score()` and the thresholds over them, `told` whoever scored a 202. A burst that runs
to its end scores every answer (`whole`). One that `maxDuration` cuts short scores
any part of them, since k6 drops the samples of an iteration it interrupts, and leaves
whoever still had an attempt on the wire (`late`): the API may handle such a request
at any later moment (`LateCommit`), until its process is replaced.

## 3. What is checked

Every run needs at most about three minutes with two workers.

| Run | Instance | Shows |
|---|---|---|
| `order_flow` | 3 requests, 3 buyers, 2 instances, 2 units, keys may be lost, window open | no oversell, one 202 per buyer, the keys agree while they are kept, final "sold out", nobody enqueued twice, one and no early `sale.sold_out` |
| `order_flow_live` | 2 requests, 2 buyers, 2 instances, 1 unit, the whole window | refines `SaleContract`; every request is answered |
| `write_behind` | 2 workers, 3 entries, batches of 2, `MAXLEN` 2, 2 faults, a name that changes | acknowledged is durable; no limbo; one writer per entry; no duplicated or dangling row |
| `write_behind_live` | 2 workers, 2 entries, 2 faults, stable names | every entry is persisted and acknowledged |
| `write_behind_two_sales` | 2 sales of 2 buyers, batches of 2 | **violated**, see below |
| `sale_boot` | 2 instances, 3 buyers, quantities 1 and 2, 2 faults | until a migration is cut between its RENAMEs nothing is sold twice and the sentinel comes last; a warm boot, alone or beside others, touches nothing; eventually some instance serves |
| `sale_events` | 1 instance, 1 stream that comes and goes, 2 units, 2 faults | quiet streams are current; sold out is shown even if every event is lost |
| `sale_events_order` | 2 instances | **violated** |
| `sale_status` | 2 changes of the sale, 2 faults, slug known or not | never stranded; the stream owns the body; a 404 is final; implements `StatusView`; settles on the truth, with the two exceptions of section 1 |
| `sale_status_resync` | the same | **violated** |
| `sale_page` | a sale that opens and sells out, 2 addresses, one malformed, 2 attempts | verdicts are true, one POST in flight, spinners end |
| `stress_run` | 3 addresses and one shared by 2 attempts, 2 units, configured as 2 or 3, an earlier buyer, 2 or 3 samples, 2 faults | PASS means fair and open, even after a burst that was cut short; an interrupted reset is safe; the poll for a plateau ends |

**Why these bounds.** Three requests are a winner, a rival and a repetition of
either, on the same or the other connection: the shortest behaviours that break
a mutant use no more. One unit makes two buyers compete; two units make the
order of two `OK` replies matter. Two faults are a crash and a second one
during the recovery from the first. Three entries with batches and a `MAXLEN` of
two are the fewest where a batch is full, one entry is left for another worker,
and the oldest is trimmed. `MaxAccepts` counts the second accept of a buyer, the
one that would be wrong. `MaxReads` lets a stream connect while one GET is under way: an emit's, the safety net's,
or that of its own previous connection. `WindowOpen` restricts `order_flow` to the open
window, since outside it requests only read; `order_flow_live` covers the rest. One
stream of one instance suffices in `sale_events`: streams and instances do not
affect each other there, and events of other instances only add emits; two units
give an event that can be coalesced before the terminal one. Two changes of the
sale give an answer that is stale by two, and one that is stale but newer than
the body; two faults silence a stream and fail the read that would heal it, or lose both
events. Two
attempts on a page are an abandoned one and the next, by the same buyer. In
`stress_run` the addresses outnumber the units by one, the shared one competes with
them, and `Configured` differs from the sale document in one branch; the third
sample is the one that runs out.

**Deadlock** is not checked in `OrderFlow` (all requests answered and both
queues empty is a proper end), nor in the runs of `WriteBehind` that allow a dead
worker loop, nor in `SaleStatusHook` and `SalePage` (a page that was left is an end), nor in
`StressRun` (the run is over), nor in the runs that stop at a violation. It is checked in
`write_behind_live`, `sale_boot` and `sale_events`.

**Fairness.** `OrderFlow`: only the timers, `WF(Timeout(r))`; nothing is assumed
of Redis or the network. `WriteBehind`: a worker whose process runs takes its
steps, since every await has an outcome, and one that exited is restarted
(`restart: unless-stopped` in `docker-compose.yml`); the faults are finitely many. Entries are as many
as `MAXLEN` there, so none is trimmed: a trimmed entry is gone by design.
`SaleBoot`: a boot call returns or fails, and a process that exited is started
again. `SaleEvents`: the heartbeat interval ticks, Redis executes what it
received, the event loop handles replies and the chain; publishers, timers,
subscriptions and clients may do what they like. `SaleStatusHook`: armed timers
fire; a server that can be reached accepts a handshake, answers reads of every kind and
sends the frames it owes (`FrameDue`): the snapshot of a new connection, and a frame for every
event that was published. It does not owe the present state. An event that was
lost is made up for by a stream only if the sale is sold out (`sale-events.ts:139-168`), and the
hook's model does not claim that either. So `EventuallyCurrent` has two exceptions, both
the code's own: the re-sync wrote over a frame, or the channel is live and the last
change was not published. `SalePage`: the ten-second timer, and React renders;
nothing of the server, the stream or the view. `StressRun`: only that the verifier's counts are answered
(`WF(Sample)`). `docker compose up --wait` runs without a timeout, the stores are called without
one, and the worker may not run, so that the whole run ends is not claimed: what is
checked is that the poll stops after its samples, whatever the worker does.

### Where the code disagrees with its documentation

The first three have a run. For the others a configuration is kept, to be run as
`tlc -config <cfg> <module>`.

- `write_behind_two_sales`: the stream is shared by all sales, but within a batch
  order ids are found by e-mail alone. Two orders of one buyer in two sales get
  one line between them, and both are acknowledged. Only one sale is wired today.
- `sale_events_order`: a frame whose GET was sent before a stream connected, and
  whose reply comes before the snapshot's, is held back and flushed after the
  snapshot, which is newer. The page goes back from "sold out" to "active" until
  the next frame.
- `sale_status_resync`: "an open stream is the sole writer" (`client/src/hooks/useSaleStatus.ts:1`),
  but the recovery re-sync writes as the stream does, and may overwrite a newer frame. Until
  the next frame the page shows the older state, under a live channel.
- `WriteBehindBoot.cfg` of `MCWriteBehind`: `ensureGroup()` runs
  before the loop's `try`; one failed command and the process stays up without ever polling.
- `OrderFlowUndercount.cfg` of `MCOrderFlow`: architecture.md section 7 names the crash between
  the accept and the XADD as the sole under-count. A timeout suffices: the script
  commits after `raced()` gave up, its `OK` is dropped, the retry gets `ALREADY`, and
  only `OK` enqueues.
- `SaleBootUndrained.cfg` of `MCSaleBoot`: a rebuild counts only what MongoDB has recorded,
  so the units of orders still in the queue are sold again.
- `SalePageWrap.cfg` of `MCSalePage`: the panel frames a 409 by the body on screen, not by the
  answer; without a body, or with an old one, a buyer who came too early is told it is over.
- `SalePageStrict.cfg` of `MCSalePage`: "nothing can strand a spinner", but the mounted ref is
  not set again when an effect runs a second time, as it does in development builds
  under `StrictMode`: the first attempt's spinner never ends there. Production builds are not affected.
- `StressPhantom.cfg` of `StressRun`: an order MongoDB has and Redis never accepted "is always a
  hard fail" (`stress/verify.ts:79`), but only counts are compared, and the queue is not
  wiped: an entry of an earlier run, drained after the reset, makes up for one that was lost.
- The same configuration shows that the stress README is wrong about the reset: it says
  that stopping the API "guarantees the write-behind worker has drained the stream" and
  that the reset wipes `queue:orders` (`stress/README.md:15-16`). The worker is a container of its own
  which nothing stops, and `resetAll()` does not touch the stream (`stress/reset.ts:92`), so
  what an earlier run left there is recorded among the orders of this one.
- `StressCutOff.cfg` of `StressRun`: a reset cut off half-way is said to end in a cold rebuild
  (`stress/reset.ts:14`). The old sentinel is still there, so the next boot is warm: it offers
  the old count and sells nobody else's unit, but units are unaccounted for.

Three more disagreements have neither. While only the subscriber connection is
down a new stream is served, not refused (architecture.md section 4.2), and hears
no events. And when `sale.ended` is lost, the safety net disarms without an emit
(`sale-events.ts:165-168`), so a stream that stays open shows the sale as active. And the
stress README says that the harness seeds `STOCK_QUANTITY`; the seed data is fixed,
and the run fails if the two differ (`Passed`).

## 4. What is proved

For every value of the constants, under the assumptions named in each model. No
theorem needs a bound (`MaxFaults`, `MaxVersion`, `MaxPosts`, ...) to be small.

| Module | Theorem | Statement |
|---|---|---|
| `OrderFlowProofs` | `TypeCorrect` | `LossySpec => []TypeOK`: in particular the stock key is never negative |
| | `NeverOversold` | `LossySpec => []NoOversell` |
| | `CreatedAtMostOnce` | `LossySpec => []CreatedOnce` |
| | `SoldOutTrue` | `LossySpec => []SoldOutIsFinal` |
| | `AuditedAtMostOnce` | `LossySpec => []AuditAtMostOnce` |
| | `SoldOutSignalledOnce` | `LossySpec => []SoldOutSignalOnce` |
| `OrderFlowRefinement` | `StockIsConserved` | `Spec => []StockConserved` |
| | `Refinement` | `Spec => ImplementsContract` |
| `WriteBehindProofs` | `Types` | `LossySpec => []TypeOK`: no empty batch is ever written |
| | `NobodyInLimbo` | `LossySpec => []NoLimbo` |
| | `OneWriter` | `LossySpec => []SingleConsumer` |
| | `AckedDurable` | `OneSale /\ LossySpec => []AckedIsDurable` |
| | `NoDanglingRow` | `OneSale /\ LossySpec => []AuditConsistent` |
| `SaleBootProofs` | `BootTypes` | `Spec => []TypeOK` |
| | `OneUnitEach` | `Spec => []OneUnitPerBuyer` |
| | `NeverOversoldByBoot` | `Spec => []NoOversell` |
| | `SentinelIsLast` | `Spec => []SentinelLast` |
| | `WarmIsWarm` | `Spec => WarmTouchesNothing` |
| `SaleEventsProofs` | `EventTypes` | `Spec => []TypeOK` |
| | `QuietIsCurrent` | `Spec => []QuietStreamsAreCurrent` |
| | `NeverBack` | `Spec => OpenStreamsAdvance` |
| | `HeldFramesInOrder` | `Spec => []HeldInOrder` |
| `SaleStatusHookProofs` | `StatusTypes` | `StatusSpec => []StatusTypeOK` |
| | `NeverStranded` | `StatusSpec => []NotStranded` |
| | `StreamIsTheWriter` | `StatusSpec => []StreamOwnsBody` |
| | `NotFoundStops` | `StatusSpec => []NotFoundIsTerminal` |
| | `Refinement` | `StatusSpec => ImplementsView` |
| `SalePageProofs` | `PageTypes` | `Spec => []TypeOK` |
| | `OneRequest` | `Spec => []OneInFlight` |
| | `VerdictsAreTrue` | `Spec => []VerdictTruthful` |
| `StressRunProofs` | `StressTypes` | `Spec => []TypeOK` |
| | `PassIsFair` | `Spec => []PassMeansFair` |
| | `PassIsOpen` | `Spec => []PassLeavesOpen` |
| | `CutOffIsSafe` | `Spec => []InterruptedResetIsSafe` |

### OrderFlow

Assumptions: `StockAssumption` (a natural number), `FiniteAssumption` (finitely
many buyers), `NullAssumption` (the placeholders are not real values).

The four safety theorems follow from one inductive invariant, `IInv`. None of them is
inductive alone: whether an `OK` is still on its way, and for whom, decides what
may be answered next. Its parts:

- `Asked`: a request that was made has a buyer and an instance, one that was not
  has left no trace;
- `Wired`: a command on a wire, and a reply in an inbox, belongs to the instance
  its request was sent to;
- `Alone`: a request has at most one decision under way: its command is on the
  wire once, or its reply in the inbox once, and not both. This is what makes a timed-out
  request harmless;
- `Ledger`: the units missing from the counter are the buyers accepted;
- `Truthful`: a verdict already computed is still true;
- `OneWinner`: of the requests of a buyer at most one was ever given `OK`;
- `Answered`: what was answered agrees with what was decided.

The two theorems about what is sent without being awaited strengthen it by `AInv`, since a row or an event is lost or
doubled while its command travels: `Sent` and `SentOnce` say that an XADD or PUBLISH on a
wire belongs to a 202 already given and is there once, on one connection;
`Enqueued` and `Signalled` that what Redis already holds is not on any wire any
more; `LastUnit` that one request only was given the last unit.

`Ledger` is what the loss of keys keeps (accepted never exceeds `Stock`);
`OrderFlowRefinement` adds `Faithful`, true only while the keys are kept: the
set is exactly the accepted buyers. With it each step of `OrderFlow` is shown to
be a step of `SaleContract` or to leave its variables unchanged: `Handle` is
`Ask`, a script run that takes a unit is `Accept`, the end of a handler is
`Respond`, a timeout or a lost connection is `GiveUp`, the rest stutters.

### WriteBehind

Assumptions: `ProductAssumption` (a sale has a product), `BatchAssumption`,
`NameAssumption` (no two workers ever use one consumer name, which
`adapters/redis/order-queue.ts:60` asks of an operator).

`Track` is about delivery and holds through crashes, changed names, trimming and a
lost stream. `NoLimbo` alone is not inductive: a group created again, or another worker's
read, could take what somebody holds. `Delivered` keeps every pending, held or
acknowledged entry behind `last`; `NoGroup` says that a new group starts behind all of
them; `OnePlace` and `Tracked` that a delivered entry is in one place, and in one at least;
`Exclusive` and `Idle` tie a worker's batch to its own pending list.

`Rows` adds what MongoDB holds: `Staged` says that a worker which reached a stage of the
bulk write finds the rows of the earlier stages there for its whole batch, however
often other workers' batches failed half-way. It needs `OneSale`, as bootstrap wires
it: with two sales `AckedIsDurable` is false (`write_behind_two_sales`).

### SaleBoot

Assumptions: `QuantityAssumption` and `BuyersAssumption` (finitely many of each, quantities
are natural numbers), `MissingAssumption` (an absent key is no number), `BoundAssumption`.
The theorems are about `Spec`, that is, under the two conditions of `Next` (section 2);
TLC shows that each is needed. Crashes are unrestricted.

`SentinelLast` is not inductive: while nobody serves it says nothing, and a boot
decides in one step by what it saw several steps ago. The invariant follows
the three states the keys can be in, and says for each how far a boot can be.

- `Kept`: the namespaced keys exist. The set holds every accepted buyer, and no boot
  can be past the gate; or a boot stands between its two RENAMEs (`HalfRenamed`),
  nobody serves, and the flat set still holds them all.
- `Unmigrated`: only the v1.0 keys exist. Nobody has served since, and a boot that
  looked saw exactly what is there.
- `Rebuilt`: no key exists. MongoDB has every order, which is what `Drained` is for, and
  a rebuild has read them all before it clears the set and written them all before
  the sentinel.
- `OneBoots` is `Rolling` over time; `Looked` ties what a boot has found to where
  it is; `Ledger` bounds accepts and planned quantities by the largest quantity.

With these a buyer in the set is refused by the script, and a buyer who is not has
never been accepted; with one accept per buyer, the units sold are the accepted
buyers, and `limit` covers them beside the units on sale.

All this holds until `torn`. `WholeInv` is the invariant of the whole behaviour: that one before
the cut, and `Cut` after it, which says only that no flat stock key is left to rename and
that a boot which finds the sentinel neither renames nor rebuilds. `Cut` is what
`WarmIsWarm` needs for the rest of the behaviour; `Cutting` shows that the crash between
the RENAMEs takes the one to the other. `WarmIsWarm` rests on `Rolling`: two boots at
once can both find the keys missing, and the slower one writes over what the faster
one serves.

### SaleEvents

Assumptions: `SelfAssumption`, `StreamAssumption` (a stream is none of the other readers of
the stock key), `StockAssumption`, `UnreadAssumption` (a GET that Redis has not executed
has no value yet). For every number of instances, streams and units.

`QuietStreamsAreCurrent` speaks of the moment when nothing is left to do. The invariant
says, at every other moment, who still has to do it; without a fault the obligation
is handed on and never dropped (`Synced`):

- an event is owed by some instance, or a timer is due (`EventOwed`);
- or a trailing emit is armed (`pending`);
- or an emit is in the chain that has yet to read, or has read the present stock (`EmitOwed`);
- or every stream shows the present sale, or holds it back for its snapshot, or its
  snapshot has read it (`Current`).

It rests on `Timers` (a boundary that was not signalled is armed), `Hears` (without a
fault the subscription holds), `OneEach` (a reader has one GET under way), `Awaited` (and
has one exactly while it waits for it) and `Held`, what a stream that is off, connecting or
open has in its buffer and on its screen. Five lemmas say what the connection does to the
GETs on it: `Written`, `Executed`, `Taken`, `GivenUp`, `QuietReads`.

`NeverBack` needs no condition on faults. `Ordered`: the values on a pipelined connection
fall with the place in it, and none is below the stock. `Advancing`: whatever was given to
a stream last is not newer than any value still under way. A stream that lost every event
may lag, but it never goes back. `HeldFramesInOrder` says the same of
the frames held back for a snapshot. So the only place for a frame out of order is
between the snapshot and the first frame flushed after it, and there
the code does send one (`sale_events_order`). `OpenStreamsAdvance` and `HeldInOrder` have
no run of their own; they hold in the instance of `SaleEvents.cfg` too.

### SaleStatusHook and SalePage

Assumptions: `BoundAssumption`, and `OutcomeAssumption` (the outcomes of a read
differ from each other and from versions).

The invariant is the four properties and three facts that each handler leaves to
the next; none of them needs frames to be in order: `StreamIsClaimed` (an open source is what the claim of liveness rests
on, and only it has frames), `LeftIsLeft` (only a refetch outlives the cleanup),
`PollsAreArmed` (only polls take the channel out of "connecting").

Refinement mapping: the variables of `StatusView` keep their names, `rewound` is
`overwritten`. `OnOpen` is `GoLive`, `OnFrame` is `ShowFrame`, `OnError` on a live
channel and `Watchdog` are `Falter`; a poll or refetch that paints is `Paint`, the
recovery re-sync `Rewind` or, when the stream is gone again, `Paint`; a poll that fails is
`Admit`, a 404 `Deny`, `Unmount` is `Depart`, `Advance` is `Change`; timers, connects
and ignored answers stutter.

`SalePage` is proved on top of `StatusView`. Its assumptions: `EmailAssumption`,
`PostAssumption`, and `TimelineAssumption`: a sale that was sold out is not active
again under an open page, which only a cold boot would do; a verdict "sold out" would then be
about the past. The invariant: `Once` (never two promises, and the ref is up exactly
while there is one), `Genuine` (a reply the hook would believe says what the server holds),
`Told` (so does the panel). Both say of a refused buyer that nothing will be sold any more
(`Refused`): the late commit of an abandoned request would otherwise falsify the verdict.

### StressRun

Assumptions: `PeopleAssumption` (finitely many addresses, the shared one is none of the
others), `CountAssumption` (the numbers are natural, the placeholder is not).

The invariant follows the phases. `Sentinel`: the stock key is absent only where
nobody ever bought, and no API runs without it. `Wiping`: users go first and the
sentinel last, which is why a cut-off reset is safe. `Bounded`: the units offered
and the buyers recorded fit the stock that was there. `Traced`: every order, queued or
recorded, is a buyer's of this run or an earlier run's.

A PASS is about answers that were given long before. `Answered`: during the burst
everybody in the set has an answer that says so, or one that will breach a
threshold. `Honest`: after it, if nothing failed, those who scored a 202 are in the set, and
they are all of it when every answer was scored, for then no request is left on
the wire. A burst that was cut short without breaching a threshold gives only the first
half: somebody may be in the set whose answer k6 never scored. `Counted` and `Judged`: the counts the
verifier took only grow afterwards, so what it accepted still holds at the end,
though a late request may commit and the worker goes on. `Reopened`: the API
that was started last serves the window that is stored. `PassIsSound`: a run that
failed does not pass.

### Model-checked only

All liveness (`EveryRequestAnswered`, `EveryEntryPersisted`, `EventuallyServing`,
`SoldOutShown`, `EventuallyCurrent`, `SpinnerEnds`, `SamplingEnds`), which with fairness
is beyond the proof system.

## 5. Plan

1. `SaleSystem`: `OrderFlow`'s accepts, `WriteBehind`'s worker and `SaleBoot`'s
   rebuild over one set of keys, so that `Drained` becomes a consequence of the
   queue rather than a condition.
2. A fleet in `SaleEvents`, each instance with the sale it picked at boot.
3. An abstract sale ledger (units, accepted buyers) that `OrderFlow` and `SaleBoot`
   both implement, so that what holds under traffic and what holds across a reboot
   are statements about the same thing.

The slug cache of the sale resolver gets a module only once something but
bootstrap's frozen sale stands behind it.

## 6. Not modelled

- **Sale resolver.** As bootstrap wires it every lookup returns the sale frozen at
  boot, or null for another slug; the cache and its TTL never change an answer.
- **Catalogue, sales listing, routing, payment provider, configuration, clock, Mongo
  models.** They keep no state; the unique indexes of the models are in
  `WriteBehind`. The direct audit recorder is not wired.
- **Parts of modelled components.** `checkOnLoad` and `checkOrder` have no callers.
  A slug that changes under a mounted status hook: no link of the client does it.
  Upserts of the seeding script: idempotent writes of constants. Instances that
  pick different sales at boot. In the stress harness the optional RETRY
  scenario of k6, latencies, the report, and Redis losing its keys during a run.
- **Time.** Lengths of timers, back-offs and the distance between clocks: a timer
  that is armed may fire at any moment.
- **Presentation, assets, generated reports, build and deployment files.**
