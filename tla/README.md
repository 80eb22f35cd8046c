# Verification of the HubSpot → NetSuite invoice integration

This directory holds TLA+ models of the integration in `src/`, TLC
configurations that check them on small instances, and TLAPS proofs for every
instance. `PROJECT.json` maps each definition to the source lines it
translates, lists the runs, a plausible bug per checked property (the mutants),
the findings, and the hazards the properties are aimed at.

```
tlc -workers 2 -config SyncFaults.cfg MCCoalescedSync    # a model-checking run
tlapm SyncLockProofs.tla                                 # the proofs of a module
```

## The system

HubSpot posts change events to a webhook; the webhook Lambda puts them on an SQS
queue; a processor Lambda takes them one at a time (BatchSize 1, at least two
invocations in parallel) and rebuilds the deal's NetSuite invoice from what
HubSpot holds *now*. A DynamoDB row per deal serialises the workers.

| Component | Source | State | Operations |
|---|---|---|---|
| webhook receiver | `hubspot_webhook/lambda_function.py` | none; the queue | verify signature, parse batch, enqueue in chunks of 10, 500 on partial failure |
| event consumer | `sqs_processor.py` 997-1157 | the SQS message; nothing across events | resolve lock key, lock or mark and ack, dispatch, drain, release; `True`/`False` acks, an exception redrives, 5 receives then DLQ |
| sync lock | `locks.py` | DynamoDB row: owner, expiresAt, pending_resync | conditional put, mark, conditional consume, conditional delete |
| deal reconcile | `sqs_processor.py` 209-281, 522-829 | the NetSuite invoice; status fields of the deal | stage gate, read contact/customer/subsidiaries/deal/lines/venue, upsert, stamp |
| line-item handler | `sqs_processor.py` 956-994 | the invoice's lines | find parent deal again, find invoice, replace lines |
| line-item mapping | `sqs_processor.py` 284-519 | none | consolidate by SKU, filter, resolve SKUs, quantities |
| venue sync | `sqs_processor.py` 842-953 | NetSuite location | get or create by name, back-fill externalId |
| NetSuite client | `netsuite_auth.py` | access token | retry loop, searches (eventually consistent), writes |
| HubSpot client | `hubspot.py` | none | retry loop, reads, property writes, invoice mapping |
| lookup caches | `cache.py` | subsidiaries, sales reps, per warm sandbox | TTL get-or-compute |
| payments | `sqs_processor.py` 832-839 | none | ack |
| configuration, deployment | `config.py`, `template.yaml` | environment | Timeout 200 s, visibility 250 s, lock TTL 960 s, maxReceiveCount 5 |

### How the parts interact, and what is hard about it

* **Two workers, one deal.** A contender does not wait: it sets `pending_resync`
  on the holder's row and acks its own message. From then on the event lives in
  that flag only. The holder looks at the flag after each reconcile and deletes
  the row when it finds none: two calls, with a gap between them.
* **A lock that expires.** The row lapses `TTL` seconds after a clock its worker
  read *before* the put, on clocks that differ between sandboxes and DynamoDB.
* **Crashes.** A killed worker leaves its row for up to 960 s; its message comes
  back after 250 s.
* **Lost replies.** botocore resends a conditional write whose reply was lost,
  and the resend fails the condition against the worker's own row. NetSuite
  writes are resent by `make_request` too.
* **Eventually consistent searches.** The NetSuite search that finds an invoice
  by `externalId` lags its creation.
* **Reads at different moments.** The deal, its lines and the invoice id are read
  one after another and written later; the parent of a line item is looked up
  once for the lock and again for the write.
* **What a failure means.** An exception retries, a value acks. Which of the two
  a 429 or a 500 becomes depends on the caller.

### What makes each component correct

* sync lock: mutual exclusion per key; a row deleted or its flag cleared only by its
  owner; a holder's row is there for marks to reach.
* event consumer: each message is acked or dead-lettered; an acked event's edit is
  carried by somebody until it is synced.
* reconcile and line handler: invoices move forward only and show only what the
  deal has had; one worker per invoice; the invoice converges.
* clients: a request is retried as often as promised; nothing is acked on an
  answer that never came; a resent create converges.
* venue sync: one location per name; a retry converges.
* webhook: every entry of an accepted batch is enqueued, at least once.
* mapping: consolidation keeps quantities; no SKU of the deal is lost.

## Modules

| Module | What it is | Code |
|---|---|---|
| `LockTable` | one lock row and its conditional writes, as operators | `locks.py` |
| `DealMutex` | abstract: a mutex per key that a worker may leave by dying | what `locks.py:3-4` promises |
| `SyncLock` | timed lock: workers, clocks with skew, timeout, TTL, sweeps, lost replies | `locks.py`, `sqs_processor.py` 1034-1066 |
| `InvoiceRegister` | abstract: versions of a deal and of its invoice; invoices never go back | what reconciling promises |
| `CoalescedSync` | edits, queue, workers, lock rows, handlers and invoices, with faults | `sqs_processor.py` |
| `ApiRequest` | the two retry loops and what callers make of their result | `netsuite_auth.py`, `hubspot.py`, `cache.py` |
| `RequestClock` | the seconds of a NetSuite request and the access token its calls carry | `netsuite_auth.py` 18-21, 37-48, 167-288 |
| `EventRouting` | what six functions decide from an event's types, as operators | `sqs_processor.py` 154-177, 313-333, 569-579, 997-1098, `hubspot.py` 555-589 |
| `EventDelivery` | one delivery: the POST, its parsing and enqueueing, resends, and the fate of each message | `hubspot_webhook/lambda_function.py`, `sqs_processor.py` 1034-1157 |
| `LineItems` | line items to invoice lines, as operators | `sqs_processor.py` 336-519 |
| `DealReconcile` | a deal's decisions and writes, a venue's, and their race for a NetSuite location | `sqs_processor.py` 209-281, 522-545, 589-829, 842-953, `netsuite_auth.py` 378-450 |
| `MCSyncLock`, `MCCoalescedSync` | symmetry for the runs | |
| `MCEventDelivery`, `MCDealReconcile` | bodies and deployments, and the worlds to start from, for the runs | |
| `LockTableProofs`, `SyncLockProofs`, `ApiRequestProofs`, `RequestClockProofs`, `EventDeliveryProofs`, `DealReconcileProofs`, `CoalescedSyncProofs`, `WakeUpProofs` | theorems | |

`SyncLock` and `CoalescedSync` both extend `LockTable`, so the lock of the
pipeline is the lock that is proved about. `SyncLock` refines `DealMutex`,
`CoalescedSync` refines `InvoiceRegister`. `EventDelivery` extends `EventRouting` and
ends where a message has an outcome; `DealReconcile` extends `LineItems`, and starts
from a message on the queue.

### SyncLock

`pc[w]` is where an invocation is in `process_webhook_message`: `keyed` (key
resolved), `putting` (token and clock taken, put on its way), `busy` (put reported
as rejected), `holding`, `draining`, `releasing`. Each call on DynamoDB is one
step. `SampleClock` and `Acquire` are two steps because `_acquire` computes `now`
and sends it along, and the put may land late. `AcquireUnseen` is a put whose reply
is lost and whose resend is rejected; `AcquireRaises` one whose every reply is
lost, outside the `try`. `Kill` is the Lambda timeout or a crash. `Tick` never takes
a live invocation past `Timeout`. `Sweep` is DynamoDB's TTL deletion.

### CoalescedSync

Data are *versions*. `crm[d]` counts the edits of the deal's fields and of its
lines and holds its stage mode (`create`, `update`, `off`); `invoice[d]` shows the
versions it was written from. `Load` reads the deal, `FindAndGo`/`FindAndSkip` the
invoice search and the gate, `Fetch` the lines, `Write` the upsert (both versions)
or the line replacement (lines only). `job[w].full` tells a reconcile from
`process_line_item`; a follow-up is always full. There is no clock: `SyncLock`
shows that a live worker's row does not lapse, so `Lapse` is for rows that nobody
holds. The mode `off` stands for a prior invoice too (`prior_netsuite_invoice`).

Not every pass ends in a write, a skip or a raise. `EndUnwritten` is a handler that returns,
and so acks its message, without having written the versions; `MayEndUnwritten` says at which
step and through which fault. `NoParent` is its like before the lock. An exception of the
mapping is the one that `RaiseInHandler` does not redrive, since it does not get out of the
mapping (517-519).

`lost[d]` is a history variable. Whenever a wake-up for `d` is destroyed, or spent on a pass
that writes nothing, it records the versions of that moment. The ways are:

| Where | How a wake-up is destroyed or spent (lines of `sqs_processor.py`) |
|---|---|
| `Release` | the row is deleted with `pending_resync` set after the last look |
| `MarkPending` | the row is gone when the contender marks it |
| `Overwrites`, `Sweep` | a lapsed row is re-put (by a line-item event, which does not redo everything) or deleted with its flag |
| `ConsumeUnseen` | the flag is cleared and the reply is lost |
| `FollowUpLost` | a worker stops in the follow-up of another event |
| `FindAndSkip` | the search misses an invoice that exists |
| `LastFields`, `LastLines` | the last receive fails: the DLQ |
| `NoParent` | HubSpot names no deal for the line item: acked before the lock (1046-1053) |
| `EndUnwritten`, at `loading` | it names none at the second lookup (965-968) |
| `EndUnwritten`, at `fetching` | no contact, email, customer or subsidiary (609-657), be it absent or its query limited: a third 429 on the customer search (624-627), an empty list of subsidiaries, cached (631-657) |
| `EndUnwritten`, at `writing` | no venue (698-731); a mapping that raised (517-519) and is answered with `False` (750-752, 981-982); no line left, be it ineligible or its SKU query limited (753-779, 984-990); a PATCH of lines that stays limited, its result ignored (985) |

`EditsAccounted` and `EventuallyAccounted` then say that in the model there is no other way: an
edit is carried by a queued message, a flag or a pass that has read it, and is
synced in the end, or its loss is one of these. They do *not* say that these are harmless.
A rejection of a deal that lacks something is what the code promises. A rejection because
a query failed is what it promises not to do (`RELIABILITY.md:140-141`: "transient errors are
never misclassified as permanent"), and does: `limited_reject` is the counterexample for a
limited answer, and in `ApiRequest` (`OnRaised`) the exception of a SKU query ends the same way.

### ApiRequest

One worker runs operations one at a time; `op` is a caller, `step` its current
request, `attempt`, `calls` and `end` the loop. `Served`, `Rejected` (the externalId is
taken), `Errs`, `Lost` (with or without the write applied) and `Limited` are the
outcomes of one HTTP call; `Conclude` is the caller going on (`OnOk`, `OnLimited`,
`OnRaised`). `OtherCreates` is another worker creating the invoice, `Index` the
search catching up. The customer is there and assigned, so a rejection is never
right. `fate` is what becomes of the message; a `retry` is redelivered as the next
`Begin`.

### RequestClock

The same loop as `ApiRequest`, asked how long instead of what: `pc` is `token` at the start of an
attempt and `calling` once it has a token; every call takes `d` of `Lags` seconds and every wait
its `Backoff` or its clamped `Retry-After`. Times are what is left, so that the state stays small:
`cached` seconds to the expiry the client noted (`Mint` counts it from *before* the token call),
`valid` seconds that NetSuite accepts the token. `Denied` is a 401, after which the token stays
cached; `Revoke`, `Restart` and `Rest` surround the requests. `CallMax` stands for the connect and
read timeouts together; an answer that trickles in for longer is not modelled.

### EventRouting and EventDelivery

An event is `[sub, obj, listed]`: its subscription type, the class of its object type id,
and whether the allowlist names its object. `KeyKind` is `_resolve_lock_key`, `Handler`
the dispatch, `FollowUp` what `_reconcile_lock_key` runs, `ValidPayload` the handlers'
own check. Each lists the types again; `Agree` is that they fit together.

`EventDelivery` follows one delivery. The webhook function keeps no state and a message
is processed by itself, so deliveries meet only in what the events of a deal do to each
other, which is `CoalescedSync`. `conn` is the request: `Post` opens it, `Late` refuses it for
the age of its signature, `Check` turns away or parses the body, `SendBatch` and `SendFails`
send a chunk (a failure may have enqueued any part of it), `Finish` answers 204,
`Unanswered` is a timeout or a lost answer. An event is named by its place in the body (`Ids`
are the places of valid ones) and `sent` holds those this request handed to SQS, so that a chunk
is the first few of the rest. HubSpot posts again after a 5xx or no answer.
A message is `queue`, `routing` (before the lock) or `handler`; `Redrive` is any exception or
death, and the DLQ after `MaxReceives`.

### LineItems and DealReconcile

`LineItems` has no state. `_consolidate_line_items_by_sku` makes one row per SKU, in the order in
which the SKUs first occur: `Firsts` are the places of those lines and `Row` the row of one.
`Eligible` is the filter, `Asked` what passes it, `Queries` how that is divided among SuiteQL queries
of `QueryLimit` SKUs, `Kept` what the lookup leaves and `InvoiceLines` the whole mapping given the
SKUs that NetSuite returned. Quantities are counted in halves, so that `int()` has a
fraction to cut off.

`DealReconcile` has a worker per deal and per venue, `wk[k]`: at most one of each, since
the lock is keyed by deal and by `venue:<id>`; the two kinds run concurrently. `Start` makes the
gate's and the reconcile's checks in their order, with `flaws[d]` saying what the deal lacks.
`FindByName`, `Create`, `Claim` and `FindByExt` are `get_or_create_venue`, one HTTP call each;
`FindVenue`, `PatchVenue`, `PostVenue`, `ReadBack` and `WriteBackref` are `process_venue`. `Map`,
`Upsert`, `Relocate` and `Stamp` finish a deal. `loc` is what NetSuite holds and `seen` what its
search shows; `Index` lets `seen` catch up with one location. `Limited` marks a third 429, which
`make_request` returns and most callers take for an empty answer. `Dies` is any exception or death
before or after a write. NetSuite's `Refuses` is external: an externalId is unique, and a name too
in a `strict` account. The search is taken to return `externalId` with its items, as
`netsuite_auth.py:402` reads it. HubSpot's data do not change during a behaviour, and redrives are
not counted; edits, coalescing and the DLQ are `CoalescedSync`'s.

## Runs

| Run | Result | What it asks |
|---|---|---|
| `lock_lease` | holds | mutual exclusion, the holder's row, the inductive invariant and `DealMutex`, with `TTL = Timeout + 2 * MaxSkew`: the shortest lease that suffices |
| `lock_short_lease` | holds | fencing where holders do lose their rows |
| `sync_faults` | holds | all faults but moves: `EditsAccounted`, `SingleWriter`, `InvoiceRegister`, and the liveness of edits and messages |
| `sync_moves` | holds | line items that change deals, crashes and lost replies: rows still belong to their holders |
| `api_answers` | holds | every caller under eight faults and a race: no upsert stamped unwritten, three calls per request, retries end acked |
| `request_clock` | holds | waits, slow calls, restarts and revocations: how long a request takes at most, no token refused that was not revoked, a revoked one replaced in the end |
| `delivery` | holds | every type of event and every form of body: a 204 means queued, a 4xx untouched, nothing vanishes, the routing tables agree, every deliverable event has an outcome |
| `deal_reconcile` | holds | deals and venues racing for a location, short lists of lines, deals with flaws: right location, no duplicate or stolen location, right charges behind `created` and `modified`, every message settles or is blocked for a named reason |
| `lost_wakeup` | violated | "whichever event runs last reads current state … so the invoice converges" |
| `dead_holder` | violated | "the contending message is redriven anyway, so it simply succeeds" |
| `two_writers` | violated | "two events that touch the same NetSuite invoice never run concurrently" |
| `limited_reject` | violated | "transient errors propagate so the caller can retry" |

Deadlock is not checked for the locks and the pipeline: an installation without edits
rests, and a model at its bounds stops; nor for `EventDelivery` and `DealReconcile`, which
end when every message has its outcome. It is checked for `ApiRequest`
and `RequestClock`.

What some of the properties rule out, and where they stop:

* `SingleWriter` holds without moves (`sync_faults`); with them it is what `two_writers` refutes.
  `HolderOwnsRow` is what is left of it then.
* `AckMeansDone` is about the upsert. The venue-only PATCH (762-766) and the PATCH of lines are
  stamped or acked even when they stay limited: `ApiRequest` models that, `CoalescedSync` records it.
* `ModifiedMatches` excuses a deal with any failed call. What a limited SKU query does to an upsert
  is in `ChargesMatch`; that without an upsert its edit is not synced, in `EditsAccounted`.
* `OnlyRevokedRefused`: the token is asked for again before each attempt, so no wait of the loop
  lets it run out, and the margin of 60 s covers a call of 35 s. `RequestBounded` is tight: as
  deployed it is 346 s, so a throttled request can outlast its invocation of 200 s, which then dies
  holding the lock (the start of `dead_holder`). `RevocationEnds`: a 401 does not
  drop the token, but its noted expiry comes.
* `AnsweredMeansQueued`, `RefusedMeansUntouched`, `NothingVanishes`: no mixture of partial
  failures, chunks and resends loses an event that HubSpot was told is accepted.
* `RoutesAgree`: an event never runs under a key other than that of what it writes, and
  its follow-up, which replaces it when it is coalesced, serves the same record.
* `Arrives` needs more posts than faults, and excepts a request refused as too old: HubSpot
  is told 401 and does not resend.
* `LocationMatchesVenue`, `AttachedStays`, `BackrefRight`, `CreatedOnce`: the get-or-create by
  name of a deal and the get-or-create by externalId of its venue exclude each other by no
  lock, only by NetSuite's unique externalId. `AttachedStays` and `BackrefRight` need venue
  names to differ: with two HubSpot venues of one name a back-fill decided on a stale
  search takes the location from the venue that claimed it first.
* `ChargesMatch`: consolidation before the filter neither loses a charge nor adds one. A
  free line that is merged with a priced one of its SKU is kept, as its quantity.
  `PaidLinesOrderFree`: the order of HubSpot's lines reaches only the lines without a price.
* `Settles`: `BlockedDeal` and `BlockedVenue` list the only reasons why a redrive may never
  help: a location of another venue has the name, the venue was renamed since its location
  was written, NetSuite refuses a second location of the name, or `production_fee` is
  no number (it raises where the guest count is a recorded rejection).

### Findings

The violated runs are disagreements between the code and its documents; the quotes
are in `PROJECT.json`.

* *Lost wake-up.* An event that marks the row between the holder's last look and its
  delete was acked, and is not synced until something else happens to the deal. The
  same when it marks a row just deleted. Two workers and two edits suffice, no fault.
* *Dead holder.* A worker that dies holding the lock leaves a row that its own
  redelivered message finds busy; it is acked, nobody drains the row.
* *Two writers.* A line item that changes deals between two lookups has one deal's
  invoice written under another deal's lock.
* *The third 429.* `make_request` returns it where `_request` raises it; a customer, its
  subsidiaries (cached) and SKUs then look absent, and two PATCHes look done. An exception of the SKU query, a NetSuite
  5xx for one, is misread too, without a 429: the mapping answers it with `False` (517-519), the deal is
  told "line item mapping failed", a line-item event nothing, and the message is acked. No redrive,
  no DLQ.

## Bounds

* Workers: two. A lock key has one holder at a time; a third worker only adds another
  contender, which is what the second is. One worker where the counterexample needs no more.
* Keys and deals: one, except two where line items move. Keys share no row.
* Tokens: one per worker and row, plus one, so that a fresh one always exists; `uuid4`
  does not repeat.
* `MaxNow`: 9 with `TTL` 4: an acquisition, its lapse and the next one's whole life. 7 with
  `TTL` 1 and `Timeout` 4: several changes of owner within one worker's life.
* `MaxEdits`: 2, enough for a holder and a contender.
* `Delivery.cfg`: chunks of 2 for batches of up to 3 valid events stand for chunks of 10; 2 posts
  and 1 fault, so that a resend follows a failure; 2 receives for a retry and the DLQ. The batch
  repeats an event, which the code does not tell apart either.
* `DealReconcile.cfg`: two deals, two venues, two names, three locations (both venues' and one
  that waits), one fault; lists of up to three lines over six kinds (owned, unpriced, negative,
  fractional, not billable, unknown to NetSuite) repeat and mix SKUs; all pairs of flaws with
  `update` and `fee`. The races and the lists start from different worlds, as the lines do
  not depend on the location. A `QueryLimit` of 2 for 1000, so that a list of three SKUs takes two
  queries, of which one, the other or both are limited.
* `RequestClock.cfg`: the deployed values in units of five seconds, with a short token life, so that
  expiries fall inside requests; a hint below and one above the clamp.
* `MaxReceives`: 2 with faults (a retry and the DLQ), 5 as deployed in `dead_holder`.
* `MaxFaults`: 8 calls, enough to exhaust two requests and disturb a third.

Symmetry is used over tokens and workers in safety runs only.

## Fairness

`FairSpec` of `CoalescedSync`: a queued message is taken while a worker is free (SQS
delivers what is visible), an invocation goes on with its next step (Lambda runs it; the
faults may still end it), and an expired row is deleted or seen expired (time passes).
Edits, duplicates and faults have none. `FairSpec` of `ApiRequest`: calls return and
messages are redelivered (a dead-lettered one by the operator, as
`docs/failure-scenarios/05` describes), and the index catches up; faults are finitely many.
`FairSpec` of `RequestClock`: messages keep coming and calls return (weak), and the token endpoint
does not fail for ever when asked again and again (strong); nothing for `Revoke`, `Restart`, `Rest`.
`FairSpec` of `EventDelivery`: HubSpot posts again while it may, the function runs on once called,
SQS hands out what it holds and the worker goes on; none for `Late`, failures and redrives.
`FairSpec` of `DealReconcile`: each key's worker goes on, a redriven message is received again,
and the index takes up what it has not shown; faults are finitely many.

## Proofs

* `LockTableProofs`: what each conditional write does to the type, owner and flag of a row.
* `SyncLockProofs`, for any workers, keys, tokens and durations:
  * `TypeCorrect`; `FencingHolds`: whatever the lease, an unlapsed row loses its owner only
    to that owner's release and its flag only to that owner's consume or release.
  * under `LeaseLongEnough == TTL >= Timeout + 2 * MaxSkew`: `LeaseInvariant`,
    `MutualExclusionHolds`, `HolderOwnsRowHolds` and `Refinement` (of `DealMutex`).
    With 960 against 200 this leaves 380 seconds of skew. Without it they are false:
    a worker can outlive its row.
* `ApiRequestProofs`, for any operations and number of faults: `RequestInvariant`,
  `TypeCorrect`, `GivenUpLate` (three calls), `AckConfirmed` (no upsert acked before NetSuite
  took it).
* `RequestClockProofs`, for any durations with `CallMax <= Margin`, `2 * CallMax < Life` and
  `2 * Delay <= RetryMax`: `ClockInvariant`, `TypeCorrect`, `RequestBoundedHolds`, `OnlyRevokedHolds`.
* `EventDeliveryProofs`, for any bodies, deployments, chunk size and limits: `DeliveryInvariant`,
  `TypeCorrect`, `AnsweredHolds`, `RefusedHolds`, `NothingVanishesHolds`, `RoutesAgreeHolds`.
* `DealReconcileProofs`, for any deals, locations, lists of line items, worlds and number of faults,
  and any finite set of venues:
  * the race for locations: `PlaceInvariant`, `TypeCorrect`, `LocationHolds`, `BackrefHolds`,
    `AttachedHolds`; `NewInvariant` and, from it, `CreatedOnceHolds`.
  * the lines of an invoice: `BilledInvariant` and, from it, `NoDuplicateRowsHolds`,
    `ChargesMatchHolds` and `ModifiedMatchesHolds`; `PaidLinesOrderFreeHolds`. They assume that
    quantities and amounts are numbers (`IsLines`; a text that is none is read as 0,
    `_parse_line_amount`) and that `Stale`, which stands for an invoice's old lines, is no line
    that the mapping yields.
* `CoalescedSyncProofs`, for any deals, line items, workers and bounds, where a released token is
  never drawn again (`TokenAssumption`, a fresh `uuid4`): with all faults `TypeCorrect` and
  `HolderOwnsRowHolds`; while no line item moves to another deal, `SingleWriterHolds` and
  `ImplementsRegisterHolds` (of `InvoiceRegister`).
* `WakeUpProofs`, under the same assumptions and without moves: `EditsAccountedHolds`.

*The lease argument.* Mutual exclusion alone is not inductive: from a state in which two
workers hold without owning rows nothing stops them. `LeaseInv` adds that an invocation is
not older than `Timeout` (`InTime`), that the clock of a put on its way was read since the
invocation began (`ClockRead`), that whoever is past its put owns its row, which expires
`TTL` after that clock (`Lease`), and that no two workers carry one token
(`TokensDistinct`). Then no clock shows a holder's row lapsed (`LeaseUnlapsed`), so no put or
sweep touches it, and two holders of one key would own one row with two tokens.

*The request argument.* While the loop is open there was one call per attempt (`LoopInv`), so
its only exits are an answer and the third call. `UpsertInv` follows the steps of the upsert:
at `number`, `stamp` and `reread` the payload has been written.

*The clock argument.* `TokenInv`: until it is revoked, `cached <= valid`, since the client counts
from before the token call; so a token above the margin outlasts the call that begins with it.
`SpentInv` charges each attempt two calls and one wait, so the end of the loop bounds the request.

*The delivery argument.* A 204 is given at the end of a loop, so its meaning is the loop's
invariant: `RequestInv` says that an open request has sent nothing, that each event in `sent` is
queued, and that a request's messages carry its own number, so that a 4xx, which precedes the
loop, leaves none of that number. `RoutesAgree` needs `HandlerInv`: the tables do not agree on
payments, but no payment reaches a handler.

*The location argument.* What a worker read from the search is old when it writes. `PlaceInv`
says how old knowledge stays true: an externalId only *grows* (`Grew`), from none to a venue of
the deals' venue name, or between two such venues; a venue outside keeps its location for good.
`IndexInv` says that what the search shows grows into what NetSuite holds, and `DealPlace` and
`VenuePlace` that a worker's location has grown from what it read. Every write is then a growth
(`StepGrows`), and `LocationMatchesVenue` survives writes it does not see. When names differ only
one venue is meant, growth between venues is impossible, and `BackrefRight` and `AttachedStays`
follow.

*The new-location argument.* The bound of `CreatedOnce` is no invariant by itself: nothing stops a
third location if the first two have forgotten whose they are. `NewInv` says that a new location
keeps the externalId of a venue, its name, and that nobody else has that externalId, which
NetSuite's refusal (`Refuses`) preserves at each of the four writes. The externalId then maps the
new locations of a name injectively into the venues of the name, however many there are.

*The billing argument.* `BilledInv` follows the lines from the mapping into the invoice. What waits
for its upsert is the whole mapping, because a limited query finds nothing and so leads to no
upsert (`OneQueryLost`), or else what is left of it when the deal has more SKUs than one query
(1000) asks for: `search_items_by_sku_batch` then goes on with the other queries and the invoice
lacks those SKUs, which is why `ChargesMatch` speaks of *all* charges only of `Whole` deals. A
relocation keeps lines that are there, and is made only for a deal with nothing to
send, or after a failed call (`Bare`).
Two facts about the mapping do the rest, for lists of any length: `InvoiceLinesAre` (one line for
each kept SKU, no SKU twice) and `ChargesKept` (its amount is the sum over the deal's lines of the
SKU). `SumsOrderFree` shows that a permutation of the list permutes the terms of each sum.

*Sums without induction over data.* `SumFunctionOnSet` adds in the order of a `CHOOSE`, by a fold
that is itself a `CHOOSE` of a recursive function. `TotalsExist` builds, for any finite set, a
function that gives every subset its sum and is additive in *any* element; such a function solves
the fold's equation (`TotalsFold`), whose solution is unique on finite sets (`FoldsTotal`). What
would be an induction over the set is an argument by a smallest counterexample (`SmallerFirst`,
`LeastNumber`), from the library's facts that strict inclusion of finite sets and `<` on numbers
are well-founded.

*The pipeline argument.* `HoldInv`: who holds owns the row of its key, and no two owned rows share
a token. `KeyInv`, without moves: that key is the deal whose invoice the worker is about to
write, so two writers of one invoice would own one row. `VersionInv` then needs no more than
one worker at a time: what it has read lies between the invoice, which nobody else writes,
and the deal, which only grows; the write is a step of the register. `MessageInv` and
`BoundInv` carry the types: what a message says, and the guards that bound each counter.

*The wake-up argument.* `EditsAccounted` is not inductive: it says nothing of a deal that owes
nothing yet, and a pass that writes what it read before a later edit makes it owe that edit.
`AccountInv` adds what every pass knows (`PassKnows`): it has read the deal as it is, or somebody
else will act on it. Then only a write makes an invoice newly owe something (`NewlyOwed`), and
`PassKnows` says who carries it. The rest follows each wake-up to its end: a message to do
(`OwnMessage`, `FailedSettles`), a `pending_resync` (`FollowUpKept`) and a pass (`FieldsPassKept`,
`LinesPassKept`) each turn into another, settle what was owed, or are recorded in `lost`. For a
pass that ends without a write that last case is all there is: `UnwrittenSettles` shows that its
loss covers what it was the carrier of, an edit after its reads having one of its own.

Out of the prover's reach, and only model-checked: liveness under fairness and `ENABLED`, so
`Arrives`, `Settles`, `RetryConverges`, `RevocationEnds`, `EventuallyAccounted` and
`MessagesSettle`. Every invariant and every action property of a passing run is a theorem.

## Not modelled, and why

* the sales rep and its cache: a best-effort field whose absence changes nothing else.
* fields of payloads: addresses, dates, order types, descriptions, and the `shipAddress`.
* of the signature check all but its time window; the base64 body that is verified decoded and
  parsed undecoded is `form = "malformed"`.
* the paging of HubSpot's venue search (five pages), its case folding, and the association labels
  by which the billing contact is chosen: pure reads that end in a record or in a rejection.
* the mode without a lock table, and `deal_lock`, which only tests use.
* a NetSuite write applied after its client gave up *and* after a later write: writes take effect
  at their step, answered or not.
* which lines a written version has: in `CoalescedSync` an invoice shows the lines it was *written
  from*. That a mapping of several SKU queries may leave some out is in `LineItems` and `ChargesMatch`.
* configuration is read at import; logging, sleeps between calls, IAM, alarms.

## Plan

1. (done) `LockTable`, `SyncLock`, `DealMutex`: the lock everything rests on; its proofs.
2. (done) `InvoiceRegister`, `CoalescedSync`: the pipeline under faults.
3. (done) `ApiRequest`: what a failed request becomes; its proofs.
4. (done) `EventRouting`, `EventDelivery`: from the POST to the outcome; its proofs.
5. (done) `LineItems`, `DealReconcile`: a deal's decisions, lines as data, the race for locations;
   its proofs.
6. (done) `RequestClock`, the time of a request and its token; its proofs.
7. (done) Proofs about the lines of an invoice, new locations and the routing of events.
8. (done) Proofs for `CoalescedSync`: `SingleWriter`, then the refinement of `InvoiceRegister`, then
   `EditsAccounted`.
