# MillQ in TLA+

MillQ runs the stock and the sales of restaurants: goods are received, produced, sold and
written off, and every movement carries a cost. The code is a TypeScript monolith
(`src/apps/api`, `src/packages/domain`, `src/packages/contracts`) over one PostgreSQL database,
accessed with `BEGIN ... COMMIT` in the default READ COMMITTED isolation. All concurrency is that
of HTTP requests served at once; what is hard is what they do to each other between their
statements, and what replays, retries and reversals do to costs.

This directory holds the models of that system, the TLC configurations that check them on small
instances, and TLAPS proofs for every instance.

## 1. Inventory of the system

| Part | State | Operations | Talks to |
| --- | --- | --- | --- |
| Cost engine (`domain/moving-average.ts`, `issue-cost.ts`, `cost-value.ts`) | none; a stream state while replaying | apply inbound / outbound, merge certainty, order movements, quote an issue | called by every posting service |
| Valuation streams (`modules/inventory/rebuild-balance.ts`, `inventory_movement`, `inventory_balance`) | movements (append only), one balance row per stream | `lockValuationStream`, `rebuildInventoryBalance` | called inside every posting transaction |
| Goods receipts (`modules/procurement`) | receipts, their lines, posted fingerprints | `createDraft`, `updateDraft`, `post`, `reverse` | streams, fact feed |
| Sales orders (`modules/orders`) | orders, lines, open terms, consumption plan, commercial snapshot, completion reversals | open, line edits, `setOrderCommercialTerms`, `cancelOrder`, `completeOrder`, `reverseCompletedOrder` | goods issues (same transaction), recipes (read), fact feed |
| Goods issues (`modules/inventory/goods-issue-service.ts`) | goods issues, evidence lines, reversals | post from a consumption plan, reverse | cost engine (quotes), streams, fact feed |
| Production (`modules/production`) | batches with actual inputs and outputs, postings, reversals | `createDraft`, `updateDraft`, `finalize`, `post`, `reverse` | streams, recipes (read), fact feed |
| Recipes and preparations (`modules/recipes`) | specifications, versions, components | drafts, publish, next version, scale; acyclicity under a tenant advisory lock | read by production and sales |
| Sale consumption, recipe graph, yields, order discounts (`domain`) | none | pure functions | orders, recipes |
| Reporting (`modules/reporting`) | none (read model) | aggregate actual cost of goods sold with its certainty | goods issues, reversals |
| Fact feed (`operational_fact_feed`, `contracts`) | facts | append in the posting transaction | downstream readers |

Behaviours that are hard to get right and to test:

* A service call reads a document outside its transaction, decides, and writes under a lock taken
  later. Goods receipts re-check little after the lock; sales orders repeat every decision.
* A posting transaction inserts movements, then locks and rebuilds several balance rows. The
  rebuild must not miss movements another transaction is about to commit, and the locks must not
  deadlock.
* Clients retry with idempotency keys, possibly while the first attempt is still running.
* Documents are recorded in another order than their business chronology; equal positions cannot be
  ordered and must be flagged.
* Quantities cross zero in both directions; costs are quoted from a state the same transaction then
  changes.

What makes each part correct, in one line each. Cost engine: the replay is a function of the set of
movements unless it is flagged, and does what the chronology says. Streams: every committed balance
is the replay of exactly the committed movements. Goods receipts: posted once, immutable afterwards,
facts and movements agree, answers are true. Orders: written off once, priced for the lines sold,
final when closed, given back exactly when reversed. Production: the batch output carries the cost
of its inputs, once; a posting and its reversal are each one event with no net effect together.
Recipes: no version is part of itself, what is published is published all the way down and stays as
it is, so that it can be sold. Discounts: shares add up, within the lines, as near to proportional as
integers allow. Reports: the two grains agree, and nothing unordered is shown as exact.

`PROJECT.json` lists the components with their status and, under `hazards`, each place where this
code could go wrong in a way that is hard to test, with the properties that would notice.

## 2. Modules

```
CostStream                 the cost engine: pure operators, and what its results must come to
 |-- CostStreamProofs      lemmas about the engine (with FiniteSums), used by all proofs about stock
 |-- StockEconomics        the life of one stream, one committed document per step
 |    |-- StockEconomicsProofs
 |-- InventoryLedger       what inventory promises: a posting is one step (abstract)
      |-- ValuationStreams the posting transactions, statement by statement
           |-- ValuationStreamsProofs  (with CostStreamProofs)
           |-- GoodsReceipt     goods receipt calls over those transactions
           |    |-- GoodsReceiptProofs
           |-- SalesOrder       orders, completions, reversals over those transactions
           |    |-- ActualCogs          what reports read of them
           |    |-- CommercialSnapshot  the money they are frozen with (with OrderDiscount)
           |         |-- SalesOrderProofs   (of all three and OrderDiscount)
           |-- ProductionBatch  batches, postings, reversals over those transactions
           |    |-- ProductionBatchProofs
ReversibleDocuments        what a posting service promises of its documents (abstract)
RecipeGraph                recipes and preparations: versions, locks, publication
 |-- SaleConsumption       the explosion of a published recipe
      |-- RecipeGraphProofs  (with FiniteSums)
OrderDiscount              the allocation of an order's discount: pure operators
FiniteSums                 lemmas about sums over finite sets, for the proofs
MCStockEconomics, MCValuationStreams, MCGoodsReceipt, MCSalesOrder, MCProductionBatch,
MCRecipeGraph              instances for TLC
```

`ValuationStreams` implements `InventoryLedger`, and `ProductionBatch`, `SalesOrder` and, while its
calls do not overlap, `GoodsReceipt` implement `ReversibleDocuments`: an `INSTANCE ... WITH` maps the
posting status of a batch, an order or a receipt to a document's status, and the net effect of its
movements and those of its reversal (`NetEffect` of `InventoryLedger`, a signed sum per stream) to the
document's effect. A posted document has an effect, unless its kind may give an item back as much as
it takes (`MayCancelOut`): for a batch that is so when what it makes is among what it consumes, which
the code does not forbid; a sale only takes and a receipt only brings. A reverse document of a receipt
is no document of its own there: its movements count for the receipt it names.

`PROJECT.json` maps every definition to the lines it models. What a reader of the code needs to know
besides:

**CostStream.** Quantities and amounts are integers counted in the smallest fraction the code keeps,
so `roundCostValue` rounds a quotient to an integer, half to even. A business position is
`(business_date, business_order)`; recording time does not exist. The code sorts the rows PostgreSQL
returns by position and by effect class (a reversal after what it may reverse); rows that tie keep
the order of the result set, which the query does not fix, so `Replays` is the set of the results of
all the orders the sort allows and `RebuiltStates` puts certainty ORDER_UNRESOLVED where the code
does. `IssueQuotes` is a set for the same reason. At the end stands what a replay must come to,
independently of the loop, as sums over sets of movements (`Carries`): the quantity is what came in
less what went out, always; where the sort leaves two rows in any order, the certainty says so; where
it does not and the stock was never negative (`NeverNegative`), value and certainty are those of what
moved since an outbound last emptied the stream. Of the worth of a stream that has been below zero it
says nothing: there the code does what ADR-0003 forbids (section 5).

**StockEconomics.** One stream. Each action records what one kind of document records: a receipt
line, a production output, an issue at its quote, and compensations. The costs of issues are not
inputs but what the engine quotes at that moment.

**InventoryLedger.** The abstract specification: `Post(M)` adds movements and makes every touched
balance their replay, in one step.

**ValuationStreams.** `inserted`, `rebuilt` and `streamLock` are what an open transaction has
written or locked. A statement sees the committed movements and its own (READ COMMITTED).
`lockValuationStream` is the insert-or-nothing followed by `SELECT ... FOR UPDATE`: it waits while
another transaction holds the row. The services visit streams in sorted order, which
`NextStreams` models. Commit publishes and unlocks; rollback is any exception or crash. A posting
inserts finitely many rows. `StockIsWhatMoved` says of the committed balances what `Carries` says of a
replay.

**GoodsReceipt.** Every call is `peek` (the header query), `ReadLines` (the second query, with the
local decisions that follow), the opening of the transaction on the document's row (`LockReceipt`,
`MarkReversed`), the write of the unique key, for which the call waits with that row in hand, together
with the inserts that follow it (`PostWrite`, `ReverseWrite`), the stream statements, and a
commit. `call[s].seen` is the snapshot the service goes on using. The conditional
`UPDATE ... WHERE status = ...` of `reverse` takes the row lock or matches nothing; which of the two is
kept in `locked`. `updateDraft` writes in one step, because its header update either holds the row or
matched nothing; two late updates of one posted receipt that interleave their line inserts are not
modelled. `Content` is what the code lets into a draft: at least one line, each of a positive quantity
(`ContentAssumption`; the schemas of `createDraft` and `updateDraft` and `validateLine` refuse anything else).
Keys of reversals are `reverse:` + key in the code; the pairs `<<"reverse", k>>` keep the
two kinds apart, and a client that itself sends such a key is not modelled. Line ids, movement ids
and document ids are numbers of calls.

**SalesOrder.** Opening, editing, pricing and cancelling are one transaction each that locks the
order row first and touches that order only, so each is one step, enabled while no completion or
reversal holds the row; an edit the code refuses changes nothing and is a stutter. `completeOrder`
and `reverseCompletedOrder` are peek, key check, lock with second look, document insert (which waits
for a transaction that has written the same key), stream statements, commit. The consumption plan
and the goods issue lines are one set of leaves, `order[o].plan`; `Menu` gives the leaves of a dish
and never changes: a completion reads the latest published version once, and what it reads is fixed
all the way down (`RecipeGraph`). A failing recipe lookup is one of the exceptions `Rollback` stands
for. A dish's leaves name different items, because the explosion merges leaves of one item; two
lines of an order may consume the same item. The business time and the reason of a command
only enter its fingerprint and are folded into the position. `Supply` is any other document posting
receipts in the same streams. A lost answer is a client calling again: calls do not know who made
them.

**ActualCogs.** The reporting service keeps nothing: its queries are operators on the state of
`SalesOrder`. A movement's cost is split over the evidence lines as `postGoodsIssue` splits it, the
last line taking the remainder; the line grain then adds what the physical grain adds, which is the
property. Two effects tie when they are of different goods issues at one position of a stream.

**OrderDiscount, CommercialSnapshot.** `allocateOrderMerchantDiscount` and its callers on integers,
with an independent reference definition, `Fair`: among all integer allocations within the bases the
one nearest to proportional, ties burdening earlier lines. `DiscountIsDealtFairly` says so of every
small input; it has no state, and TLC evaluates it as an assumption of `MCStockEconomics`.
`CommercialSnapshot` puts the arithmetic into the life of an order: terms are accepted only for lines
that can bear them (`Acceptable` in `SalesOrder`, which knows no amounts, is `CanBear` here), stored as
sent, and allocated again when a completion freezes them.

**ProductionBatch.** Draft, update and finalize are one step each, as for orders. `post` quotes its
input lines one statement at a time (`QuoteLine`) and other transactions commit in between;
`WriteProduction` inserts all movements at once, which nobody can tell from one at a time, because
they are invisible to others until the commit and the session's own quotes read strictly earlier
positions. `post` looks its key up before the transaction and writes it with its last statement, so
the unique index may refuse everything at the end (`RefuseKey`); `reverse` writes its key first and
waits there. Answers are kept as what a caller can do with them: created, duplicate or refused.

**RecipeGraph.** Every command is one transaction: row lock and status check (`LockRow`), the
tenant's advisory lock (`LockGraph`), validation and writes in one step, commit. A created draft has
a fresh specification (`randomUUID`). Components are the nested versions only, each with the unit it
is measured in; `Amount` stands for the batch size with the quantities scaled along. The code
searches for cycles over specifications, along their latest versions; the property is about
versions. `Acyclic` and `Reachable` are stated with sets of versions in place of recursion, so that
they can be proved about. `WaitsFor` is the relation PostgreSQL's detector looks at; `DeadlockAbort`
is what it does.

**SaleConsumption.** The recursive explosion, with `visiting` the path from the root as in the code,
over the versions of `RecipeGraph`, as a recursive function on version and path (`Explosions`). Each
component is one output of what it names and leaves are counts per version, so that the property can
count: a part reached along two ways is consumed twice. A component in another unit of the same
`Dimension` is converted, as `scaleFactor` does, in another dimension it fails. `PublishedRecipesSell`
is about recipes whose parts are measured in the units they have (`MeasuredInItsUnits`), because
publication does not see to that (`UnitDrift`).

## 3. Runs

Twelve runs. Deadlock checking is off in all of them, because the systems stop: no more calls are
made when the bound is reached. (`RecipeGraph`, where calls can wait in a circle, has
`DeadlocksAreOfTwo` in its place.)

| Run | Instance | States | Shows |
| --- | --- | --- | --- |
| `StockEconomics` | 3 positions, quantities 1-2, 4 movements; discounts over 3 lines | 54,431 | the replay loop equals the reference sums; one replay unless flagged; an issue takes its share of the worth and keeps the average; discounts are dealt fairly |
| `ValuationStreams` | 3 sessions, 2 streams, 5 rows | 27,017 | committed balances are replays, with what came in less what went out on hand; refinement of the ledger; no circle of waiting; every posting ends |
| `ConcurrentReceipts` | 2 sessions, 2 keys, 4 calls | 109,357 | posted exactly once, feed mirrors it, answers true, every call returns |
| `SerialReceipts` | 1 session, 2 keys, 6 calls | 465,133 | what holds when calls do not overlap: postings match documents, post retries are duplicates, posted receipts are immutable; refinement of reversible documents, so that a receipt is reversed once, to nothing |
| `SalesOrders` | 2 orders, 2 sessions, 2 keys, the position after the receipt, 2 calls | 247,404 | stock is what was supplied less what the orders that stay sold consume; every call returns |
| `OrderLifecycle` | 1 order, 2 lines, quantities 1-2, 2 sessions, 2 keys, 2 positions, 3 calls, up to renaming of sessions and keys | 448,851 | written off exactly once, snapshot prices what was sold and adds up, reversals restore it, feed mirrors it, reports agree, closed orders are final, retries are duplicates; refinement of reversible documents |
| `ProductionBatches` | 2 batches, 2 input lines, 2 sessions, 2 keys, 3 calls and a receipt, up to renaming | 646,360 | produced once at the cost of the inputs, stock is what was supplied and recorded, feed mirrors it, refinement of reversible documents, finalized is immutable, retries are duplicates |
| `Recipes` | 4 preparations, 1 recipe, 2 versions each, 2 nested, 2 units of two dimensions, 2 sessions, 6 commands, up to renaming of sessions and preparations | 1,471,847 | no cycles, published is closed and immutable, one draft, a published recipe whose parts are measured in their units explodes, by one path, however units drift elsewhere; all that can make calls stand still is two that wait for each other |
| `StalePosting` | 2 sessions, 1 key, 3 calls | violation | a posted receipt whose lines are not those of its movements |
| `DoubleReversal` | 2 sessions, 2 keys, 4 calls | violation | two reversals of one receipt |
| `UnitDrift` | 2 preparations, 2 units, 1 session, 5 commands | violation | a published preparation measures a nested one in a unit it no longer has |
| `FilteredTies` | 2 orders, 1 session, 3 calls | violation | a report of one of two tied sales is shown as exact |

Each property of a passing run is known to be able to fail: `PROJECT.json` names a plausible bug for
it (a lock not taken, a check not repeated, a compensation at the wrong position, ...) under which
TLC finds the violation with the same configuration.

Type invariants are proved (section 4); the runs leave all but that of `GoodsReceipt` to the proofs
and spend their time on properties that say more.

### Bounds and why they are enough

* Four movements: two that tie or cross zero, one to quote from, one compensation. Positions include
  two orders on a date and a smaller order on a later date. A production output without a cost beside a
  receipt at 3 makes averages that need rounding.
* Two streams are what a lock cycle needs, and three sessions leave one waiting while two interact.
  The rows can be recorded against their chronology.
* Goods receipts: `createDraft` is a call as well, so four calls are a receipt with three overlapping
  calls on it, or two receipts with one call each. Key reuse, retries, update during post and double
  reversal all fit, as the violations show.
  One content names its lines in the other order than the streams are locked in.
* Sales: the dish has two leaves of two items and an order up to two lines, so one movement
  aggregates two leaves of different quantities; two orders under one key make the second insert of a
  key wait for the first, and under two keys both can be sold at once, so that the account adds up plans
  of more than one order (`SalesOrders` sells at one position only, the later). Three calls on one order are a completion, a reversal and a third that
  retries or races either. The price is one discount of two units, which the first line can bear alone,
  the second cannot, and both bear as one and one, against their bases; wider inputs are those of `DiscountIsDealtFairly`. Two *reversals* that share a key
  need two completed orders first, four calls and two keys: that is not reached by a run (the proofs
  cover it for everything they state).
* Production: the input lines come in the other order than the streams are locked in; the actuals are
  a normal batch or a total loss; two batches and two keys let a key be taken by the other batch
  between look-up and last statement; three calls post, reverse and repeat either. Drafts and the one
  supply are not counted as calls.
* Recipes: row locks and the share locks of foreign keys already keep two commands from closing a
  cycle of two, so a cycle needs four preparations, two sessions and six commands; a second version
  is what makes the latest version differ from the nested one. The same six commands draft, share,
  publish and sell three compositions, or let a unit drift below a recipe and publish it. The two
  units cannot be converted; drafts begin in one of them, and the other is what an update that names
  no new parts may give a preparation (`UnitsDriftLater` in `MCRecipeGraph`): that is enough for
  `PublishedRecipesSell` to fail without its hypothesis. `UnitDrift` has no such bound.
* Everything TLAPS proves holds without these bounds, except that `MaxCalls` and `MaxLines` remain
  numbers: behaviours are finite in calls, of any length.

### Fairness

Only liveness (`EveryPostingEnds`, `EveryCallReturns`) assumes any. PostgreSQL queues the waiters of
a row lock or a unique key and wakes them in turn, so a session that can again and again take its
next statement takes it: strong fairness of `lockValuationStream` for each session and stream in
`StreamFairness`, weak fairness of the other statements of a session, and strong fairness of a
session's `CallStep` in the two document models. Nobody is obliged to start a call, and nothing is
obliged to fail. The property is about the order of waiting: with unsorted streams it fails.

## 4. Proofs

All theorems but one about the pure discount are of the form `Spec => ...`, for every value of the
constants that satisfies the named assumptions (`Item` are naturals, as a UUID is the number whose digits it is written with, so that there is an order to lock in; the free lock is no session; every
movement is of a stream and a well-formed row, `WellFormed`: a natural quantity, an integer cost, a
direction, a certainty, a position of two integers; the quantities of documents are positive; bounds are naturals;
the lists of lines and leaves are sequences).

* **CostStreamProofs.** The engine, for any finite set of well-formed rows. The order the sort is given
  is strict, and total unless the stream is flagged, so of rows without ties exactly one is replayed
  last, and the replay is one step more than that of the others. By the smallest set of rows for which
  it fails, there is one replay, and it carries the sums over what moved since the stream was last
  empty. With ties there are several replays, which may differ in value; that all of them have the
  same quantity needs no order at all (`ReplayCounts`). Together, `RebuiltCarries`: whatever
  `rebuildInventoryBalance` may come to is what `Carries` asks. (The lemmas prove the sums across zero
  too; no theorem claims them, because below zero they are what the code does and not what it should.)
* **ValuationStreamsProofs.** `StreamsCorrect` proves the type invariant and `BalanceIsReplay`.
  The latter is not inductive: a commit publishes balances computed earlier. `StreamInv` adds
  `RebuiltIsCurrent` (a rebuilt, uncommitted balance is the replay of what its session sees now,
  because the session holds the lock and nobody commits into a stream without it) and
  `TouchedIsTracked` (no stream with an inserted row is forgotten). One lemma per statement.
  `StreamsImplementLedger` shows every step to be a `Post` or a stutter; it needs rows drawn by
  different sessions to be different (`RowsAreFresh`).
  `StockFollowsMovements` is the conservation of stock, `StockIsWhatMoved`, by `RebuiltCarries` of what
  `StreamsCorrect` says are replays; it adds that there are finitely many rows (`RowsAreFinite`). No
  lost update, race, rollback or crossing of zero can make the quantity of a committed balance differ
  from what the committed documents moved. `ReceiptsConserveStock`, `SalesConserveStock` and `ProductionConservesStock`
  carry it to the services, all of whose steps are steps of the posting protocol or nothing to the
  streams.
  `StreamsDoNotDeadlock` is the part of liveness that is a safety property: no set of postings waits
  in a circle, however many there are. Its inductive part is `LocksAreSorted`: what a posting
  holds comes before everything it still has to lock. Of postings that all wait, the one that waits for
  the last stream waits for somebody who holds it and so has nothing left to wait for but a later one.
  `ReceiptsDoNotDeadlock`, `SalesDoNotDeadlock` and `ProductionDoesNotDeadlock` carry this up to the
  services, where a call also waits for document rows and for unique keys, in that order and before it
  inserts a movement, and keeps what it has got meanwhile (the key a production posting writes with its
  last statement is refused or not when nothing is left to wait for): a row is kept by a call that waits for its key or already
  writes movements, a key by one that writes. So whoever stands in a circle of calls waits, directly or
  over one that waits for its key, for a writer, and writers wait for streams only: the writers in the circle
  would be a circle of postings.
* **StockEconomicsProofs.** `StreamInv` is the type invariant with finitely many movements and copy
  numbers below the count of rows that are equal otherwise, so that a recorded row is a new one. The
  movements are then rows of the engine's lemmas, and from these follow `StockTypes`, `ReplayIsUnique`,
  `CarryingFollowsMovements` and the action property `IssuesTakeShares`: an issue is replayed last of
  what is not after it (`LastIsReplayedOn`), from the state it was quoted from, and the rounding of the
  unit cost is at most half a smallest unit (`RoundingIsClose`), so `q` of `Q` units are off by at most
  `q` halves of one (`ShareIsClose`).
* **GoodsReceiptProofs.** `ReceiptsKeepBalances` follows from every call step being a stream step or
  nothing to the streams. `ReceiptsTypeCorrect` and `ReceiptsPostedOnce` use `ReceiptInv`: types,
  `DocumentsOK` (per document: no movement in DRAFT, one per line when POSTED), `IdsAreFresh` (a call
  in progress has a number no document, row or other call has) and `CallsOK` (a writer's rows are
  those of its snapshot, and at most one writer holds a document). `ReceiptsImplementLedger` is the
  refinement. `PostingsInv` adds what the facts and the answers rest on: the feed's account of a receipt is
  computed from its rows and those of its reversals, and a session that is about to answer has read
  what it answers with. From it `FeedTellsReceipts` and `PostAnswersHold`, for calls that overlap in
  any way. The five `Serial...` theorems are about calls that do not: they are stated as
  `Spec /\ []OneCallAtATime => ...`, for any number of sessions of which at most one is in a call at a
  time. The hypothesis is not a convenience: without it the code breaks these properties, and the runs
  `StalePosting` and `DoubleReversal` show how. Under it what a session has read is what is there
  (`SerialInv`), and so postings match documents, nothing is reversed twice, a retry of `post` is
  a duplicate and a posted receipt stays as it is.
  `SerialReceiptsImplementDocuments` is the refinement of the abstract documents under the same
  hypothesis, which `DoubleReversal` shows to be needed there too. `EffectsStand` says what a receipt's
  status tells of its effect: nothing of a draft, something of a posting (its rows all come in, and there
  is at least one), nothing of a receipt that some document reverses. With it a step only has to be
  shown to leave the *other* receipts alone: a commit's new rows are about the receipt it posts or
  reverses, and the reversal of a reverse document is about none, a stutter.
* **SalesOrderProofs.** `SalesKeepBalances` as above. `SalesInv` consists of the type invariant,
  `SoldExactlyOnce`, `CallsOK` (a completion's rows are the plan of the lines its order still has, and
  no two calls hold one order) and `IdsOK`. Edits are one lemma: they replace an order that is open and
  that nobody holds. Commits are another: only a completion changes its order. From it
  `SalesTypeCorrect`, `OrdersSoldOnce`, the action property `ClosedOrdersStay` and the refinement
  `SalesImplementLedger`.
  What else a sale leaves behind is proved on top of `SalesInv`. `DocumentsInv` says per order
  (`OrderOK`) that accepted terms are those of the lines the order has *now*, that the goods
  issue repeats the order's key and position, that the reversal's rows are the compensations of the
  sale's rows, and that the feed's account of the order is computed from its documents (`FactsOf`).
  None of it is inductive without what a call knows under the lock (`CallHolds`: a completion saw
  terms, a reversal saw no reversal, a writer's key is nobody's, a reversal's uncommitted rows are
  still those it must return) and what the unique indexes keep apart, the keys inserted and not yet
  committed included (`KeysApart`). From it `SnapshotsPriceSales`, `ReversalsRestoreSales`,
  `FeedTellsSales` and the action property `SalesRetries`: the peek, the key check, the second look and
  every error give the answer *duplicate* exactly to the repetition of what is committed.
  `SalesImplementDocuments` maps a completion to posting one document, a reversal to reversing it, and
  every edit, receipt, failure and uncommitted statement to a stutter. A completed sale takes something,
  because every order that completes has a line and every dish a leaf; a reversed one comes to nothing,
  in quantity and in cost, because its compensations are computed from the sale's rows (`OrderOK`) and
  not from costs of the day.
  `SalesAccountForStock` closes the circle from balances to documents (`StockIsSuppliedLessSold`): the
  balances carry what the rows moved (`SalesConserveStock`), every row is a receipt's, a sale's or a
  reversal's (`RowsAreKnown`, which rests on what calls are known to have inserted), the rows of one
  order come to nothing or to its plan taken off (`OrderTakes`), and the rows of all orders are those of
  each (`SumOfParts`).
* **SalesOrderProofs, the figures of a sale.** `ReportsCountMovementsOnce` is about reports, `CogsGrainsAgree`, for every state
  and every selection of a query. It needs that evidence lines of different issues have different numbers
  (`LinesInv`), that there are finitely many, and that the shares a movement's cost is split into add
  up to it, the last line taking the remainder. Then the effects of the two grains are accounts of
  the same sums (`SameAccount`), and selecting, setting tied positions apart and aggregating keep them
  so; a reversal cancels effect by effect.
  `WholeReportsShowTies` says how far `TiesAreNeverExact` goes, which the run `FilteredTies` violates: it
  holds of every query that does not select by order. The other document of a tie has the same item and
  date, so no other filter can hide it.
  `DiscountsAreFair` is about the allocation, for any finite number of lines and any amounts, and
  `SnapshotsAddUp` about the money every completion freezes. The remainders of rounding down add up to
  the residual times the total, so there are lines enough and the code's refusal of a residual is
  unreachable. That nothing is nearer to proportional is not shown by exchanging units one at a time,
  which would be an induction, but at once: with a threshold between the remainders of the lines that
  bear a unit more and those of the others, the squared distance of any allocation is that of the code's
  plus a natural number per line (`Cost0`, `Cost1`) plus a multiple of what the two allocations
  differ by in all, which is nothing. A sum of naturals is nothing only where each is, so what is as
  near differs in lines of the threshold's remainder only, and there the code burdens earlier lines.
  The snapshot then needs that its terms were accepted for lines that can bear them, and that these
  are the lines it is frozen with, which is `OrderOK`: of terms left over from other lines it would
  not be true.
* **ProductionBatchProofs.** `ProductionInv` has one part per batch (`BatchOK`: its rows are those of
  its actuals, its compensations and its facts are computed from its rows), one per session
  (`SessionOK`: the rows quoted so far are those of the first lines of the batch it holds, and what it
  has inserted is what it will commit), the unique indexes and `SessionsApart`. From it the type
  invariant, `BatchesProducedOnce`, `FinalizedStays`, `ProductionRetries`, `FeedTellsProduction`, the
  ledger, and `ProductionImplementsDocuments`: every step maps to posting or reversing one document or
  to a stutter. The last needs the movements and their compensations to add up to nothing, in quantity
  and in cost, and a posted batch to add up to something.
  `ProductionAccountsForStock` is the account of `SalesAccountForStock` for production
  (`StockIsSuppliedAndProduced`): of one batch the rows of an item come to what it recorded
  (`PostingYields`), which for a lost batch needs that `assertDeviationRules` held of what was recorded
  last (`LossesAreEmpty`, inductive along the commands), and of a reversed one to nothing.
* **What the three refinements share** is in `ValuationStreamsProofs`: rows and what gives each of them
  back come to nothing in every stream (`OppositesCancel`), rows that all go one way come to something
  (`OneWayIsSomething`), and no rows to nothing (`NoRowsNoEffect`).
* **FiniteSums.** The sums (`SumFunctionOnSet` of the community modules) are folds, and the induction
  they need is out of the prover's reach. The lemmas use the well-foundedness of the subset order
  instead: among the subsets for which a claim fails there is a smallest one, and from it the claim is
  refuted. So they get what a sum over an empty set, an element, a union, an image and a set with its
  compensations is, and that rows and columns of a table add up to the same (`SumSwap`)
  and a set to what its parts add up to (`SumOfParts`).

* **RecipeGraphProofs.** `RecipeTypeOK`, then `OneDraftAtATime`, `RecipesStayAcyclic`,
  `PublishedStaysClosed` and the action property `PublishedStays`, for any number of preparations,
  recipes, versions and sessions. Acyclicity by version is not inductive, because the code searches
  specifications along latest versions only. The invariant adds that the graph the code searches is
  acyclic, that everything but the latest version of a specification is published (so a draft is
  always searched), and that what a command is about to commit was checked against the graph it will
  be committed to, which nobody else can change because the committer holds the tenant lock. A version
  created by `createNext` has the components of one that passed.

  `RecipeDeadlocksAreOfTwo` is about waiting. Commands can deadlock, and the code leaves that to
  PostgreSQL; the theorem says what its detector has to find, for any number of commands. Whoever waits
  for a row waits for a holder, and a holder that waits at all waits for the tenant lock or, holding
  that, for somebody who waits for it. So any set of commands that all wait for commands of the set has
  two that wait for each other.
  `MatchingRecipesSell` is about the explosion. It is recursive over the graph, and the induction is
  replaced twice by a smallest counterexample. First, that the recursion is defined at all: among the
  paths of versions for which no table of results exists there is one with fewest versions left to
  visit, and it can be completed (`TablesExist`, `ExplosionEntry`). Second, that no published version
  fails: among those that do there is one that contains no other, because the graph is acyclic, and what
  it is made of succeeds (`PublishedStand`). Its leaves are then counted (`Plan`) from the top and from
  the bottom, and that both agree is the exchange of two sums (`PlanAddsUp`, by `SumSwap`).
  The property's hypothesis, that everything below the recipe is measured in the unit it has
  (`MeasuredInItsUnits`), is what the code does not keep. `UnitsKeptMatch` and
  `UnitsKeptSell` say of it that there is one gap only: if no command changed the unit of a version some other
  version contains (`UnitsInUseStay`), published units would match (`NestedUnitsMatch`) and everything
  published would sell (`EveryRecipeSells`), although publication does not look at units.

Only model-checked: liveness (`EveryPostingEnds`, `EveryCallReturns`), which rests on fairness. What the
services' liveness needs of their locks, that calls never wait in a circle (`NoCircleOfCalls` of each
service), is proved and has no run of its own.

## 5. Where the code and its documents part

Found while modelling; each has a run, and `PROJECT.json` quotes the sentence it contradicts.

* `post` of a goods receipt writes what it read before its transaction (`StalePosting`), and a late
  `updateDraft` rewrites the lines of a posted receipt.
* `reverse` of a goods receipt ignores the row count of its conditional update (`DoubleReversal`).
* Publication does not ask again whether nested preparations are still measured in their unit
  (`UnitDrift`); sales of what was published so fail with INCOMPATIBLE_UNIT when the units are of
  different dimensions (`Convertible` ones are converted).
* Actual COGS looks for unordered positions among the effects a query selected (`FilteredTies`), so a
  filter that hides one of two tied sales shows the other as exact.

Seen in the model and without a run of their own:

* `reverse` of a goods receipt accepts a reverse document, whose compensation is hard-coded OUT
  (`goods-receipt-service.ts:420`), and takes the stock out again; and it checks the status before the
  key (`:342`), so that the retry of a reverse that succeeded is refused and its duplicate answer is out of
  reach.
* Negative stock has no deficit ledger (`block-d1.2b-production-posting.md:45` puts it out of scope),
  and `applyPositiveInbound` (`moving-average.ts:84`), whose comment says "with no open deficit", is
  used with one. A stream that crosses zero from below therefore carries the signed sum: 5 sold at 30
  from no stock and 10 received at 40 leave 5 worth 250, the "naive `-150 + 400`" that ADR-0003 does not
  allow (sections 6-7, invariants 7 and 11, and the example at lines 305-314: 5 worth 200 and a delta of
  50). An inbound that lands on exactly zero leaves the difference as value on no stock. `Carries` says
  nothing of the value of such a stream, and the models carry whatever the code does.
* An issue of more than is on hand is quoted as a whole at the average, with the certainty of the
  stream, FINAL included (`issue-cost.ts:109`); section 6 of ADR-0003 wants the deficit part
  ESTIMATED_FROM_LAST_KNOWN. A receipt that leaves the stock negative does not become the last known
  cost, which is taken from averages of positive stock only (`issue-cost.ts`, `replayStreamBefore`).
* The residual of an issue that empties its stream vanishes: the balance becomes zero, but the issue's
  cost stays quantity times the rounded unit cost, where section 5 of ADR-0003 assigns the residual to
  the issue. It is at most half a smallest unit per unit issued (`IssuesTakeTheirShare`).
* Any reversal is replayed after any other movement at its position (`moving-average.ts:251`), whether
  or not it reverses it; ADR-0027 section 5 wants two unrelated facts at one position flagged. The
  models order such a pair as the code does, so no property finds it.
* Two input lines of one production batch that name the same item tie with themselves: their stream
  becomes ORDER_UNRESOLVED. Goods issues aggregate per item for that reason, production does not. So
  do two lines of one goods receipt.
* A production post repeated after its reversal is refused (`production-posting-service.ts:159`), where
  a sale's completion repeated after its reversal is a duplicate.
* Recipe commands can deadlock: one holds a version row and waits for the tenant lock, whose holder
  inserts a component that refers to that row. PostgreSQL fails one of the two, and the caller sees an
  error that is not one of the domain's.
* Of two *concurrent* posts of a receipt with one key, the loser is answered with a
  posted-immutable error (`goods-receipt-service.ts:248`), not as a duplicate; a later retry is a
  duplicate (`PostRetryIsDuplicate`).
* A reversal of a sale that loses a race against one with its key but another position is told
  ALREADY_REVERSED (`orders-service.ts:1042`), where the same request a moment later is a conflict.
* Commercial terms carry no version of the lines they were composed for: terms set after a
  concurrent line edit, or the retry of a replaced reprice, are accepted.

## 6. Plan

Done: the cost engine, the posting protocol, goods receipts, sales orders with their goods issues,
their money and their reports, production, recipes and the explosion of what is sold.

What would come next:

1. Quotes: a history variable for what an issue was quoted from, to state what a concurrent posting
   may do to it.
2. The choice of a sold item's root (`resolveSaleLineConsumption`: profile, tracked preparation or
   direct stock) and a `Menu` in `SalesOrder` that follows publication.
3. UNKNOWN certainty of commercial terms, and the reporting filters that are left out.

Not modelled, and not planned: HTTP routes, configuration, the connection pool, migrations runner and
the web shell (wiring without state of their own); schema validation in `contracts` (data shapes);
exact decimal and unit arithmetic, whose effect on the models is the choice of the smallest unit;
and actor, device and timestamp columns, which no decision reads.
