# A TLA+ model of the Feynman execution engine

This directory specifies the core of the engine in TLA+, checks it with TLC on
small instances and proves its main invariants with TLAPS for all instances.
Paths below are relative to the repository's root.

## 1. The system and its parts

An order enters as `SubmitOrder`, is risk-checked, given a client order id,
routed to a venue over a bounded channel, acknowledged, and from then on follows
what the venue reports. One task, the sequencer, owns all state.

| Part | State | Operations | Talks to |
|---|---|---|---|
| Sequencer (`crates/engine-core/src/sequencer.rs`) | core, sequence counter, snapshot cache, client-order counters, restart epoch, two receivers | `new`, `run`, fifteen commands, `process_command` | journal (awaited call), submit channel (`try_send`), clients (oneshot replies) |
| EngineCore (trait, `engine-core/src/lib.rs`) | `EngineState`: orders, idempotency cache, agent statuses, positions, limits, firm book | `evaluate_order`, `on_fill`, `on_reconciliation`, `pause_agent`, ... | called by the sequencer only |
| Journal (`engine-core/src/journal.rs`) | SQLite tables `events`, `snapshots` | `open` with the migration of old files, `append_batch`, `save_snapshot`, `persist_commit`, `replay_from`, `load_latest_snapshot`, `latest_sequence_id` | the sequencer |
| VenueSubmitTask (`crates/gateway/src/lib.rs`) | the order at hand, the reports still to send | one loop: receive, submit, ack, post-ack actions | adapters (awaited calls), sequencer (high-priority channel) |
| PaperAdapter and fill simulation (same file) | order books, open orders, its own idempotency cache, queued fills, fill subscribers | `submit_order`, `take_post_ack_actions`, `replace_orderbook`, `cancel_order`, `subscribe_fills`, `connect` | the submit task, a market-data feed, fill subscribers |
| SignalOrderBridge (same file) | none | `signal_to_orders` | nobody yet: the sequencer refuses `SubmitSignal` |
| LiveOrder (`crates/types/src/pipeline.rs`) | the life of one order after submission | `on_accepted`, `on_fill`, `on_cancel`, ... | nobody yet: the order table plays its part |
| CircuitBreakerBank (`crates/risk/src/circuit_breaker.rs`) | three latches | `check_all`, `reset` | the risk gate |
| AgentRiskManager (`crates/risk/src/lib.rs`) | limits | `evaluate` (pure) | the risk gate |
| RedisBus (`crates/bus/src/redis.rs`) | stream, groups and pending entries in Redis; one reader task per subscription | `publish`, `subscribe`, `ack`, `pending`, `claim` | other processes |
| Health, portfolio, P&L, fees, venue types | records | predicates and arithmetic | - |
| observability, api, main | - | metrics, a stub, configuration and a health endpoint | - |

What is hard in it:

* **Order of effects.** A handler sends the routed order and answers its client
  before the journal is awaited. A crash or a failed write at that point leaves
  effects outside without a record inside.
* **Recovery.** A start trusts the latest snapshot, refuses a journal with a
  tail, resumes numbering and rebuilds the client-order counters from the
  idempotency cache. Ids of commands that never committed are handed out again,
  and `INSERT OR IGNORE` would hide a clash.
* **Two tasks, two bounded channels, in a circle.** Each waits for, or drops on,
  a full channel of the other.
* **Priorities.** Two channels are polled one after the other; anything may
  arrive in between.
* **Late and unexpected venue events**, which stop the engine when they ask for
  an illegal transition.
* **Latches.** Early returns and exemptions of the circuit breakers interact
  over long sequences of checks and resets.
* **A venue behind two locks.** The paper adapter checks, reads the book and
  commits under three locks, while books arrive, orders are cancelled and fills
  are broadcast to subscribers that lag or leave.
* **A gate without memory.** The risk gate judges one order against filled
  positions; orders are filled in part, cross from long to short and follow one
  another.
* **A migration without a transaction**, interrupted between two statements and
  tried again.
* **Consumer groups.** A reader works through several Redis commands while other
  consumers read, claim and acknowledge; replies get lost after their command
  took effect, and a reader outlives the receiver it serves.

What makes each part correct is stated in section 4; `PROJECT.json` lists the
hazards one by one, with the line where each bites and the properties that
would catch it.

## 2. Modules

| Module | Models | Extends |
|---|---|---|
| `EngineState` | `EngineState`, commands, events, state changes of the core | - |
| `Journal` | `SqliteJournal`: two tables and the writes and reads on them | `EngineState` |
| `Sequencer` | bootstrap, the loop, every handler, the commit, faults | `Journal` |
| `VenueSubmitTask` | the submit task and, as an external party, the adapter | `Sequencer` |
| `TradingEngine` | sequencer and submit task composed; refinement of `LiveOrder` | `VenueSubmitTask` |
| `LiveOrder` | `LiveOrder` and `VenueState`; the abstract life of an order | - |
| `CircuitBreakerBank` | CB-1 to CB-11, `check_all`, `reset` | - |
| `OrderbookSimulator` | order books, their validation, and the depth walk of `LiveOrderbookFillSimulator` | - |
| `PaperAdapter` | the paper venue, lock by lock, with its feed and its fill subscribers | `OrderbookSimulator` |
| `AgentRiskManager` | `evaluate` of the layer-1 gate, as operators | - |
| `SignalOrderBridge` | `signal_to_orders`, as operators | `AgentRiskManager` |
| `OrderIntake` | bridge and gate composed: orders and signals, several in flight, and the book they leave | `SignalOrderBridge` |
| `JournalMigration` | `SqliteJournal::open`, statement by statement, over interruptions | - |
| `RedisBus` | a topic with one consumer group, its reader tasks and the applications behind them | - |
| `SequencerProofs`, `LiveOrderProofs`, `CircuitBreakerBankProofs`, `RedisBusProofs`, `PaperAdapterProofs`, `JournalMigrationProofs`, `OrderIntakeProofs` | proofs | the module they are about |
| `TradingEngineProofs` | proofs about the two tasks together, and the refinement of `LiveOrder` | `TradingEngine`, `SequencerProofs` |
| `MC*` | instances for TLC | the module they instantiate |

**Steps of the sequencer.** A handler is synchronous and runs in one task, so
taking a command and running its handler is one action (`HandleSubmitOrder`,
`HandleVenueAck`, ...). The task gives way at the journal: `commit` holds what
is on its way, and `PersistCommit` (SQLite, one transaction) or `PersistEvents`
and `PersistSnapshot` (the trait's default, two writes) complete it. Polling the
high-priority channel and then the normal one are two steps (`PollHighPriority`
sets `polled`), because a command may arrive between them. Every error out of a
handler, out of the core or out of the journal ends `run()`: `CommandFails`,
`PersistFails`. `Crash` loses everything but the two tables.

**The core.** The repository has no production `EngineCore`. Its effects are
those of `TestCore` (`sequencer_tests.rs`); where the trait's signature allows a
choice (the risk gate, limit changes, what a reconciliation corrects) the model
takes every one, and any call of the core may fail. Positions, limits and the
firm book are one opaque value, `book`.

**Client order ids** are records of agent, counter and restart epoch. The
millisecond in the code's id is left out, so two ids that differ only in it
count as equal: uniqueness never rests on the clock. `FreshEpoch` says whether
every start brings a new epoch, as the generator's documentation asks
(`restart_epoch` is a parameter of `Sequencer::new`; nobody passes it yet).

**The submit task** has an await for every report, so `SendReport` waits while
the sequencer's channel is full. An adapter accepts or rejects; afterwards it
has at most one fill and cancels a remainder only, which is what `PaperAdapter`
is proved to queue. The trait also allows `take_post_ack_actions` to fail, and so
does the model; `failed_after_ack` remembers that it did.

**LiveOrder** has one action per method. A refused call changes nothing and is
a stuttering step. `TradingEngine!LiveOrderOf` maps a durable `OrderRecord` to a
LiveOrder (Pending is LiveOrder's Submitted, Submitted its Accepted).

**CircuitBreakerBank** takes a context per call, in integers: percentages for
the fractions of the configuration, ticks for time.

**PaperAdapter.** `submit_order` takes the state's mutex three times: for the
idempotency cache (`SubmitCached`, `SubmitNew`), for the book (`ReadBook`) and for
the commit (`Match...`, one action per outcome). `replace_orderbook` inserts the
book and matches the resting orders under one lock (`ReplaceOrderbook`, or
`ReplaceOrderbookFails` when the simulator returns an error midway) and then
broadcasts. `broadcast_fill` clones the senders, sends to each and forgets the
closed ones, each a step (`CloneSubscribers`, `SendFill`, `RetainOpen`), in the
submit task and in the feed at once. One task submits, as `VenueSubmitTask` does.
A venue order id is the client order id with a prefix, so one stands for both;
the simulator is a parameter, and its instance is `OrderbookSimulator!Simulate`.
`executed`, `cancelled`, `acked`, `delivered` and `from_start` are histories.

**AgentRiskManager and SignalOrderBridge** are pure. Decimals are integers:
quantities in lots, percentages in hundredths, quotients that are only compared
multiplied out. Two quotients become quantities, that of a resize and that of a
signal's size: they are rounded to the nearest lot, ties to even (`Quotient`), as
`Decimal` rounds its last digit, so a quotient may be above or below what it
stands for. A lot is therefore the last digit and no coarser. A violation is the
name of its check. `OrderIntake` gives them a state: positions per agent,
instrument and venue, cash, and `Slots` for approved orders on their way to
being filled, any of which may be filled or cancelled next. An order may have
any price, and is filled at it. Nothing in the repository builds a `FirmBook`;
it is taken to be what its fields say, marked at prices that do not move.
`PriceBand` says how far below the mark orders are priced. An exposure of zero
stands for an entry that is absent.

**JournalMigration** has one action per SQL statement of `open`, each a
transaction of its own, and `Interrupt` between any two. A file is new or of one
of the two older schemas, with any events and any snapshot or none. On a journal
that opens a sequencer may start, if `Sequencer::new` accepts what it finds, and
commits; it numbers from the latest snapshot, or from the beginning if there is
none, whatever was left behind in `events_v2`. An event is its key and its
payload, so two events committed under one key are told apart.

**RedisBus** has one step per Redis command. Redis (stream, last delivered entry,
pending entries and their owners) and the applications (receive, ack, claim,
unsubscribe, crash) are external and modelled by how `redis.rs` uses them. A
reader lists pending ids page by page, claims them, relays them and then reads
new entries; a command may fail, or take effect while its reply is lost. Idle
times are left out: a claim may meet any pending entry. Nothing in the engine
destroys a group, so the reader's exit on `NOGROUP` is left out too.

Definitions called mutants in the modules are wrong variants of a definition.
Each property is shown to fail when the mutant named for it in `PROJECT.json`
takes the definition's place.

## 3. Runs

| Run | Question |
|---|---|
| `sequencer` | Are memory, journal, snapshot, acks and dispatches consistent under any order of submissions and venue events, over failures and a restart? |
| `bootstrap` | The same for operator commands, the two-step commit, repeated epochs, with and without a submit task. Does a start refuse what it must? |
| `trading_engine` | Do sequencer and submit task, interleaved at will and over failing adapters, crashes and a restart, keep the engine from stopping itself, keep sight of accepted orders, and implement `LiveOrder`? |
| `engine_liveness` | Is every pending order resolved, does every shutdown end? |
| `live_order` | Is the FSM right for every sequence of calls? |
| `circuit_breaker_bank` | Are halts, exemptions and resets right for every sequence of checks? |
| `redis_bus` | Does a consumer group lose, repeat or reorder messages over lost replies, bad entries, claims, dropped receivers and crashes? |
| `paper_adapter` | Are executions, acks, cancellations and broadcasts of the paper venue right, whatever arrives between its locks? |
| `order_intake` | How far may the book that the gate's approvals lead to be past a limit? Is the quantity that a resize names final? Do the bridge's drafts suit the gate? |
| `journal_migration` | What survives an interrupted migration, and what does the journal that opens next hold? |
| `no_ghost_orders`, `position_within_cap` | Two statements of docs and comments that the code does not keep (section 6) |

**Bounds.** Two orders of one agent: enough for one order to take the place,
the id or the ack of another, and sharing the agent's counter is the hard case.
Quantity 2 (3 in `live_order`) has partial and complete fills and an overfill.
Channels of one or two are full at once, which the code's 64, 1024 and 256 make
rare. `MaxSends` is 3 or 4 commands: submit, resubmit, and what may go wrong in
between; `MaxIncarnations` is 2 or 3, so state of one process meets that of the
next. The proofs about restarts hold without these bounds. Where orders are
interchangeable `SYMMETRY` permutes them.
`live_order` permits every call sequence to the end of both orders. The
breakers' contexts sit at every limit, with up to two departures at once, each
the smallest step over a limit or a case in which a check does not apply.
`redis_bus` has three entries, the last undecodable, pages and batches of two and
channels of one, so that a recovery takes two pages and a batch outgrows its
channel; two subscriptions of two consumers, in any assignment.
`paper_adapter` has two orders out of four kinds (GTC, IOC and FOK buys, a
post-only sell) and five books: one nothing matches, one that fills in part on
both sides, one that fills a buy whole, a one-sided one that makes the repricing
of the sell fail, and an unsorted one that must be refused; one subscriber with
room for one fill, so that broadcasts wait. `order_intake` has two agents, two
instruments and two venues, a cap of two lots at the mark, limits two or three
lots wide so that they bind after two orders, orders that the caps cut, and a
drawdown on either side of the halt. The mark is 10 and orders are priced at 8, 9,
10 and 12, a band of 125. Two orders are in flight at a time, so that each is
approved without the other: books are reached that are past the limits on an
agent's gross and position, on the net quantity, on concentration, on a venue's
notional and its number of positions and on cash. At a price of 12 a resize is
rounded up past the cap, and the order is resized again. The slots are
interchangeable. `journal_migration` has three sequence ids, so files of up to
three events, with and without a snapshot at or behind them, commits of up to two
events before and after any number of interruptions, and ids that repeat those of
`events_v2`.
Deadlock is not checked where the bounds end every behaviour.

**Fairness.** `EngineSpec` assumes weak fairness of what the sequencer does, if
only to stop with an error, and of the submit task's steps. Both are tokio tasks:
a task that can move is scheduled. The adapter's answer is part of the second.
`PaperAdapter` computes it locally, but broadcasts fills before it returns: a fill
subscriber that is open and never receives (`gateway/src/lib.rs:1002`) would keep
it waiting, and the two liveness properties assume that there is none. Nothing
is assumed of clients, crashes or restarts, and the properties hold only as long
as both tasks live. That the drain of a shutdown ends relies on clients sending
finitely often, which `MaxSends` gives; the code would drain for ever if they
did not.

## 4. Properties

Sequencer and journal: `MemoryMatchesDisk` (readers see what a restart would
recover, and the core holds nothing else between commands), `CommitIsJournaled`
(no event lost to `INSERT OR IGNORE`), `JournalAppendOnly` (proved only),
`JournalExplainsOrders` (an order's durable state is that of its last journal
event), `ClientOrderIdNamesOneOrder`, `EveryOrderKeepsItsAck`,
`DurableOrderWasDispatched`, `DurableOrderNotRedispatched`. Proved only, for the
sequencer and for what venues hold: an order is dispatched at most once between two
starts, and its durable record names the latest dispatch (`DispatchedOncePerEpoch`,
`RecordIsLatest`, `VenuesHoldOrdersOnce`).

Sequencer with submit task: `ReportsAreLegal`, `AcceptedOrderIsReported`,
`ImplementsLiveOrder`, `PendingIsResolved`, `ShutdownCompletes`.

LiveOrder: `QuantitiesAddUp`, `OnBookHasVenueId`, `TerminalIsAbsorbing`.

Circuit breakers: `HaltHolds`, `PassMeansClear`, `OneLatchAtATime`,
`DeRiskingIgnoresHalts`.

Paper venue: `FilledQtyIsExact` (executions within the quantity, all counted, an
acked order rests until it ends), `PostAckIsReportable` (what the submit task
relies on), `FillLostOnlyByFailedUpdate`, `CancelIsFinal`, `WalkFillsAllItCan` (the
walk against a definition without order).

Risk gate and bridge: `LimitsHold`, `ResizeIsFinal`, `DraftsMeetTheGate`.
`LimitsHold` is about the book, at every moment of a fill, and every limit the gate
checks of agents, instruments and venues, and the cash reserve. The gate does not
count what is approved and not filled, and values an order at its own price where
the book values what is filled at the mark. So a limit may be passed, but by no
more than `Unbooked`: for each other order in flight the cap on one order as the
mark sees it (`MarkedCap`), and for the order itself what the mark is above the
price (`MarkedCap - OrderCap`). Cash moves by the price, so of the reserve at
most `OrderCap` per other order is spent (`Unpaid`). A venue may hold one
instrument more than `max_positions` per other order. With one slot and no order
below the mark no limit is passed. The three limits of an instrument hold, in
this sense, of the firm's net position only. Its gross is held to what the
agents' own limits allow, and neither to `max_gross_qty` nor to
`max_concentration_pct` (section 6).

`ResizeIsFinal`: an order that comes back with the quantity it was cut to, against
the same book, is approved or told the same quantity again; it is never cut
further and never rejected. The second outcome is real: the quotient is rounded,
and times the price it may be above the cap it was cut to. The property is about
orders of which one lot is within both caps (`OneLotFits`) and a book that passes
the gate's checks for the order's agent, instrument and venue before the order
(`StandsWithin`). A book the gate led to need not: orders approved together may
have taken it past a limit, the firm's gross is projected as if one agent's trade
netted another's, and the leverage that holds of an agent may be that of another
instrument. The whole order may then pass where its first half does not.

Migration: `RowsSurvive` (every event ever committed is in one of the two tables)
and `MigratedWholeOrNotAtAll` (a journal that opens has all the events the file came
with, or none of them, and then `events_v2` has them all and nothing else). Both
hold although ids may begin anew while `events_v2` waits with the same ones.

Bus: `NothingSlipsThrough` (what the group is past was processed or is still
pending), `InOrderOncePerSubscription`, `RecoveryIsComplete`.

Several modules have a type invariant besides. Each property's comment names the
code it is about.

## 5. Proofs

All theorems hold for every value of the constants that satisfies the named
assumptions of the modules. Those say what the constants are (each order has an
agent and a positive quantity, `None` is not a number, a record, a sequence of
subscribers or the name of a state, sets that are summed over are finite) and
that capacities and page sizes are positive; TLC evaluates them in the runs. Four
hypotheses are more than that, and stand in the theorems that need them:
`FreshEpoch` (every start brings a new epoch), `UsesLiveOrderbook` (the paper
adapter has the depth walk for its simulator), `Configured` (the gate has limits
for every agent, instrument and venue, none negative, and the firm starts with
its cash reserve) and `PricedWithinBand` (the mark is at most `PriceBand` percent of
the price of an order that has a positive one). The last restricts no finite set
of orders, for which there always is such a band; it gives the number that the
bound of `LimitsHold` depends on. The instances satisfy them: `MCPaperAdapter`
and `MCOrderIntake` assume so, and TLC checks it.

* `SequencerProofs` proves `TypeOK`, `MemoryMatchesDisk`, `CommitIsJournaled` and
  `JournalAppendOnly`. None is inductive. That memory matches the disk after a
  commit needs the commit to be about the core as it is and to be the newest
  snapshot; that needs sequence ids to be ahead of everything durable; and over
  a restart that needs the journal to hold nothing beyond the snapshot, which is
  what `Sequencer::new` checks. `IInv` joins these: at most one snapshot, the
  cache is durable, the core is cached, ids are ahead, the commit in progress is
  next, and the journal is covered by the snapshot but for that commit's rows.
  Handlers are abstracted first to `HandlerStep`, what every one of them may do;
  the invariant is shown of that. Five more invariants stand on it:
  * `IdInv`: every dispatched id is of an earlier epoch or below its agent's
    counter; with fresh epochs, `ClientOrderIdNamesOneOrder` follows.
  * `AckInv`: every record's ack is filed under its id, in memory and on disk, and
    counters are ahead of the cache; `EveryOrderKeepsItsAck` and
    `DurableOrderNotRedispatched` follow, for any epochs.
  * `OnceInv`, with fresh epochs: what this incarnation dispatched is in its memory,
    so a resubmission finds it and is not dispatched. Hence at most one dispatch per
    order and epoch, and a record names the latest one. A second submission of one
    order reaches a venue only if a restart lost the commit of the first.
  * `DispatchInv`: what the core and the snapshot know was dispatched;
    `DurableOrderWasDispatched` follows.
  * `ExplainInv`: the events of the commit in progress account for the difference
    between the durable state and the core, and the journal's tail is that commit;
    `JournalExplainsOrders` follows.
* `TradingEngineProofs` is about the two tasks and the channels between them.
  `EngineInv` orders what is in flight: of two reports about one order the one
  ahead is the one that must come first, the first fits the order's record as it
  is, fills fit into what is left, and an order that is routed and not submitted
  yet is Pending with nothing reported of it. `ReportsAreLegal` follows.
  `AcceptInv` adds what a venue accepted; `AcceptedOrderIsReported` follows, with
  fresh epochs. `LifecycleInv` adds that a commit moves at most one record on from
  the durable state; it gives `EngineImplementsLiveOrder`, action by action: what
  becomes durable is a step of `LiveOrder` under `LiveOrderOf`, and nothing else
  moves the image. The sequencer's promises are proved again of the composition,
  where the submit task writes to its channel and takes from its queue at any time:
  `MemoryMatchesDisk`, `EveryOrderKeepsItsAck`, `CommitIsJournaled`,
  `JournalAppendOnly`, `JournalExplainsOrders`, `DurableOrderWasDispatched` and
  `DurableOrderNotRedispatched`. `RoutedInv` carries `OnceInv` along the submit
  channel, through the task and to the venues: what is there was dispatched, so
  `VenuesHoldOrdersOnce` follows.
* `LiveOrderProofs` proves the four properties of `LiveOrder` from a per-order
  invariant (`OrderOK`).
* `CircuitBreakerBankProofs` proves `TypeOK`, `HaltHolds`, `PassMeansClear`,
  `OneLatchAtATime` and `DeRiskingIgnoresHalts` for every configuration and every
  set of contexts, from the fact that what is latched is exactly what was not
  properly reset.
* `RedisBusProofs` proves all four properties of the bus for any number of
  messages, consumers and subscriptions and all sizes. For `NothingSlipsThrough`
  it is enough that a reader that runs has a consumer, so that what it reads or
  claims belongs to someone. `BusInv` adds, for each reader: listed, relayed and
  outstanding entries are increasing, follow one another, and were delivered to
  the group before (so that what it reads next comes after them); and what was
  pending when it started and still is has been listed, or lies ahead of the last
  id it listed, or has been claimed. `TypeOK`, `InOrderOncePerSubscription` and
  `RecoveryIsComplete` follow.
* `PaperAdapterProofs` proves `FilledQtyIsExact`, `PostAckIsReportable` and
  `CancelIsFinal` for any orders, markets, books and subscribers, and any simulator
  that fills at most what it is asked for (`FillSimulatorAssumption`). `IInv` ties
  the maps together: what rests, is acked or has actions queued is in the cache
  and acknowledged; what is being matched is not in the cache and has executed
  nothing; what has ended does not rest. The second theorem is what
  `VenueSubmitTask` assumes of an adapter. `BroadcastInv` is about the fills: each
  caller has at most one fill per order to send, reaches each subscriber once, and
  for every subscriber from the start executions are what was delivered plus what
  is on its way (`TypeOK`, `FillLostOnlyByFailedUpdate`). `WalkFillsAllItCan` is
  proved for books of any depth from what `validate` leaves of a side: it is
  sorted, so the levels within the limit are the first ones.
* `JournalMigrationProofs` proves both properties of the migration. The invariant
  says, for each statement `open` may be at, which rows each of the two tables
  has; the copy is complete before the drop. It adds that a sequencer that runs is
  ahead of every id in the events table, because `Sequencer::new` refused any tail,
  so no commit is ignored; nothing relates those ids to the ones in `events_v2`.
* `OrderIntakeProofs` starts from two facts about `project_net_and_gross`: the
  gross after a part of a trade is at most the larger of that before and that after
  the whole, and parts compose. Then sums: the book adds over agents, venues and
  instruments, and a sum over a finite set is shown, by a least counterexample, to
  be independent of the order and to move with one of its terms (`SumUpdate`).
  With them a fill moves the figures of its agent, instrument and venue and no
  others (`FiguresAfterFill`), and the gate's projection of an order is known
  in the book's figures and the order's value at its own price (`ProjectedFigures`).

  `LimitsHold` with several orders in flight needs more than the limits themselves:
  each of them was approved against another book. A gross is the largest of the
  worths of the holdings counted with a sign per instrument (`Worth`, `Signs`). For
  each choice of signs the holdings' worth, plus what each approved order would add
  to it at the mark if filled, less `MarkedCap` for all slots but one and less
  `Slack`, what the mark is above the price of one order, is within the limit
  (`Within`): a fill moves worth from the second term to the first, a cancellation
  only lessens the second, and an approval adds one share to holdings the gate has
  seen while the other slots are worth at most a cap each (`PotentialStep`). The gate
  saw the order at its price, hence the slack. `IntakeInv` says this of every
  agent's gross and position, every venue's gross and every net quantity. Cash is a
  potential of its own, of purchases at their price (`CashWithin`). For
  `max_positions` it says that the instruments a venue holds or would hold once its
  orders are filled are few enough (`PositionsWithin`, `Reached`); and of every
  order in flight that it is within the cap and the band (`Working`). A statement
  about signed worths is inductive where the same one about gross is not,
  because a fill may lower one order's gross and raise what the next adds.
  `LimitsAlwaysHold` rests on `Configured` and `PricedWithinBand`.

  `DraftsMeetTheGate` and `ResizeIsFinal` are proved under `Configured`. The second
  has two parts: the projection of a part of an order is never worse than both that
  of nothing and that of the whole, so no hard check rejects the part; and the cut
  quantity is within the cap, or is exactly what the cap's quotient is rounded to,
  and is named again (`CutAgain`).

Only model-checked:

* `PendingIsResolved` and `ShutdownCompletes`: liveness under fairness is out of
  the prover's reach. (`LiveOrder` assumes no fairness, so the refinement proof
  leaves nothing out.)
* `NoGhostOrders` and `PositionWithinCap` are the two that fail (section 6).

## 6. Where the code and its documents disagree

Two runs show one each:

1. A crash after the commit and before the submit task takes the order leaves a
   ghost order (`sequencer.rs:374`: "Ghost orders ... must never happen").
2. The 5% check looks at the order and not at the position it adds to
   (`docs/CONTRACTS.md:220`: "Check 1: Position notional <= 5% of total NAV.").

Others were met while modelling. They follow from the model, or are single
guards, and no run is kept for them:

* Mark to market and limit changes become durable without a journal event
  (`crates/types/src/event.rs:1`: "every state change is numbered and
  journaled").
* A commit lost after the dispatch lets a retry reach the venue twice
  (`docs/CORE_ENGINE_DESIGN.md:1361`: "prevents duplicate orders on
  retry/restart").
* A new subscription claims and relays messages that are on their way to another
  live consumer (`crates/bus/src/lib.rs:87`: "Each message is delivered to
  exactly one consumer in a consumer group").
* A book update that fails on one resting order drops the fills of those before
  it (`docs/CONTRACTS.md:132`: paper adapters "emit fills on the same bounded
  `subscribe_fills()` channel as real venues"); a valid book with one empty side
  is enough.
* A FOK order rejected for want of liquidity leaves its ack in the idempotency
  cache, and a retry is acknowledged (`docs/CONTRACTS.md:140`: "idempotent
  `client_order_id` handling identical to real adapters").
* A migration interrupted before the rename leaves `events_v2` behind; while the
  old table is there every later open fails, and once it is dropped the next open
  starts with an empty `events` table. If the file had no snapshot, a sequencer
  starts on it and numbers from 1, repeating ids of the events left behind; with
  one, it goes on from the snapshot.
* The gate does not count approved orders that are not filled yet, and projects
  the firm's gross exposure as if one agent's sell reduced another's long.
  `LimitsHold` says how far the book can be past a limit because of it.
* That projection also lets the firm's gross in an instrument pass `max_gross_qty`
  and `max_concentration_pct`, by any amount the agents' own limits allow: two
  agents may hold opposite positions.
* The gate values an order at its limit price, however far from the market, and
  the book will value what is filled at the mark: an order below the mark counts
  for less than it adds.
* A resize may name the quantity the order already has. `Decimal` rounds
  quotients to the nearest last digit, so the quantity times the price may be above
  the cap again (5000 / 30000 is, multiplied back), and the resized order is
  resized to itself (`docs/TESTING.md:178`: "`Resize.new_qty` is always positive and
  less than original qty"; `tests/integration/risk.rs:221`: "resize qty must shrink
  the original order"). The caller of `docs/CONTRACTS.md:546` ("One retry with
  resized qty. If this also fails → reject.") gives up on such an order.
* A signal sized by conviction puts that share of the agent's whole capital at
  risk. Its notional exceeds the capital as soon as the conviction exceeds the
  stop's relative distance, and the gate's hard checks then reject it before the
  1% cap could cut it.
* A partially filled order cannot expire, although `docs/DATA_MODEL.md:619` draws
  that transition (`pipeline.rs:763`).
* A heartbeat less than a second in the future passes CB-9, because elapsed time
  is truncated to seconds before it is compared with zero
  (`circuit_breaker.rs:471`: "Fail closed on future timestamps").

## 7. Not modelled, and the plan

Left out for good: row encoding, `replay_range` (a read nothing calls),
metrics, logging, the API stub, the main binary (configuration and a health
endpoint; it starts no sequencer), arithmetic of prices, fees, slippage and P&L,
health records (predicates; what reads them is modelled), reconciliation and
portfolio records (nothing computes them), the type-state pipeline (the compiler
checks it), the rounding of products and sums of more than 28 digits. Sequence
ids are unbounded numbers; their 64 bits are out of reach of any run of the
engine.

No property covers these either, because the code promises nothing about them: a
steady stream of high-priority commands keeps submissions waiting
(`sequencer.rs:180`); commands sent after the drain's last poll are dropped with
the receivers; an order that comes to rest against a book that was replaced
meanwhile waits for the next update (`gateway/src/lib.rs:1179`); an engine whose
NAV is not positive no longer trips the loss breakers, but the gate rejects every
order then.

What remains worth doing:

1. Proofs: every safety property that holds is proved; what is left is liveness,
   which the prover cannot do.
2. Composition, when the code has it: `AgentRiskManager` and `CircuitBreakerBank`
   behind the sequencer's `evaluate_order`, `SubmitSignal` in the sequencer.

To keep the set of runs small, most runs that only showed a disagreement of
section 6 have made room for those of new components.
