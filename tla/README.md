# A verification project for the C++ trading engine

This directory models the trading engine of this repository in TLA+: what its
order book, stop orders and executions do, what they promise, and why. TLC checks
the models on small instances; TLAPS proves the safety results for any sets of
ids, clients, orders, workers and connections. Paths such as `OrderBook.cpp:72` refer to the files under
`src/common`, `src/server` and `src/client` of the repository.

## 1. The system

| component | state it keeps | operations |
|---|---|---|
| **Order** (`Order.h`) | one record per order: type, side, price, quantity, fill, status, timestamp, stop and trailing fields, VWAP fields | four constructors; everybody else mutates the fields through `shared_ptr` |
| **OrderBook** (`OrderBook.cpp`) | per symbol: `buy_orders`, `sell_orders` (price -> vector of orders), `stop_loss_orders`, `last_trade_price`, the trade callback; all under `book_mutex` | `add_order`, `cancel_order`, `match_orders`, `execute_market_order`, `check_stop_loss_orders`, the three quote getters |
| **MatchingEngine** (`MatchingEngine.cpp`) | `order_books`, `client_orders`, `vwap_calculators`, `vwap_orders` under `engine_mutex`; the atomic `next_order_id` outside of it | four `submit_*` calls, `cancel_order`, three getters, and the background tasks `process_matching` and `process_vwap_order` |
| **ThreadPool** (`ThreadPool.h`) | task queue and `stop` flag under `queue_mutex`, a condition variable, the workers | `enqueue`, the worker loop, the destructor |
| **VWAPCalculator** (`VWAPCalculator.cpp`) | price-volume accumulators, a five-minute window of trades | `add_trade`, `calculate_child_order_params` |
| **TradingServer** (`server.cpp`) | `active_sessions` under `sessions_mutex`; per connection thread its authenticated client id | accept loop, `handle_client`, one branch of `process_message` per command |
| **TradingClient** (`client.cpp`) | one socket, the user's id | a menu that sends one line and reads one answer |

Interaction. A connection thread calls the engine; the engine takes `engine_mutex`
and then, inside the book, `book_mutex`. Market orders are executed in the caller's
thread; every other submission adds the order and enqueues a `process_matching` task,
so the book may stay crossed until a worker gets to it. A trade calls back from the
book into the engine (`feed_trade_to_vwap_calculator`). A VWAP order is a task that
places child limit orders into the book and re-enqueues itself with a 30 second
sleep. `BOOK` reads three quotes with three separate acquisitions of `book_mutex`.

What is hard, and what would make each component correct:

* **Order book**: one operation changes several containers and orders at once; loops
  erase what they iterate over; a stop executed by a pass trades, moves the price the
  same pass compares with, and may push a new limit order into the book. Correct
  means: no empty level, an order in one place at most, price-time priority, no trade
  beyond a quantity or a limit or with oneself, closed orders stay closed, no open
  order vanishes, trailing stops only tighten, every loop ends.
* **MatchingEngine**: ids are drawn before the lock; matching is deferred to tasks;
  VWAP progress is computed from cumulative fills; a task may leave a null book in the
  map. Correct means: a crossed book is eventually matched, a cancel removes the
  order from wherever it is, a cancelled VWAP order leaves no child behind, its
  progress is what its children filled.
* **ThreadPool**: lost wake-ups, tasks accepted but never run, shutdown while tasks
  enqueue tasks.
* **VWAPCalculator**: clocks are read again and again while an operation runs, durations
  are rounded down, the throttle and the sleep between turns measure different
  intervals, trades leave the window from its front. Correct means: the sums are those of
  the trades in the window, the advice keeps its bounds whatever the clock read, no turn
  is wasted, children keep their distance.
* **TradingServer and TradingClient**: lines carry no terminator and one read is taken for
  one answer; programs are killed at any moment; LOGOUT frees a name whose thread lives
  on. Correct means: a registered name belongs to a live thread, a program gets the
  answer to what it asked, a name is not used twice, a dying program takes nothing with it.

`PROJECT.json` lists every hazard at its line with the properties aimed at it, or with
the reason why none is yet.

## 2. Modules

| module | what it is |
|---|---|
| `Orders` | the order record, the constructors, and the admission rules of the engine (which fix the orders that can reach a book at all) |
| `OrderBook` | the book as a state machine |
| `Exchange` | the abstract specification: contracts that are submitted, traded and closed |
| `OrderBookProperties` | invariants, action properties, the refinement mapping to `Exchange`, liveness, and the documented claims the code does not meet |
| `MCOrderBook` | the instance for TLC: two clients, small sets of orders, symmetry |
| `OrderBookTyping` | proofs about the operators on price levels and sequences, and of the type invariant |
| `OrderBookSafety` | proof of the inductive invariant, of what follows from it, and of what a step may do (priority, nothing vanishes, trailing stops, passes) |
| `OrderBookProgress` | proof that every loop has an iteration to take until it is done, and takes finitely many |
| `OrderBookRefinement` | proof that `OrderBook` implements `Exchange`, and, from that, of the balance of shares |
| `ThreadPool` | queue, workers, notifications and destructor, with its properties |
| `Executor` | the abstract specification of the pool: tasks that wait, run and have run |
| `ThreadPoolProofs` | proofs of its safety properties and that it implements `Executor` |
| `MatchingEngine` | the engine on top of `OrderBook`: submissions, cancels, background tasks, VWAP orders |
| `EngineProperties` | the engine's invariants and liveness, and two claims of the tests that fail |
| `MCEngine` | the engine's instances for TLC |
| `EngineProofs` | proof that the engine only runs the book by its operations, and of the engine's invariants |
| `Sessions` | client programs, connection threads and the table of names, with their properties |
| `SessionsProofs` | proofs of its safety properties |
| `VWAPCalculator` | accumulators, rolling window, advice, and the turns of the orders that ask for it, with its properties |
| `MCVWAPCalculator` | the calculator's instance for TLC |
| `VWAPCalculatorProofs` | proofs of its safety properties |

`MatchingEngine` EXTENDS `OrderBook`; every action that touches the book contains one
of the book's actions, so that the engine's behaviours are behaviours of the book
(`EngineRunsBook`) and nothing about the book is proved or assumed a second time.
`ThreadPool` is not composed with the engine: what the engine needs of it is that a
task it has accepted is run, which is `AcceptedTasksRun` there and a fairness
condition here. Nor are `VWAPCalculator` and `Sessions`: the engine takes any advice
within bounds that `AdviceIsWithinBounds` proves of the calculator (within the order's
hours, at most 0.1 % from the target and on its own side), and `Sessions` takes each
command to be answered or refused, whatever the engine does for it.

### How OrderBook corresponds to the code

`book_mutex` admits one operation at a time, so the state has one program counter:
`pc` is `idle`, `match` (in `match_orders`), `market` (in
`execute_market_order_internal`) or `check` (in `check_stop_loss_orders`). Operations
without a loop (`add_order` of a limit order or of a stop order that does not trigger,
`cancel_order`) are one action. Each loop iteration is one action, because every
trade is a step a client can tell apart; the mutex keeps the other operations out
because they require `pc = "idle"`. `it` is the iterator of
`check_stop_loss_orders`; it is also the return address of a market execution: 0 goes
back to the caller (`execute_market_buy_order`, `execute_market_sell_order` or
`add_order`), a positive `it` goes back to the pass, which then erases the order at
the iterator. `MarketDone` includes the status decision that follows the loop
(`MatchingEngine.cpp:260-269` and `OrderBook.cpp:323-333` decide alike).

`order` is the heap: ids to records, shared by all containers, which hold ids. The
side containers are functions from prices to non-empty sequences of ids. `clock`
is the `steady_clock` reading at the last construction of an order; two orders may get
equal readings (`Tick` contains 0) or increasing ones.

Abstractions. Prices and quantities are doubles in the code and integers in the
model, so rounding is outside of it (`executed_quantity == order->quantity` is exact
here). Symbols are left out: a book is of one symbol. The branches for an empty price
level and for a non-positive trade quantity are left out because `BookWellFormed` and
`FillsAreRecorded`, which are proved, make them unreachable. Printing, the trade callback
and the quote getters are left out of this module.

An operator that a comment introduces as a wrong variant is not used by `Spec`. It
is a plausible mistake in the definition that follows it, and `PROJECT.json` pairs it with
the property that must notice it.

### How ThreadPool corresponds to the code

One action is one section under `queue_mutex`. `condition.wait(lock, predicate)` is
`Sleep` (predicate false, lock given up) or `Take`/`Exit` (predicate true); `Wake` is a
spurious wake-up, which leads back to the predicate. `enqueue` is two actions, `Enqueue`
under the lock and `NotifyOne` after it, because `notify_one` (`ThreadPool.h:71`)
comes after the unlock; a notification picks any sleeping worker, or none when nobody
sleeps. The destructor is `Stop`, `NotifyAll`, `Join`. Tasks may call `enqueue` while
they run, as the VWAP task does. An exception, the one thrown by `enqueue` on a
stopped pool included, ends in the task's future, so a task that throws ends like any other.
`WorkerAssumption` leaves out a pool without workers, which
`std::thread::hardware_concurrency()` (`ThreadPool.h:19`) may in principle ask for.

### How MatchingEngine corresponds to the code

Every engine call and task holds `engine_mutex` from its first access to shared state to
its last, so one operation is in progress at a time. `op` names it and says where the
code goes on when the book's loop has returned: a market order continues with
`check_stop_loss_orders` (`op = "market stops"`), `process_matching` with the stop pass
and then with `update_vwap_order_progress`, one action per matched order. `cancel_order`
on a VWAP order cancels its children one by one. `matching_tasks` counts the queued
`process_matching` tasks of the symbol (they are alike); `vwap_tasks` holds the ids with
a queued `process_vwap_order`. `vwap` is the heap of VWAP `Order` objects, `vwap_orders` the
map of the active ones. `order_books` keeps for each symbol whether its entry is absent,
an open book, or the null pointer that `order_books[symbol]` inserts
(`MatchingEngine.cpp:304`); a call through a null pointer ends in `op = "crashed"`.
`converted` only records history: the stop limit orders that a pass has made limit orders
since `match_orders` last returned.

Abstractions. One symbol, `Traded`, has its book modelled; of the others only their map
entries matter to it, because `cancel_order` walks over all entries. Ids are handed out in the
order of the calls, since nothing compares ids but for equality. Any queued task
may be next, because several workers wait for the lock. A VWAP task that decides to wait
re-enqueues itself and changes nothing else: it is a stutter. What
`VWAPCalculator` advises depends on clocks and traded volumes: the model lets it advise
any quantity up to the remaining one at the prices its branches can give, or waiting, and only
the end of the time window (`WindowEnds`) is definite, kept for the traded symbol only. The getters read only and are left
out; so is the branch of `process_vwap_order` for a complete order
(`MatchingEngine.cpp:310`), which `EngineTypeOK`, proved, makes unreachable: completion
removes the order in the same critical section.

### How VWAPCalculator corresponds to the code

The calculator of one symbol, with the VWAP orders that ask it. `now` is the clock reading
at the start of an operation and `later` its last one: `Submit`, `AddTrade` and `Turn` each
read the clock twice in the code, and any time may pass in between. `AddTrade` starts
the loop of `update_rolling_window` (`pruning`), whose iterations are `Prune`. A `Turn` is one
run of `process_vwap_order` with its `calculate_child_order_params`: a child order or none,
and `wake`, when the next turn's sleep of 30 seconds ends. `Credit` is a matched child's
contribution, any number of `Contribution` since `VwapNotOverfilled` fails in the engine;
`LastTurn` is the turn that finds the order gone.

Abstractions. Prices of trades are whole numbers, limit prices thousandths; quotients are
kept as numerator and denominator and compared by cross-multiplying, so nothing is rounded
but the durations, which are cut to seconds as `duration_cast` does. Where the code
compares two doubles that are equal in exact arithmetic (a step of just 0.1 %, against
`0.001`), both outcomes are possible. The quantity is not computed but described by
`Pace` and `AsksAll`. What `get_rolling_vwap` returns is left out: its only caller does
not use it. The clock only has the readings in `Moment`.

### How Sessions corresponds to the code

A connection is a client program (`client`), the socket (`link`, and what waits in it in
either direction: `requests`, `answers`) and the thread in `handle_client` (`serving`,
`identity` = `authenticated_client_id`). `active_sessions` is the shared table; the actions on
it are atomic because `add_session` and `remove_session` hold `sessions_mutex`. Programs send one line and read once. Since lines have no end
(`client.cpp:340`), a thread's read may take several at once: `Serve(c, r, n)` reads `n`,
answers the first, and the others are lost. An answer longer than the
buffer may be read in parts (`parted`); the rest is what the next call reads. A program may
be killed at any moment. Closing a socket with unread answers resets the connection, as
does an answer to a closed one; an answer to a reset connection raises SIGPIPE, which nothing
handles (`server = "down"`).

Abstractions. A command's effect on the engine is left out. The commands that name their
client are treated alike, so one of them stands for all (`Checked`), the one whose
answer may be long. A login is refused when the client id is in use or empty (`NoName`).
`logged_out` and `parted` only record history; `logged_out` forgets a name when
no thread uses it any more.

### The abstract specifications

`Exchange` knows nothing of levels, queues, triggers or conversions. A client submits a
contract with a side, a quantity and the worst price it accepts; a contract
changes only by a trade with an open contract of another client, by one quantity, at a
price that both accept and one of them asked for, or by being closed. The mapping
reads the limit of a limit order from its price, of a stop limit order from its limit
price, and gives other orders no limit: that the conversion of a stop limit order
keeps its contract is then part of the refinement.

`Executor` knows nothing of threads, locks and wake-ups. Tasks are accepted while it is
open, start in the order of their acceptance when fewer run than there are workers, end,
and the executor goes away when it is closed and nothing waits or runs. The
mapping takes the queue for the waiting tasks, what workers hold for the running ones, and
`destructor` and `stop` for the phase: all of `enqueue`'s notifications, the workers' sleep
and the destructor's `notify_all` are steps that it does not see.

## 3. What TLC checks

| run | instance | shows |
|---|---|---|
| `book_limits` | limit orders at two prices and market orders, both sides, two clients, four ids | fills are recorded, price-time priority, shares bought are shares sold, nothing vanishes but the older of two orders of one client that meet at the front of both sides, with cancels at any time between operations |
| `book_stops` | stop loss, stop limit (also with the limit price 0 that an `ORDER` message leaves) and trailing stop orders with limit and market orders | types, levels and index, dormant stops, immediate triggers, conversion, cascades in one pass, ratchet, refinement, progress of each iteration |
| `book_returns` | a mix, equal timestamps possible, weak fairness of `Step` | every loop ends; which of two orders leaves a self trade when neither is older |
| `pool` | three workers, two callers, three tasks | tasks start in order, accepted tasks run, the destructor returns (a wake-up lost to a sleeping worker would keep it from returning); the pool is an `Executor`, so nothing is lost or run twice |
| `engine` | two symbols, two clients, four ids; a VWAP buy order of two with children of one or two, and a VWAP order for a symbol without a book; for the other side a limit order, a stop, a stop limit and a sweeping market order | deferred matching is always scheduled and happens; cancelling a VWAP order races with its task and its children's fills; who owns what; an active VWAP order loses its task only to a null entry of its own symbol, left by a VWAP order of that symbol; an ended VWAP order stays as it is |
| `sessions` | two connections, used again and again, two names, at most two lines and answers under way in one | names belong to live threads; programs stay in step with their answers, up to one that is read in parts; names are shared only after a LOGOUT; who can end the server; every wait for an answer ends with one, unless the user kills the program or the server is down; names get free |
| `vwap` | two alike VWAP orders that share the calculator of the first, one-minute and six-minute ones, a trade on either side of the target | the advice keeps its bounds; the last half minute asks for all; no turn is wasted; each child comes at least 30 seconds after the one before; the rolling sums are those of the trades in the window, also when two leave it at once |
| `doc_trailing`, `doc_partial`, `engine_null`, `engine_overfill`, `sessions_name` | small instances | five statements of documents, tests and messages that the code does not meet (section 5) |

Bounds. Four ids let two orders of a level, an order of the other side and one aggressor, or
a pass with two stops and the liquidity they consume, exist together; two prices are enough
for better, equal and worse; quantities 1 and 2 give partial, exact and sweeping fills. The
sets of submitted orders in each cfg are chosen so that every action of `Next` is taken in
some run (`CancelInNullBook` needs two symbols: with one, nobody has something to cancel
beside a null entry). Symmetry permutes ids in the safety runs, because nothing compares
ids; the liveness run uses no symmetry.

For the pool, three workers let one sleep, one run and one be between wake-up and predicate;
three tasks let one be queued, one run and one be enqueued by the running one. For the
engine, four ids are a VWAP order, two children or a child and its counterparty, and one
more order or stop, or two VWAP orders, a child and an order that trades with it. The
engine's configurations do not check for deadlock: when all ids are used, or after the null
dereference, the instance really stops. The bounded ids are the only bound; `matching_tasks`
and the children are bounded by them.

For the sessions, two connections are enough for two threads under one name, since a
connection is used again as soon as it is free; `MaxUnread = 2` lets a program send a line
while an answer still waits for it, so that lines are read together and answers are mixed
up. For the calculator, a tick is half a second, so that rounding to seconds happens; the
moments 0, 2, 62 and 662 are the start, the first and second turn and the edge of the five
minutes: at 662 a trade of 62 is just five minutes old, those before are stale; the prices
98 and 101 put `current_vwap` on either side of the target 100, within and beyond 1 %;
`MaxVolume` allows three trades of 1200, enough for both bounds of the volume factor, and
for a third trade that makes the first two leave the window. `MCSessions.cfg` and
`MCVWAPCalculator.cfg` do not check for deadlock: a server may have gone down, and the last
moment comes.

Fairness. In the book only `Step` is weakly fair: a thread inside the critical section of
`book_mutex` is scheduled again and nothing else can disable its next iteration. No
fairness is put on calls from outside, so nothing depends on clients submitting.

In the pool, threads run, tasks return, and a thread that wants `queue_mutex` gets it;
spurious wake-ups, calls from outside and the start of the destructor are not fair. In
the engine, the owner of `engine_mutex` goes on, and a queued `process_matching` task and
a VWAP task whose order has ended get their turn: `AcceptedTasksRun` for the
queue, and for the lock the fact that calls from outside pause. A mutex gives no such
promise against callers that never pause; the instance has finitely many calls, so weak fairness
suffices there. Nothing says that a VWAP task ever places a child. Of the sessions, threads
are scheduled, and nothing else is fair: that a program in `read` gets its answer is stated as
the answer being there to be read (`AnswerWaits`). `VWAPCalculator` states no liveness: time need not pass.

## 4. What is proved

For every set of ids, clients, clock ticks and admissible orders
(`IncomingAssumption` is the admission control of the engine; `NoLimit` is any value
that is not an integer):

| theorem | states |
|---|---|
| `TypeCorrect` | `Spec => []TypeOK` |
| `BookCorrect` | `Spec => []BookWellFormed` |
| `StopsCorrect` | `Spec => []StopsAreDormant` |
| `FillsCorrect` | `Spec => []FillsAreRecorded` |
| `Refinement` | `Spec => ImplementsExchange` |
| `PriorityCorrect` | `Spec => PriceTimePriority` |
| `NothingVanishes` | `Spec => NoneVanishes` |
| `PassCorrect` | `Spec => PassSkipsNoStop` |
| `TrailingCorrect`, `RatchetCorrect` | `Spec => []TrailingAligned`, `Spec => TrailingTightens` |
| `ClosedOrdersCorrect` | `Spec => ClosedOrdersStay` |
| `SharesCorrect` | `Spec => []SharesBalance` |
| `BestPriceExists` | `Spec => []NextIterationExists` |
| `IterationsProgress` | `Spec => IterationsConsume` |
| `OperationsTerminate` | the measure of `IterationsConsume` is typed, decreases with each iteration, and is well-founded |

Argument. `TypeInv` is the type invariant with the fact that no level is empty: without
that, the front of a level could be nothing and no typing would be inductive. `Inv`
adds that resting orders are open limit orders of their side and price, once; that
queued stops are open and unfilled, once; that statuses agree with fills; and that the
market loop's counter is the fill of the order. No part is inductive alone: a trade
keeps the book right because both orders are open (fills) and in no other place
(types and prices tell places apart), and fills stay right because what rests is open.
The lemmas on `RemoveAt`, `PushBack` and `Erase` say what the containers keep; frame
lemmas (`SideFrame`, `StopsFrame`, `FillsFrame`) say which part a step cannot disturb;
one lemma per operation proves `Inv'`. The refinement proof maps each action to a
submission, a trade, a closing or a stutter under `Inv`.

The action properties rest on two statements about any step. `Evolution` says what may
happen to one order: only an open order changes, or the market order being executed; its
client, side, quantity and limit price stay; only the market order and the front of a
side's best level get a fill; a trailing stop that stays one is updated or merely gets another status.
`PlacesEvolve` says what may happen to the containers: a side stays, gets one order at the back
of its level, or loses one that was filled, cancelled or met its own client at the front
of the other side, at a price that meets its own, and is not the younger (`MeetsOwnClient`); a stop
that leaves the queue rests in the book or is closed. `PriorityCorrect` needs in addition
`SameOrder`: of two orders on both the old and the new side the one ahead stays ahead
(`PushBackKeepsOrder`, `EraseKeepsOrder`), and the front has nobody ahead. For the
trailing stops `Inv` is not enough: a stop follows its own side (`FollowsItsSide`: a sell
stop has no lowest price, a buy stop no highest one), which is proved beside it.

`SharesBalance` counts the units bought and sold as pairs of an order and a number up to its
fill, so that no sum is needed. It is proved of the contracts that `Exchange` sees,
step by step: a submission brings no unit, a closing takes none, a trade adds
as many on either side, since `Fill` adds the same quantity to the buyer's and to
the seller's contract.

That the loops end is what `OperationReturns` checks under fairness. Its proof has two halves, neither
of which needs fairness. `BestPriceExists` says that a loop never stops short: as long as
its condition holds there is a best price and an iteration for it. `IterationsConsume` says
what each iteration that is not the last one consumes: a pass has fewer stops ahead of
it (`StopsAhead`), or else the book loses a resting order and gains none (`Resting`), or else the
execution has less left (`Work`, in which a stop order that the pass is about to execute counts
one more than its quantity). `OperationsTerminate` adds that the lexicographic order on
these three is well-founded, for which `Resting` must be finite (`ProgressInv`): without an
infinite descent an operation whose iterations keep being scheduled returns.

For every finite set of workers and any callers and tasks (`ThreadPoolProofs`):

| theorem | states |
|---|---|
| `PoolTypeCorrect` | `Spec => []TypeOK` |
| `WakeupsCorrect` | `Spec => []WakeupsCoverTasks` |
| `ShutdownWakesAll` | `Spec => []NoneSleepsOnceNotified` |
| `NothingLost` | `Spec => []EachTaskRunsOnce` |
| `PoolIsExecutor` | `Spec => ImplementsExecutor` |

`WakeupsCoverTasks` is the reason no wake-up is lost: while somebody sleeps, the awake
workers that will look at the queue and the notifications still to come are at least as
many as the queued tasks. It is preserved because falling asleep requires an empty queue,
taking a task uses up one task and one awake worker, and a notification either wakes
somebody or finds nobody asleep. `NothingLost` needs `ExitsWhenDrained`: a worker only
leaves a stopped pool with an empty queue, and then nothing is accepted any more. Both, and that
a task is in one place, carry `PoolIsExecutor`: a worker that takes a task is not running, so fewer
tasks than workers are held (`RoomForOne`), and when all workers have left nobody holds any.

For any clients, symbols, ids and submissions (`EngineProofs`; `SubmissionAssumption` and
`VwapAssumption` say that submissions and child orders are among the book's incoming ones):

| theorem | states |
|---|---|
| `EngineRunsBook` | `EngineSpec => Spec`: all theorems about the book hold in the engine |
| `EngineKeepsBook` | `EngineSpec => []BookWellFormed` |
| `EngineTypeCorrect` | `EngineSpec => []EngineTypeOK` |
| `CancelledVwapCorrect` | `EngineSpec => []CancelledVwapLeavesNothing` |
| `MatchingCorrect` | `EngineSpec => []MatchingIsScheduled` |
| `OwnersCorrect` | `EngineSpec => []OrdersHaveOwners` |
| `TasksCorrect` | `EngineSpec => []VwapKeepsItsTask` |
| `VwapOrdersCorrect` | `EngineSpec => VwapOrdersGoForward` |

`EngineInv` adds to the book's `Inv` that ids of VWAP orders and of book orders are apart, that
a VWAP order still has the side, quantity and client it was submitted with (so that its
children pass the book's admission), and `CancelRuns`: while a cancel is in
progress the children that remain in the book are among those still to be cancelled. Since a
loop of the book, a cancel and an arrival add at most the arriving id to the book
(`StepKeepsPlaces`, `CancelLeavesNothing`, `ArrivalAddsOne`), a child that has left does not come
back, and none is placed for an order that is no longer active.

`MatchingCorrect` uses `SchedulingInv`: only a matching task is in the matching loop, and whenever the book
waits to be matched a task is queued or the loop is running. A step that brings no new
order leaves nobody waiting who did not wait before (`UnmatchedBefore`, from `Evolution`,
`PlacesEvolve` and `SameOrder`; an order that joins the book then is a stop limit order being
converted, which `converted` records).
When the loop ends the best prices do not meet, hence none do, provided that there are
best prices: that is why `FiniteLevels`, finitely many prices have a level, is part of the
invariant (`SideHasBest` picks the price with the smallest set of better ones).
`TasksCorrect` also proves where null entries come from: the second part of `VwapKeepsItsTask`.
`OwnersCorrect` and `TasksCorrect` are inductive with `EngineInv`; `Evolution` says that the
client and side of an order in the book stay what they were when it was recorded.
`EngineTypeCorrect` needs beside `EngineInv` that only the book's steps change `converted`.
`VwapOrdersCorrect` needs of `EngineInv` that the active orders are just the pending ones, and of
`CancelRuns` that the order a cancel is about to close is still active: no credit comes between.

For any connections, names, commands that name their client, and bound on what waits
(`SessionsProofs`):

| theorem | states |
|---|---|
| `SessionsTypeCorrect` | `Spec => []TypeOK` |
| `NamesBelongToThreads` | `Spec => []SessionsBelong` |
| `ProgramsStayInStep` | `Spec => []InStep` |
| `BrokenConnectionsKeepNamesApart` | `Spec => []NamesSharedOnlyAfterLogout` |
| `ServerOutlivesPrograms` | `Spec => []OnlyPartedResetsKill` |

The inductive invariant has two halves. `ConnOK` concerns one connection and is kept whatever
the others do: LOGIN is asked once, before the thread has an identity; a program past its
login is the one its thread knows; and unless an answer was parted, a connection that was
reset has nothing left to answer. `Holders` ties the threads to the table they share: up to
its first LOGOUT a name is registered for every thread that has it, so that there is only one.

For any orders, moments, ticks in a second, trades and contributions of children
(`VWAPCalculatorProofs`):

| theorem | states |
|---|---|
| `CalculatorTypeCorrect` | `Spec => []TypeOK` |
| `AdviceCorrect` | `Spec => []AdviceIsWithinBounds` |
| `LastTurnCorrect` | `Spec => []LastTurnAsksAll` |
| `TurnsAreNotLost` | `Spec => []TurnsAreDue` |
| `ChildrenKeepDistance` | `Spec => ChildrenAreSpaced` |
| `WindowCorrect` | `Spec => []RollingIsConsistent` |

`IInv` adds `Rested` and `Counted` to the types: an order that has placed a child sleeps until at least 30
seconds after it, because the sleep is counted from a reading that is not before the
child's. That 30 seconds in ticks are 30 seconds after rounding (`FullRest`) then gives
`TurnsAreDue` and the children's distance. `Counted` bounds the last child's time from below by
the number of children, which with the order's length bounds that number.
`WindowInv` says that no trade in the window is in the future, so that appending
keeps the order of time and pruning the oldest first leaves a span of five minutes.

`RollingIsConsistent` also says that the two accumulators are the sums over the window. A sum
is the last value of a function that adds up a sequence (`SumOf`); that there is one such function
for each sequence, and what appending and pruning do to its last value, is proved by a
least counterexample (`WFMin` on the natural numbers), in place of an
induction theorem.

Only model-checked: liveness, which needs fairness and is beyond TLAPS here (`OperationReturns`,
`AcceptedTasksRun`, `DestructorReturns`, `CrossedGetsMatched`, `RequestsAnswered`,
`NamesGetFree`). Every invariant and every action property of the passing runs is a theorem.
Two parts of the pool's inductive invariant are proved and have no run of their own:
`NoneSleepsOnceNotified` and `EachTaskRunsOnce`. The runs show what they are for, in
`DestructorReturns` and `ImplementsExecutor`.

## 5. Where documents and code disagree

* `TrailingStopFollowedPrice` fails: a BUY trailing stop is built with stop price 0
  (`Order.h:83`), and `add_order` asks `should_trigger_stop_loss` before the price has
  ever been updated, so after any trade the order executes at once
  (`OrderBook.cpp:276`), against `README.md:54`.
* `PartialFillShows` fails: a resting order with some fill stays `PENDING`
  (`OrderBook.cpp:176`), against `TEST_README.md:169`.
* `NoNullBookIsUsed` fails: when the task of a VWAP order runs before its symbol has a
  book, `order_books[symbol]` inserts a null entry (`MatchingEngine.cpp:304`); the
  next submission for the symbol finds it and calls through it, the next cancel
  of any order too. The test at `test_trading_engine.cpp:404-430` makes these calls in this order.
* `VwapNotOverfilled` fails: each matched entry adds the child's cumulative fill
  (`MatchingEngine.cpp:357-361`), so a child filled in two pieces of one counts three, against
  the assertion at `test_trading_engine.cpp:475`. The parent may also be completed
  before its quantity was bought.
* `OneProgramPerName` fails: LOGOUT frees the name, but `handle_client` keeps the identity and
  removes the name again when the connection ends (`server.cpp:94`). A program that has
  taken the name in between loses its entry, and a third one logs in beside it, against the
  answer `LOGIN_FAILED:Client ID already in use` of `server.cpp:146`.

`MatchingIsScheduled` and `CrossedGetsMatched` except stop limit orders that a pass has converted
since the last matching: those join the book with no matching task behind them
(`MatchingEngine.cpp:200` and `:270`) and may stay crossed until somebody submits again.
`VwapKeepsItsTask` excepts orders whose symbol has a null entry: their task is lost
(`MatchingEngine.cpp:305`), as `NoNullBookIsUsed` shows from its other side. `InStep` and `RequestsAnswered`
promise the right answer only until one has been read in parts (`client.cpp:343`).

Also met while reading, without a run: a stop executed late in a pass moves the price past a
stop that the pass has left behind, and no further pass follows until the next trade
(`OrderBook.cpp:116`, against `README.md:52`); past its window a VWAP order places nothing,
but its task re-enqueues itself for ever and the order stays pending and active
(`MatchingEngine.cpp:336`, against the flowchart at `README.md:104-105`); the STOP_LIMIT
example of `README.md:53` (limit 155 below trigger 160, BUY) is rejected by
`validate_stop_limit_order`; a stop limit order converted by `add_order` or by a pass keeps
the timestamp of its submission, so it can set the trade price although it joined the book
last (`Exchange` allows either party's price).

## 6. Plan

The modules were built from the inside out: `Orders`, `OrderBook` with `Exchange`, `ThreadPool`,
`MatchingEngine`, then `Sessions` and `VWAPCalculator`, each with its proofs. All safety
properties that the runs check are theorems. What could follow:

1. a composition of `ThreadPool` with the engine's tasks, in which the 30 seconds of a sleeping
   VWAP task take a worker away (`MatchingEngine.cpp:336`);
2. the answers to `BOOK` and `VWAP_STATUS`, which read several moments (`server.cpp:272`,
   `:312`), once a document says what they promise;
3. floating-point quantities (`MatchingEngine.cpp:260`).

## 7. Not modelled

* Parsing and formatting of lines, printing, logging, the choice among the menu's entries:
  they decide nothing that the properties tell apart.
* Socket set-up and the accept loop beyond one thread for each connection.
* The read-only getters (`get_order_book`, `get_vwap_order`,
  `get_active_vwap_orders`, the book's three quotes) and the
  content of the answers built from them.
* `get_rolling_vwap`, whose result nobody uses, and the process-wide shutdown: the server has none.
* Floating-point rounding, except where equal quotients are compared.
* The test program and the build files, which were read as documentation.
