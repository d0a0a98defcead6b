------------------------ MODULE OrderBookProperties ------------------------
(***************************************************************************)
(* What one order book promises: the invariants of its data structures and *)
(* the properties of its steps.                                            *)
(***************************************************************************)
EXTENDS OrderBook

CONSTANT NoLimit           \* Exchange's limit of an order that takes any price
ASSUME NoLimitAssumption == NoLimit \notin Int

\* The sequences of ids without repetition.
IsInjectiveSeq(s) == \A i, j \in DOMAIN s : s[i] = s[j] => i = j

(***************************************************************************)
(* The type invariant of the variables above.                              *)
(***************************************************************************)
TypeOK ==
  /\ Seen \subseteq Id
  /\ order \in [Seen -> Order]
  /\ DOMAIN book = OrderSide
  /\ \A side \in OrderSide :
       /\ DOMAIN book[side] \subseteq Int
       /\ book[side] \in [DOMAIN book[side] -> Seq(Seen)]
  /\ stop_loss_orders \in Seq(Seen)
  /\ last_trade_price \in Int
  /\ clock \in Nat
  /\ pc \in {"idle", "match", "market", "check"}
  /\ it \in Nat
  /\ pc \in {"idle", "match"} => it = 0
  /\ pc = "market" => it \in {0} \cup DOMAIN stop_loss_orders
  /\ pc = "check" => it > 0
  /\ market_order \in IF pc = "market" THEN Seen ELSE {NoId}
  /\ total_executed \in Int
  /\ matched_orders \in Seq(Seen)

(***************************************************************************)
(* The book never keeps an empty price level (get_best_bid and the front() *)
(* of the loops rely on it), and what rests at a price is an open limit    *)
(* order of that side and that price, once.  Together the parts say that   *)
(* an order is in at most one place: type, side and price tell the places  *)
(* apart.  add_order, cancel_order, the loops and the conversion of a stop *)
(* limit order all keep it, lines 7 to 108 and 201 to 321 of OrderBook.cpp.*)
(***************************************************************************)
NoEmptyLevel ==
  \A side \in OrderSide : \A p \in DOMAIN book[side] : book[side][p] # <<>>

RestingAreOpen ==
  \A side \in OrderSide : \A p \in DOMAIN book[side] : \A i \in DOMAIN book[side][p] :
    LET o == order[book[side][p][i]]
    IN  /\ o.type = "LIMIT" /\ o.side = side /\ o.price = p
        /\ o.status = "PENDING" /\ o.filled_quantity < o.quantity

RestingOnce ==
  \A side \in OrderSide : \A p \in DOMAIN book[side] : IsInjectiveSeq(book[side][p])

BookWellFormed == NoEmptyLevel /\ RestingAreOpen /\ RestingOnce

(***************************************************************************)
(* A dormant stop order is untouched and queued once; the only one whose   *)
(* type has already changed is the one check_stop_loss_orders is executing *)
(* at its iterator (OrderBook.cpp:124-126).                                *)
(***************************************************************************)
ExecutingAt(i) == pc = "market" /\ i = it

StopsAreDormant ==
  /\ IsInjectiveSeq(stop_loss_orders)
  /\ \A i \in DOMAIN stop_loss_orders :
       LET o == order[stop_loss_orders[i]]
       IN  IF ExecutingAt(i)
             THEN market_order = stop_loss_orders[i]
             ELSE IsStop(o) /\ o.status = "PENDING" /\ o.filled_quantity = 0

(***************************************************************************)
(* An order's status agrees with its fills: it is FILLED exactly when its  *)
(* quantity is used up and never overfilled, only market orders end        *)
(* PARTIAL_FILLED or REJECTED, and no market order is left PENDING once    *)
(* its execution returned.  While the market loop runs, its local counter  *)
(* is the fill of the order (the status it leads to is right).             *)
(***************************************************************************)
StatusOK(o) ==
  /\ o.filled_quantity \in 0..o.quantity
  /\ o.status = "FILLED" <=> o.filled_quantity = o.quantity
  /\ o.status = "REJECTED" => o.type = "MARKET" /\ o.filled_quantity = 0
  /\ o.status = "PARTIAL_FILLED" => o.type = "MARKET" /\ o.filled_quantity > 0

FillsBounded ==
  \A id \in Seen :
    /\ StatusOK(order[id])
    /\ order[id].type = "MARKET" /\ order[id].status = "PENDING" => id = market_order

ExecutionCounted ==
  pc = "market" =>
       /\ order[market_order].type = "MARKET"
       /\ order[market_order].status \in {"PENDING", "FILLED"}
       /\ total_executed = order[market_order].filled_quantity
       /\ it > 0 => stop_loss_orders[it] = market_order

FillsAreRecorded == FillsBounded /\ ExecutionCounted
-----------------------------------------------------------------------------
(***************************************************************************)
(* The book implements Exchange: its trades are between two open orders of *)
(* different clients, by one quantity, at a price both limits allow; the   *)
(* limit of a stop limit order is the one it was submitted with, before    *)
(* and after its conversion, and other stop orders take any price.         *)
(***************************************************************************)
WorstPrice(o) ==
  IF o.type = "LIMIT" THEN o.price
  ELSE IF o.type = "STOP_LIMIT" THEN o.limit_price
  ELSE NoLimit

ContractOf(o) ==
  [side |-> o.side, client |-> o.client_id, quantity |-> o.quantity,
   limit |-> WorstPrice(o), filled |-> o.filled_quantity,
   state |-> IF o.status = "PENDING" THEN "open" ELSE "closed"]

Contracts == [id \in Seen |-> ContractOf(order[id])]

Ex == INSTANCE Exchange WITH contract <- Contracts, last_price <- last_trade_price

ImplementsExchange == Ex!Spec

(***************************************************************************)
(* Every share bought was sold: whatever the order of events, self trades, *)
(* cascades of stops and cancels, buyers and sellers have been filled by   *)
(* the same number in all (execute_trade, OrderBook.cpp:153-194).          *)
(***************************************************************************)
Units(filled, S) == UNION {{id} \X (1..filled[id]) : id \in S}

Executed(side) ==
  Units([id \in Seen |-> order[id].filled_quantity], {id \in Seen : order[id].side = side})

SharesBalance == Cardinality(Executed("BUY")) = Cardinality(Executed("SELL"))

(***************************************************************************)
(* Price-time priority of resting orders: a fill goes to an order no other *)
(* order of its side is ahead of, two orders that stay keep their order,   *)
(* and one that joins gets ahead of no order at its price or a better one  *)
(* (OrderBook.cpp:19-23, 63-104, 207-263, 307-311).                        *)
(***************************************************************************)
RestsAt(id, side, p, i) ==
  p \in DOMAIN book[side] /\ i \in DOMAIN book[side][p] /\ book[side][p][i] = id

Rests(id, side) == \E p \in DOMAIN book[side] : \E i \in DOMAIN book[side][p] :
                     book[side][p][i] = id

BetterPrice(side, p, q) == IF side = "BUY" THEN p > q ELSE p < q

Ahead(side, a, b) ==
  \E p, q \in DOMAIN book[side] :
    \E i \in DOMAIN book[side][p], j \in DOMAIN book[side][q] :
      /\ book[side][p][i] = a /\ book[side][q][j] = b
      /\ BetterPrice(side, p, q) \/ (p = q /\ i < j)

FillChanged(id) == order'[id].filled_quantity # order[id].filled_quantity

KeepsPriority(side) ==
  \A a, b \in Seen :
    /\ Ahead(side, a, b) /\ FillChanged(b) => order[b].type = "MARKET"
    /\ Ahead(side, a, b) /\ Rests(a, side)' /\ Rests(b, side)' => Ahead(side, a, b)'

JoinsBehind(side) ==
  \A a \in Seen' : Rests(a, side)' /\ (a \in Seen => ~Rests(a, side)) =>
    \A b \in Seen : Rests(b, side) /\ Rests(b, side)' /\ Ahead(side, a, b)' =>
      BetterPrice(side, order'[a].price, order[b].price)

PriceTimePriority == [][\A side \in OrderSide : KeepsPriority(side) /\ JoinsBehind(side)]_vars

(***************************************************************************)
(* Nothing touches an order any more once it is filled, cancelled, or a    *)
(* market order that got all it can get: a late match, cancel or stop pass *)
(* never revives it.                                                       *)
(***************************************************************************)
Closed(o) == o.status # "PENDING"

ClosedOrdersStay ==
  [][\A id \in Seen : Closed(order[id]) /\ id # market_order => order'[id] = order[id]]_vars

(***************************************************************************)
(* An open order leaves the book and the stop orders only because it was   *)
(* filled, cancelled, or executed as a market order, or in a self trade:   *)
(* it is the foremost of its side and meets a market order of its client,  *)
(* or the foremost of the other side, of the same client and at a price    *)
(* that meets its own, is not older (of two equally old ones the seller    *)
(* leaves) (OrderBook.cpp:71-85, 219-225, 246-252).                        *)
(***************************************************************************)
Dormant(id) == \E i \in DOMAIN stop_loss_orders : stop_loss_orders[i] = id

Placed(id) == Rests(id, "BUY") \/ Rests(id, "SELL") \/ Dormant(id)

AtFront(id, side) ==
  \E p \in DOMAIN book[side] : IsBest(side, p) /\ Foremost(side, p) = id

MeetsMarketOrder(id) ==
  /\ pc = "market" /\ AtFront(id, Opposite)
  /\ order[market_order].client_id = order[id].client_id

\* b and s meet at the front of the book and are of one client.
SelfTrade(b, s) ==
  /\ pc = "match" /\ AtFront(b, "BUY") /\ AtFront(s, "SELL")
  /\ order[b].client_id = order[s].client_id
  /\ order[b].price >= order[s].price

MeetsOwnClient(id) ==
  \/ MeetsMarketOrder(id)
  \/ \E s \in Seen : SelfTrade(id, s) /\ order[id].timestamp < order[s].timestamp
  \/ \E b \in Seen : SelfTrade(b, id) /\ order[id].timestamp <= order[b].timestamp

NoneVanishes ==
  [][\A id \in Seen : Placed(id) /\ ~Placed(id)' =>
       \/ order'[id].status # "PENDING"
       \/ MeetsOwnClient(id)]_vars

(***************************************************************************)
(* The stop price of a trailing stop is always the trailing amount away    *)
(* from the best price recorded in it, and once it has recorded one it     *)
(* only tightens: a sell stop rises, a buy stop falls                      *)
(* (update_trailing_stop_price).                                           *)
(***************************************************************************)
Trailing(id) == order[id].type = "TRAILING_STOP"

TrailingAligned ==
  \A id \in Seen : Trailing(id) =>
    /\ order[id].highest_price > 0 =>
         order[id].price = order[id].highest_price - order[id].trailing_amount
    /\ order[id].lowest_price > 0 =>
         order[id].price = order[id].lowest_price + order[id].trailing_amount

TrailingTightens ==
  [][\A id \in Seen : Trailing(id) /\ Trailing(id)' =>
       /\ order[id].highest_price > 0 => order'[id].price >= order[id].price
       /\ order[id].lowest_price > 0 => order'[id].price <= order[id].price]_vars

(***************************************************************************)
(* check_stop_loss_orders passes over no stop order that is reached: one   *)
(* that gets behind the iterator is not triggered by the price then, a     *)
(* trailing stop not before it has recorded that price if it is its best,  *)
(* and none is skipped by an erase (OrderBook.cpp:116-130).                *)
(***************************************************************************)
Behind(id) == \E i \in DOMAIN stop_loss_orders : i < it /\ stop_loss_orders[i] = id

HasRecorded(o) ==
  o.type = "TRAILING_STOP" =>
    IF o.side = "SELL" THEN last_trade_price <= o.highest_price
                       ELSE o.lowest_price <= last_trade_price

PassSkipsNoStop ==
  [][\A id \in Seen : pc' = "check" /\ Behind(id)' /\ ~Behind(id) =>
       ~ShouldTrigger(order[id])' /\ HasRecorded(order[id])']_vars
-----------------------------------------------------------------------------
(***************************************************************************)
(* Every operation returns: each iteration of its loop gets one stop order *)
(* further in the pass, or it takes a resting order out of the book and    *)
(* lets none in, or at least the execution gets nearer to its quantity     *)
(* (starting one, from the pass, counts as such a step).  A self trade     *)
(* that erased nothing, or a fill of nothing, would keep book_mutex and    *)
(* engine_mutex for ever (OrderBook.cpp:63-106, 118-130, 207-265).         *)
(***************************************************************************)
StopsAhead == Len(stop_loss_orders) + 1 - it

Resting == {id \in Seen : Rests(id, "BUY") \/ Rests(id, "SELL")}

Work ==
  IF pc = "market" THEN MarketRemaining
  ELSE IF pc = "check" /\ it \in DOMAIN stop_loss_orders
    THEN order[stop_loss_orders[it]].quantity + 1 ELSE 0

GoesDown ==
  \/ StopsAhead' < StopsAhead
  \/ /\ StopsAhead' = StopsAhead
     /\ Resting' \subseteq Resting
     /\ Resting' # Resting \/ Work' < Work

IterationsConsume == [][pc # "idle" /\ pc' # "idle" => GoesDown]_vars

OperationReturns == pc # "idle" ~> pc = "idle"
-----------------------------------------------------------------------------
(***************************************************************************)
(* What the documents say and the code does otherwise: each is checked to  *)
(* fail.                                                                   *)
(***************************************************************************)
\* "Stop order that trails price movement" (README.md:54): a trailing stop
\* order with an amount is executed only after it has followed a price.  A
\* BUY one that arrives after the first trade has stop price 0 and is executed
\* by add_order at once.
TrailingStopFollowedPrice ==
  \A id \in Seen : order[id].type = "MARKET" /\ order[id].trailing_amount > 0 =>
    order[id].highest_price > 0 \/ order[id].lowest_price > 0

\* "Partial Fills: Handled correctly with proper status transitions"
\* (TEST_README.md:169): an open order with some fill is PARTIAL_FILLED.
\* execute_trade leaves a resting order PENDING until it is filled.
PartialFillShows ==
  \A id \in Seen : pc = "idle" /\ order[id].filled_quantity \in 1..(order[id].quantity - 1)
                  => order[id].status \in {"PARTIAL_FILLED", "CANCELLED"}
=============================================================================
