----------------------------- MODULE OrderBook -----------------------------
(***************************************************************************)
(* One OrderBook of src/common/OrderBook.cpp: the limit orders of a symbol *)
(* by side and price, its dormant stop orders, and the operations that     *)
(* change them.                                                            *)
(*                                                                         *)
(* Every operation runs under book_mutex, so one operation at a time is in *)
(* progress: pc says which.  An operation that loops takes one action per  *)
(* iteration, so that each trade is a step of its own; the iterator of     *)
(* check_stop_loss_orders is the variable it, which also says where a      *)
(* market execution returns to (0: to the caller).                         *)
(*                                                                         *)
(* A definition introduced as a wrong variant is not used by Spec: it is   *)
(* the next definition with a plausible mistake in it, which one of the    *)
(* properties of OrderBookProperties must notice.                          *)
(*                                                                         *)
(* Not modelled: the branches for an empty price level and for a           *)
(* non-positive trade quantity (the invariants BookWellFormed and          *)
(* FillsBounded make them unreachable), output, and the trade callback,    *)
(* which belongs to the engine.                                            *)
(***************************************************************************)
EXTENDS Orders, Sequences, SequencesExt

CONSTANTS Id,        \* order ids
          NoId,      \* not an order id
          Incoming,  \* the orders that may be submitted, before they get an id
          Tick       \* how far the clock may move between two new orders

ASSUME IncomingAssumption == \A o \in Incoming : IsAdmissible(o)
ASSUME IdAssumption == NoId \notin Id
ASSUME TickAssumption == Tick \subseteq Nat

VARIABLES
  order,             \* [ids seen -> Order]: the Order objects
  book,              \* book["BUY"], book["SELL"]: buy_orders, sell_orders
  stop_loss_orders,  \* sequence of ids
  last_trade_price,  \* 0 until the first trade
  clock,             \* steady_clock::now() at the last Order construction
  pc,                \* the operation in progress
  it,                \* check_stop_loss_orders' iterator; 0 outside of it
  market_order,      \* the order execute_market_order_internal works on
  total_executed,    \* its local variable
  matched_orders     \* match_orders' local variable, its result

vars == <<order, book, stop_loss_orders, last_trade_price, clock, pc, it,
          market_order, total_executed, matched_orders>>

Seen == DOMAIN order

Init ==
  /\ order = [i \in {} |-> 0]
  /\ book = [side \in OrderSide |-> [p \in {} |-> <<>>]]
  /\ stop_loss_orders = <<>>
  /\ last_trade_price = 0
  /\ clock = 0
  /\ pc = "idle"
  /\ it = 0
  /\ market_order = NoId
  /\ total_executed = 0
  /\ matched_orders = <<>>
-----------------------------------------------------------------------------
(***************************************************************************)
(* Price levels: a std::map from a price to a vector of orders.            *)
(***************************************************************************)
\* Wrong variant: the newcomer goes to the front.
PushFront(levels, price, id) ==
  [p \in DOMAIN levels \cup {price} |->
     IF p # price THEN levels[p]
     ELSE IF price \in DOMAIN levels THEN <<id>> \o levels[price] ELSE <<id>>]

\* orders[price].push_back(id)
PushBack(levels, price, id) ==
  [p \in DOMAIN levels \cup {price} |->
     IF p # price THEN levels[p]
     ELSE IF price \in DOMAIN levels THEN Append(levels[price], id) ELSE <<id>>]

\* Erase position i of a level, and the level with its last order.
Erase(levels, price, i) ==
  IF Len(levels[price]) = 1
    THEN [p \in DOMAIN levels \ {price} |-> levels[p]]
    ELSE [levels EXCEPT ![price] = RemoveAt(@, i)]

\* buy_orders.rbegin(), sell_orders.begin()
IsBest(side, price) ==
  /\ price \in DOMAIN book[side]
  /\ \A p \in DOMAIN book[side] : IF side = "BUY" THEN p <= price ELSE p >= price

Foremost(side, price) == book[side][price][1]
-----------------------------------------------------------------------------
(***************************************************************************)
(* execute_trade                                                           *)
(***************************************************************************)
TradeQuantity(b, s) ==
  IF Remaining(order[b]) <= Remaining(order[s]) THEN Remaining(order[b])
                                                ELSE Remaining(order[s])

\* A market order takes the other's price; else the older order sets the price.
TradePrice(b, s) ==
  IF order[b].type = "MARKET" THEN order[s].price
  ELSE IF order[s].type = "MARKET" \/ order[b].timestamp < order[s].timestamp
    THEN order[b].price
    ELSE order[s].price

\* Wrong variant: off by one, the last unit does not fill the order.
FilledLate(o, q) ==
  [o EXCEPT !.filled_quantity = @ + q,
            !.status = IF o.filled_quantity + q > o.quantity THEN "FILLED" ELSE @]

Filled(o, q) ==
  [o EXCEPT !.filled_quantity = @ + q,
            !.status = IF o.filled_quantity + q >= o.quantity THEN "FILLED" ELSE @]

\* Wrong variant: only the buyer's fill is recorded.
ExecuteTradeOfBuyer(b, s) ==
  /\ order' = [order EXCEPT ![b] = Filled(@, TradeQuantity(b, s))]
  /\ last_trade_price' = TradePrice(b, s)

ExecuteTrade(b, s) ==
  /\ order' = [order EXCEPT ![b] = Filled(@, TradeQuantity(b, s)),
                            ![s] = Filled(@, TradeQuantity(b, s))]
  /\ last_trade_price' = TradePrice(b, s)

\* A side's levels after its foremost order o, at price, traded q.
LevelsAfterTrade(side, price, o, q) ==
  IF o.filled_quantity + q >= o.quantity THEN Erase(book[side], price, 1)
                                         ELSE book[side]
-----------------------------------------------------------------------------
(***************************************************************************)
(* Stop orders: should_trigger_stop_loss, update_trailing_stop_price, the  *)
(* conversions of execute_stop_loss_order.                                 *)
(***************************************************************************)
ShouldTrigger(o) ==
  /\ last_trade_price > 0
  /\ IF o.side = "SELL" THEN last_trade_price <= o.price
                        ELSE last_trade_price >= o.price

\* Wrong variants: the stop follows every price; the stop price is not moved.
FollowEveryPrice(o) ==
  IF o.type # "TRAILING_STOP" THEN o
  ELSE IF o.side = "SELL"
    THEN [o EXCEPT !.highest_price = last_trade_price,
                   !.price = last_trade_price - o.trailing_amount]
    ELSE [o EXCEPT !.lowest_price = last_trade_price,
                   !.price = last_trade_price + o.trailing_amount]

OnlyTrackExtremes(o) ==
  IF o.type # "TRAILING_STOP" THEN o
  ELSE IF o.side = "SELL"
    THEN IF last_trade_price > o.highest_price
           THEN [o EXCEPT !.highest_price = last_trade_price] ELSE o
    ELSE IF last_trade_price < o.lowest_price \/ o.lowest_price = 0
           THEN [o EXCEPT !.lowest_price = last_trade_price] ELSE o

UpdateTrailingStop(o) ==
  IF o.type # "TRAILING_STOP" THEN o
  ELSE IF o.side = "SELL"
    THEN IF last_trade_price > o.highest_price
           THEN [o EXCEPT !.highest_price = last_trade_price,
                          !.price = last_trade_price - o.trailing_amount]
           ELSE o
    ELSE IF last_trade_price < o.lowest_price \/ o.lowest_price = 0
           THEN [o EXCEPT !.lowest_price = last_trade_price,
                          !.price = last_trade_price + o.trailing_amount]
           ELSE o

\* Wrong variants: the order keeps its stop price; it keeps its type.
AsLimitAtStopPrice(o) == [o EXCEPT !.type = "LIMIT"]

AsStopAtLimitPrice(o) == [o EXCEPT !.price = o.limit_price]

AsLimit(o) == [o EXCEPT !.type = "LIMIT", !.price = o.limit_price]

AsMarket(o) == [o EXCEPT !.type = "MARKET"]

WithOrder(id, o) == [i \in Seen \cup {id} |-> IF i = id THEN o ELSE order[i]]

\* The order's record becomes o and o joins the book.
Rest(id, o) ==
  /\ order' = WithOrder(id, o)
  /\ book' = [book EXCEPT ![o.side] = PushBack(@, o.price, id)]

\* Wrong variant: the loop starts without its order.
StartMarketBlindly(id, o) ==
  /\ order' = WithOrder(id, o)
  /\ total_executed' = 0
  /\ pc' = "market"
  /\ UNCHANGED market_order

\* The call of execute_market_order_internal for the order id, now o.
StartMarket(id, o) ==
  /\ order' = WithOrder(id, o)
  /\ market_order' = id
  /\ total_executed' = 0
  /\ pc' = "market"
-----------------------------------------------------------------------------
(***************************************************************************)
(* add_order and execute_market_order: a new order, stamped on arrival.    *)
(***************************************************************************)
Arrives(id, o) ==
  /\ pc = "idle"
  /\ id \notin Seen
  /\ \E t \in Tick : clock' = clock + t

AddLimitOrder(id, o) ==
  /\ Arrives(id, o)
  /\ o.type = "LIMIT"
  /\ Rest(id, [o EXCEPT !.timestamp = clock'])
  /\ UNCHANGED <<stop_loss_orders, last_trade_price, pc, it, market_order,
                 total_executed, matched_orders>>

AddStopOrder(id, o) ==
  /\ Arrives(id, o)
  /\ IsStop(o) /\ ~ShouldTrigger(o)
  /\ order' = WithOrder(id, [o EXCEPT !.timestamp = clock'])
  /\ stop_loss_orders' = Append(stop_loss_orders, id)
  /\ UNCHANGED <<book, last_trade_price, pc, it, market_order,
                 total_executed, matched_orders>>

AddTriggeredStopLimit(id, o) ==
  /\ Arrives(id, o)
  /\ o.type = "STOP_LIMIT" /\ ShouldTrigger(o)
  /\ Rest(id, AsLimit([o EXCEPT !.timestamp = clock']))
  /\ UNCHANGED <<stop_loss_orders, last_trade_price, pc, it, market_order,
                 total_executed, matched_orders>>

AddTriggeredStop(id, o) ==
  /\ Arrives(id, o)
  /\ o.type \in {"STOP_LOSS", "TRAILING_STOP"} /\ ShouldTrigger(o)
  /\ StartMarket(id, AsMarket([o EXCEPT !.timestamp = clock']))
  /\ UNCHANGED <<book, stop_loss_orders, last_trade_price, it, matched_orders>>

ExecuteMarketOrder(id, o) ==
  /\ Arrives(id, o)
  /\ o.type = "MARKET"
  /\ StartMarket(id, [o EXCEPT !.timestamp = clock'])
  /\ UNCHANGED <<book, stop_loss_orders, last_trade_price, it, matched_orders>>
-----------------------------------------------------------------------------
(***************************************************************************)
(* cancel_order: nothing changes when the id is nowhere.                   *)
(***************************************************************************)
CancelResting(id, side, price, i) ==
  /\ pc = "idle"
  /\ price \in DOMAIN book[side]
  /\ i \in DOMAIN book[side][price]
  /\ book[side][price][i] = id
  /\ order' = [order EXCEPT ![id].status = "CANCELLED"]
  /\ book' = [book EXCEPT ![side] = Erase(@, price, i)]
  /\ UNCHANGED <<stop_loss_orders, last_trade_price, clock, pc, it,
                 market_order, total_executed, matched_orders>>

\* Wrong variant: the cancelled stop order stays queued.
CancelStopInPlace(id, i) ==
  /\ pc = "idle"
  /\ i \in DOMAIN stop_loss_orders
  /\ stop_loss_orders[i] = id
  /\ order' = [order EXCEPT ![id].status = "CANCELLED"]
  /\ UNCHANGED <<book, stop_loss_orders, last_trade_price, clock, pc, it,
                 market_order, total_executed, matched_orders>>

CancelStop(id, i) ==
  /\ pc = "idle"
  /\ i \in DOMAIN stop_loss_orders
  /\ stop_loss_orders[i] = id
  /\ order' = [order EXCEPT ![id].status = "CANCELLED"]
  /\ stop_loss_orders' = RemoveAt(stop_loss_orders, i)
  /\ UNCHANGED <<book, last_trade_price, clock, pc, it, market_order,
                 total_executed, matched_orders>>

CancelOrder(id) ==
  \/ \E side \in OrderSide : \E price \in DOMAIN book[side] :
       \E i \in DOMAIN book[side][price] : CancelResting(id, side, price, i)
  \/ \E i \in DOMAIN stop_loss_orders : CancelStop(id, i)
-----------------------------------------------------------------------------
(***************************************************************************)
(* match_orders                                                            *)
(***************************************************************************)
Crossing(buy_price, sell_price) ==
  /\ IsBest("BUY", buy_price) /\ IsBest("SELL", sell_price)
  /\ buy_price >= sell_price

Crossed == \E b \in DOMAIN book["BUY"], s \in DOMAIN book["SELL"] : Crossing(b, s)

MatchOrders ==
  /\ pc = "idle"
  /\ pc' = "match"
  /\ UNCHANGED <<order, book, stop_loss_orders, last_trade_price, clock, it,
                 market_order, total_executed, matched_orders>>

\* Wrong variants: the younger one leaves; of two equally old ones the buyer leaves.
MatchSelfTradeYounger(buy_price, sell_price) ==
  LET b == Foremost("BUY", buy_price)
      s == Foremost("SELL", sell_price)
  IN  /\ pc = "match"
      /\ Crossing(buy_price, sell_price)
      /\ order[b].client_id = order[s].client_id
      /\ IF order[b].timestamp > order[s].timestamp
           THEN book' = [book EXCEPT !["BUY"] = Erase(@, buy_price, 1)]
           ELSE book' = [book EXCEPT !["SELL"] = Erase(@, sell_price, 1)]
      /\ UNCHANGED <<order, stop_loss_orders, last_trade_price, clock, pc, it,
                     market_order, total_executed, matched_orders>>

MatchSelfTradeBuyerFirst(buy_price, sell_price) ==
  LET b == Foremost("BUY", buy_price)
      s == Foremost("SELL", sell_price)
  IN  /\ pc = "match"
      /\ Crossing(buy_price, sell_price)
      /\ order[b].client_id = order[s].client_id
      /\ IF order[b].timestamp <= order[s].timestamp
           THEN book' = [book EXCEPT !["BUY"] = Erase(@, buy_price, 1)]
           ELSE book' = [book EXCEPT !["SELL"] = Erase(@, sell_price, 1)]
      /\ UNCHANGED <<order, stop_loss_orders, last_trade_price, clock, pc, it,
                     market_order, total_executed, matched_orders>>

\* Two orders of one client never trade: the older one leaves the book.
MatchSelfTrade(buy_price, sell_price) ==
  LET b == Foremost("BUY", buy_price)
      s == Foremost("SELL", sell_price)
  IN  /\ pc = "match"
      /\ Crossing(buy_price, sell_price)
      /\ order[b].client_id = order[s].client_id
      /\ IF order[b].timestamp < order[s].timestamp
           THEN book' = [book EXCEPT !["BUY"] = Erase(@, buy_price, 1)]
           ELSE book' = [book EXCEPT !["SELL"] = Erase(@, sell_price, 1)]
      /\ UNCHANGED <<order, stop_loss_orders, last_trade_price, clock, pc, it,
                     market_order, total_executed, matched_orders>>

MatchTrade(buy_price, sell_price) ==
  LET b == Foremost("BUY", buy_price)
      s == Foremost("SELL", sell_price)
      q == TradeQuantity(b, s)
  IN  /\ pc = "match"
      /\ Crossing(buy_price, sell_price)
      /\ order[b].client_id # order[s].client_id
      /\ ExecuteTrade(b, s)
      /\ book' = [side \in OrderSide |->
                    IF side = "BUY"
                      THEN LevelsAfterTrade("BUY", buy_price, order[b], q)
                      ELSE LevelsAfterTrade("SELL", sell_price, order[s], q)]
      /\ matched_orders' = matched_orders \o <<b, s>>
      /\ UNCHANGED <<stop_loss_orders, clock, pc, it, market_order, total_executed>>

MatchDone ==
  /\ pc = "match"
  /\ ~Crossed
  /\ pc' = "idle"
  /\ matched_orders' = <<>>
  /\ UNCHANGED <<order, book, stop_loss_orders, last_trade_price, clock, it,
                 market_order, total_executed>>
-----------------------------------------------------------------------------
(***************************************************************************)
(* execute_market_order_internal, and what follows it: the caller's status *)
(* (execute_market_buy_order, execute_market_sell_order and                *)
(* execute_stop_loss_order decide it alike) and, for a stop reached from   *)
(* check_stop_loss_orders, its removal from the stop orders.               *)
(***************************************************************************)
Opposite == OppositeSide(order[market_order].side)

MarketRemaining == order[market_order].quantity - total_executed

\* Wrong variant: "continue" without the erase.
MarketSelfTradeNoErase(price) ==
  /\ pc = "market"
  /\ MarketRemaining > 0
  /\ IsBest(Opposite, price)
  /\ order[Foremost(Opposite, price)].client_id = order[market_order].client_id
  /\ UNCHANGED vars

MarketSelfTrade(price) ==
  /\ pc = "market"
  /\ MarketRemaining > 0
  /\ IsBest(Opposite, price)
  /\ order[Foremost(Opposite, price)].client_id = order[market_order].client_id
  /\ book' = [book EXCEPT ![Opposite] = Erase(@, price, 1)]
  /\ UNCHANGED <<order, stop_loss_orders, last_trade_price, clock, pc, it,
                 market_order, total_executed, matched_orders>>

MarketTrade(price) ==
  LET o == Foremost(Opposite, price)
      b == IF Opposite = "BUY" THEN o ELSE market_order
      s == IF Opposite = "BUY" THEN market_order ELSE o
      available == Remaining(order[o])
  IN  /\ pc = "market"
      /\ MarketRemaining > 0
      /\ IsBest(Opposite, price)
      /\ order[o].client_id # order[market_order].client_id
      /\ ExecuteTrade(b, s)
      /\ total_executed' = total_executed +
           (IF available <= MarketRemaining THEN available ELSE MarketRemaining)
      /\ book' = [book EXCEPT ![Opposite] =
           LevelsAfterTrade(Opposite, price, order[o], TradeQuantity(b, s))]
      /\ UNCHANGED <<stop_loss_orders, clock, pc, it, market_order, matched_orders>>

FinalStatus(o, executed) ==
  IF executed = o.quantity THEN "FILLED"
  ELSE IF executed > 0 THEN "PARTIAL_FILLED" ELSE "REJECTED"

MarketDone ==
  /\ pc = "market"
  /\ MarketRemaining <= 0 \/ DOMAIN book[Opposite] = {}
  /\ order' = [order EXCEPT ![market_order].status = FinalStatus(
                 order[market_order], total_executed)]
  /\ market_order' = NoId
  /\ total_executed' = 0
  /\ \/ it = 0 /\ pc' = "idle" /\ UNCHANGED stop_loss_orders
     \/ it > 0 /\ pc' = "check" /\ stop_loss_orders' = RemoveAt(stop_loss_orders, it)
  /\ UNCHANGED <<book, last_trade_price, clock, it, matched_orders>>
-----------------------------------------------------------------------------
(***************************************************************************)
(* check_stop_loss_orders: one pass over the stop orders, each tried at    *)
(* the last trade price of that moment.                                    *)
(***************************************************************************)
CheckStopLossOrders ==
  /\ pc = "idle"
  /\ last_trade_price > 0
  /\ pc' = "check"
  /\ it' = 1
  /\ UNCHANGED <<order, book, stop_loss_orders, last_trade_price, clock,
                 market_order, total_executed, matched_orders>>

\* The order at the iterator, its trailing stop price up to date.
Current == UpdateTrailingStop(order[stop_loss_orders[it]])

\* Wrong variant: the iterator stays where it is.
CheckStaysPut ==
  /\ pc = "check"
  /\ it <= Len(stop_loss_orders)
  /\ ~ShouldTrigger(Current)
  /\ order' = WithOrder(stop_loss_orders[it], Current)
  /\ UNCHANGED <<book, stop_loss_orders, last_trade_price, clock, pc, it,
                 market_order, total_executed, matched_orders>>

CheckNotReached ==
  /\ pc = "check"
  /\ it <= Len(stop_loss_orders)
  /\ ~ShouldTrigger(Current)
  /\ order' = WithOrder(stop_loss_orders[it], Current)
  /\ it' = it + 1
  /\ UNCHANGED <<book, stop_loss_orders, last_trade_price, clock, pc,
                 market_order, total_executed, matched_orders>>

\* Wrong variants: the iterator also advances after the erase; no erase.
CheckAdvancesPastErase ==
  /\ pc = "check"
  /\ it <= Len(stop_loss_orders)
  /\ ShouldTrigger(Current) /\ Current.type = "STOP_LIMIT"
  /\ Rest(stop_loss_orders[it], AsLimit(Current))
  /\ stop_loss_orders' = RemoveAt(stop_loss_orders, it)
  /\ it' = it + 1
  /\ UNCHANGED <<last_trade_price, clock, pc, market_order, total_executed, matched_orders>>

CheckWithoutErase ==
  /\ pc = "check"
  /\ it <= Len(stop_loss_orders)
  /\ ShouldTrigger(Current) /\ Current.type = "STOP_LIMIT"
  /\ Rest(stop_loss_orders[it], AsLimit(Current))
  /\ it' = it + 1
  /\ UNCHANGED <<stop_loss_orders, last_trade_price, clock, pc, market_order,
                 total_executed, matched_orders>>

CheckTriggersStopLimit ==
  /\ pc = "check"
  /\ it <= Len(stop_loss_orders)
  /\ ShouldTrigger(Current) /\ Current.type = "STOP_LIMIT"
  /\ Rest(stop_loss_orders[it], AsLimit(Current))
  /\ stop_loss_orders' = RemoveAt(stop_loss_orders, it)
  /\ UNCHANGED <<last_trade_price, clock, pc, it, market_order,
                 total_executed, matched_orders>>

CheckTriggersStop ==
  /\ pc = "check"
  /\ it <= Len(stop_loss_orders)
  /\ ShouldTrigger(Current) /\ Current.type # "STOP_LIMIT"
  /\ StartMarket(stop_loss_orders[it], AsMarket(Current))
  /\ UNCHANGED <<book, stop_loss_orders, last_trade_price, clock, it, matched_orders>>

CheckDone ==
  /\ pc = "check"
  /\ it > Len(stop_loss_orders)
  /\ pc' = "idle"
  /\ it' = 0
  /\ UNCHANGED <<order, book, stop_loss_orders, last_trade_price, clock,
                 market_order, total_executed, matched_orders>>
-----------------------------------------------------------------------------
\* A call from outside.
Call ==
  \/ \E id \in Id, o \in Incoming :
       \/ AddLimitOrder(id, o)
       \/ AddStopOrder(id, o)
       \/ AddTriggeredStopLimit(id, o)
       \/ AddTriggeredStop(id, o)
       \/ ExecuteMarketOrder(id, o)
  \/ \E id \in Seen : CancelOrder(id)
  \/ MatchOrders
  \/ CheckStopLossOrders

\* An iteration or the return of the operation in progress.
Step ==
  \/ \E b \in DOMAIN book["BUY"], s \in DOMAIN book["SELL"] :
       MatchSelfTrade(b, s) \/ MatchTrade(b, s)
  \/ MatchDone
  \/ pc = "market" /\ \E p \in DOMAIN book[Opposite] :
       MarketSelfTrade(p) \/ MarketTrade(p)
  \/ MarketDone
  \/ CheckNotReached
  \/ CheckTriggersStopLimit
  \/ CheckTriggersStop
  \/ CheckDone

Next == Call \/ Step

Spec == Init /\ [][Next]_vars

\* A thread inside the critical section of book_mutex keeps running.
FairSpec == Spec /\ WF_vars(Step)
=============================================================================
