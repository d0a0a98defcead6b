------------------------ MODULE OrderBookRefinement ------------------------
(***************************************************************************)
(* Proof that OrderBook implements Exchange for any sets of ids, clients   *)
(* and orders: each step of the book submits a contract, trades two, or    *)
(* closes one, or is invisible to the clients.                             *)
(***************************************************************************)
EXTENDS OrderBookSafety, FiniteSetTheorems

(***************************************************************************)
(* The steps the clients do not see.                                       *)
(***************************************************************************)
LEMMA Invisible ==
  ASSUME Seen' = Seen, \A x \in Seen : ContractOf(order'[x]) = ContractOf(order[x]),
         UNCHANGED last_trade_price
  PROVE  UNCHANGED <<Contracts, last_trade_price>>
BY DEF Contracts, Seen

(***************************************************************************)
(* The contract of a new order is open and unfilled, even when a stop      *)
(* order is converted on arrival.                                          *)
(***************************************************************************)
LEMMA SubmitStep ==
  ASSUME Inv, NEW id \in Id, id \notin Seen, NEW n, Untouched(n),
         order' = WithOrder(id, n), UNCHANGED last_trade_price
  PROVE  Ex!Next
<1>1. /\ Seen' = Seen \cup {id} /\ order'[id] = n
      /\ \A x \in Seen : order'[x] = order[x]
  BY DEF WithOrder, Seen
<1>2. /\ DOMAIN Contracts = Seen /\ DOMAIN Contracts' = Seen \cup {id}
      /\ Contracts'[id] = ContractOf(n)
      /\ \A x \in Seen : Contracts'[x] = Contracts[x]
  BY <1>1 DEF Contracts
<1>3. Contracts' = [i \in Seen \cup {id} |->
                      IF i = id THEN Contracts'[id] ELSE Contracts[i]]
  BY <1>1, <1>2 DEF Contracts
<1>4. /\ ContractOf(n) \in Ex!Contract
      /\ ContractOf(n).filled = 0 /\ Ex!IsOpen(ContractOf(n))
  <2>1. n \in Order /\ n.status = "PENDING" /\ n.filled_quantity = 0
    BY DEF Untouched
  <2>2. WorstPrice(n) \in Int \cup {NoLimit}
    BY <2>1 DEF WorstPrice, Order
  <2> QED BY <2>1, <2>2 DEF ContractOf, Ex!Contract, Ex!IsOpen, Order, OrderSide
<1>5. Ex!Submit(id)
  BY <1>2, <1>3, <1>4 DEF Ex!Submit, Ex!Submitted, Ex!IsOpen
<1> QED BY <1>5 DEF Ex!Next

(***************************************************************************)
(* An order that stops being open without a fill.                          *)
(***************************************************************************)
LEMMA CloseStep ==
  ASSUME Inv, NEW id \in Seen, order[id].status = "PENDING",
         NEW st \in OrderStatus \ {"PENDING"},
         order' = [order EXCEPT ![id].status = st], UNCHANGED last_trade_price
  PROVE  Ex!Next
<1>1. order \in [Seen -> Order] /\ order[id] \in Order
  BY DEF Inv, TypeInv
<1>2. /\ Seen' = Seen /\ order'[id] = [order[id] EXCEPT !.status = st]
      /\ \A x \in Seen \ {id} : order'[x] = order[x]
  BY <1>1 DEF Seen
<1>3. /\ ContractOf(order[id]).state = "open"
      /\ ContractOf(order'[id]) = [ContractOf(order[id]) EXCEPT !.state = "closed"]
  <2>1. WorstPrice(order'[id]) = WorstPrice(order[id])
    BY <1>1, <1>2 DEF WorstPrice, Order
  <2> QED BY <2>1, <1>1, <1>2 DEF ContractOf, Order
<1>4. Contracts' = [Contracts EXCEPT ![id].state = "closed"]
  <2>1. Contracts' = [x \in Seen |-> ContractOf(order'[x])]
    BY <1>2 DEF Contracts
  <2>2. \A x \in Seen \ {id} : ContractOf(order'[x]) = Contracts[x]
    BY <1>2 DEF Contracts
  <2>3. ContractOf(order'[id]) = [Contracts[id] EXCEPT !.state = "closed"]
    BY <1>3 DEF Contracts
  <2>4. DOMAIN Contracts = Seen
    BY DEF Contracts
  <2> QED BY <2>1, <2>2, <2>3, <2>4
<1>5. Ex!Close(id)
  BY <1>3, <1>4 DEF Ex!Close, Ex!IsOpen, Contracts
<1> QED BY <1>5 DEF Ex!Next, Ex!Submitted, Contracts

(***************************************************************************)
(* A trade of two open orders, at least one of them a limit order.         *)
(***************************************************************************)
PricesMeet(b, s) ==
  \/ b.type = "LIMIT" /\ s.type = "LIMIT" /\ b.price >= s.price
  \/ b.type = "MARKET" /\ s.type = "LIMIT"
  \/ b.type = "LIMIT" /\ s.type = "MARKET"

LEMMA FillContract ==
  ASSUME Inv, NEW x \in Seen, order[x].status = "PENDING",
         NEW q \in 1..Remaining(order[x]), order'[x] = Filled(order[x], q)
  PROVE  ContractOf(order'[x]) = Ex!Fill(Contracts[x], q)
<1>1. order[x] \in Order /\ StatusOK(order[x])
  BY DEF Inv, TypeInv, FillsBounded
<1>2. /\ order'[x].filled_quantity = order[x].filled_quantity + q
      /\ order'[x].status = IF order[x].filled_quantity + q = order[x].quantity
                               THEN "FILLED" ELSE "PENDING"
      /\ SameTerms(order'[x], order[x])
  BY <1>1, FillProperties
<1>3. /\ order[x].filled_quantity + q <= order[x].quantity
      /\ order[x].filled_quantity + q < order[x].quantity
            <=> order[x].filled_quantity + q # order[x].quantity
  BY <1>1 DEF StatusOK, Remaining, Order
<1>4. /\ order'[x].side = order[x].side /\ order'[x].client_id = order[x].client_id
      /\ order'[x].quantity = order[x].quantity
      /\ WorstPrice(order'[x]) = WorstPrice(order[x])
      /\ order'[x].status = "PENDING"
            <=> order[x].filled_quantity + q < order[x].quantity
  BY <1>2, <1>3 DEF SameTerms, WorstPrice
<1>5. Contracts[x] = ContractOf(order[x])
  BY DEF Contracts
<1>6. /\ Contracts[x].filled = order[x].filled_quantity
      /\ Contracts[x].quantity = order[x].quantity
  BY <1>5 DEF ContractOf
<1>7. CASE order[x].filled_quantity + q < order[x].quantity
  <2>1. Ex!Fill(Contracts[x], q) =
          [ContractOf(order[x]) EXCEPT !.filled = order[x].filled_quantity + q,
                                       !.state = "open"]
    BY <1>5, <1>6, <1>7 DEF Ex!Fill
  <2> QED BY <2>1, <1>2, <1>4, <1>7 DEF ContractOf
<1>8. CASE ~(order[x].filled_quantity + q < order[x].quantity)
  <2>1. Ex!Fill(Contracts[x], q) =
          [ContractOf(order[x]) EXCEPT !.filled = order[x].filled_quantity + q,
                                       !.state = "closed"]
    BY <1>5, <1>6, <1>8 DEF Ex!Fill
  <2> QED BY <2>1, <1>2, <1>4, <1>8 DEF ContractOf
<1> QED BY <1>7, <1>8

LEMMA TradeStep ==
  ASSUME Inv, NEW b \in Seen, NEW s \in Seen, b # s,
         order[b].status = "PENDING", order[s].status = "PENDING",
         order[b].side = "BUY", order[s].side = "SELL",
         order[b].client_id # order[s].client_id,
         PricesMeet(order[b], order[s]),
         ExecuteTrade(b, s)
  PROVE  Ex!Next
<1> DEFINE q == TradeQuantity(b, s)
           price == TradePrice(b, s)
<1>1. order[b] \in Order /\ order[s] \in Order
  BY DEF Inv, TypeInv
<1>2. /\ q \in 1..Remaining(order[b]) /\ q \in 1..Remaining(order[s])
      /\ q = Remaining(order[b]) \/ q = Remaining(order[s])
      /\ Seen' = Seen
      /\ order'[b] = Filled(order[b], q) /\ order'[s] = Filled(order[s], q)
      /\ \A x \in Seen \ {b, s} : order'[x] = order[x]
  BY TradeEffect
<1>3. last_trade_price' = price
  BY DEF ExecuteTrade
<1>4. /\ price \in {WorstPrice(order[b]), WorstPrice(order[s])} \ {NoLimit}
      /\ WorstPrice(order[b]) # NoLimit => price <= WorstPrice(order[b])
      /\ WorstPrice(order[s]) # NoLimit => price >= WorstPrice(order[s])
  <2>1. /\ order[b].price \in Int /\ order[s].price \in Int
        /\ order[b].price # NoLimit /\ order[s].price # NoLimit
    BY <1>1, NoLimitAssumption DEF Order
  <2> QED BY <2>1 DEF PricesMeet, WorstPrice, TradePrice
<1>5. /\ DOMAIN Contracts = Seen
      /\ Contracts[b] = ContractOf(order[b]) /\ Contracts[s] = ContractOf(order[s])
  BY DEF Contracts
<1> HIDE DEF q, price
<1>6. Contracts' = [Contracts EXCEPT ![b] = Ex!Fill(@, q), ![s] = Ex!Fill(@, q)]
  <2>1. Contracts' = [x \in Seen |-> ContractOf(order'[x])]
    BY <1>2 DEF Contracts
  <2>2. \A x \in Seen \ {b, s} : ContractOf(order'[x]) = Contracts[x]
    BY <1>2 DEF Contracts
  <2>3. /\ ContractOf(order'[b]) = Ex!Fill(Contracts[b], q)
        /\ ContractOf(order'[s]) = Ex!Fill(Contracts[s], q)
    BY <1>2, FillContract
  <2> QED BY <2>1, <2>2, <2>3, <1>5
<1>7. /\ Contracts[b].side = "BUY" /\ Contracts[s].side = "SELL"
      /\ Contracts[b].client # Contracts[s].client
      /\ Ex!IsOpen(Contracts[b]) /\ Ex!IsOpen(Contracts[s])
      /\ q \in 1..(Contracts[b].quantity - Contracts[b].filled)
      /\ q <= Contracts[s].quantity - Contracts[s].filled
      /\ Contracts[b].limit = WorstPrice(order[b])
      /\ Contracts[s].limit = WorstPrice(order[s])
      /\ q \in {Contracts[b].quantity - Contracts[b].filled,
               Contracts[s].quantity - Contracts[s].filled}
  <2>1. q <= Remaining(order[s])
    BY <1>1, <1>2 DEF Remaining, Order
  <2> QED BY <2>1, <1>2, <1>5 DEF ContractOf, Remaining, Ex!IsOpen
<1>8. Ex!Trade(b, s, q)
  BY <1>3, <1>4, <1>6, <1>7 DEF Ex!Trade, Ex!Allows
<1>9. q \in Ex!Quantities
  BY <1>5, <1>7 DEF Ex!Quantities, Ex!Submitted
<1> QED BY <1>5, <1>8, <1>9 DEF Ex!Next, Ex!Submitted
-----------------------------------------------------------------------------
LEMMA ArrivalRefines ==
  ASSUME Inv, NEW id \in Id, NEW o \in Incoming,
         \/ AddLimitOrder(id, o)
         \/ AddStopOrder(id, o)
         \/ AddTriggeredStopLimit(id, o)
         \/ AddTriggeredStop(id, o)
         \/ ExecuteMarketOrder(id, o)
  PROVE  Ex!Next
<1> DEFINE stamped == [o EXCEPT !.timestamp = clock']
<1>1. clock' \in Nat /\ id \notin Seen /\ UNCHANGED last_trade_price
  BY TickAssumption DEF Inv, TypeInv, AddLimitOrder, AddStopOrder, AddTriggeredStopLimit,
       AddTriggeredStop, ExecuteMarketOrder, Arrives
<1>2. Untouched(o)
  BY IncomingAssumption DEF IsAdmissible, IsFresh, Untouched
<1>3. Untouched(stamped) /\ Untouched(AsLimit(stamped)) /\ Untouched(AsMarket(stamped))
  BY <1>1, <1>2, UntouchedProperties
<1>4. PICK n \in {stamped, AsLimit(stamped), AsMarket(stamped)} : order' = WithOrder(id, n)
  BY DEF AddLimitOrder, AddStopOrder, AddTriggeredStopLimit, AddTriggeredStop,
       ExecuteMarketOrder, Rest, StartMarket
<1> QED BY <1>1, <1>3, <1>4, SubmitStep

LEMMA CancelRefines ==
  ASSUME Inv, NEW id \in Seen, CancelOrder(id)
  PROVE  Ex!Next
<1>1. /\ order' = [order EXCEPT ![id].status = "CANCELLED"]
      /\ UNCHANGED last_trade_price
  BY DEF CancelOrder, CancelResting, CancelStop
<1>2. order[id].status = "PENDING"
  <2>1. ASSUME NEW side \in OrderSide, NEW p \in DOMAIN book[side],
               NEW i \in DOMAIN book[side][p], CancelResting(id, side, p, i)
        PROVE  order[id].status = "PENDING"
    BY <2>1, RestingOrder DEF CancelResting, RestingAs
  <2>2. ASSUME NEW i \in DOMAIN stop_loss_orders, CancelStop(id, i)
        PROVE  order[id].status = "PENDING"
    BY <2>2, DormantOrder DEF CancelStop, ExecutingAt
  <2> QED BY <2>1, <2>2 DEF CancelOrder
<1> QED BY <1>1, <1>2, CloseStep DEF OrderStatus

LEMMA MatchRefines ==
  ASSUME Inv, NEW bp \in DOMAIN book["BUY"], NEW sp \in DOMAIN book["SELL"],
         MatchTrade(bp, sp)
  PROVE  Ex!Next
<1> DEFINE b == Foremost("BUY", bp)
           s == Foremost("SELL", sp)
<1>1. /\ 1 \in DOMAIN book["BUY"][bp] /\ b = book["BUY"][bp][1]
      /\ 1 \in DOMAIN book["SELL"][sp] /\ s = book["SELL"][sp][1]
  BY ForemostTyped DEF Inv, Foremost, OrderSide
<1>2. /\ b \in Seen /\ RestingAs(order[b], "BUY", bp)
      /\ s \in Seen /\ RestingAs(order[s], "SELL", sp)
  BY <1>1, RestingOrder DEF OrderSide
<1>3. /\ ExecuteTrade(b, s) /\ order[b].client_id # order[s].client_id
      /\ bp >= sp
  BY DEF MatchTrade, Crossing
<1>4. /\ b # s /\ PricesMeet(order[b], order[s])
      /\ order[b].status = "PENDING" /\ order[s].status = "PENDING"
      /\ order[b].side = "BUY" /\ order[s].side = "SELL"
  BY <1>2, <1>3 DEF RestingAs, PricesMeet
<1> QED BY <1>2, <1>3, <1>4, TradeStep

LEMMA MarketRefines ==
  ASSUME Inv, pc = "market", NEW p \in DOMAIN book[Opposite], MarketTrade(p)
  PROVE  Ex!Next
<1> DEFINE m == market_order
           o == Foremost(Opposite, p)
           b == IF Opposite = "BUY" THEN o ELSE m
           s == IF Opposite = "BUY" THEN m ELSE o
<1>1. /\ m \in Seen /\ order[m] \in Order /\ order[m].type = "MARKET"
      /\ order[m].status = "PENDING" /\ Opposite \in OrderSide
  BY MarketOrder DEF MarketTrade
<1>2. /\ 1 \in DOMAIN book[Opposite][p] /\ o = book[Opposite][p][1]
  BY <1>1, ForemostTyped DEF Inv, Foremost
<1>3. o \in Seen /\ RestingAs(order[o], Opposite, p)
  BY <1>1, <1>2, RestingOrder
<1>4. ExecuteTrade(b, s) /\ order[o].client_id # order[m].client_id
  BY DEF MarketTrade
<1>5. /\ Opposite = "BUY" => order[m].side = "SELL"
      /\ Opposite # "BUY" => Opposite = "SELL" /\ order[m].side = "BUY"
  BY <1>1 DEF Opposite, OppositeSide, Order, OrderSide
<1> HIDE DEF m, o
<1>6. /\ b \in Seen /\ s \in Seen /\ b # s /\ PricesMeet(order[b], order[s])
      /\ order[b].status = "PENDING" /\ order[s].status = "PENDING"
      /\ order[b].side = "BUY" /\ order[s].side = "SELL"
      /\ order[b].client_id # order[s].client_id
  BY <1>1, <1>3, <1>4, <1>5 DEF RestingAs, PricesMeet
<1> HIDE DEF b, s
<1> QED BY <1>4, <1>6, TradeStep

LEMMA MarketDoneRefines ==
  ASSUME Inv, MarketDone
  PROVE  Ex!Next \/ UNCHANGED <<Contracts, last_trade_price>>
<1> DEFINE m == market_order
           st == FinalStatus(order[m], total_executed)
<1>1. /\ pc = "market" /\ order' = [order EXCEPT ![m].status = st]
      /\ UNCHANGED last_trade_price
  BY DEF MarketDone
<1>2. /\ m \in Seen /\ order[m] \in Order /\ StatusOK(order[m])
      /\ order[m].status \in {"PENDING", "FILLED"}
      /\ total_executed = order[m].filled_quantity
  BY <1>1, MarketOrder DEF Inv, ExecutionCounted
<1>3. CASE order[m].status = "PENDING"
  <2>1. st \in OrderStatus \ {"PENDING"}
    BY DEF FinalStatus, OrderStatus
  <2> HIDE DEF st, m
  <2> QED BY <2>1, <1>1, <1>2, <1>3, CloseStep
<1>4. CASE order[m].status = "FILLED"
  <2>1. st = "FILLED"
    BY <1>2, <1>4 DEF FinalStatus, StatusOK
  <2> HIDE DEF st, m
  <2>2. Seen' = Seen /\ \A x \in Seen : ContractOf(order'[x]) = ContractOf(order[x])
    <3>1. order \in [Seen -> Order]
      BY DEF Inv, TypeInv
    <3>2. Seen' = Seen /\ \A x \in Seen \ {m} : order'[x] = order[x]
      BY <3>1, <1>1 DEF Seen
    <3>3. order'[m] = [order[m] EXCEPT !.status = "FILLED"]
      BY <3>1, <2>1, <1>1, <1>2
    <3>4. ContractOf(order'[m]) = ContractOf(order[m])
      BY <3>3, <1>2, <1>4 DEF ContractOf, WorstPrice, Order
    <3> QED BY <3>2, <3>4
  <2> QED BY <2>2, <1>1, Invisible
<1> QED BY <1>2, <1>3, <1>4

LEMMA CheckRefines ==
  ASSUME Inv, CheckNotReached \/ CheckTriggersStopLimit \/ CheckTriggersStop
  PROVE  UNCHANGED <<Contracts, last_trade_price>>
<1> DEFINE id == stop_loss_orders[it]
<1>1. pc = "check" /\ it <= Len(stop_loss_orders) /\ UNCHANGED last_trade_price
  BY DEF CheckNotReached, CheckTriggersStopLimit, CheckTriggersStop
<1>2. /\ id \in Seen /\ IsStop(order[id]) /\ Untouched(order[id])
  BY <1>1, CurrentOrder DEF SameState, Untouched, Inv, TypeInv
<1>3. /\ Current.type = order[id].type /\ Current.side = order[id].side
      /\ Current.client_id = order[id].client_id /\ Current.quantity = order[id].quantity
      /\ Current.limit_price = order[id].limit_price
      /\ Current.filled_quantity = order[id].filled_quantity
      /\ Current.status = order[id].status /\ Current \in Order
  <2>1. Current \in Order
    BY <1>1, CurrentTyped DEF Inv
  <2> QED BY <2>1, <1>2 DEF Current, UpdateTrailingStop, Untouched, Order
<1>4. ContractOf(Current) = ContractOf(order[id])
  BY <1>2, <1>3 DEF ContractOf, WorstPrice, IsStop, StopType
<1>5. Current.type = "STOP_LIMIT" => ContractOf(AsLimit(Current)) = ContractOf(Current)
  BY <1>3 DEF ContractOf, WorstPrice, AsLimit, Order
<1>6. Current.type # "STOP_LIMIT" => ContractOf(AsMarket(Current)) = ContractOf(Current)
  BY <1>2, <1>3 DEF ContractOf, WorstPrice, AsMarket, Order, IsStop, StopType
<1>7. PICK n : order' = WithOrder(id, n) /\ ContractOf(n) = ContractOf(order[id])
  BY <1>4, <1>5, <1>6 DEF CheckNotReached, CheckTriggersStopLimit, CheckTriggersStop, Rest,
       StartMarket
<1> HIDE DEF id
<1>8. Seen' = Seen /\ \A x \in Seen : ContractOf(order'[x]) = ContractOf(order[x])
  BY <1>2, <1>7 DEF WithOrder, Seen
<1> QED BY <1>1, <1>8, Invisible

LEMMA QuietRefines ==
  ASSUME UNCHANGED <<order, last_trade_price>>
  PROVE  UNCHANGED <<Contracts, last_trade_price>>
BY Invisible DEF Seen

LEMMA RefinesInit == Init => Ex!Init
BY DEF Init, Ex!Init, Contracts, Seen

LEMMA RefinesStep ==
  Inv /\ [Next]_vars => [Ex!Next]_<<Contracts, last_trade_price>>
<1> SUFFICES ASSUME Inv, [Next]_vars
             PROVE  Ex!Next \/ UNCHANGED <<Contracts, last_trade_price>>
  OBVIOUS
<1>1. CASE Call
  <2>1. ASSUME NEW id \in Id, NEW o \in Incoming,
               \/ AddLimitOrder(id, o) \/ AddStopOrder(id, o)
               \/ AddTriggeredStopLimit(id, o) \/ AddTriggeredStop(id, o)
               \/ ExecuteMarketOrder(id, o)
        PROVE  Ex!Next
    BY <2>1, ArrivalRefines
  <2>2. ASSUME NEW id \in Seen, CancelOrder(id) PROVE Ex!Next
    BY <2>2, CancelRefines
  <2>3. ASSUME MatchOrders \/ CheckStopLossOrders
        PROVE  UNCHANGED <<order, last_trade_price>>
    BY <2>3 DEF MatchOrders, CheckStopLossOrders
  <2> QED BY <1>1, <2>1, <2>2, <2>3, QuietRefines DEF Call
<1>2. CASE Step
  <2>1. ASSUME NEW b \in DOMAIN book["BUY"], NEW s \in DOMAIN book["SELL"],
               MatchSelfTrade(b, s) \/ MatchTrade(b, s)
        PROVE  Ex!Next \/ UNCHANGED <<order, last_trade_price>>
    BY <2>1, MatchRefines DEF MatchSelfTrade
  <2>2. ASSUME pc = "market", NEW p \in DOMAIN book[Opposite],
               MarketSelfTrade(p) \/ MarketTrade(p)
        PROVE  Ex!Next \/ UNCHANGED <<order, last_trade_price>>
    BY <2>2, MarketRefines DEF MarketSelfTrade
  <2>3. ASSUME MatchDone \/ CheckDone PROVE UNCHANGED <<order, last_trade_price>>
    BY <2>3 DEF MatchDone, CheckDone
  <2> QED BY <1>2, <2>1, <2>2, <2>3, MarketDoneRefines, CheckRefines, QuietRefines DEF Step
<1>3. CASE UNCHANGED vars
  BY <1>3, QuietRefines DEF vars
<1> QED BY <1>1, <1>2, <1>3 DEF Next

(***************************************************************************)
(* The book implements Exchange: whatever the price levels, the stop       *)
(* orders and their conversions do, a client's order is only ever filled   *)
(* by a trade at a price its owner accepted, never beyond its quantity,    *)
(* never against the same client, and never again once it is closed.       *)
(***************************************************************************)
THEOREM Refinement == Spec => ImplementsExchange
<1>1. Init => Ex!Init
  BY RefinesInit
<1>2. Inv /\ [Next]_vars => [Ex!Next]_<<Contracts, last_trade_price>>
  BY RefinesStep
<1> QED BY <1>1, <1>2, AlwaysInv, PTL DEF Spec, ImplementsExchange, Ex!Spec
-----------------------------------------------------------------------------
(***************************************************************************)
(* Counting the units of a set of orders: orders without units count for   *)
(* nothing, and a fill of one order adds its quantity.                     *)
(***************************************************************************)
LEMMA UnitsSame ==
  ASSUME NEW S, NEW T, S \subseteq T, NEW f, NEW g,
         \A x \in S : g[x] = f[x], \A x \in T \ S : g[x] = 0
  PROVE  Units(g, T) = Units(f, S)
<1>1. \A x \in T \ S : {x} \X (1..g[x]) = {}
  OBVIOUS
<1>2. \A x \in S : {x} \X (1..g[x]) = {x} \X (1..f[x])
  OBVIOUS
<1> QED BY <1>1, <1>2 DEF Units

LEMMA UnitsMore ==
  ASSUME NEW S, NEW f, NEW g, NEW a \in S, NEW q \in Nat, f[a] \in Nat,
         g[a] = f[a] + q, \A x \in S \ {a} : g[x] = f[x], IsFiniteSet(Units(f, S))
  PROVE  /\ IsFiniteSet(Units(g, S))
         /\ Cardinality(Units(g, S)) = Cardinality(Units(f, S)) + q
<1> DEFINE New == {a} \X ((f[a] + 1)..(f[a] + q))
<1>1. IsFiniteSet(New) /\ Cardinality(New) = q
  <2>1. /\ IsFiniteSet((f[a] + 1)..(f[a] + q))
        /\ Cardinality((f[a] + 1)..(f[a] + q)) = q
    <3>1. PICK lo \in Int, hi \in Int : lo = f[a] + 1 /\ hi = f[a] + q
      OBVIOUS
    <3>2. /\ IsFiniteSet(lo..hi)
          /\ Cardinality(lo..hi) = IF lo > hi THEN 0 ELSE hi - lo + 1
      BY FS_Interval
    <3>3. (IF lo > hi THEN 0 ELSE hi - lo + 1) = q
      BY <3>1
    <3>4. (f[a] + 1)..(f[a] + q) = lo..hi
      BY <3>1
    <3> QED BY <3>2, <3>3, <3>4
  <2>2. IsFiniteSet({a}) /\ Cardinality({a}) = 1
    BY FS_Singleton
  <2>3. /\ IsFiniteSet(New)
        /\ Cardinality(New) = Cardinality({a}) * Cardinality((f[a] + 1)..(f[a] + q))
    BY <2>1, <2>2, FS_Product
  <2> HIDE DEF New
  <2> QED BY <2>1, <2>2, <2>3
<1>2. New \cap Units(f, S) = {}
  BY DEF Units
<1>3. Units(g, S) = Units(f, S) \cup New
  <2>1. 1..g[a] = (1..f[a]) \cup ((f[a] + 1)..(f[a] + q))
    OBVIOUS
  <2>2. {a} \X (1..g[a]) = ({a} \X (1..f[a])) \cup New
    BY <2>1
  <2>3. \A x \in S \ {a} : {x} \X (1..g[x]) = {x} \X (1..f[x])
    OBVIOUS
  <2> HIDE DEF New
  <2> QED BY <2>2, <2>3 DEF Units
<1> HIDE DEF New
<1>4. Cardinality(Units(f, S)) \in Nat /\ Cardinality({}) = 0
  BY FS_CardinalityType, FS_EmptySet
<1> QED BY <1>1, <1>2, <1>3, <1>4, FS_Union

(***************************************************************************)
(* Every trade adds as many units to the buyers as to the sellers, and     *)
(* nothing else adds any: seen from the contracts, which is all that       *)
(* matters here.                                                           *)
(***************************************************************************)
OrdersOf(side) == {id \in Seen : order[id].side = side}

Fills == [id \in Seen |-> order[id].filled_quantity]

SharesInv == SharesBalance /\ IsFiniteSet(Executed("BUY")) /\ IsFiniteSet(Executed("SELL"))

LEMMA ContractFills ==
  ASSUME NEW id \in Seen
  PROVE  /\ Contracts[id].side = order[id].side
         /\ Contracts[id].filled = order[id].filled_quantity
         /\ Fills[id] = order[id].filled_quantity
BY DEF Contracts, ContractOf, Fills

LEMMA SharesStep ==
  ASSUME Inv, SharesInv, [Ex!Next]_<<Contracts, last_trade_price>>
  PROVE  SharesInv'
<1>1. /\ DOMAIN Contracts = Seen /\ DOMAIN Contracts' = Seen'
      /\ \A id \in Seen' : /\ Contracts'[id].side = order'[id].side
                           /\ Contracts'[id].filled = order'[id].filled_quantity
                           /\ Fills'[id] = order'[id].filled_quantity
  BY DEF Contracts, ContractOf, Fills
<1>2. \A id \in Seen : /\ Contracts[id].side = order[id].side
                       /\ Contracts[id].filled = order[id].filled_quantity
                       /\ Fills[id] = order[id].filled_quantity
                       /\ order[id].filled_quantity \in Nat
  BY ContractFills DEF Inv, FillsBounded, StatusOK
<1>3. \A side : /\ Executed(side) = Units(Fills, OrdersOf(side))
                /\ Executed(side)' = Units(Fills', OrdersOf(side)')
  BY DEF Executed, Fills, OrdersOf
<1>4. ASSUME Seen \subseteq Seen', \A id \in Seen' \ Seen : Contracts'[id].filled = 0,
             \A id \in Seen : /\ Contracts'[id].side = Contracts[id].side
                              /\ Contracts'[id].filled = Contracts[id].filled
      PROVE  SharesInv'
  <2>1. ASSUME NEW side PROVE Executed(side)' = Executed(side)
    <3>1. OrdersOf(side) \subseteq OrdersOf(side)'
      BY <1>1, <1>2, <1>4 DEF OrdersOf
    <3>2. /\ \A id \in OrdersOf(side) : Fills'[id] = Fills[id]
          /\ \A id \in OrdersOf(side)' \ OrdersOf(side) : Fills'[id] = 0
      BY <1>1, <1>2, <1>4 DEF OrdersOf
    <3> QED BY <1>3, <3>1, <3>2, UnitsSame
  <2> QED BY <2>1 DEF SharesInv, SharesBalance
<1>5. CASE UNCHANGED <<Contracts, last_trade_price>>
  BY <1>1, <1>4, <1>5
<1>6. ASSUME NEW id \in Id, Ex!Submit(id) PROVE SharesInv'
  <2>1. /\ Seen' = Seen \cup {id} /\ id \notin Seen /\ Contracts'[id].filled = 0
        /\ \A x \in Seen : Contracts'[x] = Contracts[x]
    BY <1>1, <1>6 DEF Ex!Submit, Ex!Submitted
  <2> QED BY <1>4, <2>1
<1>7. ASSUME NEW id \in Seen, Ex!Close(id) PROVE SharesInv'
  <2>1. Contracts' = [Contracts EXCEPT ![id].state = "closed"]
    BY <1>7 DEF Ex!Close
  <2>2. /\ Seen' = Seen
        /\ \A x \in Seen : /\ Contracts'[x].side = Contracts[x].side
                           /\ Contracts'[x].filled = Contracts[x].filled
    <3>1. \A x \in Seen : Contracts[x] = ContractOf(order[x])
      BY DEF Contracts
    <3> QED BY <1>1, <2>1, <3>1 DEF ContractOf
  <2> QED BY <1>4, <2>2
<1>8. ASSUME NEW b \in Seen, NEW s \in Seen, NEW q \in Ex!Quantities, Ex!Trade(b, s, q)
      PROVE  SharesInv'
  <2>1. /\ Contracts[b].side = "BUY" /\ Contracts[s].side = "SELL"
        /\ q \in 1..(Contracts[b].quantity - Contracts[b].filled)
        /\ Contracts' = [Contracts EXCEPT ![b] = Ex!Fill(@, q), ![s] = Ex!Fill(@, q)]
    BY <1>8 DEF Ex!Trade
  <2>2. q \in Nat
    <3>1. Contracts[b].quantity = order[b].quantity /\ order[b].quantity \in Nat
      BY DEF Contracts, ContractOf, Inv, TypeInv, Order
    <3> QED BY <1>2, <2>1, <3>1
  <2>3. b # s /\ Seen' = Seen
    BY <1>1, <2>1
  <2>4. /\ \A x \in Seen \ {b, s} : Contracts'[x] = Contracts[x]
        /\ Contracts'[b] = Ex!Fill(Contracts[b], q)
        /\ Contracts'[s] = Ex!Fill(Contracts[s], q)
    BY <1>1, <2>1, <2>3
  <2>5. ASSUME NEW x \in {b, s}
        PROVE  /\ Ex!Fill(Contracts[x], q).side = Contracts[x].side
               /\ Ex!Fill(Contracts[x], q).filled = Contracts[x].filled + q
    BY DEF Ex!Fill, Contracts, ContractOf
  <2>6. /\ OrdersOf("BUY")' = OrdersOf("BUY") /\ OrdersOf("SELL")' = OrdersOf("SELL")
        /\ b \in OrdersOf("BUY") /\ s \in OrdersOf("SELL")
        /\ b \notin OrdersOf("SELL") /\ s \notin OrdersOf("BUY")
    <3>1. \A x \in Seen : order'[x].side = order[x].side
      BY <1>1, <1>2, <2>3, <2>4, <2>5
    <3> QED BY <1>2, <2>1, <2>3, <3>1 DEF OrdersOf
  <2>7. /\ Fills'[b] = Fills[b] + q /\ Fills'[s] = Fills[s] + q
        /\ Fills[b] \in Nat /\ Fills[s] \in Nat
        /\ \A x \in Seen \ {b, s} : Fills'[x] = Fills[x]
    BY <1>1, <1>2, <2>3, <2>4, <2>5
  <2>8. /\ IsFiniteSet(Executed("BUY")')
        /\ Cardinality(Executed("BUY")') = Cardinality(Executed("BUY")) + q
    <3>1. \A x \in OrdersOf("BUY") \ {b} : Fills'[x] = Fills[x]
      BY <2>6, <2>7 DEF OrdersOf
    <3>2. IsFiniteSet(Units(Fills, OrdersOf("BUY")))
      BY <1>3 DEF SharesInv
    <3>3. /\ IsFiniteSet(Units(Fills', OrdersOf("BUY")))
          /\ Cardinality(Units(Fills', OrdersOf("BUY"))) =
               Cardinality(Units(Fills, OrdersOf("BUY"))) + q
      BY <2>2, <2>6, <2>7, <3>1, <3>2, UnitsMore
    <3> QED BY <1>3, <2>6, <3>3
  <2>9. /\ IsFiniteSet(Executed("SELL")')
        /\ Cardinality(Executed("SELL")') = Cardinality(Executed("SELL")) + q
    <3>1. \A x \in OrdersOf("SELL") \ {s} : Fills'[x] = Fills[x]
      BY <2>6, <2>7 DEF OrdersOf
    <3>2. IsFiniteSet(Units(Fills, OrdersOf("SELL")))
      BY <1>3 DEF SharesInv
    <3>3. /\ IsFiniteSet(Units(Fills', OrdersOf("SELL")))
          /\ Cardinality(Units(Fills', OrdersOf("SELL"))) =
               Cardinality(Units(Fills, OrdersOf("SELL"))) + q
      BY <2>2, <2>6, <2>7, <3>1, <3>2, UnitsMore
    <3> QED BY <1>3, <2>6, <3>3
  <2> QED BY <2>8, <2>9 DEF SharesInv, SharesBalance
<1> QED BY <1>1, <1>5, <1>6, <1>7, <1>8 DEF Ex!Next, Ex!Submitted

(***************************************************************************)
(* Every share bought was sold, whatever happened to the orders since.     *)
(***************************************************************************)
THEOREM SharesCorrect == Spec => []SharesBalance
<1>1. Init => SharesInv
  <2>1. ASSUME Init, NEW side PROVE Executed(side) = {}
    BY <2>1 DEF Init, Executed, Units, Seen
  <2>2. Init => Executed("BUY") = {} /\ Executed("SELL") = {}
    BY <2>1
  <2> QED BY <2>2, FS_EmptySet DEF SharesInv, SharesBalance
<1>2. Inv /\ SharesInv /\ [Next]_vars => SharesInv'
  BY RefinesStep, SharesStep
<1>3. SharesInv => SharesBalance
  BY DEF SharesInv
<1> QED BY <1>1, <1>2, <1>3, AlwaysInv, PTL DEF Spec
=============================================================================
