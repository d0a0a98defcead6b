-------------------------- MODULE OrderBookSafety --------------------------
(***************************************************************************)
(* Proofs about OrderBook for any sets of ids, clients and orders: what    *)
(* the book, the stop orders and the fills satisfy.                        *)
(***************************************************************************)
EXTENDS OrderBookTyping

(***************************************************************************)
(* The inductive invariant.  No part is inductive alone: a trade keeps the *)
(* book right because resting orders are open and in one place, fills stay *)
(* right because both parties are open, and a triggered stop order enters  *)
(* the book or the market loop unfilled because it was dormant.            *)
(***************************************************************************)
Inv ==
  /\ TypeInv
  /\ RestingAreOpen /\ RestingOnce
  /\ StopsAreDormant
  /\ FillsBounded /\ ExecutionCounted

RestingAs(o, side, p) ==
  /\ o.type = "LIMIT" /\ o.side = side /\ o.price = p
  /\ o.status = "PENDING" /\ o.filled_quantity < o.quantity

LEMMA RestingOrder ==
  ASSUME Inv, NEW side \in OrderSide, NEW p \in DOMAIN book[side],
         NEW i \in DOMAIN book[side][p], NEW x, x = book[side][p][i]
  PROVE  /\ x \in Seen /\ order[x] \in Order /\ RestingAs(order[x], side, p)
         /\ StatusOK(order[x])
<1>1. x \in Seen
  BY EraseTyped DEF Inv
<1>2. order[x] \in Order
  BY <1>1 DEF Inv, TypeInv
<1>3. RestingAs(order[x], side, p)
  BY DEF Inv, RestingAreOpen, RestingAs
<1>4. StatusOK(order[x])
  BY <1>1 DEF Inv, FillsBounded
<1> QED BY <1>1, <1>2, <1>3, <1>4

LEMMA OnePlace ==
  ASSUME Inv, NEW s \in OrderSide, NEW t \in OrderSide,
         NEW p \in DOMAIN book[s], NEW q \in DOMAIN book[t],
         NEW i \in DOMAIN book[s][p], NEW j \in DOMAIN book[t][q],
         book[s][p][i] = book[t][q][j]
  PROVE  s = t /\ p = q /\ i = j
<1>1. s = t /\ p = q
  BY RestingOrder DEF RestingAs
<1>2. IsInjectiveSeq(book[s][p])
  BY DEF Inv, RestingOnce
<1> QED BY <1>1, <1>2 DEF IsInjectiveSeq

LEMMA DormantOrder ==
  ASSUME Inv, NEW i \in DOMAIN stop_loss_orders, NEW x, x = stop_loss_orders[i]
  PROVE  /\ x \in Seen /\ order[x] \in Order /\ StatusOK(order[x])
         /\ ~ExecutingAt(i) => /\ IsStop(order[x]) /\ order[x].status = "PENDING"
                               /\ order[x].filled_quantity = 0
<1>1. x \in Seen
  <2>1. stop_loss_orders \in Seq(Seen) /\ i \in 1..Len(stop_loss_orders)
    BY LenProperties DEF Inv, TypeInv
  <2> QED BY <2>1, ElementOfSeq
<1>2. order[x] \in Order /\ StatusOK(order[x])
  BY <1>1 DEF Inv, TypeInv, FillsBounded
<1> QED BY <1>1, <1>2 DEF Inv, StopsAreDormant

(***************************************************************************)
(* The book stays right when no limit order changes and each side at most  *)
(* loses an order.                                                         *)
(***************************************************************************)
AtMostErases(side) ==
  \/ book'[side] = book[side]
  \/ \E p \in DOMAIN book[side] : \E i \in DOMAIN book[side][p] :
       book'[side] = Erase(book[side], p, i)

LEMMA ErasesKeepEntries ==
  ASSUME Inv, NEW side \in OrderSide, AtMostErases(side)
  PROVE  /\ DOMAIN book'[side] \subseteq DOMAIN book[side]
         /\ \A p \in DOMAIN book'[side] : \A j \in DOMAIN book'[side][p] :
              \E k \in DOMAIN book[side][p] : book'[side][p][j] = book[side][p][k]
         /\ NoRepeats(book'[side])
<1>1. IsLevels(book[side], Seen) /\ NoRepeats(book[side])
  BY DEF Inv, TypeInv, LevelsTyped, RestingOnce, NoRepeats
<1>2. CASE book'[side] = book[side]
  BY <1>1, <1>2
<1>3. ASSUME NEW p \in DOMAIN book[side], NEW i \in DOMAIN book[side][p],
             book'[side] = Erase(book[side], p, i)
      PROVE  /\ DOMAIN book'[side] \subseteq DOMAIN book[side]
             /\ \A r \in DOMAIN book'[side] : \A j \in DOMAIN book'[side][r] :
                  \E k \in DOMAIN book[side][r] : book'[side][r][j] = book[side][r][k]
             /\ NoRepeats(book'[side])
  BY <1>1, <1>3, EraseProperties
<1> QED BY <1>2, <1>3 DEF AtMostErases

SideRight(side) ==
  /\ \A p \in DOMAIN book[side] : \A i \in DOMAIN book[side][p] :
       RestingAs(order[book[side][p][i]], side, p)
  /\ NoRepeats(book[side])

LEMMA BothSides ==
  ASSUME \A side \in OrderSide : SideRight(side)'
  PROVE  RestingAreOpen' /\ RestingOnce'
BY DEF SideRight, RestingAreOpen, RestingAs, RestingOnce, NoRepeats

LEMMA SideFrame ==
  ASSUME Inv, NEW side \in OrderSide, AtMostErases(side),
         \A id \in Seen : order[id].type = "LIMIT" /\ order[id].side = side
                          => order'[id] = order[id]
  PROVE  SideRight(side)'
<1>1. ASSUME NEW p \in DOMAIN book'[side], NEW j \in DOMAIN book'[side][p]
      PROVE  RestingAs(order'[book'[side][p][j]], side, p)
  <2>1. p \in DOMAIN book[side]
    BY ErasesKeepEntries
  <2>2. PICK k \in DOMAIN book[side][p] : book'[side][p][j] = book[side][p][k]
    BY ErasesKeepEntries
  <2>3. /\ book[side][p][k] \in Seen
        /\ RestingAs(order[book[side][p][k]], side, p)
    BY <2>1, RestingOrder
  <2>4. order'[book[side][p][k]] = order[book[side][p][k]]
    BY <2>3 DEF RestingAs
  <2> QED BY <2>2, <2>3, <2>4
<1>2. NoRepeats(book'[side])
  BY ErasesKeepEntries
<1> QED BY <1>1, <1>2 DEF SideRight

LEMMA BookFrame ==
  ASSUME Inv, \A side \in OrderSide : AtMostErases(side),
         \A id \in Seen : order[id].type = "LIMIT" => order'[id] = order[id]
  PROVE  RestingAreOpen' /\ RestingOnce'
BY SideFrame, BothSides

(***************************************************************************)
(* The side of a cancelled order: the order is nowhere else.               *)
(***************************************************************************)
LEMMA SideAfterErase ==
  ASSUME Inv, NEW side \in OrderSide, NEW p \in DOMAIN book[side],
         NEW i \in DOMAIN book[side][p],
         book'[side] = Erase(book[side], p, i),
         \A id \in Seen \ {book[side][p][i]} :
           order[id].side = side => order'[id] = order[id]
  PROVE  SideRight(side)'
<1>1. IsLevels(book[side], Seen) /\ NoRepeats(book[side])
  BY DEF Inv, TypeInv, LevelsTyped, RestingOnce, NoRepeats
<1>2. /\ DOMAIN book'[side] \subseteq DOMAIN book[side]
      /\ \A r \in DOMAIN book'[side] : \A j \in DOMAIN book'[side][r] :
           \E k \in DOMAIN book[side][r] :
             (r = p => k # i) /\ book'[side][r][j] = book[side][r][k]
      /\ NoRepeats(book'[side])
  BY <1>1, EraseProperties
<1>3. ASSUME NEW r \in DOMAIN book'[side], NEW j \in DOMAIN book'[side][r]
      PROVE  RestingAs(order'[book'[side][r][j]], side, r)
  <2>1. PICK k \in DOMAIN book[side][r] :
          (r = p => k # i) /\ book'[side][r][j] = book[side][r][k]
    BY <1>2
  <2>2. r \in DOMAIN book[side]
    BY <1>2
  <2>3. book[side][r][k] # book[side][p][i]
    BY <2>1, <2>2, OnePlace
  <2>4. /\ book[side][r][k] \in Seen
        /\ RestingAs(order[book[side][r][k]], side, r)
    BY <2>2, RestingOrder
  <2> QED BY <2>1, <2>3, <2>4 DEF RestingAs
<1> QED BY <1>2, <1>3 DEF SideRight

(***************************************************************************)
(* A fill within an order's remaining quantity.                            *)
(***************************************************************************)
SameTerms(o, n) ==
  /\ o.type = n.type /\ o.side = n.side /\ o.client_id = n.client_id
  /\ o.quantity = n.quantity /\ o.price = n.price /\ o.limit_price = n.limit_price

LEMMA FillProperties ==
  ASSUME NEW o \in Order, StatusOK(o), o.status = "PENDING", NEW q \in 1..Remaining(o)
  PROVE  /\ StatusOK(Filled(o, q))
         /\ Filled(o, q).status = IF o.filled_quantity + q = o.quantity
                                    THEN "FILLED" ELSE "PENDING"
         /\ Filled(o, q).filled_quantity = o.filled_quantity + q
         /\ SameTerms(Filled(o, q), o)
<1>1. /\ o.filled_quantity \in Nat /\ o.quantity \in Nat /\ q \in Nat
      /\ q >= 1 /\ o.filled_quantity + q <= o.quantity
  BY DEF Order, StatusOK, Remaining
<1>2. /\ Filled(o, q).status = IF o.filled_quantity + q = o.quantity
                                   THEN "FILLED" ELSE "PENDING"
      /\ Filled(o, q).filled_quantity = o.filled_quantity + q
      /\ SameTerms(Filled(o, q), o)
  BY <1>1 DEF Filled, Order, SameTerms
<1>3. StatusOK(Filled(o, q))
  BY <1>1, <1>2 DEF StatusOK, SameTerms
<1> QED BY <1>2, <1>3

(***************************************************************************)
(* The side of an order that traded at its front.                          *)
(***************************************************************************)
LEMMA SideAfterTrade ==
  ASSUME Inv, NEW side \in OrderSide, NEW p \in DOMAIN book[side],
         NEW x, x = Foremost(side, p), NEW q \in 1..Remaining(order[x]),
         book'[side] = LevelsAfterTrade(side, p, order[x], q),
         order'[x] = Filled(order[x], q),
         \A id \in Seen \ {x} : order[id].side = side /\ order[id].type = "LIMIT"
                                => order'[id] = order[id]
  PROVE  SideRight(side)'
<1>1. 1 \in DOMAIN book[side][p] /\ x = book[side][p][1]
  BY ForemostTyped DEF Inv, Foremost
<1>2. /\ x \in Seen /\ order[x] \in Order /\ RestingAs(order[x], side, p)
      /\ StatusOK(order[x])
  BY <1>1, RestingOrder
<1>3. IsLevels(book[side], Seen) /\ NoRepeats(book[side])
  BY DEF Inv, TypeInv, LevelsTyped, RestingOnce, NoRepeats
<1>4. CASE order[x].filled_quantity + q >= order[x].quantity
  <2>1. book'[side] = Erase(book[side], p, 1)
    BY <1>4 DEF LevelsAfterTrade
  <2>2. /\ DOMAIN book'[side] \subseteq DOMAIN book[side]
        /\ \A r \in DOMAIN book'[side] : \A j \in DOMAIN book'[side][r] :
             \E k \in DOMAIN book[side][r] :
               (r = p => k # 1) /\ book'[side][r][j] = book[side][r][k]
        /\ NoRepeats(book'[side])
    BY <2>1, <1>1, <1>3, EraseProperties
  <2>3. ASSUME NEW r \in DOMAIN book'[side], NEW j \in DOMAIN book'[side][r]
        PROVE  RestingAs(order'[book'[side][r][j]], side, r)
    <3>1. PICK k \in DOMAIN book[side][r] :
            (r = p => k # 1) /\ book'[side][r][j] = book[side][r][k]
      BY <2>2
    <3>2. r \in DOMAIN book[side]
      BY <2>2
    <3>3. book[side][r][k] # x
      BY <3>1, <3>2, <1>1, OnePlace
    <3>4. /\ book[side][r][k] \in Seen
          /\ RestingAs(order[book[side][r][k]], side, r)
      BY <3>2, RestingOrder
    <3> QED BY <3>1, <3>3, <3>4 DEF RestingAs
  <2> QED BY <2>2, <2>3 DEF SideRight
<1>5. CASE ~(order[x].filled_quantity + q >= order[x].quantity)
  <2>1. book'[side] = book[side]
    BY <1>5 DEF LevelsAfterTrade
  <2>2. RestingAs(order'[x], side, p)
    <3>1. /\ order[x].status = "PENDING"
          /\ order[x].filled_quantity + q # order[x].quantity
      BY <1>2, <1>5 DEF RestingAs, StatusOK, Order
    <3>2. /\ order'[x].status = "PENDING" /\ SameTerms(order'[x], order[x])
          /\ order'[x].filled_quantity = order[x].filled_quantity + q
      BY <1>2, <3>1, FillProperties
    <3>3. order'[x].filled_quantity < order'[x].quantity
      BY <3>2, <1>2, <1>5 DEF SameTerms, Order, StatusOK
    <3> QED BY <1>2, <3>2, <3>3 DEF RestingAs, SameTerms
  <2>3. ASSUME NEW r \in DOMAIN book[side], NEW j \in DOMAIN book[side][r]
        PROVE  RestingAs(order'[book[side][r][j]], side, r)
    <3>1. /\ book[side][r][j] \in Seen
          /\ RestingAs(order[book[side][r][j]], side, r)
      BY RestingOrder
    <3>2. CASE book[side][r][j] = x
      BY <3>2, <2>2, <3>1, <1>2 DEF RestingAs
    <3>3. CASE book[side][r][j] # x
      BY <3>3, <3>1 DEF RestingAs
    <3> QED BY <3>2, <3>3
  <2> QED BY <2>1, <2>3, <1>3 DEF SideRight
<1> QED BY <1>4, <1>5

(***************************************************************************)
(* The stop orders stay right when they are the same ones, none got        *)
(* another type, status or fill, and the one being executed, if any, is    *)
(* the same.                                                               *)
(***************************************************************************)
SameState(o, n) ==
  o.type = n.type /\ o.status = n.status /\ o.filled_quantity = n.filled_quantity

LEMMA StopsFrame ==
  ASSUME Inv, UNCHANGED stop_loss_orders,
         \A id \in Seen : IsStop(order[id]) => SameState(order'[id], order[id]),
         \A i \in DOMAIN stop_loss_orders :
           /\ ExecutingAt(i)' <=> ExecutingAt(i)
           /\ ExecutingAt(i) => UNCHANGED market_order
  PROVE  StopsAreDormant'
<1>1. IsInjectiveSeq(stop_loss_orders)'
  BY DEF Inv, StopsAreDormant, IsInjectiveSeq
<1>2. ASSUME NEW i \in DOMAIN stop_loss_orders
      PROVE  LET o == order'[stop_loss_orders[i]]
             IN  IF ExecutingAt(i)'
                   THEN market_order' = stop_loss_orders[i]
                   ELSE IsStop(o) /\ o.status = "PENDING" /\ o.filled_quantity = 0
  <2>1. CASE ExecutingAt(i)
    BY <2>1 DEF Inv, StopsAreDormant
  <2>2. CASE ~ExecutingAt(i)
    BY <2>2, DormantOrder DEF IsStop, SameState
  <2> QED BY <2>1, <2>2
<1> QED BY <1>1, <1>2 DEF StopsAreDormant

(***************************************************************************)
(* They stay right when one is removed and no other changes.               *)
(***************************************************************************)
LEMMA StopRemoved ==
  ASSUME Inv, NEW i \in DOMAIN stop_loss_orders,
         stop_loss_orders' = RemoveAt(stop_loss_orders, i),
         \A id \in Seen \ {stop_loss_orders[i]} :
           IsStop(order[id]) => order'[id] = order[id],
         \A k \in DOMAIN stop_loss_orders \ {i} : ~ExecutingAt(k),
         pc' # "market"
  PROVE  StopsAreDormant'
<1> DEFINE old == stop_loss_orders
<1>1. old \in Seq(Seen) /\ IsInjectiveSeq(old)
  BY DEF Inv, TypeInv, StopsAreDormant
<1>2. /\ \A j \in DOMAIN old' : \E k \in DOMAIN old : k # i /\ old'[j] = old[k]
      /\ IsInjectiveSeq(old)'
  <2> HIDE DEF old
  <2>1. /\ \A j \in DOMAIN RemoveAt(old, i) : \E k \in DOMAIN old :
             k # i /\ RemoveAt(old, i)[j] = old[k]
        /\ IsInjectiveSeq(RemoveAt(old, i))
    BY <1>1, RemoveAtElements DEF old
  <2> QED BY <2>1 DEF old, IsInjectiveSeq
<1>3. ASSUME NEW j \in DOMAIN old'
      PROVE  LET o == order'[old'[j]]
             IN  IsStop(o) /\ o.status = "PENDING" /\ o.filled_quantity = 0
  <2>1. PICK k \in DOMAIN old : k # i /\ old'[j] = old[k]
    BY <1>2
  <2>2. old[k] # old[i]
    BY <1>1, <2>1 DEF IsInjectiveSeq
  <2>3. /\ old[k] \in Seen /\ IsStop(order[old[k]])
        /\ order[old[k]].status = "PENDING" /\ order[old[k]].filled_quantity = 0
    BY <2>1, DormantOrder
  <2> QED BY <2>1, <2>2, <2>3
<1> QED BY <1>2, <1>3 DEF StopsAreDormant, ExecutingAt

(***************************************************************************)
(* The fills stay right when each order is as before or right by itself.   *)
(***************************************************************************)
LEMMA FillsFrame ==
  ASSUME Inv,
         \A id \in Seen' :
           \/ /\ id \in Seen /\ order'[id] = order[id]
              /\ id = market_order => id = market_order'
           \/ /\ StatusOK(order'[id])
              /\ order'[id].type = "MARKET" /\ order'[id].status = "PENDING"
                   => id = market_order'
  PROVE  FillsBounded'
BY DEF Inv, FillsBounded, StatusOK
-----------------------------------------------------------------------------
(***************************************************************************)
(* A new order, and a dormant stop order, are open and unfilled, whatever  *)
(* they are converted to.                                                  *)
(***************************************************************************)
Untouched(o) == o \in Order /\ o.status = "PENDING" /\ o.filled_quantity = 0

LEMMA UntouchedProperties ==
  ASSUME NEW o, Untouched(o)
  PROVE  /\ StatusOK(o)
         /\ Untouched(AsLimit(o)) /\ AsLimit(o).type = "LIMIT"
         /\ Untouched(AsMarket(o)) /\ AsMarket(o).type = "MARKET"
         /\ \A t \in Nat : /\ Untouched([o EXCEPT !.timestamp = t])
                           /\ [o EXCEPT !.timestamp = t].type = o.type
<1>1. o \in Order /\ o.status = "PENDING" /\ o.filled_quantity = 0
  BY DEF Untouched
<1>2. o.quantity \in Nat /\ o.quantity > 0
  BY <1>1 DEF Order
<1>3. StatusOK(o)
  BY <1>1, <1>2 DEF StatusOK
<1>4. /\ AsLimit(o) \in Order /\ AsMarket(o) \in Order
      /\ \A t \in Nat : [o EXCEPT !.timestamp = t] \in Order
  BY <1>1, OrderUpdates
<1>5. /\ AsLimit(o).type = "LIMIT" /\ AsLimit(o).status = "PENDING"
      /\ AsLimit(o).filled_quantity = 0
      /\ AsMarket(o).type = "MARKET" /\ AsMarket(o).status = "PENDING"
      /\ AsMarket(o).filled_quantity = 0
  BY <1>1 DEF AsLimit, AsMarket, Order
<1>6. ASSUME NEW t \in Nat
      PROVE  /\ [o EXCEPT !.timestamp = t].type = o.type
             /\ [o EXCEPT !.timestamp = t].status = "PENDING"
             /\ [o EXCEPT !.timestamp = t].filled_quantity = 0
  BY <1>1 DEF Order
<1> QED BY <1>3, <1>4, <1>5, <1>6 DEF Untouched

(***************************************************************************)
(* An order that was not in the book joins it.                             *)
(***************************************************************************)
LEMMA RestSafe ==
  ASSUME Inv, NEW id \in Id, NEW o, Untouched(o), o.type = "LIMIT", Rest(id, o),
         \A side \in OrderSide : ~Occurs(book[side], id)
  PROVE  RestingAreOpen' /\ RestingOnce'
<1>1. o \in Order /\ o.side \in OrderSide /\ o.price \in Int
  BY DEF Untouched, Order
<1>2. order' = WithOrder(id, o)
  BY DEF Rest
<1>3. /\ Seen' = Seen \cup {id}
      /\ \A side \in OrderSide : IsLevels(book[side], Seen')
  BY <1>1, <1>2, WithOrderTyped DEF Inv
<1>4. /\ order'[id] = o
      /\ \A x \in Seen \ {id} : order'[x] = order[x]
  BY <1>2 DEF WithOrder
<1>5. RestingAs(o, o.side, o.price)
  BY DEF Untouched, RestingAs, Order
<1>6. /\ book'[o.side] = PushBack(book[o.side], o.price, id)
      /\ \A side \in OrderSide \ {o.side} : book'[side] = book[side]
  BY <1>1 DEF Rest, Inv, TypeInv
<1>7. ASSUME NEW side \in OrderSide, NEW p \in DOMAIN book[side],
             NEW j \in DOMAIN book[side][p]
      PROVE  RestingAs(order'[book[side][p][j]], side, p)
  <2>1. book[side][p][j] \in Seen /\ RestingAs(order[book[side][p][j]], side, p)
    BY RestingOrder
  <2>2. book[side][p][j] # id
    BY DEF Occurs
  <2> QED BY <2>1, <2>2, <1>4
<1>8. SideRight(o.side)'
  <2> DEFINE new == book'[o.side]
             old == book[o.side]
  <2>1. /\ \A p \in DOMAIN new : \A j \in DOMAIN new[p] :
             \/ p = o.price /\ new[p][j] = id
             \/ /\ p \in DOMAIN old /\ j \in DOMAIN old[p]
                /\ new[p][j] = old[p][j]
        /\ NoRepeats(old) /\ ~Occurs(old, id) => NoRepeats(new)
    <3>1. IsLevels(old, Seen') /\ id \in Seen'
      BY <1>1, <1>3
    <3>2. new = PushBack(old, o.price, id)
      BY <1>6
    <3> HIDE DEF new, old
    <3> QED BY <3>1, <3>2, <1>1, PushBackProperties
  <2>2. NoRepeats(old)
    BY <1>1 DEF Inv, RestingOnce, NoRepeats
  <2>3. NoRepeats(new)
    BY <2>1, <2>2, <1>1
  <2>4. \A p \in DOMAIN new : \A j \in DOMAIN new[p] :
          RestingAs(order'[new[p][j]], o.side, p)
    BY <2>1, <1>1, <1>4, <1>5, <1>7
  <2> QED BY <2>3, <2>4 DEF SideRight
<1>9. ASSUME NEW side \in OrderSide \ {o.side} PROVE SideRight(side)'
  <2>1. NoRepeats(book[side])
    BY DEF Inv, RestingOnce, NoRepeats
  <2> QED BY <2>1, <1>6, <1>7 DEF SideRight
<1> QED BY <1>8, <1>9, BothSides

LEMMA NewIdNowhere ==
  ASSUME Inv, NEW id, id \notin Seen
  PROVE  /\ \A side \in OrderSide : ~Occurs(book[side], id)
         /\ \A i \in DOMAIN stop_loss_orders : stop_loss_orders[i] # id
         /\ id # market_order \/ pc # "market"
<1>1. \A side \in OrderSide : ~Occurs(book[side], id)
  BY RestingOrder DEF Occurs
<1>2. \A i \in DOMAIN stop_loss_orders : stop_loss_orders[i] # id
  BY DormantOrder
<1> QED BY <1>1, <1>2 DEF Inv, TypeInv

LEMMA ArrivalSafe ==
  ASSUME Inv, NEW id \in Id, NEW o \in Incoming,
         \/ AddLimitOrder(id, o)
         \/ AddStopOrder(id, o)
         \/ AddTriggeredStopLimit(id, o)
         \/ AddTriggeredStop(id, o)
         \/ ExecuteMarketOrder(id, o)
  PROVE  Inv'
<1> DEFINE stamped == [o EXCEPT !.timestamp = clock']
<1>1. clock' \in Nat /\ id \notin Seen /\ pc = "idle" /\ market_order = NoId /\ it = 0
  BY TickAssumption DEF Inv, TypeInv, AddLimitOrder, AddStopOrder, AddTriggeredStopLimit,
       AddTriggeredStop, ExecuteMarketOrder, Arrives
<1>2. Untouched(o)
  BY IncomingAssumption DEF IsAdmissible, IsFresh, Untouched
<1>3. Untouched(stamped) /\ stamped.type = o.type
  BY <1>1, <1>2, UntouchedProperties
<1>4. Untouched(AsMarket(stamped)) /\ AsMarket(stamped).type = "MARKET"
  BY <1>3, UntouchedProperties
<1>5. Untouched(AsLimit(stamped)) /\ AsLimit(stamped).type = "LIMIT"
  BY <1>3, UntouchedProperties
<1>6. TypeInv'
  BY ArrivalTyped DEF Inv
<1> HIDE DEF stamped
<1>7. ASSUME NEW n, Untouched(n), order' = WithOrder(id, n),
             n.type = "MARKET" => id = market_order'
      PROVE  /\ Seen' = Seen \cup {id} /\ order'[id] = n
             /\ \A x \in Seen : order'[x] = order[x]
             /\ FillsBounded'
  <2>1. /\ Seen' = Seen \cup {id} /\ order'[id] = n
        /\ \A x \in Seen : order'[x] = order[x]
    BY <1>1, <1>7 DEF WithOrder, Seen
  <2>2. StatusOK(n)
    BY <1>7, UntouchedProperties
  <2>3. market_order \notin Seen
    BY <1>1, IdAssumption DEF Inv, TypeInv
  <2>4. FillsBounded'
    BY <2>1, <2>2, <2>3, <1>7, FillsFrame
  <2> QED BY <2>1, <2>4
<1>8. CASE AddLimitOrder(id, o) \/ AddTriggeredStopLimit(id, o)
  <2>1. PICK n \in {stamped, AsLimit(stamped)} : Rest(id, n) /\ n.type = "LIMIT"
    BY <1>3, <1>5, <1>8 DEF AddLimitOrder, AddTriggeredStopLimit, stamped
  <2>2. Untouched(n) /\ order' = WithOrder(id, n)
    BY <1>3, <1>5, <2>1 DEF Rest
  <2>3. RestingAreOpen' /\ RestingOnce'
    BY <2>1, <2>2, <1>1, NewIdNowhere, RestSafe
  <2>4. UNCHANGED <<stop_loss_orders, pc, it, market_order, total_executed>>
    BY <1>8 DEF AddLimitOrder, AddTriggeredStopLimit
  <2>5. FillsBounded' /\ \A x \in Seen : order'[x] = order[x]
    BY <1>7, <2>1, <2>2
  <2>6. StopsAreDormant'
    BY <2>4, <2>5, StopsFrame DEF ExecutingAt, SameState
  <2> QED BY <2>3, <2>4, <2>5, <2>6, <1>1, <1>6 DEF Inv, ExecutionCounted
<1>9. CASE AddStopOrder(id, o)
  <2>1. /\ order' = WithOrder(id, stamped) /\ IsStop(o)
        /\ stop_loss_orders' = Append(stop_loss_orders, id)
        /\ UNCHANGED <<book, pc, it, market_order>>
    BY <1>9 DEF AddStopOrder, stamped
  <2>2. /\ FillsBounded' /\ order'[id] = stamped /\ IsStop(stamped)
        /\ \A x \in Seen : order'[x] = order[x]
    BY <1>3, <1>7, <2>1 DEF IsStop, StopType
  <2>3. RestingAreOpen' /\ RestingOnce'
    BY <2>1, <2>2, BookFrame DEF AtMostErases
  <2>4. StopsAreDormant'
    <3> DEFINE old == stop_loss_orders
    <3>1. /\ DOMAIN old = 1..Len(old) /\ Len(old) \in Nat
          /\ DOMAIN old' = 1..(Len(old) + 1)
          /\ \A i \in DOMAIN old : old'[i] = old[i]
          /\ old'[Len(old) + 1] = id
      BY <2>1, AppendProperties, LenProperties DEF Inv, TypeInv
    <3>2. IsInjectiveSeq(old)'
      BY <3>1, <1>1, NewIdNowhere DEF Inv, StopsAreDormant, IsInjectiveSeq
    <3>3. ASSUME NEW i \in DOMAIN old'
          PROVE  LET n == order'[old'[i]]
                 IN  IsStop(n) /\ n.status = "PENDING" /\ n.filled_quantity = 0
      <4>1. CASE i \in DOMAIN old
        BY <4>1, <3>1, <2>2, <1>1, DormantOrder DEF ExecutingAt
      <4>2. CASE i = Len(old) + 1
        BY <4>2, <3>1, <2>2, <1>3 DEF Untouched
      <4> QED BY <4>1, <4>2, <3>1
    <3> QED BY <3>2, <3>3, <2>1, <1>1 DEF StopsAreDormant, ExecutingAt
  <2> QED BY <2>1, <2>2, <2>3, <2>4, <1>1, <1>6 DEF Inv, ExecutionCounted
<1>10. CASE AddTriggeredStop(id, o) \/ ExecuteMarketOrder(id, o)
  <2>1. PICK n \in {stamped, AsMarket(stamped)} : StartMarket(id, n) /\ n.type = "MARKET"
    BY <1>3, <1>4, <1>10 DEF AddTriggeredStop, ExecuteMarketOrder, stamped
  <2>2. /\ Untouched(n) /\ order' = WithOrder(id, n)
        /\ market_order' = id /\ total_executed' = 0 /\ pc' = "market"
    BY <1>3, <1>4, <2>1 DEF StartMarket
  <2>3. UNCHANGED <<book, stop_loss_orders, it>>
    BY <1>10 DEF AddTriggeredStop, ExecuteMarketOrder
  <2>4. FillsBounded' /\ order'[id] = n /\ \A x \in Seen : order'[x] = order[x]
    BY <1>7, <2>2
  <2>5. RestingAreOpen' /\ RestingOnce'
    BY <2>3, <2>4, BookFrame DEF AtMostErases
  <2>6. StopsAreDormant'
    <3>1. \A i \in DOMAIN stop_loss_orders : i # 0
      BY LenProperties DEF Inv, TypeInv
    <3> QED BY <3>1, <2>2, <2>3, <2>4, <1>1, StopsFrame DEF ExecutingAt, SameState
  <2>7. ExecutionCounted'
    BY <2>1, <2>2, <2>3, <2>4, <1>1 DEF ExecutionCounted, Untouched
  <2> QED BY <2>4, <2>5, <2>6, <2>7, <1>6 DEF Inv
<1> QED BY <1>8, <1>9, <1>10

(***************************************************************************)
(* A cancelled order.                                                      *)
(***************************************************************************)
LEMMA Cancelled ==
  ASSUME Inv, NEW id \in Seen, order[id].status = "PENDING",
         order[id].type # "MARKET",
         order' = [order EXCEPT ![id].status = "CANCELLED"],
         UNCHANGED market_order
  PROVE  /\ FillsBounded'
         /\ \A x \in Seen \ {id} : order'[x] = order[x]
<1>1. /\ order \in [Seen -> Order] /\ order[id] \in Order /\ StatusOK(order[id])
  BY DEF Inv, TypeInv, FillsBounded
<1>2. Seen' = Seen /\ \A x \in Seen \ {id} : order'[x] = order[x]
  BY <1>1 DEF Seen
<1>3. order'[id] = [order[id] EXCEPT !.status = "CANCELLED"]
  BY <1>1
<1>4. StatusOK(order'[id]) /\ order'[id].type # "MARKET"
  BY <1>1, <1>3 DEF StatusOK, Order
<1> QED BY <1>2, <1>4, FillsFrame

LEMMA CancelSafe ==
  ASSUME Inv, NEW id \in Seen, CancelOrder(id)
  PROVE  Inv'
<1>1. TypeInv'
  BY CancelTyped DEF Inv
<1>2. ASSUME NEW side \in OrderSide, NEW p \in DOMAIN book[side],
             NEW i \in DOMAIN book[side][p], CancelResting(id, side, p, i)
      PROVE  Inv'
  <2>1. /\ pc = "idle" /\ book[side][p][i] = id
        /\ order' = [order EXCEPT ![id].status = "CANCELLED"]
        /\ book' = [book EXCEPT ![side] = Erase(book[side], p, i)]
        /\ UNCHANGED <<stop_loss_orders, pc, it, market_order, total_executed>>
    BY <1>2 DEF CancelResting
  <2>2. RestingAs(order[id], side, p)
    BY <2>1, RestingOrder
  <2>3. FillsBounded' /\ \A x \in Seen \ {id} : order'[x] = order[x]
    BY <2>1, <2>2, Cancelled DEF RestingAs
  <2>4. /\ book'[side] = Erase(book[side], p, i)
        /\ \A t \in OrderSide \ {side} : book'[t] = book[t]
    BY <2>1 DEF Inv, TypeInv
  <2>5. SideRight(side)'
    BY <2>1, <2>3, <2>4, SideAfterErase
  <2>6. ASSUME NEW t \in OrderSide \ {side} PROVE SideRight(t)'
    BY <2>2, <2>3, <2>4, SideFrame DEF AtMostErases, RestingAs
  <2>7. RestingAreOpen' /\ RestingOnce'
    BY <2>5, <2>6, BothSides
  <2>8. StopsAreDormant'
    BY <2>1, <2>2, <2>3, StopsFrame DEF RestingAs, IsStop, StopType, SameState, ExecutingAt
  <2> QED BY <2>1, <2>3, <2>7, <2>8, <1>1 DEF Inv, ExecutionCounted
<1>3. ASSUME NEW i \in DOMAIN stop_loss_orders, CancelStop(id, i)
      PROVE  Inv'
  <2>1. /\ pc = "idle" /\ stop_loss_orders[i] = id
        /\ order' = [order EXCEPT ![id].status = "CANCELLED"]
        /\ stop_loss_orders' = RemoveAt(stop_loss_orders, i)
        /\ UNCHANGED <<book, pc, it, market_order, total_executed>>
    BY <1>3 DEF CancelStop
  <2>2. IsStop(order[id]) /\ order[id].status = "PENDING"
    BY <2>1, DormantOrder DEF ExecutingAt
  <2>3. FillsBounded' /\ \A x \in Seen \ {id} : order'[x] = order[x]
    BY <2>1, <2>2, Cancelled DEF IsStop, StopType
  <2>4. RestingAreOpen' /\ RestingOnce'
    BY <2>1, <2>2, <2>3, BookFrame DEF IsStop, StopType, AtMostErases
  <2>5. StopsAreDormant'
    BY <2>1, <2>3, StopRemoved DEF ExecutingAt
  <2> QED BY <2>1, <2>3, <2>4, <2>5, <1>1 DEF Inv, ExecutionCounted
<1> QED BY <1>2, <1>3 DEF CancelOrder

(***************************************************************************)
(* A trade between two open orders.                                        *)
(***************************************************************************)
LEMMA TradeEffect ==
  ASSUME Inv, NEW b \in Seen, NEW s \in Seen, b # s,
         order[b].status = "PENDING", order[s].status = "PENDING",
         ExecuteTrade(b, s), NEW q, q = TradeQuantity(b, s)
  PROVE  /\ q \in 1..Remaining(order[b]) /\ q \in 1..Remaining(order[s])
         /\ q = Remaining(order[b]) \/ q = Remaining(order[s])
         /\ Seen' = Seen
         /\ order'[b] = Filled(order[b], q) /\ order'[s] = Filled(order[s], q)
         /\ \A x \in Seen \ {b, s} : order'[x] = order[x]
         /\ StatusOK(order'[b]) /\ StatusOK(order'[s])
         /\ order'[b].type = order[b].type /\ order'[s].type = order[s].type
<1>1. /\ order \in [Seen -> Order] /\ order[b] \in Order /\ order[s] \in Order
      /\ StatusOK(order[b]) /\ StatusOK(order[s])
  BY DEF Inv, TypeInv, FillsBounded
<1>2. /\ q \in 1..Remaining(order[b]) /\ q \in 1..Remaining(order[s])
      /\ q = Remaining(order[b]) \/ q = Remaining(order[s])
  BY <1>1 DEF TradeQuantity, Remaining, Order, StatusOK
<1>3. /\ Seen' = Seen
      /\ order'[b] = Filled(order[b], q) /\ order'[s] = Filled(order[s], q)
      /\ \A x \in Seen \ {b, s} : order'[x] = order[x]
  BY <1>1 DEF ExecuteTrade, Seen
<1>4. /\ StatusOK(order'[b]) /\ StatusOK(order'[s])
      /\ order'[b].type = order[b].type /\ order'[s].type = order[s].type
  BY <1>1, <1>2, <1>3, FillProperties DEF SameTerms
<1> QED BY <1>2, <1>3, <1>4

LEMMA MatchSafe ==
  ASSUME Inv, NEW bp \in DOMAIN book["BUY"], NEW sp \in DOMAIN book["SELL"],
         MatchSelfTrade(bp, sp) \/ MatchTrade(bp, sp)
  PROVE  Inv'
<1> DEFINE b == Foremost("BUY", bp)
           s == Foremost("SELL", sp)
<1>1. TypeInv'
  BY MatchTyped DEF Inv
<1>2. /\ 1 \in DOMAIN book["BUY"][bp] /\ b = book["BUY"][bp][1]
      /\ 1 \in DOMAIN book["SELL"][sp] /\ s = book["SELL"][sp][1]
  BY ForemostTyped DEF Inv, Foremost, OrderSide
<1>3. /\ b \in Seen /\ RestingAs(order[b], "BUY", bp)
      /\ s \in Seen /\ RestingAs(order[s], "SELL", sp)
  BY <1>2, RestingOrder DEF OrderSide
<1>4. pc = "match" /\ UNCHANGED <<stop_loss_orders, pc, it, market_order, total_executed>>
  BY DEF MatchSelfTrade, MatchTrade
<1>5. CASE MatchSelfTrade(bp, sp)
  <2>1. /\ UNCHANGED order /\ Seen' = Seen
        /\ \/ book' = [book EXCEPT !["BUY"] = Erase(book["BUY"], bp, 1)]
           \/ book' = [book EXCEPT !["SELL"] = Erase(book["SELL"], sp, 1)]
    BY <1>5 DEF MatchSelfTrade, Seen
  <2>2. \A side \in OrderSide : AtMostErases(side)
    BY <2>1, <1>2 DEF AtMostErases, Inv, TypeInv, OrderSide
  <2>3. RestingAreOpen' /\ RestingOnce'
    BY <2>1, <2>2, BookFrame
  <2>4. StopsAreDormant' /\ FillsBounded'
    BY <2>1, <1>4, StopsFrame, FillsFrame DEF SameState, ExecutingAt
  <2> QED BY <2>3, <2>4, <1>1, <1>4 DEF Inv, ExecutionCounted
<1>6. CASE MatchTrade(bp, sp)
  <2> DEFINE q == TradeQuantity(b, s)
  <2>1. /\ ExecuteTrade(b, s)
        /\ book'["BUY"] = LevelsAfterTrade("BUY", bp, order[b], q)
        /\ book'["SELL"] = LevelsAfterTrade("SELL", sp, order[s], q)
    BY <1>6 DEF MatchTrade, OrderSide
  <2>2. b # s /\ order[b].status = "PENDING" /\ order[s].status = "PENDING"
    BY <1>3 DEF RestingAs
  <2>3. /\ q \in 1..Remaining(order[b]) /\ q \in 1..Remaining(order[s])
        /\ Seen' = Seen
        /\ order'[b] = Filled(order[b], q) /\ order'[s] = Filled(order[s], q)
        /\ \A x \in Seen \ {b, s} : order'[x] = order[x]
        /\ StatusOK(order'[b]) /\ StatusOK(order'[s])
        /\ order'[b].type = "LIMIT" /\ order'[s].type = "LIMIT"
    BY <2>1, <2>2, <1>3, TradeEffect DEF RestingAs
  <2> HIDE DEF q
  <2>4. SideRight("BUY")'
    <3>1. \A x \in Seen \ {b} : order[x].side = "BUY" => order'[x] = order[x]
      BY <2>3, <1>3 DEF RestingAs
    <3> QED BY <3>1, <2>1, <2>3, SideAfterTrade DEF OrderSide
  <2>5. SideRight("SELL")'
    <3>1. \A x \in Seen \ {s} : order[x].side = "SELL" => order'[x] = order[x]
      BY <2>3, <1>3 DEF RestingAs
    <3> QED BY <3>1, <2>1, <2>3, SideAfterTrade DEF OrderSide
  <2>6. RestingAreOpen' /\ RestingOnce'
    BY <2>4, <2>5, BothSides DEF OrderSide
  <2>7. StopsAreDormant'
    <3>1. \A x \in Seen : IsStop(order[x]) => order'[x] = order[x]
      BY <2>3, <1>3 DEF RestingAs, IsStop, StopType
    <3> QED BY <3>1, <1>4, StopsFrame DEF SameState, ExecutingAt
  <2>8. FillsBounded'
    BY <2>3, <1>4, FillsFrame
  <2> QED BY <2>6, <2>7, <2>8, <1>1, <1>4 DEF Inv, ExecutionCounted
<1> QED BY <1>5, <1>6

(***************************************************************************)
(* The order being executed at the market, and one iteration of its loop.  *)
(***************************************************************************)
LEMMA MarketOrder ==
  ASSUME Inv, pc = "market"
  PROVE  /\ market_order \in Seen /\ order[market_order] \in Order
         /\ order[market_order].type = "MARKET"
         /\ StatusOK(order[market_order])
         /\ total_executed = order[market_order].filled_quantity
         /\ MarketRemaining = Remaining(order[market_order])
         /\ MarketRemaining > 0 => order[market_order].status = "PENDING"
         /\ Opposite \in OrderSide
         /\ it > 0 => stop_loss_orders[it] = market_order
<1>1. /\ market_order \in Seen /\ order[market_order] \in Order
      /\ Opposite \in OrderSide
  BY OppositeTyped DEF Inv
<1>2. /\ order[market_order].type = "MARKET"
      /\ order[market_order].status \in {"PENDING", "FILLED"}
      /\ StatusOK(order[market_order])
      /\ total_executed = order[market_order].filled_quantity
      /\ it > 0 => stop_loss_orders[it] = market_order
  BY <1>1 DEF Inv, ExecutionCounted, FillsBounded
<1> QED BY <1>1, <1>2 DEF MarketRemaining, Remaining, StatusOK, Order

LEMMA MarketSafe ==
  ASSUME Inv, pc = "market", NEW p \in DOMAIN book[Opposite],
         MarketSelfTrade(p) \/ MarketTrade(p)
  PROVE  Inv'
<1> DEFINE m == market_order
           o == Foremost(Opposite, p)
<1>1. TypeInv'
  BY MarketTyped DEF Inv
<1>2. /\ m \in Seen /\ order[m] \in Order /\ order[m].type = "MARKET"
      /\ order[m].status = "PENDING" /\ Opposite \in OrderSide
      /\ total_executed = order[m].filled_quantity
      /\ MarketRemaining = Remaining(order[m])
      /\ it > 0 => stop_loss_orders[it] = m
  BY MarketOrder DEF MarketSelfTrade, MarketTrade
<1>3. /\ 1 \in DOMAIN book[Opposite][p] /\ o = book[Opposite][p][1]
  BY <1>2, ForemostTyped DEF Inv, Foremost
<1>4. o \in Seen /\ order[o] \in Order /\ RestingAs(order[o], Opposite, p)
  BY <1>2, <1>3, RestingOrder
<1>5. UNCHANGED <<stop_loss_orders, pc, it, market_order>>
  BY DEF MarketSelfTrade, MarketTrade
<1>6. PICK side \in OrderSide : side = Opposite
  BY <1>2
<1>7. CASE MarketSelfTrade(p)
  <2>1. /\ UNCHANGED <<order, total_executed>> /\ Seen' = Seen
        /\ book' = [book EXCEPT ![Opposite] = Erase(book[Opposite], p, 1)]
    BY <1>7 DEF MarketSelfTrade, Seen
  <2>2. \A t \in OrderSide : AtMostErases(t)
    BY <2>1, <1>2, <1>3 DEF AtMostErases, Inv, TypeInv
  <2>3. RestingAreOpen' /\ RestingOnce'
    BY <2>1, <2>2, BookFrame
  <2>4. StopsAreDormant' /\ FillsBounded'
    BY <2>1, <1>5, StopsFrame, FillsFrame DEF SameState, ExecutingAt
  <2>5. ExecutionCounted'
    BY <2>1, <1>5 DEF Inv, ExecutionCounted
  <2> QED BY <2>3, <2>4, <2>5, <1>1 DEF Inv
<1>8. CASE MarketTrade(p)
  <2> DEFINE b == IF Opposite = "BUY" THEN o ELSE m
             s == IF Opposite = "BUY" THEN m ELSE o
             q == TradeQuantity(b, s)
             available == Remaining(order[o])
  <2>1. /\ ExecuteTrade(b, s)
        /\ total_executed' = total_executed +
             (IF available <= MarketRemaining THEN available ELSE MarketRemaining)
        /\ book' = [book EXCEPT ![Opposite] = LevelsAfterTrade(Opposite, p, order[o], q)]
    BY <1>8 DEF MarketTrade
  <2>2. b \in Seen /\ s \in Seen /\ b # s /\ {b, s} = {o, m}
    BY <1>2, <1>4 DEF RestingAs
  <2>3. order[b].status = "PENDING" /\ order[s].status = "PENDING"
    BY <1>2, <1>4 DEF RestingAs
  <2> HIDE DEF b, s
  <2>4. /\ q \in 1..Remaining(order[b]) /\ q \in 1..Remaining(order[s])
        /\ q = Remaining(order[b]) \/ q = Remaining(order[s])
        /\ Seen' = Seen
        /\ order'[b] = Filled(order[b], q) /\ order'[s] = Filled(order[s], q)
        /\ \A x \in Seen \ {b, s} : order'[x] = order[x]
        /\ StatusOK(order'[b]) /\ StatusOK(order'[s])
        /\ order'[b].type = order[b].type /\ order'[s].type = order[s].type
    BY <2>1, <2>2, <2>3, TradeEffect
  <2> HIDE DEF q, m, o
  <2>5. /\ q \in 1..Remaining(order[o]) /\ q \in 1..Remaining(order[m])
        /\ q = Remaining(order[o]) \/ q = Remaining(order[m])
        /\ order'[o] = Filled(order[o], q) /\ order'[m] = Filled(order[m], q)
        /\ \A x \in Seen \ {o, m} : order'[x] = order[x]
        /\ StatusOK(order'[o]) /\ StatusOK(order'[m])
        /\ order'[o].type = "LIMIT" /\ order'[m].type = "MARKET"
    BY <2>2, <2>4, <1>2, <1>4 DEF RestingAs
  <2>6. /\ book'[Opposite] = LevelsAfterTrade(Opposite, p, order[o], q)
        /\ \A t \in OrderSide \ {Opposite} : book'[t] = book[t]
    BY <2>1, <1>2 DEF Inv, TypeInv
  <2>7. SideRight(side)'
    <3>1. \A x \in Seen \ {o} : order[x].side = Opposite /\ order[x].type = "LIMIT"
                              => order'[x] = order[x]
      BY <2>5, <1>2
    <3> QED BY <3>1, <2>5, <2>6, <1>2, <1>6, SideAfterTrade DEF o
  <2>8. ASSUME NEW t \in OrderSide \ {side} PROVE SideRight(t)'
    <3>1. \A x \in Seen : order[x].type = "LIMIT" /\ order[x].side = t
                          => order'[x] = order[x]
      BY <2>5, <1>2, <1>4, <1>6 DEF RestingAs
    <3> QED BY <3>1, <2>6, <1>6, SideFrame DEF AtMostErases
  <2>9. RestingAreOpen' /\ RestingOnce'
    BY <2>7, <2>8, BothSides
  <2>10. StopsAreDormant'
    <3>1. \A x \in Seen : IsStop(order[x]) => order'[x] = order[x]
      BY <2>5, <1>2, <1>4 DEF RestingAs, IsStop, StopType
    <3> QED BY <3>1, <1>5, StopsFrame DEF SameState, ExecutingAt
  <2>11. FillsBounded'
    BY <2>4, <2>5, <1>5, FillsFrame DEF m
  <2>12. ExecutionCounted'
    <3>1. q \in Nat /\ order[m].filled_quantity \in Int
      BY <2>5, <1>2 DEF Order
    <3>2. total_executed' = order[m].filled_quantity + q
      BY <2>1, <2>5, <1>2, <1>4 DEF Remaining, Order
    <3>3. /\ order'[m].filled_quantity = order[m].filled_quantity + q
          /\ order'[m].status \in {"PENDING", "FILLED"}
      <4>1. StatusOK(order[m])
        BY <1>2 DEF Inv, FillsBounded
      <4> QED BY <4>1, <2>5, <1>2, FillProperties
    <3> QED BY <3>2, <3>3, <2>5, <1>2, <1>5 DEF ExecutionCounted, m
  <2> QED BY <2>9, <2>10, <2>11, <2>12, <1>1 DEF Inv
<1> QED BY <1>7, <1>8

LEMMA MarketDoneSafe ==
  ASSUME Inv, MarketDone
  PROVE  Inv'
<1> DEFINE m == market_order
           st == FinalStatus(order[m], total_executed)
<1>1. TypeInv' /\ pc = "market"
  BY MarketDoneTyped DEF Inv, MarketDone
<1>2. /\ m \in Seen /\ order[m] \in Order /\ order[m].type = "MARKET"
      /\ StatusOK(order[m]) /\ total_executed = order[m].filled_quantity
      /\ it > 0 => stop_loss_orders[it] = m
  BY <1>1, MarketOrder
<1>3. /\ order' = [order EXCEPT ![m].status = st]
      /\ market_order' = NoId /\ pc' # "market" /\ UNCHANGED <<book, it>>
      /\ \/ it = 0 /\ UNCHANGED stop_loss_orders
         \/ it > 0 /\ stop_loss_orders' = RemoveAt(stop_loss_orders, it)
  BY DEF MarketDone
<1>4. /\ Seen' = Seen /\ \A x \in Seen \ {m} : order'[x] = order[x]
      /\ order'[m] = [order[m] EXCEPT !.status = st]
  BY <1>2, <1>3 DEF Inv, TypeInv, Seen
<1>5. StatusOK(order'[m]) /\ order'[m].status # "PENDING"
  BY <1>2, <1>4 DEF StatusOK, FinalStatus, Order
<1> HIDE DEF st
<1>6. FillsBounded'
  BY <1>4, <1>5, FillsFrame
<1>7. RestingAreOpen' /\ RestingOnce'
  BY <1>2, <1>3, <1>4, BookFrame DEF AtMostErases
<1>8. \A x \in Seen : IsStop(order[x]) => order'[x] = order[x]
  BY <1>2, <1>4 DEF IsStop, StopType
<1>9. StopsAreDormant'
  <2>1. CASE it = 0
    <3>1. \A i \in DOMAIN stop_loss_orders : i # 0
      BY LenProperties DEF Inv, TypeInv
    <3>2. \A i \in DOMAIN stop_loss_orders : ~ExecutingAt(i) /\ ~ExecutingAt(i)'
      BY <3>1, <2>1, <1>3 DEF ExecutingAt
    <3>3. UNCHANGED stop_loss_orders
      BY <2>1, <1>3
    <3> QED BY <3>2, <3>3, <1>8, StopsFrame DEF SameState
  <2>2. CASE it > 0
    <3>1. it \in DOMAIN stop_loss_orders
      BY <2>2, <1>1 DEF Inv, TypeInv
    <3> QED BY <3>1, <2>2, <1>3, <1>8, StopRemoved DEF ExecutingAt
  <2> QED BY <2>1, <2>2, <1>3
<1> QED BY <1>1, <1>3, <1>6, <1>7, <1>9 DEF Inv, ExecutionCounted

(***************************************************************************)
(* The stop order at the iterator of check_stop_loss_orders.               *)
(***************************************************************************)
LEMMA CurrentOrder ==
  ASSUME Inv, pc = "check", it <= Len(stop_loss_orders),
         NEW id, id = stop_loss_orders[it]
  PROVE  /\ it \in DOMAIN stop_loss_orders /\ id \in Seen /\ id \in Id
         /\ IsStop(order[id]) /\ SameState(Current, order[id]) /\ Untouched(Current)
         /\ \A side \in OrderSide : ~Occurs(book[side], id)
         /\ \A k \in DOMAIN stop_loss_orders \ {it} : stop_loss_orders[k] # id
<1>1. it \in DOMAIN stop_loss_orders /\ Current \in Order
  BY CurrentTyped, LenProperties DEF Inv
<1>2. /\ id \in Seen /\ id \in Id /\ IsStop(order[id]) /\ Untouched(order[id])
  BY <1>1, DormantOrder DEF ExecutingAt, Untouched, Inv, TypeInv
<1>3. SameState(Current, order[id])
  BY <1>2 DEF Current, UpdateTrailingStop, SameState, Untouched, Order
<1>4. Untouched(Current)
  BY <1>1, <1>2, <1>3 DEF SameState, Untouched
<1>5. \A side \in OrderSide : ~Occurs(book[side], id)
  BY <1>2, RestingOrder DEF RestingAs, IsStop, StopType, Occurs
<1>6. \A k \in DOMAIN stop_loss_orders \ {it} : stop_loss_orders[k] # id
  BY <1>1 DEF Inv, StopsAreDormant, IsInjectiveSeq
<1> QED BY <1>1, <1>2, <1>3, <1>4, <1>5, <1>6

LEMMA CheckSafe ==
  ASSUME Inv, CheckNotReached \/ CheckTriggersStopLimit \/ CheckTriggersStop
  PROVE  Inv'
<1> DEFINE id == stop_loss_orders[it]
<1>1. TypeInv' /\ pc = "check" /\ it <= Len(stop_loss_orders)
  BY CheckTyped DEF Inv, CheckNotReached, CheckTriggersStopLimit, CheckTriggersStop
<1>2. /\ it \in DOMAIN stop_loss_orders /\ id \in Seen /\ id \in Id
      /\ IsStop(order[id]) /\ SameState(Current, order[id]) /\ Untouched(Current)
      /\ \A side \in OrderSide : ~Occurs(book[side], id)
      /\ \A k \in DOMAIN stop_loss_orders \ {it} : stop_loss_orders[k] # id
  BY <1>1, CurrentOrder
<1>3. /\ Untouched(AsLimit(Current)) /\ AsLimit(Current).type = "LIMIT"
      /\ Untouched(AsMarket(Current)) /\ AsMarket(Current).type = "MARKET"
  BY <1>2, UntouchedProperties
<1>4. market_order \notin Seen
  BY <1>1, IdAssumption DEF Inv, TypeInv
<1>5. ASSUME NEW n, order' = WithOrder(id, n), Untouched(n),
             n.type = "MARKET" => id = market_order'
      PROVE  /\ Seen' = Seen /\ order'[id] = n
             /\ \A x \in Seen \ {id} : order'[x] = order[x]
             /\ FillsBounded'
  <2>1. /\ Seen' = Seen /\ order'[id] = n
        /\ \A x \in Seen \ {id} : order'[x] = order[x]
    BY <1>2, <1>5 DEF WithOrder, Seen
  <2>2. StatusOK(n)
    BY <1>5, UntouchedProperties
  <2> QED BY <2>1, <2>2, <1>4, <1>5, FillsFrame
<1>6. CASE CheckNotReached
  <2>1. /\ order' = WithOrder(id, Current)
        /\ UNCHANGED <<book, stop_loss_orders, pc, market_order>>
    BY <1>6 DEF CheckNotReached
  <2>2. /\ order'[id] = Current /\ \A x \in Seen \ {id} : order'[x] = order[x]
        /\ FillsBounded'
    BY <2>1, <1>2, <1>5 DEF IsStop, StopType, SameState
  <2>3. RestingAreOpen' /\ RestingOnce'
    BY <2>1, <2>2, <1>2, BookFrame DEF AtMostErases, IsStop, StopType
  <2>4. StopsAreDormant'
    <3>1. \A x \in Seen : SameState(order'[x], order[x])
      BY <2>2, <1>2 DEF SameState
    <3> QED BY <3>1, <2>1, <1>1, StopsFrame DEF ExecutingAt
  <2> QED BY <2>1, <2>2, <2>3, <2>4, <1>1 DEF Inv, ExecutionCounted
<1>7. CASE CheckTriggersStopLimit
  <2>1. /\ Rest(id, AsLimit(Current)) /\ order' = WithOrder(id, AsLimit(Current))
        /\ stop_loss_orders' = RemoveAt(stop_loss_orders, it) /\ UNCHANGED pc
    BY <1>7 DEF CheckTriggersStopLimit, Rest
  <2>2. RestingAreOpen' /\ RestingOnce'
    BY <2>1, <1>2, <1>3, RestSafe
  <2>3. (\A x \in Seen \ {id} : order'[x] = order[x]) /\ FillsBounded'
    BY <2>1, <1>3, <1>5
  <2>4. StopsAreDormant'
    BY <2>1, <2>3, <1>1, <1>2, StopRemoved DEF ExecutingAt
  <2> QED BY <2>1, <2>2, <2>3, <2>4, <1>1 DEF Inv, ExecutionCounted
<1>8. CASE CheckTriggersStop
  <2>1. /\ order' = WithOrder(id, AsMarket(Current))
        /\ market_order' = id /\ pc' = "market" /\ total_executed' = 0
        /\ UNCHANGED <<book, stop_loss_orders, it>>
    BY <1>8 DEF CheckTriggersStop, StartMarket
  <2>2. /\ order'[id] = AsMarket(Current)
        /\ \A x \in Seen \ {id} : order'[x] = order[x]
        /\ FillsBounded'
    BY <2>1, <1>3, <1>5
  <2>3. RestingAreOpen' /\ RestingOnce'
    BY <2>1, <2>2, <1>2, BookFrame DEF AtMostErases, IsStop, StopType
  <2>4. StopsAreDormant'
    <3>1. IsInjectiveSeq(stop_loss_orders)'
      BY <2>1 DEF Inv, StopsAreDormant, IsInjectiveSeq
    <3>2. ASSUME NEW k \in DOMAIN stop_loss_orders, k # it
          PROVE  LET o == order'[stop_loss_orders[k]]
                 IN  IsStop(o) /\ o.status = "PENDING" /\ o.filled_quantity = 0
      BY <3>2, <2>2, <1>1, <1>2, DormantOrder DEF ExecutingAt
    <3> QED BY <3>1, <3>2, <2>1 DEF StopsAreDormant, ExecutingAt
  <2>5. ExecutionCounted'
    BY <2>1, <2>2, <1>3 DEF ExecutionCounted, Untouched
  <2> QED BY <2>2, <2>3, <2>4, <2>5, <1>1 DEF Inv
<1> QED BY <1>6, <1>7, <1>8

LEMMA ReturnSafe ==
  ASSUME Inv, MatchOrders \/ MatchDone \/ CheckStopLossOrders \/ CheckDone
  PROVE  Inv'
<1>1. /\ UNCHANGED <<order, book, stop_loss_orders, market_order>> /\ Seen' = Seen
      /\ pc # "market" /\ pc' # "market"
  BY DEF MatchOrders, MatchDone, CheckStopLossOrders, CheckDone, Seen
<1>2. TypeInv'
  BY ReturnTyped DEF Inv
<1>3. RestingAreOpen' /\ RestingOnce'
  BY <1>1, BookFrame DEF AtMostErases
<1>4. StopsAreDormant'
  BY <1>1, StopsFrame DEF SameState, ExecutingAt
<1>5. FillsBounded'
  BY <1>1, FillsFrame
<1> QED BY <1>1, <1>2, <1>3, <1>4, <1>5 DEF Inv, ExecutionCounted

LEMMA SafetyInit == Init => Inv
<1> SUFFICES ASSUME Init PROVE Inv
  OBVIOUS
<1>1. TypeInv
  BY TypeInit
<1>2. RestingAreOpen /\ RestingOnce
  BY DEF Init, RestingAreOpen, RestingOnce
<1>3. StopsAreDormant
  BY DEF Init, StopsAreDormant, IsInjectiveSeq
<1>4. FillsBounded /\ ExecutionCounted
  BY DEF Init, FillsBounded, ExecutionCounted, Seen
<1> QED BY <1>1, <1>2, <1>3, <1>4 DEF Inv

LEMMA SafetyStep == Inv /\ [Next]_vars => Inv'
<1> SUFFICES ASSUME Inv, [Next]_vars PROVE Inv'
  OBVIOUS
<1>1. CASE Call
  <2>1. ASSUME NEW id \in Id, NEW o \in Incoming,
               \/ AddLimitOrder(id, o) \/ AddStopOrder(id, o)
               \/ AddTriggeredStopLimit(id, o) \/ AddTriggeredStop(id, o)
               \/ ExecuteMarketOrder(id, o)
        PROVE  Inv'
    BY <2>1, ArrivalSafe
  <2>2. ASSUME NEW id \in Seen, CancelOrder(id) PROVE Inv'
    BY <2>2, CancelSafe
  <2> QED BY <1>1, <2>1, <2>2, ReturnSafe DEF Call
<1>2. CASE Step
  <2>1. ASSUME NEW b \in DOMAIN book["BUY"], NEW s \in DOMAIN book["SELL"],
               MatchSelfTrade(b, s) \/ MatchTrade(b, s)
        PROVE  Inv'
    BY <2>1, MatchSafe
  <2>2. ASSUME pc = "market", NEW p \in DOMAIN book[Opposite],
               MarketSelfTrade(p) \/ MarketTrade(p)
        PROVE  Inv'
    BY <2>2, MarketSafe
  <2> QED BY <1>2, <2>1, <2>2, MarketDoneSafe, CheckSafe, ReturnSafe DEF Step
<1>3. CASE UNCHANGED vars
  <2>1. UNCHANGED <<order, book, stop_loss_orders, market_order, pc, it, total_executed>>
        /\ Seen' = Seen
    BY <1>3 DEF vars, Seen
  <2>2. TypeInv'
    BY <1>3, TypeStep DEF Inv
  <2>3. RestingAreOpen' /\ RestingOnce'
    BY <2>1, BookFrame DEF AtMostErases
  <2>4. StopsAreDormant' /\ FillsBounded'
    BY <2>1, StopsFrame, FillsFrame DEF SameState, ExecutingAt
  <2>5. ExecutionCounted'
    BY <2>1 DEF Inv, ExecutionCounted
  <2> QED BY <2>2, <2>3, <2>4, <2>5 DEF Inv
<1> QED BY <1>1, <1>2, <1>3 DEF Next

LEMMA AlwaysInv == Spec => []Inv
BY SafetyInit, SafetyStep, PTL DEF Spec

(***************************************************************************)
(* What rests in the book is open, sorted to its place, and there once;    *)
(* no level is empty.                                                      *)
(***************************************************************************)
THEOREM BookCorrect == Spec => []BookWellFormed
<1>1. Inv => BookWellFormed
  BY TypeInvMeans DEF Inv, BookWellFormed
<1> QED BY <1>1, AlwaysInv, PTL

(***************************************************************************)
(* A stop order waits untouched, and is queued once.                       *)
(***************************************************************************)
THEOREM StopsCorrect == Spec => []StopsAreDormant
<1>1. Inv => StopsAreDormant
  BY DEF Inv
<1> QED BY <1>1, AlwaysInv, PTL

(***************************************************************************)
(* No order is ever overfilled, its status tells its fills, and the market *)
(* loop's counter is the fill of the order it executes.                    *)
(***************************************************************************)
THEOREM FillsCorrect == Spec => []FillsAreRecorded
<1>1. Inv => FillsAreRecorded
  BY DEF Inv, FillsAreRecorded
<1> QED BY <1>1, AlwaysInv, PTL
-----------------------------------------------------------------------------
(***************************************************************************)
(* What a step may do to one order: only an open order changes, or the     *)
(* market order being executed; its client, side and quantity stay; only   *)
(* the market order and the front of a side get a fill; and a trailing     *)
(* stop that stays one is updated or merely gets another status.           *)
(***************************************************************************)
SameTrail(n, o) ==
  /\ n.type = o.type /\ n.side = o.side /\ n.price = o.price
  /\ n.trailing_amount = o.trailing_amount
  /\ n.highest_price = o.highest_price /\ n.lowest_price = o.lowest_price

SameContract(n, o) ==
  /\ n.side = o.side /\ n.client_id = o.client_id /\ n.quantity = o.quantity
  /\ n.limit_price = o.limit_price

AtTheFront(id) == \E side \in OrderSide : \E p \in DOMAIN book[side] :
                    IsBest(side, p) /\ id = Foremost(side, p)

MayFill(id) ==
  FillChanged(id) => order[id].type = "MARKET" \/ AtTheFront(id)

Evolves(id) ==
  \/ order'[id] = order[id]
  \/ /\ order[id].status = "PENDING" \/ id = market_order
     /\ SameContract(order'[id], order[id]) /\ MayFill(id)
     /\ \/ SameTrail(order'[id], order[id])
        \/ order'[id] = UpdateTrailingStop(order[id])
        \/ order'[id].type # "TRAILING_STOP"

\* A new order, as it is after its first step.
Starts(id) == order'[id].highest_price = 0 /\ order'[id].lowest_price = 0

Evolution == /\ Seen \subseteq Seen'
             /\ \A id \in Seen : Evolves(id)
             /\ \A id \in Seen' \ Seen : Starts(id)

LEMMA ArrivalEvolves ==
  ASSUME Inv, NEW id \in Id, NEW o \in Incoming,
         \/ AddLimitOrder(id, o)
         \/ AddStopOrder(id, o)
         \/ AddTriggeredStopLimit(id, o)
         \/ AddTriggeredStop(id, o)
         \/ ExecuteMarketOrder(id, o)
  PROVE  Evolution
<1> DEFINE stamped == [o EXCEPT !.timestamp = clock']
<1>1. o \in Order /\ o.highest_price = 0 /\ o.lowest_price = 0
  BY IncomingAssumption DEF IsAdmissible, IsFresh
<1>2. PICK n \in {stamped, AsLimit(stamped), AsMarket(stamped)} : order' = WithOrder(id, n)
  BY DEF AddLimitOrder, AddStopOrder, AddTriggeredStopLimit, AddTriggeredStop,
     ExecuteMarketOrder, Rest, StartMarket
<1>3. n.highest_price = 0 /\ n.lowest_price = 0
  BY <1>1, <1>2 DEF AsLimit, AsMarket, Order
<1>4. id \notin Seen
  BY DEF AddLimitOrder, AddStopOrder, AddTriggeredStopLimit, AddTriggeredStop,
     ExecuteMarketOrder, Arrives
<1> HIDE DEF stamped
<1>5. /\ Seen' = Seen \cup {id} /\ order'[id] = n
      /\ \A x \in Seen : order'[x] = order[x]
  BY <1>2, <1>4 DEF WithOrder, Seen
<1> QED BY <1>3, <1>5 DEF Evolution, Evolves, Starts

LEMMA CancelEvolves ==
  ASSUME Inv, NEW id \in Seen, CancelOrder(id)
  PROVE  Evolution
<1>1. /\ order \in [Seen -> Order] /\ order[id] \in Order
  BY DEF Inv, TypeInv
<1>2. /\ order' = [order EXCEPT ![id].status = "CANCELLED"]
      /\ order[id].status = "PENDING"
  <2>1. ASSUME NEW side \in OrderSide, NEW p \in DOMAIN book[side],
               NEW i \in DOMAIN book[side][p], CancelResting(id, side, p, i)
        PROVE  /\ order' = [order EXCEPT ![id].status = "CANCELLED"]
               /\ order[id].status = "PENDING"
    BY <2>1, RestingOrder DEF CancelResting, RestingAs
  <2>2. ASSUME NEW i \in DOMAIN stop_loss_orders, CancelStop(id, i)
        PROVE  /\ order' = [order EXCEPT ![id].status = "CANCELLED"]
               /\ order[id].status = "PENDING"
    BY <2>2, DormantOrder DEF CancelStop, ExecutingAt
  <2> QED BY <2>1, <2>2 DEF CancelOrder
<1>3. /\ Seen' = Seen /\ \A x \in Seen \ {id} : order'[x] = order[x]
      /\ order'[id] = [order[id] EXCEPT !.status = "CANCELLED"]
  BY <1>1, <1>2 DEF Seen
<1>4. SameTrail(order'[id], order[id]) /\ SameContract(order'[id], order[id])
  BY <1>1, <1>3 DEF SameTrail, SameContract, Order
<1>5. order'[id].filled_quantity = order[id].filled_quantity
  BY <1>1, <1>3 DEF Order
<1> QED BY <1>2, <1>3, <1>4, <1>5 DEF Evolution, Evolves, MayFill, FillChanged

LEMMA TradeKeepsContracts ==
  ASSUME Inv, NEW b \in Seen, NEW s \in Seen, b # s,
         order[b].status = "PENDING", order[s].status = "PENDING", ExecuteTrade(b, s)
  PROVE  SameContract(order'[b], order[b]) /\ SameContract(order'[s], order[s])
<1>1. /\ order[b] \in Order /\ order[s] \in Order
  BY DEF Inv, TypeInv
<1>2. PICK q : order'[b] = Filled(order[b], q) /\ order'[s] = Filled(order[s], q)
  BY TradeEffect
<1>3. ASSUME NEW o \in Order PROVE SameContract(Filled(o, q), o)
  BY DEF Filled, SameContract, Order
<1> QED BY <1>1, <1>2, <1>3

LEMMA MatchEvolves ==
  ASSUME Inv, NEW bp \in DOMAIN book["BUY"], NEW sp \in DOMAIN book["SELL"],
         MatchSelfTrade(bp, sp) \/ MatchTrade(bp, sp)
  PROVE  Evolution
<1> DEFINE b == Foremost("BUY", bp)
           s == Foremost("SELL", sp)
<1>1. CASE MatchSelfTrade(bp, sp)
  BY <1>1 DEF MatchSelfTrade, Evolution, Evolves, Seen
<1>2. CASE MatchTrade(bp, sp)
  <2>1. /\ 1 \in DOMAIN book["BUY"][bp] /\ b = book["BUY"][bp][1]
        /\ 1 \in DOMAIN book["SELL"][sp] /\ s = book["SELL"][sp][1]
    BY ForemostTyped DEF Inv, Foremost, OrderSide
  <2>2. /\ b \in Seen /\ order[b] \in Order /\ RestingAs(order[b], "BUY", bp)
        /\ s \in Seen /\ order[s] \in Order /\ RestingAs(order[s], "SELL", sp)
    BY <2>1, RestingOrder DEF OrderSide
  <2>3. b # s /\ ExecuteTrade(b, s)
    BY <1>2, <2>2 DEF MatchTrade, RestingAs
  <2> HIDE DEF b, s
  <2>4. /\ Seen' = Seen /\ \A x \in Seen \ {b, s} : order'[x] = order[x]
        /\ order'[b].type = "LIMIT" /\ order'[s].type = "LIMIT"
    BY <2>2, <2>3, TradeEffect DEF RestingAs
  <2>5. /\ SameContract(order'[b], order[b]) /\ SameContract(order'[s], order[s])
    BY <2>2, <2>3, TradeKeepsContracts DEF RestingAs
  <2>6. AtTheFront(b) /\ AtTheFront(s)
    BY <1>2 DEF MatchTrade, Crossing, AtTheFront, OrderSide, b, s
  <2> QED BY <2>2, <2>4, <2>5, <2>6 DEF Evolution, Evolves, MayFill, RestingAs
<1> QED BY <1>1, <1>2

LEMMA MarketEvolves ==
  ASSUME Inv, pc = "market", NEW p \in DOMAIN book[Opposite],
         MarketSelfTrade(p) \/ MarketTrade(p)
  PROVE  Evolution
<1> DEFINE m == market_order
           o == Foremost(Opposite, p)
<1>1. CASE MarketSelfTrade(p)
  BY <1>1 DEF MarketSelfTrade, Evolution, Evolves, Seen
<1>2. CASE MarketTrade(p)
  <2>1. /\ m \in Seen /\ order[m].type = "MARKET" /\ order[m].status = "PENDING"
        /\ Opposite \in OrderSide
    BY <1>2, MarketOrder DEF MarketTrade
  <2>2. 1 \in DOMAIN book[Opposite][p] /\ o = book[Opposite][p][1]
    BY <2>1, ForemostTyped DEF Inv, Foremost
  <2>3. o \in Seen /\ RestingAs(order[o], Opposite, p)
    BY <2>1, <2>2, RestingOrder
  <2>4. o # m /\ ExecuteTrade(IF Opposite = "BUY" THEN o ELSE m,
                              IF Opposite = "BUY" THEN m ELSE o)
    BY <1>2, <2>1, <2>3 DEF MarketTrade, RestingAs
  <2> HIDE DEF o, m
  <2>5. /\ Seen' = Seen /\ \A x \in Seen \ {o, m} : order'[x] = order[x]
        /\ order'[o].type = "LIMIT" /\ order'[m].type = "MARKET"
        /\ SameContract(order'[o], order[o]) /\ SameContract(order'[m], order[m])
    <3>1. CASE Opposite = "BUY"
      BY <3>1, <2>1, <2>3, <2>4, TradeEffect, TradeKeepsContracts DEF RestingAs
    <3>2. CASE Opposite # "BUY"
      BY <3>2, <2>1, <2>3, <2>4, TradeEffect, TradeKeepsContracts DEF RestingAs
    <3> QED BY <3>1, <3>2
  <2>6. AtTheFront(o)
    BY <1>2, <2>1 DEF MarketTrade, AtTheFront, o
  <2> QED BY <2>1, <2>3, <2>5, <2>6 DEF Evolution, Evolves, MayFill, RestingAs
<1> QED BY <1>1, <1>2

LEMMA MarketDoneEvolves ==
  ASSUME Inv, MarketDone
  PROVE  Evolution
<1>1. /\ market_order \in Seen /\ order[market_order].type = "MARKET"
      /\ order \in [Seen -> Order] /\ order[market_order] \in Order
  BY MarketOrder DEF MarketDone, Inv, TypeInv
<1>2. PICK st : order' = [order EXCEPT ![market_order].status = st]
  BY DEF MarketDone
<1>3. /\ Seen' = Seen /\ \A x \in Seen \ {market_order} : order'[x] = order[x]
      /\ order'[market_order] = [order[market_order] EXCEPT !.status = st]
  BY <1>1, <1>2 DEF Seen
<1>4. /\ order'[market_order].type = "MARKET"
      /\ SameContract(order'[market_order], order[market_order])
  BY <1>1, <1>3 DEF SameContract, Order
<1> QED BY <1>1, <1>3, <1>4 DEF Evolution, Evolves, MayFill

LEMMA CheckEvolves ==
  ASSUME Inv, CheckNotReached \/ CheckTriggersStopLimit \/ CheckTriggersStop
  PROVE  Evolution
<1> DEFINE id == stop_loss_orders[it]
<1>1. pc = "check" /\ it <= Len(stop_loss_orders)
  BY DEF CheckNotReached, CheckTriggersStopLimit, CheckTriggersStop
<1>2. id \in Seen /\ SameState(Current, order[id]) /\ Untouched(Current)
  BY <1>1, CurrentOrder
<1>3. PICK n \in {Current, AsLimit(Current), AsMarket(Current)} : order' = WithOrder(id, n)
  BY DEF CheckNotReached, CheckTriggersStopLimit, CheckTriggersStop, Rest, StartMarket
<1>4. /\ Seen' = Seen /\ order'[id] = n
      /\ \A x \in Seen \ {id} : order'[x] = order[x]
  BY <1>2, <1>3 DEF WithOrder, Seen
<1>5. n = UpdateTrailingStop(order[id]) \/ n.type # "TRAILING_STOP"
  <2>1. AsLimit(Current).type = "LIMIT" /\ AsMarket(Current).type = "MARKET"
    BY <1>2, UntouchedProperties
  <2> QED BY <1>3, <2>1 DEF Current
<1>6. order[id].status = "PENDING"
  BY <1>2 DEF SameState, Untouched
<1>7. SameContract(n, order[id])
  <2>1. order[id] \in Order
    BY <1>2 DEF Inv, TypeInv
  <2>2. Current \in Order /\ SameContract(Current, order[id])
    BY <1>2, <2>1 DEF Current, UpdateTrailingStop, SameContract, Untouched, Order
  <2> QED BY <1>3, <2>2 DEF AsLimit, AsMarket, SameContract, Order
<1>8. n.filled_quantity = order[id].filled_quantity
  <2>1. Current \in Order /\ Current.filled_quantity = order[id].filled_quantity
    BY <1>2 DEF SameState, Untouched
  <2> QED BY <1>3, <2>1 DEF AsLimit, AsMarket, Order
<1> QED BY <1>4, <1>5, <1>6, <1>7, <1>8 DEF Evolution, Evolves, MayFill, FillChanged

LEMMA StepEvolves ==
  ASSUME Inv, [Next]_vars
  PROVE  Evolution
<1>1. CASE Call
  <2>1. ASSUME NEW id \in Id, NEW o \in Incoming,
               \/ AddLimitOrder(id, o) \/ AddStopOrder(id, o)
               \/ AddTriggeredStopLimit(id, o) \/ AddTriggeredStop(id, o)
               \/ ExecuteMarketOrder(id, o)
        PROVE  Evolution
    BY <2>1, ArrivalEvolves
  <2>2. ASSUME NEW id \in Seen, CancelOrder(id) PROVE Evolution
    BY <2>2, CancelEvolves
  <2>3. CASE MatchOrders \/ CheckStopLossOrders
    BY <2>3 DEF MatchOrders, CheckStopLossOrders, Evolution, Evolves, Seen
  <2> QED BY <1>1, <2>1, <2>2, <2>3 DEF Call
<1>2. CASE Step
  <2>1. ASSUME NEW b \in DOMAIN book["BUY"], NEW s \in DOMAIN book["SELL"],
               MatchSelfTrade(b, s) \/ MatchTrade(b, s)
        PROVE  Evolution
    BY <2>1, MatchEvolves
  <2>2. ASSUME pc = "market", NEW p \in DOMAIN book[Opposite],
               MarketSelfTrade(p) \/ MarketTrade(p)
        PROVE  Evolution
    BY <2>2, MarketEvolves
  <2>3. CASE MatchDone \/ CheckDone
    BY <2>3 DEF MatchDone, CheckDone, Evolution, Evolves, Seen
  <2> QED BY <1>2, <2>1, <2>2, <2>3, MarketDoneEvolves, CheckEvolves DEF Step
<1>3. CASE UNCHANGED vars
  BY <1>3 DEF vars, Evolution, Evolves, Seen
<1> QED BY <1>1, <1>2, <1>3 DEF Next

(***************************************************************************)
(* A filled, cancelled or rejected order, and a market order that got all  *)
(* it can get, is never changed again.                                     *)
(***************************************************************************)
THEOREM ClosedOrdersCorrect == Spec => ClosedOrdersStay
<1>1. Inv /\ [Next]_vars =>
        [\A id \in Seen : Closed(order[id]) /\ id # market_order => order'[id] = order[id]]_vars
  BY StepEvolves DEF Evolution, Evolves, Closed
<1> QED BY <1>1, AlwaysInv, PTL DEF Spec, ClosedOrdersStay

(***************************************************************************)
(* A sell stop only ever has a highest price and a buy stop a lowest one;  *)
(* without that, that they follow it at the trailing amount would not be   *)
(* inductive.                                                              *)
(***************************************************************************)
FollowsItsSide(o) ==
  o.type = "TRAILING_STOP" =>
    IF o.side = "SELL"
      THEN /\ o.lowest_price = 0
           /\ o.highest_price > 0 => o.price = o.highest_price - o.trailing_amount
      ELSE /\ o.highest_price = 0
           /\ o.lowest_price > 0 => o.price = o.lowest_price + o.trailing_amount

TrailInv == \A id \in Seen : FollowsItsSide(order[id])

LEMMA UpdateFollows ==
  ASSUME NEW o \in Order, FollowsItsSide(o), last_trade_price \in Int,
         NEW n, n = UpdateTrailingStop(o)
  PROVE  /\ FollowsItsSide(n)
         /\ o.type = "TRAILING_STOP" =>
              /\ o.highest_price > 0 => n.price >= o.price
              /\ o.lowest_price > 0 => n.price <= o.price
<1> USE DEF Order
<1>1. CASE n = o
  BY <1>1
<1>2. CASE /\ o.type = "TRAILING_STOP" /\ o.side = "SELL"
           /\ last_trade_price > o.highest_price
  <2>1. n = [o EXCEPT !.highest_price = last_trade_price,
                      !.price = last_trade_price - o.trailing_amount]
    BY <1>2 DEF UpdateTrailingStop
  <2> QED BY <1>2, <2>1 DEF FollowsItsSide
<1>3. CASE /\ o.type = "TRAILING_STOP" /\ o.side # "SELL"
           /\ last_trade_price < o.lowest_price \/ o.lowest_price = 0
  <2>1. n = [o EXCEPT !.lowest_price = last_trade_price,
                      !.price = last_trade_price + o.trailing_amount]
    BY <1>3 DEF UpdateTrailingStop
  <2> QED BY <1>3, <2>1 DEF FollowsItsSide
<1> QED BY <1>1, <1>2, <1>3 DEF UpdateTrailingStop

LEMMA TrailStep ==
  ASSUME Inv, TrailInv, [Next]_vars
  PROVE  /\ TrailInv'
         /\ \A id \in Seen : Trailing(id) /\ Trailing(id)' =>
              /\ order[id].highest_price > 0 => order'[id].price >= order[id].price
              /\ order[id].lowest_price > 0 => order'[id].price <= order[id].price
<1>1. Evolution /\ last_trade_price \in Int /\ order \in [Seen -> Order]
  BY StepEvolves DEF Inv, TypeInv
<1>2. ASSUME NEW id \in Seen
      PROVE  /\ FollowsItsSide(order'[id])
             /\ Trailing(id) /\ Trailing(id)' =>
                  /\ order[id].highest_price > 0 => order'[id].price >= order[id].price
                  /\ order[id].lowest_price > 0 => order'[id].price <= order[id].price
  <2>1. order[id] \in Order /\ FollowsItsSide(order[id]) /\ order[id].price \in Int
    BY <1>1 DEF TrailInv, Order
  <2>2. CASE order'[id] = order[id] \/ SameTrail(order'[id], order[id])
    BY <2>1, <2>2 DEF FollowsItsSide, SameTrail
  <2>3. CASE order'[id] = UpdateTrailingStop(order[id])
    BY <1>1, <2>1, <2>3, UpdateFollows DEF Trailing
  <2>4. CASE order'[id].type # "TRAILING_STOP"
    BY <2>4 DEF FollowsItsSide, Trailing
  <2> QED BY <1>1, <2>2, <2>3, <2>4 DEF Evolution, Evolves
<1>3. ASSUME NEW id \in Seen' \ Seen PROVE FollowsItsSide(order'[id])
  BY <1>1, <1>3 DEF Evolution, Starts, FollowsItsSide
<1> QED BY <1>2, <1>3 DEF TrailInv

LEMMA AlwaysTrailInv == Spec => []TrailInv
<1>1. Init => TrailInv
  BY DEF Init, TrailInv, Seen
<1>2. Inv /\ TrailInv /\ [Next]_vars => TrailInv'
  BY TrailStep
<1> QED BY <1>1, <1>2, AlwaysInv, PTL DEF Spec

(***************************************************************************)
(* A trailing stop is the trailing amount away from its recorded extreme.  *)
(***************************************************************************)
THEOREM TrailingCorrect == Spec => []TrailingAligned
<1>1. TrailInv => TrailingAligned
  BY DEF TrailInv, FollowsItsSide, TrailingAligned, Trailing
<1> QED BY <1>1, AlwaysTrailInv, PTL

(***************************************************************************)
(* Once it has recorded a price it only tightens.                          *)
(***************************************************************************)
THEOREM RatchetCorrect == Spec => TrailingTightens
<1>1. Inv /\ TrailInv /\ [Next]_vars =>
        [\A id \in Seen : Trailing(id) /\ Trailing(id)' =>
           /\ order[id].highest_price > 0 => order'[id].price >= order[id].price
           /\ order[id].lowest_price > 0 => order'[id].price <= order[id].price]_vars
  BY TrailStep
<1> QED BY <1>1, AlwaysInv, AlwaysTrailInv, PTL DEF Spec, TrailingTightens

\* A trailing stop that is brought up to date has recorded the last price, or a
\* better one.
LEMMA UpdateRecords ==
  ASSUME NEW o \in Order, last_trade_price \in Int
  PROVE  HasRecorded(UpdateTrailingStop(o))
BY DEF HasRecorded, UpdateTrailingStop, Order, OrderSide

(***************************************************************************)
(* A stop order the pass has left behind was not reached by the price it   *)
(* was compared with: no erase makes the iterator jump over one.           *)
(***************************************************************************)
LEMMA PassStep ==
  ASSUME Inv, [Next]_vars, NEW id \in Seen, pc' = "check", Behind(id)', ~Behind(id)
  PROVE  ~ShouldTrigger(order[id])' /\ HasRecorded(order[id])'
<1>1. PICK i \in DOMAIN stop_loss_orders' : i < it' /\ stop_loss_orders'[i] = id
  BY DEF Behind
<1>2. /\ stop_loss_orders \in Seq(Seen) /\ Len(stop_loss_orders) \in Nat /\ it \in Nat
      /\ DOMAIN stop_loss_orders = 1..Len(stop_loss_orders)
  BY LenProperties DEF Inv, TypeInv
<1>3. ASSUME UNCHANGED <<stop_loss_orders, it>> PROVE FALSE
  BY <1>1, <1>3 DEF Behind
<1>4. ASSUME it \in DOMAIN stop_loss_orders, UNCHANGED it,
             stop_loss_orders' = RemoveAt(stop_loss_orders, it)
      PROVE  FALSE
  <2>1. /\ Len(stop_loss_orders') = Len(stop_loss_orders) - 1
        /\ stop_loss_orders' \in Seq(Seen)
        /\ \A j \in 1..(Len(stop_loss_orders) - 1) :
             stop_loss_orders'[j] =
               IF j < it THEN stop_loss_orders[j] ELSE stop_loss_orders[j + 1]
    BY <1>2, <1>4, RemoveAtProperties
  <2>2. i \in 1..(Len(stop_loss_orders) - 1) /\ i < it
    BY <1>1, <1>4, <2>1, LenProperties
  <2>3. i \in DOMAIN stop_loss_orders /\ stop_loss_orders[i] = id
    BY <1>1, <1>2, <2>1, <2>2
  <2> QED BY <2>2, <2>3 DEF Behind
<1>5. CASE CheckNotReached
  <2>1. /\ it' = it + 1 /\ UNCHANGED <<stop_loss_orders, last_trade_price>>
        /\ order' = WithOrder(stop_loss_orders[it], Current)
        /\ pc = "check" /\ it <= Len(stop_loss_orders) /\ ~ShouldTrigger(Current)
    BY <1>5 DEF CheckNotReached
  <2>2. i = it
    BY <1>1, <1>2, <2>1 DEF Behind
  <2>3. order'[id] = Current
    BY <1>1, <2>1, <2>2 DEF WithOrder
  <2>4. HasRecorded(Current)
    BY <1>2, <2>1, CurrentTyped, UpdateRecords DEF Inv, TypeInv, Current
  <2> QED BY <2>1, <2>3, <2>4 DEF ShouldTrigger, HasRecorded
<1>6. CASE CheckTriggersStopLimit
  <2>1. /\ stop_loss_orders' = RemoveAt(stop_loss_orders, it) /\ UNCHANGED it
        /\ pc = "check" /\ it <= Len(stop_loss_orders)
    BY <1>6 DEF CheckTriggersStopLimit
  <2>2. it \in DOMAIN stop_loss_orders
    BY <1>2, <2>1, CurrentTyped DEF Inv
  <2> QED BY <1>4, <2>1, <2>2
<1>7. CASE MarketDone
  <2>1. /\ pc = "market" /\ UNCHANGED it /\ it > 0
        /\ stop_loss_orders' = RemoveAt(stop_loss_orders, it)
    BY <1>7 DEF MarketDone
  <2>2. it \in DOMAIN stop_loss_orders
    BY <2>1 DEF Inv, TypeInv
  <2> QED BY <1>4, <2>1, <2>2
<1>8. CASE CheckStopLossOrders
  <2>1. it' = 1 /\ UNCHANGED stop_loss_orders
    BY <1>8 DEF CheckStopLossOrders
  <2> QED BY <1>1, <1>2, <2>1
<1>9. CASE CheckTriggersStop \/ CheckDone \/ MatchOrders \/ MatchDone \/ UNCHANGED vars
  BY <1>3, <1>9 DEF CheckTriggersStop, StartMarket, CheckDone, MatchOrders, MatchDone, vars
<1>10. ASSUME NEW x, NEW o, \/ AddLimitOrder(x, o) \/ AddStopOrder(x, o)
                            \/ AddTriggeredStopLimit(x, o) \/ AddTriggeredStop(x, o)
                            \/ ExecuteMarketOrder(x, o)
       PROVE  FALSE
  BY <1>10 DEF AddLimitOrder, AddStopOrder, AddTriggeredStopLimit, AddTriggeredStop,
     ExecuteMarketOrder, StartMarket, Arrives
<1>11. ASSUME NEW x, CancelOrder(x) PROVE FALSE
  BY <1>11 DEF CancelOrder, CancelResting, CancelStop
<1>12. ASSUME NEW bp, NEW sp, MatchSelfTrade(bp, sp) \/ MatchTrade(bp, sp) PROVE FALSE
  BY <1>3, <1>12 DEF MatchSelfTrade, MatchTrade
<1>13. ASSUME NEW p, MarketSelfTrade(p) \/ MarketTrade(p) PROVE FALSE
  BY <1>3, <1>13 DEF MarketSelfTrade, MarketTrade
<1> QED BY <1>5, <1>6, <1>7, <1>8, <1>9, <1>10, <1>11, <1>12, <1>13 DEF Next, Call, Step

(***************************************************************************)
(* check_stop_loss_orders skips no stop order it should have executed.     *)
(***************************************************************************)
THEOREM PassCorrect == Spec => PassSkipsNoStop
<1>1. Inv /\ [Next]_vars =>
        [\A id \in Seen : pc' = "check" /\ Behind(id)' /\ ~Behind(id) =>
           ~ShouldTrigger(order[id])' /\ HasRecorded(order[id])']_vars
  BY PassStep
<1> QED BY <1>1, AlwaysInv, PTL DEF Spec, PassSkipsNoStop
-----------------------------------------------------------------------------
(***************************************************************************)
(* What a step may do to a side of the book: nothing, add one order behind *)
(* the others of its price, or take one away, which then was filled or     *)
(* cancelled or had to leave in a self trade.                              *)
(***************************************************************************)
Leaves(id) == order'[id].status # "PENDING" \/ MeetsOwnClient(id)

\* A new order, or a stop limit order that now is a limit order.
JoinsRightly(id) ==
  \/ id \notin Seen
  \/ order[id].type = "STOP_LIMIT" /\ order'[id].type = "LIMIT"

SidePushes(side) ==
  \E price \in Int, id \in Id : /\ ~Occurs(book[side], id) /\ JoinsRightly(id)
                               /\ book'[side] = PushBack(book[side], price, id)

SideErases(side) ==
  \E p \in DOMAIN book[side] : \E i \in DOMAIN book[side][p] :
    book'[side] = Erase(book[side], p, i) /\ Leaves(book[side][p][i])

SideEvolves(side) == book'[side] = book[side] \/ SidePushes(side) \/ SideErases(side)

\* A stop order that leaves the queue rests in the book, or is no longer open.
StopsEvolve ==
  \A id \in Seen : Dormant(id) => Placed(id)' \/ order'[id].status # "PENDING"

PlacesEvolve == (\A side \in OrderSide : SideEvolves(side)) /\ StopsEvolve

LEMMA SamePlaces ==
  ASSUME UNCHANGED <<book, stop_loss_orders>>
  PROVE  PlacesEvolve
BY DEF PlacesEvolve, SideEvolves, StopsEvolve, Placed, Dormant

LEMMA RestPushes ==
  ASSUME Inv, NEW id \in Id, NEW o, o.side \in OrderSide, o.price \in Int, Rest(id, o),
         JoinsRightly(id), \A side \in OrderSide : ~Occurs(book[side], id)
  PROVE  /\ \A side \in OrderSide : SideEvolves(side)
         /\ Rests(id, o.side)'
<1>1. /\ DOMAIN book = OrderSide /\ \A side \in OrderSide : IsLevels(book[side], Seen)
      /\ book' = [book EXCEPT ![o.side] = PushBack(@, o.price, id)]
  BY DEF Inv, TypeInv, LevelsTyped, Rest
<1>2. book'[o.side] = PushBack(book[o.side], o.price, id)
  BY <1>1
<1>3. Occurs(book'[o.side], id)
  BY <1>1, <1>2, PushBackKeepsOrder
<1> QED BY <1>1, <1>2, <1>3 DEF SideEvolves, SidePushes, Occurs, Rests

LEMMA ArrivalPlaces ==
  ASSUME Inv, NEW id \in Id, NEW o \in Incoming,
         \/ AddLimitOrder(id, o)
         \/ AddStopOrder(id, o)
         \/ AddTriggeredStopLimit(id, o)
         \/ AddTriggeredStop(id, o)
         \/ ExecuteMarketOrder(id, o)
  PROVE  PlacesEvolve
<1> DEFINE stamped == [o EXCEPT !.timestamp = clock']
<1>1. o \in Order /\ id \notin Seen /\ stop_loss_orders \in Seq(Seen)
  BY IncomingAssumption DEF IsAdmissible, IsFresh, Arrives, AddLimitOrder, AddStopOrder,
     AddTriggeredStopLimit, AddTriggeredStop, ExecuteMarketOrder, Inv, TypeInv
<1>2. \A side \in OrderSide : ~Occurs(book[side], id)
  BY <1>1, NewIdNowhere
<1>3. CASE AddTriggeredStop(id, o) \/ ExecuteMarketOrder(id, o)
  BY <1>3, SamePlaces DEF AddTriggeredStop, ExecuteMarketOrder
<1>4. CASE AddStopOrder(id, o)
  <2>1. stop_loss_orders' = Append(stop_loss_orders, id) /\ UNCHANGED book
    BY <1>4 DEF AddStopOrder
  <2>2. stop_loss_orders \in Seq(Seen \cup {id})
    BY <1>1, SeqMonotonic
  <2>3. \A i \in DOMAIN stop_loss_orders :
          /\ i \in DOMAIN stop_loss_orders'
          /\ stop_loss_orders'[i] = stop_loss_orders[i]
    BY <2>1, <2>2, AppendProperties, LenProperties
  <2> QED BY <2>1, <2>3 DEF PlacesEvolve, SideEvolves, StopsEvolve, Placed, Dormant
<1>5. CASE AddLimitOrder(id, o) \/ AddTriggeredStopLimit(id, o)
  <2>1. UNCHANGED stop_loss_orders /\ (Rest(id, stamped) \/ Rest(id, AsLimit(stamped)))
    BY <1>5 DEF AddLimitOrder, AddTriggeredStopLimit
  <2>2. /\ stamped.side \in OrderSide /\ stamped.price \in Int
        /\ AsLimit(stamped).side \in OrderSide /\ AsLimit(stamped).price \in Int
    BY <1>1 DEF Order, AsLimit
  <2> HIDE DEF stamped
  <2>3. JoinsRightly(id)
    BY <1>1 DEF JoinsRightly
  <2>4. \A side \in OrderSide : SideEvolves(side)
    BY <1>1, <1>2, <2>1, <2>2, <2>3, RestPushes
  <2> QED BY <2>1, <2>4 DEF PlacesEvolve, StopsEvolve, Placed, Dormant
<1> QED BY <1>3, <1>4, <1>5

\* One position of the stop orders goes.
LEMMA RemovalPlaces ==
  ASSUME Inv, NEW i \in DOMAIN stop_loss_orders,
         stop_loss_orders' = RemoveAt(stop_loss_orders, i),
         NEW id, id = stop_loss_orders[i], Placed(id)' \/ order'[id].status # "PENDING"
  PROVE  StopsEvolve
<1>1. stop_loss_orders \in Seq(Seen)
  BY DEF Inv, TypeInv
<1>2. \A k \in DOMAIN stop_loss_orders \ {i} : \E j \in DOMAIN stop_loss_orders' :
        stop_loss_orders'[j] = stop_loss_orders[k]
  BY <1>1, RemoveAtElements
<1>3. ASSUME NEW x \in Seen, Dormant(x), x # id PROVE Dormant(x)'
  <2>1. PICK k \in DOMAIN stop_loss_orders : stop_loss_orders[k] = x
    BY <1>3 DEF Dormant
  <2>2. PICK j \in DOMAIN stop_loss_orders' : stop_loss_orders'[j] = x
    BY <1>2, <1>3, <2>1
  <2> QED BY <2>2 DEF Dormant
<1> QED BY <1>3 DEF StopsEvolve, Placed

LEMMA CancelPlaces ==
  ASSUME Inv, NEW id \in Seen, CancelOrder(id)
  PROVE  PlacesEvolve
<1>1. order \in [Seen -> Order] /\ order[id] \in Order /\ DOMAIN book = OrderSide
  BY DEF Inv, TypeInv
<1>2. ASSUME order' = [order EXCEPT ![id].status = "CANCELLED"]
      PROVE  order'[id].status # "PENDING"
  BY <1>1, <1>2 DEF Order
<1>3. ASSUME NEW side \in OrderSide, NEW p \in DOMAIN book[side],
             NEW i \in DOMAIN book[side][p], CancelResting(id, side, p, i)
      PROVE  PlacesEvolve
  <2>1. /\ book[side][p][i] = id /\ UNCHANGED stop_loss_orders
        /\ order' = [order EXCEPT ![id].status = "CANCELLED"]
        /\ book' = [book EXCEPT ![side] = Erase(book[side], p, i)]
    BY <1>3 DEF CancelResting
  <2>2. order'[id].status # "PENDING"
    BY <1>2, <2>1
  <2>3. SideEvolves(side)
    BY <1>1, <2>1, <2>2 DEF SideEvolves, SideErases, Leaves
  <2>4. \A t \in OrderSide \ {side} : SideEvolves(t)
    BY <1>1, <2>1 DEF SideEvolves
  <2> QED BY <2>1, <2>3, <2>4 DEF PlacesEvolve, StopsEvolve, Placed, Dormant
<1>4. ASSUME NEW i \in DOMAIN stop_loss_orders, CancelStop(id, i)
      PROVE  PlacesEvolve
  <2>1. /\ stop_loss_orders[i] = id /\ UNCHANGED book
        /\ order' = [order EXCEPT ![id].status = "CANCELLED"]
        /\ stop_loss_orders' = RemoveAt(stop_loss_orders, i)
    BY <1>4 DEF CancelStop
  <2> QED BY <1>2, <2>1, RemovalPlaces DEF PlacesEvolve, SideEvolves
<1> QED BY <1>1, <1>3, <1>4 DEF CancelOrder

LEMMA TradeLeaves ==
  ASSUME Inv, NEW side \in OrderSide, NEW p \in DOMAIN book[side], NEW q,
         NEW x, 1 \in DOMAIN book[side][p], x = book[side][p][1], order[x] \in Order,
         book'[side] = LevelsAfterTrade(side, p, order[x], q),
         order'[x] = Filled(order[x], q)
  PROVE  SideEvolves(side)
<1>1. CASE order[x].filled_quantity + q >= order[x].quantity
  <2>1. order'[x].status = "FILLED"
    BY <1>1 DEF Filled, Order
  <2>2. book'[side] = Erase(book[side], p, 1)
    BY <1>1 DEF LevelsAfterTrade
  <2> QED BY <2>1, <2>2 DEF SideEvolves, SideErases, Leaves
<1>2. CASE ~(order[x].filled_quantity + q >= order[x].quantity)
  BY <1>2 DEF LevelsAfterTrade, SideEvolves
<1> QED BY <1>1, <1>2

LEMMA MatchPlaces ==
  ASSUME Inv, NEW bp \in DOMAIN book["BUY"], NEW sp \in DOMAIN book["SELL"],
         MatchSelfTrade(bp, sp) \/ MatchTrade(bp, sp)
  PROVE  PlacesEvolve
<1> DEFINE b == Foremost("BUY", bp)
           s == Foremost("SELL", sp)
<1>1. /\ 1 \in DOMAIN book["BUY"][bp] /\ b = book["BUY"][bp][1]
      /\ 1 \in DOMAIN book["SELL"][sp] /\ s = book["SELL"][sp][1]
  BY ForemostTyped DEF Inv, Foremost, OrderSide
<1>2. /\ b \in Seen /\ order[b] \in Order /\ RestingAs(order[b], "BUY", bp)
      /\ s \in Seen /\ order[s] \in Order /\ RestingAs(order[s], "SELL", sp)
  BY <1>1, RestingOrder DEF OrderSide
<1>3. UNCHANGED stop_loss_orders /\ DOMAIN book = OrderSide
  BY DEF MatchSelfTrade, MatchTrade, Inv, TypeInv
<1>4. StopsEvolve
  BY <1>3 DEF StopsEvolve, Placed, Dormant
<1>5. Rests(b, "BUY") /\ Rests(s, "SELL") /\ b # s
      /\ order[b].side = "BUY" /\ order[s].side = "SELL"
  BY <1>1, <1>2 DEF Rests, RestingAs
<1>6. CASE MatchSelfTrade(bp, sp)
  <2>1. /\ order[b].client_id = order[s].client_id
        /\ IF order[b].timestamp < order[s].timestamp
             THEN book' = [book EXCEPT !["BUY"] = Erase(book["BUY"], bp, 1)]
             ELSE book' = [book EXCEPT !["SELL"] = Erase(book["SELL"], sp, 1)]
    BY <1>6 DEF MatchSelfTrade
  <2>2. order[b].timestamp \in Nat /\ order[s].timestamp \in Nat
    BY <1>2 DEF Order
  <2>5. SelfTrade(b, s)
    <3>1. AtFront(b, "BUY") /\ AtFront(s, "SELL")
      BY <1>6 DEF MatchSelfTrade, Crossing, AtFront, b, s
    <3>2. pc = "match" /\ bp >= sp
      BY <1>6 DEF MatchSelfTrade, Crossing
    <3> QED BY <1>2, <2>1, <3>1, <3>2 DEF SelfTrade, RestingAs
  <2> HIDE DEF b, s
  <2>3. CASE order[b].timestamp < order[s].timestamp
    <3>1. Leaves(b)
      BY <1>2, <2>3, <2>5 DEF Leaves, MeetsOwnClient
    <3>2. SideEvolves("BUY") /\ SideEvolves("SELL")
      BY <1>1, <1>3, <2>1, <2>3, <3>1 DEF SideEvolves, SideErases, OrderSide
    <3> QED BY <1>4, <3>2 DEF PlacesEvolve, OrderSide
  <2>4. CASE ~(order[b].timestamp < order[s].timestamp)
    <3>1. order[s].timestamp <= order[b].timestamp
      BY <2>2, <2>4
    <3>2. Leaves(s)
      BY <1>2, <2>5, <3>1 DEF Leaves, MeetsOwnClient
    <3>3. SideEvolves("BUY") /\ SideEvolves("SELL")
      BY <1>1, <1>3, <2>1, <2>4, <3>2 DEF SideEvolves, SideErases, OrderSide
    <3> QED BY <1>4, <3>3 DEF PlacesEvolve, OrderSide
  <2> QED BY <2>3, <2>4
<1>7. CASE MatchTrade(bp, sp)
  <2> DEFINE q == TradeQuantity(b, s)
  <2>1. /\ ExecuteTrade(b, s)
        /\ book'["BUY"] = LevelsAfterTrade("BUY", bp, order[b], q)
        /\ book'["SELL"] = LevelsAfterTrade("SELL", sp, order[s], q)
    BY <1>7 DEF MatchTrade, OrderSide
  <2>2. order'[b] = Filled(order[b], q) /\ order'[s] = Filled(order[s], q)
    BY <1>2, <1>5, <2>1, TradeEffect DEF RestingAs
  <2> HIDE DEF b, s, q
  <2>3. SideEvolves("BUY")
    BY <1>1, <1>2, <2>1, <2>2, TradeLeaves DEF OrderSide
  <2>4. SideEvolves("SELL")
    BY <1>1, <1>2, <2>1, <2>2, TradeLeaves DEF OrderSide
  <2> QED BY <1>4, <2>3, <2>4 DEF PlacesEvolve, OrderSide
<1> QED BY <1>6, <1>7

LEMMA MarketPlaces ==
  ASSUME Inv, pc = "market", NEW p \in DOMAIN book[Opposite],
         MarketSelfTrade(p) \/ MarketTrade(p)
  PROVE  PlacesEvolve
<1> DEFINE m == market_order
           o == Foremost(Opposite, p)
<1>1. /\ m \in Seen /\ order[m] \in Order /\ order[m].type = "MARKET"
      /\ order[m].status = "PENDING" /\ Opposite \in OrderSide
  BY MarketOrder DEF MarketSelfTrade, MarketTrade
<1>2. /\ 1 \in DOMAIN book[Opposite][p] /\ o = book[Opposite][p][1]
  BY <1>1, ForemostTyped DEF Inv, Foremost
<1>3. o \in Seen /\ order[o] \in Order /\ RestingAs(order[o], Opposite, p)
  BY <1>1, <1>2, RestingOrder
<1>4. UNCHANGED stop_loss_orders /\ DOMAIN book = OrderSide
  BY DEF MarketSelfTrade, MarketTrade, Inv, TypeInv
<1>5. StopsEvolve
  BY <1>4 DEF StopsEvolve, Placed, Dormant
<1>6. o # m /\ order[o].side = Opposite /\ order[m].side # order[o].side
  <2>1. order[m].side # Opposite
    BY <1>1 DEF Opposite, OppositeSide, Order, OrderSide
  <2> QED BY <1>1, <1>3, <2>1 DEF RestingAs
<1>7. CASE MarketSelfTrade(p)
  <2>1. /\ order[o].client_id = order[m].client_id
        /\ book' = [book EXCEPT ![Opposite] = Erase(book[Opposite], p, 1)]
    BY <1>7 DEF MarketSelfTrade
  <2>2. Leaves(o)
    BY <1>7, <2>1 DEF MarketSelfTrade, Leaves, MeetsOwnClient, MeetsMarketOrder, AtFront
  <2> HIDE DEF o
  <2>3. SideEvolves(Opposite)
    BY <1>1, <1>2, <1>4, <2>1, <2>2 DEF SideEvolves, SideErases
  <2>4. \A t \in OrderSide \ {Opposite} : SideEvolves(t)
    BY <1>4, <2>1 DEF SideEvolves
  <2> QED BY <1>5, <2>3, <2>4 DEF PlacesEvolve
<1>8. CASE MarketTrade(p)
  <2>1. PICK b \in Seen, s \in Seen :
          /\ {b, s} = {o, m} /\ b # s /\ ExecuteTrade(b, s)
          /\ book' = [book EXCEPT ![Opposite] =
                        LevelsAfterTrade(Opposite, p, order[o], TradeQuantity(b, s))]
    <3> DEFINE b == IF Opposite = "BUY" THEN o ELSE m
               s == IF Opposite = "BUY" THEN m ELSE o
    <3>1. /\ ExecuteTrade(b, s)
          /\ book' = [book EXCEPT ![Opposite] =
                        LevelsAfterTrade(Opposite, p, order[o], TradeQuantity(b, s))]
      BY <1>8 DEF MarketTrade
    <3>2. b \in Seen /\ s \in Seen /\ {b, s} = {o, m} /\ b # s
      BY <1>1, <1>3, <1>6
    <3> HIDE DEF b, s
    <3> QED BY <3>1, <3>2
  <2> HIDE DEF o, m
  <2>2. order'[o] = Filled(order[o], TradeQuantity(b, s))
    BY <1>1, <1>3, <2>1, TradeEffect DEF RestingAs
  <2>3. book'[Opposite] = LevelsAfterTrade(Opposite, p, order[o], TradeQuantity(b, s))
    BY <1>1, <1>4, <2>1
  <2>4. SideEvolves(Opposite)
    BY <1>1, <1>2, <1>3, <2>2, <2>3, TradeLeaves
  <2>5. \A t \in OrderSide \ {Opposite} : SideEvolves(t)
    BY <1>4, <2>1 DEF SideEvolves
  <2> QED BY <1>5, <2>4, <2>5 DEF PlacesEvolve
<1> QED BY <1>7, <1>8

LEMMA MarketDonePlaces ==
  ASSUME Inv, MarketDone
  PROVE  PlacesEvolve
<1>1. /\ UNCHANGED book /\ market_order \in Seen
      /\ order[market_order] \in Order /\ order \in [Seen -> Order]
      /\ it > 0 => stop_loss_orders[it] = market_order /\ it \in DOMAIN stop_loss_orders
  BY MarketOrder DEF MarketDone, Inv, TypeInv
<1>2. order'[market_order].status # "PENDING"
  <2>1. order'[market_order].status = FinalStatus(order[market_order], total_executed)
    BY <1>1 DEF MarketDone, Order
  <2> QED BY <2>1 DEF FinalStatus
<1>3. CASE UNCHANGED stop_loss_orders
  BY <1>1, <1>3, SamePlaces
<1>4. CASE it > 0 /\ stop_loss_orders' = RemoveAt(stop_loss_orders, it)
  <2>1. StopsEvolve
    BY <1>1, <1>2, <1>4, RemovalPlaces
  <2> QED BY <1>1, <2>1 DEF PlacesEvolve, SideEvolves
<1> QED BY <1>3, <1>4 DEF MarketDone

LEMMA StopRestsPlaces ==
  ASSUME Inv, CheckTriggersStopLimit
  PROVE  PlacesEvolve
<1> PICK id : id = stop_loss_orders[it]
  OBVIOUS
<1> PICK o : o = AsLimit(Current)
  OBVIOUS
<1>1. /\ pc = "check" /\ it <= Len(stop_loss_orders) /\ Rest(id, o)
      /\ stop_loss_orders' = RemoveAt(stop_loss_orders, it)
  BY DEF CheckTriggersStopLimit
<1>2. /\ it \in DOMAIN stop_loss_orders /\ id \in Id
      /\ \A side \in OrderSide : ~Occurs(book[side], id)
  BY <1>1, CurrentOrder
<1>3. o.side \in OrderSide /\ o.price \in Int
  BY <1>1, CurrentTyped DEF Inv, Order
<1>4. (\A side \in OrderSide : SideEvolves(side)) /\ Rests(id, o.side)'
  <2>1. order'[id].type = "LIMIT" /\ order[id].type = "STOP_LIMIT"
    <3>1. order'[id] = o
      BY <1>1 DEF Rest, WithOrder
    <3>2. Current \in Order /\ Current.type = "STOP_LIMIT"
      BY <1>1, CurrentTyped DEF Inv, CheckTriggersStopLimit
    <3>3. order[id].type = "STOP_LIMIT"
      BY <3>2 DEF Current, UpdateTrailingStop
    <3>4. o.type = "LIMIT"
      BY <3>2 DEF AsLimit, Order
    <3> QED BY <3>1, <3>3, <3>4
  <2>2. JoinsRightly(id)
    BY <2>1 DEF JoinsRightly
  <2> QED BY <1>1, <1>2, <1>3, <2>2, RestPushes
<1>5. Placed(id)'
  BY <1>3, <1>4 DEF Placed, OrderSide
<1>6. StopsEvolve
  BY <1>1, <1>2, <1>5, RemovalPlaces
<1> QED BY <1>4, <1>6 DEF PlacesEvolve

LEMMA StepPlaces ==
  ASSUME Inv, [Next]_vars
  PROVE  PlacesEvolve
<1>1. CASE Call
  <2>1. ASSUME NEW id \in Id, NEW o \in Incoming,
               \/ AddLimitOrder(id, o) \/ AddStopOrder(id, o)
               \/ AddTriggeredStopLimit(id, o) \/ AddTriggeredStop(id, o)
               \/ ExecuteMarketOrder(id, o)
        PROVE  PlacesEvolve
    BY <2>1, ArrivalPlaces
  <2>2. ASSUME NEW id \in Seen, CancelOrder(id) PROVE PlacesEvolve
    BY <2>2, CancelPlaces
  <2>3. CASE MatchOrders \/ CheckStopLossOrders
    BY <2>3, SamePlaces DEF MatchOrders, CheckStopLossOrders
  <2> QED BY <1>1, <2>1, <2>2, <2>3 DEF Call
<1>2. CASE Step
  <2>1. ASSUME NEW b \in DOMAIN book["BUY"], NEW s \in DOMAIN book["SELL"],
               MatchSelfTrade(b, s) \/ MatchTrade(b, s)
        PROVE  PlacesEvolve
    BY <2>1, MatchPlaces
  <2>2. ASSUME pc = "market", NEW p \in DOMAIN book[Opposite],
               MarketSelfTrade(p) \/ MarketTrade(p)
        PROVE  PlacesEvolve
    BY <2>2, MarketPlaces
  <2>3. CASE MatchDone \/ CheckDone \/ CheckNotReached \/ CheckTriggersStop
    BY <2>3, SamePlaces DEF MatchDone, CheckDone, CheckNotReached, CheckTriggersStop
  <2> QED BY <1>2, <2>1, <2>2, <2>3, MarketDonePlaces, StopRestsPlaces DEF Step
<1>3. CASE UNCHANGED vars
  BY <1>3, SamePlaces DEF vars
<1> QED BY <1>1, <1>2, <1>3 DEF Next

(***************************************************************************)
(* An open order only leaves its place for a reason.                       *)
(***************************************************************************)
LEMMA RestsOrLeaves ==
  ASSUME Inv, NEW side \in OrderSide, SideEvolves(side), NEW id, Rests(id, side)
  PROVE  Rests(id, side)' \/ Leaves(id)
<1>1. IsLevels(book[side], Seen)
  BY DEF Inv, TypeInv, LevelsTyped
<1>2. PICK p \in DOMAIN book[side] : \E k \in DOMAIN book[side][p] : book[side][p][k] = id
  BY DEF Rests
<1>3. PICK k \in DOMAIN book[side][p] : book[side][p][k] = id
  BY <1>2
<1>4. CASE book'[side] = book[side]
  BY <1>2, <1>4 DEF Rests
<1>5. CASE SidePushes(side)
  <2>1. PICK price \in Int, n \in Id : /\ ~Occurs(book[side], n)
                                      /\ book'[side] = PushBack(book[side], price, n)
    BY <1>5 DEF SidePushes
  <2>2. p \in DOMAIN book'[side] /\ k \in DOMAIN book'[side][p] /\ book'[side][p][k] = id
    BY <1>1, <1>3, <2>1, PushBackKeepsOrder
  <2> QED BY <2>2 DEF Rests
<1>6. CASE SideErases(side)
  <2>1. PICK r \in DOMAIN book[side] : \E i \in DOMAIN book[side][r] :
          book'[side] = Erase(book[side], r, i) /\ Leaves(book[side][r][i])
    BY <1>6 DEF SideErases
  <2>2. PICK i \in DOMAIN book[side][r] :
          book'[side] = Erase(book[side], r, i) /\ Leaves(book[side][r][i])
    BY <2>1
  <2>3. \/ p = r /\ k = i
        \/ p \in DOMAIN book'[side] /\ \E j \in DOMAIN book'[side][p] : book'[side][p][j] = id
    BY <1>1, <1>3, <2>2, EraseKeepsOrder
  <2> QED BY <1>3, <2>2, <2>3 DEF Rests
<1> QED BY <1>4, <1>5, <1>6 DEF SideEvolves

(***************************************************************************)
(* No open order vanishes from the book or from the stop orders but the    *)
(* one that has to leave in a self trade at the front of the book.         *)
(***************************************************************************)
THEOREM NothingVanishes == Spec => NoneVanishes
<1>1. Inv /\ [Next]_vars =>
        [\A id \in Seen : Placed(id) /\ ~Placed(id)' =>
           \/ order'[id].status # "PENDING"
           \/ MeetsOwnClient(id)]_vars
  <2> SUFFICES ASSUME Inv, [Next]_vars, NEW id \in Seen, Placed(id), ~Placed(id)'
               PROVE  Leaves(id)
    BY DEF Leaves
  <2>1. PlacesEvolve
    BY StepPlaces
  <2>2. ASSUME NEW side \in OrderSide, Rests(id, side) PROVE Leaves(id)
    BY <2>1, <2>2, RestsOrLeaves DEF PlacesEvolve, Placed, OrderSide
  <2>3. ASSUME Dormant(id) PROVE Leaves(id)
    BY <2>1, <2>3 DEF PlacesEvolve, StopsEvolve, Dormant, Leaves
  <2> QED BY <2>2, <2>3 DEF Placed, OrderSide
<1> QED BY <1>1, AlwaysInv, PTL DEF Spec, NoneVanishes

(***************************************************************************)
(* Price-time priority.                                                    *)
(***************************************************************************)
LEMMA EvolvesInOrder ==
  ASSUME Inv, NEW side \in OrderSide, SideEvolves(side)
  PROVE  SameOrder(book'[side], book[side])
<1>1. IsLevels(book[side], Seen)
  BY DEF Inv, TypeInv, LevelsTyped
<1>2. CASE book'[side] = book[side]
  <2> SUFFICES SameOrder(book[side], book[side])
    BY <1>2
  <2> QED BY DEF SameOrder
<1>3. CASE SidePushes(side)
  <2>1. PICK price \in Int, n \in Id : /\ ~Occurs(book[side], n)
                                      /\ book'[side] = PushBack(book[side], price, n)
    BY <1>3 DEF SidePushes
  <2> QED BY <1>1, <2>1, PushBackKeepsOrder
<1>4. CASE SideErases(side)
  <2>1. PICK p \in DOMAIN book[side] : \E i \in DOMAIN book[side][p] :
          book'[side] = Erase(book[side], p, i)
    BY <1>4 DEF SideErases
  <2>2. PICK i \in DOMAIN book[side][p] : book'[side] = Erase(book[side], p, i)
    BY <2>1
  <2> QED BY <1>1, <2>2, EraseKeepsOrder
<1> QED BY <1>2, <1>3, <1>4 DEF SideEvolves

LEMMA PriorityKept ==
  ASSUME Inv, Inv', NEW side \in OrderSide, SameOrder(book'[side], book[side]),
         NEW a, NEW b, Ahead(side, a, b), Rests(a, side)', Rests(b, side)'
  PROVE  Ahead(side, a, b)'
<1>1. PICK p \in DOMAIN book[side], q \in DOMAIN book[side] :
        \E i \in DOMAIN book[side][p], j \in DOMAIN book[side][q] :
          /\ book[side][p][i] = a /\ book[side][q][j] = b
          /\ BetterPrice(side, p, q) \/ (p = q /\ i < j)
  BY DEF Ahead
<1>2. PICK i \in DOMAIN book[side][p], j \in DOMAIN book[side][q] :
          /\ book[side][p][i] = a /\ book[side][q][j] = b
          /\ BetterPrice(side, p, q) \/ (p = q /\ i < j)
  BY <1>1
<1>3. PICK np \in DOMAIN book'[side] : \E k \in DOMAIN book'[side][np] : book'[side][np][k] = a
  BY DEF Rests
<1>4. PICK ni \in DOMAIN book'[side][np] : book'[side][np][ni] = a
  BY <1>3
<1>5. PICK nq \in DOMAIN book'[side] : \E k \in DOMAIN book'[side][nq] : book'[side][nq][k] = b
  BY DEF Rests
<1>6. PICK nj \in DOMAIN book'[side][nq] : book'[side][nq][nj] = b
  BY <1>5
<1>7. Occurs(book[side], a) /\ Occurs(book[side], b)
  BY <1>2 DEF Occurs
<1>8. /\ np = p /\ nq = q
  <2>1. np \in DOMAIN book[side] /\ \E n \in DOMAIN book[side][np] : book[side][np][n] = a
    BY <1>4, <1>7 DEF SameOrder
  <2>2. nq \in DOMAIN book[side] /\ \E n \in DOMAIN book[side][nq] : book[side][nq][n] = b
    BY <1>6, <1>7 DEF SameOrder
  <2> QED BY <1>2, <2>1, <2>2, OnePlace
<1>9. CASE BetterPrice(side, p, q)
  BY <1>4, <1>6, <1>8, <1>9 DEF Ahead
<1>10. CASE p = q /\ i < j
  <2>1. ni \in Int /\ nj \in Int /\ i \in Int /\ j \in Int
    <3>1. IsLevels(book[side], Seen) /\ IsLevels(book'[side], Seen')
      BY DEF Inv, TypeInv, LevelsTyped
    <3>2. book[side][p] \in Seq(Seen) /\ book'[side][p] \in Seq(Seen')
      BY <3>1, <1>8 DEF IsLevels
    <3>3. /\ DOMAIN book[side][p] = 1..Len(book[side][p])
          /\ DOMAIN book'[side][p] = 1..Len(book'[side][p])
      BY <3>2, LenProperties
    <3> QED BY <3>3, <1>8, <1>10
  <2>2. ni # nj
    <3>1. ASSUME ni = nj PROVE FALSE
      <4>1. a = b
        BY <1>4, <1>6, <1>8, <1>10, <3>1
      <4>2. i = j
        BY <1>2, <1>10, <4>1, OnePlace
      <4> QED BY <1>10, <2>1, <4>2
    <3> QED BY <3>1
  <2>3. ~(nj < ni)
    <3>1. ASSUME nj < ni PROVE FALSE
      <4>1. \E m, n \in DOMAIN book[side][p] :
              m < n /\ book[side][p][m] = b /\ book[side][p][n] = a
        BY <1>4, <1>6, <1>7, <1>8, <1>10, <3>1 DEF SameOrder
      <4>2. PICK m \in DOMAIN book[side][p], n \in DOMAIN book[side][p] :
              m < n /\ book[side][p][m] = b /\ book[side][p][n] = a
        BY <4>1
      <4>3. m = j /\ n = i
        BY <1>2, <1>10, <4>2, OnePlace
      <4> QED BY <1>10, <2>1, <4>2, <4>3
    <3> QED BY <3>1
  <2>4. ni < nj
    BY <2>1, <2>2, <2>3
  <2> QED BY <1>4, <1>6, <1>8, <1>10, <2>4 DEF Ahead
<1> QED BY <1>2, <1>9, <1>10

LEMMA NewcomersBehind ==
  ASSUME Inv, Inv', NEW side \in OrderSide, SameOrder(book'[side], book[side]),
         NEW a, ~Rests(a, side),
         NEW b, Rests(b, side), Ahead(side, a, b)'
  PROVE  BetterPrice(side, order'[a].price, order[b].price)
<1>1. PICK p \in DOMAIN book'[side], q \in DOMAIN book'[side] :
        \E i \in DOMAIN book'[side][p], j \in DOMAIN book'[side][q] :
          /\ book'[side][p][i] = a /\ book'[side][q][j] = b
          /\ BetterPrice(side, p, q) \/ (p = q /\ i < j)
  BY DEF Ahead
<1>2. PICK i \in DOMAIN book'[side][p], j \in DOMAIN book'[side][q] :
          /\ book'[side][p][i] = a /\ book'[side][q][j] = b
          /\ BetterPrice(side, p, q) \/ (p = q /\ i < j)
  BY <1>1
<1>3. Occurs(book[side], b) /\ ~Occurs(book[side], a)
  BY DEF Occurs, Rests
<1>4. order'[a].price = p
  BY <1>2 DEF Inv, RestingAreOpen
<1>5. order[b].price = q
  <2>1. q \in DOMAIN book[side] /\ \E n \in DOMAIN book[side][q] : book[side][q][n] = b
    BY <1>2, <1>3 DEF SameOrder
  <2> QED BY <2>1, RestingOrder DEF RestingAs
<1>6. ~(p = q /\ i < j)
  <2>1. ASSUME p = q, i < j PROVE FALSE
    <3>1. p \in DOMAIN book[side] /\ \E m \in DOMAIN book[side][p] : book[side][p][m] = a
      BY <1>2, <1>3, <2>1 DEF SameOrder
    <3> QED BY <3>1, <1>3 DEF Occurs
  <2> QED BY <2>1
<1> QED BY <1>2, <1>4, <1>5, <1>6

LEMMA FrontHasNoneAhead ==
  ASSUME Inv, NEW side \in OrderSide, NEW a, NEW b, Ahead(side, a, b), AtTheFront(b)
  PROVE  FALSE
<1>1. PICK p \in DOMAIN book[side], q \in DOMAIN book[side] :
        \E i \in DOMAIN book[side][p], j \in DOMAIN book[side][q] :
          /\ book[side][p][i] = a /\ book[side][q][j] = b
          /\ BetterPrice(side, p, q) \/ (p = q /\ i < j)
  BY DEF Ahead
<1>2. PICK i \in DOMAIN book[side][p], j \in DOMAIN book[side][q] :
          /\ book[side][p][i] = a /\ book[side][q][j] = b
          /\ BetterPrice(side, p, q) \/ (p = q /\ i < j)
  BY <1>1
<1>3. PICK s \in OrderSide : \E r \in DOMAIN book[s] : IsBest(s, r) /\ b = Foremost(s, r)
  BY DEF AtTheFront
<1>4. PICK r \in DOMAIN book[s] : IsBest(s, r) /\ b = Foremost(s, r)
  BY <1>3
<1>5. 1 \in DOMAIN book[s][r] /\ book[s][r][1] = b
  BY <1>4, ForemostTyped DEF Inv, Foremost
<1>6. s = side /\ r = q /\ j = 1
  BY <1>2, <1>5, OnePlace
<1>7. IsLevels(book[side], Seen) /\ p \in Int /\ q \in Int
  BY DEF Inv, TypeInv, LevelsTyped, IsLevels
<1>8. ~BetterPrice(side, p, q)
  BY <1>4, <1>6, <1>7 DEF IsBest, BetterPrice
<1>9. i >= 1 /\ i \in Int
  <2>1. book[side][p] \in Seq(Seen)
    BY <1>7 DEF IsLevels
  <2>2. DOMAIN book[side][p] = 1..Len(book[side][p])
    BY <2>1, LenProperties
  <2> QED BY <2>2
<1> QED BY <1>2, <1>6, <1>8, <1>9

(***************************************************************************)
(* Whoever is filled has nobody ahead; orders that stay keep their order,  *)
(* and a newcomer gets ahead of none at its price or a better one.         *)
(***************************************************************************)
THEOREM PriorityCorrect == Spec => PriceTimePriority
<1>1. Inv /\ [Next]_vars =>
        [\A side \in OrderSide : KeepsPriority(side) /\ JoinsBehind(side)]_vars
  <2> SUFFICES ASSUME Inv, [Next]_vars, NEW side \in OrderSide
               PROVE  KeepsPriority(side) /\ JoinsBehind(side)
    OBVIOUS
  <2>1. Inv' /\ Evolution
    BY SafetyStep, StepEvolves
  <2>2. SameOrder(book'[side], book[side])
    BY StepPlaces, EvolvesInOrder DEF PlacesEvolve
  <2>3. ASSUME NEW a \in Seen, NEW b \in Seen, Ahead(side, a, b), FillChanged(b)
        PROVE  order[b].type = "MARKET"
    <3>1. order[b].type = "MARKET" \/ AtTheFront(b)
      BY <2>1, <2>3 DEF Evolution, Evolves, MayFill, FillChanged
    <3> QED BY <2>3, <3>1, FrontHasNoneAhead
  <2>4. KeepsPriority(side)
    BY <2>1, <2>2, <2>3, PriorityKept DEF KeepsPriority
  <2>5. JoinsBehind(side)
    <3>1. ASSUME NEW a \in Seen', Rests(a, side)', a \in Seen => ~Rests(a, side),
                 NEW b \in Seen, Rests(b, side), Rests(b, side)', Ahead(side, a, b)'
          PROVE  BetterPrice(side, order'[a].price, order[b].price)
      <4>1. ~Rests(a, side)
        BY <3>1, RestingOrder DEF Rests
      <4> QED BY <2>1, <2>2, <3>1, <4>1, NewcomersBehind
    <3> QED BY <3>1 DEF JoinsBehind
  <2> QED BY <2>4, <2>5
<1> QED BY <1>1, AlwaysInv, PTL DEF Spec, PriceTimePriority
=============================================================================
