------------------------- MODULE OrderBookProgress -------------------------
(***************************************************************************)
(* Proofs about OrderBook for any sets of ids, clients and orders: every   *)
(* loop under book_mutex has an iteration to take until it is done, and    *)
(* each iteration makes a measure smaller that cannot shrink for ever.     *)
(***************************************************************************)
EXTENDS OrderBookSafety, FiniteSetTheorems, WellFoundedInduction

(***************************************************************************)
(* Only finitely many prices have a level, so that a side with orders has  *)
(* a best price.                                                           *)
(***************************************************************************)
FiniteLevels == \A side \in OrderSide : IsFiniteSet(DOMAIN book[side])

LEMMA SideHasBest ==
  ASSUME NEW side \in OrderSide, DOMAIN book[side] \subseteq Int,
         IsFiniteSet(DOMAIN book[side]), DOMAIN book[side] # {}
  PROVE  \E p \in DOMAIN book[side] : IsBest(side, p)
<1> DEFINE D == DOMAIN book[side]
           Better(p) == {q \in D : BetterPrice(side, q, p)}
           T == {Better(p) : p \in D}
<1>1. IsWellFoundedOn(StrictSubsetOrdering(D), SUBSET D)
  BY FS_StrictSubsetOrderingWellFounded, FS_FiniteSubsetsOfFinite
<1>2. PICK X \in T : \A Y \in T : ~(<<Y, X>> \in StrictSubsetOrdering(D))
  <2>1. T \subseteq SUBSET D /\ T # {}
    OBVIOUS
  <2> HIDE DEF T, D
  <2> QED BY <1>1, <2>1, WFMin
<1>3. PICK p \in D : X = Better(p)
  OBVIOUS
<1>4. ASSUME NEW q \in D, BetterPrice(side, q, p) PROVE FALSE
  <2>1. Better(q) \subseteq Better(p) /\ q \in Better(p) /\ q \notin Better(q)
    BY <1>4 DEF BetterPrice
  <2>2. <<Better(q), Better(p)>> \in StrictSubsetOrdering(D)
    BY <2>1 DEF StrictSubsetOrdering
  <2> QED BY <1>2, <1>3, <2>2
<1> QED BY <1>4 DEF IsBest, BetterPrice

LEMMA LevelsStayFinite ==
  ASSUME Inv, FiniteLevels, \A side \in OrderSide : SideEvolves(side)
  PROVE  FiniteLevels'
<1> SUFFICES ASSUME NEW side \in OrderSide PROVE IsFiniteSet(DOMAIN book'[side])
  BY DEF FiniteLevels
<1>1. IsFiniteSet(DOMAIN book[side])
  BY DEF FiniteLevels
<1>2. CASE book'[side] = book[side]
  BY <1>1, <1>2
<1>3. CASE SidePushes(side)
  <2>1. PICK price \in Int, n \in Id : book'[side] = PushBack(book[side], price, n)
    BY <1>3 DEF SidePushes
  <2>2. DOMAIN book'[side] = DOMAIN book[side] \cup {price}
    BY <2>1 DEF PushBack
  <2> QED BY <1>1, <2>2, FS_AddElement
<1>4. CASE SideErases(side)
  <2>1. AtMostErases(side)
    BY <1>4 DEF SideErases, AtMostErases
  <2>2. DOMAIN book'[side] \subseteq DOMAIN book[side]
    BY <2>1, ErasesKeepEntries
  <2> QED BY <1>1, <2>2, FS_Subset
<1> QED BY <1>2, <1>3, <1>4 DEF SideEvolves

(***************************************************************************)
(* Only finitely many orders have been seen, and the iterator of           *)
(* check_stop_loss_orders is never more than one past the end.             *)
(***************************************************************************)
IteratorInReach == pc = "check" => it <= Len(stop_loss_orders) + 1

ProgressInv == FiniteLevels /\ IsFiniteSet(Seen) /\ IteratorInReach

LEMMA SeenStaysFinite ==
  ASSUME Inv, [Next]_vars, IsFiniteSet(Seen)
  PROVE  IsFiniteSet(Seen')
<1> DEFINE Grows == \E id : Seen' = Seen \cup {id}
<1>1. ASSUME NEW id, NEW o, order' = WithOrder(id, o) PROVE Seen' = Seen \cup {id}
  BY <1>1 DEF WithOrder, Seen
<1>2. ASSUME NEW id, NEW s, order' = [order EXCEPT ![id].status = s] PROVE Seen' = Seen
  BY <1>2 DEF Seen
<1>3. ASSUME NEW b, NEW s, ExecuteTrade(b, s) PROVE Seen' = Seen
  BY <1>3 DEF ExecuteTrade, Seen
<1>4. UNCHANGED order => Seen' = Seen
  BY DEF Seen
<1>5. ASSUME Call PROVE Grows \/ Seen' = Seen
  <2>1. ASSUME NEW id \in Id, NEW o \in Incoming,
               \/ AddLimitOrder(id, o) \/ AddStopOrder(id, o)
               \/ AddTriggeredStopLimit(id, o) \/ AddTriggeredStop(id, o)
               \/ ExecuteMarketOrder(id, o)
        PROVE  Grows
    BY <1>1, <2>1 DEF AddLimitOrder, AddStopOrder, AddTriggeredStopLimit, AddTriggeredStop,
         ExecuteMarketOrder, Rest, StartMarket
  <2>2. ASSUME NEW id \in Seen, CancelOrder(id)
        PROVE  Seen' = Seen
    BY <1>2, <2>2 DEF CancelOrder, CancelResting, CancelStop
  <2>3. MatchOrders \/ CheckStopLossOrders => Seen' = Seen
    BY <1>4 DEF MatchOrders, CheckStopLossOrders
  <2> HIDE DEF Grows
  <2> QED BY <1>5, <2>1, <2>2, <2>3 DEF Call
<1>6. ASSUME Step PROVE Grows \/ Seen' = Seen
  <2>1. ASSUME NEW b \in DOMAIN book["BUY"], NEW s \in DOMAIN book["SELL"],
               MatchSelfTrade(b, s) \/ MatchTrade(b, s)
        PROVE  Seen' = Seen
    BY <2>1, <1>3, <1>4 DEF MatchSelfTrade, MatchTrade
  <2>2. ASSUME NEW p \in DOMAIN book[Opposite], MarketSelfTrade(p) \/ MarketTrade(p)
        PROVE  Seen' = Seen
    BY <2>2, <1>3, <1>4 DEF MarketSelfTrade, MarketTrade
  <2>3. MatchDone \/ MarketDone \/ CheckDone => Seen' = Seen
    BY <1>2, <1>4 DEF MatchDone, MarketDone, CheckDone
  <2>4. ASSUME CheckNotReached \/ CheckTriggersStopLimit \/ CheckTriggersStop
        PROVE  Grows
    BY <1>1, <2>4 DEF CheckNotReached, CheckTriggersStopLimit, CheckTriggersStop, Rest, StartMarket
  <2> HIDE DEF Grows
  <2> QED BY <1>6, <2>1, <2>2, <2>3, <2>4 DEF Step
<1>7. UNCHANGED vars => Seen' = Seen
  BY <1>4 DEF vars
<1>8. Grows \/ Seen' = Seen
  BY <1>5, <1>6, <1>7 DEF Next
<1> QED BY <1>8, FS_AddElement

LEMMA IteratorStays ==
  ASSUME Inv, [Next]_vars, IteratorInReach
  PROVE  IteratorInReach'
<1> SUFFICES ASSUME pc' = "check" PROVE it' <= Len(stop_loss_orders') + 1
  BY DEF IteratorInReach
<1>1. /\ stop_loss_orders \in Seq(Seen) /\ it \in Nat
      /\ Len(stop_loss_orders) \in Nat /\ DOMAIN stop_loss_orders = 1..Len(stop_loss_orders)
  BY LenProperties DEF Inv, TypeInv
<1>2. ASSUME it \in DOMAIN stop_loss_orders,
             stop_loss_orders' = RemoveAt(stop_loss_orders, it), it' = it
      PROVE  it' <= Len(stop_loss_orders') + 1
  <2>1. Len(stop_loss_orders') = Len(stop_loss_orders) - 1
    BY <1>1, <1>2, RemoveAtProperties
  <2> QED BY <1>1, <1>2, <2>1
<1>3. CASE Call
  <2>1. CheckStopLossOrders
    BY <1>3 DEF Call, AddLimitOrder, AddStopOrder, AddTriggeredStopLimit, AddTriggeredStop,
         ExecuteMarketOrder, Arrives, StartMarket, CancelOrder, CancelResting, CancelStop,
         MatchOrders
  <2> QED BY <1>1, <2>1 DEF CheckStopLossOrders
<1>4. CASE Step
  <2>1. \/ MarketDone \/ CheckNotReached \/ CheckTriggersStopLimit
    BY <1>4 DEF Step, MatchSelfTrade, MatchTrade, MatchDone, MarketSelfTrade, MarketTrade,
         CheckTriggersStop, StartMarket, CheckDone
  <2>2. CASE MarketDone
    <3>1. it \in DOMAIN stop_loss_orders
      BY <2>2 DEF MarketDone, Inv, TypeInv
    <3> QED BY <1>2, <2>2, <3>1 DEF MarketDone
  <2>3. CASE CheckNotReached
    BY <1>1, <2>3 DEF CheckNotReached
  <2>4. CASE CheckTriggersStopLimit
    <3>1. it \in DOMAIN stop_loss_orders
      BY <1>1, <2>4 DEF CheckTriggersStopLimit, Inv, TypeInv
    <3> QED BY <1>2, <2>4, <3>1 DEF CheckTriggersStopLimit
  <2> QED BY <2>1, <2>2, <2>3, <2>4
<1>5. CASE UNCHANGED vars
  BY <1>5 DEF vars, IteratorInReach
<1> QED BY <1>3, <1>4, <1>5 DEF Next

LEMMA AlwaysProgressInv == Spec => []ProgressInv
<1>1. Init => ProgressInv
  BY FS_EmptySet DEF Init, ProgressInv, FiniteLevels, IteratorInReach, Seen
<1>2. Inv /\ ProgressInv /\ [Next]_vars => ProgressInv'
  BY SeenStaysFinite, IteratorStays, LevelsStayFinite, StepPlaces
     DEF ProgressInv, PlacesEvolve
<1> QED BY <1>1, <1>2, AlwaysInv, PTL DEF Spec

(***************************************************************************)
(* An operation in progress always has an iteration to take: best prices   *)
(* exist wherever a loop looks for one.                                    *)
(***************************************************************************)
NextIterationExists ==
  \A side \in OrderSide : DOMAIN book[side] # {} =>
    \E p \in DOMAIN book[side] : IsBest(side, p)

THEOREM BestPriceExists == Spec => []NextIterationExists
<1>1. Inv /\ ProgressInv => NextIterationExists
  BY SideHasBest DEF Inv, TypeInv, LevelsTyped, IsLevels, ProgressInv, FiniteLevels,
     NextIterationExists
<1> QED BY <1>1, AlwaysInv, AlwaysProgressInv, PTL
-----------------------------------------------------------------------------
(***************************************************************************)
(* What an iteration does to the set of resting orders: without a newcomer *)
(* it shrinks, and strictly when an order is erased, which is in no other  *)
(* place.                                                                  *)
(***************************************************************************)
LEMMA RestsMeansOccurs ==
  ASSUME NEW id, NEW side
  PROVE  /\ Rests(id, side) <=> Occurs(book[side], id)
         /\ Rests(id, side)' <=> Occurs(book'[side], id)
BY DEF Rests, Occurs

LEMMA RestingShrinks ==
  ASSUME Inv, Seen' = Seen, \A side \in OrderSide : AtMostErases(side)
  PROVE  Resting' \subseteq Resting
<1>1. ASSUME NEW id, NEW side \in OrderSide, Rests(id, side)' PROVE Rests(id, side)
  BY <1>1, RestsMeansOccurs, ErasesKeepEntries DEF Occurs
<1> QED BY <1>1 DEF Resting, OrderSide

LEMMA ErasedIsGone ==
  ASSUME Inv, Seen' = Seen, \A side \in OrderSide : AtMostErases(side),
         NEW side \in OrderSide, NEW p \in DOMAIN book[side],
         NEW i \in DOMAIN book[side][p], book'[side] = Erase(book[side], p, i)
  PROVE  Resting' \subseteq Resting /\ Resting' # Resting
<1> PICK x : x = book[side][p][i]
  OBVIOUS
<1>1. x \in Seen /\ Rests(x, side)
  BY RestingOrder DEF Rests
<1>2. x \in Resting
  BY <1>1 DEF Resting, OrderSide
<1>3. IsLevels(book[side], Seen)
  BY DEF Inv, TypeInv, LevelsTyped
<1>4. ASSUME NEW r \in DOMAIN book'[side], NEW j \in DOMAIN book'[side][r]
      PROVE  book'[side][r][j] # x
  <2>1. PICK k \in DOMAIN book[side][r] :
          (r = p => k # i) /\ book'[side][r][j] = book[side][r][k]
    BY <1>3, EraseProperties
  <2>2. r \in DOMAIN book[side]
    BY <1>3, EraseProperties
  <2> QED BY <2>1, <2>2, OnePlace
<1>5. ~Rests(x, side)'
  BY <1>4 DEF Rests
<1>6. ASSUME NEW t \in OrderSide, t # side PROVE ~Rests(x, t)'
  <2>1. SUFFICES ASSUME NEW r \in DOMAIN book'[t], NEW j \in DOMAIN book'[t][r],
                        book'[t][r][j] = x
                 PROVE  FALSE
    BY DEF Rests
  <2>2. r \in DOMAIN book[t]
    BY <2>1, ErasesKeepEntries
  <2>3. PICK k \in DOMAIN book[t][r] : book[t][r][k] = x
    BY <2>1, ErasesKeepEntries
  <2>4. book[side][p][i] = book[t][r][k]
    BY <2>3
  <2> QED BY <1>6, <2>2, <2>4, OnePlace
<1>7. x \notin Resting'
  BY <1>5, <1>6 DEF Resting, OrderSide
<1> QED BY <1>2, <1>7, RestingShrinks

(***************************************************************************)
(* One iteration of each loop.                                             *)
(***************************************************************************)
LEMMA MatchGoesDown ==
  ASSUME Inv, NEW bp \in DOMAIN book["BUY"], NEW sp \in DOMAIN book["SELL"],
         MatchSelfTrade(bp, sp) \/ MatchTrade(bp, sp)
  PROVE  GoesDown
<1> DEFINE b == Foremost("BUY", bp)
           s == Foremost("SELL", sp)
<1>1. /\ 1 \in DOMAIN book["BUY"][bp] /\ b = book["BUY"][bp][1]
      /\ 1 \in DOMAIN book["SELL"][sp] /\ s = book["SELL"][sp][1]
  BY ForemostTyped DEF Inv, Foremost, OrderSide
<1>2. /\ b \in Seen /\ order[b] \in Order /\ RestingAs(order[b], "BUY", bp)
      /\ s \in Seen /\ order[s] \in Order /\ RestingAs(order[s], "SELL", sp)
  BY <1>1, RestingOrder DEF OrderSide
<1>3. StopsAhead' = StopsAhead /\ DOMAIN book = OrderSide
  BY DEF MatchSelfTrade, MatchTrade, StopsAhead, Inv, TypeInv
<1>4. SUFFICES /\ Seen' = Seen /\ \A side \in OrderSide : AtMostErases(side)
               /\ \/ book'["BUY"] = Erase(book["BUY"], bp, 1)
                  \/ book'["SELL"] = Erase(book["SELL"], sp, 1)
  BY <1>1, <1>3, ErasedIsGone DEF GoesDown, OrderSide
<1>5. CASE MatchSelfTrade(bp, sp)
  <2>1. Seen' = Seen
    BY <1>5 DEF MatchSelfTrade, Seen
  <2>2. \/ book' = [book EXCEPT !["BUY"] = Erase(book["BUY"], bp, 1)]
        \/ book' = [book EXCEPT !["SELL"] = Erase(book["SELL"], sp, 1)]
    BY <1>5 DEF MatchSelfTrade
  <2> QED BY <1>1, <1>3, <2>1, <2>2 DEF AtMostErases, OrderSide
<1>6. CASE MatchTrade(bp, sp)
  <2> DEFINE q == TradeQuantity(b, s)
  <2>1. /\ ExecuteTrade(b, s)
        /\ book'["BUY"] = LevelsAfterTrade("BUY", bp, order[b], q)
        /\ book'["SELL"] = LevelsAfterTrade("SELL", sp, order[s], q)
    BY <1>6 DEF MatchTrade, OrderSide
  <2>2. /\ b # s /\ order[b].status = "PENDING" /\ order[s].status = "PENDING"
    BY <1>2 DEF RestingAs
  <2>3. Seen' = Seen /\ (q = Remaining(order[b]) \/ q = Remaining(order[s]))
    BY <1>2, <2>1, <2>2, TradeEffect
  <2> HIDE DEF q, b, s
  <2>4. /\ q = Remaining(order[b]) => order[b].filled_quantity + q >= order[b].quantity
        /\ q = Remaining(order[s]) => order[s].filled_quantity + q >= order[s].quantity
    BY <1>2 DEF Remaining, Order
  <2>5. \/ book'["BUY"] = Erase(book["BUY"], bp, 1)
        \/ book'["SELL"] = Erase(book["SELL"], sp, 1)
    BY <2>1, <2>3, <2>4 DEF LevelsAfterTrade
  <2>6. AtMostErases("BUY") /\ AtMostErases("SELL")
    BY <1>1, <2>1 DEF LevelsAfterTrade, AtMostErases
  <2> QED BY <2>3, <2>5, <2>6 DEF OrderSide
<1> QED BY <1>5, <1>6

LEMMA MarketGoesDown ==
  ASSUME Inv, pc = "market", NEW p \in DOMAIN book[Opposite],
         MarketSelfTrade(p) \/ MarketTrade(p)
  PROVE  GoesDown
<1> DEFINE m == market_order
           o == Foremost(Opposite, p)
<1>1. /\ m \in Seen /\ order[m] \in Order /\ order[m].type = "MARKET"
      /\ order[m].status = "PENDING" /\ Opposite \in OrderSide
      /\ total_executed = order[m].filled_quantity
  BY MarketOrder DEF MarketSelfTrade, MarketTrade
<1>2. /\ 1 \in DOMAIN book[Opposite][p] /\ o = book[Opposite][p][1]
  BY <1>1, ForemostTyped DEF Inv, Foremost
<1>3. o \in Seen /\ order[o] \in Order /\ RestingAs(order[o], Opposite, p)
  BY <1>1, <1>2, RestingOrder
<1>4. /\ StopsAhead' = StopsAhead /\ DOMAIN book = OrderSide
      /\ pc' = "market" /\ market_order' = m /\ order \in [Seen -> Order]
  BY DEF MarketSelfTrade, MarketTrade, StopsAhead, Inv, TypeInv
<1>5. CASE MarketSelfTrade(p)
  <2>1. /\ Seen' = Seen
        /\ book' = [book EXCEPT ![Opposite] = Erase(book[Opposite], p, 1)]
    BY <1>5 DEF MarketSelfTrade, Seen
  <2>2. \A side \in OrderSide : AtMostErases(side)
    BY <1>2, <1>4, <2>1 DEF AtMostErases
  <2>3. book'[Opposite] = Erase(book[Opposite], p, 1)
    BY <1>1, <1>4, <2>1
  <2> QED BY <1>1, <1>2, <1>4, <2>1, <2>2, <2>3, ErasedIsGone DEF GoesDown
<1>6. CASE MarketTrade(p)
  <2>1. PICK b \in Seen, s \in Seen :
          /\ {b, s} = {o, m} /\ b # s /\ ExecuteTrade(b, s)
          /\ book' = [book EXCEPT ![Opposite] =
                        LevelsAfterTrade(Opposite, p, order[o], TradeQuantity(b, s))]
    <3> DEFINE b == IF Opposite = "BUY" THEN o ELSE m
               s == IF Opposite = "BUY" THEN m ELSE o
    <3>1. /\ ExecuteTrade(b, s)
          /\ book' = [book EXCEPT ![Opposite] =
                        LevelsAfterTrade(Opposite, p, order[o], TradeQuantity(b, s))]
      BY <1>6 DEF MarketTrade
    <3>2. b \in Seen /\ s \in Seen /\ {b, s} = {o, m} /\ b # s
      BY <1>1, <1>3 DEF RestingAs
    <3> HIDE DEF b, s
    <3> QED BY <3>1, <3>2
  <2>2. total_executed' = total_executed +
          (IF Remaining(order[o]) <= MarketRemaining THEN Remaining(order[o])
                                                     ELSE MarketRemaining)
    BY <1>6 DEF MarketTrade
  <2>3. MarketRemaining > 0
    BY <1>6 DEF MarketTrade
  <2> HIDE DEF o, m
  <2>4. Seen' = Seen /\ order'[m].quantity = order[m].quantity
    <3>1. /\ Seen' = Seen /\ order'[m] = Filled(order[m], TradeQuantity(b, s))
      BY <1>1, <1>3, <2>1, TradeEffect DEF RestingAs
    <3> QED BY <1>1, <3>1 DEF Filled, Order
  <2>5. \A side \in OrderSide : AtMostErases(side)
    BY <1>2, <1>4, <2>1 DEF AtMostErases, LevelsAfterTrade
  <2>6. Work' < Work
    <3>1. MarketRemaining' = order[m].quantity - total_executed'
      BY <1>4, <2>4 DEF MarketRemaining
    <3>2. /\ order[m].quantity \in Int /\ total_executed \in Int
          /\ MarketRemaining = order[m].quantity - total_executed
      BY <1>1 DEF MarketRemaining, Order, m, Inv, TypeInv
    <3>3. Remaining(order[o]) \in Int /\ Remaining(order[o]) > 0
      BY <1>3 DEF RestingAs, Remaining, Order
    <3>4. MarketRemaining' < MarketRemaining
      BY <2>2, <2>3, <3>1, <3>2, <3>3
    <3>5. Work = MarketRemaining /\ Work' = MarketRemaining'
      BY <1>4 DEF Work
    <3> QED BY <3>4, <3>5
  <2> QED BY <1>4, <2>4, <2>5, <2>6, RestingShrinks DEF GoesDown
<1> QED BY <1>5, <1>6

LEMMA PassGoesDown ==
  ASSUME Inv, \/ MarketDone /\ it > 0
              \/ CheckNotReached \/ CheckTriggersStopLimit \/ CheckTriggersStop
  PROVE  GoesDown
<1>1. /\ stop_loss_orders \in Seq(Seen) /\ it \in Nat
      /\ Len(stop_loss_orders) \in Nat /\ DOMAIN stop_loss_orders = 1..Len(stop_loss_orders)
  BY LenProperties DEF Inv, TypeInv
<1>2. ASSUME it \in DOMAIN stop_loss_orders,
             stop_loss_orders' = RemoveAt(stop_loss_orders, it), it' = it
      PROVE  GoesDown
  <2>1. Len(stop_loss_orders') = Len(stop_loss_orders) - 1
    BY <1>1, <1>2, RemoveAtProperties
  <2>2. StopsAhead' < StopsAhead
    BY <1>1, <1>2, <2>1 DEF StopsAhead
  <2> QED BY <2>2 DEF GoesDown
<1>3. CASE MarketDone /\ it > 0
  <2>1. it \in DOMAIN stop_loss_orders
    BY <1>3 DEF MarketDone, Inv, TypeInv
  <2> QED BY <1>2, <1>3, <2>1 DEF MarketDone
<1>4. CASE CheckNotReached
  BY <1>1, <1>4 DEF CheckNotReached, GoesDown, StopsAhead
<1>5. CASE CheckTriggersStopLimit
  <2>1. it \in DOMAIN stop_loss_orders
    BY <1>1, <1>5 DEF CheckTriggersStopLimit, Inv, TypeInv
  <2> QED BY <1>2, <1>5, <2>1 DEF CheckTriggersStopLimit
<1>6. CASE CheckTriggersStop
  <2> DEFINE id == stop_loss_orders[it]
  <2>1. /\ pc = "check" /\ it <= Len(stop_loss_orders)
        /\ order' = WithOrder(id, AsMarket(Current)) /\ market_order' = id
        /\ total_executed' = 0 /\ pc' = "market"
        /\ UNCHANGED <<book, stop_loss_orders, it>>
    BY <1>6 DEF CheckTriggersStop, StartMarket
  <2>2. /\ it \in DOMAIN stop_loss_orders /\ id \in Seen
        /\ SameState(Current, order[id]) /\ Current \in Order
    BY <2>1, CurrentOrder DEF Untouched
  <2>3. Current.quantity = order[id].quantity
    BY <2>2 DEF Current, UpdateTrailingStop, Order, Inv, TypeInv
  <2> HIDE DEF id
  <2>4. Seen' = Seen /\ order'[id].quantity = order[id].quantity
    <3>1. Seen' = Seen /\ order'[id] = AsMarket(Current)
      BY <2>1, <2>2 DEF WithOrder, Seen
    <3> QED BY <2>2, <2>3, <3>1 DEF AsMarket, Order
  <2>5. Resting' = Resting
    BY <2>1, <2>4 DEF Resting, Rests
  <2>6. Work = order[id].quantity + 1
    BY <2>1, <2>2 DEF Work, id
  <2>7. Work' = order[id].quantity
    <3>1. order[id].quantity \in Int
      BY <2>2 DEF Inv, TypeInv, Order
    <3> QED BY <2>1, <2>4, <3>1 DEF Work, MarketRemaining
  <2>8. order[id].quantity \in Int
    BY <2>2 DEF Inv, TypeInv, Order
  <2> QED BY <2>1, <2>5, <2>6, <2>7, <2>8 DEF GoesDown, StopsAhead
<1> QED BY <1>3, <1>4, <1>5, <1>6

(***************************************************************************)
(* Every iteration of every loop under book_mutex gets nearer to its end.  *)
(***************************************************************************)
LEMMA StepGoesDown ==
  ASSUME Inv, Next, pc # "idle", pc' # "idle"
  PROVE  GoesDown
<1>1. Step
  BY DEF Next, Call, AddLimitOrder, AddStopOrder, AddTriggeredStopLimit, AddTriggeredStop,
     ExecuteMarketOrder, Arrives, CancelOrder, CancelResting, CancelStop, MatchOrders,
     CheckStopLossOrders
<1>2. ~MatchDone /\ ~CheckDone
  BY DEF MatchDone, CheckDone
<1>3. MarketDone => it > 0
  BY DEF MarketDone
<1> QED BY <1>1, <1>2, <1>3, MatchGoesDown, MarketGoesDown, PassGoesDown DEF Step

THEOREM IterationsProgress == Spec => IterationsConsume
<1>1. Inv /\ [Next]_vars => [pc # "idle" /\ pc' # "idle" => GoesDown]_vars
  BY StepGoesDown
<1> QED BY <1>1, AlwaysInv, PTL DEF Spec, IterationsConsume
(***************************************************************************)
(* Such steps cannot go on for ever: what they make smaller is, in order,  *)
(* the number of stop orders ahead of the pass, the set of resting orders, *)
(* and the work left of the execution, and that order is well-founded.     *)
(***************************************************************************)
Measures == Nat \X (FiniteSubsetsOf(Id) \X Nat)

Measure == <<StopsAhead, <<Resting, Work>>>>

RestingOrWork ==
  LexPairOrdering(StrictSubsetOrdering(Id), OpToRel(<, Nat), FiniteSubsetsOf(Id), Nat)

Nearer == LexPairOrdering(OpToRel(<, Nat), RestingOrWork, Nat, FiniteSubsetsOf(Id) \X Nat)

LEMMA NearerIsWellFounded == IsWellFoundedOn(Nearer, Measures)
<1>1. IsWellFoundedOn(OpToRel(<, Nat), Nat)
  BY NatLessThanWellFounded
<1>2. IsWellFoundedOn(StrictSubsetOrdering(Id), FiniteSubsetsOf(Id))
  BY FS_StrictSubsetOrderingWellFounded
<1>3. IsWellFoundedOn(RestingOrWork, FiniteSubsetsOf(Id) \X Nat)
  BY <1>1, <1>2, WFLexPairOrdering DEF RestingOrWork
<1> QED BY <1>1, <1>3, WFLexPairOrdering DEF Nearer, Measures

LEMMA MeasureTyped ==
  ASSUME Inv, ProgressInv
  PROVE  Measure \in Measures
<1>1. /\ stop_loss_orders \in Seq(Seen) /\ it \in Nat
      /\ Len(stop_loss_orders) \in Nat /\ DOMAIN stop_loss_orders = 1..Len(stop_loss_orders)
      /\ order \in [Seen -> Order] /\ Seen \subseteq Id
  BY LenProperties DEF Inv, TypeInv
<1>2. StopsAhead \in Nat
  <2>1. it <= Len(stop_loss_orders) + 1
    BY <1>1 DEF Inv, TypeInv, ProgressInv, IteratorInReach
  <2> QED BY <1>1, <2>1 DEF StopsAhead
<1>3. Resting \in FiniteSubsetsOf(Id)
  <2>1. Resting \subseteq Seen
    BY DEF Resting
  <2>2. IsFiniteSet(Resting)
    BY <2>1, FS_Subset DEF ProgressInv
  <2> QED BY <1>1, <2>1, <2>2 DEF FiniteSubsetsOf
<1>4. Work \in Nat
  <2>1. CASE pc = "market"
    <3>1. /\ MarketRemaining = Remaining(order[market_order])
          /\ order[market_order] \in Order /\ StatusOK(order[market_order])
      BY <2>1, MarketOrder
    <3>2. Remaining(order[market_order]) \in Nat
      BY <3>1 DEF Remaining, StatusOK, Order
    <3> QED BY <2>1, <3>1, <3>2 DEF Work
  <2>2. CASE pc # "market" /\ pc = "check" /\ it \in DOMAIN stop_loss_orders
    <3>1. order[stop_loss_orders[it]] \in Order
      BY <2>2, DormantOrder
    <3>2. order[stop_loss_orders[it]].quantity + 1 \in Nat
      BY <3>1 DEF Order
    <3> QED BY <2>2, <3>2 DEF Work
  <2>3. CASE pc # "market" /\ ~(pc = "check" /\ it \in DOMAIN stop_loss_orders)
    BY <2>3 DEF Work
  <2> QED BY <2>1, <2>2, <2>3
<1> QED BY <1>2, <1>3, <1>4 DEF Measure, Measures

LEMMA GoesDownIsNearer ==
  ASSUME Measure \in Measures, Measure' \in Measures, GoesDown
  PROVE  <<Measure', Measure>> \in Nearer
<1>1. /\ StopsAhead \in Nat /\ Resting \in FiniteSubsetsOf(Id) /\ Work \in Nat
      /\ StopsAhead' \in Nat /\ Resting' \in FiniteSubsetsOf(Id) /\ Work' \in Nat
  BY DEF Measure, Measures
<1>2. CASE StopsAhead' < StopsAhead
  <2>1. <<StopsAhead', StopsAhead>> \in OpToRel(<, Nat)
    BY <1>1, <1>2 DEF OpToRel
  <2> QED BY <2>1 DEF Nearer, LexPairOrdering, Measure, Measures
<1>3. CASE /\ StopsAhead' = StopsAhead
           /\ <<<<Resting', Work'>>, <<Resting, Work>>>> \in RestingOrWork
  BY <1>3 DEF Nearer, LexPairOrdering, Measure, Measures
<1>4. ASSUME Resting' \subseteq Resting, Resting' # Resting
      PROVE  <<<<Resting', Work'>>, <<Resting, Work>>>> \in RestingOrWork
  <2>1. <<Resting', Resting>> \in StrictSubsetOrdering(Id)
    BY <1>1, <1>4 DEF StrictSubsetOrdering, FiniteSubsetsOf
  <2> QED BY <1>1, <2>1 DEF RestingOrWork, LexPairOrdering
<1>5. ASSUME Resting' = Resting, Work' < Work
      PROVE  <<<<Resting', Work'>>, <<Resting, Work>>>> \in RestingOrWork
  <2>1. <<Work', Work>> \in OpToRel(<, Nat)
    BY <1>1, <1>5 DEF OpToRel
  <2> QED BY <1>1, <1>5, <2>1 DEF RestingOrWork, LexPairOrdering
<1> QED BY <1>2, <1>3, <1>4, <1>5 DEF GoesDown

\* With BestPriceExists: an operation that keeps running returns.
THEOREM OperationsTerminate ==
  /\ IsWellFoundedOn(Nearer, Measures)
  /\ Spec => [](Measure \in Measures)
  /\ Spec => [][pc # "idle" /\ pc' # "idle" => <<Measure', Measure>> \in Nearer]_vars
<1>1. Spec => [](Measure \in Measures)
  <2>1. Inv /\ ProgressInv => Measure \in Measures
    BY MeasureTyped
  <2> QED BY <2>1, AlwaysInv, AlwaysProgressInv, PTL
<1>2. Spec => [][pc # "idle" /\ pc' # "idle" => <<Measure', Measure>> \in Nearer]_vars
  <2>1. (Measure \in Measures) /\ (Measure \in Measures)'
        /\ [pc # "idle" /\ pc' # "idle" => GoesDown]_vars
          => [pc # "idle" /\ pc' # "idle" => <<Measure', Measure>> \in Nearer]_vars
    BY GoesDownIsNearer
  <2> QED BY <1>1, <2>1, IterationsProgress, PTL DEF IterationsConsume
<1> QED BY <1>1, <1>2, NearerIsWellFounded
=============================================================================
