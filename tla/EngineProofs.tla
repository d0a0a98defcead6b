---------------------------- MODULE EngineProofs ----------------------------
(***************************************************************************)
(* Proofs about MatchingEngine for any sets of clients, symbols, ids and   *)
(* submissions: whatever the engine does to the book is an operation of    *)
(* the book, a cancelled VWAP order leaves nothing behind, matching is     *)
(* always scheduled where it is due, and every order keeps its owner and   *)
(* every VWAP order its task.                                              *)
(***************************************************************************)
EXTENDS EngineProperties, OrderBookProgress

USE DEF results

(***************************************************************************)
(* What the operations of the book do to the orders that are in it: a loop *)
(* moves some and drops some, a cancel drops one, an arrival adds one.     *)
(***************************************************************************)
NothingAdded == \A x : InBook(x)' => InBook(x)

LEMMA ErasesAddNothing ==
  ASSUME Inv, \A side \in OrderSide : AtMostErases(side),
         UNCHANGED stop_loss_orders
         \/ \E i \in DOMAIN stop_loss_orders :
              stop_loss_orders' = RemoveAt(stop_loss_orders, i)
  PROVE  NothingAdded
<1>1. ASSUME NEW side \in OrderSide, NEW x, Occurs(book'[side], x)
      PROVE  Occurs(book[side], x)
  BY <1>1, ErasesKeepEntries DEF Occurs
<1>2. ASSUME NEW j \in DOMAIN stop_loss_orders'
      PROVE  \E i \in DOMAIN stop_loss_orders : stop_loss_orders[i] = stop_loss_orders'[j]
  <2>1. stop_loss_orders \in Seq(Seen)
    BY DEF Inv, TypeInv
  <2>2. CASE UNCHANGED stop_loss_orders
    BY <2>2
  <2>3. ASSUME NEW i \in DOMAIN stop_loss_orders,
               stop_loss_orders' = RemoveAt(stop_loss_orders, i)
        PROVE  \E k \in DOMAIN stop_loss_orders : stop_loss_orders[k] = stop_loss_orders'[j]
    BY <2>1, <2>3, RemoveAtElements
  <2> QED BY <2>2, <2>3
<1> QED BY <1>1, <1>2 DEF NothingAdded, InBook, Occurs

LEMMA StopRests ==
  ASSUME Inv, CheckTriggersStopLimit
  PROVE  Seen' = Seen /\ NothingAdded
<1> DEFINE id == stop_loss_orders[it]
           o  == AsLimit(Current)
<1>1. /\ it \in 1..Len(stop_loss_orders) /\ stop_loss_orders \in Seq(Seen)
      /\ id \in Seen /\ o \in Order
  BY CurrentTyped DEF CheckTriggersStopLimit, Inv
<1>2. /\ order' = WithOrder(id, o)
      /\ book' = [book EXCEPT ![o.side] = PushBack(@, o.price, id)]
      /\ stop_loss_orders' = RemoveAt(stop_loss_orders, it)
  BY DEF CheckTriggersStopLimit, Rest
<1>3. it \in DOMAIN stop_loss_orders
  BY <1>1, LenProperties
<1> HIDE DEF o
<1>4. Seen' = Seen
  BY <1>1, <1>2 DEF WithOrder, Seen
<1>5. ASSUME NEW side \in OrderSide, NEW x, Occurs(book'[side], x), x # id
      PROVE  Occurs(book[side], x)
  <2>1. o.side \in OrderSide /\ o.price \in Int /\ DOMAIN book = OrderSide
        /\ IsLevels(book[side], Seen)
    BY <1>1 DEF Order, Inv, TypeInv, LevelsTyped
  <2>2. CASE side = o.side
    <3>1. book'[side] = PushBack(book[side], o.price, id)
      BY <1>2, <2>1, <2>2
    <3> HIDE DEF id
    <3> QED BY <3>1, <2>1, <1>1, <1>5, PushBackProperties DEF Occurs
  <2>3. CASE side # o.side
    BY <1>2, <2>1, <2>3, <1>5
  <2> QED BY <2>2, <2>3
<1>6. ASSUME NEW j \in DOMAIN stop_loss_orders'
      PROVE  \E i \in DOMAIN stop_loss_orders : stop_loss_orders[i] = stop_loss_orders'[j]
  BY <1>1, <1>2, <1>3, RemoveAtElements
<1>7. InBook(id)
  BY <1>3 DEF InBook
<1> QED BY <1>4, <1>5, <1>6, <1>7 DEF NothingAdded, InBook, Occurs

LEMMA StepKeepsPlaces ==
  ASSUME Inv, Step
  PROVE  Seen' = Seen /\ NothingAdded
<1>0. DOMAIN book = OrderSide /\ order \in [Seen -> Order] /\ stop_loss_orders \in Seq(Seen)
  BY DEF Inv, TypeInv
<1>1. ASSUME NEW bp \in DOMAIN book["BUY"], NEW sp \in DOMAIN book["SELL"],
             MatchSelfTrade(bp, sp) \/ MatchTrade(bp, sp)
      PROVE  Seen' = Seen /\ NothingAdded
  <2>1. 1 \in DOMAIN book["BUY"][bp] /\ 1 \in DOMAIN book["SELL"][sp]
    BY ForemostTyped DEF Inv, OrderSide
  <2>2. \A side \in OrderSide : AtMostErases(side)
    BY <1>0, <1>1, <2>1 DEF MatchSelfTrade, MatchTrade, LevelsAfterTrade, AtMostErases,
         OrderSide
  <2>3. Seen' = Seen /\ UNCHANGED stop_loss_orders
    BY <1>1 DEF MatchSelfTrade, MatchTrade, ExecuteTrade, Seen
  <2> QED BY <2>2, <2>3, ErasesAddNothing
<1>2. ASSUME pc = "market", NEW p \in DOMAIN book[Opposite],
             MarketSelfTrade(p) \/ MarketTrade(p)
      PROVE  Seen' = Seen /\ NothingAdded
  <2>1. Opposite \in OrderSide /\ 1 \in DOMAIN book[Opposite][p]
    BY <1>2, OppositeTyped, ForemostTyped DEF Inv
  <2>2. \A side \in OrderSide : AtMostErases(side)
    <3>1. CASE MarketSelfTrade(p)
      BY <1>0, <3>1, <2>1 DEF MarketSelfTrade, AtMostErases
    <3>2. CASE MarketTrade(p)
      <4>1. PICK o, q : book' = [book EXCEPT ![Opposite] = LevelsAfterTrade(Opposite, p, o, q)]
        BY <3>2 DEF MarketTrade
      <4> QED BY <4>1, <1>0, <2>1 DEF LevelsAfterTrade, AtMostErases
    <3> QED BY <1>2, <3>1, <3>2
  <2>3. Seen' = Seen /\ UNCHANGED stop_loss_orders
    BY <1>2 DEF MarketSelfTrade, MarketTrade, ExecuteTrade, Seen
  <2> QED BY <2>2, <2>3, ErasesAddNothing
<1>3. CASE MatchDone \/ CheckDone
  BY <1>3 DEF MatchDone, CheckDone, NothingAdded, InBook, Seen
<1>4. CASE MarketDone
  <2>1. Seen' = Seen /\ UNCHANGED book
    BY <1>4 DEF MarketDone, Seen
  <2>2. \/ UNCHANGED stop_loss_orders
        \/ it \in DOMAIN stop_loss_orders /\ stop_loss_orders' = RemoveAt(stop_loss_orders, it)
    BY <1>4 DEF MarketDone, Inv, TypeInv
  <2> QED BY <2>1, <2>2, ErasesAddNothing DEF AtMostErases
<1>5. CASE CheckNotReached \/ CheckTriggersStop
  <2>1. /\ stop_loss_orders[it] \in Seen
    BY <1>5, CurrentTyped DEF CheckNotReached, CheckTriggersStop, Inv
  <2>2. UNCHANGED <<book, stop_loss_orders>>
    BY <1>5 DEF CheckNotReached, CheckTriggersStop
  <2>3. Seen' = Seen
    BY <1>5, <2>1 DEF CheckNotReached, CheckTriggersStop, StartMarket, WithOrder, Seen
  <2> QED BY <2>2, <2>3 DEF NothingAdded, InBook
<1>6. CASE CheckTriggersStopLimit
  BY <1>6, StopRests
<1> QED BY <1>1, <1>2, <1>3, <1>4, <1>5, <1>6 DEF Step

LEMMA CancelLeavesNothing ==
  ASSUME Inv, NEW id, CancelOrder(id)
  PROVE  Seen' = Seen /\ NothingAdded /\ ~InBook(id)'
<1>0. DOMAIN book = OrderSide /\ order \in [Seen -> Order] /\ stop_loss_orders \in Seq(Seen)
  BY DEF Inv, TypeInv
<1>1. ASSUME NEW side \in OrderSide, NEW p \in DOMAIN book[side],
             NEW i \in DOMAIN book[side][p], CancelResting(id, side, p, i)
      PROVE  Seen' = Seen /\ NothingAdded /\ ~InBook(id)'
  <2>1. /\ book[side][p][i] = id /\ UNCHANGED stop_loss_orders /\ pc = "idle"
        /\ book' = [book EXCEPT ![side] = Erase(@, p, i)] /\ Seen' = Seen
    BY <1>1 DEF CancelResting, Seen
  <2>2. NothingAdded
    <3>1. \A s \in OrderSide : AtMostErases(s)
      BY <2>1, <1>0 DEF AtMostErases
    <3> QED BY <3>1, <2>1, ErasesAddNothing
  <2>3. ~Occurs(book'[side], id)
    <3>1. IsLevels(book[side], Seen)
      BY DEF Inv, TypeInv, LevelsTyped
    <3>2. book'[side] = Erase(book[side], p, i)
      BY <2>1, <1>0
    <3>3. ASSUME NEW r \in DOMAIN book'[side], NEW j \in DOMAIN book'[side][r],
                 book'[side][r][j] = id
          PROVE  FALSE
      <4>1. PICK k \in DOMAIN book[side][r] :
              (r = p => k # i) /\ book'[side][r][j] = book[side][r][k]
        BY <3>1, <3>2, EraseProperties
      <4>2. r \in DOMAIN book[side]
        BY <3>1, <3>2, EraseProperties
      <4>3. book[side][r][k] = book[side][p][i]
        BY <4>1, <3>3, <2>1
      <4>4. r = p /\ k = i
        BY <4>2, <4>3, OnePlace
      <4> QED BY <4>1, <4>4
    <3> QED BY <3>3 DEF Occurs
  <2>4. ASSUME NEW s \in OrderSide, s # side PROVE ~Occurs(book'[s], id)
    BY <2>1, <2>4, <1>0, OnePlace DEF Occurs
  <2>5. ASSUME NEW j \in DOMAIN stop_loss_orders, stop_loss_orders[j] = id PROVE FALSE
    <3>1. order[id].type = "LIMIT"
      BY <2>1, RestingOrder DEF RestingAs
    <3>2. IsStop(order[id])
      BY <2>1, <2>5, DormantOrder DEF ExecutingAt
    <3> QED BY <3>1, <3>2 DEF IsStop, StopType
  <2> QED BY <2>1, <2>2, <2>3, <2>4, <2>5 DEF InBook, Occurs
<1>2. ASSUME NEW i \in DOMAIN stop_loss_orders, CancelStop(id, i)
      PROVE  Seen' = Seen /\ NothingAdded /\ ~InBook(id)'
  <2>1. /\ stop_loss_orders[i] = id /\ UNCHANGED book /\ pc = "idle"
        /\ stop_loss_orders' = RemoveAt(stop_loss_orders, i) /\ Seen' = Seen
    BY <1>2 DEF CancelStop, Seen
  <2>2. NothingAdded
    BY <2>1, ErasesAddNothing DEF AtMostErases
  <2>3. \A j \in DOMAIN stop_loss_orders' : stop_loss_orders'[j] # id
    <3>1. ASSUME NEW j \in DOMAIN stop_loss_orders', stop_loss_orders'[j] = id PROVE FALSE
      <4>1. PICK k \in DOMAIN stop_loss_orders :
              k # i /\ stop_loss_orders'[j] = stop_loss_orders[k]
        BY <1>0, <2>1, RemoveAtElements
      <4> QED BY <4>1, <3>1, <2>1 DEF Inv, StopsAreDormant, IsInjectiveSeq
    <3> QED BY <3>1
  <2>4. ASSUME NEW side \in OrderSide, NEW p \in DOMAIN book[side],
               NEW j \in DOMAIN book[side][p], book[side][p][j] = id
        PROVE  FALSE
    <3>1. order[id].type = "LIMIT"
      BY <2>4, RestingOrder DEF RestingAs
    <3>2. IsStop(order[id])
      BY <2>1, DormantOrder DEF ExecutingAt
    <3> QED BY <3>1, <3>2 DEF IsStop, StopType
  <2> QED BY <2>1, <2>2, <2>3, <2>4 DEF InBook
<1> QED BY <1>0, <1>1, <1>2 DEF CancelOrder

LEMMA ArrivalAddsOne ==
  ASSUME Inv, NEW id \in Id, NEW o \in Incoming,
         \/ AddLimitOrder(id, o)
         \/ AddStopOrder(id, o)
         \/ AddTriggeredStopLimit(id, o)
         \/ AddTriggeredStop(id, o)
         \/ ExecuteMarketOrder(id, o)
  PROVE  id \notin Seen /\ Seen' = Seen \cup {id} /\ \A x \in Seen : InBook(x)' => InBook(x)
<1>0. DOMAIN book = OrderSide /\ stop_loss_orders \in Seq(Seen)
  BY DEF Inv, TypeInv
<1>1. id \notin Seen
  BY DEF AddLimitOrder, AddStopOrder, AddTriggeredStopLimit, AddTriggeredStop,
       ExecuteMarketOrder, Arrives
<1>2. ASSUME NEW n, order' = WithOrder(id, n) PROVE Seen' = Seen \cup {id}
  BY <1>2 DEF WithOrder, Seen
<1>3. CASE AddStopOrder(id, o)
  <2>1. /\ stop_loss_orders' = Append(stop_loss_orders, id) /\ UNCHANGED book
        /\ Seen' = Seen \cup {id}
    BY <1>2, <1>3 DEF AddStopOrder
  <2>2. \A j \in DOMAIN stop_loss_orders' :
          stop_loss_orders'[j] # id => /\ j \in DOMAIN stop_loss_orders
                                       /\ stop_loss_orders'[j] = stop_loss_orders[j]
    BY <1>0, <2>1, AppendProperties, LenProperties
  <2> QED BY <1>1, <2>1, <2>2 DEF InBook
<1>4. CASE AddTriggeredStop(id, o) \/ ExecuteMarketOrder(id, o)
  <2>1. UNCHANGED <<book, stop_loss_orders>> /\ Seen' = Seen \cup {id}
    BY <1>2, <1>4 DEF AddTriggeredStop, ExecuteMarketOrder, StartMarket
  <2> QED BY <1>1, <2>1 DEF InBook
<1>5. ASSUME NEW n, n.side \in OrderSide, n.price \in Int, Rest(id, n),
             UNCHANGED stop_loss_orders
      PROVE  Seen' = Seen \cup {id} /\ \A x \in Seen : InBook(x)' => InBook(x)
  <2>1. /\ Seen' = Seen \cup {id}
        /\ book' = [book EXCEPT ![n.side] = PushBack(@, n.price, id)]
    BY <1>2, <1>5 DEF Rest
  <2>2. ASSUME NEW side \in OrderSide, NEW x \in Seen, Occurs(book'[side], x)
        PROVE  Occurs(book[side], x)
    <3>1. IsLevels(book[side], Seen')
      BY <2>1, LevelsMonotonic DEF Inv, TypeInv, LevelsTyped
    <3>2. CASE side = n.side
      <4>1. book'[side] = PushBack(book[side], n.price, id) /\ id \in Seen'
        BY <2>1, <1>0, <3>2
      <4> QED BY <3>1, <4>1, <1>1, <1>5, <2>2, PushBackProperties DEF Occurs
    <3>3. CASE side # n.side
      BY <2>1, <1>0, <3>3, <2>2
    <3> QED BY <3>2, <3>3
  <2> QED BY <1>5, <2>1, <2>2 DEF InBook, Occurs
<1>6. CASE AddLimitOrder(id, o) \/ AddTriggeredStopLimit(id, o)
  <2>1. o \in Order
    BY IncomingAssumption DEF IsAdmissible, IsFresh
  <2>2. PICK n : /\ n.side \in OrderSide /\ n.price \in Int
                 /\ Rest(id, n) /\ UNCHANGED stop_loss_orders
    <3> DEFINE stamped == [o EXCEPT !.timestamp = clock']
    <3>1. /\ stamped.side \in OrderSide /\ stamped.price \in Int
          /\ AsLimit(stamped).side \in OrderSide /\ AsLimit(stamped).price \in Int
      BY <2>1 DEF Order, AsLimit
    <3>2. Rest(id, stamped) \/ Rest(id, AsLimit(stamped))
      BY <1>6 DEF AddLimitOrder, AddTriggeredStopLimit
    <3>3. UNCHANGED stop_loss_orders
      BY <1>6 DEF AddLimitOrder, AddTriggeredStopLimit
    <3> HIDE DEF stamped
    <3> QED BY <3>1, <3>2, <3>3
  <2> QED BY <1>1, <1>5, <2>2
<1> QED BY <1>1, <1>3, <1>4, <1>6
-----------------------------------------------------------------------------
(***************************************************************************)
(* The inductive invariant.  The types need what a client submitted: a     *)
(* child order is admissible because its parent still has the terms that   *)
(* were validated.  That a cancelled order leaves nothing needs the cancel *)
(* in progress: whatever it has not come to yet is still on its list.      *)
(***************************************************************************)
AsSubmitted(v) ==
  \E s \in VwapSubmission :
    /\ v.symbol = s.symbol /\ v.side = s.side /\ v.target_vwap = s.target_vwap
    /\ v.quantity = s.quantity /\ v.client_id = s.client_id

IdsApart ==
  /\ DOMAIN vwap \subseteq Id /\ DOMAIN vwap \cap Seen = {}
  /\ client_orders \in [Client -> SUBSET (Seen \cup DOMAIN vwap)]
  /\ \A v \in DOMAIN vwap : Children(v) \subseteq Seen
  /\ matched \in Seq(Seen)

VwapTyped ==
  /\ vwap \in [DOMAIN vwap -> VwapOrder]
  /\ \A v \in DOMAIN vwap : AsSubmitted(vwap[v])
  /\ vwap_orders = {v \in DOMAIN vwap : vwap[v].status = "PENDING"}
  /\ \A v \in vwap_orders : vwap[v].filled_quantity < vwap[v].quantity
  /\ over \subseteq DOMAIN vwap /\ vwap_tasks \subseteq DOMAIN vwap

EngineTyped ==
  /\ order_books \in [Symbol -> {"absent", "null", "open"}]
  /\ matching_tasks \in Nat
  /\ matching_tasks > 0 => order_books[Traded] = "open"
  /\ op \in {"none", "add", "market", "market stops", "matching", "matching stops",
             "progress", "cancel", "crashed"}
  /\ op \in {"matching stops", "progress"} => pc # "match" /\ matched # <<>>

CancelRuns ==
  IF op # "cancel" THEN to_cancel = <<>>
  ELSE LET n == Len(to_cancel)
           v == to_cancel[n]
       IN  /\ to_cancel \in Seq(Seen \cup DOMAIN vwap) /\ n > 0
           /\ v \in vwap_orders
           /\ \A i \in 1..(n - 1) : to_cancel[i] \in Children(v)
           /\ \A x \in Children(v) : InBook(x) => \E i \in 1..(n - 1) : to_cancel[i] = x

EngineInv ==
  /\ Inv
  /\ IdsApart /\ VwapTyped /\ EngineTyped
  /\ CancelRuns /\ CancelledVwapLeavesNothing

LEMMA ChildIsAdmissible ==
  ASSUME EngineInv, NEW id \in DOMAIN vwap, NEW price \in ChildPrices(vwap[id]),
         NEW quantity \in 1..(vwap[id].quantity - vwap[id].filled_quantity)
  PROVE  ChildOrder(vwap[id], price, quantity) \in Incoming
<1>1. PICK s \in VwapSubmission :
        /\ vwap[id].side = s.side /\ vwap[id].target_vwap = s.target_vwap
        /\ vwap[id].quantity = s.quantity /\ vwap[id].client_id = s.client_id
  BY DEF EngineInv, VwapTyped, AsSubmitted
<1>2. vwap[id] \in VwapOrder
  BY DEF EngineInv, VwapTyped
<1>3. quantity \in 1..s.quantity
  BY <1>1, <1>2 DEF VwapOrder
<1>4. price \in ChildPrices(s)
  BY <1>1 DEF ChildPrices
<1>5. ChildOrder(s, price, quantity) \in Incoming
  BY <1>3, <1>4, VwapAssumption
<1> QED BY <1>1, <1>5 DEF ChildOrder

(***************************************************************************)
(* Every step of the engine is an operation of the book or none of its.    *)
(***************************************************************************)
LEMMA EngineStepsAreBookSteps ==
  ASSUME EngineInv, [EngineNext]_allVars
  PROVE  [Next]_vars
<1> USE DEF NextId, Unused
<1>1. CASE UNCHANGED allVars
  BY <1>1 DEF allVars
<1>2. ASSUME NEW id \in NextId, NEW o \in Submission,
             SubmitToBook(id, o) \/ SubmitMarketOrder(id, o)
      PROVE  Next
  <2>1. id \in Id /\ o \in Incoming
    BY SubmissionAssumption
  <2> QED BY <1>2, <2>1 DEF SubmitToBook, SubmitMarketOrder, Next, Call
<1>3. CASE BookStep
  BY <1>3 DEF BookStep, Next
<1>4. CASE MarketOrderReturns \/ MatchOrdersReturns
  BY <1>4 DEF MarketOrderReturns, MatchOrdersReturns, CheckStops, Next, Call
<1>5. CASE ProcessMatching
  BY <1>5 DEF ProcessMatching, Next, Call
<1>6. ASSUME NEW x, CancelInBook(x) PROVE [Next]_vars
  <2>1. CASE UNCHANGED vars
    BY <2>1
  <2>2. CASE InBook(x) /\ CancelOrder(x)
    <3>1. x \in Seen
      BY <2>2, RestingOrder, DormantOrder DEF InBook, EngineInv
    <3> QED BY <2>2, <3>1 DEF Next, Call
  <2> QED BY <1>6, <2>1, <2>2 DEF CancelInBook
<1>7. ASSUME NEW id \in vwap_tasks, NEW child \in NextId, NEW quantity, NEW price,
             PlaceChildOrder(id, child, price, quantity)
      PROVE  Next
  <2>1. id \in DOMAIN vwap /\ child \in Id
    BY DEF EngineInv, VwapTyped
  <2>2. ChildOrder(vwap[id], price, quantity) \in Incoming
    BY <1>7, <2>1, ChildIsAdmissible DEF PlaceChildOrder
  <2> QED BY <1>7, <2>1, <2>2 DEF PlaceChildOrder, Next, Call
<1>8. CASE \/ SubmitToNullBook \/ UpdateVwapOrderProgress \/ CancelVwapReturns
  BY <1>8 DEF SubmitToNullBook, UpdateVwapOrderProgress, CancelVwapReturns
<1>9. ASSUME NEW id, NEW v, NEW client,
             \/ SubmitVwapOrder(id, v) \/ WindowEnds(id)
             \/ VwapOrderGone(id) \/ VwapOrderWithoutBook(id)
             \/ CancelVwapOrder(id, client) \/ CancelInNullBook(id, client)
      PROVE  UNCHANGED vars
  BY <1>9 DEF SubmitVwapOrder, WindowEnds, VwapOrderGone, VwapOrderWithoutBook,
              CancelVwapOrder, CancelInNullBook
<1>10. CASE Request
  <2>1. ASSUME NEW client \in Client, NEW id, CancelBookOrder(id, client) PROVE [Next]_vars
    BY <2>1, <1>6 DEF CancelBookOrder
  <2> QED BY <1>10, <1>2, <1>8, <1>9, <2>1 DEF Request
<1>11. CASE Progress
  BY <1>11, <1>3, <1>4, <1>6, <1>8 DEF Progress, CancelChild
<1>12. ASSUME NEW id \in vwap_tasks, VwapTask(id) PROVE [Next]_vars
  BY <1>12, <1>7, <1>9 DEF VwapTask
<1> QED BY <1>1, <1>5, <1>10, <1>11, <1>12 DEF EngineNext

LEMMA EngineStart == EngineInit => EngineInv
<1> SUFFICES ASSUME EngineInit PROVE EngineInv
  OBVIOUS
<1>1. Inv
  BY SafetyInit DEF EngineInit
<1>2. /\ vwap = [i \in {} |-> 0] /\ DOMAIN vwap = {} /\ matched = <<>> /\ op = "none"
      /\ vwap_orders = {} /\ over = {} /\ vwap_tasks = {} /\ to_cancel = <<>>
  BY DEF EngineInit
<1>3. IdsApart
  BY <1>2, EmptySeq DEF IdsApart, EngineInit
<1>4. VwapTyped
  BY <1>2 DEF VwapTyped
<1>5. EngineTyped
  BY <1>2 DEF EngineTyped, EngineInit
<1>6. CancelRuns /\ CancelledVwapLeavesNothing
  BY <1>2 DEF CancelRuns, CancelledVwapLeavesNothing
<1> QED BY <1>1, <1>3, <1>4, <1>5, <1>6 DEF EngineInv

(***************************************************************************)
(* What a step keeps that leaves the VWAP orders alone.                    *)
(***************************************************************************)
LEMMA VwapFrame ==
  ASSUME EngineInv, UNCHANGED vwap,
         Seen \subseteq Seen', Seen' \cap DOMAIN vwap = {},
         \A x \in Seen : InBook(x)' => InBook(x)
  PROVE  /\ \A v \in DOMAIN vwap : Children(v)' = Children(v) /\ Children(v) \subseteq Seen'
         /\ CancelledVwapLeavesNothing'
         /\ \A q \in Seq(Seen) : q \in Seq(Seen')
<1>1. \A v \in DOMAIN vwap : Children(v)' = Children(v) /\ Children(v) \subseteq Seen
  BY DEF Children, EngineInv, IdsApart
<1>2. \A q \in Seq(Seen) : q \in Seq(Seen')
  BY SeqMonotonic
<1>3. CancelledVwapLeavesNothing'
  BY <1>1 DEF EngineInv, CancelledVwapLeavesNothing
<1> QED BY <1>1, <1>2, <1>3

\* The book works, for whatever operation is in progress.
LEMMA BookStepKeeps ==
  ASSUME EngineInv, BookStep, Inv'
  PROVE  EngineInv'
<1>1. /\ Seen' = Seen /\ NothingAdded
  BY StepKeepsPlaces DEF BookStep, EngineInv
<1>2. /\ UNCHANGED <<order_books, client_orders, vwap, vwap_orders, over, vwap_tasks,
                     matching_tasks, to_cancel>>
      /\ op' = IF pc' = "idle" THEN AfterBook ELSE op
      /\ matched' = IF pc = "match" /\ pc' = "idle" THEN matched_orders ELSE matched
  BY DEF BookStep, vwapState
<1>3. matched' \in Seq(Seen)
  BY <1>2 DEF EngineInv, IdsApart, Inv, TypeInv
<1>4. pc # "match" => pc' # "match"
  <2>1. Step
    BY DEF BookStep
  <2> QED
    BY <2>1 DEF Step, MatchSelfTrade, MatchTrade, MatchDone, MarketSelfTrade, MarketTrade,
       MarketDone, CheckNotReached, CheckTriggersStopLimit, CheckTriggersStop, StartMarket,
       CheckDone
<1>5. /\ \A v \in DOMAIN vwap : Children(v)' = Children(v)
      /\ CancelledVwapLeavesNothing'
  BY <1>1, <1>2, VwapFrame DEF NothingAdded, EngineInv, IdsApart
<1>6. IdsApart'
  BY <1>1, <1>2, <1>3, <1>5 DEF EngineInv, IdsApart
<1>7. VwapTyped'
  BY <1>2 DEF EngineInv, VwapTyped
<1>8. EngineTyped'
  <2>1. op' \in {"none", "progress", op}
    BY <1>2 DEF AfterBook
  <2>2. op' \in {"matching stops", "progress"} =>
          op \in {"matching stops", "progress"} /\ (op' = "matching stops" => op = op')
    BY <1>2 DEF AfterBook
  <2>3. op' \in {"matching stops", "progress"} => matched' # <<>>
    <3>1. CASE op = "matching stops"
      BY <3>1, <1>2 DEF EngineInv, EngineTyped
    <3>2. CASE op = "progress"
      BY <3>2, <1>2 DEF EngineInv, EngineTyped
    <3> QED BY <2>2, <3>1, <3>2
  <2> QED BY <1>2, <1>4, <2>1, <2>2, <2>3 DEF EngineInv, EngineTyped
<1>9. CancelRuns'
  <2>1. op' = "cancel" <=> op = "cancel"
    BY <1>2 DEF AfterBook
  <2>2. CASE op = "cancel"
    BY <1>1, <1>2, <1>5, <2>1, <2>2 DEF EngineInv, CancelRuns, NothingAdded, VwapTyped
  <2>3. CASE op # "cancel"
    BY <1>2, <2>1, <2>3 DEF EngineInv, CancelRuns
  <2> QED BY <2>2, <2>3
<1> QED BY <1>5, <1>6, <1>7, <1>8, <1>9 DEF EngineInv

\* A new order for the book.
LEMMA SubmissionKeeps ==
  ASSUME EngineInv, NEW id \in NextId, NEW o \in Submission,
         SubmitToBook(id, o) \/ SubmitMarketOrder(id, o), Inv'
  PROVE  EngineInv'
<1>1. id \in Id /\ o \in Incoming /\ id \notin DOMAIN vwap /\ o.client_id \in Client
  BY SubmissionAssumption, IncomingAssumption DEF NextId, Unused, IsAdmissible, IsFresh,
       Order
<1>2. /\ Seen' = Seen \cup {id} /\ \A x \in Seen : InBook(x)' => InBook(x)
  BY <1>1, ArrivalAddsOne DEF SubmitToBook, SubmitMarketOrder, EngineInv
<1>3. /\ op = "none" /\ op' \in {"none", "add", "market"}
      /\ order_books' \in [Symbol -> {"absent", "null", "open"}]
      /\ order_books'[Traded] = "open" /\ matching_tasks' \in Nat
      /\ client_orders' = [client_orders EXCEPT ![o.client_id] = @ \cup {id}]
      /\ UNCHANGED <<vwap, vwap_orders, over, vwap_tasks, matched, to_cancel>>
  <2>1. /\ op = "none" /\ OpenBook /\ Record(id, o.client_id)
        /\ UNCHANGED <<vwapState, matched, to_cancel>>
    BY DEF SubmitToBook, SubmitMarketOrder
  <2>2. op' \in {"none", "add", "market"}
    BY <2>1 DEF SubmitToBook, SubmitMarketOrder
  <2>3. matching_tasks' \in Nat
    <3>1. matching_tasks \in Nat
      BY DEF EngineInv, EngineTyped
    <3>2. matching_tasks' = matching_tasks + 1 \/ matching_tasks' = matching_tasks
      BY DEF SubmitToBook, SubmitMarketOrder, ScheduleMatching
    <3> QED BY <3>1, <3>2
  <2>4. /\ order_books' \in [Symbol -> {"absent", "null", "open"}]
        /\ order_books'[Traded] = "open"
    BY <2>1, SymbolAssumption DEF OpenBook, EngineInv, EngineTyped
  <2> QED BY <2>1, <2>2, <2>3, <2>4 DEF Record, vwapState
<1>4. /\ \A v \in DOMAIN vwap : Children(v)' = Children(v) /\ Children(v) \subseteq Seen'
      /\ CancelledVwapLeavesNothing' /\ matched' \in Seq(Seen')
  BY <1>1, <1>2, <1>3, VwapFrame DEF EngineInv, IdsApart
<1>5. IdsApart'
  <2>1. client_orders' \in [Client -> SUBSET (Seen' \cup DOMAIN vwap)]
    BY <1>1, <1>2, <1>3 DEF EngineInv, IdsApart
  <2> QED BY <1>1, <1>2, <1>3, <1>4, <2>1 DEF EngineInv, IdsApart
<1>6. VwapTyped' /\ EngineTyped' /\ CancelRuns'
  BY <1>3 DEF EngineInv, VwapTyped, EngineTyped, CancelRuns
<1> QED BY <1>4, <1>5, <1>6 DEF EngineInv

\* The engine goes on after the book, or starts the book's next loop.
LEMMA ReturnKeeps ==
  ASSUME EngineInv, MarketOrderReturns \/ MatchOrdersReturns \/ ProcessMatching, Inv'
  PROVE  EngineInv'
<1>1. /\ UNCHANGED <<order, book, stop_loss_orders>> /\ Seen' = Seen /\ NothingAdded
  BY DEF MarketOrderReturns, MatchOrdersReturns, ProcessMatching, CheckStops,
     CheckStopLossOrders, MatchOrders, vars, NothingAdded, InBook, Seen
<1>2. /\ UNCHANGED <<order_books, client_orders, vwap, vwap_orders, over, vwap_tasks,
                     matched, to_cancel>>
      /\ op # "cancel"
      /\ op' \in {"none", "market stops", "matching", "matching stops", "progress"}
      /\ matching_tasks' \in Nat /\ (matching_tasks' > 0 => matching_tasks > 0)
  <2>1. matching_tasks \in Nat
    BY DEF EngineInv, EngineTyped
  <2>2. \/ matching_tasks' = matching_tasks
        \/ matching_tasks > 0 /\ matching_tasks' = matching_tasks - 1
    BY DEF MarketOrderReturns, MatchOrdersReturns, ProcessMatching
  <2>3. /\ op # "cancel"
        /\ op' \in {"none", "market stops", "matching", "matching stops", "progress"}
    BY DEF MarketOrderReturns, MatchOrdersReturns, ProcessMatching, CheckStops
  <2>4. UNCHANGED <<order_books, client_orders, vwapState, matched, to_cancel>>
    BY DEF MarketOrderReturns, MatchOrdersReturns, ProcessMatching
  <2>5. matching_tasks' \in Nat /\ (matching_tasks' > 0 => matching_tasks > 0)
    BY <2>1, <2>2
  <2>6. UNCHANGED <<order_books, client_orders, vwap, vwap_orders, over, vwap_tasks,
                    matched, to_cancel>>
    BY <2>4 DEF vwapState
  <2> QED BY <2>3, <2>5, <2>6
<1>3. op' \in {"matching stops", "progress"} => pc' # "match" /\ matched' # <<>>
  BY DEF MarketOrderReturns, MatchOrdersReturns, ProcessMatching, CheckStops,
     CheckStopLossOrders, vars
<1>4. /\ \A v \in DOMAIN vwap : Children(v)' = Children(v)
      /\ CancelledVwapLeavesNothing'
  BY <1>1, <1>2, VwapFrame DEF NothingAdded, EngineInv, IdsApart
<1>5. IdsApart' /\ VwapTyped'
  BY <1>1, <1>2, <1>4 DEF EngineInv, IdsApart, VwapTyped
<1>6. EngineTyped'
  BY <1>2, <1>3 DEF EngineInv, EngineTyped
<1>7. CancelRuns'
  BY <1>2 DEF EngineInv, CancelRuns
<1> QED BY <1>4, <1>5, <1>6, <1>7 DEF EngineInv

(***************************************************************************)
(* Steps that leave the book alone keep the places of its orders.          *)
(***************************************************************************)
LEMMA BookUntouched ==
  ASSUME UNCHANGED vars
  PROVE  /\ Seen' = Seen /\ (\A x : InBook(x)' <=> InBook(x))
         /\ UNCHANGED <<pc, order>>
BY DEF vars, InBook, Seen

\* A fill goes to the parent of the child it belongs to.
LEMMA ProgressKeeps ==
  ASSUME EngineInv, UpdateVwapOrderProgress, Inv'
  PROVE  EngineInv'
<1> DEFINE id == Head(matched)
<1>1. /\ op = "progress" /\ matched' = Tail(matched) /\ matched \in Seq(Seen) /\ matched # <<>>
      /\ op' = IF Len(matched) = 1 THEN "none" ELSE "progress"
      /\ UNCHANGED <<vars, order_books, client_orders, over, vwap_tasks, matching_tasks,
                     to_cancel>>
  BY DEF UpdateVwapOrderProgress, EngineInv, EngineTyped, IdsApart
<1>2. /\ id \in Seen /\ matched' \in Seq(Seen)
      /\ Len(matched) # 1 => matched' # <<>>
  <2>1. Head(matched) \in Seen /\ Tail(matched) \in Seq(Seen)
        /\ Len(Tail(matched)) = Len(matched) - 1 /\ Len(matched) \in Nat /\ Len(matched) # 0
    BY <1>1, HeadTailProperties, EmptySeq, LenProperties
  <2>2. Len(matched) # 1 => Tail(matched) # <<>>
    <3>1. Len(matched) # 1 => Len(Tail(matched)) > 0
      BY <2>1
    <3> QED BY <3>1, <2>1, EmptySeq
  <2> QED BY <1>1, <2>1, <2>2
<1>3. order[id].filled_quantity \in Nat
  <2>1. order[id] \in Order /\ StatusOK(order[id])
    BY <1>2 DEF EngineInv, Inv, TypeInv, FillsBounded
  <2> QED BY <2>1 DEF StatusOK, Order
<1> HIDE DEF id
<1>4. /\ DOMAIN vwap' = DOMAIN vwap
      /\ \A v \in DOMAIN vwap :
           /\ vwap'[v] \in VwapOrder /\ AsSubmitted(vwap'[v])
           /\ vwap'[v].child_order_ids = vwap[v].child_order_ids
           /\ vwap'[v].status = "CANCELLED" => vwap[v].status = "CANCELLED"
      /\ vwap_orders' = {v \in DOMAIN vwap : vwap'[v].status = "PENDING"}
      /\ \A v \in vwap_orders' : vwap'[v].filled_quantity < vwap'[v].quantity
  <2>1. /\ vwap \in [DOMAIN vwap -> VwapOrder] /\ \A v \in DOMAIN vwap : AsSubmitted(vwap[v])
        /\ vwap_orders = {v \in DOMAIN vwap : vwap[v].status = "PENDING"}
        /\ \A v \in vwap_orders : vwap[v].filled_quantity < vwap[v].quantity
    BY DEF EngineInv, VwapTyped
  <2>2. CASE UNCHANGED <<vwap, vwap_orders>>
    BY <2>1, <2>2
  <2>3. ASSUME NEW v \in vwap_orders, Credit(v, id)
        PROVE  /\ DOMAIN vwap' = DOMAIN vwap
               /\ \A w \in DOMAIN vwap \ {v} : vwap'[w] = vwap[w]
               /\ vwap'[v] \in VwapOrder /\ AsSubmitted(vwap'[v])
               /\ vwap'[v].child_order_ids = vwap[v].child_order_ids
               /\ \/ /\ vwap'[v].status = "PENDING" /\ vwap_orders' = vwap_orders
                     /\ vwap'[v].filled_quantity < vwap'[v].quantity
                  \/ vwap'[v].status = "FILLED" /\ vwap_orders' = vwap_orders \ {v}
    <3> DEFINE filled == vwap[v].filled_quantity + order[id].filled_quantity
    <3>1. /\ v \in DOMAIN vwap /\ vwap[v] \in VwapOrder /\ vwap[v].status = "PENDING"
          /\ filled \in Nat /\ vwap[v].quantity \in Nat
      BY <2>1, <1>3 DEF VwapOrder
    <3> HIDE DEF filled
    <3>2. CASE /\ filled < vwap[v].quantity
               /\ vwap' = [vwap EXCEPT ![v].filled_quantity = filled]
               /\ UNCHANGED vwap_orders
      BY <3>1, <3>2, <2>1 DEF VwapOrder, AsSubmitted
    <3>3. CASE /\ vwap' = [vwap EXCEPT ![v].filled_quantity = filled, ![v].status = "FILLED"]
               /\ vwap_orders' = vwap_orders \ {v}
      BY <3>1, <3>3, <2>1 DEF VwapOrder, AsSubmitted, OrderStatus
    <3> QED BY <2>3, <3>2, <3>3 DEF Credit, filled
  <2>4. CASE \E v \in vwap_orders : Credit(v, id)
    BY <2>1, <2>3, <2>4
  <2> QED BY <2>2, <2>4 DEF UpdateVwapOrderProgress, id
<1>5. Seen' = Seen /\ (\A x : InBook(x)' <=> InBook(x)) /\ pc' = pc
  BY <1>1, BookUntouched
<1>6. \A v \in DOMAIN vwap : Children(v)' = Children(v)
  BY <1>4 DEF Children
<1>7. IdsApart' /\ CancelledVwapLeavesNothing'
  BY <1>1, <1>2, <1>4, <1>5, <1>6 DEF EngineInv, IdsApart, CancelledVwapLeavesNothing
<1>8. VwapTyped'
  <2>1. vwap' \in [DOMAIN vwap' -> VwapOrder]
    BY <1>4 DEF UpdateVwapOrderProgress, Credit, EngineInv, VwapTyped
  <2> QED BY <1>1, <1>4, <2>1 DEF EngineInv, VwapTyped
<1>9. EngineTyped' /\ CancelRuns'
  BY <1>1, <1>2, <1>5 DEF EngineInv, EngineTyped, CancelRuns
<1> QED BY <1>7, <1>8, <1>9 DEF EngineInv

\* A VWAP order arrives, its window ends, or its task ends.
LEMMA VwapCallKeeps ==
  ASSUME EngineInv, NEW id,
         \/ id \in NextId /\ \E v \in VwapSubmission : SubmitVwapOrder(id, v)
         \/ id \in vwap_orders /\ WindowEnds(id)
         \/ VwapOrderGone(id) \/ VwapOrderWithoutBook(id),
         Inv'
  PROVE  EngineInv'
<1>1. /\ UNCHANGED <<vars, matching_tasks, op, matched, to_cancel>>
      /\ Seen' = Seen /\ (\A x : InBook(x)' <=> InBook(x)) /\ pc' = pc
  BY BookUntouched DEF SubmitVwapOrder, WindowEnds, VwapOrderGone, VwapOrderWithoutBook
<1>2. CASE id \in NextId /\ \E v \in VwapSubmission : SubmitVwapOrder(id, v)
  <2>1. PICK v \in VwapSubmission : SubmitVwapOrder(id, v)
    BY <1>2
  <2>2. /\ id \in Id /\ id \notin Seen /\ id \notin DOMAIN vwap
        /\ v \in VwapOrder /\ v.status = "PENDING" /\ v.filled_quantity = 0
        /\ v.child_order_ids = <<>> /\ v.client_id \in Client
        /\ v.filled_quantity < v.quantity
    BY <1>2, VwapAssumption DEF NextId, Unused, VwapOrder
  <2>3. /\ DOMAIN vwap' = DOMAIN vwap \cup {id} /\ vwap'[id] = v
        /\ \A w \in DOMAIN vwap : vwap'[w] = vwap[w]
        /\ vwap_orders' = vwap_orders \cup {id} /\ vwap_tasks' = vwap_tasks \cup {id}
        /\ client_orders' = [client_orders EXCEPT ![v.client_id] = @ \cup {id}]
        /\ UNCHANGED <<order_books, over>>
    BY <2>1, <2>2 DEF SubmitVwapOrder, Record
  <2>4. /\ \A w \in DOMAIN vwap : Children(w)' = Children(w)
        /\ Children(id)' = {}
    BY <2>2, <2>3 DEF Children
  <2>5. client_orders' \in [Client -> SUBSET (Seen \cup DOMAIN vwap')]
    BY <2>2, <2>3 DEF EngineInv, IdsApart
  <2>6. IdsApart' /\ CancelledVwapLeavesNothing'
    BY <1>1, <2>2, <2>3, <2>4, <2>5 DEF EngineInv, IdsApart, CancelledVwapLeavesNothing
  <2>7. VwapTyped'
    <3>1. vwap' \in [DOMAIN vwap' -> VwapOrder]
      BY <2>1, <2>2, <2>3 DEF SubmitVwapOrder, EngineInv, VwapTyped
    <3>2. AsSubmitted(v)
      BY DEF AsSubmitted
    <3> QED BY <3>1, <3>2, <2>2, <2>3 DEF EngineInv, VwapTyped
  <2>8. EngineTyped' /\ CancelRuns'
    BY <1>1, <2>1, <2>3 DEF EngineInv, EngineTyped, CancelRuns, SubmitVwapOrder
  <2> QED BY <2>6, <2>7, <2>8 DEF EngineInv
<1>3. CASE \/ id \in vwap_orders /\ WindowEnds(id)
           \/ VwapOrderGone(id) \/ VwapOrderWithoutBook(id)
  <2>1. /\ UNCHANGED <<client_orders, vwap, vwap_orders>>
        /\ over' \subseteq over \cup vwap_orders /\ vwap_tasks' \subseteq vwap_tasks
    BY <1>3 DEF WindowEnds, VwapOrderGone, VwapOrderWithoutBook
  <2>2. \A v \in DOMAIN vwap : Children(v)' = Children(v)
    BY <2>1 DEF Children
  <2>3. IdsApart' /\ CancelledVwapLeavesNothing' /\ CancelRuns'
    BY <1>1, <2>1, <2>2 DEF EngineInv, IdsApart, CancelledVwapLeavesNothing, CancelRuns,
       VwapTyped
  <2>4. VwapTyped'
    BY <2>1 DEF EngineInv, VwapTyped
  <2>5. EngineTyped'
    <3>1. /\ order_books' \in [Symbol -> {"absent", "null", "open"}]
          /\ order_books[Traded] = "open" => order_books'[Traded] = "open"
      <4>1. order_books \in [Symbol -> {"absent", "null", "open"}]
        BY DEF EngineInv, EngineTyped
      <4>2. CASE UNCHANGED order_books
        BY <4>1, <4>2
      <4>3. CASE VwapOrderWithoutBook(id)
        <5>1. vwap[id] \in VwapOrder
          BY <4>3 DEF VwapOrderWithoutBook, EngineInv, VwapTyped
        <5>2. PICK s \in Symbol : /\ order_books[s] # "open"
                                 /\ order_books' = [order_books EXCEPT ![s] = "null"]
          BY <4>3, <5>1 DEF VwapOrderWithoutBook, VwapOrder
        <5> QED BY <4>1, <5>2
      <4> QED BY <1>3, <4>2, <4>3 DEF WindowEnds, VwapOrderGone
    <3> QED BY <1>1, <3>1 DEF EngineInv, EngineTyped
  <2> QED BY <2>3, <2>4, <2>5 DEF EngineInv
<1> QED BY <1>2, <1>3

\* A VWAP task places a child: its parent is active, so no cancel is undone.
LEMMA PlacementKeeps ==
  ASSUME EngineInv, NEW id \in DOMAIN vwap, NEW child \in NextId, NEW price, NEW quantity,
         PlaceChildOrder(id, child, price, quantity), Inv'
  PROVE  EngineInv'
<1>1. child \in Id /\ child \notin Seen /\ child \notin DOMAIN vwap
  BY DEF NextId, Unused
<1>2. Seen' = Seen \cup {child} /\ \A x \in Seen : InBook(x)' => InBook(x)
  BY <1>1, ChildIsAdmissible, ArrivalAddsOne DEF PlaceChildOrder, EngineInv
<1>3. /\ op = "none" /\ id \in vwap_orders /\ order_books[Traded] = "open"
      /\ vwap' = [vwap EXCEPT ![id].child_order_ids = Append(@, child)]
      /\ matching_tasks' = matching_tasks + 1 /\ vwap_tasks' = vwap_tasks \cup {id}
      /\ UNCHANGED <<order_books, client_orders, vwap_orders, over, op, matched, to_cancel>>
  BY DEF PlaceChildOrder, MayPlace, ScheduleMatching, EnqueueAgain
<1>4. /\ vwap \in [DOMAIN vwap -> VwapOrder] /\ vwap[id] \in VwapOrder
      /\ vwap[id].child_order_ids \in Seq(Id) /\ vwap[id].status = "PENDING"
  BY <1>3 DEF EngineInv, VwapTyped, VwapOrder
<1>5. /\ DOMAIN vwap' = DOMAIN vwap /\ \A w \in DOMAIN vwap \ {id} : vwap'[w] = vwap[w]
      /\ vwap'[id] \in VwapOrder /\ vwap' \in [DOMAIN vwap -> VwapOrder]
      /\ vwap'[id] = [vwap[id] EXCEPT !.child_order_ids = Append(@, child)]
  <2>1. Append(vwap[id].child_order_ids, child) \in Seq(Id)
    BY <1>1, <1>4, AppendProperties
  <2>2. [vwap[id] EXCEPT !.child_order_ids = Append(@, child)] \in VwapOrder
    BY <2>1, <1>4 DEF VwapOrder
  <2> QED BY <2>2, <1>3, <1>4
<1>6. /\ vwap'[id].child_order_ids = Append(vwap[id].child_order_ids, child)
      /\ vwap'[id].status = "PENDING" /\ vwap'[id].quantity = vwap[id].quantity
      /\ vwap'[id].filled_quantity = vwap[id].filled_quantity
      /\ AsSubmitted(vwap[id]) => AsSubmitted(vwap'[id])
  BY <1>4, <1>5 DEF VwapOrder, AsSubmitted
<1>7. /\ \A w \in DOMAIN vwap \ {id} : Children(w)' = Children(w)
      /\ Children(id)' \subseteq Children(id) \cup {child}
  <2>1. \A w \in DOMAIN vwap \ {id} : Children(w)' = Children(w)
    BY <1>5 DEF Children
  <2>2. ASSUME NEW i \in DOMAIN vwap'[id].child_order_ids
        PROVE  vwap'[id].child_order_ids[i] \in Children(id) \cup {child}
    BY <1>1, <1>4, <1>6, AppendProperties, LenProperties DEF Children
  <2> QED BY <2>1, <2>2 DEF Children
<1>8. IdsApart'
  <2>1. matched' \in Seq(Seen')
    BY <1>2, <1>3, SeqMonotonic DEF EngineInv, IdsApart
  <2>2. \A v \in DOMAIN vwap' : Children(v)' \subseteq Seen'
    BY <1>2, <1>5, <1>7 DEF EngineInv, IdsApart
  <2>3. client_orders' \in [Client -> SUBSET (Seen' \cup DOMAIN vwap')]
    BY <1>2, <1>3, <1>5 DEF EngineInv, IdsApart
  <2> QED BY <2>1, <2>2, <2>3, <1>1, <1>2, <1>5 DEF EngineInv, IdsApart
<1>9. VwapTyped'
  BY <1>3, <1>4, <1>5, <1>6 DEF EngineInv, VwapTyped
<1>10. EngineTyped' /\ CancelRuns'
  BY <1>3 DEF EngineInv, EngineTyped, CancelRuns
<1>11. CancelledVwapLeavesNothing'
  <2>1. ASSUME NEW v \in DOMAIN vwap, vwap'[v].status = "CANCELLED", NEW x \in Children(v)'
        PROVE  ~InBook(x)'
    <3>1. v # id /\ vwap[v].status = "CANCELLED" /\ x \in Children(v)
      BY <2>1, <1>5, <1>6, <1>7
    <3>2. x \in Seen /\ ~InBook(x)
      BY <3>1 DEF EngineInv, IdsApart, CancelledVwapLeavesNothing
    <3> QED BY <3>2, <1>2
  <2> QED BY <2>1, <1>5 DEF CancelledVwapLeavesNothing
<1> QED BY <1>8, <1>9, <1>10, <1>11 DEF EngineInv

\* The book forgets an order, or nothing happens to it.
LEMMA CancelInBookEffect ==
  ASSUME EngineInv, NEW x, CancelInBook(x)
  PROVE  Seen' = Seen /\ NothingAdded /\ ~InBook(x)'
<1>1. CASE InBook(x) /\ CancelOrder(x)
  BY <1>1, CancelLeavesNothing DEF EngineInv
<1>2. CASE ~InBook(x) /\ UNCHANGED vars
  BY <1>2, BookUntouched DEF NothingAdded
<1> QED BY <1>1, <1>2 DEF CancelInBook

LEMMA CancelCallKeeps ==
  ASSUME EngineInv, NEW id, NEW client,
         \/ CancelBookOrder(id, client) \/ CancelVwapOrder(id, client)
         \/ CancelInNullBook(id, client) \/ SubmitToNullBook,
         Inv'
  PROVE  EngineInv'
<1>1. /\ op = "none" /\ op' \in {"none", "cancel", "crashed"}
      /\ UNCHANGED <<order_books, vwap, vwap_orders, over, vwap_tasks, matching_tasks,
                      matched>>
  BY DEF CancelBookOrder, CancelVwapOrder, CancelInNullBook, SubmitToNullBook, vwapState
<1>2. /\ Seen' = Seen /\ NothingAdded
  BY BookUntouched, CancelInBookEffect
     DEF CancelBookOrder, CancelVwapOrder, CancelInNullBook, SubmitToNullBook, NothingAdded
<1>3. /\ \A v \in DOMAIN vwap : Children(v)' = Children(v)
      /\ CancelledVwapLeavesNothing'
  BY <1>1, <1>2, VwapFrame DEF NothingAdded, EngineInv, IdsApart
<1>4. client_orders' \in [Client -> SUBSET (Seen \cup DOMAIN vwap)]
  BY DEF CancelBookOrder, CancelVwapOrder, CancelInNullBook, SubmitToNullBook, Forget,
     EngineInv, IdsApart
<1>5. IdsApart' /\ VwapTyped' /\ EngineTyped'
  BY <1>1, <1>2, <1>3, <1>4 DEF EngineInv, IdsApart, VwapTyped, EngineTyped
<1>6. CASE op' # "cancel"
  <2>1. UNCHANGED to_cancel
    BY <1>6 DEF CancelBookOrder, CancelVwapOrder, CancelInNullBook, SubmitToNullBook
  <2>2. CancelRuns'
    BY <1>1, <1>6, <2>1 DEF EngineInv, CancelRuns
  <2> QED BY <1>3, <1>5, <2>2 DEF EngineInv
<1>7. CASE op' = "cancel"
  <2> DEFINE c == vwap[id].child_order_ids
  <2>1. /\ id \in vwap_orders /\ id \in DOMAIN vwap
        /\ to_cancel' = Append(c, id)
    BY <1>1, <1>7 DEF CancelBookOrder, CancelVwapOrder, CancelInNullBook, SubmitToNullBook,
       EngineInv, VwapTyped
  <2>2. /\ Children(id) \subseteq Seen /\ Children(id) = {c[i] : i \in DOMAIN c}
    BY <2>1 DEF Children, EngineInv, IdsApart
  <2>3. c \in Seq(Id)
    BY <2>1 DEF EngineInv, VwapTyped, VwapOrder
  <2>4. /\ Len(c) \in Nat /\ DOMAIN c = 1..Len(c)
        /\ \A i \in 1..Len(c) : c[i] \in Seen
    BY <2>2, <2>3, LenProperties
  <2>5. c \in Seq(Seen \cup DOMAIN vwap)
    BY <2>3, <2>4, SeqDef
  <2> HIDE DEF c
  <2>6. /\ to_cancel' \in Seq(Seen \cup DOMAIN vwap)
        /\ Len(to_cancel') = Len(c) + 1 /\ to_cancel'[Len(c) + 1] = id
        /\ \A i \in 1..Len(c) : to_cancel'[i] = c[i]
    BY <2>1, <2>4, <2>5, AppendProperties
  <2>7. /\ Len(to_cancel') - 1 = Len(c) /\ Len(to_cancel') > 0 /\ to_cancel'[Len(to_cancel')] = id
        /\ \A i \in 1..Len(c) : to_cancel'[i] \in Children(id)
        /\ \A x \in Children(id) : \E i \in 1..Len(c) : to_cancel'[i] = x
    BY <2>2, <2>4, <2>6
  <2>8. CancelRuns'
    BY <1>1, <1>2, <1>3, <1>7, <2>1, <2>6, <2>7 DEF CancelRuns
  <2> QED BY <1>3, <1>5, <2>8 DEF EngineInv
<1> QED BY <1>6, <1>7

LEMMA CancelStepKeeps ==
  ASSUME EngineInv, CancelChild \/ CancelVwapReturns, Inv'
  PROVE  EngineInv'
<1> DEFINE n == Len(to_cancel)
           v == to_cancel[n]
<1>1. /\ op = "cancel" /\ to_cancel \in Seq(Seen \cup DOMAIN vwap) /\ n \in Nat /\ n > 0
      /\ v \in vwap_orders /\ v \in DOMAIN vwap
      /\ \A i \in 1..(n - 1) : to_cancel[i] \in Children(v)
      /\ \A x \in Children(v) : InBook(x) => \E i \in 1..(n - 1) : to_cancel[i] = x
  BY LenProperties DEF CancelChild, CancelVwapReturns, EngineInv, CancelRuns, VwapTyped
<1>2. to_cancel # <<>> /\ Head(to_cancel) = to_cancel[1]
  BY <1>1, HeadTailProperties, EmptySeq
<1>3. CASE CancelChild
  <2>1. /\ n > 1 /\ CancelInBook(to_cancel[1]) /\ to_cancel' = Tail(to_cancel)
        /\ UNCHANGED <<order_books, client_orders, vwap, vwap_orders, over, vwap_tasks,
                       matching_tasks, op, matched>>
    BY <1>2, <1>3 DEF CancelChild, vwapState
  <2>0. PICK first : first = to_cancel[1]
    OBVIOUS
  <2>2. Seen' = Seen /\ NothingAdded /\ ~InBook(first)'
    BY <2>0, <2>1, CancelInBookEffect
  <2>3. /\ \A w \in DOMAIN vwap : Children(w)' = Children(w)
        /\ CancelledVwapLeavesNothing'
    BY <2>1, <2>2, VwapFrame DEF NothingAdded, EngineInv, IdsApart
  <2>4. IdsApart' /\ VwapTyped' /\ EngineTyped'
    BY <2>1, <2>2, <2>3, <1>1 DEF EngineInv, IdsApart, VwapTyped, EngineTyped
  <2>5. /\ to_cancel' \in Seq(Seen \cup DOMAIN vwap) /\ Len(to_cancel') = n - 1
        /\ \A i \in 1..(n - 1) : to_cancel'[i] = to_cancel[i + 1]
    BY <1>1, <1>2, <2>1, HeadTailProperties
  <2> HIDE DEF n
  <2>6. to_cancel'[n - 1] = to_cancel[n] /\ n - 1 > 0
    BY <1>1, <2>1, <2>5
  <2> HIDE DEF v
  <2>7. \A i \in 1..(n - 1 - 1) : to_cancel'[i] \in Children(v)
    <3>1. \A i \in 1..(n - 1 - 1) : i \in 1..(n - 1) /\ i + 1 \in 1..(n - 1)
      BY <1>1
    <3> QED BY <3>1, <1>1, <2>5
  <2>8. ASSUME NEW x \in Children(v), InBook(x)'
        PROVE  \E i \in 1..(n - 1 - 1) : to_cancel'[i] = x
    <3>1. PICK i \in 1..(n - 1) : to_cancel[i] = x
      BY <1>1, <2>2, <2>8 DEF NothingAdded
    <3>2. i # 1
      BY <3>1, <2>0, <2>2, <2>8
    <3>3. i - 1 \in 1..(n - 1 - 1) /\ i - 1 \in 1..(n - 1) /\ (i - 1) + 1 = i
      BY <3>1, <3>2, <1>1
    <3> QED BY <3>1, <3>3, <2>5
  <2>9. CancelRuns'
    BY <1>1, <2>1, <2>2, <2>3, <2>5, <2>6, <2>7, <2>8 DEF CancelRuns, v
  <2> QED BY <2>3, <2>4, <2>9 DEF EngineInv
<1>4. CASE CancelVwapReturns
  <2>1. /\ n = 1 /\ Head(to_cancel) = v
    BY <1>1, <1>2, <1>4 DEF CancelVwapReturns
  <2> HIDE DEF v
  <2>2. /\ vwap' = [vwap EXCEPT ![v].status = "CANCELLED"]
        /\ vwap_orders' = vwap_orders \ {v}
        /\ client_orders' = [client_orders EXCEPT ![vwap[v].client_id] = @ \ {v}]
        /\ to_cancel' = <<>> /\ op' = "none"
        /\ UNCHANGED <<vars, order_books, over, vwap_tasks, matching_tasks, matched>>
    BY <1>4, <2>1 DEF CancelVwapReturns, Forget
  <2>3. Seen' = Seen /\ (\A x : InBook(x)' <=> InBook(x)) /\ pc' = pc
    BY <2>2, BookUntouched
  <2>4. /\ vwap \in [DOMAIN vwap -> VwapOrder] /\ vwap[v] \in VwapOrder
    BY <1>1 DEF EngineInv, VwapTyped
  <2>5. /\ vwap' \in [DOMAIN vwap -> VwapOrder] /\ DOMAIN vwap' = DOMAIN vwap
        /\ vwap'[v].status = "CANCELLED"
        /\ vwap'[v].child_order_ids = vwap[v].child_order_ids
        /\ AsSubmitted(vwap[v]) => AsSubmitted(vwap'[v])
        /\ \A w \in DOMAIN vwap \ {v} : vwap'[w] = vwap[w]
    BY <1>1, <2>2, <2>4 DEF VwapOrder, OrderStatus, AsSubmitted
  <2>6. \A w \in DOMAIN vwap : Children(w)' = Children(w)
    BY <2>5 DEF Children
  <2>7. \A x \in Children(v) : ~InBook(x)
    BY <1>1, <2>1
  <2>8. CancelledVwapLeavesNothing'
    BY <2>3, <2>5, <2>6, <2>7 DEF EngineInv, CancelledVwapLeavesNothing
  <2>9. IdsApart'
    BY <2>2, <2>3, <2>5, <2>6 DEF EngineInv, IdsApart
  <2>10. VwapTyped'
    BY <1>1, <2>2, <2>5 DEF EngineInv, VwapTyped
  <2>11. EngineTyped' /\ CancelRuns'
    BY <1>1, <2>2, <2>3 DEF EngineInv, EngineTyped, CancelRuns
  <2> QED BY <2>8, <2>9, <2>10, <2>11 DEF EngineInv
<1> QED BY <1>3, <1>4
(***************************************************************************)
(* The invariant is inductive.                                             *)
(***************************************************************************)
LEMMA EngineStepSafe == EngineInv /\ [EngineNext]_allVars => EngineInv'
<1> SUFFICES ASSUME EngineInv, [EngineNext]_allVars PROVE EngineInv'
  OBVIOUS
<1>1. Inv'
  BY EngineStepsAreBookSteps, SafetyStep DEF EngineInv
<1>2. CASE UNCHANGED allVars
  <2>1. UNCHANGED <<vars, order_books, client_orders, vwap, vwap_orders, over, vwap_tasks,
                    matching_tasks, op, matched, to_cancel>>
    BY <1>2 DEF allVars, engine, vwapState
  <2>2. Seen' = Seen /\ (\A x : InBook(x)' <=> InBook(x)) /\ pc' = pc
    BY <2>1, BookUntouched
  <2>3. \A v \in DOMAIN vwap : Children(v)' = Children(v)
    BY <2>1 DEF Children
  <2>4. IdsApart' /\ VwapTyped' /\ EngineTyped'
    BY <2>1, <2>2, <2>3 DEF EngineInv, IdsApart, VwapTyped, EngineTyped
  <2>5. CancelRuns' /\ CancelledVwapLeavesNothing'
    BY <2>1, <2>2, <2>3 DEF EngineInv, CancelRuns, CancelledVwapLeavesNothing, VwapTyped
  <2> QED BY <1>1, <2>4, <2>5 DEF EngineInv
<1>3. CASE Request
  <2>1. ASSUME NEW id \in NextId, NEW o \in Submission,
               SubmitToBook(id, o) \/ SubmitMarketOrder(id, o)
        PROVE  EngineInv'
    BY <1>1, <2>1, SubmissionKeeps
  <2>2. ASSUME NEW id \in NextId, NEW v \in VwapSubmission, SubmitVwapOrder(id, v)
        PROVE  EngineInv'
    BY <1>1, <2>2, VwapCallKeeps
  <2>3. ASSUME NEW client, NEW id,
               CancelBookOrder(id, client) \/ CancelVwapOrder(id, client)
               \/ CancelInNullBook(id, client)
        PROVE  EngineInv'
    BY <1>1, <2>3, CancelCallKeeps
  <2>4. CASE SubmitToNullBook
    BY <1>1, <2>4, CancelCallKeeps
  <2>5. ASSUME NEW id \in vwap_orders, WindowEnds(id) PROVE EngineInv'
    BY <1>1, <2>5, VwapCallKeeps
  <2> QED BY <1>3, <2>1, <2>2, <2>3, <2>4, <2>5 DEF Request
<1>4. CASE Progress
  BY <1>1, <1>4, BookStepKeeps, ReturnKeeps, ProgressKeeps, CancelStepKeeps DEF Progress
<1>5. CASE ProcessMatching
  BY <1>1, <1>5, ReturnKeeps
<1>6. ASSUME NEW id \in vwap_tasks, VwapTask(id) PROVE EngineInv'
  <2>1. id \in DOMAIN vwap
    BY DEF EngineInv, VwapTyped
  <2>2. CASE VwapOrderGone(id) \/ VwapOrderWithoutBook(id)
    BY <1>1, <2>2, VwapCallKeeps
  <2>3. ASSUME NEW child \in NextId, NEW quantity, NEW price,
               PlaceChildOrder(id, child, price, quantity)
        PROVE  EngineInv'
    BY <1>1, <2>1, <2>3, PlacementKeeps
  <2> QED BY <1>6, <2>2, <2>3 DEF VwapTask
<1> QED BY <1>2, <1>3, <1>4, <1>5, <1>6 DEF EngineNext

LEMMA EngineAlwaysInv == EngineSpec => []EngineInv
BY EngineStart, EngineStepSafe, PTL DEF EngineSpec

(***************************************************************************)
(* The engine uses the book only through its operations, one at a time: so *)
(* whatever is proved of OrderBook holds in the engine.                    *)
(***************************************************************************)
THEOREM EngineRunsBook == EngineSpec => Spec
<1>1. EngineInit => Init
  BY DEF EngineInit
<1>2. EngineInv /\ [EngineNext]_allVars => [Next]_vars
  BY EngineStepsAreBookSteps
<1> QED BY <1>1, <1>2, EngineAlwaysInv, PTL DEF EngineSpec, Spec

(***************************************************************************)
(* In the engine too, what rests in the book is open, sorted to its place, *)
(* and there once (as in BookCorrect).                                     *)
(***************************************************************************)
THEOREM EngineKeepsBook == EngineSpec => []BookWellFormed
BY EngineRunsBook, BookCorrect, PTL

(***************************************************************************)
(* The engine's containers keep their types and agree with each other.     *)
(***************************************************************************)
LEMMA OnlyTheBookConverts ==
  ASSUME [EngineNext]_allVars
  PROVE  BookStep \/ UNCHANGED converted
<1>1. CASE UNCHANGED allVars
  BY <1>1 DEF allVars, engine
<1>2. CASE Request
  BY <1>2 DEF Request, SubmitToBook, SubmitMarketOrder, SubmitToNullBook, SubmitVwapOrder,
     CancelBookOrder, CancelVwapOrder, CancelInNullBook, WindowEnds
<1>3. CASE Progress \/ ProcessMatching
  BY <1>3 DEF Progress, ProcessMatching, MarketOrderReturns, MatchOrdersReturns,
     UpdateVwapOrderProgress, CancelChild, CancelVwapReturns
<1>4. ASSUME NEW id \in vwap_tasks, VwapTask(id) PROVE UNCHANGED converted
  BY <1>4 DEF VwapTask, VwapOrderGone, VwapOrderWithoutBook, PlaceChildOrder
<1> QED BY <1>1, <1>2, <1>3, <1>4 DEF EngineNext

LEMMA ConvertedSeen ==
  ASSUME EngineInv, [EngineNext]_allVars, converted \subseteq Seen
  PROVE  (converted \subseteq Seen)'
<1>1. Seen \subseteq Seen'
  BY EngineStepsAreBookSteps, StepEvolves DEF EngineInv, Evolution
<1>2. BookStep => converted' \subseteq converted \cup Seen
  BY DEF BookStep, Converts
<1> QED BY <1>1, <1>2, OnlyTheBookConverts

THEOREM EngineTypeCorrect == EngineSpec => []EngineTypeOK
<1>1. EngineInv /\ converted \subseteq Seen => EngineTypeOK
  <2> SUFFICES ASSUME EngineInv, converted \subseteq Seen PROVE EngineTypeOK
    OBVIOUS
  <2>1. to_cancel \in Seq(AllChildren \cup vwap_orders)
    <3>1. CASE op # "cancel"
      BY <3>1, EmptySeq DEF EngineInv, CancelRuns
    <3>2. CASE op = "cancel"
      <4> DEFINE n == Len(to_cancel)
      <4>1. /\ to_cancel \in Seq(Seen \cup DOMAIN vwap) /\ n > 0 /\ to_cancel[n] \in vwap_orders
            /\ \A i \in 1..(n - 1) : to_cancel[i] \in Children(to_cancel[n])
        BY <3>2 DEF EngineInv, CancelRuns
      <4>2. n \in Nat /\ to_cancel \in [1..n -> Seen \cup DOMAIN vwap]
        BY <4>1, LenProperties
      <4>3. \A i \in 1..n : to_cancel[i] \in AllChildren \cup vwap_orders
        BY <4>1, <4>2 DEF AllChildren, EngineInv, VwapTyped
      <4> QED BY <4>2, <4>3, SeqDef
    <3> QED BY <3>1, <3>2
  <2> QED BY <2>1 DEF EngineInv, IdsApart, VwapTyped, EngineTyped, EngineTypeOK
<1>2. EngineInit => converted \subseteq Seen
  BY DEF EngineInit
<1>3. EngineInv /\ converted \subseteq Seen /\ [EngineNext]_allVars
        => (converted \subseteq Seen)'
  BY ConvertedSeen
<1> QED BY <1>1, <1>2, <1>3, EngineAlwaysInv, PTL DEF EngineSpec

(***************************************************************************)
(* A cancelled VWAP order has no child left in the book, and its task      *)
(* never places another, wherever the cancel came.                         *)
(***************************************************************************)
THEOREM CancelledVwapCorrect == EngineSpec => []CancelledVwapLeavesNothing
<1>1. EngineInv => CancelledVwapLeavesNothing
  BY DEF EngineInv
<1> QED BY <1>1, EngineAlwaysInv, PTL
-----------------------------------------------------------------------------
(***************************************************************************)
(* Who owns what.  Terms never change; apart from submissions and          *)
(* placements the VWAP orders and their children are the same ones.        *)
(***************************************************************************)
SameVwap(n, v) ==
  /\ n.symbol = v.symbol /\ n.side = v.side /\ n.quantity = v.quantity
  /\ n.client_id = v.client_id

VwapsStay ==
  /\ DOMAIN vwap' = DOMAIN vwap
  /\ \A v \in DOMAIN vwap : /\ SameVwap(vwap'[v], vwap[v])
                            /\ vwap'[v].child_order_ids = vwap[v].child_order_ids
  /\ vwap_orders' \subseteq vwap_orders

LEMMA TermsStay ==
  ASSUME EngineInv, [EngineNext]_allVars
  PROVE  \A id \in Seen : id \in Seen' /\ SameContract(order'[id], order[id])
<1>1. Evolution
  BY EngineStepsAreBookSteps, StepEvolves DEF EngineInv
<1> QED BY <1>1 DEF Evolution, Evolves, SameContract

LEMMA ArrivalTerms ==
  ASSUME NEW id, NEW o \in Incoming,
         \/ AddLimitOrder(id, o)
         \/ AddStopOrder(id, o)
         \/ AddTriggeredStopLimit(id, o)
         \/ AddTriggeredStop(id, o)
         \/ ExecuteMarketOrder(id, o)
  PROVE  SameContract(order'[id], o)
<1> DEFINE stamped == [o EXCEPT !.timestamp = clock']
<1>1. o \in Order
  BY IncomingAssumption DEF IsAdmissible, IsFresh
<1>2. PICK n \in {stamped, AsLimit(stamped), AsMarket(stamped)} : order' = WithOrder(id, n)
  BY DEF AddLimitOrder, AddStopOrder, AddTriggeredStopLimit, AddTriggeredStop,
     ExecuteMarketOrder, Rest, StartMarket
<1>3. SameContract(n, o)
  BY <1>1, <1>2 DEF AsLimit, AsMarket, SameContract, Order
<1> QED BY <1>2, <1>3 DEF WithOrder

\* Credit changes the fill and the status, a returning cancel the status.
LEMMA CreditStays ==
  ASSUME EngineInv, UpdateVwapOrderProgress \/ CancelVwapReturns
  PROVE  VwapsStay
<1>1. vwap \in [DOMAIN vwap -> VwapOrder] /\ vwap_orders \subseteq DOMAIN vwap
  BY DEF EngineInv, VwapTyped
<1>2. ASSUME NEW v \in DOMAIN vwap, NEW filled, NEW st,
             \/ vwap' = [vwap EXCEPT ![v].filled_quantity = filled]
             \/ vwap' = [vwap EXCEPT ![v].filled_quantity = filled, ![v].status = st]
             \/ vwap' = [vwap EXCEPT ![v].status = st]
      PROVE  /\ DOMAIN vwap' = DOMAIN vwap
             /\ \A w \in DOMAIN vwap : /\ SameVwap(vwap'[w], vwap[w])
                                       /\ vwap'[w].child_order_ids = vwap[w].child_order_ids
  <2>1. PICK n : /\ vwap' = [vwap EXCEPT ![v] = n]
                 /\ \/ n = [vwap[v] EXCEPT !.filled_quantity = filled]
                    \/ n = [vwap[v] EXCEPT !.filled_quantity = filled, !.status = st]
                    \/ n = [vwap[v] EXCEPT !.status = st]
    BY <1>1, <1>2
  <2>2. SameVwap(n, vwap[v]) /\ n.child_order_ids = vwap[v].child_order_ids
    <3>1. vwap[v] \in VwapOrder
      BY <1>1
    <3> QED BY <2>1, <3>1 DEF SameVwap, VwapOrder
  <2> QED BY <1>1, <2>1, <2>2 DEF SameVwap
<1>3. CASE UpdateVwapOrderProgress
  <2>1. CASE UNCHANGED <<vwap, vwap_orders>>
    BY <2>1 DEF VwapsStay, SameVwap
  <2>2. ASSUME NEW v \in vwap_orders, NEW id, Credit(v, id) PROVE VwapsStay
    <3>1. v \in DOMAIN vwap /\ vwap_orders' \subseteq vwap_orders
      BY <1>1, <2>2 DEF Credit
    <3>2. PICK filled :
            \/ vwap' = [vwap EXCEPT ![v].filled_quantity = filled]
            \/ vwap' = [vwap EXCEPT ![v].filled_quantity = filled, ![v].status = "FILLED"]
      BY <2>2 DEF Credit
    <3>3. /\ DOMAIN vwap' = DOMAIN vwap
          /\ \A w \in DOMAIN vwap : /\ SameVwap(vwap'[w], vwap[w])
                                    /\ vwap'[w].child_order_ids = vwap[w].child_order_ids
      <4>1. CASE vwap' = [vwap EXCEPT ![v].filled_quantity = filled]
        BY <1>2, <3>1, <4>1
      <4>2. CASE vwap' = [vwap EXCEPT ![v].filled_quantity = filled, ![v].status = "FILLED"]
        BY <1>2, <3>1, <4>2
      <4> QED BY <3>2, <4>1, <4>2
    <3> QED BY <3>1, <3>3 DEF VwapsStay
  <2> QED BY <1>3, <2>1, <2>2 DEF UpdateVwapOrderProgress
<1>4. CASE CancelVwapReturns
  <2> DEFINE v == Head(to_cancel)
  <2>1. /\ vwap' = [vwap EXCEPT ![v].status = "CANCELLED"] /\ vwap_orders' = vwap_orders \ {v}
    BY <1>4 DEF CancelVwapReturns
  <2>2. CASE v \in DOMAIN vwap
    <3> HIDE DEF v
    <3>1. /\ DOMAIN vwap' = DOMAIN vwap
          /\ \A w \in DOMAIN vwap : /\ SameVwap(vwap'[w], vwap[w])
                                    /\ vwap'[w].child_order_ids = vwap[w].child_order_ids
      BY <1>2, <2>1, <2>2
    <3> QED BY <2>1, <3>1 DEF VwapsStay
  <2>3. CASE v \notin DOMAIN vwap
    BY <2>1, <2>3 DEF VwapsStay, SameVwap
  <2> QED BY <2>2, <2>3
<1> QED BY <1>3, <1>4

LEMMA ReturnsToOwner ==
  ASSUME EngineInv, CancelVwapReturns
  PROVE  \E v \in vwap_orders :
           /\ v \in DOMAIN vwap
           /\ vwap_orders' = vwap_orders \ {v}
           /\ client_orders' = [client_orders EXCEPT ![vwap[v].client_id] = @ \ {v}]
<1>1. /\ op = "cancel" /\ Len(to_cancel) = 1
      /\ to_cancel \in Seq(Seen \cup DOMAIN vwap) /\ to_cancel[1] \in vwap_orders
  BY DEF CancelVwapReturns, EngineInv, CancelRuns
<1>2. Head(to_cancel) = to_cancel[1]
  BY <1>1, HeadTailProperties, EmptySeq
<1> QED BY <1>1, <1>2 DEF CancelVwapReturns, Forget, EngineInv, VwapTyped

(***************************************************************************)
(* VWAP orders go forward: whatever changes one changes an active one.     *)
(***************************************************************************)
FurtherOn(n, v) ==
  /\ n.quantity = v.quantity /\ n.side = v.side
  /\ v.filled_quantity <= n.filled_quantity
  /\ \A i \in DOMAIN v.child_order_ids :
       i \in DOMAIN n.child_order_ids /\ n.child_order_ids[i] = v.child_order_ids[i]

LEMMA ActiveChange ==
  ASSUME EngineInv, NEW v \in DOMAIN vwap, NEW u \in vwap_orders, NEW n,
         vwap' = [vwap EXCEPT ![u] = n], FurtherOn(n, vwap[u])
  PROVE  GoesForward(v)
<1>1. /\ vwap \in [DOMAIN vwap -> VwapOrder]
      /\ u \in DOMAIN vwap /\ vwap[u].status = "PENDING"
  BY DEF EngineInv, VwapTyped
<1>2. CASE v = u
  <2>1. vwap'[u] = n /\ DOMAIN vwap' = DOMAIN vwap
    BY <1>1
  <2> QED BY <1>1, <1>2, <2>1 DEF GoesForward, Children, FurtherOn
<1>3. CASE v # u
  <2>1. vwap'[v] = vwap[v] /\ DOMAIN vwap' = DOMAIN vwap
    BY <1>1, <1>3
  <2>2. vwap[v].filled_quantity \in Nat
    BY <1>1 DEF VwapOrder
  <2> QED BY <2>1, <2>2 DEF GoesForward, Children
<1> QED BY <1>2, <1>3

LEMMA VwapForward ==
  ASSUME EngineInv, [EngineNext]_allVars, NEW v \in DOMAIN vwap
  PROVE  GoesForward(v)
<1>a. /\ vwap \in [DOMAIN vwap -> VwapOrder]
      /\ vwap_orders \subseteq DOMAIN vwap /\ vwap_tasks \subseteq DOMAIN vwap
  BY DEF EngineInv, VwapTyped
<1>b. vwap[v].filled_quantity \in Nat
  BY <1>a DEF VwapOrder
<1>1. ASSUME UNCHANGED vwap PROVE GoesForward(v)
  BY <1>1, <1>b DEF GoesForward, Children
<1>2. ASSUME NEW id \in NextId, NEW w, SubmitVwapOrder(id, w) PROVE GoesForward(v)
  <2>1. v # id /\ v \in DOMAIN vwap' /\ vwap'[v] = vwap[v]
    BY <1>2 DEF SubmitVwapOrder, NextId, Unused
  <2> QED BY <2>1, <1>b DEF GoesForward, Children
<1>3. CASE UpdateVwapOrderProgress
  <2>1. order[Head(matched)].filled_quantity \in Nat
    <3>1. matched \in Seq(Seen) /\ matched # <<>>
      BY <1>3 DEF UpdateVwapOrderProgress, EngineInv, EngineTyped, IdsApart
    <3>2. Head(matched) \in Seen
      BY <3>1, HeadTailProperties
    <3>3. order[Head(matched)] \in Order /\ StatusOK(order[Head(matched)])
      BY <3>2 DEF EngineInv, Inv, TypeInv, FillsBounded
    <3> QED BY <3>3 DEF StatusOK, Order
  <2>2. ASSUME NEW u \in vwap_orders, Credit(u, Head(matched)) PROVE GoesForward(v)
    <3>1. PICK filled : /\ filled = vwap[u].filled_quantity + order[Head(matched)].filled_quantity
                        /\ \/ vwap' = [vwap EXCEPT ![u].filled_quantity = filled]
                           \/ vwap' = [vwap EXCEPT ![u].filled_quantity = filled,
                                                  ![u].status = "FILLED"]
      BY <2>2 DEF Credit
    <3>2. PICK n : /\ vwap' = [vwap EXCEPT ![u] = n]
                   /\ \/ n = [vwap[u] EXCEPT !.filled_quantity = filled]
                      \/ n = [vwap[u] EXCEPT !.filled_quantity = filled, !.status = "FILLED"]
      BY <3>1, <1>a
    <3>3. vwap[u] \in VwapOrder
      BY <1>a
    <3>4. /\ n.quantity = vwap[u].quantity /\ n.side = vwap[u].side
          /\ n.filled_quantity = filled /\ n.child_order_ids = vwap[u].child_order_ids
      BY <3>2, <3>3 DEF VwapOrder
    <3>5. vwap[u].filled_quantity <= filled
      BY <3>1, <3>3, <2>1 DEF VwapOrder
    <3>6. FurtherOn(n, vwap[u])
      BY <3>4, <3>5 DEF FurtherOn
    <3> QED BY <3>2, <3>6, ActiveChange
  <2> QED BY <1>1, <1>3, <2>2 DEF UpdateVwapOrderProgress
<1>4. ASSUME NEW id \in vwap_tasks, NEW child \in NextId, NEW quantity, NEW price,
             PlaceChildOrder(id, child, price, quantity)
      PROVE  GoesForward(v)
  <2>1. id \in vwap_orders /\ vwap[id] \in VwapOrder
        /\ vwap' = [vwap EXCEPT ![id].child_order_ids = Append(@, child)]
    BY <1>4, <1>a DEF PlaceChildOrder, MayPlace
  <2>2. PICK n : /\ vwap' = [vwap EXCEPT ![id] = n]
                 /\ n = [vwap[id] EXCEPT !.child_order_ids = Append(@, child)]
    BY <2>1
  <2>3. /\ n.quantity = vwap[id].quantity /\ n.side = vwap[id].side
        /\ n.filled_quantity = vwap[id].filled_quantity
        /\ n.child_order_ids = Append(vwap[id].child_order_ids, child)
        /\ vwap[id].filled_quantity \in Nat /\ vwap[id].child_order_ids \in Seq(Id)
        /\ child \in Id
    BY <2>1, <2>2 DEF VwapOrder, NextId, Unused
  <2>4. \A i \in DOMAIN vwap[id].child_order_ids :
          /\ i \in DOMAIN n.child_order_ids
          /\ n.child_order_ids[i] = vwap[id].child_order_ids[i]
    BY <2>3, AppendProperties, LenProperties
  <2>5. FurtherOn(n, vwap[id])
    BY <2>3, <2>4 DEF FurtherOn
  <2> QED BY <2>1, <2>2, <2>5, ActiveChange
<1>5. CASE CancelVwapReturns
  <2>1. PICK u \in vwap_orders : u = Head(to_cancel)
    <3>1. /\ op = "cancel" /\ Len(to_cancel) = 1
          /\ to_cancel \in Seq(Seen \cup DOMAIN vwap) /\ to_cancel[1] \in vwap_orders
      BY <1>5 DEF CancelVwapReturns, EngineInv, CancelRuns
    <3> QED BY <3>1, HeadTailProperties, EmptySeq
  <2>2. vwap[u] \in VwapOrder /\ vwap' = [vwap EXCEPT ![u].status = "CANCELLED"]
    BY <1>5, <1>a, <2>1 DEF CancelVwapReturns
  <2>3. PICK n : /\ vwap' = [vwap EXCEPT ![u] = n]
                 /\ n = [vwap[u] EXCEPT !.status = "CANCELLED"]
    BY <2>2
  <2>4. /\ n.quantity = vwap[u].quantity /\ n.side = vwap[u].side
        /\ n.filled_quantity = vwap[u].filled_quantity
        /\ n.child_order_ids = vwap[u].child_order_ids /\ vwap[u].filled_quantity \in Nat
    BY <2>2, <2>3 DEF VwapOrder
  <2>5. FurtherOn(n, vwap[u])
    BY <2>4 DEF FurtherOn
  <2> QED BY <2>3, <2>5, ActiveChange
<1>6. CASE Request
  <2>1. ASSUME NEW id, NEW o, NEW client,
               \/ SubmitToBook(id, o) \/ SubmitMarketOrder(id, o) \/ SubmitToNullBook
               \/ CancelBookOrder(id, client) \/ CancelVwapOrder(id, client)
               \/ CancelInNullBook(id, client) \/ WindowEnds(id)
        PROVE  UNCHANGED vwap
    BY <2>1 DEF SubmitToBook, SubmitMarketOrder, SubmitToNullBook, CancelBookOrder,
       CancelVwapOrder, CancelInNullBook, WindowEnds, vwapState
  <2> QED BY <1>1, <1>2, <1>6, <2>1 DEF Request
<1>7. CASE Progress \/ ProcessMatching
  <2>1. ASSUME BookStep \/ MarketOrderReturns \/ MatchOrdersReturns \/ CancelChild
               \/ ProcessMatching
        PROVE  UNCHANGED vwap
    BY <2>1 DEF BookStep, MarketOrderReturns, MatchOrdersReturns, CancelChild,
       ProcessMatching, vwapState
  <2> QED BY <1>1, <1>3, <1>5, <1>7, <2>1 DEF Progress
<1>8. ASSUME NEW id \in vwap_tasks, VwapTask(id) PROVE GoesForward(v)
  <2>1. ASSUME VwapOrderGone(id) \/ VwapOrderWithoutBook(id) PROVE UNCHANGED vwap
    BY <2>1 DEF VwapOrderGone, VwapOrderWithoutBook
  <2> QED BY <1>1, <1>4, <1>8, <2>1 DEF VwapTask
<1>9. CASE UNCHANGED allVars
  BY <1>1, <1>9 DEF allVars, engine, vwapState
<1> QED BY <1>6, <1>7, <1>8, <1>9 DEF EngineNext

(***************************************************************************)
(* A VWAP order's fill and children only grow, and once it is filled or    *)
(* cancelled nothing changes it: late credits, late tasks, late cancels.   *)
(***************************************************************************)
THEOREM VwapOrdersCorrect == EngineSpec => VwapOrdersGoForward
<1>1. EngineInv /\ [EngineNext]_allVars => [\A v \in DOMAIN vwap : GoesForward(v)]_allVars
  BY VwapForward
<1> QED BY <1>1, EngineAlwaysInv, PTL DEF EngineSpec, VwapOrdersGoForward

(***************************************************************************)
(* Nothing joins, and a client forgets at most what is gone.               *)
(***************************************************************************)
LEMMA OwnersFrame ==
  ASSUME EngineInv, EngineInv', [EngineNext]_allVars, OrdersHaveOwners,
         Seen' = Seen, NothingAdded, VwapsStay,
         \A c \in Client :
           /\ client_orders'[c] \subseteq client_orders[c]
           /\ \A x \in client_orders[c] \ client_orders'[c] :
                ~InBook(x)' /\ x \notin vwap_orders'
  PROVE  OrdersHaveOwners'
<1>1. \A id \in Seen : SameContract(order'[id], order[id]) /\ order[id].client_id \in Client
  BY TermsStay DEF EngineInv, Inv, TypeInv, Order
<1>2. /\ \A v \in DOMAIN vwap : Children(v)' = Children(v) /\ SameVwap(vwap'[v], vwap[v])
      /\ DOMAIN vwap' = DOMAIN vwap /\ AllChildren' = AllChildren
      /\ \A v \in DOMAIN vwap : vwap[v].client_id \in Client
  BY DEF VwapsStay, Children, AllChildren, EngineInv, VwapTyped, VwapOrder
<1>3. /\ vwap_orders' \subseteq vwap_orders /\ vwap_orders \subseteq DOMAIN vwap
      /\ client_orders \in [Client -> SUBSET (Seen \cup DOMAIN vwap)]
  BY DEF VwapsStay, EngineInv, VwapTyped, IdsApart
<1>4. ASSUME NEW id \in Seen \ AllChildren, InBook(id)'
      PROVE  id \in client_orders'[order'[id].client_id]
  <2>1. id \in client_orders[order[id].client_id]
    BY <1>4 DEF NothingAdded, OrdersHaveOwners
  <2> QED BY <2>1, <1>1, <1>4 DEF SameContract
<1>5. ASSUME NEW c \in Client, NEW id \in client_orders'[c]
      PROVE  c = IF id \in Seen THEN order'[id].client_id ELSE vwap'[id].client_id
  <2>1. /\ id \in client_orders[c] /\ id \in Seen \cup DOMAIN vwap
        /\ c = IF id \in Seen THEN order[id].client_id ELSE vwap[id].client_id
    BY <1>3, <1>5 DEF OrdersHaveOwners
  <2> QED BY <2>1, <1>1, <1>2 DEF SameContract, SameVwap
<1>6. ASSUME NEW v \in vwap_orders' PROVE v \in client_orders'[vwap'[v].client_id]
  <2>1. v \in client_orders[vwap[v].client_id] /\ v \in DOMAIN vwap
    BY <1>3, <1>6 DEF OrdersHaveOwners
  <2> QED BY <2>1, <1>2, <1>6 DEF SameVwap
<1>7. ASSUME NEW v \in DOMAIN vwap, NEW child \in Children(v)
      PROVE  /\ order'[child].client_id = vwap'[v].client_id
             /\ order'[child].side = vwap'[v].side
             /\ order'[child].quantity <= vwap'[v].quantity
             /\ \A w \in DOMAIN vwap \ {v} : child \notin Children(w)'
  <2>1. /\ child \in Seen
        /\ order[child].client_id = vwap[v].client_id
        /\ order[child].side = vwap[v].side
        /\ order[child].quantity <= vwap[v].quantity
        /\ \A w \in DOMAIN vwap \ {v} : child \notin Children(w)
    BY <1>7 DEF OrdersHaveOwners, EngineInv, IdsApart
  <2> QED BY <2>1, <1>1, <1>2 DEF SameContract, SameVwap
<1> QED BY <1>2, <1>4, <1>5, <1>6, <1>7 DEF OrdersHaveOwners

\* Everything but submissions and placements.
LEMMA OthersKeepOwners ==
  ASSUME EngineInv, EngineInv', [EngineNext]_allVars, OrdersHaveOwners,
         \/ BookStep \/ MarketOrderReturns \/ MatchOrdersReturns \/ ProcessMatching
         \/ UpdateVwapOrderProgress \/ CancelChild \/ CancelVwapReturns
         \/ SubmitToNullBook
         \/ \E id : \/ id \in vwap_orders /\ WindowEnds(id)
                    \/ VwapOrderGone(id) \/ VwapOrderWithoutBook(id)
         \/ \E client \in Client : \E id \in client_orders[client] :
              \/ CancelBookOrder(id, client) \/ CancelVwapOrder(id, client)
              \/ CancelInNullBook(id, client)
         \/ UNCHANGED allVars
  PROVE  OrdersHaveOwners'
<1>0. client_orders \in [Client -> SUBSET (Seen \cup DOMAIN vwap)]
  BY DEF EngineInv, IdsApart
<1>1. CASE BookStep
  <2>1. /\ Seen' = Seen /\ NothingAdded
        /\ UNCHANGED <<client_orders, vwap, vwap_orders>>
    BY <1>1, StepKeepsPlaces DEF BookStep, EngineInv, vwapState
  <2> QED BY <2>1, OwnersFrame DEF VwapsStay, SameVwap
<1>2. CASE MarketOrderReturns \/ MatchOrdersReturns \/ ProcessMatching
  <2>1. /\ UNCHANGED <<order, book, stop_loss_orders, client_orders, vwap, vwap_orders>>
        /\ Seen' = Seen
    <3>1. CASE MarketOrderReturns
      BY <3>1 DEF MarketOrderReturns, CheckStops, CheckStopLossOrders, vars, Seen, vwapState
    <3>2. CASE MatchOrdersReturns
      BY <3>2 DEF MatchOrdersReturns, CheckStops, CheckStopLossOrders, vars, Seen, vwapState
    <3>3. CASE ProcessMatching
      BY <3>3 DEF ProcessMatching, MatchOrders, Seen, vwapState
    <3> QED BY <1>2, <3>1, <3>2, <3>3
  <2>2. NothingAdded
    BY <2>1 DEF NothingAdded, InBook
  <2> QED BY <2>1, <2>2, OwnersFrame DEF VwapsStay, SameVwap
<1>3. CASE UpdateVwapOrderProgress
  <2>1. UNCHANGED <<vars, client_orders>> /\ VwapsStay
    BY <1>3, CreditStays DEF UpdateVwapOrderProgress
  <2> QED BY <2>1, BookUntouched, OwnersFrame DEF NothingAdded
<1>4. CASE CancelChild
  <2>1. UNCHANGED <<client_orders, vwap, vwap_orders>> /\ Seen' = Seen /\ NothingAdded
    BY <1>4, CancelInBookEffect DEF CancelChild, vwapState
  <2> QED BY <2>1, OwnersFrame DEF VwapsStay, SameVwap
<1>5. CASE CancelVwapReturns
  <2>1. UNCHANGED vars /\ VwapsStay
    BY <1>5, CreditStays DEF CancelVwapReturns
  <2>2. PICK v \in vwap_orders :
          /\ v \in DOMAIN vwap
          /\ vwap_orders' = vwap_orders \ {v}
          /\ client_orders' = [client_orders EXCEPT ![vwap[v].client_id] = @ \ {v}]
    BY <1>5, ReturnsToOwner
  <2>3. v \notin Seen
    BY <2>2 DEF EngineInv, IdsApart
  <2>4. Seen' = Seen /\ \A x : InBook(x)' <=> InBook(x)
    BY <2>1, BookUntouched
  <2>5. ~InBook(v)
    BY <2>3, RestingOrder, DormantOrder DEF InBook, EngineInv
  <2>6. ASSUME NEW c \in Client
        PROVE  /\ client_orders'[c] \subseteq client_orders[c]
               /\ \A x \in client_orders[c] \ client_orders'[c] :
                    ~InBook(x)' /\ x \notin vwap_orders'
    BY <1>0, <2>2, <2>4, <2>5
  <2> QED BY <2>1, <2>4, <2>6, OwnersFrame DEF NothingAdded
<1>6. CASE \/ SubmitToNullBook
           \/ \E id : \/ id \in vwap_orders /\ WindowEnds(id)
                      \/ VwapOrderGone(id) \/ VwapOrderWithoutBook(id)
           \/ \E client \in Client : \E id \in client_orders[client] :
                CancelVwapOrder(id, client) \/ CancelInNullBook(id, client)
           \/ UNCHANGED allVars
  <2>1. UNCHANGED <<vars, client_orders, vwap, vwap_orders>>
    BY <1>6 DEF SubmitToNullBook, WindowEnds, VwapOrderGone, VwapOrderWithoutBook,
       CancelVwapOrder, CancelInNullBook, allVars, engine, vwapState
  <2> QED BY <2>1, BookUntouched, OwnersFrame DEF NothingAdded, VwapsStay, SameVwap
<1>7. ASSUME NEW client \in Client, NEW id \in client_orders[client],
             CancelBookOrder(id, client)
      PROVE  OrdersHaveOwners'
  <2>1. /\ id \notin vwap_orders /\ CancelInBook(id)
        /\ client_orders' = [client_orders EXCEPT ![client] = @ \ {id}]
        /\ UNCHANGED <<vwap, vwap_orders>>
    BY <1>7 DEF CancelBookOrder, Forget, vwapState
  <2>2. Seen' = Seen /\ NothingAdded /\ ~InBook(id)'
    BY <2>1, CancelInBookEffect
  <2>3. ASSUME NEW c \in Client
        PROVE  /\ client_orders'[c] \subseteq client_orders[c]
               /\ \A x \in client_orders[c] \ client_orders'[c] :
                    ~InBook(x)' /\ x \notin vwap_orders'
    BY <1>0, <2>1, <2>2
  <2> QED BY <2>1, <2>2, <2>3, OwnersFrame DEF VwapsStay, SameVwap
<1> QED BY <1>1, <1>2, <1>3, <1>4, <1>5, <1>6, <1>7

\* A new id is recorded for the client who gets it.
LEMMA SubmissionRecords ==
  ASSUME EngineInv, EngineInv', [EngineNext]_allVars, OrdersHaveOwners,
         NEW id \in NextId, NEW o \in Submission,
         SubmitToBook(id, o) \/ SubmitMarketOrder(id, o)
  PROVE  OrdersHaveOwners'
<1>1. id \in Id /\ o \in Incoming /\ id \notin DOMAIN vwap /\ o.client_id \in Client
  BY SubmissionAssumption, IncomingAssumption DEF NextId, Unused, IsAdmissible, IsFresh,
       Order
<1>2. /\ Seen' = Seen \cup {id} /\ id \notin Seen
      /\ \A x \in Seen : InBook(x)' => InBook(x)
      /\ order'[id].client_id = o.client_id
  BY <1>1, ArrivalAddsOne, ArrivalTerms
     DEF SubmitToBook, SubmitMarketOrder, EngineInv, SameContract
<1>3. /\ client_orders' = [client_orders EXCEPT ![o.client_id] = @ \cup {id}]
      /\ UNCHANGED <<vwap, vwap_orders>>
  BY DEF SubmitToBook, SubmitMarketOrder, Record, vwapState
<1>4. /\ \A v \in DOMAIN vwap : Children(v)' = Children(v) /\ Children(v) \subseteq Seen
      /\ AllChildren' = AllChildren
      /\ client_orders \in [Client -> SUBSET (Seen \cup DOMAIN vwap)]
      /\ vwap_orders \subseteq DOMAIN vwap
      /\ \A v \in DOMAIN vwap : vwap[v].client_id \in Client
  BY <1>3 DEF Children, AllChildren, EngineInv, IdsApart, VwapTyped, VwapOrder
<1>5. \A x \in Seen : SameContract(order'[x], order[x]) /\ order[x].client_id \in Client
  BY TermsStay DEF EngineInv, Inv, TypeInv, Order
<1>6. ASSUME NEW x \in Seen' \ AllChildren', InBook(x)'
      PROVE  x \in client_orders'[order'[x].client_id]
  BY <1>1, <1>2, <1>3, <1>4, <1>5, <1>6 DEF OrdersHaveOwners, SameContract
<1>7. ASSUME NEW c \in Client, NEW x \in client_orders'[c]
      PROVE  c = IF x \in Seen' THEN order'[x].client_id ELSE vwap'[x].client_id
  <2>1. CASE x = id
    <3>1. id \notin client_orders[c]
      BY <1>1, <1>2, <1>4
    <3> QED BY <1>1, <1>2, <1>3, <1>4, <1>7, <2>1, <3>1
  <2>2. CASE x # id
    <3>1. x \in client_orders[c]
      BY <1>1, <1>3, <1>4, <1>7, <2>2
    <3> QED BY <1>2, <1>3, <1>5, <2>2, <3>1 DEF OrdersHaveOwners, SameContract
  <2> QED BY <2>1, <2>2
<1>8. \A v \in vwap_orders' : v \in client_orders'[vwap'[v].client_id]
  BY <1>1, <1>3, <1>4 DEF OrdersHaveOwners
<1>9. ASSUME NEW v \in DOMAIN vwap, NEW child \in Children(v)
      PROVE  /\ order'[child].client_id = vwap[v].client_id
             /\ order'[child].side = vwap[v].side
             /\ order'[child].quantity <= vwap[v].quantity
             /\ \A w \in DOMAIN vwap \ {v} : child \notin Children(w)'
  BY <1>4, <1>5, <1>9 DEF OrdersHaveOwners, SameContract
<1> QED BY <1>3, <1>4, <1>6, <1>7, <1>8, <1>9 DEF OrdersHaveOwners

LEMMA VwapSubmissionRecords ==
  ASSUME EngineInv, EngineInv', [EngineNext]_allVars, OrdersHaveOwners,
         NEW id \in NextId, NEW n \in VwapSubmission, SubmitVwapOrder(id, n)
  PROVE  OrdersHaveOwners'
<1>1. /\ id \notin Seen /\ id \notin DOMAIN vwap
      /\ n.child_order_ids = <<>> /\ n.client_id \in Client
  BY VwapAssumption DEF NextId, Unused, VwapOrder
<1>2. /\ DOMAIN vwap' = DOMAIN vwap \cup {id} /\ vwap'[id] = n
      /\ \A w \in DOMAIN vwap : vwap'[w] = vwap[w]
      /\ vwap_orders' = vwap_orders \cup {id}
      /\ client_orders' = [client_orders EXCEPT ![n.client_id] = @ \cup {id}]
      /\ UNCHANGED vars
  BY <1>1 DEF SubmitVwapOrder, Record
<1>3. /\ Seen' = Seen /\ (\A x : InBook(x)' <=> InBook(x)) /\ UNCHANGED order
  BY <1>2, BookUntouched
<1>4. /\ \A w \in DOMAIN vwap : Children(w)' = Children(w)
      /\ Children(id)' = {}
  BY <1>1, <1>2 DEF Children
<1>5. AllChildren' = AllChildren
  BY <1>2, <1>4 DEF AllChildren
<1>6. /\ client_orders \in [Client -> SUBSET (Seen \cup DOMAIN vwap)]
      /\ vwap_orders \subseteq DOMAIN vwap
      /\ \A v \in DOMAIN vwap : vwap[v].client_id \in Client
      /\ \A x \in Seen : order[x].client_id \in Client
  BY DEF EngineInv, IdsApart, VwapTyped, VwapOrder, Inv, TypeInv, Order
<1>7. \A x \in Seen \ AllChildren : InBook(x)' => x \in client_orders'[order'[x].client_id]
  BY <1>1, <1>2, <1>3, <1>6 DEF OrdersHaveOwners
<1>8. ASSUME NEW c \in Client, NEW x \in client_orders'[c]
      PROVE  c = IF x \in Seen THEN order'[x].client_id ELSE vwap'[x].client_id
  <2>1. CASE x = id
    <3>1. id \notin client_orders[c]
      BY <1>1, <1>6
    <3> QED BY <1>1, <1>2, <1>6, <1>8, <2>1, <3>1
  <2>2. CASE x # id
    <3>1. x \in client_orders[c] /\ x \in Seen \cup DOMAIN vwap
      BY <1>1, <1>2, <1>6, <1>8, <2>2
    <3> QED BY <1>2, <1>3, <3>1 DEF OrdersHaveOwners
  <2> QED BY <2>1, <2>2
<1>9. \A v \in vwap_orders' : v \in client_orders'[vwap'[v].client_id]
  BY <1>1, <1>2, <1>6 DEF OrdersHaveOwners
<1>10. ASSUME NEW v \in DOMAIN vwap', NEW child \in Children(v)'
       PROVE  /\ order'[child].client_id = vwap'[v].client_id
              /\ order'[child].side = vwap'[v].side
              /\ order'[child].quantity <= vwap'[v].quantity
              /\ \A w \in DOMAIN vwap' \ {v} : child \notin Children(w)'
  BY <1>2, <1>3, <1>4, <1>10 DEF OrdersHaveOwners
<1> QED BY <1>3, <1>5, <1>7, <1>8, <1>9, <1>10 DEF OrdersHaveOwners

\* A placed child has the terms of its parent and belongs to no other.
LEMMA PlacementHasOwner ==
  ASSUME EngineInv, EngineInv', [EngineNext]_allVars, OrdersHaveOwners,
         NEW id \in DOMAIN vwap, NEW new \in NextId, NEW price, NEW quantity,
         PlaceChildOrder(id, new, price, quantity)
  PROVE  OrdersHaveOwners'
<1> DEFINE o == ChildOrder(vwap[id], price, quantity)
<1>1. /\ new \in Id /\ new \notin Seen /\ new \notin DOMAIN vwap
      /\ AddLimitOrder(new, o)
      /\ price \in ChildPrices(vwap[id])
      /\ quantity \in 1..(vwap[id].quantity - vwap[id].filled_quantity)
      /\ vwap' = [vwap EXCEPT ![id].child_order_ids = Append(@, new)]
      /\ UNCHANGED <<client_orders, vwap_orders>>
  BY DEF PlaceChildOrder, NextId, Unused
<1>2. /\ o \in Incoming
      /\ o.client_id = vwap[id].client_id /\ o.side = vwap[id].side /\ o.quantity = quantity
  BY <1>1, ChildIsAdmissible DEF ChildOrder, NewOrder
<1> HIDE DEF o
<1>3. /\ Seen' = Seen \cup {new} /\ \A x \in Seen : InBook(x)' => InBook(x)
      /\ SameContract(order'[new], o)
  BY <1>1, <1>2, ArrivalAddsOne, ArrivalTerms DEF EngineInv
<1>4. /\ vwap \in [DOMAIN vwap -> VwapOrder] /\ vwap[id] \in VwapOrder
      /\ vwap[id].child_order_ids \in Seq(Id) /\ vwap[id].filled_quantity \in Nat
      /\ vwap[id].quantity \in Nat
  BY DEF EngineInv, VwapTyped, VwapOrder
<1>5. /\ DOMAIN vwap' = DOMAIN vwap /\ \A w \in DOMAIN vwap \ {id} : vwap'[w] = vwap[w]
      /\ SameVwap(vwap'[id], vwap[id])
      /\ vwap'[id].child_order_ids = Append(vwap[id].child_order_ids, new)
  BY <1>1, <1>4 DEF VwapOrder, SameVwap
<1>6. /\ \A w \in DOMAIN vwap \ {id} : Children(w)' = Children(w)
      /\ Children(id)' = Children(id) \cup {new}
  <2>1. \A w \in DOMAIN vwap \ {id} : Children(w)' = Children(w)
    BY <1>5 DEF Children
  <2> DEFINE c == vwap[id].child_order_ids
  <2>2. /\ Len(c) \in Nat /\ DOMAIN c = 1..Len(c)
        /\ DOMAIN Append(c, new) = 1..(Len(c) + 1)
        /\ Append(c, new)[Len(c) + 1] = new
        /\ \A i \in 1..Len(c) : Append(c, new)[i] = c[i]
    BY <1>1, <1>4, AppendProperties, LenProperties
  <2> HIDE DEF c
  <2>3. {Append(c, new)[i] : i \in 1..(Len(c) + 1)} = {c[i] : i \in 1..Len(c)} \cup {new}
    <3>1. \A i \in 1..(Len(c) + 1) : i \in 1..Len(c) \/ i = Len(c) + 1
      BY <2>2
    <3>2. Len(c) + 1 \in 1..(Len(c) + 1) /\ \A i \in 1..Len(c) : i \in 1..(Len(c) + 1)
      BY <2>2
    <3> QED BY <2>2, <3>1, <3>2
  <2>4. Children(id)' = {Append(c, new)[i] : i \in 1..(Len(c) + 1)}
        /\ Children(id) = {c[i] : i \in 1..Len(c)}
    BY <1>5, <2>2 DEF Children, c
  <2> QED BY <2>1, <2>3, <2>4
<1>7. /\ AllChildren' = AllChildren \cup {new}
      /\ \A w \in DOMAIN vwap : Children(w) \subseteq Seen
  BY <1>5, <1>6 DEF AllChildren, EngineInv, IdsApart
<1>8. /\ \A x \in Seen : SameContract(order'[x], order[x])
      /\ \A w \in DOMAIN vwap : SameVwap(vwap'[w], vwap[w])
  BY <1>5, TermsStay DEF SameVwap
<1>9. \A x \in Seen' \ AllChildren' : InBook(x)' => x \in client_orders'[order'[x].client_id]
  BY <1>1, <1>3, <1>7, <1>8 DEF OrdersHaveOwners, SameContract
<1>10. ASSUME NEW c \in Client, NEW x \in client_orders'[c]
       PROVE  c = IF x \in Seen' THEN order'[x].client_id ELSE vwap'[x].client_id
  <2>1. x \in client_orders[c] /\ x \in Seen \cup DOMAIN vwap
    BY <1>1, <1>10 DEF EngineInv, IdsApart
  <2> QED BY <1>1, <1>3, <1>8, <2>1 DEF OrdersHaveOwners, SameContract, SameVwap
<1>11. \A v \in vwap_orders' : v \in client_orders'[vwap'[v].client_id]
  <2>1. vwap_orders \subseteq DOMAIN vwap
    BY DEF EngineInv, VwapTyped
  <2> QED BY <1>1, <1>8, <2>1 DEF OrdersHaveOwners, SameVwap
<1>12. ASSUME NEW v \in DOMAIN vwap, NEW child \in Children(v)'
       PROVE  /\ order'[child].client_id = vwap'[v].client_id
              /\ order'[child].side = vwap'[v].side
              /\ order'[child].quantity <= vwap'[v].quantity
              /\ \A w \in DOMAIN vwap \ {v} : child \notin Children(w)'
  <2>1. CASE child = new
    <3>1. v = id
      BY <1>1, <1>6, <1>7, <1>12, <2>1
    <3>2. quantity <= vwap[id].quantity
      BY <1>1, <1>4
    <3> QED BY <1>1, <1>2, <1>3, <1>6, <1>7, <1>8, <2>1, <3>1, <3>2 DEF SameContract, SameVwap
  <2>2. CASE child # new
    <3>1. child \in Children(v) /\ child \in Seen
      BY <1>6, <1>7, <1>12, <2>2
    <3>2. /\ order[child].client_id = vwap[v].client_id
          /\ order[child].side = vwap[v].side
          /\ order[child].quantity <= vwap[v].quantity
          /\ \A w \in DOMAIN vwap \ {v} : child \notin Children(w)
      BY <3>1 DEF OrdersHaveOwners
    <3> QED BY <1>6, <1>8, <2>2, <3>1, <3>2 DEF SameContract, SameVwap
  <2> QED BY <2>1, <2>2
<1> QED BY <1>5, <1>9, <1>10, <1>11, <1>12 DEF OrdersHaveOwners

LEMMA OwnersStep ==
  ASSUME EngineInv, [EngineNext]_allVars, OrdersHaveOwners
  PROVE  OrdersHaveOwners'
<1>1. EngineInv'
  BY EngineStepSafe
<1>2. CASE Request
  BY <1>1, <1>2, SubmissionRecords, VwapSubmissionRecords, OthersKeepOwners DEF Request
<1>3. CASE Progress \/ ProcessMatching \/ UNCHANGED allVars
  BY <1>1, <1>3, OthersKeepOwners DEF Progress
<1>4. ASSUME NEW id \in vwap_tasks, VwapTask(id) PROVE OrdersHaveOwners'
  <2>1. id \in DOMAIN vwap
    BY DEF EngineInv, VwapTyped
  <2>2. CASE VwapOrderGone(id) \/ VwapOrderWithoutBook(id)
    BY <1>1, <2>2, OthersKeepOwners
  <2>3. ASSUME NEW new \in NextId, NEW price, NEW quantity,
               PlaceChildOrder(id, new, price, quantity)
        PROVE  OrdersHaveOwners'
    BY <1>1, <2>1, <2>3, PlacementHasOwner
  <2> QED BY <1>4, <2>2, <2>3 DEF VwapTask
<1> QED BY <1>2, <1>3, <1>4 DEF EngineNext

(***************************************************************************)
(* Whatever is in the book is recorded for the client who submitted it, a  *)
(* child for one VWAP order of the same client and side.                   *)
(***************************************************************************)
THEOREM OwnersCorrect == EngineSpec => []OrdersHaveOwners
<1>1. EngineInit => OrdersHaveOwners
  BY DEF EngineInit, Init, OrdersHaveOwners, Seen
<1>2. EngineInv /\ OrdersHaveOwners /\ [EngineNext]_allVars => OrdersHaveOwners'
  BY OwnersStep
<1> QED BY <1>1, <1>2, EngineAlwaysInv, PTL DEF EngineSpec

(***************************************************************************)
(* No active VWAP order loses its background task, whatever is called,     *)
(* cancelled or completed meanwhile, unless its symbol has a null book;    *)
(* and a null book is left only by a VWAP order of its symbol, whose task  *)
(* has ended.                                                              *)
(***************************************************************************)
LEMMA TasksStep ==
  ASSUME EngineInv, [EngineNext]_allVars, VwapKeepsItsTask
  PROVE  VwapKeepsItsTask'
<1>1. /\ vwap \in [DOMAIN vwap -> VwapOrder] /\ vwap_orders \subseteq DOMAIN vwap
      /\ order_books \in [Symbol -> {"absent", "null", "open"}]
  <2>1. vwap \in [DOMAIN vwap -> VwapOrder] /\ vwap_orders \subseteq DOMAIN vwap
    BY DEF EngineInv, VwapTyped
  <2>2. order_books \in [Symbol -> {"absent", "null", "open"}]
    BY DEF EngineInv, EngineTyped
  <2> QED BY <2>1, <2>2
<1>2. ASSUME VwapsStay, UNCHANGED vwap_tasks,
             \A s \in Symbol : order_books[s] = "null" <=> order_books'[s] = "null"
      PROVE  VwapKeepsItsTask'
  <2>1. ASSUME NEW v \in vwap_orders', order_books'[vwap'[v].symbol] # "null"
        PROVE  v \in vwap_tasks'
    <3>1. v \in vwap_orders /\ vwap'[v].symbol = vwap[v].symbol /\ vwap[v].symbol \in Symbol
      BY <1>1, <1>2, <2>1 DEF VwapsStay, SameVwap, VwapOrder
    <3> QED BY <1>2, <2>1, <3>1 DEF VwapKeepsItsTask
  <2>2. ASSUME NEW s \in Symbol, order_books'[s] = "null"
        PROVE  \E v \in DOMAIN vwap' \ vwap_tasks' : vwap'[v].symbol = s
    <3>1. PICK v \in DOMAIN vwap \ vwap_tasks : vwap[v].symbol = s
      BY <1>2, <2>2 DEF VwapKeepsItsTask
    <3> QED BY <1>2, <3>1 DEF VwapsStay, SameVwap
  <2> QED BY <2>1, <2>2 DEF VwapKeepsItsTask
<1>3. ASSUME UNCHANGED <<vwap, vwap_orders, vwap_tasks, order_books>>
      PROVE  VwapKeepsItsTask'
  BY <1>2, <1>3 DEF VwapsStay, SameVwap
<1>4. ASSUME NEW id, NEW o, SubmitToBook(id, o) \/ SubmitMarketOrder(id, o)
      PROVE  VwapKeepsItsTask'
  <2>1. /\ order_books' = [order_books EXCEPT ![Traded] = "open"]
        /\ order_books[Traded] # "null"
        /\ UNCHANGED <<vwap, vwap_orders, vwap_tasks>>
    BY <1>4 DEF SubmitToBook, SubmitMarketOrder, OpenBook, vwapState
  <2> QED BY <1>1, <1>2, <2>1 DEF VwapsStay, SameVwap
<1>5. ASSUME NEW id \in NextId, NEW v \in VwapSubmission, SubmitVwapOrder(id, v)
      PROVE  VwapKeepsItsTask'
  <2>1. /\ id \notin DOMAIN vwap
        /\ \A w \in DOMAIN vwap : vwap'[w] = vwap[w]
        /\ vwap_orders' = vwap_orders \cup {id} /\ vwap_tasks' = vwap_tasks \cup {id}
        /\ UNCHANGED order_books
    BY <1>5 DEF SubmitVwapOrder, NextId, Unused
  <2>2. DOMAIN vwap' = DOMAIN vwap \cup {id}
    BY <1>5 DEF SubmitVwapOrder
  <2> QED BY <1>1, <2>1, <2>2 DEF VwapKeepsItsTask
<1>6. CASE UpdateVwapOrderProgress \/ CancelVwapReturns
  <2>1. UNCHANGED <<vwap_tasks, order_books>>
    BY <1>6 DEF UpdateVwapOrderProgress, CancelVwapReturns
  <2> QED BY <1>2, <1>6, <2>1, CreditStays
<1>7. CASE \/ BookStep \/ MarketOrderReturns \/ MatchOrdersReturns \/ ProcessMatching
           \/ CancelChild \/ SubmitToNullBook
           \/ \E id : WindowEnds(id)
           \/ \E id, client : \/ CancelBookOrder(id, client) \/ CancelVwapOrder(id, client)
                              \/ CancelInNullBook(id, client)
           \/ UNCHANGED allVars
  <2>1. CASE BookStep \/ MarketOrderReturns \/ MatchOrdersReturns \/ ProcessMatching
             \/ CancelChild \/ SubmitToNullBook
    BY <1>3, <2>1 DEF BookStep, MarketOrderReturns, MatchOrdersReturns, ProcessMatching,
       CancelChild, SubmitToNullBook, vwapState
  <2>2. ASSUME NEW id, WindowEnds(id) PROVE VwapKeepsItsTask'
    BY <1>3, <2>2 DEF WindowEnds
  <2>3. ASSUME NEW id, NEW client,
               \/ CancelBookOrder(id, client) \/ CancelVwapOrder(id, client)
               \/ CancelInNullBook(id, client)
        PROVE  VwapKeepsItsTask'
    BY <1>3, <2>3 DEF CancelBookOrder, CancelVwapOrder, CancelInNullBook, vwapState
  <2>4. CASE UNCHANGED allVars
    BY <1>3, <2>4 DEF allVars, engine, vwapState
  <2> QED BY <1>7, <2>1, <2>2, <2>3, <2>4
<1>8. ASSUME NEW id \in vwap_tasks, VwapTask(id) PROVE VwapKeepsItsTask'
  <2>1. CASE VwapOrderGone(id)
    BY <2>1 DEF VwapOrderGone, VwapKeepsItsTask
  <2>2. CASE VwapOrderWithoutBook(id)
    <3>1. /\ id \in vwap_orders /\ vwap[id].symbol \in Symbol
          /\ order_books' = [order_books EXCEPT ![vwap[id].symbol] = "null"]
          /\ vwap_tasks' = vwap_tasks \ {id} /\ UNCHANGED <<vwap, vwap_orders>>
      BY <1>1, <2>2 DEF VwapOrderWithoutBook, VwapOrder
    <3>2. ASSUME NEW v \in vwap_orders, order_books'[vwap[v].symbol] # "null"
          PROVE  v \in vwap_tasks'
      <4>1. vwap[v].symbol \in Symbol
        BY <1>1, <3>2 DEF VwapOrder
      <4>2. v # id /\ order_books[vwap[v].symbol] # "null"
        BY <1>1, <3>1, <3>2, <4>1
      <4> QED BY <3>1, <3>2, <4>2 DEF VwapKeepsItsTask
    <3>3. ASSUME NEW s \in Symbol, order_books'[s] = "null"
          PROVE  \E v \in DOMAIN vwap \ vwap_tasks' : vwap[v].symbol = s
      <4>1. CASE s = vwap[id].symbol
        BY <1>1, <3>1, <4>1
      <4>2. CASE s # vwap[id].symbol
        BY <1>1, <3>1, <3>3, <4>2 DEF VwapKeepsItsTask
      <4> QED BY <4>1, <4>2
    <3> QED BY <3>1, <3>2, <3>3 DEF VwapKeepsItsTask
  <2>3. ASSUME NEW child, NEW price, NEW quantity,
               PlaceChildOrder(id, child, price, quantity)
        PROVE  VwapKeepsItsTask'
    <3>1. /\ id \in DOMAIN vwap
          /\ vwap' = [vwap EXCEPT ![id].child_order_ids = Append(@, child)]
          /\ UNCHANGED <<vwap_tasks, vwap_orders, order_books>>
      BY <1>8, <2>3 DEF PlaceChildOrder, EnqueueAgain, EngineInv, VwapTyped
    <3>2. /\ DOMAIN vwap' = DOMAIN vwap
          /\ \A v \in DOMAIN vwap : vwap'[v].symbol = vwap[v].symbol
      BY <1>1, <3>1 DEF VwapOrder
    <3> QED BY <1>1, <3>1, <3>2 DEF VwapKeepsItsTask
  <2> QED BY <1>8, <2>1, <2>2, <2>3 DEF VwapTask
<1>9. CASE Request
  BY <1>4, <1>5, <1>7, <1>9 DEF Request
<1> QED BY <1>6, <1>7, <1>8, <1>9 DEF EngineNext, Progress

(***************************************************************************)
(* An active VWAP order is always about to be processed again, unless its  *)
(* symbol has a null book, which is the work of its own or of another VWAP *)
(* order of that symbol.                                                   *)
(***************************************************************************)
THEOREM TasksCorrect == EngineSpec => []VwapKeepsItsTask
<1>1. EngineInit => VwapKeepsItsTask
  BY DEF EngineInit, VwapKeepsItsTask
<1>2. EngineInv /\ VwapKeepsItsTask /\ [EngineNext]_allVars => VwapKeepsItsTask'
  BY TasksStep
<1> QED BY <1>1, <1>2, EngineAlwaysInv, PTL DEF EngineSpec

(***************************************************************************)
(* Nothing that can be matched is left when match_orders returns: a side   *)
(* with orders has a best price.                                           *)
(***************************************************************************)
LEMMA MatchingLeavesNothing ==
  ASSUME Inv, FiniteLevels, ~Crossed
  PROVE  \A p \in DOMAIN book["BUY"], q \in DOMAIN book["SELL"] : ~(p >= q)
<1> SUFFICES ASSUME NEW p \in DOMAIN book["BUY"], NEW q \in DOMAIN book["SELL"], p >= q
             PROVE  FALSE
  OBVIOUS
<1>1. DOMAIN book["BUY"] \subseteq Int /\ DOMAIN book["SELL"] \subseteq Int
  BY DEF Inv, TypeInv, LevelsTyped, IsLevels, OrderSide
<1>2. PICK b \in DOMAIN book["BUY"] : IsBest("BUY", b)
  BY <1>1, SideHasBest DEF FiniteLevels, OrderSide
<1>3. PICK s \in DOMAIN book["SELL"] : IsBest("SELL", s)
  BY <1>1, SideHasBest DEF FiniteLevels, OrderSide
<1>4. b >= p /\ s <= q
  BY <1>1, <1>2, <1>3 DEF IsBest
<1>5. b >= s
  BY <1>1, <1>4
<1> QED BY <1>2, <1>3, <1>5 DEF Crossed, Crossing

(***************************************************************************)
(* Whoever waits unmatched after a step of the book that brings no new     *)
(* order, and that records the orders it converts, did so before.          *)
(***************************************************************************)
LEMMA WaitedBefore ==
  ASSUME Inv, Inv', Evolution, Seen' = Seen, NEW side \in OrderSide, SideEvolves(side),
         NEW p \in DOMAIN book'[side], NEW i \in DOMAIN book'[side][p],
         NEW x, x = book'[side][p][i], x \notin Converts
  PROVE  /\ p \in DOMAIN book[side]
         /\ \E k \in DOMAIN book[side][p] : book[side][p][k] = x
<1>1. IsLevels(book[side], Seen) /\ IsLevels(book'[side], Seen')
  BY DEF Inv, TypeInv, LevelsTyped
<1>2. x \in Seen
  <2>1. book'[side][p] \in Seq(Seen')
    BY <1>1 DEF IsLevels
  <2> QED BY <2>1, ElementOfSeq, LenProperties
<1>3. Occurs(book[side], x)
  <2>1. CASE book'[side] = book[side]
    BY <2>1 DEF Occurs
  <2>2. CASE SidePushes(side)
    <3>1. PICK price \in Int, n \in Id : /\ ~Occurs(book[side], n) /\ JoinsRightly(n)
                                        /\ book'[side] = PushBack(book[side], price, n)
      BY <2>2 DEF SidePushes
    <3>2. n # x
      BY <1>2, <3>1 DEF JoinsRightly, Converts
    <3>3. IsLevels(book[side], Seen \cup {n})
      BY <1>1, SeqMonotonic DEF IsLevels
    <3>4. p \in DOMAIN book[side] /\ i \in DOMAIN book[side][p] /\ x = book[side][p][i]
      BY <3>1, <3>2, <3>3, PushBackProperties
    <3> QED BY <3>4 DEF Occurs
  <2>3. CASE SideErases(side)
    <3>1. AtMostErases(side)
      BY <2>3 DEF SideErases, AtMostErases
    <3> QED BY <3>1, ErasesKeepEntries DEF Occurs
  <2> QED BY <2>1, <2>2, <2>3 DEF SideEvolves
<1> QED BY <1>3, EvolvesInOrder DEF SameOrder

LEMMA UnmatchedBefore ==
  ASSUME Inv, Inv', Evolution, Seen' = Seen, \A side \in OrderSide : SideEvolves(side),
         converted \cup Converts \subseteq converted', Unmatched'
  PROVE  Unmatched
<1>1. PICK p \in DOMAIN book'["BUY"], q \in DOMAIN book'["SELL"] :
        /\ p >= q
        /\ \E i \in DOMAIN book'["BUY"][p], j \in DOMAIN book'["SELL"][q] :
             book'["BUY"][p][i] \notin converted' /\ book'["SELL"][q][j] \notin converted'
  BY DEF Unmatched
<1>2. PICK i \in DOMAIN book'["BUY"][p], j \in DOMAIN book'["SELL"][q] :
             book'["BUY"][p][i] \notin converted' /\ book'["SELL"][q][j] \notin converted'
  BY <1>1
<1>3. PICK b : b = book'["BUY"][p][i]
  OBVIOUS
<1>4. PICK s : s = book'["SELL"][q][j]
  OBVIOUS
<1>5. b \notin Converts /\ b \notin converted /\ s \notin Converts /\ s \notin converted
  BY <1>2, <1>3, <1>4
<1>6. /\ p \in DOMAIN book["BUY"]
      /\ \E k \in DOMAIN book["BUY"][p] : book["BUY"][p][k] = b
  BY <1>3, <1>5, WaitedBefore DEF OrderSide
<1>7. /\ q \in DOMAIN book["SELL"]
      /\ \E k \in DOMAIN book["SELL"][q] : book["SELL"][q][k] = s
  BY <1>4, <1>5, WaitedBefore DEF OrderSide
<1> QED BY <1>1, <1>5, <1>6, <1>7 DEF Unmatched

\* A cancel converts nobody.
LEMMA CancelConvertsNobody ==
  ASSUME Inv, NEW x, CancelInBook(x)
  PROVE  Converts = {}
<1>1. order \in [Seen -> Order]
  BY DEF Inv, TypeInv
<1>2. UNCHANGED order \/ \E y : order' = [order EXCEPT ![y].status = "CANCELLED"]
  BY DEF CancelInBook, CancelOrder, CancelResting, CancelStop, vars
<1>3. \A id \in Seen : order'[id].type = order[id].type
  BY <1>1, <1>2 DEF Order
<1> QED BY <1>3 DEF Converts

(***************************************************************************)
(* A book that waits to be matched has a task to come or is being matched, *)
(* and only a matching task is ever in the matching loop.                  *)
(***************************************************************************)
Scheduled == Unmatched => matching_tasks > 0 \/ pc = "match"

OnlyTasksMatch == pc = "match" => op = "matching"

SchedulingInv == FiniteLevels /\ Scheduled /\ OnlyTasksMatch

LEMMA BookStepSchedules ==
  ASSUME EngineInv, EngineInv', SchedulingInv, [Next]_vars, BookStep
  PROVE  Scheduled' /\ OnlyTasksMatch'
<1>1. Inv /\ Inv' /\ Evolution /\ Seen' = Seen /\ matching_tasks' = matching_tasks
  BY StepEvolves, StepKeepsPlaces DEF EngineInv, BookStep
<1>2. \A side \in OrderSide : SideEvolves(side)
  BY <1>1, StepPlaces DEF PlacesEvolve
<1>3. CASE MatchDone
  <2>1. \A p \in DOMAIN book["BUY"], q \in DOMAIN book["SELL"] : ~(p >= q)
    BY <1>1, <1>3, MatchingLeavesNothing DEF SchedulingInv, MatchDone
  <2>2. ~Unmatched'
    BY <1>3, <2>1 DEF MatchDone, Unmatched
  <2>3. pc' = "idle"
    BY <1>3 DEF MatchDone
  <2> QED BY <2>2, <2>3 DEF Scheduled, OnlyTasksMatch
<1>4. CASE ~MatchDone
  <2>1. pc = "match" <=> pc' = "match"
    <3>1. ASSUME NEW b, NEW s, MatchSelfTrade(b, s) \/ MatchTrade(b, s)
          PROVE  pc = "match" /\ pc' = "match"
      BY <3>1 DEF MatchSelfTrade, MatchTrade
    <3>2. ASSUME NEW p, MarketSelfTrade(p) \/ MarketTrade(p)
          PROVE  pc # "match" /\ pc' # "match"
      BY <3>2 DEF MarketSelfTrade, MarketTrade
    <3>3. CASE MarketDone \/ CheckNotReached \/ CheckTriggersStopLimit \/ CheckTriggersStop
               \/ CheckDone
      BY <3>3 DEF MarketDone, CheckNotReached, CheckTriggersStopLimit, CheckTriggersStop,
                  CheckDone, StartMarket
    <3> QED BY <1>4, <3>1, <3>2, <3>3 DEF BookStep, Step
  <2>2. converted' = converted \cup Converts
    BY <2>1 DEF BookStep
  <2>3. Scheduled'
    BY <1>1, <1>2, <2>1, <2>2, UnmatchedBefore DEF SchedulingInv, Scheduled
  <2>4. OnlyTasksMatch'
    BY <2>1 DEF SchedulingInv, OnlyTasksMatch, BookStep
  <2> QED BY <2>3, <2>4
<1> QED BY <1>3, <1>4

LEMMA SchedulingStep ==
  ASSUME EngineInv, [EngineNext]_allVars, SchedulingInv
  PROVE  SchedulingInv'
<1>1. /\ EngineInv' /\ [Next]_vars /\ Inv /\ Inv' /\ Evolution
      /\ \A side \in OrderSide : SideEvolves(side)
      /\ matching_tasks \in Nat
  <2>1. EngineInv' /\ [Next]_vars
    BY EngineStepSafe, EngineStepsAreBookSteps
  <2>2. Inv /\ Inv' /\ Evolution
    BY <2>1, StepEvolves DEF EngineInv
  <2>3. \A side \in OrderSide : SideEvolves(side)
    BY <2>1, <2>2, StepPlaces DEF PlacesEvolve
  <2> QED BY <2>1, <2>2, <2>3 DEF EngineInv, EngineTyped
<1>2. FiniteLevels'
  BY <1>1, LevelsStayFinite DEF SchedulingInv
<1> SUFFICES Scheduled' /\ OnlyTasksMatch'
  BY <1>2 DEF SchedulingInv
<1>3. ASSUME matching_tasks' = matching_tasks + 1 PROVE Scheduled'
  BY <1>1, <1>3 DEF Scheduled
<1>4. ASSUME matching_tasks' = matching_tasks, pc = "match" => pc' = "match",
             UNCHANGED converted, (Seen' = Seen /\ Converts = {}) \/ UNCHANGED book
      PROVE  Scheduled'
  <2>1. CASE Seen' = Seen /\ Converts = {}
    BY <1>1, <1>4, <2>1, UnmatchedBefore DEF SchedulingInv, Scheduled
  <2>2. CASE UNCHANGED book
    BY <1>4, <2>2 DEF SchedulingInv, Scheduled, Unmatched
  <2> QED BY <1>4, <2>1, <2>2
<1>5. op = "none" => pc # "match"
  BY DEF SchedulingInv, OnlyTasksMatch
<1>6. ASSUME UNCHANGED <<vars, converted>>, matching_tasks' = matching_tasks,
             op # "matching" \/ op' = op \/ pc = "idle"
      PROVE  Scheduled' /\ OnlyTasksMatch'
  <2>1. pc' = pc /\ UNCHANGED book
    BY <1>6 DEF vars
  <2>2. OnlyTasksMatch'
    BY <1>6, <2>1 DEF SchedulingInv, OnlyTasksMatch
  <2> QED BY <1>4, <1>6, <2>1, <2>2
<1>7. ASSUME NEW x, CancelInBook(x), matching_tasks' = matching_tasks, op' = op,
             op # "matching", UNCHANGED converted
      PROVE  Scheduled' /\ OnlyTasksMatch'
  <2>1. Seen' = Seen /\ Converts = {}
    BY <1>1, <1>7, CancelInBookEffect, CancelConvertsNobody
  <2>2. pc' = pc
    BY <1>7 DEF CancelInBook, CancelOrder, CancelResting, CancelStop, vars
  <2> QED BY <1>4, <1>7, <2>1, <2>2 DEF SchedulingInv, OnlyTasksMatch
<1>8. ASSUME NEW id, NEW o, SubmitToBook(id, o) \/ SubmitMarketOrder(id, o)
      PROVE  Scheduled' /\ OnlyTasksMatch'
  <2>1. CASE SubmitToBook(id, o)
    <3>1. matching_tasks' = matching_tasks + 1
      BY <2>1 DEF SubmitToBook, ScheduleMatching
    <3>2. pc' # "match"
      BY <2>1 DEF SubmitToBook, AddLimitOrder, AddStopOrder, AddTriggeredStopLimit,
                  AddTriggeredStop, StartMarket, Arrives
    <3> QED BY <1>3, <3>1, <3>2 DEF OnlyTasksMatch
  <2>2. CASE SubmitMarketOrder(id, o)
    <3>1. /\ matching_tasks' = matching_tasks /\ UNCHANGED <<book, converted>>
          /\ pc = "idle" /\ pc' = "market"
      BY <2>2 DEF SubmitMarketOrder, ExecuteMarketOrder, StartMarket, Arrives
    <3> QED BY <1>4, <3>1 DEF OnlyTasksMatch
  <2> QED BY <1>8, <2>1, <2>2
<1>9. CASE MarketOrderReturns \/ MatchOrdersReturns
  <2>1. pc = "idle" /\ matching_tasks' = matching_tasks /\ UNCHANGED converted
    BY <1>9 DEF MarketOrderReturns, MatchOrdersReturns
  <2>2. CASE UNCHANGED vars
    BY <1>6, <2>1, <2>2
  <2>3. CASE CheckStopLossOrders
    <3>1. UNCHANGED book /\ pc' = "check"
      BY <2>3 DEF CheckStopLossOrders
    <3> QED BY <1>4, <2>1, <3>1 DEF OnlyTasksMatch
  <2> QED BY <1>9, <2>2, <2>3 DEF MarketOrderReturns, MatchOrdersReturns, CheckStops
<1>10. CASE ProcessMatching
  BY <1>10 DEF ProcessMatching, MatchOrders, Scheduled, OnlyTasksMatch
<1>11. CASE UpdateVwapOrderProgress \/ CancelVwapReturns \/ SubmitToNullBook
  BY <1>6, <1>11 DEF UpdateVwapOrderProgress, CancelVwapReturns, SubmitToNullBook
<1>12. ASSUME NEW id, NEW v, NEW client,
              \/ SubmitVwapOrder(id, v) \/ WindowEnds(id)
              \/ VwapOrderGone(id) \/ VwapOrderWithoutBook(id)
              \/ CancelVwapOrder(id, client) \/ CancelInNullBook(id, client)
       PROVE  Scheduled' /\ OnlyTasksMatch'
  BY <1>6, <1>12 DEF SubmitVwapOrder, WindowEnds, VwapOrderGone, VwapOrderWithoutBook,
                     CancelVwapOrder, CancelInNullBook
<1>13. ASSUME NEW id, NEW client, CancelBookOrder(id, client)
       PROVE  Scheduled' /\ OnlyTasksMatch'
  BY <1>7, <1>13 DEF CancelBookOrder
<1>14. CASE CancelChild
  BY <1>7, <1>14 DEF CancelChild
<1>15. ASSUME NEW id, NEW child, NEW price, NEW quantity,
              PlaceChildOrder(id, child, price, quantity)
       PROVE  Scheduled' /\ OnlyTasksMatch'
  <2>1. matching_tasks' = matching_tasks + 1 /\ pc' # "match"
    BY <1>15 DEF PlaceChildOrder, ScheduleMatching, AddLimitOrder, Arrives
  <2> QED BY <1>3, <2>1 DEF OnlyTasksMatch
<1>16. CASE Request
  BY <1>8, <1>11, <1>12, <1>13, <1>16 DEF Request
<1>17. CASE Progress
  <2>1. CASE BookStep
    BY <1>1, <2>1, BookStepSchedules
  <2> QED BY <1>9, <1>11, <1>14, <1>17, <2>1 DEF Progress
<1>18. ASSUME NEW id \in vwap_tasks, VwapTask(id) PROVE Scheduled' /\ OnlyTasksMatch'
  BY <1>12, <1>15, <1>18 DEF VwapTask
<1>19. CASE UNCHANGED allVars
  BY <1>6, <1>19 DEF allVars, engine
<1> QED BY <1>10, <1>16, <1>17, <1>18, <1>19 DEF EngineNext

(***************************************************************************)
(* Whenever the engine is free and two orders wait although their prices   *)
(* meet, a matching task is on its way, whatever overtook whatever.  Left  *)
(* out (Unmatched) are stop limit orders that a pass has converted since   *)
(* match_orders last returned.                                             *)
(***************************************************************************)
THEOREM MatchingCorrect == EngineSpec => []MatchingIsScheduled
<1>1. EngineInit => SchedulingInv
  <2> SUFFICES ASSUME EngineInit PROVE SchedulingInv
    OBVIOUS
  <2>1. pc = "idle" /\ \A side \in OrderSide : DOMAIN book[side] = {}
    BY DEF EngineInit, Init
  <2> QED BY <2>1, FS_EmptySet
          DEF SchedulingInv, FiniteLevels, Scheduled, OnlyTasksMatch, Unmatched, OrderSide
<1>2. EngineInv /\ SchedulingInv /\ [EngineNext]_allVars => SchedulingInv'
  BY SchedulingStep
<1>3. SchedulingInv => MatchingIsScheduled
  BY DEF SchedulingInv, Scheduled, OnlyTasksMatch, MatchingIsScheduled
<1> QED BY <1>1, <1>2, <1>3, EngineAlwaysInv, PTL DEF EngineSpec
=============================================================================
