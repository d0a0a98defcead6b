------------------------ MODULE VWAPCalculatorProofs ------------------------
(***************************************************************************)
(* Proofs about VWAPCalculator: types, the bounds of the advice, and what  *)
(* the turns of an order have to do with the clock, and what the rolling   *)
(* accumulators hold.                                                      *)
(***************************************************************************)
EXTENDS VWAPCalculator, SequenceTheorems, WellFoundedInduction, TLAPS

\* An order's hours; it has no price before its first child; from a child on,
\* its task sleeps at least as long as the throttle wants it to rest.
Rested ==
  \A id \in DOMAIN orders :
    LET o == orders[id]
    IN  /\ o.execution_end_time = o.execution_start_time + 60 * Second * o.minutes - Second
        /\ o.children = 0 => o.last_child_order_price = 0
        /\ o.children > 0 /\ id \in DOMAIN wake =>
             wake[id] >= o.last_child_order_time + 30 * Second

\* Half a minute or more for each child but the first: there is no room for a third
\* one in a minute.
Counted ==
  \A id \in DOMAIN orders :
    LET o == orders[id]
    IN  /\ o.children > 0 =>
             o.last_child_order_time >= o.execution_start_time + 30 * Second * (o.children - 1)
        /\ o.children <= 2 * o.minutes

IInv == TypeOK /\ Rested /\ Counted
-----------------------------------------------------------------------------
(***************************************************************************)
(* Arithmetic.                                                             *)
(***************************************************************************)
\* Rounding down to seconds.
LEMMA SecondsRoundDown ==
  ASSUME NEW d \in Int
  PROVE  /\ Seconds(d) \in Int
         /\ Second * Seconds(d) <= d
         /\ d < Second * (Seconds(d) + 1)
  BY SecondAssumption DEF Seconds

\* A rest of 30 seconds is still one when it is rounded down.
LEMMA FullRest ==
  ASSUME NEW d \in Int, d >= 30 * Second
  PROVE  Seconds(d) >= 30
<1>1. Second \in Nat \ {0}
  BY SecondAssumption DEF SecondAssumption
<1>2. PICK s \in Int : s = Seconds(d)
  BY SecondsRoundDown
<1>3. d < Second * (s + 1)
  BY <1>2, SecondsRoundDown
<1>4. ASSUME s + 1 <= 30 PROVE FALSE
  <2>1. Second * (s + 1) <= Second * 30
    BY <1>1, <1>4
  <2> QED
    BY <1>1, <1>3, <2>1
<1> QED
  BY <1>2, <1>4

\* The other way round: a second left is at least Second ticks, and half a
\* minute in ticks is at most 30 seconds.
LEMMA SomeSecondsLeft ==
  ASSUME NEW d \in Int, Seconds(d) > 0
  PROVE  d >= Second
<1>1. Second \in Nat \ {0}
  BY SecondAssumption DEF SecondAssumption
<1>2. PICK s \in Int : s = Seconds(d)
  BY SecondsRoundDown
<1>3. Second * s <= d /\ s >= 1
  BY <1>2, SecondsRoundDown
<1>4. Second * 1 <= Second * s
  BY <1>1, <1>3
<1> QED
  BY <1>1, <1>3, <1>4

LEMMA AtMostHalfAMinute ==
  ASSUME NEW d \in Int, d <= 30 * Second
  PROVE  Seconds(d) <= 30
<1>1. Second \in Nat \ {0}
  BY SecondAssumption DEF SecondAssumption
<1>2. PICK s \in Int : s = Seconds(d)
  BY SecondsRoundDown
<1>3. Second * s <= d
  BY <1>2, SecondsRoundDown
<1>4. ASSUME s >= 31 PROVE FALSE
  <2>1. Second * 31 <= Second * s
    BY <1>1, <1>4
  <2> QED
    BY <1>1, <1>3, <2>1
<1> QED
  BY <1>2, <1>4

\* n half minutes that end a second before m minutes are over.
LEMMA HalfMinutesFit ==
  ASSUME NEW n \in Nat, NEW m \in Nat, NEW start \in Int,
         start + 30 * Second * n <= start + 60 * Second * m - 2 * Second
  PROVE  n + 1 <= 2 * m
<1>1. Second \in Nat \ {0}
  BY SecondAssumption DEF SecondAssumption
<1>2. Second * (30 * n) <= Second * (60 * m - 2)
  BY <1>1
<1>3. ASSUME 60 * m <= 30 * n PROVE FALSE
  <2>1. Second * (60 * m) <= Second * (30 * n)
    BY <1>1, <1>3
  <2>2. Second * (60 * m - 2) < Second * (60 * m)
    BY <1>1
  <2> QED
    BY <1>1, <1>2, <2>1, <2>2
<1> QED
  BY <1>3

LEMMA AbsIsNat ==
  ASSUME NEW n \in Int
  PROVE  Abs(n) \in Nat /\ Abs(n) >= n /\ Abs(n) >= -n
  BY DEF Abs
-----------------------------------------------------------------------------
(***************************************************************************)
(* The advice, in any state of the right types.                            *)
(***************************************************************************)
\* A price, when there is one, is the target or 0.1 % on the order's own side
\* of it.
LEMMA PriceOnOwnSide ==
  ASSUME TypeOK, NEW o \in VwapOrder, LimitPrice(o) # 0
  PROVE  /\ LimitPrice(o) = 1000 * o.target_vwap
            \/ /\ WithinOnePercent(o)
               /\ LimitPrice(o) = IF o.side = "BUY" THEN 999 * o.target_vwap
                                                     ELSE 1001 * o.target_vwap
         /\ LimitPrice(o) \in Nat /\ LimitPrice(o) >= 999 * o.target_vwap
<1>1. o.target_vwap \in Nat \ {0}
  BY DEF VwapOrder
<1> QED
  BY <1>1 DEF LimitPrice

LEMMA VolumeFactorBounds ==
  ASSUME TypeOK
  PROVE  VolumeFactor \in 500..2000
<1>1. rolling_volume_accumulator \in Int
  BY DEF TypeOK
<1>2. rolling_volume_accumulator < 500 => VolumeFactor = 500
  BY DEF VolumeFactor
<1>3. rolling_volume_accumulator > 2000 => VolumeFactor = 2000
  BY <1>1 DEF VolumeFactor
<1>4. rolling_volume_accumulator \in 500..2000 => VolumeFactor = rolling_volume_accumulator
  BY <1>1 DEF VolumeFactor
<1> QED
  BY <1>1, <1>2, <1>3, <1>4

LEMMA PaceBounds ==
  ASSUME TypeOK, NEW o \in VwapOrder
  PROVE  /\ Pace(o) \in Int /\ Pace(o) >= 60 * 1000 /\ Pace(o) <= 3 * 60 * 2000
         /\ WithinOnePercent(o) => Pace(o) <= 2 * 60 * 2000
<1>1. PICK f \in 500..2000 : f = VolumeFactor
  BY VolumeFactorBounds
<1>2. CASE WithinOnePercent(o)
  <2>1. Pace(o) = 60 * f * 2
    BY <1>1, <1>2 DEF Pace, DeviationFactor
  <2> QED
    BY <2>1
<1>3. CASE ~WithinOnePercent(o)
  <2>1. Pace(o) = 60 * f * 3
    BY <1>1, <1>3 DEF Pace, DeviationFactor
  <2> QED
    BY <1>3, <2>1
<1> QED
  BY <1>2, <1>3

\* What TypeOK and the clock say of an active order.
LEMMA ActiveOrder ==
  ASSUME TypeOK, NEW id \in vwap_orders
  PROVE  id \in DOMAIN wake /\ id \in DOMAIN orders /\ orders[id] \in VwapOrder
  BY DEF TypeOK

LEMMA AdviceHolds ==
  ASSUME TypeOK
  PROVE  AdviceIsWithinBounds
<1> SUFFICES ASSUME NEW id \in vwap_orders, MayAsk(orders[id])
             PROVE  LET o == orders[id]
                        off == LimitPrice(o) - 1000 * o.target_vwap
                    IN  /\ now < o.execution_end_time
                        /\ IF o.side = "BUY" THEN off \in {0, -o.target_vwap}
                                             ELSE off \in {0, o.target_vwap}
                        /\ Pace(o) >= 60 * 1000
                        /\ Pace(o) <= IF off = 0 THEN 3 * 60 * 2000 ELSE 2 * 60 * 2000
  BY DEF AdviceIsWithinBounds
<1> DEFINE o == orders[id]
           off == LimitPrice(o) - 1000 * o.target_vwap
<1>1. o \in VwapOrder /\ o.target_vwap \in Nat \ {0}
  BY ActiveOrder DEF VwapOrder
<1>2. now < o.execution_end_time
  <2>1. now \in Int /\ o.execution_end_time \in Int
    BY <1>1, MomentAssumption DEF TypeOK, VwapOrder, MomentAssumption
  <2>2. o.execution_end_time - now >= Second
    BY <2>1, SomeSecondsLeft DEF MayAsk, TimeRemaining
  <2> QED
    BY <2>1, <2>2, SecondAssumption DEF SecondAssumption
<1>3. \/ off = 0
      \/ WithinOnePercent(o) /\ off = IF o.side = "BUY" THEN -o.target_vwap ELSE o.target_vwap
  <2>1. LimitPrice(o) # 0
    BY DEF MayAsk
  <2>2. CASE LimitPrice(o) = 1000 * o.target_vwap
    BY <1>1, <2>2
  <2>3. CASE /\ WithinOnePercent(o)
             /\ LimitPrice(o) = IF o.side = "BUY" THEN 999 * o.target_vwap
                                                   ELSE 1001 * o.target_vwap
    BY <1>1, <2>3
  <2> QED
    BY <1>1, <2>1, <2>2, <2>3, PriceOnOwnSide
<1>4. off \in Int
  BY <1>1, <1>3
<1>5. Pace(o) >= 60 * 1000 /\ Pace(o) <= IF off = 0 THEN 3 * 60 * 2000 ELSE 2 * 60 * 2000
  BY <1>1, <1>3, PaceBounds
<1> HIDE DEF o, off
<1>6. IF o.side = "BUY" THEN off \in {0, -o.target_vwap} ELSE off \in {0, o.target_vwap}
  BY <1>3
<1> QED
  BY <1>2, <1>5, <1>6 DEF o, off

LEMMA LastTurnHolds ==
  ASSUME TypeOK
  PROVE  LastTurnAsksAll
<1> SUFFICES ASSUME NEW id \in vwap_orders, MayAsk(orders[id]),
                    orders[id].execution_end_time - now <= 30 * Second
             PROVE  AsksAll(orders[id])
  BY DEF LastTurnAsksAll
<1> DEFINE o == orders[id]
<1>1. o \in VwapOrder
  BY ActiveOrder
<1>2. o.execution_end_time - now \in Int
  <2>1. now \in Int
    BY MomentAssumption DEF TypeOK, MomentAssumption
  <2>2. o.execution_end_time \in Int
    <3> HIDE DEF o
    <3> QED BY <1>1 DEF VwapOrder
  <2> HIDE DEF o
  <2> QED BY <2>1, <2>2
<1>3. TimeRemaining(o) \in Int /\ TimeRemaining(o) <= 30
  BY <1>2, AtMostHalfAMinute, SecondsRoundDown DEF TimeRemaining
<1>4. Pace(o) \in Int /\ Pace(o) >= 60 * 1000
  BY <1>1, PaceBounds
<1>5. Pace(o) >= 2000 * TimeRemaining(o)
  <2> HIDE DEF o
  <2> QED
    BY <1>3, <1>4
<1> QED
  BY <1>5 DEF AsksAll

\* An order that has not placed a child yet makes a price step of its whole
\* price; one that has, has rested.
LEMMA TurnsDueHolds ==
  ASSUME TypeOK, Rested
  PROVE  TurnsAreDue
<1> SUFFICES ASSUME NEW id \in vwap_orders, wake[id] <= now, MayAsk(orders[id])
             PROVE  ~ShouldWait(orders[id])
  BY DEF TurnsAreDue
<1> DEFINE o == orders[id]
<1>1. /\ id \in DOMAIN wake /\ id \in DOMAIN orders
      /\ o \in VwapOrder
  BY ActiveOrder
<1>2. /\ o.children \in Nat /\ o.target_vwap \in Nat \ {0}
      /\ o.last_child_order_price \in Nat /\ o.last_child_order_time \in Nat
  BY <1>1 DEF VwapOrder
<1>3. CASE o.children = 0
  <2>1. LimitPrice(o) \in Nat /\ LimitPrice(o) >= 999 * o.target_vwap
    BY <1>1, PriceOnOwnSide DEF MayAsk
  <2>2. o.last_child_order_price = 0
    BY <1>1, <1>3 DEF Rested
  <2>3. PriceStep(o) \in Nat /\ PriceStep(o) >= LimitPrice(o)
    BY <2>1, <2>2, AbsIsNat DEF PriceStep
  <2> HIDE DEF o
  <2>4. PriceStep(o) > o.target_vwap
    BY <1>2, <2>1, <2>3
  <2> QED
    BY <2>4 DEF o, ShouldWait
<1>4. CASE o.children > 0
  <2>1. wake[id] >= o.last_child_order_time + 30 * Second
    BY <1>1, <1>4 DEF Rested
  <2>2. wake[id] \in Nat /\ now \in Nat /\ Second \in Nat
    BY <1>1, MomentAssumption, SecondAssumption DEF TypeOK, MomentAssumption, SecondAssumption
  <2>3. now - o.last_child_order_time >= 30 * Second
    BY <1>2, <2>1, <2>2
  <2>4. RestOver(o)
    BY <1>2, <2>2, <2>3, FullRest DEF RestOver
  <2> QED
    BY <2>4 DEF ShouldWait
<1> QED
  BY <1>2, <1>3, <1>4
-----------------------------------------------------------------------------
(***************************************************************************)
(* The invariant: every step keeps the types.                              *)
(***************************************************************************)
LEMMA InitHolds == Init => IInv
<1> SUFFICES ASSUME Init PROVE IInv
  OBVIOUS
<1>1. DOMAIN orders = {} /\ DOMAIN wake = {} /\ orders \in [{} -> VwapOrder] /\ wake \in [{} -> Nat]
  BY DEF Init
<1>2. window \in [start_time : Nat, end_time : Int]
  BY DEF Init, NoWindow
<1>3. TypeOK
  <2>1. orders \in [DOMAIN orders -> VwapOrder] /\ wake \in [DOMAIN wake -> Nat]
    BY <1>1
  <2>2. rolling_trades \in Seq(Trade)
    BY DEF Init
  <2>3. vwap_orders = {} /\ now \in Moment /\ pruning \in BOOLEAN
    BY DEF Init
  <2>4. vwap_accumulator \in Nat /\ volume_accumulator \in Nat
        /\ rolling_vwap_accumulator \in Int /\ rolling_volume_accumulator \in Int
    BY DEF Init
  <2> QED
    BY <1>1, <1>2, <2>1, <2>2, <2>3, <2>4 DEF TypeOK
<1> QED
  BY <1>1, <1>3 DEF IInv, Rested, Counted

LEMMA SubmitTypes ==
  ASSUME TypeOK, NEW later \in Moment, now <= later, NEW id \in OrderId, NEW s \in Submission,
         Submit(id, s, later)
  PROVE  TypeOK'
<1>1. /\ now \in Nat /\ later \in Nat /\ Second \in Nat \ {0}
      /\ s.side \in {"BUY", "SELL"} /\ s.target_vwap \in Nat \ {0}
      /\ s.quantity \in Nat \ {0} /\ s.minutes \in Nat \ {0}
  <2>1. now \in Nat /\ later \in Nat /\ Second \in Nat \ {0}
    BY MomentAssumption, SecondAssumption DEF TypeOK, MomentAssumption, SecondAssumption
  <2>2. s \in [side : {"BUY", "SELL"}, target_vwap : Nat \ {0},
              quantity : Nat \ {0}, minutes : 1..480]
    BY SubmissionAssumption DEF SubmissionAssumption
  <2> QED
    BY <2>1, <2>2
<1>2. StartTime \in Nat /\ EndTime(s) \in Nat
  BY <1>1 DEF StartTime, EndTime
<1>3. window' \in [start_time : Nat, end_time : Int]
  BY <1>2 DEF TypeOK, Submit
<1>4. orders' \in [DOMAIN orders \cup {id} -> VwapOrder]
  BY <1>1, <1>2 DEF TypeOK, Submit, VwapOrder
<1>5. wake' \in [DOMAIN wake \cup {id} -> Nat]
  BY <1>1 DEF TypeOK, Submit
<1>6. orders'[id].filled_quantity = 0 /\ orders'[id].quantity \in Nat \ {0}
  BY <1>1 DEF Submit
<1>7. \A i \in vwap_orders' : orders'[i].filled_quantity < orders'[i].quantity
  BY <1>6 DEF TypeOK, Submit
<1>8. DOMAIN orders' \subseteq OrderId /\ vwap_orders' \subseteq DOMAIN wake'
      /\ DOMAIN wake' \subseteq DOMAIN orders'
  BY <1>4, <1>5 DEF TypeOK, Submit
<1> QED
  BY <1>3, <1>4, <1>5, <1>7, <1>8 DEF TypeOK, Submit, day, rolling

LEMMA AddTradeTypes ==
  ASSUME TypeOK, NEW later \in Moment, NEW price \in TradePrice, NEW volume \in TradeVolume,
         AddTrade(price, volume, later)
  PROVE  TypeOK'
<1>1. price \in Nat /\ volume \in Nat /\ price * volume \in Nat
  BY TradeAssumption DEF TradeAssumption
<1>2. vwap_accumulator' \in Nat /\ volume_accumulator' \in Nat
  BY <1>1 DEF TypeOK, AddTrade
<1>3. [price |-> price, volume |-> volume, timestamp |-> now] \in Trade
  BY DEF TypeOK, Trade
<1>4. rolling_trades' \in Seq(Trade)
  <2> DEFINE trade == [price |-> price, volume |-> volume, timestamp |-> now]
  <2>1. rolling_trades' = Append(rolling_trades, trade) \/ rolling_trades' = rolling_trades
    BY Zenon DEF AddTrade, rolling
  <2>2. rolling_trades \in Seq(Trade) /\ trade \in Trade
    BY <1>3 DEF TypeOK
  <2> HIDE DEF trade
  <2> QED
    BY <2>1, <2>2
<1>5. rolling_vwap_accumulator' \in Int /\ rolling_volume_accumulator' \in Int
  <2>1. \/ /\ rolling_vwap_accumulator' = rolling_vwap_accumulator + price * volume
           /\ rolling_volume_accumulator' = rolling_volume_accumulator + volume
        \/ UNCHANGED <<rolling_vwap_accumulator, rolling_volume_accumulator>>
    BY DEF AddTrade, rolling
  <2>2. rolling_vwap_accumulator \in Int /\ rolling_volume_accumulator \in Int
    BY DEF TypeOK
  <2>3. \A n, m \in Int : n + m \in Int
    OBVIOUS
  <2> QED
    BY <1>1, <2>1, <2>2, <2>3
<1>6. pruning' \in BOOLEAN
  BY DEF TypeOK, AddTrade
<1> QED
  BY <1>2, <1>4, <1>5, <1>6 DEF TypeOK, AddTrade

LEMMA PruneTypes ==
  ASSUME TypeOK, Prune \/ PruneEnds
  PROVE  TypeOK'
<1>1. CASE Prune
  <2>1. Head(rolling_trades) \in Trade /\ rolling_trades' \in Seq(Trade)
    BY <1>1 DEF TypeOK, Prune
  <2>2. /\ Head(rolling_trades).price * Head(rolling_trades).volume \in Int
        /\ Head(rolling_trades).volume \in Int
    <3>1. Head(rolling_trades).price \in Nat /\ Head(rolling_trades).volume \in Nat
      BY <2>1, TradeAssumption DEF Trade, TradeAssumption
    <3>2. \A n, m \in Nat : n * m \in Int
      OBVIOUS
    <3> QED
      BY <3>1, <3>2
  <2>3. rolling_vwap_accumulator' \in Int /\ rolling_volume_accumulator' \in Int
    BY <1>1, <2>2 DEF TypeOK, Prune
  <2> QED
    BY <1>1, <2>1, <2>3 DEF TypeOK, Prune, day
<1>2. CASE PruneEnds
  BY <1>2 DEF TypeOK, PruneEnds, calculator, day, rolling
<1> QED
  BY <1>1, <1>2

LEMMA TurnTypes ==
  ASSUME TypeOK, NEW later \in Moment, NEW id \in DOMAIN wake, Turn(id, later)
  PROVE  TypeOK'
<1>1. later \in Nat /\ NextTurn(id, later) \in Nat
  BY MomentAssumption, SecondAssumption DEF NextTurn, MomentAssumption, SecondAssumption
<1>2. id \in DOMAIN orders /\ orders[id] \in VwapOrder
  BY DEF TypeOK
<1>3. wake' \in [DOMAIN wake -> Nat]
  BY <1>1 DEF TypeOK, Turn
<1>4. \/ orders' = orders
      \/ /\ LimitPrice(orders[id]) # 0
         /\ orders' = [orders EXCEPT ![id].children = @ + 1,
                                     ![id].last_child_order_price = LimitPrice(orders[id]),
                                     ![id].last_child_order_time = later]
  BY DEF Turn, ShouldPlace, MayAsk
<1>5. /\ orders' \in [DOMAIN orders -> VwapOrder]
      /\ \A i \in DOMAIN orders : /\ orders'[i].filled_quantity = orders[i].filled_quantity
                                  /\ orders'[i].quantity = orders[i].quantity
  <2>1. CASE orders' = orders
    BY <2>1 DEF TypeOK
  <2>2. CASE /\ LimitPrice(orders[id]) # 0
             /\ orders' = [orders EXCEPT ![id].children = @ + 1,
                                         ![id].last_child_order_price = LimitPrice(orders[id]),
                                         ![id].last_child_order_time = later]
    <3>1. LimitPrice(orders[id]) \in Nat
      BY <1>2, <2>2, PriceOnOwnSide
    <3>2. orders[id].children + 1 \in Nat
      BY <1>2 DEF VwapOrder
    <3>3. orders'[id] \in VwapOrder
      BY <1>1, <1>2, <2>2, <3>1, <3>2 DEF VwapOrder
    <3>4. orders'[id].filled_quantity = orders[id].filled_quantity
          /\ orders'[id].quantity = orders[id].quantity
      BY <1>2, <2>2 DEF VwapOrder
    <3>5. \A i \in DOMAIN orders : i # id => orders'[i] = orders[i]
      BY <2>2
    <3> QED
      BY <1>2, <2>2, <3>3, <3>4, <3>5 DEF TypeOK
  <2> QED
    BY <1>4, <2>1, <2>2
<1> QED
  BY <1>3, <1>5 DEF TypeOK, Turn, calculator, day, rolling

LEMMA OtherTypes ==
  ASSUME TypeOK
  PROVE  /\ \A id \in DOMAIN wake : LastTurn(id) => TypeOK'
         /\ \A id \in vwap_orders : Cancel(id) => TypeOK'
         /\ \A id \in vwap_orders, c \in Contribution : Credit(id, c) => TypeOK'
         /\ \A later \in Moment : Wait(later) => TypeOK'
         /\ UNCHANGED vars => TypeOK'
<1>1. ASSUME NEW id \in DOMAIN wake, LastTurn(id) PROVE TypeOK'
  BY <1>1 DEF TypeOK, LastTurn, calculator, day, rolling
<1>2. ASSUME NEW id \in vwap_orders, Cancel(id) PROVE TypeOK'
  BY <1>2 DEF TypeOK, Cancel, calculator, day, rolling
<1>3. ASSUME NEW id \in vwap_orders, NEW c \in Contribution, Credit(id, c) PROVE TypeOK'
  <2>1. id \in DOMAIN orders /\ orders[id] \in VwapOrder /\ c \in Nat
    BY ContributionAssumption DEF TypeOK, ContributionAssumption
  <2>2. /\ orders' \in [DOMAIN orders -> VwapOrder]
        /\ \A i \in DOMAIN orders : i # id => orders'[i] = orders[i]
        /\ orders'[id].filled_quantity \in Nat /\ orders'[id].quantity = orders[id].quantity
        /\ orders[id].quantity \in Nat
    <3>1. orders' = [orders EXCEPT ![id].filled_quantity = orders[id].filled_quantity + c]
      BY <1>3 DEF Credit
    <3>2. orders[id].filled_quantity + c \in Nat /\ orders[id].quantity \in Nat
      BY <2>1 DEF VwapOrder
    <3>3. /\ orders'[id] \in VwapOrder /\ orders'[id].quantity = orders[id].quantity
          /\ orders'[id].filled_quantity \in Nat
      BY <2>1, <3>1, <3>2 DEF VwapOrder
    <3>4. \A i \in DOMAIN orders : i # id => orders'[i] = orders[i]
      BY <3>1
    <3> QED
      BY <2>1, <3>1, <3>2, <3>3, <3>4 DEF TypeOK
  <2>3. vwap_orders' \subseteq vwap_orders
        /\ (id \in vwap_orders' => orders'[id].filled_quantity < orders'[id].quantity)
    BY <1>3, <2>2 DEF Credit
  <2>4. \A i \in vwap_orders' : orders'[i].filled_quantity < orders'[i].quantity
    BY <2>2, <2>3 DEF TypeOK
  <2> QED
    BY <1>3, <2>2, <2>3, <2>4 DEF TypeOK, Credit, calculator, day, rolling
<1>4. ASSUME NEW later \in Moment, Wait(later) PROVE TypeOK'
  BY <1>4 DEF TypeOK, Wait, calculator, day, rolling
<1>5. ASSUME UNCHANGED vars PROVE TypeOK'
  BY <1>5 DEF TypeOK, vars, calculator, day, rolling
<1> QED
  BY <1>1, <1>2, <1>3, <1>4, <1>5

LEMMA StepTypes == TypeOK /\ [Next]_vars => TypeOK'
<1> SUFFICES ASSUME TypeOK, [Next]_vars PROVE TypeOK'
  OBVIOUS
<1>1. CASE pruning /\ (Prune \/ PruneEnds)
  BY <1>1, PruneTypes
<1>2. CASE ~pruning /\ Call
  BY <1>2, SubmitTypes, AddTradeTypes, TurnTypes, OtherTypes DEF Call
<1>3. CASE UNCHANGED vars
  BY <1>3, OtherTypes
<1> QED
  BY <1>1, <1>2, <1>3 DEF Next
-----------------------------------------------------------------------------
(***************************************************************************)
(* Every step keeps the rest and the distance of the children.             *)
(***************************************************************************)
\* Steps that leave these fields of the orders alone, and add no task.
LEMMA SameOrders ==
  ASSUME Rested, Counted,
         DOMAIN orders' = DOMAIN orders, DOMAIN wake' \subseteq DOMAIN wake,
         \A i \in DOMAIN wake' : wake'[i] = wake[i],
         \A i \in DOMAIN orders :
           LET o == orders[i]  n == orders'[i]
           IN  /\ n.execution_start_time = o.execution_start_time
               /\ n.execution_end_time = o.execution_end_time
               /\ n.minutes = o.minutes
               /\ n.children = o.children
               /\ n.last_child_order_price = o.last_child_order_price
               /\ n.last_child_order_time = o.last_child_order_time
  PROVE  Rested' /\ Counted'
<1>1. Rested'
  BY DEF Rested
<1>2. Counted'
  BY DEF Counted
<1> QED
  BY <1>1, <1>2

LEMMA SubmitKeeps ==
  ASSUME TypeOK, Rested, Counted,
         NEW later \in Moment, NEW id \in OrderId, NEW s \in Submission, Submit(id, s, later)
  PROVE  Rested' /\ Counted'
<1>1. now \in Nat /\ Second \in Nat \ {0}
  BY MomentAssumption, SecondAssumption DEF TypeOK, MomentAssumption, SecondAssumption
<1>2. s.minutes \in Nat
  <2>1. s \in [side : {"BUY", "SELL"}, target_vwap : Nat \ {0},
              quantity : Nat \ {0}, minutes : 1..480]
    BY SubmissionAssumption DEF SubmissionAssumption
  <2> QED
    BY <2>1
<1>3. /\ DOMAIN orders' = DOMAIN orders \cup {id} /\ DOMAIN wake' = DOMAIN wake \cup {id}
      /\ \A i \in DOMAIN orders : i # id /\ orders'[i] = orders[i]
      /\ \A i \in DOMAIN wake : i # id => wake'[i] = wake[i]
      /\ orders'[id].execution_start_time = StartTime
      /\ orders'[id].execution_end_time = EndTime(s)
      /\ orders'[id].minutes = s.minutes
      /\ orders'[id].children = 0 /\ orders'[id].last_child_order_price = 0
  BY DEF Submit
<1>4. EndTime(s) = StartTime + 60 * Second * s.minutes - Second
  <2>1. 60 * Second * s.minutes \in Int
    BY <1>1, <1>2
  <2> QED
    BY <1>1, <2>1 DEF EndTime, StartTime
<1>5. Rested'
  BY <1>3, <1>4 DEF Rested
<1>6. Counted'
  <2>1. 0 <= 2 * s.minutes
    BY <1>2
  <2> QED
    BY <1>3, <2>1 DEF Counted
<1> QED
  BY <1>5, <1>6

LEMMA TurnKeeps ==
  ASSUME TypeOK, Rested, Counted,
         NEW later \in Moment, now <= later, NEW id \in DOMAIN wake, Turn(id, later)
  PROVE  Rested' /\ Counted'
<1> DEFINE o == orders[id]
           n == orders'[id]
<1>1. /\ now \in Nat /\ later \in Nat /\ Second \in Nat \ {0} /\ wake[id] \in Nat
      /\ id \in DOMAIN orders /\ o \in VwapOrder
      /\ o.children \in Nat /\ o.minutes \in Nat
      /\ o.execution_start_time \in Nat /\ o.execution_end_time \in Nat
      /\ o.last_child_order_time \in Nat
  BY MomentAssumption, SecondAssumption
     DEF TypeOK, VwapOrder, MomentAssumption, SecondAssumption
<1>2. /\ DOMAIN wake' = DOMAIN wake /\ wake'[id] = later + 30 * Second
      /\ \A i \in DOMAIN wake : i # id => wake'[i] = wake[i]
  BY DEF Turn, NextTurn
<1>3. wake[id] <= now
  BY DEF Turn
<1>4. CASE ShouldWait(o) /\ UNCHANGED orders
  <2>1. o.children > 0 => wake[id] >= o.last_child_order_time + 30 * Second
    BY <1>1 DEF Rested
  <2>2. o.children > 0 => wake'[id] >= o.last_child_order_time + 30 * Second
    BY <1>1, <1>2, <1>3, <2>1
  <2>3. Rested'
    BY <1>2, <1>4, <2>2 DEF Rested
  <2>4. Counted'
    BY <1>4 DEF Counted
  <2> QED
    BY <2>3, <2>4
<1>5. CASE /\ ShouldPlace(o)
           /\ orders' = [orders EXCEPT ![id].children = @ + 1,
                                       ![id].last_child_order_price = LimitPrice(o),
                                       ![id].last_child_order_time = later]
  <2>1. /\ DOMAIN orders' = DOMAIN orders
        /\ \A i \in DOMAIN orders : i # id => orders'[i] = orders[i]
        /\ n.children = o.children + 1 /\ n.last_child_order_time = later
        /\ n.execution_start_time = o.execution_start_time
        /\ n.execution_end_time = o.execution_end_time
        /\ n.minutes = o.minutes
    BY <1>1, <1>5 DEF VwapOrder
  <2>2. o.execution_start_time <= now /\ o.execution_end_time - now >= Second
    <3>1. MayAsk(o)
      BY <1>5 DEF ShouldPlace
    <3>2. o.execution_end_time - now \in Int
      BY <1>1
    <3> QED
      BY <3>1, <3>2, SomeSecondsLeft DEF MayAsk, TimeRemaining
  <2>3. o.execution_end_time = o.execution_start_time + 60 * Second * o.minutes - Second
    BY <1>1 DEF Rested
  <2>4. later >= o.execution_start_time + 30 * Second * o.children
        /\ now >= o.execution_start_time + 30 * Second * o.children
    <3>1. CASE o.children = 0
      BY <1>1, <2>2, <3>1
    <3>2. CASE o.children > 0
      <4>1. wake[id] >= o.last_child_order_time + 30 * Second
        BY <1>1, <3>2 DEF Rested
      <4>2. o.last_child_order_time >= o.execution_start_time + 30 * Second * (o.children - 1)
        BY <1>1, <3>2 DEF Counted
      <4>3. 30 * Second * (o.children - 1) + 30 * Second = 30 * Second * o.children
            /\ 30 * Second * (o.children - 1) \in Int
        BY <1>1
      <4> HIDE DEF o
      <4> QED
        BY <1>1, <1>3, <4>1, <4>2, <4>3
    <3> QED
      BY <1>1, <3>1, <3>2
  <2>5. o.children + 1 <= 2 * o.minutes
    <3>1. 30 * Second * o.children \in Int /\ 60 * Second * o.minutes \in Int
      BY <1>1
    <3>2. o.execution_start_time + 30 * Second * o.children
            <= o.execution_start_time + 60 * Second * o.minutes - 2 * Second
      <4> HIDE DEF o
      <4> QED
        BY <1>1, <2>2, <2>3, <2>4, <3>1
    <3> QED
      BY <1>1, <3>2, HalfMinutesFit
  <2>6. Rested'
    BY <1>1, <1>2, <2>1, <2>3 DEF Rested
  <2>7. n.last_child_order_time >= n.execution_start_time + 30 * Second * (n.children - 1)
    <3>1. n.children - 1 = o.children
      BY <1>1, <2>1
    <3> QED
      BY <2>1, <2>4, <3>1
  <2>8. Counted'
    BY <2>1, <2>5, <2>7 DEF Counted
  <2> QED
    BY <2>6, <2>8
<1> QED
  BY <1>4, <1>5 DEF Turn

LEMMA CallKeeps ==
  ASSUME TypeOK, Rested, Counted, Call
  PROVE  Rested' /\ Counted'
<1>1. ASSUME NEW later \in Moment, NEW price \in TradePrice, NEW volume \in TradeVolume,
             AddTrade(price, volume, later)
      PROVE  Rested' /\ Counted'
  BY <1>1, SameOrders DEF AddTrade
<1>2. ASSUME NEW later \in Moment, Wait(later)
      PROVE  Rested' /\ Counted'
  BY <1>2, SameOrders DEF Wait
<1>3. ASSUME NEW id \in DOMAIN wake, LastTurn(id)
      PROVE  Rested' /\ Counted'
  BY <1>3, SameOrders DEF LastTurn
<1>4. ASSUME NEW id \in vwap_orders, Cancel(id)
      PROVE  Rested' /\ Counted'
  BY <1>4, SameOrders DEF Cancel
<1>5. ASSUME NEW id \in vwap_orders, NEW c \in Contribution, Credit(id, c)
      PROVE  Rested' /\ Counted'
  <2>1. \A i \in DOMAIN orders : orders[i] \in VwapOrder
    BY DEF TypeOK
  <2>2. orders' = [orders EXCEPT ![id].filled_quantity = orders[id].filled_quantity + c]
        /\ UNCHANGED wake
    BY <1>5 DEF Credit
  <2>3. \A i \in DOMAIN orders :
          /\ orders'[i].execution_start_time = orders[i].execution_start_time
          /\ orders'[i].execution_end_time = orders[i].execution_end_time
          /\ orders'[i].minutes = orders[i].minutes
          /\ orders'[i].children = orders[i].children
          /\ orders'[i].last_child_order_price = orders[i].last_child_order_price
          /\ orders'[i].last_child_order_time = orders[i].last_child_order_time
    BY <2>1, <2>2 DEF VwapOrder
  <2> QED
    BY <2>2, <2>3, SameOrders
<1> QED
  BY <1>1, <1>2, <1>3, <1>4, <1>5, SubmitKeeps, TurnKeeps DEF Call

LEMMA StepHolds == IInv /\ [Next]_vars => IInv'
<1> SUFFICES ASSUME IInv, [Next]_vars PROVE IInv'
  OBVIOUS
<1>1. TypeOK'
  BY StepTypes DEF IInv
<1>2. CASE pruning /\ (Prune \/ PruneEnds)
  <2>1. UNCHANGED <<orders, wake>>
    BY <1>2 DEF Prune, PruneEnds
  <2> QED
    BY <1>1, <2>1, SameOrders DEF IInv
<1>3. CASE ~pruning /\ Call
  BY <1>1, <1>3, CallKeeps DEF IInv
<1>4. CASE UNCHANGED vars
  BY <1>1, <1>4, SameOrders DEF IInv, vars
<1> QED
  BY <1>2, <1>3, <1>4 DEF Next

\* A child that comes in a step comes in its order's turn, after its sleep.
LEMMA DistanceHolds ==
  ASSUME IInv, IInv', [Next]_vars, NEW id \in DOMAIN orders,
         orders'[id].children > orders[id].children
  PROVE  /\ orders[id].children > 0 =>
              orders'[id].last_child_order_time
                >= orders[id].last_child_order_time + 30 * Second
         /\ orders'[id].children <= 2 * orders[id].minutes
<1> DEFINE o == orders[id]
           n == orders'[id]
<1>1. o \in VwapOrder /\ o.children \in Nat
  BY DEF IInv, TypeOK, VwapOrder
<1>2. ~(o.children > o.children)
  BY <1>1
<1>3. ASSUME n.children = o.children PROVE FALSE
  BY <1>1, <1>3
<1>4. UNCHANGED orders => FALSE
  BY <1>3
<1>5. PICK later \in Moment : now <= later /\ \E i \in DOMAIN wake : Turn(i, later)
  <2>1. ASSUME NEW i \in OrderId, NEW s \in Submission, NEW later \in Moment,
               Submit(i, s, later)
        PROVE  FALSE
    BY <1>4, <1>3, <2>1 DEF Submit
  <2>2. ASSUME NEW i \in vwap_orders, NEW c \in Contribution, Credit(i, c) PROVE FALSE
    <3>1. n.children = o.children
      BY <1>1, <2>2 DEF Credit, VwapOrder
    <3> QED BY <1>3, <3>1
  <2>3. ASSUME UNCHANGED vars \/ (pruning /\ (Prune \/ PruneEnds)) PROVE FALSE
    BY <1>4, <2>3 DEF vars, Prune, PruneEnds
  <2>4. Call
    BY <2>3 DEF Next
  <2> QED BY <1>4, <2>1, <2>2, <2>4 DEF Call, AddTrade, Wait, LastTurn, Cancel
<1>6. PICK i \in DOMAIN wake : Turn(i, later)
  BY <1>5
<1>7. i = id
  BY <1>3, <1>6 DEF Turn
<1>8. wake[id] <= now /\ n.last_child_order_time = later /\ n.minutes = o.minutes
  <2>1. wake[id] <= now
    BY <1>6, <1>7 DEF Turn
  <2>2. orders' = [orders EXCEPT ![id].children = @ + 1,
                                 ![id].last_child_order_price = LimitPrice(o),
                                 ![id].last_child_order_time = later]
    BY <1>4, <1>6, <1>7 DEF Turn
  <2>3. n.last_child_order_time = later /\ n.minutes = o.minutes
    BY <1>1, <2>2 DEF VwapOrder
  <2> QED BY <2>1, <2>3
<1>9. /\ now \in Nat /\ later \in Nat /\ Second \in Nat /\ wake[id] \in Nat
      /\ o.last_child_order_time \in Nat
  BY <1>1, <1>6, <1>7, MomentAssumption, SecondAssumption
     DEF IInv, TypeOK, VwapOrder, MomentAssumption, SecondAssumption
<1>10. o.children > 0 => wake[id] >= o.last_child_order_time + 30 * Second
  BY <1>6, <1>7 DEF IInv, Rested
<1>11. o.children > 0 => n.last_child_order_time >= o.last_child_order_time + 30 * Second
  BY <1>5, <1>8, <1>9, <1>10
<1>12. n.children <= 2 * n.minutes
  <2>1. id \in DOMAIN orders'
    BY <1>6 DEF Turn
  <2> QED BY <2>1 DEF IInv, Counted
<1> QED BY <1>8, <1>11, <1>12
-----------------------------------------------------------------------------
(***************************************************************************)
(* Sums over sequences.                                                    *)
(***************************************************************************)
\* Induction: a set of natural numbers has a smallest one, and so what holds at
\* 0 and steps upwards holds up to n.
LEMMA Smallest ==
  ASSUME NEW T, T \subseteq Nat, T # {}
  PROVE  \E x \in T : \A y \in T : x <= y
<1>1. PICK x \in T : \A y \in T : ~(<<y, x>> \in OpToRel(<, Nat))
  BY NatLessThanWellFounded, WFMin
<1>2. \A y \in T : ~(y < x)
  BY <1>1 DEF OpToRel
<1> QED
  BY <1>2

LEMMA UpTo ==
  ASSUME NEW n \in Nat, NEW G, 0 \in G, \A i \in 1..n : i - 1 \in G => i \in G
  PROVE  0..n \subseteq G
<1> DEFINE T == 0..n \ G
<1> SUFFICES ASSUME T # {} PROVE FALSE
  OBVIOUS
<1>1. T \subseteq Nat
  OBVIOUS
<1>2. PICK x \in T : \A y \in T : x <= y
  <2> HIDE DEF T
  <2> QED BY <1>1, Smallest
<1>3. x \in 1..n /\ x - 1 \in 0..n
  OBVIOUS
<1>4. x - 1 \in G
  BY <1>2, <1>3
<1> QED BY <1>3, <1>4

\* f adds up the terms of s one after the other.
AddsUp(f, s) == f = [i \in 0..Len(s) |-> IF i = 0 THEN 0 ELSE f[i - 1] + s[i]]

LEMMA AddsUpSteps ==
  ASSUME NEW s, Len(s) \in Nat, NEW f
  PROVE  AddsUp(f, s) <=> /\ f = [i \in 0..Len(s) |-> f[i]]
                          /\ f[0] = 0
                          /\ \A i \in 1..Len(s) : f[i] = f[i - 1] + s[i]
<1> DEFINE n == Len(s)
<1>1. ASSUME AddsUp(f, s) PROVE f[0] = 0
  BY <1>1 DEF AddsUp
<1>2. ASSUME AddsUp(f, s), NEW i \in 1..Len(s) PROVE f[i] = f[i - 1] + s[i]
  BY <1>2 DEF AddsUp
<1>3. ASSUME AddsUp(f, s) PROVE f = [i \in 0..Len(s) |-> f[i]]
  BY <1>3 DEF AddsUp
<1>4. ASSUME f = [i \in 0..Len(s) |-> f[i]], f[0] = 0,
             \A i \in 1..Len(s) : f[i] = f[i - 1] + s[i]
      PROVE  AddsUp(f, s)
  <2>1. \A i \in 0..Len(s) : f[i] = IF i = 0 THEN 0 ELSE f[i - 1] + s[i]
    BY <1>4
  <2> QED BY <1>4, <2>1 DEF AddsUp
<1> QED BY <1>1, <1>2, <1>3, <1>4

\* Adding up gives integers, and one result only.
LEMMA AddsUpTyped ==
  ASSUME NEW s \in Seq(Int), NEW f, AddsUp(f, s)
  PROVE  f \in [0..Len(s) -> Int]
<1>0. Len(s) \in Nat /\ \A i \in 1..Len(s) : s[i] \in Int
  BY LenProperties, ElementOfSeq
<1>1. /\ f = [i \in 0..Len(s) |-> f[i]] /\ f[0] = 0
      /\ \A i \in 1..Len(s) : f[i] = f[i - 1] + s[i]
  BY <1>0, AddsUpSteps
<1> DEFINE G == {i \in 0..Len(s) : f[i] \in Int}
<1>2. 0 \in G
  BY <1>0, <1>1
<1>3. ASSUME NEW i \in 1..Len(s), i - 1 \in G PROVE i \in G
  <2>1. \A a, b \in Int : a + b \in Int
    OBVIOUS
  <2>2. f[i] \in Int
    BY <1>0, <1>1, <1>3, <2>1
  <2> QED BY <2>2
<1>4. 0..Len(s) \subseteq G
  <2> HIDE DEF G
  <2> QED BY <1>0, <1>2, <1>3, UpTo
<1>5. \A i \in 0..Len(s) : f[i] \in Int
  BY <1>4
<1> QED BY <1>1, <1>5

LEMMA AddsUpOnce ==
  ASSUME NEW s \in Seq(Int), NEW f, AddsUp(f, s), NEW g, AddsUp(g, s)
  PROVE  f[Len(s)] = g[Len(s)]
<1>0. Len(s) \in Nat
  BY LenProperties
<1>1. /\ f[0] = 0 /\ \A i \in 1..Len(s) : f[i] = f[i - 1] + s[i]
      /\ g[0] = 0 /\ \A i \in 1..Len(s) : g[i] = g[i - 1] + s[i]
  BY <1>0, AddsUpSteps
<1> DEFINE G == {i \in 0..Len(s) : f[i] = g[i]}
<1>2. 0 \in G
  BY <1>0, <1>1
<1>3. ASSUME NEW i \in 1..Len(s), i - 1 \in G PROVE i \in G
  BY <1>1, <1>3
<1>4. 0..Len(s) \subseteq G
  <2> HIDE DEF G
  <2> QED BY <1>0, <1>2, <1>3, UpTo
<1> QED BY <1>0, <1>4

\* Whoever adds up s gets SumOf(s).
LEMMA SumOfIs ==
  ASSUME NEW s \in Seq(Int), NEW f, AddsUp(f, s)
  PROVE  SumOf(s) = f[Len(s)]
<1>1. SumOf(s) = (CHOOSE g : AddsUp(g, s))[Len(s)]
  BY DEF SumOf, AddsUp
<1>2. AddsUp(CHOOSE g : AddsUp(g, s), s)
  OBVIOUS
<1> QED BY <1>1, <1>2, AddsUpOnce

\* Every sequence can be added up, so that SumOf is what its definition says.
LEMMA SumExists ==
  ASSUME NEW s \in Seq(Int)
  PROVE  \E f : AddsUp(f, s)
<1>0. Len(s) \in Nat /\ \A i \in 1..Len(s) : s[i] \in Int
  BY LenProperties, ElementOfSeq
<1> DEFINE Adds(f, n) == /\ f = [i \in 0..n |-> f[i]] /\ f[0] = 0
                         /\ \A i \in 1..n : f[i] = f[i - 1] + s[i]
<1> DEFINE G == {n \in 0..Len(s) : \E f : Adds(f, n)}
<1>1. 0 \in G
  <2> DEFINE f == [i \in 0..0 |-> 0]
  <2>1. Adds(f, 0)
    OBVIOUS
  <2> HIDE DEF Adds, f
  <2> QED BY <1>0, <2>1
<1>2. ASSUME NEW n \in 1..Len(s), n - 1 \in G PROVE n \in G
  <2>1. PICK f : Adds(f, n - 1)
    BY <1>2
  <2> DEFINE g == [i \in 0..n |-> IF i = n THEN f[n - 1] + s[n] ELSE f[i]]
  <2>2. g = [i \in 0..n |-> g[i]] /\ g[0] = 0
    BY <1>0, <2>1
  <2>3. ASSUME NEW i \in 1..n PROVE g[i] = g[i - 1] + s[i]
    <3>1. CASE i = n
      BY <1>0, <3>1
    <3>2. CASE i # n
      <4>1. i \in 1..(n - 1) /\ i - 1 # n /\ i \in 0..n /\ i - 1 \in 0..n
        BY <1>0, <3>2
      <4>2. f[i] = f[i - 1] + s[i]
        BY <2>1, <4>1
      <4>3. g[i] = f[i] /\ g[i - 1] = f[i - 1]
        BY <3>2, <4>1
      <4> QED BY <4>2, <4>3
    <3> QED BY <3>1, <3>2
  <2>4. Adds(g, n)
    BY <2>2, <2>3
  <2> HIDE DEF Adds, g
  <2> QED BY <2>4
<1>3. Len(s) \in G
  <2> HIDE DEF G
  <2>1. 0..Len(s) \subseteq G
    BY <1>0, <1>1, <1>2, UpTo
  <2> QED BY <1>0, <2>1
<1>4. PICK f : Adds(f, Len(s))
  BY <1>3
<1> QED BY <1>0, <1>4, AddsUpSteps

\* What the accumulators rely on: the sum of nothing, one more term at the end,
\* one less at the front, and a sum of natural numbers.
LEMMA SumEmpty == SumOf(<<>>) = 0
<1>1. <<>> \in Seq(Int) /\ Len(<<>>) = 0
  OBVIOUS
<1>2. PICK f : AddsUp(f, <<>>)
  BY <1>1, SumExists
<1>3. SumOf(<<>>) = f[0]
  BY <1>1, <1>2, SumOfIs
<1>4. f[0] = 0
  BY <1>1, <1>2, AddsUpSteps
<1> QED BY <1>3, <1>4

LEMMA SumAppend ==
  ASSUME NEW s \in Seq(Int), NEW x \in Int
  PROVE  SumOf(Append(s, x)) = SumOf(s) + x
<1> DEFINE t == Append(s, x)
           n == Len(s)
<1>1. /\ t \in Seq(Int) /\ Len(t) = n + 1 /\ n \in Nat
      /\ t[n + 1] = x /\ \A i \in 1..n : t[i] = s[i]
  BY AppendProperties, LenProperties
<1>2. PICK f : AddsUp(f, t)
  BY <1>1, SumExists
<1> HIDE DEF t, n
<1>3. /\ f[0] = 0 /\ \A i \in 1..(n + 1) : f[i] = f[i - 1] + t[i]
  <2>1. Len(t) \in Nat
    BY <1>1
  <2>2. f[0] = 0 /\ \A i \in 1..Len(t) : f[i] = f[i - 1] + t[i]
    BY <1>2, <2>1, AddsUpSteps
  <2> QED BY <1>1, <2>2
<1> DEFINE g == [i \in 0..n |-> f[i]]
<1>4. g = [i \in 0..n |-> g[i]] /\ g[0] = 0 /\ g[n] = f[n]
  BY <1>1, <1>3
<1>5. ASSUME NEW i \in 1..n PROVE g[i] = g[i - 1] + s[i]
  <2>1. i \in 1..(n + 1) /\ i \in 0..n /\ i - 1 \in 0..n
    BY <1>1
  <2>2. g[i] = f[i] /\ g[i - 1] = f[i - 1] /\ f[i] = f[i - 1] + t[i] /\ t[i] = s[i]
    BY <1>1, <1>3, <2>1
  <2> QED BY <2>2
<1> HIDE DEF g
<1>6. AddsUp(g, s)
  BY <1>1, <1>4, <1>5, AddsUpSteps DEF n
<1>7. SumOf(s) = f[n]
  BY <1>4, <1>6, SumOfIs DEF n
<1>8. SumOf(t) = f[n + 1]
  BY <1>1, <1>2, SumOfIs
<1>9. f[n + 1] = f[n] + x
  <2>1. n + 1 \in 1..(n + 1) /\ n + 1 - 1 = n
    BY <1>1
  <2> QED BY <1>1, <1>3, <2>1
<1> QED BY <1>7, <1>8, <1>9 DEF t

LEMMA SumTail ==
  ASSUME NEW s \in Seq(Int), s # <<>>
  PROVE  SumOf(Tail(s)) = SumOf(s) - s[1]
<1> DEFINE t == Tail(s)
           n == Len(t)
<1>1. /\ t \in Seq(Int) /\ n \in Nat /\ Len(s) = n + 1
      /\ \A i \in 1..n : t[i] = s[i + 1]
  BY HeadTailProperties, LenProperties
<1>2. s[1] \in Int
  BY <1>1, ElementOfSeq
<1>3. PICK f : AddsUp(f, t)
  BY <1>1, SumExists
<1>4. f \in [0..n -> Int]
  BY <1>1, <1>3, AddsUpTyped
<1> HIDE DEF t, n
<1>5. /\ f[0] = 0 /\ \A i \in 1..n : f[i] = f[i - 1] + t[i]
  BY <1>1, <1>3, AddsUpSteps DEF n
<1> DEFINE g == [i \in 0..(n + 1) |-> IF i = 0 THEN 0 ELSE f[i - 1] + s[1]]
<1>6. g = [i \in 0..(n + 1) |-> g[i]] /\ g[0] = 0 /\ g[n + 1] = f[n] + s[1]
  <2>1. 0 \in 0..(n + 1) /\ n + 1 \in 0..(n + 1) /\ n + 1 # 0 /\ n + 1 - 1 = n
    BY <1>1
  <2>2. g[0] = 0 /\ g[n + 1] = f[n] + s[1]
    <3>1. g[0] = 0
      BY <2>1
    <3>2. \A i \in 0..(n + 1) : i # 0 => g[i] = f[i - 1] + s[1]
      OBVIOUS
    <3> HIDE DEF g
    <3>3. \A i \in 0..(n + 1) : i # 0 /\ i - 1 = n => g[i] = f[n] + s[1]
      BY <3>2
    <3> QED BY <1>1, <2>1, <3>1, <3>3
  <2>3. g = [i \in 0..(n + 1) |-> g[i]]
    OBVIOUS
  <2> QED BY <2>1, <2>2, <2>3
<1>7. ASSUME NEW i \in 1..(n + 1) PROVE g[i] = g[i - 1] + s[i]
  <2>1. CASE i = 1
    <3>1. 0 \in 0..(n + 1) /\ 1 \in 0..(n + 1) /\ 1 - 1 = 0
      BY <1>1
    <3>2. g[1] = f[0] + s[1] /\ g[0] = 0
      BY <3>1
    <3> QED BY <1>2, <1>5, <2>1, <3>2
  <2>2. CASE i # 1
    <3>1. i \in 0..(n + 1) /\ i - 1 \in 0..(n + 1) /\ i # 0 /\ i - 1 # 0
          /\ i - 1 \in 1..n /\ i - 1 \in 0..n /\ i - 2 \in 0..n
          /\ i - 1 - 1 = i - 2 /\ i - 1 + 1 = i
      BY <1>1, <2>2
    <3>2. g[i] = f[i - 1] + s[1] /\ g[i - 1] = f[i - 2] + s[1]
      BY <3>1
    <3>3. f[i - 1] = f[i - 2] + s[i]
      BY <1>1, <1>5, <3>1
    <3>4. f[i - 1] \in Int /\ f[i - 2] \in Int /\ s[i] \in Int
      <4>1. i \in 1..Len(s)
        BY <1>1
      <4> QED BY <1>4, <3>1, <4>1, ElementOfSeq
    <3> QED BY <1>2, <3>2, <3>3, <3>4
  <2> QED BY <2>1, <2>2
<1> HIDE DEF g
<1>8. AddsUp(g, s)
  <2>1. Len(s) \in Nat
    BY <1>1
  <2>2. g = [i \in 0..Len(s) |-> g[i]] /\ g[0] = 0 /\ \A i \in 1..Len(s) : g[i] = g[i - 1] + s[i]
    BY <1>1, <1>6, <1>7
  <2> QED BY <2>1, <2>2, AddsUpSteps
<1>9. SumOf(s) = f[n] + s[1]
  BY <1>1, <1>6, <1>8, SumOfIs
<1>10. SumOf(t) = f[n] /\ f[n] \in Int
  BY <1>1, <1>3, <1>4, SumOfIs DEF n
<1> QED BY <1>2, <1>9, <1>10 DEF t

LEMMA SumNatural ==
  ASSUME NEW s \in Seq(Nat)
  PROVE  SumOf(s) \in Nat
<1>0. s \in Seq(Int) /\ Len(s) \in Nat /\ \A i \in 1..Len(s) : s[i] \in Nat
  BY LenProperties, ElementOfSeq
<1>1. PICK f : AddsUp(f, s)
  BY <1>0, SumExists
<1>2. f[0] = 0 /\ \A i \in 1..Len(s) : f[i] = f[i - 1] + s[i]
  BY <1>0, <1>1, AddsUpSteps
<1> DEFINE G == {i \in 0..Len(s) : f[i] \in Nat}
<1>3. 0 \in G
  BY <1>0, <1>2
<1>4. ASSUME NEW i \in 1..Len(s), i - 1 \in G PROVE i \in G
  <2>1. \A a, b \in Nat : a + b \in Nat
    OBVIOUS
  <2>2. f[i] \in Nat
    BY <1>0, <1>2, <1>4, <2>1
  <2> QED BY <2>2
<1>5. 0..Len(s) \subseteq G
  <2> HIDE DEF G
  <2> QED BY <1>0, <1>3, <1>4, UpTo
<1>6. f[Len(s)] \in Nat
  BY <1>0, <1>5
<1> QED BY <1>0, <1>1, <1>6, SumOfIs
-----------------------------------------------------------------------------
(***************************************************************************)
(* The rolling window.                                                     *)
(***************************************************************************)
\* No trade has a time still to come.
InThePast == \A i \in DOMAIN rolling_trades : rolling_trades[i].timestamp <= now

WindowInv == InOrder /\ SpansFiveMinutes /\ InThePast

\* What the steps do to the window.
LEMMA WindowSteps ==
  ASSUME TypeOK, [Next]_vars
  PROVE  \/ /\ ~pruning /\ pruning' /\ now' >= now
            /\ \E t \in Trade : /\ t.timestamp = now
                               /\ rolling_trades' = Append(rolling_trades, t)
         \/ /\ rolling_trades # <<>> /\ Stale(Head(rolling_trades))
            /\ rolling_trades' = Tail(rolling_trades)
            /\ pruning /\ pruning' /\ now' = now
         \/ /\ ~(rolling_trades # <<>> /\ Stale(Head(rolling_trades)))
            /\ UNCHANGED <<rolling_trades, now>>
         \/ UNCHANGED <<rolling_trades, pruning>> /\ now' >= now
<1>1. now \in Nat /\ now >= now
  BY MomentAssumption DEF TypeOK, MomentAssumption
<1>2. CASE pruning /\ Prune
  BY <1>2 DEF Prune
<1>3. CASE pruning /\ PruneEnds
  BY <1>3 DEF PruneEnds, calculator, rolling
<1>4. CASE ~pruning /\ Call
  <2>1. ASSUME NEW later \in Moment, now <= later, NEW price \in TradePrice,
               NEW volume \in TradeVolume, AddTrade(price, volume, later)
        PROVE  \/ /\ pruning' /\ now' >= now
                  /\ \E t \in Trade : /\ t.timestamp = now
                                     /\ rolling_trades' = Append(rolling_trades, t)
               \/ UNCHANGED <<rolling_trades, pruning>> /\ now' >= now
    <3>1. later >= now /\ now' = later
      BY <1>1, <2>1, MomentAssumption DEF AddTrade, MomentAssumption
    <3>2. CASE rolling_trades' = Append(rolling_trades,
                 [price |-> price, volume |-> volume, timestamp |-> now]) /\ pruning'
      <4>1. [price |-> price, volume |-> volume, timestamp |-> now] \in Trade
        BY DEF TypeOK, Trade
      <4> QED
        BY <3>1, <3>2, <4>1
    <3>3. CASE UNCHANGED <<rolling, pruning>>
      BY <3>1, <3>3 DEF rolling
    <3> QED
      BY <2>1, <3>2, <3>3 DEF AddTrade
  <2>2. CASE \E later \in {t \in Moment : now <= t}, price \in TradePrice,
                volume \in TradeVolume : AddTrade(price, volume, later)
    BY <1>4, <2>1, <2>2
  <2>3. CASE \E later \in {t \in Moment : now <= t} :
               \/ \E id \in OrderId, s \in Submission : Submit(id, s, later)
               \/ \E id \in DOMAIN wake : Turn(id, later)
               \/ Wait(later)
    <3>1. PICK later \in {t \in Moment : now <= t} :
             /\ UNCHANGED <<rolling_trades, pruning>>
             /\ now' = later
      BY <2>3 DEF Submit, Turn, Wait, calculator, rolling
    <3> QED
      BY <1>1, <3>1, MomentAssumption DEF MomentAssumption
  <2>4. CASE \/ \E id \in DOMAIN wake : LastTurn(id)
             \/ \E id \in vwap_orders : \/ \E c \in Contribution : Credit(id, c)
                                      \/ Cancel(id)
    BY <1>1, <2>4 DEF LastTurn, Credit, Cancel, calculator, rolling
  <2> QED
    BY <1>4, <2>2, <2>3, <2>4 DEF Call
<1>5. CASE UNCHANGED vars
  BY <1>1, <1>5 DEF vars, calculator, rolling
<1> QED
  BY <1>2, <1>3, <1>4, <1>5 DEF Next

LEMMA WindowHolds == TypeOK /\ WindowInv /\ [Next]_vars => WindowInv'
<1> SUFFICES ASSUME TypeOK, WindowInv, [Next]_vars PROVE WindowInv'
  OBVIOUS
<1>1. /\ rolling_trades \in Seq(Trade) /\ now \in Nat /\ now' \in Nat /\ Second \in Nat
      /\ \A t \in Trade : t.timestamp \in Nat
  BY StepTypes, MomentAssumption, SecondAssumption
     DEF TypeOK, Trade, MomentAssumption, SecondAssumption
<1>2. \A i \in DOMAIN rolling_trades : rolling_trades[i] \in Trade
                                      /\ rolling_trades[i].timestamp \in Nat
  BY <1>1
<1>3. CASE /\ pruning' /\ now' >= now
           /\ \E t \in Trade : /\ t.timestamp = now
                              /\ rolling_trades' = Append(rolling_trades, t)
  <2>1. PICK t \in Trade : t.timestamp = now /\ rolling_trades' = Append(rolling_trades, t)
    BY <1>3
  <2>2. /\ DOMAIN rolling_trades = 1..Len(rolling_trades)
        /\ DOMAIN rolling_trades' = 1..(Len(rolling_trades) + 1)
        /\ Len(rolling_trades) \in Nat
        /\ \A i \in DOMAIN rolling_trades : rolling_trades'[i] = rolling_trades[i]
        /\ rolling_trades'[Len(rolling_trades) + 1] = t
    BY <1>1, <2>1
  <2>3. \A i \in DOMAIN rolling_trades' :
          \/ i \in DOMAIN rolling_trades /\ rolling_trades'[i] = rolling_trades[i]
          \/ i = Len(rolling_trades) + 1 /\ rolling_trades'[i].timestamp = now
    BY <2>1, <2>2
  <2>4. InThePast'
    <3>1. \A i \in DOMAIN rolling_trades' : rolling_trades'[i].timestamp <= now
      BY <1>1, <2>3 DEF WindowInv, InThePast
    <3>2. \A i \in DOMAIN rolling_trades' : rolling_trades'[i].timestamp \in Nat
      BY <1>1, <1>2, <2>3
    <3> QED
      BY <1>1, <1>3, <3>1, <3>2 DEF InThePast
  <2>5. InOrder'
    <3> SUFFICES ASSUME NEW i \in DOMAIN rolling_trades', NEW j \in DOMAIN rolling_trades', i <= j
                 PROVE  rolling_trades'[i].timestamp <= rolling_trades'[j].timestamp
      BY DEF InOrder
    <3>1. CASE j \in DOMAIN rolling_trades
      <4>1. i \in DOMAIN rolling_trades
        BY <2>2, <3>1
      <4> QED
        BY <2>2, <3>1, <4>1 DEF WindowInv, InOrder
    <3>2. CASE rolling_trades'[j].timestamp = now
      BY <1>1, <2>3, <3>2 DEF WindowInv, InThePast
    <3> QED
      BY <2>3, <3>1, <3>2
  <2> QED
    BY <1>3, <2>4, <2>5 DEF WindowInv, SpansFiveMinutes
<1>4. CASE /\ rolling_trades # <<>> /\ rolling_trades' = Tail(rolling_trades)
           /\ pruning' /\ now' = now
  <2>1. \A i \in DOMAIN rolling_trades' : /\ i + 1 \in DOMAIN rolling_trades
                                         /\ rolling_trades'[i] = rolling_trades[i + 1]
    BY <1>1, <1>4
  <2>2. InThePast'
    BY <1>4, <2>1 DEF WindowInv, InThePast
  <2>3. \A i, j \in DOMAIN rolling_trades' : i <= j => i + 1 <= j + 1
    BY <1>1, <1>4
  <2>4. InOrder'
    BY <2>1, <2>3 DEF WindowInv, InOrder
  <2> QED
    BY <1>4, <2>2, <2>4 DEF WindowInv, SpansFiveMinutes
<1>5. CASE /\ ~(rolling_trades # <<>> /\ Stale(Head(rolling_trades)))
           /\ UNCHANGED <<rolling_trades, now>>
  <2>1. \A i, j \in DOMAIN rolling_trades :
          rolling_trades[j].timestamp <= rolling_trades[i].timestamp + 300 * Second
    <3> TAKE i, j \in DOMAIN rolling_trades
    <3>1. 1 \in DOMAIN rolling_trades /\ 1 <= i /\ rolling_trades # <<>>
          /\ Head(rolling_trades) = rolling_trades[1]
      BY <1>1
    <3>2. rolling_trades[1].timestamp + 300 * Second >= now
      BY <1>1, <1>2, <1>5, <3>1 DEF Stale
    <3>3. rolling_trades[1].timestamp <= rolling_trades[i].timestamp
      BY <3>1 DEF WindowInv, InOrder
    <3>4. rolling_trades[j].timestamp <= now
      BY DEF WindowInv, InThePast
    <3> QED
      BY <1>1, <1>2, <3>1, <3>2, <3>3, <3>4
  <2> QED
    BY <1>5, <2>1 DEF WindowInv, InOrder, InThePast, SpansFiveMinutes
<1>6. CASE UNCHANGED <<rolling_trades, pruning>> /\ now' >= now
  <2>1. InThePast'
    BY <1>1, <1>2, <1>6 DEF WindowInv, InThePast
  <2> QED
    BY <1>6, <2>1 DEF WindowInv, InOrder, SpansFiveMinutes
<1> QED
  BY <1>3, <1>4, <1>5, <1>6, WindowSteps
-----------------------------------------------------------------------------
(***************************************************************************)
(* The accumulators.                                                       *)
(***************************************************************************)
Sums ==
  /\ rolling_vwap_accumulator = SumOf(Values(rolling_trades))
  /\ rolling_volume_accumulator = SumOf(Volumes(rolling_trades))
  /\ rolling_volume_accumulator <= volume_accumulator

LEMMA TermsTyped ==
  ASSUME NEW trades \in Seq(Trade)
  PROVE  /\ Values(trades) \in Seq(Int) /\ Len(Values(trades)) = Len(trades)
         /\ Volumes(trades) \in Seq(Nat) /\ Len(Volumes(trades)) = Len(trades)
         /\ Volumes(trades) \in Seq(Int)
<1>1. Len(trades) \in Nat /\ \A i \in 1..Len(trades) : trades[i] \in Trade
  BY LenProperties, ElementOfSeq
<1>2. \A t \in Trade : t.price \in Nat /\ t.volume \in Nat /\ t.price * t.volume \in Int
  <2>1. \A n, m \in Nat : n * m \in Int
    OBVIOUS
  <2> QED BY <2>1, TradeAssumption DEF Trade, TradeAssumption
<1>3. \A i \in 1..Len(trades) : /\ trades[i].volume \in Nat /\ trades[i].volume \in Int
                                /\ trades[i].price * trades[i].volume \in Int
  BY <1>1, <1>2
<1> QED BY <1>1, <1>3 DEF Values, Volumes

LEMMA TermsAppend ==
  ASSUME NEW trades \in Seq(Trade), NEW t \in Trade
  PROVE  /\ Values(Append(trades, t)) = Append(Values(trades), t.price * t.volume)
         /\ Volumes(Append(trades, t)) = Append(Volumes(trades), t.volume)
<1>1. /\ Append(trades, t) \in Seq(Trade) /\ Len(Append(trades, t)) = Len(trades) + 1
      /\ Append(trades, t)[Len(trades) + 1] = t /\ Len(trades) \in Nat
      /\ \A i \in 1..Len(trades) : Append(trades, t)[i] = trades[i]
  BY AppendProperties, LenProperties
<1>2. Values(trades) \in Seq(Int) /\ Volumes(trades) \in Seq(Int)
      /\ Len(Values(trades)) = Len(trades) /\ Len(Volumes(trades)) = Len(trades)
  BY TermsTyped
<1>3. \A i \in 1..(Len(trades) + 1) : i \in 1..Len(trades) \/ i = Len(trades) + 1
  BY <1>1
<1>4. Values(Append(trades, t)) = Append(Values(trades), t.price * t.volume)
  BY <1>1, <1>2, <1>3 DEF Values
<1>5. Volumes(Append(trades, t)) = Append(Volumes(trades), t.volume)
  BY <1>1, <1>2, <1>3 DEF Volumes
<1> QED BY <1>4, <1>5

LEMMA TermsTail ==
  ASSUME NEW trades \in Seq(Trade), trades # <<>>
  PROVE  /\ Values(Tail(trades)) = Tail(Values(trades)) /\ Values(trades) # <<>>
         /\ Volumes(Tail(trades)) = Tail(Volumes(trades)) /\ Volumes(trades) # <<>>
         /\ Values(trades)[1] = Head(trades).price * Head(trades).volume
         /\ Volumes(trades)[1] = Head(trades).volume
<1>1. /\ Len(trades) \in Nat \ {0} /\ Tail(trades) \in Seq(Trade)
      /\ Len(Tail(trades)) = Len(trades) - 1 /\ Head(trades) = trades[1]
      /\ \A i \in 1..(Len(trades) - 1) : Tail(trades)[i] = trades[i + 1]
  BY HeadTailProperties, LenProperties
<1>2. Values(trades) \in Seq(Int) /\ Volumes(trades) \in Seq(Int)
      /\ Len(Values(trades)) = Len(trades) /\ Len(Volumes(trades)) = Len(trades)
  BY TermsTyped
<1>3. Values(trades) # <<>> /\ Volumes(trades) # <<>>
  BY <1>1, <1>2, EmptySeq
<1>4. /\ Len(Tail(Values(trades))) = Len(trades) - 1
      /\ \A i \in 1..(Len(trades) - 1) : Tail(Values(trades))[i] = Values(trades)[i + 1]
      /\ Len(Tail(Volumes(trades))) = Len(trades) - 1
      /\ \A i \in 1..(Len(trades) - 1) : Tail(Volumes(trades))[i] = Volumes(trades)[i + 1]
      /\ Tail(Values(trades)) \in Seq(Int) /\ Tail(Volumes(trades)) \in Seq(Int)
  BY <1>2, <1>3, HeadTailProperties
<1>5. \A i \in 1..(Len(trades) - 1) : i + 1 \in 1..Len(trades)
  BY <1>1
<1>6. Values(Tail(trades)) = Tail(Values(trades))
  BY <1>1, <1>4, <1>5 DEF Values
<1>7. Volumes(Tail(trades)) = Tail(Volumes(trades))
  BY <1>1, <1>4, <1>5 DEF Volumes
<1>8. 1 \in 1..Len(trades)
  BY <1>1
<1> QED BY <1>1, <1>3, <1>6, <1>7, <1>8 DEF Values, Volumes

\* What the steps do to the accumulators.
LEMMA SumsSteps ==
  ASSUME TypeOK, [Next]_vars
  PROVE  \/ \E t \in Trade :
              /\ rolling_trades' = Append(rolling_trades, t)
              /\ rolling_vwap_accumulator' = rolling_vwap_accumulator + t.price * t.volume
              /\ rolling_volume_accumulator' = rolling_volume_accumulator + t.volume
              /\ volume_accumulator' = volume_accumulator + t.volume
         \/ LET t == Head(rolling_trades)
            IN  /\ rolling_trades # <<>> /\ rolling_trades' = Tail(rolling_trades)
                /\ rolling_vwap_accumulator' = rolling_vwap_accumulator - t.price * t.volume
                /\ rolling_volume_accumulator' = rolling_volume_accumulator - t.volume
                /\ volume_accumulator' = volume_accumulator
         \/ UNCHANGED rolling /\ volume_accumulator' >= volume_accumulator
<1>1. volume_accumulator \in Nat /\ volume_accumulator >= volume_accumulator
  BY DEF TypeOK
<1>2. CASE pruning /\ Prune
  BY <1>2 DEF Prune, day
<1>3. CASE ~pruning /\ \E later \in {t \in Moment : now <= t}, price \in TradePrice,
                          volume \in TradeVolume : AddTrade(price, volume, later)
  <2>1. PICK later \in Moment, price \in TradePrice, volume \in TradeVolume :
           AddTrade(price, volume, later)
    BY <1>3
  <2> DEFINE trade == [price |-> price, volume |-> volume, timestamp |-> now]
  <2>2. trade \in Trade /\ trade.price = price /\ trade.volume = volume
    BY DEF TypeOK, Trade
  <2>3. volume_accumulator' >= volume_accumulator
    <3>1. volume \in Nat /\ volume_accumulator' = volume_accumulator + volume
      BY <2>1, TradeAssumption DEF AddTrade, TradeAssumption
    <3> QED BY <1>1, <3>1
  <2>4. CASE UNCHANGED rolling
    BY <2>3, <2>4
  <2>5. CASE /\ rolling_trades' = Append(rolling_trades, trade)
             /\ rolling_vwap_accumulator' = rolling_vwap_accumulator + price * volume
             /\ rolling_volume_accumulator' = rolling_volume_accumulator + volume
    <3>1. volume_accumulator' = volume_accumulator + volume
      BY <2>1 DEF AddTrade
    <3> HIDE DEF trade
    <3> QED BY <2>2, <2>5, <3>1
  <2> QED BY <2>1, <2>4, <2>5 DEF AddTrade
<1>4. CASE UNCHANGED <<rolling, day>>
  BY <1>1, <1>4 DEF day
<1>5. CASE ~pruning /\ Call
  BY <1>3, <1>4, <1>5 DEF Call, Submit, Turn, Wait, LastTurn, Credit, Cancel, calculator
<1>6. CASE pruning /\ PruneEnds
  BY <1>4, <1>6 DEF PruneEnds, calculator
<1>7. CASE UNCHANGED vars
  BY <1>4, <1>7 DEF vars, calculator
<1> QED BY <1>2, <1>5, <1>6, <1>7 DEF Next

LEMMA SumsHold == TypeOK /\ Sums /\ [Next]_vars => Sums'
<1> SUFFICES ASSUME TypeOK, Sums, [Next]_vars PROVE Sums'
  OBVIOUS
<1>1. rolling_trades \in Seq(Trade) /\ volume_accumulator \in Nat
      /\ rolling_vwap_accumulator \in Int /\ rolling_volume_accumulator \in Int
  BY DEF TypeOK
<1>2. /\ Values(rolling_trades) \in Seq(Int) /\ Volumes(rolling_trades) \in Seq(Int)
  BY <1>1, TermsTyped
<1>3. \A t \in Trade : t.volume \in Nat /\ t.price * t.volume \in Int
  <2>1. \A n, m \in Nat : n * m \in Int
    OBVIOUS
  <2> QED BY <2>1, TradeAssumption DEF Trade, TradeAssumption
<1>4. CASE \E t \in Trade :
             /\ rolling_trades' = Append(rolling_trades, t)
             /\ rolling_vwap_accumulator' = rolling_vwap_accumulator + t.price * t.volume
             /\ rolling_volume_accumulator' = rolling_volume_accumulator + t.volume
             /\ volume_accumulator' = volume_accumulator + t.volume
  <2>1. PICK t \in Trade :
             /\ rolling_trades' = Append(rolling_trades, t)
             /\ rolling_vwap_accumulator' = rolling_vwap_accumulator + t.price * t.volume
             /\ rolling_volume_accumulator' = rolling_volume_accumulator + t.volume
             /\ volume_accumulator' = volume_accumulator + t.volume
    BY <1>4
  <2>5. /\ Values(rolling_trades') = Append(Values(rolling_trades), t.price * t.volume)
        /\ Volumes(rolling_trades') = Append(Volumes(rolling_trades), t.volume)
    BY <1>1, <2>1, TermsAppend
  <2>6. t.price * t.volume \in Int /\ t.volume \in Int
    BY <1>3
  <2>2. SumOf(Values(rolling_trades')) = SumOf(Values(rolling_trades)) + t.price * t.volume
    BY <1>2, <2>5, <2>6, SumAppend
  <2>3. SumOf(Volumes(rolling_trades')) = SumOf(Volumes(rolling_trades)) + t.volume
    BY <1>2, <2>5, <2>6, SumAppend
  <2>4. rolling_volume_accumulator' <= volume_accumulator'
    BY <1>1, <1>3, <2>1 DEF Sums
  <2> QED BY <2>1, <2>2, <2>3, <2>4 DEF Sums
<1>5. CASE LET t == Head(rolling_trades)
           IN  /\ rolling_trades # <<>> /\ rolling_trades' = Tail(rolling_trades)
               /\ rolling_vwap_accumulator' = rolling_vwap_accumulator - t.price * t.volume
               /\ rolling_volume_accumulator' = rolling_volume_accumulator - t.volume
               /\ volume_accumulator' = volume_accumulator
  <2>1. Head(rolling_trades) \in Trade
    BY <1>1, <1>5, HeadTailProperties
  <2>5. /\ Values(rolling_trades') = Tail(Values(rolling_trades))
        /\ Volumes(rolling_trades') = Tail(Volumes(rolling_trades))
        /\ Values(rolling_trades) # <<>> /\ Volumes(rolling_trades) # <<>>
    BY <1>1, <1>5, TermsTail
  <2>2. SumOf(Values(rolling_trades')) = SumOf(Values(rolling_trades))
                - Head(rolling_trades).price * Head(rolling_trades).volume
    <3>1. Values(rolling_trades)[1] = Head(rolling_trades).price * Head(rolling_trades).volume
      BY <1>1, <1>5, TermsTail
    <3> QED BY <1>2, <2>5, <3>1, SumTail
  <2>3. SumOf(Volumes(rolling_trades')) = SumOf(Volumes(rolling_trades))
                - Head(rolling_trades).volume
    <3>1. Volumes(rolling_trades)[1] = Head(rolling_trades).volume
      BY <1>1, <1>5, TermsTail
    <3> QED BY <1>2, <2>5, <3>1, SumTail
  <2>4. rolling_volume_accumulator' <= volume_accumulator'
    <3>1. Head(rolling_trades).volume \in Nat
      BY <1>3, <2>1
    <3> QED BY <1>1, <1>5, <3>1 DEF Sums
  <2> QED BY <1>5, <2>2, <2>3, <2>4 DEF Sums
<1>6. CASE UNCHANGED rolling /\ volume_accumulator' >= volume_accumulator
  <2>1. volume_accumulator' \in Nat
    BY StepTypes DEF TypeOK
  <2> QED BY <1>1, <1>6, <2>1 DEF rolling, Sums
<1> QED BY <1>4, <1>5, <1>6, SumsSteps
-----------------------------------------------------------------------------
(***************************************************************************)
(* The theorems.                                                           *)
(***************************************************************************)
THEOREM Invariant == Spec => []IInv
  BY InitHolds, StepHolds, PTL DEF Spec

\* Types: only orders that need something are active, with their task.
THEOREM CalculatorTypeCorrect == Spec => []TypeOK
  BY Invariant, PTL DEF IInv

\* The advice keeps what MatchingEngine takes for granted of it, for any clock,
\* trades and orders.
THEOREM AdviceCorrect == Spec => []AdviceIsWithinBounds
<1>1. TypeOK => AdviceIsWithinBounds
  BY AdviceHolds
<1> QED
  BY <1>1, CalculatorTypeCorrect, PTL

\* In its last half minute an order asks for all that remains.
THEOREM LastTurnCorrect == Spec => []LastTurnAsksAll
<1>1. TypeOK => LastTurnAsksAll
  BY LastTurnHolds
<1> QED
  BY <1>1, CalculatorTypeCorrect, PTL

\* No turn is lost to the throttle, however late turns and readings are.
THEOREM TurnsAreNotLost == Spec => []TurnsAreDue
<1>1. IInv => TurnsAreDue
  BY TurnsDueHolds DEF IInv
<1> QED
  BY <1>1, Invariant, PTL

\* Each child comes at least half a minute after the one before, and is at most the
\* second of its minute.
THEOREM ChildrenKeepDistance == Spec => ChildrenAreSpaced
<1>1. IInv /\ IInv' /\ [Next]_vars =>
        [ \A id \in DOMAIN orders :
            LET o == orders[id]
                n == orders'[id]
            IN  n.children > o.children =>
                  /\ o.children > 0 =>
                       n.last_child_order_time >= o.last_child_order_time + 30 * Second
                  /\ n.children <= 2 * o.minutes ]_vars
  BY DistanceHolds
<1> QED
  BY <1>1, Invariant, PTL DEF Spec, ChildrenAreSpaced

\* However trades come and go, the rolling accumulators are the sums over the
\* trades in the window; outside the pruning loop the window spans at most five
\* minutes, whatever the clock does between its two readings.
THEOREM WindowCorrect == Spec => []RollingIsConsistent
<1>1. Init => WindowInv /\ Sums
  <2> SUFFICES ASSUME Init PROVE WindowInv /\ Sums
    OBVIOUS
  <2>1. Values(rolling_trades) = <<>> /\ Volumes(rolling_trades) = <<>>
    BY DEF Init, Values, Volumes
  <2> QED BY <2>1, SumEmpty DEF Init, WindowInv, InOrder, SpansFiveMinutes, InThePast, Sums
<1>2. TypeOK /\ WindowInv /\ Sums => RollingIsConsistent
  <2> SUFFICES ASSUME TypeOK, WindowInv, Sums PROVE RollingIsConsistent
    OBVIOUS
  <2>1. SumOf(Volumes(rolling_trades)) \in Nat
    BY TermsTyped, SumNatural DEF TypeOK
  <2> QED BY <2>1 DEF WindowInv, Sums, RollingIsConsistent
<1> QED
  BY <1>1, <1>2, WindowHolds, SumsHold, CalculatorTypeCorrect, PTL DEF Spec
=============================================================================
