--------------------------- MODULE VWAPCalculator ---------------------------
(***************************************************************************)
(* src/common/VWAPCalculator.cpp of one symbol, with the VWAP orders that  *)
(* ask it for advice (process_vwap_order of src/server/MatchingEngine.cpp) *)
(* and the 30 s sleep between two turns of an order.  The symbol has its   *)
(* book; MatchingEngine models the task that comes before it.              *)
(*                                                                         *)
(* The clock is read at every place where the code reads it: now is the    *)
(* reading at an operation's start, its last reading, later, may come any  *)
(* time after.  Second is the number of clock ticks that duration_cast to  *)
(* seconds rounds down to one.                                             *)
(*                                                                         *)
(* Prices of trades are whole numbers, limit prices thousandths of one.    *)
(* Quotients are kept as numerator and denominator and compared by cross-  *)
(* multiplying, so that nothing is rounded.  The one comparison that the   *)
(* code always makes exactly at the boundary, a price step of 0.1 %        *)
(* against 0.001, may go either way, as it does for doubles.               *)
(***************************************************************************)
EXTENDS Integers, FiniteSets, Sequences

CONSTANTS OrderId,       \* VWAP orders
          Submission,    \* what clients ask for
          Moment,        \* what the clock may read, in ticks
          Second,        \* ticks in a second
          TradePrice, TradeVolume,
          MaxVolume,     \* bound on the volume traded in all
          Contribution   \* what a matched child adds to filled_quantity

VARIABLES
  now,
  window,                        \* [start_time, end_time], NoWindow before there is a calculator
  vwap_accumulator, volume_accumulator,
  rolling_trades, rolling_vwap_accumulator, rolling_volume_accumulator,
  pruning,                       \* update_rolling_window is in its loop
  orders,                        \* [ids submitted -> VwapOrder]
  vwap_orders,                   \* ids of the active ones
  wake                           \* [ids with a task -> when its sleep ends]

day == <<vwap_accumulator, volume_accumulator>>
rolling == <<rolling_trades, rolling_vwap_accumulator, rolling_volume_accumulator>>
calculator == <<window, day, rolling>>
vars == <<now, calculator, pruning, orders, vwap_orders, wake>>

Trade == [price : TradePrice, volume : TradeVolume, timestamp : Moment]

VwapOrder ==
  [side : {"BUY", "SELL"}, target_vwap : Nat \ {0}, quantity : Nat \ {0}, minutes : Nat \ {0},
   filled_quantity : Nat, execution_start_time : Nat, execution_end_time : Nat,
   children : Nat, last_child_order_price : Nat, last_child_order_time : Nat]

NoWindow == [start_time |-> 0, end_time |-> -1]

ASSUME MomentAssumption == Moment \subseteq Nat
ASSUME SecondAssumption == Second \in Nat \ {0}
ASSUME SubmissionAssumption ==
  Submission \subseteq [side : {"BUY", "SELL"}, target_vwap : Nat \ {0},
                        quantity : Nat \ {0}, minutes : 1..480]
ASSUME TradeAssumption ==
  TradePrice \subseteq Nat \ {0} /\ TradeVolume \subseteq Nat \ {0} /\ MaxVolume \in Nat
ASSUME ContributionAssumption == Contribution \subseteq Nat

Init ==
  /\ now \in Moment
  /\ window = NoWindow
  /\ vwap_accumulator = 0 /\ volume_accumulator = 0
  /\ rolling_trades = <<>>
  /\ rolling_vwap_accumulator = 0 /\ rolling_volume_accumulator = 0
  /\ pruning = FALSE
  /\ orders = [i \in {} |-> 0]
  /\ vwap_orders = {}
  /\ wake = [i \in {} |-> 0]

Seconds(ticks) == ticks \div Second
Abs(n) == IF n < 0 THEN -n ELSE n
-----------------------------------------------------------------------------
(***************************************************************************)
(* add_trade and update_rolling_window                                     *)
(***************************************************************************)
\* A trade counts for the day at any time, for the rolling window within the
\* hours of the order for which the calculator was made.  update_rolling_window
\* then reads the clock again.
AddTrade(price, volume, later) ==
  /\ window # NoWindow
  /\ volume_accumulator + volume <= MaxVolume
  /\ vwap_accumulator' = vwap_accumulator + price * volume
  /\ volume_accumulator' = volume_accumulator + volume
  /\ \/ /\ window.start_time <= now /\ now <= window.end_time
        /\ rolling_trades' =
             Append(rolling_trades, [price |-> price, volume |-> volume, timestamp |-> now])
        /\ rolling_vwap_accumulator' = rolling_vwap_accumulator + price * volume
        /\ rolling_volume_accumulator' = rolling_volume_accumulator + volume
        /\ pruning' = TRUE
     \/ /\ ~(window.start_time <= now /\ now <= window.end_time)
        /\ UNCHANGED <<rolling, pruning>>
  /\ now' = later
  /\ UNCHANGED <<window, orders, vwap_orders, wake>>

Stale(trade) == trade.timestamp + 300 * Second < now

\* Wrong variant: one stale trade at most is taken off (if for while).
PruneOne ==
  LET old_trade == Head(rolling_trades)
  IN  /\ rolling_trades # <<>>
      /\ Stale(old_trade)
      /\ rolling_trades' = Tail(rolling_trades)
      /\ rolling_vwap_accumulator' = rolling_vwap_accumulator - old_trade.price * old_trade.volume
      /\ rolling_volume_accumulator' = rolling_volume_accumulator - old_trade.volume
      /\ pruning' = FALSE
      /\ UNCHANGED <<now, window, day, orders, vwap_orders, wake>>

\* The loop takes the stale trades off, the oldest first.  (They are erased
\* together after it; nobody looks in between.)
Prune ==
  LET old_trade == Head(rolling_trades)
  IN  /\ rolling_trades # <<>>
      /\ Stale(old_trade)
      /\ rolling_trades' = Tail(rolling_trades)
      /\ rolling_vwap_accumulator' = rolling_vwap_accumulator - old_trade.price * old_trade.volume
      /\ rolling_volume_accumulator' = rolling_volume_accumulator - old_trade.volume
      /\ UNCHANGED <<now, window, day, pruning, orders, vwap_orders, wake>>

\* It ends at the first trade that is not stale.
PruneEnds ==
  /\ ~(rolling_trades # <<>> /\ Stale(Head(rolling_trades)))
  /\ pruning' = FALSE
  /\ UNCHANGED <<now, calculator, orders, vwap_orders, wake>>
-----------------------------------------------------------------------------
(***************************************************************************)
(* calculate_child_order_params                                            *)
(***************************************************************************)
\* current_vwap = paid / shares; 0 before the first trade.
Shares == IF volume_accumulator > 0 THEN volume_accumulator ELSE 1

\* How far current_vwap is above the order's target, in units of 1 / Shares.
Above(o) == vwap_accumulator - o.target_vwap * Shares

WithinOnePercent(o) == 100 * Abs(Above(o)) <= o.target_vwap * Shares

Favourable(o) == IF o.side = "BUY" THEN Above(o) <= 0 ELSE Above(o) >= 0

\* Wrong variant: the discount of a buyer for a seller as well.
OnePriceForBoth(o) ==
  IF Favourable(o) THEN 1000 * o.target_vwap
  ELSE IF WithinOnePercent(o) THEN 999 * o.target_vwap ELSE 0

\* The target, 0.1 % better when the market is slightly on the wrong side, no
\* price (0) when it is further away.
LimitPrice(o) ==
  IF Favourable(o) THEN 1000 * o.target_vwap
  ELSE IF ~WithinOnePercent(o) THEN 0
  ELSE IF o.side = "BUY" THEN 999 * o.target_vwap ELSE 1001 * o.target_vwap

TimeRemaining(o) == Seconds(o.execution_end_time - now)

MayAsk(o) ==
  /\ o.execution_start_time <= now /\ now <= o.execution_end_time
  /\ TimeRemaining(o) > 0
  /\ LimitPrice(o) # 0

\* volume_factor in thousandths.
\* Wrong variant: no lower bound on it.
CappedVolumeFactor ==
  IF rolling_volume_accumulator > 2000 THEN 2000 ELSE rolling_volume_accumulator

VolumeFactor ==
  IF rolling_volume_accumulator < 500 THEN 500
  ELSE IF rolling_volume_accumulator > 2000 THEN 2000 ELSE rolling_volume_accumulator

\* deviation_factor in halves.
DeviationFactor(o) == IF WithinOnePercent(o) THEN 2 ELSE 3

\* calculate_optimal_quantity: the part of the remaining quantity to ask for,
\* Pace(o) of 2000 * TimeRemaining(o), or all of it.
Pace(o) == 60 * VolumeFactor * DeviationFactor(o)

AsksAll(o) == Pace(o) >= 2000 * TimeRemaining(o)

RestOver(o) == Seconds(now - o.last_child_order_time) >= 30

PriceStep(o) == Abs(LimitPrice(o) - o.last_child_order_price)

\* should_place: at the boundary of 0.1 % both are possible.
ShouldPlace(o) == MayAsk(o) /\ (RestOver(o) \/ PriceStep(o) >= o.target_vwap)
ShouldWait(o) == ~(MayAsk(o) /\ (RestOver(o) \/ PriceStep(o) > o.target_vwap))
-----------------------------------------------------------------------------
(***************************************************************************)
(* The VWAP orders: submit_vwap_order with the hours that process_message  *)
(* gives them, process_vwap_order, and what ends an order.                 *)
(***************************************************************************)
StartTime == now + Second
EndTime(s) == now + 60 * Second * s.minutes

\* The calculator keeps the hours of the order it was made for.
Submit(id, s, later) ==
  LET start == StartTime
      end == EndTime(s)
  IN  /\ id \notin DOMAIN orders
      /\ window' = IF window = NoWindow THEN [start_time |-> start, end_time |-> end] ELSE window
      /\ orders' = [i \in DOMAIN orders \cup {id} |-> IF i # id THEN orders[i] ELSE
           [side |-> s.side, target_vwap |-> s.target_vwap, quantity |-> s.quantity,
            minutes |-> s.minutes, filled_quantity |-> 0, execution_start_time |-> start,
            execution_end_time |-> end, children |-> 0, last_child_order_price |-> 0,
            last_child_order_time |-> later]]
      /\ vwap_orders' = vwap_orders \cup {id}
      /\ wake' = [i \in DOMAIN wake \cup {id} |-> IF i = id THEN later ELSE wake[i]]
      /\ now' = later
      /\ UNCHANGED <<day, rolling, pruning>>

\* Wrong variants: turns at a fixed rate; a sleep counted from the turn's start.
AtFixedRate(id, later) == wake[id] + 30 * Second
FromStart(id, later) == now + 30 * Second

NextTurn(id, later) == later + 30 * Second

\* One turn of process_vwap_order: a child order or none, and another turn.
Turn(id, later) ==
  LET o == orders[id]
  IN  /\ wake[id] <= now
      /\ id \in vwap_orders
      /\ \/ /\ ShouldPlace(o)
            /\ orders' = [orders EXCEPT ![id].children = @ + 1,
                                        ![id].last_child_order_price = LimitPrice(o),
                                        ![id].last_child_order_time = later]
         \/ ShouldWait(o) /\ UNCHANGED orders
      /\ wake' = [wake EXCEPT ![id] = NextTurn(id, later)]
      /\ now' = later
      /\ UNCHANGED <<calculator, pruning, vwap_orders>>

\* The order is cancelled or complete: its task ends.
LastTurn(id) ==
  /\ wake[id] <= now
  /\ id \notin vwap_orders
  /\ wake' = [i \in DOMAIN wake \ {id} |-> wake[i]]
  /\ UNCHANGED <<now, calculator, pruning, orders, vwap_orders>>

\* Wrong variant: an order that is complete stays active.
CreditKeepingAll(id, contribution) ==
  /\ orders[id].children > 0
  /\ orders' = [orders EXCEPT ![id].filled_quantity = @ + contribution]
  /\ UNCHANGED <<now, calculator, pruning, vwap_orders, wake>>

\* update_vwap_order_progress for a matched child.
Credit(id, contribution) ==
  /\ orders[id].children > 0
  /\ orders' = [orders EXCEPT ![id].filled_quantity = @ + contribution]
  /\ vwap_orders' = IF orders'[id].filled_quantity >= orders[id].quantity
                    THEN vwap_orders \ {id} ELSE vwap_orders
  /\ UNCHANGED <<now, calculator, pruning, wake>>

Cancel(id) ==
  /\ vwap_orders' = vwap_orders \ {id}
  /\ UNCHANGED <<now, calculator, pruning, orders, wake>>

Wait(later) ==
  /\ now' = later
  /\ UNCHANGED <<calculator, pruning, orders, vwap_orders, wake>>

\* Everything is done under engine_mutex: nothing else happens in the loop.
Call ==
  \/ \E later \in {t \in Moment : now <= t} :
       \/ \E id \in OrderId, s \in Submission : Submit(id, s, later)
       \/ \E price \in TradePrice, volume \in TradeVolume : AddTrade(price, volume, later)
       \/ \E id \in DOMAIN wake : Turn(id, later)
       \/ Wait(later)
  \/ \E id \in DOMAIN wake : LastTurn(id)
  \/ \E id \in vwap_orders :
       \/ \E contribution \in Contribution : Credit(id, contribution)
       \/ Cancel(id)

Next ==
  \/ pruning /\ (Prune \/ PruneEnds)
  \/ ~pruning /\ Call

Spec == Init /\ [][Next]_vars
-----------------------------------------------------------------------------
(***************************************************************************)
(* What the calculator promises.                                           *)
(***************************************************************************)
\* Types; only orders that still need something are active, and each of them
\* has its task (MatchingEngine.cpp:297-337, :366-373).
TypeOK ==
  /\ now \in Moment
  /\ window \in [start_time : Nat, end_time : Int]
  /\ vwap_accumulator \in Nat /\ volume_accumulator \in Nat
  /\ rolling_trades \in Seq(Trade)
  /\ rolling_vwap_accumulator \in Int /\ rolling_volume_accumulator \in Int
  /\ pruning \in BOOLEAN
  /\ DOMAIN orders \subseteq OrderId /\ orders \in [DOMAIN orders -> VwapOrder]
  /\ wake \in [DOMAIN wake -> Nat]
  /\ vwap_orders \subseteq DOMAIN wake /\ DOMAIN wake \subseteq DOMAIN orders
  /\ \A id \in vwap_orders : orders[id].filled_quantity < orders[id].quantity

\* The trades in the window, in the order of their time.
InOrder ==
  \A i, j \in DOMAIN rolling_trades :
    i <= j => rolling_trades[i].timestamp <= rolling_trades[j].timestamp

SpansFiveMinutes ==
  pruning \/ \A i, j \in DOMAIN rolling_trades :
    rolling_trades[j].timestamp <= rolling_trades[i].timestamp + 300 * Second

\* The sum of a sequence of numbers.
SumOf(s) ==
  LET sum[i \in 0..Len(s)] == IF i = 0 THEN 0 ELSE sum[i - 1] + s[i]
  IN  sum[Len(s)]

Values(trades) == [i \in 1..Len(trades) |-> trades[i].price * trades[i].volume]
Volumes(trades) == [i \in 1..Len(trades) |-> trades[i].volume]

\* However trades come and go, the rolling accumulators are the sums over the
\* trades in the window, which are in order and span at most five minutes, and
\* at most the day's (VWAPCalculator.cpp:22-29, :36-51).
RollingIsConsistent ==
  /\ rolling_vwap_accumulator = SumOf(Values(rolling_trades))
  /\ rolling_volume_accumulator = SumOf(Volumes(rolling_trades))
  /\ 0 <= rolling_volume_accumulator /\ rolling_volume_accumulator <= volume_accumulator
  /\ InOrder /\ SpansFiveMinutes

\* What MatchingEngine takes for granted of the advice: it comes within the
\* order's hours; the price is on the order's own side of the target and at
\* most 0.1 % from it; the quantity is at least half the even share of the
\* minute, at most three times it, at most twice when the market is on the
\* wrong side: the hurry for a deviation of 1 % never falls on a bad price
\* (VWAPCalculator.cpp:66-106, :123-134).
AdviceIsWithinBounds ==
  \A id \in vwap_orders : MayAsk(orders[id]) =>
    LET o == orders[id]
        off == LimitPrice(o) - 1000 * o.target_vwap
    IN  /\ now < o.execution_end_time
        /\ IF o.side = "BUY" THEN off \in {0, -o.target_vwap} ELSE off \in {0, o.target_vwap}
        /\ Pace(o) >= 60 * 1000
        /\ Pace(o) <= IF off = 0 THEN 3 * 60 * 2000 ELSE 2 * 60 * 2000

\* In the last half minute an order asks for all that remains, whatever the
\* volume and the market (VWAPCalculator.cpp:71-79, :124-133).
LastTurnAsksAll ==
  \A id \in vwap_orders :
    MayAsk(orders[id]) /\ orders[id].execution_end_time - now <= 30 * Second =>
      AsksAll(orders[id])

\* The throttle never holds an order back at its turn: the sleep between two
\* turns is at least as long as the rest that the throttle asks for, measured
\* by another clock reading and rounded down (VWAPCalculator.cpp:108-114,
\* MatchingEngine.cpp:328, :335-338).
TurnsAreDue ==
  \A id \in vwap_orders :
    wake[id] <= now /\ MayAsk(orders[id]) => ~ShouldWait(orders[id])

\* When an order places a child, half a minute or more has passed since its child
\* before, however late that one came and also when a price step lifts the throttle;
\* and it is at most the second for each minute that the order lasts
\* (MatchingEngine.cpp:318-338).
ChildrenAreSpaced ==
  [][ \A id \in DOMAIN orders :
        LET o == orders[id]
            n == orders'[id]
        IN  n.children > o.children =>
              /\ o.children > 0 =>
                   n.last_child_order_time >= o.last_child_order_time + 30 * Second
              /\ n.children <= 2 * o.minutes ]_vars
=============================================================================
