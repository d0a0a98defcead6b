---------------------------- MODULE MCOrderBook ----------------------------
(***************************************************************************)
(* Instances of OrderBook for TLC: which orders may arrive, per question.  *)
(***************************************************************************)
EXTENDS OrderBookProperties

Symmetry == Permutations(Id) \cup Permutations(Client)

\* Two prices, two quantities: priority, partial fills, self trades, and
\* market orders larger or smaller than what rests.
LimitAndMarketOrders ==
  UNION {{NewOrder("LIMIT", "BUY", 1, 1, c), NewOrder("LIMIT", "BUY", 2, 2, c),
          NewOrder("LIMIT", "SELL", 1, 2, c), NewOrder("LIMIT", "SELL", 2, 1, c),
          NewOrder("MARKET", "BUY", 0, 2, c), NewOrder("MARKET", "SELL", 0, 2, c)} : c \in Client}

\* Client a buys, client b sells, each with limit orders at two prices and
\* every kind of stop order; the last one is a STOP_LIMIT of an "ORDER" message.
StopOrders(a, b) ==
  {NewOrder("LIMIT", "BUY", 2, 1, a),        NewOrder("LIMIT", "BUY", 1, 2, a),
   NewOrder("LIMIT", "SELL", 1, 2, b),       NewOrder("LIMIT", "SELL", 2, 1, b),
   NewOrder("STOP_LOSS", "SELL", 1, 1, b),   NewOrder("STOP_LOSS", "BUY", 2, 1, a),
   NewStopLimitOrder("SELL", 2, 1, 1, b),    NewStopLimitOrder("BUY", 1, 2, 1, a),
   NewTrailingStopOrder("SELL", 1, 1, b),    NewTrailingStopOrder("BUY", 1, 1, a),
   NewOrder("STOP_LIMIT", "BUY", 1, 1, a)}

CONSTANTS c1, c2

\* One order of each kind, self trades among them.
OneOfEach ==
  {NewOrder("LIMIT", "BUY", 2, 1, c1),      NewOrder("LIMIT", "SELL", 1, 2, c2),
   NewOrder("LIMIT", "SELL", 1, 1, c1),     NewOrder("MARKET", "SELL", 0, 1, c1),
   NewOrder("STOP_LOSS", "SELL", 1, 1, c1), NewStopLimitOrder("SELL", 2, 1, 1, c2),
   NewTrailingStopOrder("BUY", 1, 1, c1)}

StopsOfTwo == StopOrders(c1, c2)

IdSymmetry == Permutations(Id)
=============================================================================
