------------------------------ MODULE MCEngine ------------------------------
(***************************************************************************)
(* Instances of MatchingEngine for TLC.                                    *)
(***************************************************************************)
EXTENDS EngineProperties

CONSTANTS c1, c2, Other  \* clients, and a symbol

\* Client c2 supplies what c1's VWAP order buys; a stop and a stop limit order
\* are set off by the trades, a market order hits c1's children.
Mixed ==
  {NewOrder("LIMIT", "SELL", 1, 1, c2),        NewOrder("STOP_LOSS", "SELL", 1, 1, c2),
   NewStopLimitOrder("SELL", 1, 1, 1, c2),     NewOrder("MARKET", "SELL", 0, 2, c2)}

BuyTwo == {NewVwapOrder(Traded, "BUY", 1, 2, c1)}

\* A VWAP order for a symbol that has no book, beside one for the traded symbol.
BothSymbols == BuyTwo \cup {NewVwapOrder(Other, "SELL", 1, 1, c2)}

\* c2 sells in two pieces what one child buys.
TwoPieces == {NewOrder("LIMIT", "SELL", 1, 1, c2)}

Children12 == {ChildOrder(v, 1, q) : v \in BuyTwo, q \in {1, 2}}

TwoPiecesIncoming == TwoPieces \cup Children12
MixedIncoming ==
  Mixed \cup Children12 \cup {ChildOrder(v, p, 1) : v \in BothSymbols, p \in {1, 2}}
=============================================================================
