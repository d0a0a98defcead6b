------------------------------- MODULE Orders -------------------------------
(***************************************************************************)
(* The order record of src/common/Order.h, its constructors, and the       *)
(* admission rules MatchingEngine applies before an order reaches a book.  *)
(*                                                                         *)
(* Prices and quantities are doubles in the code and integers here; the    *)
(* symbol is left out because a book holds the orders of one symbol.  An   *)
(* order's id is the key under which a book stores its record.  The        *)
(* constructors leave the timestamp at 0: whoever inserts the order stamps *)
(* it, because the code constructs an order right before inserting it.     *)
(***************************************************************************)
EXTENDS Integers

CONSTANT Client          \* client ids

OrderSide == {"BUY", "SELL"}
OrderType == {"MARKET", "LIMIT", "STOP_LOSS", "STOP_LIMIT", "TRAILING_STOP"}
StopType  == {"STOP_LOSS", "STOP_LIMIT", "TRAILING_STOP"}
OrderStatus == {"PENDING", "PARTIAL_FILLED", "FILLED", "CANCELLED", "REJECTED"}

OppositeSide(side) == IF side = "BUY" THEN "SELL" ELSE "BUY"

Order == [type : OrderType, side : OrderSide, price : Int, quantity : Nat \ {0},
          client_id : Client, status : OrderStatus, filled_quantity : Int,
          timestamp : Nat, limit_price : Int, trailing_amount : Int,
          highest_price : Int, lowest_price : Int]

Remaining(o) == o.quantity - o.filled_quantity

IsStop(o) == o.type \in StopType
-----------------------------------------------------------------------------
(***************************************************************************)
(* The constructors.  The plain one is used for every order of an "ORDER"  *)
(* message, whatever its type: a STOP_LIMIT built by it has limit price 0  *)
(* and a TRAILING_STOP built by it has trailing amount 0.                  *)
(***************************************************************************)
NewOrder(type, side, price, quantity, client) ==
  [type |-> type, side |-> side, price |-> price, quantity |-> quantity,
   client_id |-> client, status |-> "PENDING", filled_quantity |-> 0,
   timestamp |-> 0, limit_price |-> 0, trailing_amount |-> 0,
   highest_price |-> 0, lowest_price |-> 0]

NewStopLimitOrder(side, stop_price, limit_price, quantity, client) ==
  [NewOrder("STOP_LIMIT", side, stop_price, quantity, client)
     EXCEPT !.limit_price = limit_price]

NewTrailingStopOrder(side, trailing_amount, quantity, client) ==
  [NewOrder("TRAILING_STOP", side, 0, quantity, client)
     EXCEPT !.trailing_amount = trailing_amount]
-----------------------------------------------------------------------------
\* What every constructor leaves in a new order.
IsFresh(o) ==
  /\ o \in Order
  /\ o.status = "PENDING"
  /\ o.filled_quantity = 0 /\ o.timestamp = 0
  /\ o.highest_price = 0   /\ o.lowest_price = 0

\* validate_order: only a LIMIT order's price is checked.
ValidOrder(o) ==
  /\ o.limit_price = 0 /\ o.trailing_amount = 0
  /\ o.type = "LIMIT" => o.price > 0

\* validate_stop_limit_order: the limit lies on the far side of the stop.
ValidStopLimitOrder(o) ==
  /\ o.type = "STOP_LIMIT" /\ o.trailing_amount = 0
  /\ o.price > 0 /\ o.limit_price > 0
  /\ o.side = "SELL" => o.price >= o.limit_price
  /\ o.side = "BUY"  => o.price <= o.limit_price

ValidTrailingStopOrder(o) ==
  /\ o.type = "TRAILING_STOP" /\ o.price = 0 /\ o.limit_price = 0
  /\ o.trailing_amount > 0

\* The orders some submit function builds and hands to a book.
IsAdmissible(o) ==
  /\ IsFresh(o)
  /\ ValidOrder(o) \/ ValidStopLimitOrder(o) \/ ValidTrailingStopOrder(o)
=============================================================================
