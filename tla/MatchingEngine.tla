--------------------------- MODULE MatchingEngine ---------------------------
(***************************************************************************)
(* src/server/MatchingEngine.cpp on top of the book of one symbol: the     *)
(* calls of the connection threads, the background tasks they leave behind *)
(* and the VWAP orders that place child orders.                            *)
(*                                                                         *)
(* Every engine operation holds engine_mutex from its first access to its  *)
(* last, so that one is in progress at a time: op says which, and where it *)
(* goes on when the book has returned (pc = "idle").  Whatever the engine  *)
(* does to the book is an operation of OrderBook.                          *)
(*                                                                         *)
(* Traded is the symbol whose book is modelled.  Of the other symbols only *)
(* what can disturb Traded is kept: their entry in order_books, which a    *)
(* VWAP order may leave without a book.  A call on such an entry crashes   *)
(* the program (op = "crashed").                                           *)
(*                                                                         *)
(* Abstractions.  Calls that validation rejects change nothing and are     *)
(* left out.  An id is drawn from next_order_id before the lock is taken,  *)
(* so that ids may arrive out of order; since nothing compares ids but for *)
(* equality, the calls are taken to arrive in the order of their ids.  The *)
(* branch of process_vwap_order for a complete order is left out: such an  *)
(* order is no longer in vwap_orders (EngineTypeOK).                       *)
(* Tasks wait in the pool for a worker and then for the lock, so that any  *)
(* queued task may be the next one.  What VWAPCalculator advises depends   *)
(* on clocks and volumes: it may be to wait, at any moment, and a quantity *)
(* and price within its bounds as long as the time window lasts.           *)
(***************************************************************************)
EXTENDS OrderBook

CONSTANTS Symbol,          \* symbols a client may name
          Traded,          \* the symbol with the modelled book
          Submission,      \* what clients submit for Traded's book
          VwapSubmission   \* the VWAP orders clients submit

VARIABLES
  order_books,       \* [Symbol -> {"absent", "null", "open"}]
  client_orders,     \* [Client -> sets of ids]
  vwap,              \* [ids seen -> VwapOrder]: the VWAP Order objects
  vwap_orders,       \* ids of the active ones
  over,              \* ids of those past execution_end_time
  matching_tasks,    \* number of process_matching tasks not yet run
  vwap_tasks,        \* ids with a process_vwap_order task not yet run
  op,                \* the engine operation in progress
  matched,           \* process_matching's result of match_orders
  to_cancel,         \* cancel_order on a VWAP order: the children left, and its id
  converted          \* history: stop limit orders that a pass has made limit orders
                     \* since match_orders last returned

results == <<matched, converted>>
vwapState == <<vwap, vwap_orders, over, vwap_tasks>>
engine == <<order_books, client_orders, vwapState, matching_tasks, op, results,
            to_cancel>>
allVars == <<vars, engine>>

VwapOrder ==
  [symbol : Symbol, side : OrderSide, target_vwap : Nat \ {0},
   quantity : Nat \ {0}, client_id : Client, status : OrderStatus,
   filled_quantity : Nat, child_order_ids : Seq(Id)]

NewVwapOrder(symbol, side, target_vwap, quantity, client) ==
  [symbol |-> symbol, side |-> side, target_vwap |-> target_vwap,
   quantity |-> quantity, client_id |-> client, status |-> "PENDING",
   filled_quantity |-> 0, child_order_ids |-> <<>>]

\* calculate_child_order_params: the target, or a little better than it (0.1 %,
\* one price step here) when the market price is slightly on the wrong side.
ChildPrices(v) ==
  {v.target_vwap, IF v.side = "BUY" THEN v.target_vwap - 1 ELSE v.target_vwap + 1} \ {0}

ChildOrder(v, price, quantity) ==
  NewOrder("LIMIT", v.side, price, quantity, v.client_id)

Children(v) == {vwap[v].child_order_ids[i] : i \in DOMAIN vwap[v].child_order_ids}

ASSUME NumberedAssumption == Id \subseteq Nat
ASSUME SymbolAssumption == Traded \in Symbol
ASSUME SubmissionAssumption == Submission \subseteq Incoming
ASSUME VwapAssumption ==
  \A v \in VwapSubmission :
    /\ v \in VwapOrder
    /\ v.status = "PENDING" /\ v.filled_quantity = 0 /\ v.child_order_ids = <<>>
    /\ \A p \in ChildPrices(v), q \in 1..v.quantity : ChildOrder(v, p, q) \in Incoming

EngineInit ==
  /\ Init
  /\ order_books = [s \in Symbol |-> "absent"]
  /\ client_orders = [c \in Client |-> {}]
  /\ vwap = [i \in {} |-> 0]
  /\ vwap_orders = {} /\ over = {}
  /\ matching_tasks = 0 /\ vwap_tasks = {}
  /\ op = "none"
  /\ matched = <<>> /\ to_cancel = <<>> /\ converted = {}

\* next_order_id++
Unused == Id \ (Seen \cup DOMAIN vwap)
NextId == {id \in Unused : \A i \in Unused : id <= i}

NullBook == \E s \in Symbol : order_books[s] = "null"

InBook(id) ==
  \/ \E side \in OrderSide : \E p \in DOMAIN book[side] :
       \E i \in DOMAIN book[side][p] : book[side][p][i] = id
  \/ \E i \in DOMAIN stop_loss_orders : stop_loss_orders[i] = id
-----------------------------------------------------------------------------
(***************************************************************************)
(* submit_order, submit_stop_limit_order, submit_trailing_stop_order       *)
(***************************************************************************)
Record(id, client) ==
  client_orders' = [client_orders EXCEPT ![client] = @ \cup {id}]

OpenBook ==
  /\ order_books[Traded] # "null"
  /\ order_books' = [order_books EXCEPT ![Traded] = "open"]

\* Wrong variant: only the order that opens the book gets a task.
ScheduleFirstMatching ==
  matching_tasks' = matching_tasks + (IF order_books[Traded] = "absent" THEN 1 ELSE 0)

ScheduleMatching == matching_tasks' = matching_tasks + 1

\* An order that goes to the book, with a task to match it later.
SubmitToBook(id, o) ==
  /\ op = "none"
  /\ id \in NextId
  /\ OpenBook
  /\ \/ /\ AddLimitOrder(id, o) \/ AddStopOrder(id, o) \/ AddTriggeredStopLimit(id, o)
        /\ UNCHANGED op
     \/ AddTriggeredStop(id, o) /\ op' = "add"
  /\ ScheduleMatching
  /\ Record(id, o.client_id)
  /\ UNCHANGED <<vwapState, results, to_cancel>>

\* A market order, executed in the caller's thread.
SubmitMarketOrder(id, o) ==
  /\ op = "none"
  /\ id \in NextId
  /\ OpenBook
  /\ ExecuteMarketOrder(id, o) /\ op' = "market"
  /\ Record(id, o.client_id)
  /\ UNCHANGED <<vwapState, matching_tasks, results, to_cancel>>

\* order_books[symbol]->... on an entry without a book.
SubmitToNullBook ==
  /\ op = "none"
  /\ NullBook
  /\ op' = "crashed"
  /\ UNCHANGED <<vars, order_books, client_orders, vwapState, matching_tasks, results,
                 to_cancel>>
-----------------------------------------------------------------------------
(***************************************************************************)
(* The book works for the operation in progress.                           *)
(***************************************************************************)
\* What follows when the book returns from its loop, where it follows at once.
AfterBook ==
  IF op \in {"add", "market stops"} THEN "none"
  ELSE IF op = "matching stops" THEN "progress" ELSE op

\* The stop limit order to which check_stop_loss_orders gives its new type, if any.
Converts == {id \in Seen : order[id].type = "STOP_LIMIT" /\ order'[id].type = "LIMIT"}

BookStep ==
  /\ Step
  /\ op' = IF pc' = "idle" THEN AfterBook ELSE op
  /\ IF pc = "match" /\ pc' = "idle"
       THEN matched' = matched_orders /\ converted' = {}
       ELSE matched' = matched /\ converted' = converted \cup Converts
  /\ UNCHANGED <<order_books, client_orders, vwapState, matching_tasks, to_cancel>>

\* check_stop_loss_orders does nothing as long as there is no price.
CheckStops(during, otherwise) ==
  IF last_trade_price > 0 THEN CheckStopLossOrders /\ op' = during
                          ELSE UNCHANGED vars /\ op' = otherwise

\* execute_market_buy_order, execute_market_sell_order after the execution.
MarketOrderReturns ==
  /\ op = "market" /\ pc = "idle"
  /\ CheckStops("market stops", "none")
  /\ UNCHANGED <<order_books, client_orders, vwapState, matching_tasks, results,
                 to_cancel>>
-----------------------------------------------------------------------------
(***************************************************************************)
(* process_matching                                                        *)
(***************************************************************************)
ProcessMatching ==
  /\ op = "none"
  /\ matching_tasks > 0
  /\ matching_tasks' = matching_tasks - 1
  /\ MatchOrders /\ op' = "matching"
  /\ UNCHANGED <<order_books, client_orders, vwapState, results, to_cancel>>

MatchOrdersReturns ==
  /\ op = "matching" /\ pc = "idle"
  /\ IF matched = <<>> THEN UNCHANGED vars /\ op' = "none"
                       ELSE CheckStops("matching stops", "progress")
  /\ UNCHANGED <<order_books, client_orders, vwapState, matching_tasks, results,
                 to_cancel>>

\* Wrong variant: a completed order stays among the active ones.
CreditKeepingAll(v, id) ==
  LET filled == vwap[v].filled_quantity + order[id].filled_quantity
  IN  /\ vwap' = [vwap EXCEPT ![v].filled_quantity = filled,
                              ![v].status = IF filled < vwap[v].quantity THEN @ ELSE "FILLED"]
      /\ UNCHANGED vwap_orders

\* The fill that the child id has by now goes to its parent v.
Credit(v, id) ==
  LET filled == vwap[v].filled_quantity + order[id].filled_quantity
  IN  \/ /\ filled < vwap[v].quantity
         /\ vwap' = [vwap EXCEPT ![v].filled_quantity = filled]
         /\ UNCHANGED vwap_orders
      \/ /\ filled >= vwap[v].quantity
         /\ vwap' = [vwap EXCEPT ![v].filled_quantity = filled, ![v].status = "FILLED"]
         /\ vwap_orders' = vwap_orders \ {v}

\* update_vwap_order_progress: one matched order's turn.
UpdateVwapOrderProgress ==
  LET id == Head(matched)
      parents == {v \in vwap_orders : id \in Children(v)}
  IN  /\ op = "progress"
      /\ \/ \E v \in parents : Credit(v, id)
         \/ parents = {} /\ UNCHANGED <<vwap, vwap_orders>>
      /\ matched' = Tail(matched)
      /\ op' = IF Len(matched) = 1 THEN "none" ELSE "progress"
      /\ UNCHANGED <<vars, order_books, client_orders, over, vwap_tasks, matching_tasks,
                     to_cancel, converted>>
-----------------------------------------------------------------------------
(***************************************************************************)
(* submit_vwap_order and process_vwap_order.  A task that decides to wait  *)
(* enqueues itself again and changes nothing else: a stuttering step.      *)
(***************************************************************************)
SubmitVwapOrder(id, v) ==
  /\ op = "none"
  /\ id \in NextId
  /\ vwap' = [i \in DOMAIN vwap \cup {id} |-> IF i = id THEN v ELSE vwap[i]]
  /\ vwap_orders' = vwap_orders \cup {id}
  /\ vwap_tasks' = vwap_tasks \cup {id}
  /\ Record(id, v.client_id)
  /\ UNCHANGED <<vars, order_books, over, matching_tasks, op, results, to_cancel>>

\* Of interest where a child may be placed.
WindowEnds(id) ==
  /\ vwap[id].symbol = Traded
  /\ over' = over \cup {id}
  /\ UNCHANGED <<vars, order_books, client_orders, vwap, vwap_orders, matching_tasks,
                 vwap_tasks, op, results, to_cancel>>

\* Cancelled or complete: the task ends.
VwapOrderGone(id) ==
  /\ op = "none"
  /\ id \in vwap_tasks \ vwap_orders
  /\ vwap_tasks' = vwap_tasks \ {id}
  /\ UNCHANGED <<vars, order_books, client_orders, vwap, vwap_orders, over,
                 matching_tasks, op, results, to_cancel>>

\* order_books[symbol] inserts an entry without a book; the task ends for good.
VwapOrderWithoutBook(id) ==
  /\ op = "none"
  /\ id \in vwap_tasks \cap vwap_orders
  /\ order_books[vwap[id].symbol] # "open"
  /\ order_books' = [order_books EXCEPT ![vwap[id].symbol] = "null"]
  /\ vwap_tasks' = vwap_tasks \ {id}
  /\ UNCHANGED <<vars, client_orders, vwap, vwap_orders, over, matching_tasks, op,
                 results, to_cancel>>

\* Wrong variant: the task does not ask whether the order is still active.
WithinWindow(id) == id \in vwap_tasks \ over

\* Active, and within its time window.
MayPlace(id) == id \in (vwap_tasks \cap vwap_orders) \ over

\* Wrong variant: a task that has placed a child does not come back.
EndTask(id) == vwap_tasks' = vwap_tasks \ {id}

EnqueueAgain(id) == vwap_tasks' = vwap_tasks \cup {id}

PlaceChildOrder(id, child, price, quantity) ==
  /\ op = "none"
  /\ MayPlace(id)
  /\ vwap[id].symbol = Traded /\ order_books[Traded] = "open"
  /\ price \in ChildPrices(vwap[id])
  /\ quantity \in 1..(vwap[id].quantity - vwap[id].filled_quantity)
  /\ child \in NextId
  /\ AddLimitOrder(child, ChildOrder(vwap[id], price, quantity))
  /\ vwap' = [vwap EXCEPT ![id].child_order_ids = Append(@, child)]
  /\ ScheduleMatching
  /\ EnqueueAgain(id)
  /\ UNCHANGED <<order_books, client_orders, vwap_orders, over, op, results, to_cancel>>
-----------------------------------------------------------------------------
(***************************************************************************)
(* cancel_order, by the client the id was given to.  Every entry of        *)
(* order_books is asked to cancel, those without a book too.               *)
(***************************************************************************)
Forget(id, client) ==
  client_orders' = [client_orders EXCEPT ![client] = @ \ {id}]

\* Wrong variant: only price levels are searched.
CancelInLevels(id) ==
  IF InBook(id) /\ order[id].type = "LIMIT" THEN CancelOrder(id) ELSE UNCHANGED vars

CancelInBook(id) == IF InBook(id) THEN CancelOrder(id) ELSE UNCHANGED vars

CancelBookOrder(id, client) ==
  /\ op = "none"
  /\ id \in client_orders[client] \ vwap_orders
  /\ ~NullBook
  /\ CancelInBook(id)
  /\ Forget(id, client)
  /\ UNCHANGED <<order_books, vwapState, matching_tasks, op, results, to_cancel>>

CancelVwapOrder(id, client) ==
  /\ op = "none"
  /\ id \in client_orders[client] \cap vwap_orders
  /\ NullBook => Children(id) = {}
  /\ to_cancel' = Append(vwap[id].child_order_ids, id)
  /\ op' = "cancel"
  /\ UNCHANGED <<vars, order_books, client_orders, vwapState, matching_tasks, results>>

CancelChild ==
  /\ op = "cancel" /\ Len(to_cancel) > 1
  /\ CancelInBook(Head(to_cancel))
  /\ to_cancel' = Tail(to_cancel)
  /\ UNCHANGED <<order_books, client_orders, vwapState, matching_tasks, op, results>>

CancelVwapReturns ==
  LET id == Head(to_cancel)
  IN  /\ op = "cancel" /\ Len(to_cancel) = 1
      /\ vwap' = [vwap EXCEPT ![id].status = "CANCELLED"]
      /\ vwap_orders' = vwap_orders \ {id}
      /\ Forget(id, vwap[id].client_id)
      /\ to_cancel' = <<>>
      /\ op' = "none"
      /\ UNCHANGED <<vars, order_books, over, vwap_tasks, matching_tasks, results>>

CancelInNullBook(id, client) ==
  /\ op = "none"
  /\ id \in client_orders[client]
  /\ NullBook
  /\ id \in vwap_orders => Children(id) # {}
  /\ op' = "crashed"
  /\ UNCHANGED <<vars, order_books, client_orders, vwapState, matching_tasks, results,
                 to_cancel>>
-----------------------------------------------------------------------------
\* What connection threads ask for, and the passing of time.
Request ==
  \/ \E id \in NextId, o \in Submission : SubmitToBook(id, o) \/ SubmitMarketOrder(id, o)
  \/ SubmitToNullBook
  \/ \E id \in NextId, v \in VwapSubmission : SubmitVwapOrder(id, v)
  \/ \E client \in Client : \E id \in client_orders[client] :
       \/ CancelBookOrder(id, client)
       \/ CancelVwapOrder(id, client)
       \/ CancelInNullBook(id, client)
  \/ \E id \in vwap_orders \ over : WindowEnds(id)

\* The thread that holds engine_mutex goes on.
Progress == BookStep \/ MarketOrderReturns \/ MatchOrdersReturns
            \/ UpdateVwapOrderProgress \/ CancelChild \/ CancelVwapReturns

VwapTask(id) ==
  \/ VwapOrderGone(id)
  \/ VwapOrderWithoutBook(id)
  \/ id \in vwap_tasks /\ \E child \in NextId, quantity \in 1..vwap[id].quantity :
       \E price \in ChildPrices(vwap[id]) : PlaceChildOrder(id, child, price, quantity)

EngineNext ==
  \/ Request
  \/ Progress
  \/ ProcessMatching
  \/ \E id \in vwap_tasks : VwapTask(id)

EngineSpec == EngineInit /\ [][EngineNext]_allVars

\* The lock's owner goes on, and the pool gets to a matching task (ThreadPool:
\* AcceptedTasksRun) and to a VWAP task.  No client has to call, and a VWAP task
\* may always decide to wait.
FairEngineSpec ==
  /\ EngineSpec
  /\ WF_allVars(Progress)
  /\ WF_allVars(ProcessMatching)
  /\ WF_allVars(\E id \in vwap_tasks : VwapOrderGone(id) \/ VwapOrderWithoutBook(id))
=============================================================================
