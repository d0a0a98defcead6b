-------------------------- MODULE EngineProperties --------------------------
(***************************************************************************)
(* What MatchingEngine promises, and what the tests say that it does not   *)
(* keep.                                                                   *)
(***************************************************************************)
EXTENDS MatchingEngine

AllChildren == UNION {Children(v) : v \in DOMAIN vwap}

\* Types, and what the engine's own containers agree on: a matching task has a
\* book to match, and vwap_orders holds just the orders still pending and not complete.
EngineTypeOK ==
  /\ order_books \in [Symbol -> {"absent", "null", "open"}]
  /\ client_orders \in [Client -> SUBSET (Seen \cup DOMAIN vwap)]
  /\ DOMAIN vwap \subseteq Id /\ DOMAIN vwap \cap Seen = {}
  /\ vwap \in [DOMAIN vwap -> VwapOrder]
  /\ vwap_orders = {v \in DOMAIN vwap : vwap[v].status = "PENDING"}
  /\ \A v \in vwap_orders : vwap[v].filled_quantity < vwap[v].quantity
  /\ over \subseteq DOMAIN vwap /\ vwap_tasks \subseteq DOMAIN vwap
  /\ matching_tasks \in Nat
  /\ matching_tasks > 0 => order_books[Traded] = "open"
  /\ op \in {"none", "add", "market", "market stops", "matching", "matching stops",
             "progress", "cancel", "crashed"}
  /\ converted \subseteq Seen
  /\ matched \in Seq(Seen) /\ to_cancel \in Seq(AllChildren \cup vwap_orders)

\* Two orders wait although their prices meet.  Left out are the stop limit orders
\* that a pass has made limit orders since the last matching: they join the book
\* without a matching task (check_stop_loss_orders, after a market order or after
\* matching), and may wait there until somebody submits.
Unmatched ==
  \E p \in DOMAIN book["BUY"], q \in DOMAIN book["SELL"] :
    /\ p >= q
    /\ \E i \in DOMAIN book["BUY"][p], j \in DOMAIN book["SELL"][q] :
         book["BUY"][p][i] \notin converted /\ book["SELL"][q][j] \notin converted

\* Matching is left to tasks; whenever the engine is free and two orders wait that no
\* pass has just converted, although their prices meet, a task is on its way.
MatchingIsScheduled == op = "none" /\ Unmatched => matching_tasks > 0

\* When a VWAP order has been cancelled none of its children is left in the book,
\* and none comes later, whatever its task was about to do.
CancelledVwapLeavesNothing ==
  \A v \in DOMAIN vwap :
    vwap[v].status = "CANCELLED" => \A child \in Children(v) : ~InBook(child)

\* Whatever is in the book its owner can cancel by id, unless it is a child order;
\* a child belongs to one VWAP order, of the same client and side.  An id is
\* recorded for one client, and an active VWAP order is recorded for its own.
OrdersHaveOwners ==
  /\ \A id \in Seen \ AllChildren : InBook(id) => id \in client_orders[order[id].client_id]
  /\ \A c \in Client : \A id \in client_orders[c] :
       c = IF id \in Seen THEN order[id].client_id ELSE vwap[id].client_id
  /\ \A v \in vwap_orders : v \in client_orders[vwap[v].client_id]
  /\ \A v \in DOMAIN vwap : \A child \in Children(v) :
       /\ order[child].client_id = vwap[v].client_id
       /\ order[child].side = vwap[v].side
       /\ order[child].quantity <= vwap[v].quantity
       /\ \A w \in DOMAIN vwap \ {v} : child \notin Children(w)

\* An active VWAP order is without its background task only where its symbol's entry
\* in order_books has no book, and nothing leaves such an entry but a VWAP order of
\* the symbol whose task has ended (MatchingEngine.cpp:303-307): calls, cancels and
\* matched orders, and VWAP orders of other symbols, never cost an order its task.
VwapKeepsItsTask ==
  /\ \A v \in vwap_orders : v \in vwap_tasks \/ order_books[vwap[v].symbol] = "null"
  /\ \A s \in Symbol : order_books[s] = "null" =>
       \E v \in DOMAIN vwap \ vwap_tasks : vwap[v].symbol = s

\* A VWAP order only goes forward: its terms stay, its fill and its list of children
\* only grow, and once it is filled or cancelled it never changes again, whatever
\* matched orders and tasks are still on their way (update_vwap_order_progress,
\* process_vwap_order, cancel_order).
GoesForward(v) ==
  /\ v \in DOMAIN vwap'
  /\ vwap'[v].quantity = vwap[v].quantity /\ vwap'[v].side = vwap[v].side
  /\ vwap[v].filled_quantity <= vwap'[v].filled_quantity
  /\ Children(v) \subseteq Children(v)'
  /\ vwap[v].status # "PENDING" => vwap'[v] = vwap[v]

VwapOrdersGoForward == [][\A v \in DOMAIN vwap : GoesForward(v)]_allVars

\* What waits to be matched gets matched, or leaves otherwise; orders that a pass has
\* just converted are left out here too.
CrossedGetsMatched == Unmatched ~> ~Unmatched \/ op = "crashed"
-----------------------------------------------------------------------------
(***************************************************************************)
(* Claims of the tests.                                                    *)
(***************************************************************************)
\* test_vwap_orders_realistic submits a VWAP order for a new symbol and then limit
\* orders for it, and expects both to work.
NoNullBookIsUsed == op # "crashed"

\* "assert(vwap_order->filled_quantity <= vwap_order->quantity)" of the same test.
VwapNotOverfilled ==
  \A v \in DOMAIN vwap : vwap[v].filled_quantity <= vwap[v].quantity
=============================================================================
