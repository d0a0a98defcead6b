------------------------------ MODULE Exchange ------------------------------
(***************************************************************************)
(* What a client may rely on, whatever the book does with levels, queues   *)
(* and stop orders: a contract per order, with a side, a quantity and the  *)
(* worst price its owner accepts, all fixed at submission.  Contracts are  *)
(* filled only by trades between two open contracts of different clients   *)
(* at a price both accept and one of them asked for, and a closed contract *)
(* stays as it is.                                                         *)
(***************************************************************************)
EXTENDS Integers

CONSTANTS Id, Client,
          NoLimit            \* the limit of a contract that takes any price

VARIABLES contract,          \* [ids submitted -> Contract]
          last_price         \* the price of the last trade, 0 before the first

Contract == [side : {"BUY", "SELL"}, client : Client, quantity : Nat \ {0},
             limit : Int \cup {NoLimit}, filled : Nat, state : {"open", "closed"}]

Submitted == DOMAIN contract

IsOpen(c) == c.state = "open"

Init ==
  /\ contract = [i \in {} |-> 0]
  /\ last_price = 0

\* A new contract is open and unfilled; no other changes.
Submit(id) ==
  /\ id \notin Submitted
  /\ DOMAIN contract' = Submitted \cup {id}
  /\ contract' = [i \in Submitted \cup {id} |-> IF i = id THEN contract'[id] ELSE contract[i]]
  /\ contract'[id] \in Contract /\ contract'[id].filled = 0 /\ IsOpen(contract'[id])
  /\ UNCHANGED last_price

Allows(c, price) ==
  c.limit # NoLimit => IF c.side = "BUY" THEN price <= c.limit ELSE price >= c.limit

\* A contract is closed by the trade that fills it.
Fill(c, q) ==
  [c EXCEPT !.filled = c.filled + q,
            !.state = IF c.filled + q < c.quantity THEN "open" ELSE "closed"]

Trade(b, s, q) ==
  /\ contract[b].side = "BUY" /\ contract[s].side = "SELL"
  /\ contract[b].client # contract[s].client
  /\ IsOpen(contract[b]) /\ IsOpen(contract[s])
  /\ q \in 1..(contract[b].quantity - contract[b].filled)
  /\ q <= contract[s].quantity - contract[s].filled
  /\ last_price' \in {contract[b].limit, contract[s].limit} \ {NoLimit}
  /\ Allows(contract[b], last_price') /\ Allows(contract[s], last_price')
  /\ contract' = [contract EXCEPT ![b] = Fill(@, q), ![s] = Fill(@, q)]

\* Cancelled, or given up for lack of orders to trade with.
Close(id) ==
  /\ IsOpen(contract[id])
  /\ contract' = [contract EXCEPT ![id].state = "closed"]
  /\ UNCHANGED last_price

Quantities == {contract[id].quantity - contract[id].filled : id \in Submitted}

Next ==
  \/ \E id \in Id : Submit(id)
  \/ \E b, s \in Submitted : \E q \in Quantities : Trade(b, s, q)
  \/ \E id \in Submitted : Close(id)

Spec == Init /\ [][Next]_<<contract, last_price>>
=============================================================================
