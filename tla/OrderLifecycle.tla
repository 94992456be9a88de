--------------------------- MODULE OrderLifecycle ---------------------------
(***************************************************************************)
(* What the order status machine promises to everyone who watches orders:  *)
(* whatever sessions, drivers, dispatchers and sweeps do concurrently, each *)
(* order's committed status follows the table of OrderStateMachine, with   *)
(* one move outside it: an order whose offer was taken back returns from   *)
(* `assigned` to `held` (app/orders/requeue.py).                           *)
(***************************************************************************)
EXTENDS OrderStateMachine

CONSTANT Orders

VARIABLE status     \* status[o]: the committed value of orders.status

\* The one write around the table (app/orders/requeue.py).
Requeued(from, to) == from = "assigned" /\ to = "held"

LegalMove(from, to) == to \in allowed_next(from) \/ Requeued(from, to)

Init == status \in [Orders -> OrderStatus]

\* One transaction commits: it moves any number of orders, each legally.
Next ==
  /\ status' \in [Orders -> OrderStatus]
  /\ \A o \in Orders : status'[o] = status[o] \/ LegalMove(status[o], status'[o])

Spec == Init /\ [][Next]_status

=============================================================================
