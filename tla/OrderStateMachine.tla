------------------------- MODULE OrderStateMachine -------------------------
(***************************************************************************)
(* The order status machine of app/orders/state_machine.py: one table that *)
(* every writer of an order's status consults.  Statuses keep the names of *)
(* the Postgres enum.                                                      *)
(***************************************************************************)

OrderStatus ==
  { "received", "classified", "held", "queued", "assigned", "accepted",
    "en_route_pickup", "picked_up", "en_route_drop", "delivered",
    "delivery_failed", "returned", "cancelled" }

TERMINAL == { "delivered", "returned", "cancelled" }

AlwaysAvailable == { "cancelled", "delivery_failed" }

Forward ==
  [ received        |-> { "classified", "accepted", "held" },
    classified      |-> { "held", "queued" },
    held            |-> { "queued", "assigned" },
    queued          |-> { "assigned", "held" },
    accepted        |-> { "held", "queued", "assigned" },
    assigned        |-> { "en_route_pickup", "picked_up" },
    en_route_pickup |-> { "picked_up" },
    picked_up       |-> { "en_route_drop", "delivered" },
    en_route_drop   |-> { "delivered" },
    delivery_failed |-> { "held", "assigned", "queued", "returned" },
    delivered       |-> {},
    returned        |-> {},
    cancelled       |-> {} ]

\* Every status an order in `current` could legally move to next.
allowed_next(current) ==
  IF current \in TERMINAL
  THEN {}
  ELSE Forward[current] \cup (AlwaysAvailable \ {current})

\* Repeating the current status is allowed: a replayed action is not an error.
can_transition(current, new) ==
  current = new \/ new \in allowed_next(current)

\* The precondition of a writer that names none of its own.
legal_sources(new) ==
  { s \in OrderStatus : s # new /\ new \in allowed_next(s) }

============================================================================
