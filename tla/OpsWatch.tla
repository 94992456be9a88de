------------------------------ MODULE OpsWatch ------------------------------
(***************************************************************************)
(* What tells a person that something is wrong.  Nothing here changes an    *)
(* order: the pager reads dispatch_health (app/health/checks.py), and a      *)
(* dispatcher reads the exceptions list (app/reporting/exceptions.py), both  *)
(* from the orders in Postgres and from the hold queue and the last cycle's  *)
(* snapshot in Redis.  The order's life is reduced to what they read; Redis  *)
(* may lose its data, the bus may stop, the hub may be closed.               *)
(***************************************************************************)
EXTENDS Integers, FiniteSets

CONSTANTS
  Orders,
  HOLD, PROMISE,      \* hold window and promise given to an order, from its intake
  GRACE,              \* stuck_order_after_seconds
  STALE,              \* dispatch_stale_after_seconds
  FRESH,              \* the two minutes a commit may be ahead of the queue
  MaxTime, MaxLosses

Never == -1

VARIABLES
  now,
  order,      \* orders: the columns the checks read
  queue,      \* Redis: hold queue members
  snapshot,   \* Redis: when the last cycle recorded itself
  bus,        \* whether the poll loop runs
  open,       \* whether the hub's calendar has it open
  losses,     \* times Redis lost its data
  cycled      \* when a cycle last ran

vars == <<now, order, queue, snapshot, bus, open, losses, cycled>>

Statuses == {"none", "held", "queued", "assigned", "delivered", "delivery_failed", "cancelled"}
Order == [status : Statuses, live : BOOLEAN, requested : Int, promised : Int, deadline : Int, updated : Int,
          flagged : BOOLEAN, repeat : BOOLEAN]

TypeOK ==
  /\ order \in [Orders -> Order] /\ queue \subseteq Orders
  /\ snapshot \in {Never} \cup 0..MaxTime /\ bus \in BOOLEAN /\ open \in BOOLEAN

Init ==
  /\ now = 0 /\ queue = {} /\ snapshot = Never /\ bus = TRUE /\ open = TRUE /\ losses = 0 /\ cycled = 0
  /\ order = [o \in Orders |-> [status |-> "none", live |-> TRUE, requested |-> Never, promised |-> Never,
                                deadline |-> Never, updated |-> Never, flagged |-> FALSE, repeat |-> FALSE]]

Tick == now < MaxTime /\ now' = now + 1 /\ UNCHANGED <<order, queue, snapshot, bus, open, losses, cycled>>

Waiting(o) == order[o].status \in {"held", "queued"} /\ order[o].live
Set(o, status) == [order EXCEPT ![o].status = status, ![o].updated = now]

-----------------------------------------------------------------------------
(* The life of an order, as far as the checks can tell.                      *)

\* Intake commits the order; it joins the queue afterwards (module Intake).
\* History keeps the times it had and never joins.
Take(o, live, promised, repeat) ==
  /\ order[o].status = "none"
  /\ order' = [order EXCEPT ![o] = [status |-> "held", live |-> live, requested |-> IF live THEN now ELSE 0,
                                    promised |-> IF promised THEN now + PROMISE ELSE Never,
                                    deadline |-> IF live THEN now + HOLD ELSE 0, updated |-> now,
                                    flagged |-> FALSE, repeat |-> repeat]]
  /\ UNCHANGED <<now, queue, snapshot, bus, open, losses, cycled>>

\* The queue catches up with Postgres: intake's own add, or the rebuild.
Enqueue(o) ==
  /\ Waiting(o) /\ o \notin queue
  /\ queue' = queue \cup {o}
  /\ UNCHANGED <<now, order, snapshot, bus, open, losses, cycled>>

\* A dispatcher releases a held order by hand: the only writer of queued.
Release(o) ==
  /\ order[o].status = "held" /\ order[o].live
  /\ order' = Set(o, "queued")
  /\ UNCHANGED <<now, queue, snapshot, bus, open, losses, cycled>>

\* A cycle places what it can of the queue and records itself; a closed hub's
\* cycle returns first, and places and records nothing (run_cycle).
Cycle(placed) ==
  /\ bus
  /\ placed \subseteq {o \in queue : Waiting(o)}
  /\ cycled' = now
  /\ IF open THEN /\ order' = [o \in Orders |-> IF o \in placed THEN Set(o, "assigned")[o] ELSE order[o]]
                  /\ queue' = queue \ placed /\ snapshot' = now
     ELSE placed = {} /\ UNCHANGED <<order, queue, snapshot>>
  /\ UNCHANGED <<now, bus, open, losses>>

\* The driver delivers, flags the stop or fails at it; the desk sends a failed
\* order out again, or cancels it.
Happens(o, to) ==
  /\ <<order[o].status, to>> \in {<<"assigned", "delivered">>, <<"assigned", "delivery_failed">>,
       <<"delivery_failed", "held">>, <<"held", "cancelled">>, <<"queued", "cancelled">>, <<"delivery_failed", "cancelled">>}
  /\ order[o].live
  /\ order' = IF to = "held" THEN [Set(o, to) EXCEPT ![o].deadline = now] ELSE Set(o, to)
  /\ queue' = queue \ {o}
  /\ UNCHANGED <<now, snapshot, bus, open, losses, cycled>>
FlagStop(o) ==
  /\ order[o].status = "assigned" /\ ~order[o].flagged
  /\ order' = [order EXCEPT ![o].flagged = TRUE]
  /\ UNCHANGED <<now, queue, snapshot, bus, open, losses, cycled>>

LoseRedis ==
  /\ losses < MaxLosses
  /\ losses' = losses + 1 /\ queue' = {} /\ snapshot' = Never
  /\ UNCHANGED <<now, order, bus, open, cycled>>
BusStops == bus /\ bus' = FALSE /\ UNCHANGED <<now, order, queue, snapshot, open, losses, cycled>>
\* The hub opens or closes; the clock the property below keeps starts again.
Calendar == open' = ~open /\ cycled' = now /\ UNCHANGED <<now, order, queue, snapshot, bus, losses>>

-----------------------------------------------------------------------------
(* The pager: dispatch_health answers 503 when a check fails.               *)

check_dispatch_liveness == ~(queue # {} /\ open /\ (snapshot = Never \/ now - snapshot > STALE))

Coalesce(a, b) == IF a # Never THEN a ELSE b
stuck(o) == LET deadline == Coalesce(order[o].promised, order[o].deadline)
            IN Waiting(o) /\ deadline # Never /\ deadline < now - GRACE
check_stuck_orders == ~\E o \in Orders : stuck(o)

check_hold_queue_matches_postgres_Never == TRUE
check_hold_queue_matches_postgres == {o \in Orders : Waiting(o) /\ order[o].updated < now - FRESH} \subseteq queue

evaluate == check_dispatch_liveness /\ check_stuck_orders /\ check_hold_queue_matches_postgres
dispatch_health == IF evaluate THEN 200 ELSE 503

-----------------------------------------------------------------------------
(* The dispatcher: every order on the list once, under the first kind it is. *)

KINDS == <<"flagged_by_driver", "delivery_failed", "past_promise", "released_but_unplaced", "possible_duplicate">>

\* unplaced_clause, which the explanation of an order reads as well.
unplaced_clause_Released(o) == order[o].live /\ order[o].status = "queued" /\ order[o].requested < now - GRACE
unplaced_clause(o) ==
  /\ order[o].live
  /\ \/ order[o].status = "queued" /\ order[o].requested < now - GRACE
     \/ order[o].status = "held" /\ order[o].deadline # Never /\ order[o].deadline < now - GRACE

\* Whether the query for kind k returns the order.
Selects(k, o) ==
  CASE k = "flagged_by_driver" -> order[o].flagged /\ order[o].status # "delivered"
    [] k = "delivery_failed" -> order[o].status = "delivery_failed"
    [] k = "past_promise" -> /\ order[o].status \notin {"none", "delivered", "cancelled", "delivery_failed"}
                             /\ order[o].promised # Never /\ order[o].promised < now - GRACE
    [] k = "released_but_unplaced" -> unplaced_clause(o)
    [] k = "possible_duplicate" -> order[o].repeat /\ order[o].status = "assigned"

\* The order's kind: `seen` keeps it from later queries; 0 when on none.
KindOf(o) == LET hits == {k \in DOMAIN KINDS : Selects(KINDS[k], o)}
             IN IF hits = {} THEN 0 ELSE CHOOSE k \in hits : \A h \in hits : k <= h
build_exception_queue == {<<o, KINDS[KindOf(o)]>> : o \in {p \in Orders : KindOf(p) # 0}}
\* What the screen shows, and how many of each kind.
operations_exceptions ==
  [items |-> build_exception_queue,
   counts |-> [k \in {KINDS[i] : i \in DOMAIN KINDS} |-> Cardinality({e \in build_exception_queue : e[2] = k})]]

Next ==
  \/ Tick \/ LoseRedis \/ BusStops \/ Calendar
  \/ \E placed \in SUBSET Orders : Cycle(placed)
  \/ \E o \in Orders :
       \/ Enqueue(o) \/ Release(o) \/ FlagStop(o)
       \/ \E live, promised, repeat \in BOOLEAN : (repeat => live) /\ Take(o, live, promised, repeat)
       \/ \E to \in Statuses : Happens(o, to)

Spec == Init /\ [][Next]_vars

-----------------------------------------------------------------------------
\* Dispatch never stops in silence: an open hub where an order has waited past
\* the queue's grace, and where no cycle has run for longer than the threshold,
\* answers the probe with a failure - whatever Redis lost, although both the
\* queue and the snapshot the liveness check reads are in Redis
\* (app/health/checks.py, check_dispatch_liveness and the check beside it).
StoppedDispatchIsHeard ==
  (open /\ now - cycled > STALE /\ \E o \in Orders : Waiting(o) /\ order[o].updated < now - FRESH) => dispatch_health = 503

\* The pager and the list agree about what late means: whoever is woken by a
\* stuck order finds it on the dispatcher's list, as something nobody has or
\* as past its promise, however it came to wait (the comment at the past
\* promise query of app/reporting/exceptions.py).
PagerAndListAgree ==
  \A o \in Orders : stuck(o) =>
    \E k \in {"past_promise", "released_but_unplaced", "flagged_by_driver"} :
      <<o, k>> \in operations_exceptions.items /\ operations_exceptions.counts[k] > 0
=============================================================================
