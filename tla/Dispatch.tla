------------------------------ MODULE Dispatch ------------------------------
(***************************************************************************)
(* The orders of one hub on their way to a driver: the dispatch cycle      *)
(* (app/optimizer/service.py), a dispatcher's assign by hand               *)
(* (app/orders/assignment.py), offers answered, lapsed and withdrawn       *)
(* (app/api/driver_routes.py, app/orders/requeue.py), cancels, overrides,  *)
(* redeliveries, intake, the stranded sweep and the Redis rebuild, all     *)
(* running at once over two stores that share no transaction: Postgres     *)
(* (order status, offers, routes) and the hold queue in Redis.             *)
(*                                                                         *)
(* A handler is one action when it is one transaction, and one action per  *)
(* step where something else can run between its steps: a Redis write      *)
(* ahead of the commit, a read the rest of the handler relies on, a second *)
(* transaction.  An offer and the route an accept builds from it are one   *)
(* id with the set of orders still to be done on it; stops are not told    *)
(* apart here.  Whether a claim of a driver succeeds is left open: the     *)
(* drivers' side is FleetState.                                            *)
(***************************************************************************)
EXTENDS OrderStateMachine

CONSTANTS
  Orders,
  Offers,       \* ids of offers and of the routes they become
  Cycles,       \* dispatch cycle runs that may be in flight
  Assigners,    \* dispatchers assigning by hand
  NoOffer, NoOrder,
  InFlightInsertion,  \* in_flight_insertion_radius_miles > 0
  Faults        \* which of the faults below this instance may meet

\* "crash": a process dies or its commit fails; "flush": Redis is emptied;
\* "lease": the hub lock's 60 s lease runs out under a live holder.
FaultKinds == {"crash", "flush", "lease"}

ASSUME ConstantsAssumption ==
  /\ NoOffer \notin Offers
  /\ NoOrder \notin Orders
  /\ Cycles \cap Assigners = {}
  /\ {"free", "rebuild"} \cap (Cycles \cup Assigners) = {}
  /\ InFlightInsertion \in BOOLEAN
  /\ Faults \subseteq FaultKinds

VARIABLES
  status,       \* orders.status, committed
  offer,        \* offer[f]: "none", "offered", or "active" (a route)
  payload,      \* payload[f]: the orders on the offer, or still on the route
  queue,        \* Redis: orders in the hub's hold queue
  hub,          \* Redis: who holds the hub's dispatch lock
  pc,           \* where each cycle stands
  plan,         \* plan[c][o]: the offer a cycle plans o onto
  todo,         \* a cycle's loop: orders to insert, then to dequeue
  inserted,     \* orders a cycle put onto active routes
  moved,        \* orders its status write moved; then the ones still locked
  back,         \* orders it sends back: driver taken or switched off
  apc,          \* where each assign by hand stands
  target,       \* the order it offers
  giving,       \* offers a transaction is taking back, not yet committed
  cancelling,   \* cancelling[f]: the order a withdrawal of f cancels
  redelivering, \* orders a redelivery has queued and not yet committed
  ingesting,    \* orders committed by intake and not yet queued
  rebuilding,   \* whether a rebuild is between its reads and its writes
  missing       \* what it found missing from the queue

cycleVars  == <<pc, plan, todo, inserted, moved, back>>
assignVars == <<apc, target>>
rebuildVars == <<rebuilding, missing>>
otherVars  == <<giving, cancelling, redelivering, ingesting, rebuildVars>>
vars == <<status, offer, payload, queue, hub, cycleVars, assignVars, otherVars>>

PLANNABLE == {"held", "queued"}
FINISHED  == {"delivered", "cancelled", "returned"}
LIVE_CANCELLABLE == {"assigned", "en_route_pickup"}
OnRouteStatus == {"assigned", "en_route_pickup", "picked_up", "en_route_drop"}

NoPlan == [o \in Orders |-> NoOffer]

\* The orders a cycle takes out of the queue: those its plan assigned and
\* those it inserted into routes.
AssignedStopIds(c) == {o \in Orders : plan[c][o] # NoOffer} \cup inserted[c]

(***************************************************************************)
(* The order rows some transaction holds: a cycle making its offers, an    *)
(* assign, an offer being taken back, a redelivery.  Writers wait.         *)
(***************************************************************************)
RowLocked(o) ==
  \/ \E c \in Cycles : pc[c] \in {"offering", "commit"} /\ o \in moved[c]
  \/ \E a \in Assigners : apc[a] = "holding" /\ target[a] = o
  \/ \E f \in giving : o \in payload[f]
  \/ o \in redelivering

\* On an open offer, or on a stop still to be done.
HasHome(o) == \E f \in Offers : o \in payload[f]

\* Ids no offer uses and no cycle has planned for.
Unused(f) ==
  offer[f] = "none" /\ \A c \in Cycles, o \in Orders : plan[c][o] # f

Release(me) == hub' = IF hub = me THEN "free" ELSE hub

Init ==
  /\ status = [o \in Orders |-> "received"]
  /\ offer = [f \in Offers |-> "none"]
  /\ payload = [f \in Offers |-> {}]
  /\ queue = {}
  /\ hub = "free"
  /\ pc = [c \in Cycles |-> "idle"]
  /\ plan = [c \in Cycles |-> NoPlan]
  /\ todo = [c \in Cycles |-> {}]
  /\ inserted = [c \in Cycles |-> {}]
  /\ moved = [c \in Cycles |-> {}]
  /\ back = [c \in Cycles |-> {}]
  /\ apc = [a \in Assigners |-> "idle"]
  /\ target = [a \in Assigners |-> NoOrder]
  /\ giving = {}
  /\ cancelling = [f \in Offers |-> NoOrder]
  /\ redelivering = {}
  /\ ingesting = {}
  /\ rebuilding = FALSE
  /\ missing = {}

-----------------------------------------------------------------------------
(* Intake: ingest_or_find commits the order `held`, then queues it.        *)

Ingest(o) ==
  /\ status[o] = "received"
  /\ status' = [status EXCEPT ![o] = "held"]
  /\ ingesting' = ingesting \cup {o}
  /\ UNCHANGED <<offer, payload, queue, hub, cycleVars, assignVars,
                 giving, cancelling, redelivering, rebuildVars>>

IngestQueue(o) ==
  /\ o \in ingesting
  /\ ingesting' = ingesting \ {o}
  /\ queue' = queue \cup {o}
  /\ UNCHANGED <<status, offer, payload, hub, cycleVars, assignVars,
                 giving, cancelling, redelivering, rebuildVars>>

IngestDies(o) ==
  /\ "crash" \in Faults
  /\ o \in ingesting
  /\ ingesting' = ingesting \ {o}
  /\ UNCHANGED <<status, offer, payload, queue, hub, cycleVars, assignVars,
                 giving, cancelling, redelivering, rebuildVars>>

-----------------------------------------------------------------------------
(* The dispatch cycle.                                                     *)

(* plan_cycle under the hub lock: the queue and the statuses are read, the *)
(* entries of finished orders dropped, and the hold rules and the solver   *)
(* pick which plannable entries go to which driver (p) and which are       *)
(* released with no driver for them (u).  Everything later in the cycle    *)
(* works from this reading.                                                *)
CyclePlan(c) ==
  /\ pc[c] = "idle"
  /\ hub = "free"
  /\ hub' = c
  /\ LET plannable == {o \in queue : status[o] \in PLANNABLE}
     IN \E p \in [Orders -> Offers \cup {NoOffer}], u \in SUBSET plannable :
          /\ \A o \in Orders :
               p[o] # NoOffer => o \in plannable \ u /\ Unused(p[o])
          /\ plan' = [plan EXCEPT ![c] = p]
          /\ todo' = [todo EXCEPT ![c] = u]
  /\ queue' = {o \in queue : status[o] \notin FINISHED}
  /\ pc' = [pc EXCEPT ![c] = "insert"]
  /\ UNCHANGED <<status, offer, payload, inserted, moved, back,
                 assignVars, otherVars>>

(* One transaction of _insert_unassigned_into_active_routes: the route is  *)
(* locked and found active, the status written only from held or queued.   *)
CycleInsert(c, o, f) ==
  /\ pc[c] = "insert"
  /\ o \in todo[c]
  /\ InFlightInsertion
  /\ offer[f] = "active"
  /\ status[o] \in PLANNABLE
  /\ ~ RowLocked(o)
  /\ status' = [status EXCEPT ![o] = "assigned"]
  /\ payload' = [payload EXCEPT ![f] = @ \cup {o}]
  /\ inserted' = [inserted EXCEPT ![c] = @ \cup {o}]
  /\ todo' = [todo EXCEPT ![c] = @ \ {o}]
  /\ UNCHANGED <<offer, queue, hub, pc, plan, moved, back, assignVars, otherVars>>

\* No passing route, the route finished meanwhile, or the order was taken.
CycleSkipInsert(c, o) ==
  /\ pc[c] = "insert"
  /\ o \in todo[c]
  /\ todo' = [todo EXCEPT ![c] = @ \ {o}]
  /\ UNCHANGED <<status, offer, payload, queue, hub, pc, plan, inserted, moved,
                 back, assignVars, otherVars>>

CycleInserted(c) ==
  /\ pc[c] = "insert"
  /\ todo[c] = {}
  /\ todo' = [todo EXCEPT ![c] = AssignedStopIds(c)]
  /\ pc' = [pc EXCEPT ![c] = "dequeue"]
  /\ UNCHANGED <<status, offer, payload, queue, hub, plan, inserted, moved,
                 back, assignVars, otherVars>>

CycleDequeue(c, o) ==
  /\ pc[c] = "dequeue"
  /\ o \in todo[c]
  /\ queue' = queue \ {o}
  /\ todo' = [todo EXCEPT ![c] = @ \ {o}]
  /\ UNCHANGED <<status, offer, payload, hub, pc, plan, inserted, moved, back,
                 assignVars, otherVars>>

\* Mutant: the status written blind, as before the conditional write.
MovedByWrite_Blind(c) == AssignedStopIds(c)

\* Which of the cycle's orders its status write moves.
MovedByWrite(c) == {o \in AssignedStopIds(c) : status[o] \in PLANNABLE}

(* The first transaction: advance_orders to `assigned`, only from held or  *)
(* queued.  A row it would write and somebody holds is waited for.         *)
CycleWrite(c) ==
  /\ pc[c] = "dequeue"
  /\ todo[c] = {}
  /\ \A o \in MovedByWrite(c) : ~ RowLocked(o)
  /\ status' = [o \in Orders |->
                  IF o \in MovedByWrite(c) THEN "assigned" ELSE status[o]]
  /\ moved' = [moved EXCEPT ![c] = MovedByWrite(c)]
  /\ pc' = [pc EXCEPT ![c] = "written"]
  /\ UNCHANGED <<offer, payload, queue, hub, plan, todo, inserted, back,
                 assignVars, otherVars>>

\* Mutant: offers made from what the first transaction moved, not read again.
StillAssigned_Unread(c) == moved[c]

StillAssigned(c) == {o \in moved[c] : status[o] = "assigned"}

\* The second transaction reads the moved orders again, locked to its commit.
CycleLockStillAssigned(c) ==
  /\ pc[c] = "written"
  /\ plan[c] # NoPlan
  /\ \A o \in StillAssigned(c) : ~ RowLocked(o)
  /\ moved' = [moved EXCEPT ![c] = StillAssigned(c)]
  /\ pc' = [pc EXCEPT ![c] = "offering"]
  /\ UNCHANGED <<status, offer, payload, queue, hub, plan, todo, inserted, back,
                 assignVars, otherVars>>

\* The orders the cycle offers as f, if it gets the driver.
OfferStops(c, f) == {o \in moved[c] : plan[c][o] = f}

(* Each driver is claimed, or found taken or switched off; the share of a  *)
(* driver not claimed goes back into the queue ahead of the commit.        *)
CycleClaim(c) ==
  /\ pc[c] = "offering"
  /\ \E refused \in SUBSET Offers :
       /\ back' = [back EXCEPT ![c] = {o \in moved[c] : plan[c][o] \in refused}]
       /\ queue' = queue \cup {o \in moved[c] : plan[c][o] \in refused}
  /\ pc' = [pc EXCEPT ![c] = "commit"]
  /\ UNCHANGED <<status, offer, payload, hub, plan, todo, inserted, moved,
                 assignVars, otherVars>>

CycleReset(c) ==
  /\ pc' = [pc EXCEPT ![c] = "idle"]
  /\ plan' = [plan EXCEPT ![c] = NoPlan]
  /\ todo' = [todo EXCEPT ![c] = {}]
  /\ inserted' = [inserted EXCEPT ![c] = {}]
  /\ moved' = [moved EXCEPT ![c] = {}]
  /\ back' = [back EXCEPT ![c] = {}]
  /\ Release(c)

CycleCommit(c) ==
  /\ pc[c] = "commit"
  /\ status' = [o \in Orders |-> IF o \in back[c] THEN "held" ELSE status[o]]
  /\ payload' = [f \in Offers |->
                   IF OfferStops(c, f) \ back[c] # {}
                   THEN OfferStops(c, f) \ back[c] ELSE payload[f]]
  /\ offer' = [f \in Offers |->
                 IF OfferStops(c, f) \ back[c] # {} THEN "offered" ELSE offer[f]]
  /\ CycleReset(c)
  /\ UNCHANGED <<queue, assignVars, otherVars>>

\* A plan with no assignment ends here, whatever the write moved.
CycleNothingToOffer(c) ==
  /\ pc[c] = "written"
  /\ plan[c] = NoPlan
  /\ CycleReset(c)
  /\ UNCHANGED <<status, offer, payload, queue, assignVars, otherVars>>

\* The cycle raises or its process dies: open transactions roll back, what
\* it committed and what it wrote to Redis stays.
CycleFails(c) ==
  /\ "crash" \in Faults
  /\ pc[c] # "idle"
  /\ CycleReset(c)
  /\ UNCHANGED <<status, offer, payload, queue, assignVars, otherVars>>

-----------------------------------------------------------------------------
(* A dispatcher assigns an order by hand, under the hub lock.              *)

AssignLock(a, o) ==
  /\ apc[a] = "idle"
  /\ hub = "free"
  /\ status[o] \in PLANNABLE
  /\ ~ RowLocked(o)
  /\ hub' = a
  /\ apc' = [apc EXCEPT ![a] = "holding"]
  /\ target' = [target EXCEPT ![a] = o]
  /\ UNCHANGED <<status, offer, payload, queue, cycleVars, otherVars>>

AssignCommit(a, f) ==
  /\ apc[a] = "holding"
  /\ Unused(f)
  /\ status' = [status EXCEPT ![target[a]] = "assigned"]
  /\ offer' = [offer EXCEPT ![f] = "offered"]
  /\ payload' = [payload EXCEPT ![f] = {target[a]}]
  /\ apc' = [apc EXCEPT ![a] = "committed"]
  /\ Release(a)
  /\ UNCHANGED <<queue, cycleVars, target, otherVars>>

\* Any refusal after the order was locked, the claim's and the commit's too.
AssignRefused(a) ==
  /\ apc[a] = "holding"
  /\ apc' = [apc EXCEPT ![a] = "idle"]
  /\ target' = [target EXCEPT ![a] = NoOrder]
  /\ Release(a)
  /\ UNCHANGED <<status, offer, payload, queue, cycleVars, otherVars>>

\* _after_commit: the hub lock is free again by now.
AssignDequeue(a) ==
  /\ apc[a] = "committed"
  /\ queue' = queue \ {target[a]}
  /\ apc' = [apc EXCEPT ![a] = "idle"]
  /\ target' = [target EXCEPT ![a] = NoOrder]
  /\ UNCHANGED <<status, offer, payload, hub, cycleVars, otherVars>>

AssignDies(a) ==
  /\ "crash" \in Faults
  /\ apc[a] = "committed"
  /\ apc' = [apc EXCEPT ![a] = "idle"]
  /\ target' = [target EXCEPT ![a] = NoOrder]
  /\ UNCHANGED <<status, offer, payload, queue, hub, cycleVars, otherVars>>

-----------------------------------------------------------------------------
(* Offers answered.                                                        *)

(* accept_offer: the offer row locked, the route and its stops built from  *)
(* the payload, the orders still `assigned` advanced, in one transaction.  *)
Accept(f) ==
  /\ offer[f] = "offered"
  /\ f \notin giving
  /\ \A o \in payload[f] : ~ RowLocked(o)
  /\ status' = [o \in Orders |->
                  IF o \in payload[f] /\ status[o] = "assigned"
                  THEN "en_route_pickup" ELSE status[o]]
  /\ offer' = [offer EXCEPT ![f] = "active"]
  /\ UNCHANGED <<payload, queue, hub, cycleVars, assignVars, otherVars>>

\* Mutant: the rows go back to `held`, the queue is not told.
Requeued_Forgotten(f) == {}

\* The payload's orders a taken-back offer may send back.
Requeued(f) == {o \in payload[f] : status[o] = "assigned" /\ o # cancelling'[f]}

(* requeue_orders_from_offer for a decline, a lapse or a cancel's          *)
(* withdrawal (which cancels x): the offer row is locked, the orders       *)
(* written, and the queue entries added before the caller commits.         *)
TakeBack(f, x) ==
  /\ offer[f] = "offered"
  /\ f \notin giving
  /\ \A o \in payload[f] : ~ RowLocked(o)
  /\ x \in payload[f] \cup {NoOrder}
  /\ giving' = giving \cup {f}
  /\ cancelling' = [cancelling EXCEPT ![f] = x]
  /\ queue' = queue \cup Requeued(f)
  /\ UNCHANGED <<status, offer, payload, hub, cycleVars, assignVars,
                 redelivering, ingesting, rebuildVars>>

\* Mutant: the offer is answered, its orders left `assigned`.
TakeBackCommit_OrdersLeft(f) ==
  /\ f \in giving
  /\ offer' = [offer EXCEPT ![f] = "none"]
  /\ payload' = [payload EXCEPT ![f] = {}]
  /\ queue' = queue \ {cancelling[f]}
  /\ giving' = giving \ {f}
  /\ cancelling' = [cancelling EXCEPT ![f] = NoOrder]
  /\ UNCHANGED <<status, hub, cycleVars, assignVars, redelivering, ingesting,
                 rebuildVars>>

TakeBackCommit(f) ==
  /\ f \in giving
  /\ status' = [o \in Orders |->
                  IF o \in payload[f] /\ status[o] = "assigned"
                  THEN IF o = cancelling[f] THEN "cancelled" ELSE "held"
                  ELSE status[o]]
  /\ offer' = [offer EXCEPT ![f] = "none"]
  /\ payload' = [payload EXCEPT ![f] = {}]
  /\ queue' = queue \ {cancelling[f]}      \* the cancel's remove, after its commit
  /\ giving' = giving \ {f}
  /\ cancelling' = [cancelling EXCEPT ![f] = NoOrder]
  /\ UNCHANGED <<hub, cycleVars, assignVars, redelivering, ingesting, rebuildVars>>

TakeBackFails(f) ==
  /\ "crash" \in Faults
  /\ f \in giving
  /\ giving' = giving \ {f}
  /\ cancelling' = [cancelling EXCEPT ![f] = NoOrder]
  /\ UNCHANGED <<status, offer, payload, queue, hub, cycleVars, assignVars,
                 redelivering, ingesting, rebuildVars>>

-----------------------------------------------------------------------------
(* The route: what a driver's taps do to the orders on it.                 *)

\* Mutant: a route whose last stop was taken off is left active.
LeaveRoute_StaysActive(f, S) ==
  /\ payload' = [payload EXCEPT ![f] = @ \ S]
  /\ UNCHANGED offer

\* S leaves the route; a route with nothing left to do is completed.
LeaveRoute(f, S) ==
  /\ payload' = [payload EXCEPT ![f] = @ \ S]
  /\ offer' = [offer EXCEPT ![f] = IF payload[f] \subseteq S THEN "none" ELSE @]

Collect(f, S) ==
  /\ offer[f] = "active"
  /\ S # {} /\ S \subseteq payload[f]
  /\ \A o \in S : status[o] \in {"assigned", "en_route_pickup"}
  /\ status' = [o \in Orders |-> IF o \in S THEN "picked_up" ELSE status[o]]
  /\ UNCHANGED <<offer, payload, queue, hub, cycleVars, assignVars, otherVars>>

\* mark_current_stop_en_route on a drop-off.
DriveToDrop(f, S) ==
  /\ offer[f] = "active"
  /\ S # {} /\ S \subseteq payload[f]
  /\ \A o \in S : status[o] = "picked_up"
  /\ status' = [o \in Orders |-> IF o \in S THEN "en_route_drop" ELSE status[o]]
  /\ UNCHANGED <<offer, payload, queue, hub, cycleVars, assignVars, otherVars>>

Deliver(f, S) ==
  /\ offer[f] = "active"
  /\ S # {} /\ S \subseteq payload[f]
  /\ \A o \in S : status[o] \in {"picked_up", "en_route_drop"}
  /\ status' = [o \in Orders |-> IF o \in S THEN "delivered" ELSE status[o]]
  /\ LeaveRoute(f, S)
  /\ UNCHANGED <<queue, hub, cycleVars, assignVars, otherVars>>

\* flag_stop_issue: the stop's orders fail and their other stops come off.
Flag(f, S) ==
  /\ offer[f] = "active"
  /\ S # {} /\ S \subseteq payload[f]
  /\ status' = [o \in Orders |-> IF o \in S THEN "delivery_failed" ELSE status[o]]
  /\ LeaveRoute(f, S)
  /\ UNCHANGED <<queue, hub, cycleVars, assignVars, otherVars>>

-----------------------------------------------------------------------------
(* A dispatcher, and the client, act on one order.                         *)

\* apply_override: release a held order to the queue's front, or hold it.
Override(o, from, to) ==
  /\ status[o] = from
  /\ ~ RowLocked(o)
  /\ status' = [status EXCEPT ![o] = to]
  /\ UNCHANGED <<offer, payload, queue, hub, cycleVars, assignVars, otherVars>>

\* cancel_before_collection: commit, then out of the queue.
CancelWaiting(o) ==
  /\ status[o] \in PLANNABLE
  /\ ~ RowLocked(o)
  /\ status' = [status EXCEPT ![o] = "cancelled"]
  /\ queue' = queue \ {o}
  /\ UNCHANGED <<offer, payload, hub, cycleVars, assignVars, otherVars>>

\* cancel_live_order, the order on a route and not yet collected.
CancelOnRoute(o, f) ==
  /\ offer[f] = "active"
  /\ o \in payload[f]
  /\ status[o] \in LIVE_CANCELLABLE
  /\ status' = [status EXCEPT ![o] = "cancelled"]
  /\ LeaveRoute(f, {o})
  /\ queue' = queue \ {o}
  /\ UNCHANGED <<hub, cycleVars, assignVars, otherVars>>

\* cancel_live_order, the order on neither: its row is taken first.
CancelNowhere(o) ==
  /\ status[o] = "assigned"
  /\ ~ HasHome(o)
  /\ ~ RowLocked(o)
  /\ status' = [status EXCEPT ![o] = "cancelled"]
  /\ queue' = queue \ {o}
  /\ UNCHANGED <<offer, payload, hub, cycleVars, assignVars, otherVars>>

\* resolve_failed_order, redeliver: queued before the commit.
Redeliver(o) ==
  /\ status[o] = "delivery_failed"
  /\ ~ RowLocked(o)
  /\ redelivering' = redelivering \cup {o}
  /\ queue' = queue \cup {o}
  /\ UNCHANGED <<status, offer, payload, hub, cycleVars, assignVars,
                 giving, cancelling, ingesting, rebuildVars>>

RedeliverCommit(o) ==
  /\ o \in redelivering
  /\ status' = [status EXCEPT ![o] = "held"]
  /\ redelivering' = redelivering \ {o}
  /\ UNCHANGED <<offer, payload, queue, hub, cycleVars, assignVars,
                 giving, cancelling, ingesting, rebuildVars>>

RedeliverFails(o) ==
  /\ "crash" \in Faults
  /\ o \in redelivering
  /\ redelivering' = redelivering \ {o}
  /\ UNCHANGED <<status, offer, payload, queue, hub, cycleVars, assignVars,
                 giving, cancelling, ingesting, rebuildVars>>

\* resolve_failed_order, return to the shop or cancel.
CloseFailed(o, to) ==
  /\ status[o] = "delivery_failed"
  /\ ~ RowLocked(o)
  /\ status' = [status EXCEPT ![o] = to]
  /\ UNCHANGED <<offer, payload, queue, hub, cycleVars, assignVars, otherVars>>

-----------------------------------------------------------------------------
(* The sweep and the rebuild, under the hub lock.                          *)

\* Mutant: an open offer is not looked at.
Stranded_OffersIgnored(o) ==
  /\ status[o] = "assigned"
  /\ ~ RowLocked(o)
  /\ \A c \in Cycles : o \notin moved[c]

\* Mutant: no grace.
Stranded_NoGrace(o) ==
  /\ status[o] = "assigned"
  /\ ~ HasHome(o)
  /\ ~ RowLocked(o)

(* Past the grace, `assigned`, not being written, on no offer and no stop. *)
(* The grace is far longer than a cycle lives, so an order of a cycle      *)
(* still in flight is not past it.                                         *)
Stranded(o) ==
  /\ status[o] = "assigned"
  /\ ~ HasHome(o)
  /\ ~ RowLocked(o)
  /\ \A c \in Cycles : o \notin moved[c]

\* Mutant: back in the queue, with the row still `assigned`.
ReturnStranded_QueueOnly(S) ==
  /\ hub = "free"
  /\ S # {}
  /\ \A o \in S : Stranded(o)
  /\ queue' = queue \cup S
  /\ UNCHANGED <<status, offer, payload, hub, cycleVars, assignVars, otherVars>>

ReturnStranded(S) ==
  /\ hub = "free"
  /\ S # {}
  /\ \A o \in S : Stranded(o)
  /\ status' = [o \in Orders |-> IF o \in S THEN "held" ELSE status[o]]
  /\ queue' = queue \cup S
  /\ UNCHANGED <<offer, payload, hub, cycleVars, assignVars, otherVars>>

\* Its commit fails after the queue was written.
ReturnStrandedFails(S) ==
  /\ "crash" \in Faults
  /\ hub = "free"
  /\ S # {}
  /\ \A o \in S : Stranded(o)
  /\ queue' = queue \cup S
  /\ UNCHANGED <<status, offer, payload, hub, cycleVars, assignVars, otherVars>>

\* Mutant: released orders (`queued`) are not rebuilt.
Missing_HeldOnly == {o \in Orders \ queue : status[o] = "held"}

Missing == {o \in Orders \ queue : status[o] \in PLANNABLE}

\* reconcile_hold_queue reads both stores, then writes the queue.
RebuildRead ==
  /\ ~ rebuilding
  /\ hub = "free"
  /\ hub' = "rebuild"
  /\ rebuilding' = TRUE
  /\ missing' = Missing
  /\ UNCHANGED <<status, offer, payload, queue, cycleVars, assignVars,
                 giving, cancelling, redelivering, ingesting>>

RebuildWrite ==
  /\ rebuilding
  /\ rebuilding' = FALSE
  /\ queue' = {o \in queue : status[o] \notin FINISHED} \cup missing
  /\ missing' = {}
  /\ Release("rebuild")
  /\ UNCHANGED <<status, offer, payload, cycleVars, assignVars,
                 giving, cancelling, redelivering, ingesting>>

\* A flushed or replaced Redis loses the queue and the lock key with it.
Flush ==
  /\ "flush" \in Faults
  /\ queue' = {}
  /\ hub' = "free"
  /\ UNCHANGED <<status, offer, payload, cycleVars, assignVars, otherVars>>

LeaseExpires ==
  /\ "lease" \in Faults
  /\ hub # "free"
  /\ hub' = "free"
  /\ UNCHANGED <<status, offer, payload, queue, cycleVars, assignVars, otherVars>>

-----------------------------------------------------------------------------

CycleStep(c) ==
  \/ CyclePlan(c)
  \/ \E o \in Orders, f \in Offers : CycleInsert(c, o, f)
  \/ \E o \in Orders : CycleSkipInsert(c, o)
  \/ CycleInserted(c)
  \/ \E o \in Orders : CycleDequeue(c, o)
  \/ CycleWrite(c)
  \/ CycleLockStillAssigned(c)
  \/ CycleClaim(c)
  \/ CycleCommit(c)
  \/ CycleNothingToOffer(c)
  \/ CycleFails(c)

AssignStep(a) ==
  \/ \E o \in Orders : AssignLock(a, o)
  \/ \E f \in Offers : AssignCommit(a, f)
  \/ AssignRefused(a)
  \/ AssignDequeue(a)
  \/ AssignDies(a)

OfferStep(f) ==
  \/ Accept(f)
  \/ \E x \in Orders \cup {NoOrder} : TakeBack(f, x)
  \/ TakeBackCommit(f)
  \/ TakeBackFails(f)
  \/ \E S \in SUBSET Orders :
       Collect(f, S) \/ DriveToDrop(f, S) \/ Deliver(f, S) \/ Flag(f, S)

OrderStep(o) ==
  \/ Ingest(o) \/ IngestQueue(o) \/ IngestDies(o)
  \/ Override(o, "held", "queued")
  \/ Override(o, "queued", "held")
  \/ CancelWaiting(o)
  \/ \E f \in Offers : CancelOnRoute(o, f)
  \/ CancelNowhere(o)
  \/ Redeliver(o) \/ RedeliverCommit(o) \/ RedeliverFails(o)
  \/ CloseFailed(o, "returned")
  \/ CloseFailed(o, "cancelled")

SystemStep ==
  \/ \E S \in SUBSET Orders : ReturnStranded(S)
  \/ \E S \in SUBSET Orders : ReturnStrandedFails(S)
  \/ RebuildRead \/ RebuildWrite
  \/ Flush \/ LeaseExpires

Next ==
  \/ \E c \in Cycles : CycleStep(c)
  \/ \E a \in Assigners : AssignStep(a)
  \/ \E f \in Offers : OfferStep(f)
  \/ \E o \in Orders : OrderStep(o)
  \/ SystemStep

Spec == Init /\ [][Next]_vars

\* What a started cycle or assign goes on to do; no process waits on a person.
CycleProceeds(c) ==
  \/ \E o \in Orders, f \in Offers : CycleInsert(c, o, f)
  \/ \E o \in Orders : CycleSkipInsert(c, o) \/ CycleDequeue(c, o)
  \/ CycleInserted(c) \/ CycleWrite(c) \/ CycleLockStillAssigned(c)
  \/ CycleClaim(c) \/ CycleCommit(c) \/ CycleNothingToOffer(c)

AssignProceeds(a) ==
  (\E f \in Offers : AssignCommit(a, f)) \/ AssignRefused(a) \/ AssignDequeue(a)

(***************************************************************************)
(* A handler that has started finishes.  The sweep and the rebuild skip a  *)
(* hub whose lock is taken and come back every five minutes (thirty        *)
(* seconds after a flush), so they are strongly fair: the lock is free     *)
(* between any two cycles, and they are not kept out for ever.             *)
(***************************************************************************)
Fairness ==
  /\ \A c \in Cycles : WF_vars(CycleProceeds(c))
  /\ \A a \in Assigners : WF_vars(AssignProceeds(a))
  /\ \A f \in Offers : WF_vars(TakeBackCommit(f))
  /\ \A o \in Orders :
       /\ WF_vars(IngestQueue(o))
       /\ WF_vars(RedeliverCommit(o))
       /\ SF_vars(\E S \in SUBSET Orders : o \in S /\ ReturnStranded(S))
  /\ SF_vars(RebuildRead)
  /\ WF_vars(RebuildWrite)

LiveSpec == Spec /\ Fairness

-----------------------------------------------------------------------------
(* Properties                                                              *)

(* Types, and what each process's own state says of where it stands: an    *)
(* idle cycle carries no plan and no moved orders, only an open offer is   *)
(* being taken back, and an id that is neither offer nor route is empty.   *)
TypeOK ==
  /\ status \in [Orders -> OrderStatus]
  /\ offer \in [Offers -> {"none", "offered", "active"}]
  /\ payload \in [Offers -> SUBSET Orders]
  /\ queue \subseteq Orders
  /\ hub \in {"free", "rebuild"} \cup Cycles \cup Assigners
  /\ pc \in [Cycles -> {"idle", "insert", "dequeue", "written", "offering", "commit"}]
  /\ plan \in [Cycles -> [Orders -> Offers \cup {NoOffer}]]
  /\ todo \in [Cycles -> SUBSET Orders]
  /\ inserted \in [Cycles -> SUBSET Orders]
  /\ moved \in [Cycles -> SUBSET Orders]
  /\ back \in [Cycles -> SUBSET Orders]
  /\ apc \in [Assigners -> {"idle", "holding", "committed"}]
  /\ target \in [Assigners -> Orders \cup {NoOrder}]
  /\ giving \subseteq Offers
  /\ cancelling \in [Offers -> Orders \cup {NoOrder}]
  /\ redelivering \subseteq Orders
  /\ ingesting \subseteq Orders
  /\ rebuilding \in BOOLEAN
  /\ missing \subseteq Orders
  /\ \A c \in Cycles : pc[c] = "idle" => plan[c] = NoPlan /\ moved[c] = {}
  /\ \A a \in Assigners : apc[a] # "idle" => target[a] \in Orders
  /\ \A f \in giving : offer[f] = "offered"
  /\ \A f \in Offers : offer[f] = "none" <=> payload[f] = {}

(* An order is on at most one open offer or live route, whatever cycles,   *)
(* hand assigns, answers, cancels, crashes, flushes and expired leases     *)
(* interleave: it is never given to two drivers.                           *)
OneHome ==
  \A f, g \in Offers : f # g => payload[f] \cap payload[g] = {}

(* An open offer carries only orders still `assigned`, and a live route    *)
(* only orders a driver still has to do: nothing cancelled, sent back or   *)
(* given to somebody else stays on the work of a driver.                   *)
OfferCarriesLiveOrders ==
  \A f \in Offers : \A o \in payload[f] :
    status[o] \in IF offer[f] = "offered" THEN {"assigned"} ELSE OnRouteStatus

(* A waiting order can be found by the planner: it is in the hold queue,   *)
(* or intake is about to queue it, or a cycle has just taken it out to     *)
(* assign it (app/orders/assignment.py: out of Redis with its row still    *)
(* `held` it "would never be dispatched and never be seen").               *)
WaitingOrderIsQueued ==
  \A o \in Orders : status[o] \in PLANNABLE =>
    \/ o \in queue
    \/ o \in ingesting
    \/ \E c \in Cycles : pc[c] = "dequeue" /\ o \in AssignedStopIds(c)

(* An `assigned` order is on an offer or a route, except while the cycle   *)
(* that moved it has not yet committed its offers (app/config.py, on the   *)
(* stranded grace: "the only window an order is legitimately in that       *)
(* state").                                                                *)
AssignedIsSomebodys ==
  \A o \in Orders : status[o] = "assigned" =>
    HasHome(o) \/ \E c \in Cycles : o \in moved[c]

(* Whatever failed, an order `assigned` to nobody is found by the sweep:   *)
(* it does not stay that way.                                              *)
StrandedIsReturned == \A o \in Orders : Stranded(o) ~> ~ Stranded(o)

(* A waiting order missing from the hold queue, after a crash, a flush or  *)
(* a late dequeue, is queued again or has stopped waiting.                 *)
LostIsFound ==
  \A o \in Orders :
    (status[o] \in PLANNABLE /\ o \notin queue)
      ~> (o \in queue \/ status[o] \notin PLANNABLE)

\* Committed statuses follow the order lifecycle, step by step.
Lifecycle == INSTANCE OrderLifecycle
FollowsLifecycle == Lifecycle!Spec

=============================================================================
