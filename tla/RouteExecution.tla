--------------------------- MODULE RouteExecution ---------------------------
(***************************************************************************)
(* One accepted route being driven (app/api/driver_routes.py), while        *)
(* dispatch cancels orders on it and inserts new ones.  Every change of the *)
(* route's plan runs under the route's row lock (app/delivery/routes.py)    *)
(* and is one step here.  What is not under that lock is split into its     *)
(* steps: what complete_stop and flag_stop_issue still do after their       *)
(* commit, and a hand count of parcels.  The money and the proof that       *)
(* complete_stop also asks for are in CashOnDelivery.                       *)
(* Requests come from the app's offline queue, so any request may arrive at *)
(* any time, and again after it was answered.                               *)
(***************************************************************************)
EXTENDS Naturals, Sequences, FiniteSets, FiniteSetsExt, OrderStateMachine

CONSTANTS
  Orders,       \* orders of the hub
  Shop,         \* Shop[o]: the shop an order is collected from
  HotShots,     \* orders of the HOT_SHOT tier
  Parcels,      \* Parcels[o]: the order's Parcel rows (0: none on file)
  Weight,       \* Weight[o]: orders.weight_units
  MaxStops,     \* bound: insertions stop when the route is this long
  MaxServed     \* bound: requests being served after their commit

ASSUME RouteAssumption ==
  /\ IsFiniteSet(Orders)
  /\ HotShots \subseteq Orders
  /\ Parcels \in [Orders -> Nat]
  /\ Weight \in [Orders -> Nat \ {0}]
  /\ MaxStops \in Nat
  /\ MaxServed \in Nat

VARIABLES
  status,       \* orders.status
  route,        \* routes.status, "none" until the offer is accepted
  stops,        \* the route's stops in sequence; rows are never deleted
  version,      \* routes.plan_version
  stamped,      \* stamped[o]: the order's Parcel rows with a scanned_at
  load,         \* the driver hash's load_units
  paid,         \* stops whose gig payout is settled: a row, or nothing to
                \* pay where no order has a shop and a door to price it by
  served,       \* requests past their commit, and what each has read
  counting,     \* a hand count read its stop and has not written yet
  clean         \* every request so far ran to its end, alone, and no
                \* drop-off was flagged before its order was collected

vars == <<status, route, stops, version, stamped, load, paid, served, counting, clean>>

FINISHED == {"completed", "failed", "cancelled"}

Stop == [type : {"pickup", "dropoff"}, orders : SUBSET Orders,
         status : {"pending", "en_route", "arrived"} \cup FINISHED,
         parcels : Nat, scanned : Nat]

Phase == {"pay", "read", "write", "promote"}

Total(f, S) == FoldSet(LAMBDA o, n : f[o] + n, 0, S)

Rows == 1..Len(stops)

Live(ss) == {i \in 1..Len(ss) : ss[i].status \notin FINISHED}

\* advance_orders: the orders the machine lets move, the others left alone.
Advance(st, S, new) ==
  [o \in Orders |-> IF o \in S /\ new \in allowed_next(st[o]) THEN new ELSE st[o]]

-----------------------------------------------------------------------------
(* Building the route: accept_offer makes stops of visits, a pickup of one  *)
(* or more orders or a drop-off of one, from the optimizer's plan or, for   *)
(* an offer with no usable plan, by itself.                                 *)

Visit(S) == [type : {"pickup", "dropoff"}, orders : SUBSET S \ {{}}]

Hot(v) == v.orders \cap HotShots # {}

\* Both legs of every order once, collection first; only pickups are shared,
\* by orders of one shop, and never by a hot shot.
IsPlan(vs, S) ==
  /\ \A i \in DOMAIN vs : \A o, p \in vs[i].orders :
       \/ o = p
       \/ vs[i].type = "pickup" /\ ~Hot(vs[i]) /\ Shop[o] = Shop[p]
  /\ \A o \in S : \E i, j \in DOMAIN vs :
       /\ i < j /\ vs[i].type = "pickup" /\ vs[j].type = "dropoff"
       /\ \A k \in DOMAIN vs : o \in vs[k].orders <=> k \in {i, j}

HotShotFirst(vs) == \A i, j \in DOMAIN vs : i < j /\ Hot(vs[j]) => Hot(vs[i])

\* Two legs that are one visit to one door.
SameVisit(v, w) ==
  /\ v.type = "pickup" /\ w.type = "pickup"
  /\ ~Hot(v) /\ ~Hot(w)
  /\ \A o \in v.orders, p \in w.orders : Shop[o] = Shop[p]

\* The legs as planned, hot shots' to the front, consecutive pickups at one
\* shop a single stop.
FromPlan(vs) ==
  /\ HotShotFirst(vs)
  /\ \A i, j \in DOMAIN vs : j = i + 1 => ~SameVisit(vs[i], vs[j])

\* Where an order is dropped.
DropOf(vs, v) == {k \in DOMAIN vs : vs[k].type = "dropoff" /\ vs[k].orders \subseteq v.orders}

\* Every pickup, one per shop, then every drop-off, hot shots first in each
\* block; shops in the order of their first order.
Unplanned(vs) ==
  /\ \A i, j \in DOMAIN vs : i < j /\ vs[j].type = "pickup" =>
       /\ vs[i].type = "pickup" /\ ~SameVisit(vs[i], vs[j])
       /\ Hot(vs[i]) = Hot(vs[j]) => Min(DropOf(vs, vs[i])) < Min(DropOf(vs, vs[j]))
  /\ \A i, j \in DOMAIN vs :
       i < j /\ vs[i].type = vs[j].type /\ Hot(vs[j]) => Hot(vs[i])

NewStop(type, S, n) ==
  [type |-> type, orders |-> S, status |-> "pending", parcels |-> n, scanned |-> 0]

\* Parcel rows of a planned pickup, one for each order that has none; without
\* a plan, one per order only when no order has any.
PlannedCount(S) == Total(Parcels, S) + Cardinality({o \in S : Parcels[o] = 0})
UnplannedCount(S) == IF Total(Parcels, S) = 0 THEN Cardinality(S) ELSE Total(Parcels, S)

StopOf(v, n) == NewStop(v.type, v.orders, IF v.type = "pickup" THEN n ELSE 1)

StopsFromPlan(vs) == [i \in DOMAIN vs |-> StopOf(vs[i], PlannedCount(vs[i].orders))]
StopsUnplanned(vs) == [i \in DOMAIN vs |-> StopOf(vs[i], UnplannedCount(vs[i].orders))]

\* mark_current_stop_en_route: the first stop still to be done is where the
\* driver goes now, and a drop-off's orders are then on their way.
Promote(ss) ==
  IF Live(ss) = {} \/ ss[Min(Live(ss))].status # "pending"
  THEN ss
  ELSE [ss EXCEPT ![Min(Live(ss))].status = "en_route"]

PromoteOrders(ss, st) ==
  IF Live(ss) = {} \/ ss[Min(Live(ss))].type = "pickup"
  THEN st
  ELSE Advance(st, ss[Min(Live(ss))].orders, "en_route_drop")

\* mutant: nobody closes the route
RouteAfter_Open(ss) == route

\* A route whose every stop is finished is over.
RouteAfter(ss) == IF Live(ss) = {} THEN "completed" ELSE route

-----------------------------------------------------------------------------
TypeOK ==
  /\ status  \in [Orders -> OrderStatus]
  /\ route   \in {"none", "active", "completed"}
  /\ stops   \in Seq(Stop)
  /\ version \in Nat
  /\ stamped \in [Orders -> Nat]
  /\ load    \in Nat
  /\ paid    \subseteq Rows
  /\ served  \subseteq [stop : Rows, phase : Phase, seen : Nat]
  /\ counting \in [stop : Nat, count : Nat]
  /\ clean   \in BOOLEAN

NotCounting == [stop |-> 0, count |-> 0]

\* The orders offered to the driver are `assigned`; the others wait.
Init ==
  /\ \E S \in SUBSET Orders \ {{}} :
       status = [o \in Orders |-> IF o \in S THEN "assigned" ELSE "held"]
  /\ route = "none" /\ stops = <<>> /\ version = 1
  /\ stamped = [o \in Orders |-> 0]
  /\ load = 0 /\ paid = {}
  /\ served = {} /\ counting = NotCounting /\ clean = TRUE

\* accept_offer: the offered orders become stops, their driver is on the way
\* to collect them, and the first stop (a collection) is promoted, all in one
\* transaction.
Accept ==
  /\ route = "none"
  /\ LET offered == {o \in Orders : status[o] = "assigned"}
     IN /\ \E n \in 1..2 * Cardinality(offered) : \E vs \in [1..n -> Visit(offered)] :
             /\ IsPlan(vs, offered)
             /\ \/ FromPlan(vs) /\ stops' = Promote(StopsFromPlan(vs))
                \/ Unplanned(vs) /\ stops' = Promote(StopsUnplanned(vs))
        /\ status' = Advance(status, offered, "en_route_pickup")
  /\ route' = "active"
  /\ UNCHANGED <<version, stamped, load, paid, served, counting, clean>>

\* mutant: an arrival does not look at the stop's status
Arrive_Anyway(i) ==
  /\ stops' = [stops EXCEPT ![i].status = "arrived"]
  /\ UNCHANGED <<status, route, version, stamped, load, paid, served, counting, clean>>

Arrive(i) ==
  /\ stops[i].status \notin FINISHED
  /\ stops' = [stops EXCEPT ![i].status = "arrived"]
  /\ UNCHANGED <<status, route, version, stamped, load, paid, served, counting, clean>>

\* scan_parcel: one barcode of an order on this pickup.  The count is never
\* lowered by it, and a barcode scanned again stamps nothing.
ScanParcel(i, o) ==
  /\ stops[i].status = "arrived" /\ stops[i].type = "pickup"
  /\ o \in stops[i].orders /\ Parcels[o] > 0
  /\ \E n \in {stamped[o], stamped[o] + 1} :
       /\ n \in 1..Parcels[o]
       /\ stamped' = [stamped EXCEPT ![o] = n]
  /\ stops' = [stops EXCEPT ![i].scanned =
                 LET all == Total(stamped', stops[i].orders) IN IF all > @ THEN all ELSE @]
  /\ UNCHANGED <<status, route, version, load, paid, served, counting, clean>>

\* scan_parcels, the hand count: the stop is read without a lock (the app
\* counts at pickups; a drop-off's count would be accepted and read by nobody)
\* ...
CountRead(i) ==
  /\ counting = NotCounting
  /\ stops[i].status = "arrived" /\ stops[i].type = "pickup"
  /\ \E n \in 0..stops[i].parcels : counting' = [stop |-> i, count |-> n]
  /\ UNCHANGED <<status, route, stops, version, stamped, load, paid, served, clean>>

\* ... and its count written whatever happened to the stop since.
CountWrite ==
  /\ counting # NotCounting
  /\ stops' = [stops EXCEPT ![counting.stop].scanned = counting.count]
  /\ counting' = NotCounting
  /\ UNCHANGED <<status, route, version, stamped, load, paid, served, clean>>

\* This order's own collection is still to be done on this route.
PickupPending(i) ==
  \E j \in Live(stops) : stops[j].type = "pickup" /\ stops[j].orders \cap stops[i].orders # {}

CanComplete(i) ==
  /\ stops[i].status = "arrived"
  /\ stops[i].type = "pickup" => stops[i].scanned >= stops[i].parcels
  /\ stops[i].type = "dropoff" => ~PickupPending(i)

\* A request goes on after its commit: on a drop-off the payout comes first.
Serve(i, phase, collected) ==
  /\ Cardinality(served) < MaxServed
  /\ served' = served \cup {[stop |-> i, phase |-> phase, seen |-> 0]}
  /\ clean' = (clean /\ served = {} /\ collected)

\* complete_stop, up to its commit.
Complete(i) ==
  /\ CanComplete(i)
  /\ stops' = [stops EXCEPT ![i].status = "completed"]
  /\ status' = Advance(status, stops[i].orders,
                       IF stops[i].type = "dropoff" THEN "delivered" ELSE "picked_up")
  /\ route' = RouteAfter(stops')
  /\ Serve(i, IF stops[i].type = "dropoff" THEN "pay" ELSE "read", TRUE)
  /\ UNCHANGED <<version, stamped, load, paid, counting>>

\* mutant: a shared pickup keeps the count of the orders that left it
Shed_CountKept(s, S) ==
  IF s.orders \ S = {} THEN [s EXCEPT !.status = "cancelled"]
  ELSE [s EXCEPT !.orders = @ \ S]

\* mutant: scans of the leaving orders come off with no floor at zero
Shed_BelowZero(s, S) ==
  LET staying == s.orders \ S
      leaving == s.orders \cap S
      n == Max({Cardinality(staying), s.parcels - Total(Parcels, leaving)})
  IN IF staying = {} THEN [s EXCEPT !.status = "cancelled"]
     ELSE [s EXCEPT !.orders = staying, !.parcels = n,
                    !.scanned = Min({n, s.scanned - Total(stamped, leaving)})]

\* take_orders_off_stops: a stop that carries other orders stays without
\* these, a pickup shedding their parcels; a stop with nothing else is
\* cancelled.
Shed(s, S) ==
  LET staying == s.orders \ S
      leaving == s.orders \cap S
      rows == Total(Parcels, leaving)
      less(a, b) == IF a > b THEN a - b ELSE 0
      n == Max({Cardinality(staying), less(s.parcels, IF rows = 0 THEN Cardinality(leaving) ELSE rows)})
  IN CASE staying = {} -> [s EXCEPT !.status = "cancelled"]
       [] staying # {} /\ s.type = "pickup" ->
            [s EXCEPT !.orders = staying, !.parcels = n,
                      !.scanned = Min({n, less(s.scanned, Total(stamped, leaving))})]
       [] OTHER -> [s EXCEPT !.orders = staying]

\* mutant: a flag or a cancel takes nothing else off the route
TakeOff_Nothing(ss, S, others) == ss

TakeOff(ss, S, others) == [i \in DOMAIN ss |-> IF i \in others THEN Shed(ss[i], S) ELSE ss[i]]

OtherStops(i) == {j \in Live(stops) \ {i} : stops[j].orders \cap stops[i].orders # {}}

\* flag_stop_issue, up to its commit: the attempt is over, so the orders'
\* other stops come off this route.
Flag(i) ==
  /\ stops[i].status \notin FINISHED
  /\ LET failed == [stops EXCEPT ![i].status = "failed"]
         left == TakeOff(failed, stops[i].orders, OtherStops(i))
         st == Advance(status, stops[i].orders, "delivery_failed")
     IN /\ stops' = Promote(left)
        /\ status' = PromoteOrders(left, st)
        /\ version' = IF OtherStops(i) = {} THEN version ELSE version + 1
        /\ route' = RouteAfter(left)
  /\ IF stops[i].type = "dropoff" THEN Serve(i, "read", ~PickupPending(i))
     ELSE UNCHANGED <<served, clean>>
  /\ UNCHANGED <<stamped, load, paid, counting>>

-----------------------------------------------------------------------------
(* After the commit. *)

Move(r, phase, seen) == served' = (served \ {r}) \cup
  (IF phase = "done" THEN {} ELSE {[r EXCEPT !.phase = phase, !.seen = seen]})

\* _pay_out_gig_delivery: one payout per stop, and none twice.
PayOut(r) ==
  /\ r.phase = "pay"
  /\ paid' = paid \cup {r.stop}
  /\ Move(r, "read", 0)
  /\ UNCHANGED <<status, route, stops, version, stamped, load, counting, clean>>

\* The driver's hash is read ...
LoadRead(r) ==
  /\ r.phase = "read"
  /\ Move(r, "write", load)
  /\ UNCHANGED <<status, route, stops, version, stamped, load, paid, counting, clean>>

\* mutant: a drop-off's weight goes on, like a pickup's
LoadWrite_Adds(r) ==
  /\ r.phase = "write"
  /\ load' = r.seen + Total(Weight, stops[r.stop].orders)
  /\ Move(r, IF stops[r.stop].status = "completed" /\ route = "active" THEN "promote" ELSE "done", 0)
  /\ UNCHANGED <<status, route, stops, version, stamped, paid, counting, clean>>

\* ... and written whole, with the stop's weight on or off.  A flag has
\* promoted the next stop already; a completion does it in a transaction of
\* its own, unless the route was over.
LoadWrite(r) ==
  LET w == Total(Weight, stops[r.stop].orders)
  IN /\ r.phase = "write"
     /\ load' = CASE stops[r.stop].type = "pickup" -> r.seen + w
                  [] OTHER -> IF r.seen > w THEN r.seen - w ELSE 0
     /\ Move(r, IF stops[r.stop].status = "completed" /\ route = "active" THEN "promote" ELSE "done", 0)
     /\ UNCHANGED <<status, route, stops, version, stamped, paid, counting, clean>>

PromoteNext(r) ==
  /\ r.phase = "promote"
  /\ stops' = Promote(stops)
  /\ status' = PromoteOrders(stops, status)
  /\ Move(r, "done", 0)
  /\ UNCHANGED <<route, version, stamped, load, paid, counting, clean>>

\* The process dies after the commit.  The app retries, and a retry of a
\* finished stop returns before any of this.
Dies(r) ==
  /\ served' = served \ {r}
  /\ clean' = FALSE
  /\ UNCHANGED <<status, route, stops, version, stamped, load, paid, counting>>

-----------------------------------------------------------------------------
(* Dispatch, on the same route. *)

OrderStops(o) == {i \in Rows : o \in stops[i].orders}

\* The driver is at the counter, or the open drop-off's own pickup was done.
HasParts(o) ==
  LET live == OrderStops(o) \cap Live(stops)
      pickups == {i \in live : stops[i].type = "pickup"}
      before == {i \in OrderStops(o) : stops[i].type = "pickup" /\ i < Min(live)}
  IN IF pickups # {}
     THEN stops[Min(pickups)].status = "arrived"
     ELSE before # {} /\ stops[Max(before)].status = "completed"

\* cancel_live_order on a live route (_remove_stops).
Cancel(o) ==
  /\ status[o] \in {"assigned", "en_route_pickup"}
  /\ route = "active"
  /\ OrderStops(o) \cap Live(stops) # {}
  /\ ~HasParts(o)
  /\ LET left == TakeOff(stops, {o}, OrderStops(o) \cap Live(stops))
     IN /\ stops' = Promote(left)
        /\ status' = PromoteOrders(left, [status EXCEPT ![o] = "cancelled"])
        /\ route' = RouteAfter(left)
  /\ version' = version + 1
  /\ UNCHANGED <<stamped, load, paid, served, counting, clean>>

\* The cycle appends a waiting order to the active route; its pickup counts
\* one parcel whatever the order's rows.
Insert(o) ==
  /\ route = "active"
  /\ status[o] \in {"held", "queued"}
  /\ Len(stops) + 2 <= MaxStops
  /\ stops' = stops \o <<NewStop("pickup", {o}, 1), NewStop("dropoff", {o}, 1)>>
  /\ status' = [status EXCEPT ![o] = "assigned"]
  /\ version' = version + 1
  /\ UNCHANGED <<route, stamped, load, paid, served, counting, clean>>

\* mutant: any order can be sent out again
Redeliver_Any(o) ==
  /\ status[o] # "held"
  /\ status' = [status EXCEPT ![o] = "held"]
  /\ UNCHANGED <<route, stops, version, stamped, load, paid, served, counting, clean>>

\* resolve_failed_order: the failed order waits for another attempt.
Redeliver(o) ==
  /\ status[o] = "delivery_failed"
  /\ status' = [status EXCEPT ![o] = "held"]
  /\ UNCHANGED <<route, stops, version, stamped, load, paid, served, counting, clean>>

Next ==
  \/ Accept
  \/ \E i \in Rows : Arrive(i)
  \/ \E i \in Rows, o \in Orders : ScanParcel(i, o)
  \/ \E i \in Rows : CountRead(i)
  \/ CountWrite
  \/ \E i \in Rows : Complete(i)
  \/ \E i \in Rows : Flag(i)
  \/ \E r \in served : PayOut(r)
  \/ \E r \in served : LoadRead(r)
  \/ \E r \in served : LoadWrite(r)
  \/ \E r \in served : PromoteNext(r)
  \/ \E r \in served : Dies(r)
  \/ \E o \in Orders : Cancel(o)
  \/ \E o \in Orders : Insert(o)
  \/ \E o \in Orders : Redeliver(o)

Spec == Init /\ [][Next]_vars

-----------------------------------------------------------------------------
(* Properties. *)

\* The route is over exactly when it has stops and none is left to do: a
\* completion, a flag and a cancel that each finish what the other saw as
\* live would leave the driver busy on an empty route for good.
RouteEndsWithItsStops ==
  /\ route = "completed" => Live(stops) = {}
  /\ route = "active" => Live(stops) # {}

\* A delivery of parts that were never collected is never recorded: before a
\* completed drop-off on the route there is a completed pickup of its order,
\* through flags, redeliveries, cancels and insertions.
DeliveredWasCollected ==
  \A i \in Rows : stops[i].type = "dropoff" /\ stops[i].status = "completed" =>
    \A o \in stops[i].orders : \E j \in 1..(i - 1) :
      stops[j].type = "pickup" /\ stops[j].status = "completed" /\ o \in stops[j].orders

\* A finished stop stays as it finished: no late arrival, scan, promotion or
\* cancel brings it back or rewrites its outcome.
StopsFinishOnce ==
  [][\A i \in Rows : stops[i].status \in FINISHED => stops'[i].status = stops[i].status]_vars

Aboard ==
  {o \in Orders : \E i \in Rows :
     /\ stops[i].type = "pickup" /\ stops[i].status = "completed" /\ o \in stops[i].orders
     /\ \A j \in (i + 1)..Len(stops) :
          stops[j].type = "dropoff" /\ o \in stops[j].orders => stops[j].status \notin FINISHED}

\* Once nothing is being served, what happens after the commits has caught up
\* with them: the hash's load is the weight in the van, every completed
\* drop-off of a gig driver has its payout, and the driver is on the way to
\* (or at) the first stop still to be done.
QuietRouteIsSettled ==
  clean /\ served = {} =>
    /\ load = Total(Weight, Aboard)
    /\ paid = {i \in Rows : stops[i].type = "dropoff" /\ stops[i].status = "completed"}
    /\ Live(stops) # {} => stops[Min(Live(stops))].status # "pending"

\* A pickup whose orders all have barcodes can be scanned to its count by
\* barcodes alone, after orders left it by a cancel or a flag too.
ScanReachesCount ==
  \A i \in Live(stops) :
    stops[i].type = "pickup" /\ (\A o \in stops[i].orders : Parcels[o] > 0) =>
      stops[i].parcels <= Total(Parcels, stops[i].orders)

\* Whatever the driver and dispatch do to the route, its orders' statuses
\* follow the status machine.
Lifecycle == INSTANCE OrderLifecycle WITH Orders <- Orders, status <- status
FollowsLifecycle == Lifecycle!Spec
=============================================================================
