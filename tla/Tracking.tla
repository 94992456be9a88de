------------------------------ MODULE Tracking ------------------------------
(***************************************************************************)
(* Arrival times and what a recipient may see (app/delivery/eta.py,         *)
(* app/tracking/).  Every tap of the driver recomputes the route's ETAs in  *)
(* its own transaction; a location ping does so at most once a minute, and  *)
(* gives way to anything that holds the route.  The tracking page reads the *)
(* order, its drop-off and the driver's position, and takes a rating.       *)
(***************************************************************************)
EXTENDS Integers, FiniteSets, Sequences

CONSTANTS
  Stops,      \* 1..n, in route order
  Drops,      \* the stops that are drop-offs; the others are pickups
  Carries,    \* Carries[i]: the orders collected or dropped off at stop i
  Place, Located,   \* a place on a line, and whether coordinates are known
  SERVICE,    \* planning_service_minutes
  Spots,      \* where a ping may put the driver
  GRACE,      \* tracking_link_grace_hours
  PING_REFRESH, PING_RETRY,
  MaxTime, MaxPings     \* bounds
Never == 0
Orders == UNION {Carries[i] : i \in Stops}
Hub == 0

VARIABLES
  clock,
  stops,      \* status, eta, and when it was arrived at and finished
  ping,       \* the newest ping by its own time, the position Redis has, and how many came
  throttle,   \* eta_refresh:{route}: until when, and the refresh that holds the locks
  delivered,  \* orders.delivered_at
  ratings     \* delivery_ratings rows

vars == <<clock, stops, ping, throttle, delivered, ratings>>

Idle == [step |-> "idle"]
Reached(st, i) == st[i].status \in {"arrived", "completed", "failed", "cancelled"}
Ended(st, i) == st[i].status \in {"completed", "failed", "cancelled"}

TypeOK ==
  /\ \A i \in Stops : stops[i].status \in {"pending", "arrived", "completed", "failed", "cancelled"} /\ stops[i].eta \in Nat
  /\ clock \in 1..MaxTime /\ throttle.until \in 0..(MaxTime + PING_REFRESH)
  /\ \A r \in ratings : r.order \in Orders /\ r.score \in 1..2

Init ==
  /\ clock = 1 /\ throttle = [until |-> Never, by |-> Idle] /\ ratings = {}
  /\ ping = [place |-> Hub, at |-> Never, shown |-> Hub, count |-> 0]
  /\ stops = [i \in Stops |-> [status |-> "pending", eta |-> Never, arrived |-> Never, done |-> Never]]
  /\ delivered = [o \in Orders |-> Never]

Tick == clock < MaxTime /\ clock' = clock + 1 /\ UNCHANGED <<stops, ping, throttle, delivered, ratings>>

-----------------------------------------------------------------------------
\* observed_at: when the driver was last seen to be there.
ObservedAt(st, i) == IF st[i].done # Never THEN st[i].done ELSE st[i].arrived
Max2(a, b) == IF a >= b THEN a ELSE b
Miles(a, b) == IF a >= b THEN a - b ELSE b - a

\* _anchor: the later of the newest ping and the last reached stop; the hub
\* before either.
_anchor(st) ==
  LET been == {i \in Stops : Reached(st, i) /\ ObservedAt(st, i) # Never /\ Located[i]}
      last == CHOOSE i \in been : \A j \in been : j <= i
  IN IF been # {} /\ ObservedAt(st, last) > ping.at THEN [place |-> Place[last], at |-> ObservedAt(st, last)]
     ELSE IF ping.at # Never THEN [place |-> ping.place, at |-> ping.at]
     ELSE [place |-> Hub, at |-> clock]

\* A driver still serving a stop leaves it no sooner than its service allows.
Departure(st) ==
  LET seen == {i \in Stops : Reached(st, i) /\ ObservedAt(st, i) # Never}
      now == Max2(_anchor(st).at, clock)
  IN IF seen = {} THEN now
     ELSE LET c == CHOOSE i \in seen : \A j \in seen : ObservedAt(st, j) < ObservedAt(st, i) \/ (ObservedAt(st, j) = ObservedAt(st, i) /\ i <= j)
          IN IF st[c].status = "arrived" THEN Max2(now, st[c].arrived + SERVICE) ELSE now

\* mutant: the time spent at each door is left out
Leaves_AtOnce(t) == t
Leaves(t) == t + SERVICE

\* refresh_route_etas: stop by stop along the unreached ones, until one has no
\* coordinates; what lies behind it keeps the ETA it had.
refresh_route_etas(st) ==
  LET n == Cardinality(Stops)
      visit(w, i) ==
        IF Reached(st, i) \/ w.stalled THEN w
        ELSE IF ~Located[i] THEN [w EXCEPT !.stalled = TRUE]
        ELSE LET eta == w.cursor + Miles(w.at, Place[i])
             IN [st |-> [w.st EXCEPT ![i].eta = eta], at |-> Place[i], cursor |-> Leaves(eta), stalled |-> FALSE]
      walk[i \in 0..n] ==
        IF i = 0 THEN [st |-> st, at |-> _anchor(st).place, cursor |-> Departure(st), stalled |-> FALSE]
        ELSE visit(walk[i - 1], i)
  IN walk[n].st

\* A tap of the driver waits for whoever holds the route, then works on it
\* and refreshes it before it commits.
\* mutant: a ping's refresh takes no locks
RouteFree_Always == TRUE
RouteFree == throttle.by = Idle
Tap(st) == RouteFree /\ stops' = refresh_route_etas(st) /\ UNCHANGED <<clock, ping, throttle, ratings>>
\* arrive_at_stop: whichever stop is not finished, in any order; the first
\* arrival is the one that counts.
Arrive(i) ==
  /\ ~Ended(stops, i)
  /\ LET first == IF stops[i].arrived = Never THEN clock ELSE stops[i].arrived
     IN Tap([stops EXCEPT ![i].status = "arrived", ![i].arrived = first])
  /\ UNCHANGED delivered

\* complete_stop: a drop-off waits for the pickup of what it hands over.
Complete(i) ==
  /\ stops[i].status = "arrived"
  /\ i \in Drops => \A j \in Stops \ Drops : Carries[j] \cap Carries[i] # {} => Ended(stops, j)
  /\ Tap([stops EXCEPT ![i].status = "completed", ![i].done = clock])
  /\ delivered' = [o \in Orders |-> IF i \in Drops /\ o \in Carries[i] THEN clock ELSE delivered[o]]

\* take_orders_off_stops: the stops still to be made for these orders, but for
\* one that has another order to serve.
StopOf(o) == CHOOSE i \in Drops : o \in Carries[i]
TakenOff(st, gone) ==
  [k \in Stops |->
     IF ~Ended(st, k) /\ Carries[k] \cap gone # {} /\ \A o \in Carries[k] \ gone : Ended(st, StopOf(o))
     THEN [st[k] EXCEPT !.status = "cancelled"] ELSE st[k]]

\* flag_stop_issue, arrived or not: the attempt at its orders is over.
Flag(i) ==
  /\ ~Ended(stops, i)
  /\ Tap(TakenOff([stops EXCEPT ![i].status = "failed", ![i].done = clock], Carries[i]))
  /\ UNCHANGED delivered

\* _remove_stops: dispatch cancels an order whose pickup is not reached.
Cancel(o) ==
  /\ \E j \in Stops \ Drops : o \in Carries[j] /\ stops[j].status = "pending"
  /\ ~Ended(stops, StopOf(o))
  /\ Tap(TakenOff(stops, {o}))
  /\ UNCHANGED delivered

-----------------------------------------------------------------------------
\* report_my_location: pings sent late are not newer, but Redis takes what
\* comes last.  The refresh then wants the throttle and, without waiting, the
\* route and its stops; it reads them under the locks.
ReportLocation(x, t) ==
  /\ ping.count < MaxPings /\ t \in {clock, clock - 1} \ {Never}
  /\ ping' = [place |-> IF t >= ping.at THEN x ELSE ping.place, at |-> Max2(t, ping.at), shown |-> x, count |-> ping.count + 1]
  /\ UNCHANGED <<clock, stops, throttle, delivered, ratings>>

RefreshLocks ==
  /\ ping.count > 0 /\ throttle.by = Idle /\ throttle.until <= clock
  /\ throttle' = [until |-> clock + PING_REFRESH, by |-> [step |-> "held", st |-> refresh_route_etas(stops)]]
  /\ UNCHANGED <<clock, stops, ping, delivered, ratings>>
RefreshWrites ==
  /\ throttle.by # Idle /\ throttle' = [throttle EXCEPT !.by = Idle]
  /\ stops' = [i \in Stops |-> IF Reached(throttle.by.st, i) THEN stops[i] ELSE [stops[i] EXCEPT !.eta = throttle.by.st[i].eta]]
  /\ UNCHANGED <<clock, ping, delivered, ratings>>
\* It raises: nothing written, tried again sooner.  (A refresh that finds the
\* route held deletes its key and leaves everything as it was.)
RefreshFails ==
  /\ throttle.by # Idle /\ throttle' = [until |-> clock + PING_RETRY, by |-> Idle]
  /\ UNCHANGED <<clock, stops, ping, delivered, ratings>>

-----------------------------------------------------------------------------
\* resolve_tracking: what the recipient of an order is shown.
\* mutant: any stop the driver has still to make
IsCurrentStop_Any(i) == ~Ended(stops, i)
IsCurrentStop(i) == ~Ended(stops, i) /\ \A j \in Stops : j < i => Ended(stops, j)
Gone(o) == delivered[o] # Never /\ clock - delivered[o] > GRACE
Page(o) ==
  LET i == StopOf(o) IN
  [position |-> delivered[o] = Never /\ IsCurrentStop(i) /\ ping.count > 0,
   pin |-> stops[i].status \notin {"completed", "failed"} /\ delivered[o] = Never,
   arrival |-> IF stops[i].status \in {"failed", "cancelled"} THEN Never ELSE stops[i].eta]

\* submit_rating: while the link lives; a second rating changes the first.
submit_rating(o, score) ==
  /\ delivered[o] # Never /\ ~Gone(o)
  /\ ratings' = {r \in ratings : r.order # o} \cup {[order |-> o, score |-> score]}
  /\ UNCHANGED <<clock, stops, ping, throttle, delivered>>

Next ==
  \/ Tick \/ RefreshLocks \/ RefreshWrites \/ RefreshFails
  \/ \E i \in Stops : Arrive(i) \/ Complete(i) \/ Flag(i)
  \/ \E o \in Orders : Cancel(o)
  \/ \E x \in Spots, t \in 1..MaxTime : ReportLocation(x, t)
  \/ \E o \in Orders, score \in 1..2 : submit_rating(o, score)

Spec == Init /\ [][Next]_vars

-----------------------------------------------------------------------------
\* No forecast is written onto a stop the driver has already reached, however
\* a ping's refresh and the driver's taps interleave: the promise it is
\* measured against stands.
KeepsReachedEtas == \A i \in Stops : Reached(stops, i) => stops'[i].eta = stops[i].eta
ForecastsStand == [][KeepsReachedEtas]_vars

\* Along what is left of the route, each arrival leaves time to serve the stop
\* before it and drive on, in whatever order the driver makes the stops.
EtasAreReachable ==
  \A i, j \in Stops :
    /\ i < j /\ ~Reached(stops, i) /\ ~Reached(stops, j) /\ stops[i].eta # Never /\ stops[j].eta # Never
    /\ \A k \in Stops : k <= j /\ ~Reached(stops, k) => Located[k]
    /\ \A k \in Stops : i < k /\ k < j => Reached(stops, k)
    => stops[j].eta >= stops[i].eta + SERVICE + Miles(Place[i], Place[j])

\* Recipients of different stops never watch one driver at the same time,
\* nobody does after the delivery or once the stop is over, and a code once
\* used is not shown again.
TrackingIsPrivate ==
  \A o, p \in Orders :
    /\ Page(o).position /\ Page(p).position => StopOf(o) = StopOf(p)
    /\ Page(o).position => delivered[o] = Never /\ ~Ended(stops, StopOf(o))
    /\ delivered[o] # Never => ~Page(o).pin
=============================================================================
