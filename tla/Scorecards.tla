----------------------------- MODULE Scorecards -----------------------------
(***************************************************************************)
(* The figures the business is run by (app/reporting).  Three of them are   *)
(* read from records that go on changing: deliveries per hour on duty, from *)
(* shift toggles and completed stops, which a driver sees beside the hub's; *)
(* the time vans spend in the yard, from crossings a phone uploads late and *)
(* twice; and the credit that lateness costs, read in several queries while *)
(* statements are issued.  A query is one step; times are whole numbers.    *)
(***************************************************************************)
EXTENDS Integers, FiniteSets, FiniteSetsExt, Sequences

CONSTANTS
  Drivers, Viewer,             \* who toggles and delivers; who opens a scorecard
  DAY, OFFSET,                 \* length of a day, and the hub's distance from UTC
  SINCE,                       \* start of the window
  MIN_SHIFT, MIN_OTHER,        \* what counts as a shift; MIN_OTHER_DRIVERS_FOR_COMPARISON
  MAX_PLAUSIBLE,               \* longest turnaround
  Orders, Tier,                \* the client's orders and their service levels
  MaxTime, MaxToggles, MaxDrops, MaxCrossings, MaxLost, MaxReports

Never == -1
ON_DUTY == {"available", "en_route"}

VARIABLES
  now,
  log,        \* driver_shift_events of each driver, oldest first
  was,        \* was[t][d]: the driver's status during tick t
  drops,      \* completed drop-offs: driver and time
  yard,       \* the van's crossings of the yard's fence, as they happened
  stored,     \* hub_geofence_events, in the order they were stored
  lost,       \* crossings the phone never recorded
  order,      \* orders: delivery day, lateness, statement
  report      \* a credit exposure report being built

vars == <<now, log, was, drops, yard, stored, lost, order, report>>

DriverShiftEvent == [type : ON_DUTY \cup {"offline"}, at : Nat]
HubGeofenceEvent == [kind : {"enter", "exit"}, at : Nat]

TypeOK ==
  /\ log \in [Drivers -> Seq(DriverShiftEvent)] /\ yard \in Seq(HubGeofenceEvent)
  /\ \A i \in DOMAIN stored : stored[i] \in HubGeofenceEvent
  /\ order \in [Orders -> [delivered : {Never} \cup Nat, late : BOOLEAN, invoiced : {Never} \cup Nat]]

Init ==
  /\ now = 0 /\ log = [d \in Drivers |-> <<>>] /\ was = <<>> /\ drops = {} /\ yard = <<>> /\ stored = <<>> /\ lost = {}
  /\ order = [o \in Orders |-> [delivered |-> Never, late |-> FALSE, invoiced |-> Never]]
  /\ report = [issued |-> {}, accruing |-> {}, delivered |-> {}, step |-> "idle", built |-> 0]

-----------------------------------------------------------------------------
(* Deliveries per hour.                                                     *)

Status(d) == IF log[d] = <<>> THEN "offline" ELSE log[d][Len(log[d])].type

Tick ==
  /\ now < MaxTime /\ now' = now + 1
  /\ was' = Append(was, [d \in Drivers |-> Status(d)])
  /\ UNCHANGED <<log, drops, yard, stored, lost, order, report>>

\* A shift event per change of status or repeat of it (module DriverDay).
Toggle(d, type) ==
  /\ Len(log[d]) < MaxToggles /\ \A i \in DOMAIN log[d] : log[d][i].at < now
  /\ log' = [log EXCEPT ![d] = Append(@, [type |-> type, at |-> now])]
  /\ UNCHANGED <<now, was, drops, yard, stored, lost, order, report>>

Drop(d) ==
  /\ Status(d) = "en_route" /\ Cardinality(drops) < MaxDrops
  /\ drops' = drops \cup {[driver |-> d, at |-> now]}
  /\ UNCHANGED <<now, log, was, yard, stored, lost, order, report>>

_local_day(t) == (t + OFFSET) \div DAY

\* Each on-duty event with the next event of any kind; the last one is open.
Window(d) == SelectSeq(log[d], LAMBDA e : e.at >= SINCE)
Finished(d) == {i \in 1..Len(Window(d)) - 1 : Window(d)[i].type \in ON_DUTY}
_on_duty_seconds(d, day) ==
  MapThenSumSet(LAMBDA i : Window(d)[i + 1].at - Window(d)[i].at,
                {i \in Finished(d) : _local_day(Window(d)[i].at) = day})

\* mutant: deliveries cut at UTC's midnight, shifts at the hub's
_deliveries_Utc(d, day) == {x \in drops : x.driver = d /\ x.at >= SINCE /\ x.at \div DAY = day}
_deliveries(d, day) == {x \in drops : x.driver = d /\ x.at >= SINCE /\ _local_day(x.at) = day}

\* The driver-days a rate is worked out for, and their rates.
Days == {_local_day(t) : t \in 0..MaxTime}
Measured(ds) == {<<d, day>> \in ds \X Days : _on_duty_seconds(d, day) >= MIN_SHIFT}
Counted == UNION {_deliveries(k[1], k[2]) : k \in Measured(Drivers)}

\* build_driver_scorecard: the hub's figure beside the driver's own, unless too
\* few others were on shift.
OnDuty == {d \in Drivers : \E day \in Days : _on_duty_seconds(d, day) > 0}
\* mutant: the driver who looks is one of the others
_other_driver_count_All == Cardinality(OnDuty)
_other_driver_count == Cardinality(OnDuty \ {Viewer})
ComparisonShown == _other_driver_count >= MIN_OTHER
Behind == {k[1] : k \in Measured(Drivers)}

-----------------------------------------------------------------------------
(* Time in the yard.                                                        *)

Cross ==
  /\ Len(yard) < MaxCrossings /\ (yard # <<>> => yard[Len(yard)].at < now)
  /\ yard' = Append(yard, [kind |-> IF Len(yard) % 2 = 0 THEN "enter" ELSE "exit", at |-> now])
  /\ lost' \in {lost, lost \cup {Len(yard) + 1}} /\ Cardinality(lost') <= MaxLost
  /\ UNCHANGED <<now, log, was, drops, stored, order, report>>
Recorded == {yard[i] : i \in DOMAIN yard \ lost}
Held == {stored[i] : i \in DOMAIN stored}
\* record_hub_geofence_events: a batch; a crossing already stored is not
\* stored again.
Upload(batch) ==
  /\ batch # {} /\ batch \subseteq Recorded /\ ~batch \subseteq Held
  /\ \E s \in [1..Cardinality(batch \ Held) -> batch \ Held] :
       /\ \A i, j \in DOMAIN s : s[i] = s[j] => i = j
       /\ stored' = stored \o s
  /\ UNCHANGED <<now, log, was, drops, yard, lost, order, report>>

\* mutant: in the order the server got them
ByClock_Arrival(events) == events
ByClock(events) == [i \in DOMAIN events |->
  CHOOSE e \in {events[j] : j \in DOMAIN events} :
    Cardinality({j \in DOMAIN events : events[j].at < e.at}) = i - 1]

\* An entry and the exit that comes next; an entry followed by another entry,
\* or by nothing, is an open visit.
turnarounds_for_hub ==
  LET es == ByClock(stored)
      pairs == {i \in 1..Len(es) - 1 : es[i].kind = "enter" /\ es[i + 1].kind = "exit"}
      plausible == {i \in pairs : es[i + 1].at - es[i].at <= MAX_PLAUSIBLE}
      entries == {i \in DOMAIN es : es[i].kind = "enter"}
  IN [turnarounds |-> {<<es[i].at, es[i + 1].at>> : i \in plausible},
      open_visits |-> Cardinality(entries) - Cardinality(pairs),
      implausible |-> Cardinality(pairs \ plausible)]

Visits == {<<yard[i].at, yard[i + 1].at>> : i \in {j \in 1..Len(yard) - 1 : yard[j].kind = "enter"}}

-----------------------------------------------------------------------------
(* What lateness costs.                                                     *)

Deliver(o, late) ==
  /\ order[o].delivered = Never /\ order' = [order EXCEPT ![o].delivered = now, ![o].late = late]
  /\ UNCHANGED <<now, log, was, drops, yard, stored, lost, report>>
\* A statement takes on the orders not on one, with their credits (Billing).
Invoice(os) ==
  /\ os # {} /\ \A o \in os : order[o].delivered # Never /\ order[o].invoiced = Never
  /\ order' = [o \in Orders |-> IF o \in os THEN [order[o] EXCEPT !.invoiced = now] ELSE order[o]]
  /\ UNCHANGED <<now, log, was, drops, yard, stored, lost, report>>

InWindow(o) == order[o].delivered # Never /\ order[o].delivered >= SINCE
\* mutant: by the date of the statement
CreditInWindow_Issued(o) == order[o].invoiced >= SINCE
CreditInWindow(o) == InWindow(o)
IssuedBreaches == {o \in Orders : order[o].invoiced # Never /\ order[o].late /\ CreditInWindow(o)}
AccruingBreaches == {o \in Orders : InWindow(o) /\ order[o].invoiced = Never /\ order[o].late}

\* build_credit_exposure: credits issued, then the ones accruing, then the
\* deliveries they are a share of.
\* mutant: what accrues is read before what was issued
Steps_AccruingFirst == <<"accruing", "issued", "delivered">>
Steps == <<"issued", "accruing", "delivered">>
Read(i) ==
  LET what == Steps[i] IN
  /\ report.step = IF i = 1 THEN "idle" ELSE Steps[i - 1]
  /\ report.built < MaxReports
  /\ report' = [report EXCEPT !.step = what, ![what] =
       CASE what = "issued" -> IssuedBreaches [] what = "accruing" -> AccruingBreaches
         [] what = "delivered" -> {o \in Orders : InWindow(o)}]
  /\ UNCHANGED <<now, log, was, drops, yard, stored, lost, order>>
Built ==
  /\ report.step = Steps[3] /\ report' = [report EXCEPT !.step = "idle", !.built = @ + 1]
  /\ UNCHANGED <<now, log, was, drops, yard, stored, lost, order>>
OfTier(os, t) == {o \in os : Tier[o] = t}
\* The report by tier, once built.
credit_exposure ==
  [t \in {Tier[o] : o \in Orders} |->
     [breach_count |-> Cardinality(OfTier(report.issued, t)) + Cardinality(OfTier(report.accruing, t)),
      delivered_count |-> Cardinality(OfTier(report.delivered, t))]]

Next ==
  \/ Tick \/ Cross \/ Built
  \/ \E d \in Drivers, type \in ON_DUTY \cup {"offline"} : Toggle(d, type)
  \/ \E d \in Drivers : Drop(d)
  \/ \E batch \in SUBSET Recorded : Upload(batch)
  \/ \E o \in Orders, late \in BOOLEAN : Deliver(o, late)
  \/ \E os \in SUBSET Orders : Invoice(os)
  \/ \E i \in 1..3 : Read(i)

Spec == Init /\ [][Next]_vars

-----------------------------------------------------------------------------
\* The hours are the time on shift and the deliveries are the shift's: what
\* the toggles add up to is the finished time the drivers really were on duty,
\* and a delivery made during a finished shift of one hub day is counted
\* against it (_on_duty_seconds_by_driver_day and _deliveries_by_driver_day
\* cut the day separately).
LastAt(d) == Window(d)[Len(Window(d))].at
FirstAt(d) == Window(d)[1].at
ShiftsOwnTheirDeliveries ==
  /\ \A d \in Drivers : Window(d) # <<>> =>
       MapThenSumSet(LAMBDA day : _on_duty_seconds(d, day), Days)
         = Cardinality({t \in FirstAt(d)..LastAt(d) - 1 : was[t + 1][d] \in ON_DUTY})
  /\ \A x \in drops : \A i \in Finished(x.driver) :
       LET w == Window(x.driver) IN
       (/\ w[i].at <= x.at /\ x.at < w[i + 1].at
        /\ w[i + 1].at - w[i].at >= MIN_SHIFT
        /\ _local_day(w[i].at) = _local_day(x.at)) => x \in Counted

\* The hub's figure points at nobody: where every shift of the window was long
\* enough to be measured, a driver sees it only if MIN_OTHER others stand
\* behind it.  (Others are counted by any time on duty, so shorter shifts let
\* the figure rest on fewer.)
TeamFigureHidesEveryone ==
  (/\ ComparisonShown
   /\ \A d \in Drivers, day \in Days : _on_duty_seconds(d, day) \in {0} \cup MIN_SHIFT..MaxTime)
    => Cardinality(Behind \ {Viewer}) >= MIN_OTHER

\* A turnaround is a visit: once the phone has uploaded what it recorded, in
\* whatever batches and order, every turnaround is one visit of the yard, a
\* single crossing the phone missed invents none, and with none missed the
\* report accounts for every visit.
TurnaroundsAreVisits ==
  Held = Recorded =>
    /\ turnarounds_for_hub.turnarounds \subseteq Visits
    /\ lost = {} =>
         /\ turnarounds_for_hub.turnarounds = {v \in Visits : v[2] - v[1] <= MAX_PLAUSIBLE}
         /\ turnarounds_for_hub.implausible + Cardinality(turnarounds_for_hub.turnarounds) = Cardinality(Visits)
         /\ turnarounds_for_hub.open_visits = Len(yard) % 2

\* No breach is counted twice, as issued and as accruing, and no tier reports
\* more breaches than deliveries, although statements are issued and orders
\* delivered while the report is read.
ExposureIsCountedOnce ==
  report.step = "delivered" =>
    /\ report.issued \cap report.accruing = {}
    /\ \A t \in DOMAIN credit_exposure : credit_exposure[t].breach_count <= credit_exposure[t].delivered_count
=============================================================================
