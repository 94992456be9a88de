----------------------------- MODULE DriverDay -----------------------------
(***************************************************************************)
(* A driver's days as payroll and costing see them (app/payroll/hours.py,  *)
(* app/record/cost.py).  Duty is a log of switches, a stop's timing is a   *)
(* pair of geofence crossings the phone uploads late and more than once,   *)
(* or the driver's own taps, and a day's wage is spread over its drops.    *)
(***************************************************************************)
EXTENDS Integers, FiniteSets, Sequences, FiniteSetsExt

CONSTANTS
  Stops,     \* stops the driver may make, numbered as they are made: costing sorts
             \* by arrival, so another order is only another numbering
  Fenced,    \* the stops with coordinates, whose geofence the phone watches
  Carries,   \* Carries[s]: orders dropped there
  DAY,       \* clock ticks of a hub day
  WEEK,      \* clock ticks of a workweek
  LIMIT,     \* FEDERAL_OVERTIME_THRESHOLD_HOURS, in ticks
  SHARES,    \* a multiple of every number of orders a stop carries
  MaxTime    \* bound: the clock
Never == 0 - 1

VARIABLES
  clock,      \* now
  log,        \* driver_shift_events
  duty,       \* ticks really spent on duty
  at,         \* the stop the driver is at
  stop,       \* what really happened at each stop, and the taps
  phone,      \* crossings the phone still holds
  crossings   \* stop_geofence_events

vars == <<clock, log, duty, at, stop, phone, crossings>>

Nowhere == 0
Visit == [came : Int, left : Int, tapIn : Int, tapOut : Int, sensed : SUBSET {"enter", "exit"}]
Crossing == [stop : Stops, kind : {"enter", "exit"}, at : Nat]

TypeOK ==
  /\ clock \in 0..MaxTime /\ duty \subseteq 0..(MaxTime - 1)
  /\ log \in Seq([at : Nat, on : BOOLEAN])
  /\ at \in Stops \cup {Nowhere}
  /\ stop \in [Stops -> Visit]
  /\ phone \subseteq Crossing /\ crossings \subseteq Crossing

Init ==
  /\ clock = 0 /\ log = <<>> /\ duty = {} /\ at = Nowhere
  /\ stop = [s \in Stops |-> [came |-> Never, left |-> Never, tapIn |-> Never, tapOut |-> Never, sensed |-> {}]]
  /\ phone = {} /\ crossings = {}

OnDuty == log # <<>> /\ log[Len(log)].on

Tick ==
  /\ clock < MaxTime
  /\ clock' = clock + 1
  /\ duty' = IF OnDuty THEN duty \cup {clock} ELSE duty
  /\ UNCHANGED <<log, at, stop, phone, crossings>>

\* update_my_availability: every switch is logged, to the status already held
\* too.
Switch(on) ==
  /\ \A i \in DOMAIN log : log[i].at < clock
  /\ log' = Append(log, [at |-> clock, on |-> on])
  /\ UNCHANGED <<clock, duty, at, stop, phone, crossings>>

\* The driver drives up and drives off.  Either end may be missed by the
\* geofence, and the driver may skip "arrive"; completing is always a tap.
Come(s, sensed, tapped) ==
  /\ at = Nowhere /\ stop[s].came = Never /\ (sensed => s \in Fenced)
  /\ \A p \in Stops : p < s => stop[p].came # Never
  /\ at' = s
  /\ stop' = [stop EXCEPT ![s].came = clock, ![s].tapIn = IF tapped THEN clock ELSE Never,
                          ![s].sensed = IF sensed THEN {"enter"} ELSE {}]
  /\ phone' = IF sensed THEN phone \cup {[stop |-> s, kind |-> "enter", at |-> clock]} ELSE phone
  /\ UNCHANGED <<clock, log, duty, crossings>>

Leave(sensed) ==
  /\ at # Nowhere /\ (sensed => at \in Fenced)
  /\ at' = Nowhere
  /\ stop' = [stop EXCEPT ![at].left = clock, ![at].tapOut = clock,
                          ![at].sensed = @ \cup IF sensed THEN {"exit"} ELSE {}]
  /\ phone' = IF sensed THEN phone \cup {[stop |-> at, kind |-> "exit", at |-> clock]} ELSE phone
  /\ UNCHANGED <<clock, log, duty, crossings>>

\* record_geofence_events: a crossing already stored is ignored.  When the
\* answer is lost the phone keeps what it sent.
Upload(c, answered) ==
  /\ c \in phone
  /\ crossings' = crossings \cup {c}
  /\ phone' = IF answered THEN phone \ {c} ELSE phone
  /\ <<phone, crossings>>' # <<phone, crossings>>
  /\ UNCHANGED <<clock, log, duty, at, stop>>

Next ==
  \/ Tick
  \/ \E on \in BOOLEAN : Switch(on)
  \/ \E s \in Stops, sensed, tapped \in BOOLEAN : Come(s, sensed, tapped)
  \/ \E sensed \in BOOLEAN : Leave(sensed)
  \/ \E c \in phone, answered \in BOOLEAN : Upload(c, answered)

Spec == Init /\ [][Next]_vars

-----------------------------------------------------------------------------
\* Payroll: the on-duty spans of a window, from the log alone.
Sum(S, f(_)) == FoldSet(LAMBDA x, t : t + f(x), 0, S)

\* mutant: a shift open when the window starts is forgotten
Starts_Inside(a, b) == {log[i].at : i \in {j \in DOMAIN log : log[j].on /\ log[j].at \in a..(b - 1)}}

\* Where a span starts: the window, when the last switch before it was to on
\* duty, or a switch to on duty that follows none.
Starts(a, b) ==
  {a : i \in {j \in DOMAIN log : /\ log[j].at < a /\ log[j].on
                                 /\ j = Len(log) \/ log[j + 1].at >= a}}
  \cup {log[i].at : i \in {j \in DOMAIN log : /\ log[j].at \in a..(b - 1) /\ log[j].on
                                              /\ j = 1 \/ ~log[j - 1].on}}

\* Where it ends: the first switch off duty, or the window.
End(s, b) == Min({log[i].at : i \in {j \in DOMAIN log : log[j].at \in s..(b - 1) /\ ~log[j].on}} \cup {b})

\* hours_worked_from_shift_events
Hours(a, b) == Sum(Starts(a, b), LAMBDA s : End(s, b) - s)

\* daily_hours_worked_from_shift_events: each span cut at midnight.
Overlap(s, e, d) == Max({0, Min({e, (d + 1) * DAY}) - Max({s, d * DAY})})
Daily(a, b, d) == Sum(Starts(a, b), LAMBDA s : Overlap(s, End(s, b), d))

\* hours_and_overtime: workweek by workweek, clipped to the pay period.
WeekHours(a, b, w) ==
  LET lo == Max({a, w * WEEK})
      hi == Min({b, (w + 1) * WEEK})
  IN IF lo < hi THEN Sum((lo \div DAY)..((hi - 1) \div DAY), LAMBDA d : Daily(lo, hi, d)) ELSE 0
Weeks(a, b) == (a \div WEEK)..((b - 1) \div WEEK)
Overtime(a, b) == Sum(Weeks(a, b), LAMBDA w : Max({0, WeekHours(a, b, w) - LIMIT}))
Regular(a, b) == Sum(Weeks(a, b), LAMBDA w : Min({LIMIT, WeekHours(a, b, w)}))

-----------------------------------------------------------------------------
\* Costing.  stop_timings: the first entry and the last exit if both were
\* sensed, else both taps, else nothing.
Stored(s, kind) == {c.at : c \in {x \in crossings : x.stop = s /\ x.kind = kind}}

Timing(s) ==
  IF Stored(s, "enter") # {} /\ Stored(s, "exit") # {}
  THEN [in |-> Min(Stored(s, "enter")), out |-> Max(Stored(s, "exit"))]
  ELSE [in |-> stop[s].tapIn, out |-> stop[s].tapOut]
Timed == {s \in Stops : Timing(s).in # Never /\ Timing(s).out # Never}

\* The day's stops, and each one's own time: its dwell and the leg before it.
OnDay(d) == {s \in Timed : Timing(s).in \in (d * DAY)..((d + 1) * DAY - 1)}
Before(d, s) == {p \in OnDay(d) : Timing(p).in < Timing(s).in \/ (Timing(p).in = Timing(s).in /\ p < s)}
Leg(d, s) ==
  IF Before(d, s) = {} THEN 0
  ELSE LET last == CHOOSE p \in Before(d, s) : \A q \in Before(d, s) : q = p \/ q \in Before(d, p)
       IN Max({0, Timing(s).in - Timing(last).out})

OwnTime(d, s) == Max({0, Timing(s).out - Timing(s).in}) + Leg(d, s)

\* driver_day_cost, in units of 1 / SHARES of a tick: an order's share of the
\* own time of the stops it was dropped at; overhead is the paid time that is
\* nobody's, spread in proportion.
Costed(d) == {s \in OnDay(d) : Carries[s] # {}}
OrdersOf(d) == UNION {Carries[s] : s \in Costed(d)}

\* mutant: every order at a door is charged the whole of it
Own_Whole(d, o) == Sum({s \in Costed(d) : o \in Carries[s]}, LAMBDA s : OwnTime(d, s) * SHARES)

Own(d, o) == Sum({s \in Costed(d) : o \in Carries[s]},
                 LAMBDA s : (OwnTime(d, s) * SHARES) \div Cardinality(Carries[s]))
Paid(d) == Hours(d * DAY, (d + 1) * DAY) * SHARES
Attributed(d) == Min({Sum(Costed(d), LAMBDA s : OwnTime(d, s)) * SHARES, Paid(d)})
TotalOwn(d) == Sum(OrdersOf(d), LAMBDA o : Own(d, o))
\* An order's loaded time, times TotalOwn.
Loaded(d, o) == Own(d, o) * TotalOwn(d) + (Paid(d) - Attributed(d)) * Own(d, o)

-----------------------------------------------------------------------------
\* However the log and a window that ends now lie to each other, the hours paid
\* are the ticks really spent on duty; cut at midnights and at weeks they are the same.
HoursAreTimeOnDuty ==
  \A a \in 0..(clock - 1) :
    LET paid == Cardinality(duty \cap a..(clock - 1))
    IN /\ Hours(a, clock) = paid
       /\ Sum((a \div DAY)..((clock - 1) \div DAY), LAMBDA d : Daily(a, clock, d)) = paid
       /\ Regular(a, clock) + Overtime(a, clock) = paid

\* A crossing that was sensed counts once however late and however often it is
\* uploaded: when the phone holds nothing more of a stop, its timing is when
\* the driver was there.
UploadsConverge ==
  \A s \in Stops :
    stop[s].sensed = {"enter", "exit"} /\ (\A c \in phone : c.stop # s) =>
      Timing(s) = [in |-> stop[s].came, out |-> stop[s].left]

\* The loaded costs of a day's drops sum to the day's wage, if the driver was
\* on duty from the first arrival to the last departure and was back before
\* midnight.  (Own time that is not paid for, a break taken at a door or a stop
\* that ends after midnight, makes them sum to more.)
LoadedSumsToWage ==
  \A d \in 0..(clock \div DAY - 1) :
    TotalOwn(d) > 0 /\ (\A s \in OnDay(d) : (Timing(s).in)..(Timing(s).out - 1) \subseteq duty /\ Timing(s).out <= (d + 1) * DAY)
      /\ Min({Timing(s).in : s \in OnDay(d)})..(Max({Timing(s).out : s \in OnDay(d)}) - 1) \subseteq duty
    => Sum(OrdersOf(d), LAMBDA o : Loaded(d, o)) = Paid(d) * TotalOwn(d)
=============================================================================
