---------------------------- MODULE RouteClient ----------------------------
(***************************************************************************)
(* The solver behind a dispatch plan (app/optimizer/fallback.py,            *)
(* google_routes_client.py): Google Route Optimization with one retry, a    *)
(* circuit breaker in front of it, and the nearest-neighbour stub to fall   *)
(* back on.  The hubs' cycles share one client; each waits on Google while  *)
(* the others run.                                                          *)
(***************************************************************************)
EXTENDS Integers, FiniteSets, Sequences, SequencesExt

CONSTANTS
  Cycles,     \* hubs planning at once
  Drivers, Capacity, Start,         \* Capacity[d]: in half units; Start[d]: a place on a line
  StopIds, Tier, Weight, Place, HasDrop,   \* Tier: 0 is the most urgent; Weight: in half units;
                                           \* HasDrop: delivery coordinates known
  FAILURE_THRESHOLD, COOLDOWN,
  MaxCalls,   \* bound: plans made
  MaxTime     \* bound: clock
None == 0
GOOGLE == "google_route_optimization"
STUB == "stub_nearest_neighbor"
FALLBACK == "stub_nearest_neighbor_fallback"

VARIABLES
  clock,      \* time.monotonic
  failures,   \* _consecutive_failures
  openedAt,   \* _breaker_opened_at
  calls,      \* plans begun
  cyc         \* each cycle's call: its step, attempts, the plan and engine it recorded

vars == <<clock, failures, openedAt, calls, cyc>>

RouteVisit == [order : StopIds, kind : {"pickup", "delivery"}]
\* CyclePlan: each driver's visits, the stops left over, the engine written
\* down, and the engine that really answered.
Idle == [step |-> "idle"]

TypeOK ==
  /\ clock \in 1..MaxTime /\ failures \in 0..(MaxCalls + 1) /\ openedAt \in 0..MaxTime /\ calls \in 0..MaxCalls
  /\ \A c \in Cycles : cyc[c].step \in {"idle", "asking", "planned"}

Init == clock = 1 /\ failures = 0 /\ openedAt = None /\ calls = 0 /\ cyc = [c \in Cycles |-> Idle]

Tick == clock < MaxTime /\ clock' = clock + 1 /\ UNCHANGED <<failures, openedAt, calls, cyc>>

-----------------------------------------------------------------------------
\* breaker_is_open: reading it after the cooldown closes it.
Cooled == openedAt # None /\ clock - openedAt >= COOLDOWN
breaker_is_open == openedAt # None /\ ~Cooled
Look == /\ openedAt' = IF Cooled THEN None ELSE openedAt
        /\ failures' = IF Cooled THEN 0 ELSE failures

\* StubRouteOptimizationClient.optimize: the most urgent first, each to the
\* nearest driver with room, who is then at that shop.
Abs(n) == IF n < 0 THEN -n ELSE n
ByTier == SetToSortSeq(StopIds, LAMBDA a, b : Tier[a] < Tier[b] \/ (Tier[a] = Tier[b] /\ a < b))
Room(st, s) == {d \in Drivers : st.room[d] >= Weight[s]}
Nearest(st, s) ==
  CHOOSE d \in Room(st, s) :
    \A e \in Room(st, s) : \/ Abs(st.at[d] - Place[s]) < Abs(st.at[e] - Place[s])
                           \/ Abs(st.at[d] - Place[s]) = Abs(st.at[e] - Place[s]) /\ d <= e
Give(st, s) ==
  IF Room(st, s) = {} THEN [st EXCEPT !.left = @ \cup {s}]
  ELSE LET d == Nearest(st, s)
       IN [st EXCEPT !.got[d] = Append(@, s), !.room[d] = @ - Weight[s], !.at[d] = Place[s]]
Visit(kind) == [s \in StopIds |-> [order |-> s, kind |-> kind]]
StubPlan ==
  LET end == FoldLeft(Give, [room |-> Capacity, at |-> Start, got |-> [d \in Drivers |-> <<>>], left |-> {}], ByTier)
      legs(d, kind) == [i \in DOMAIN end.got[d] |-> Visit(kind)[end.got[d][i]]]
  IN [visits |-> [d \in Drivers |-> legs(d, "pickup") \o legs(d, "delivery")], left |-> end.left]

\* What Google may answer to the request built from the stops: a stop with a
\* drop-off is a shipment picked up and then delivered, one without is a lone
\* visit that comes back as a delivery.  Weights and room are asked about in
\* whole units, halves going to the even one, and those loads are respected.
_build_shipment(s) == IF HasDrop[s] THEN {Visit("pickup")[s], Visit("delivery")[s]} ELSE {Visit("delivery")[s]}
Tours(S) ==
  {q \in SetToSeqs(UNION {_build_shipment(s) : s \in S}) :
     \A i, j \in DOMAIN q : q[i].order = q[j].order /\ q[i].kind = "pickup" /\ q[j].kind = "delivery" => i < j}
Round(halves) == LET k == halves \div 2 IN IF halves = 2 * k \/ k % 2 = 0 THEN k ELSE k + 1
Total(w(_), S) == FoldLeft(LAMBDA n, s : n + w(s), 0, SetToSeq(S))
Fits(d, S) == Total(LAMBDA s : Round(Weight[s]), S) <= Round(Capacity[d])
Answers ==
  {a \in [StopIds -> Drivers \cup {None}] : \A d \in Drivers : Fits(d, {s \in StopIds : a[s] = d})}

\* mutant: visits are taken as they come
Repaired_NotAtAll(q) == q
\* _visit_sequence: a delivery without its pickup gets one just before it.
Repaired(q) ==
  LET picked == {q[i].order : i \in {j \in DOMAIN q : q[j].kind = "pickup"}}
      one(v) == IF v.kind = "delivery" /\ v.order \notin picked THEN <<Visit("pickup")[v.order], v>> ELSE <<v>>
  IN FoldLeft(LAMBDA acc, v : acc \o one(v), <<>>, q)

-----------------------------------------------------------------------------
\* plan_cycle reads engine_name once optimize has returned: the breaker first,
\* whoever opened it, then what served this call.
\* mutant: a fallback reports the stub's own name
EngineName_Stub(by) == IF breaker_is_open \/ by = STUB THEN STUB ELSE GOOGLE
EngineName(by) == IF breaker_is_open \/ by = STUB THEN FALLBACK ELSE GOOGLE
Planned(c, plan, by, engine) == cyc' = [cyc EXCEPT ![c] = [step |-> "planned", plan |-> plan, by |-> by, engine |-> engine]]

\* optimize: straight to the fallback while the breaker is open.
Begin(c) ==
  /\ cyc[c].step \in {"idle", "planned"} /\ calls < MaxCalls
  /\ calls' = calls + 1 /\ Look
  /\ IF breaker_is_open THEN Planned(c, StubPlan, STUB, EngineName(STUB))
     ELSE cyc' = [cyc EXCEPT ![c] = [step |-> "asking", tries |-> 1]]
  /\ UNCHANGED clock

\* @retry: a timeout, a 429 or a 5xx is tried once more.
Retry(c) ==
  /\ cyc[c].step = "asking" /\ cyc[c].tries = 1
  /\ cyc' = [cyc EXCEPT ![c].tries = 2]
  /\ UNCHANGED <<clock, failures, openedAt, calls>>

\* An answer.  It clears the count of failures, not a breaker already open.
Answered(c, a, tour) ==
  /\ cyc[c].step = "asking"
  /\ failures' = 0 /\ openedAt' = IF Cooled THEN None ELSE openedAt
  /\ Planned(c, [visits |-> [d \in Drivers |-> Repaired(tour[d])], left |-> {s \in StopIds : a[s] = None}], GOOGLE,
             EngineName(GOOGLE))
  /\ UNCHANGED <<clock, calls>>

\* mutant: the breaker never opens
Opens_Never(n) == FALSE
Opens(n) == n >= FAILURE_THRESHOLD /\ openedAt = None

\* _record_failure, then _run_fallback: any exception, a malformed request too.
\* Reading the engine name afterwards may find a breaker whose cooldown is over.
Failed(c) ==
  /\ cyc[c].step = "asking"
  /\ openedAt' = IF Opens(failures + 1) THEN clock ELSE IF Cooled THEN None ELSE openedAt
  /\ failures' = IF Cooled THEN 0 ELSE failures + 1
  /\ Planned(c, StubPlan, STUB, EngineName(STUB))
  /\ UNCHANGED <<clock, calls>>

Next ==
  \/ Tick
  \/ \E c \in Cycles :
       \/ Begin(c) \/ Retry(c) \/ Failed(c)
       \/ \E a \in Answers : \E tour \in [Drivers -> UNION {Tours({s \in StopIds : a[s] = d}) : d \in Drivers}] :
            (\A d \in Drivers : tour[d] \in Tours({s \in StopIds : a[s] = d})) /\ Answered(c, a, tour)

Spec == Init /\ [][Next]_vars

-----------------------------------------------------------------------------
\* Whichever engine answers, in whatever order the calls return, each stop of
\* a plan is on one driver's route, collected before it is delivered, or left
\* over.  The stub's loads are within the van's room; Google's are but for the
\* half unit that rounding can lose on the van and on each of its stops.
PlansAreDrivable ==
  \A c \in Cycles : cyc[c].step = "planned" =>
    LET v == cyc[c].plan.visits
        on(d) == {v[d][i].order : i \in DOMAIN v[d]}
        slack(d) == IF cyc[c].by = GOOGLE THEN 1 + Cardinality(on(d)) ELSE 0
    IN /\ \A d \in Drivers : Total(LAMBDA s : Weight[s], on(d)) <= Capacity[d] + slack(d)
       /\ \A s \in StopIds :
            /\ Cardinality({d \in Drivers : s \in on(d)}) = IF s \in cyc[c].plan.left THEN 0 ELSE 1
            /\ \A d \in Drivers : s \in on(d) =>
                 \E i, j \in DOMAIN v[d] : i < j /\ v[d][i] = [order |-> s, kind |-> "pickup"]
                                                 /\ v[d][j] = [order |-> s, kind |-> "delivery"]

\* A plan the stub made never reads as Google's, nor as that of a deployment
\* without Google, however the breaker opens and closes under other cycles.
DegradedPlansSaySo == \A c \in Cycles : cyc[c].step = "planned" /\ cyc[c].by = "stub_nearest_neighbor" => cyc[c].engine = FALLBACK

\* An outage costs the retry budget once: beyond the threshold only calls that
\* were already waiting may still fail.
OutageIsPaidOnce == failures <= FAILURE_THRESHOLD + Cardinality(Cycles) - 1
=============================================================================
