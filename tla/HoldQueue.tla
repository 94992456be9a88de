----------------------------- MODULE HoldQueue -----------------------------
(***************************************************************************)
(* How long an order waits for company (app/sla, app/batch_queue/queue.py, *)
(* the planning half of app/optimizer/service.py).  Intake classifies the  *)
(* order and sets the deadline of its hold; every cycle asks the hold      *)
(* questions of each waiting order and hands the released ones to the      *)
(* solver.  Time and distance are small integers: places are on a line,    *)
(* every drop is at its origin, and a unit of distance takes a unit of     *)
(* driving.                                                                *)
(***************************************************************************)
EXTENDS Integers, FiniteSets, FiniteSetsExt

CONSTANTS
  Orders,      \* orders that may come in
  Spots,       \* pickup places, on a line
  Rules,       \* tiers the hub's urgency rules may force
  Window,      \* Window[t]: DEFAULT_HOLD_WINDOW_MINUTES
  Promises,    \* delivery promises an order may carry
  NoPromise,   \* no contract term and no stated time; after every other time
  RADIUS,      \* batch_hold_cluster_radius_miles
  BUFFER,      \* HOLD_DEADLINE_BUFFER
  RISK,        \* CONFLICT_RISK_WINDOW_MINUTES
  MaxTime      \* bound on the clock

VARIABLES
  clock,     \* now
  order,     \* facts of each order that came in
  waiting,   \* the hold queue
  queued,    \* orders a dispatcher released
  kept       \* orders the last cycle of this moment decided to keep holding

vars == <<clock, order, waiting, queued, kept>>

Tiers == {"HOT_SHOT", "T1", "T2", "T3"}
Flags == {"hot_shot", "rush", "scheduled"}
\* What the first enabled rule that matches a payload says, if one does
\* (_load_tier_overrides).
Overrides == Rules \cup {"none"}
Order == [tier : Tiers, spot : Spots, promise : Promises \cup {NoPromise}, deadline : Nat]

TypeOK ==
  /\ clock \in 0..MaxTime
  /\ DOMAIN order \subseteq Orders /\ \A o \in DOMAIN order : order[o] \in Order
  /\ waiting \subseteq DOMAIN order /\ queued \subseteq waiting /\ kept \subseteq waiting

Init == clock = 0 /\ order = [o \in {} |-> 0] /\ waiting = {} /\ queued = {} /\ kept = {}

\* classify_tier: what the payload flags say, the most urgent first.
TierOf(flags) ==
  CASE "hot_shot" \in flags -> "HOT_SHOT"
    [] "rush" \in flags -> "T1"
    [] "scheduled" \in flags -> "T3"
    [] OTHER -> "T2"

\* match_tier_override: the hub's rule for such a payload, else its flags.
Classified(flags, forced) == IF forced \in Tiers THEN forced ELSE TierOf(flags)

\* mutant: the promise plays no part, as before the hold looked at it
HoldUntil_WindowOnly(now, tier, external, promise, drive) ==
  IF external THEN promise ELSE now + Window[tier]

\* The hold ends with the tier's window, or with somebody else's delivery
\* window, but early enough to drive there before the promise
\* (latest_safe_hold_deadline), and never in the past.
HoldUntil(now, tier, external, promise, drive) ==
  LET window == IF external THEN promise ELSE now + Window[tier]
  IN IF promise = NoPromise THEN window
     ELSE Max({now, Min({window, promise - drive - BUFFER})})

\* The classifying half of ingest_or_find.  A control-arm order is not held
\* at all; an externally promised one is not classified.
ComeIn(o, flags, forced, spot, promise) ==
  /\ o \notin DOMAIN order
  /\ \E external \in {x \in BOOLEAN : x => promise # NoPromise}, control \in BOOLEAN :
       LET tier == IF external THEN "T2" ELSE Classified(flags, forced)
           until == IF control THEN clock ELSE HoldUntil(clock, tier, external, promise, spot)
       IN order' = [q \in DOMAIN order \cup {o} |-> IF q = o
            THEN [tier |-> tier, spot |-> spot, promise |-> promise, deadline |-> until]
            ELSE order[q]]
  /\ waiting' = waiting \cup {o}
  /\ UNCHANGED <<clock, queued, kept>>

\* A dispatcher's override puts a held order at the front.
DispatcherReleases(o) ==
  /\ o \in waiting
  /\ queued' = queued \cup {o}
  /\ UNCHANGED <<clock, order, waiting, kept>>

Urgency == [HOT_SHOT |-> 0, T1 |-> 1, T2 |-> 2, T3 |-> 3]

\* cluster_members over the other held orders; a hot shot is nobody's batch.
Mates(o) ==
  {q \in waiting \ {o} : /\ order[q].tier # "HOT_SHOT"
                         /\ order[q].spot - order[o].spot \in (-RADIUS)..RADIUS}

\* _would_conflict_with_a_more_urgent_order
Conflict(o, drivers) ==
  /\ drivers <= 1
  /\ \E q \in waiting \ ({o} \cup Mates(o)) :
       /\ Urgency[order[q].tier] < Urgency[order[o].tier]
       /\ order[q].deadline <= clock + RISK

\* mutant: the deadline has to be past
Releases_TooLate(o, drivers, passing) ==
  \/ order[o].tier = "HOT_SHOT"
  \/ clock > order[o].deadline
  \/ o \in queued
  \/ Mates(o) # {} /\ drivers > 0 /\ ~Conflict(o, drivers)
  \/ ~(Mates(o) # {} /\ drivers > 0) /\ o \in passing

\* evaluate_held_order: the questions in order, as the one answer they give.
Releases(o, drivers, passing) ==
  \/ order[o].tier = "HOT_SHOT"
  \/ clock >= order[o].deadline
  \/ o \in queued
  \/ Mates(o) # {} /\ drivers > 0 /\ ~Conflict(o, drivers)
  \/ ~(Mates(o) # {} /\ drivers > 0) /\ o \in passing

\* The held orders a route may pass are looked for among these
\* (_held_orders_a_driver_is_passing).
Passable == {o \in waiting : order[o].tier # "HOT_SHOT" /\ order[o].deadline > clock}

\* plan_cycle: every waiting order is asked; of the released ones the solver
\* and the insertion place some, which leave the queue.
Cycle(drivers, passing) ==
  LET released == {o \in waiting : Releases(o, drivers, passing)}
  IN /\ kept' = waiting \ released
     /\ \E placed \in SUBSET released :
          /\ placed # {} => drivers > 0 \/ passing # {}
          /\ waiting' = waiting \ placed
          /\ queued' = queued \ placed
     /\ UNCHANGED <<clock, order>>

Tick ==
  /\ clock < MaxTime
  /\ clock' = clock + 1
  /\ kept' = {}
  /\ UNCHANGED <<order, waiting, queued>>

Next ==
  \/ \E o \in Orders, flags \in SUBSET Flags, forced \in Overrides, spot \in Spots,
        promise \in Promises \cup {NoPromise} :
       ComeIn(o, flags, forced, spot, promise)
  \/ \E o \in Orders : DispatcherReleases(o)
  \/ \E drivers \in 0..2, passing \in SUBSET Passable : Cycle(drivers, passing)
  \/ Tick

Spec == Init /\ [][Next]_vars

-----------------------------------------------------------------------------
\* Waiting for company never costs the promise: an order the queue decides to
\* hold on to could still leave now and be there in time, buffer included,
\* whatever its tier, its window, the rules of the hub and who shares its spot.
HoldKeepsThePromise ==
  \A o \in kept : order[o].promise # NoPromise =>
    clock + order[o].spot + BUFFER < order[o].promise
=============================================================================
