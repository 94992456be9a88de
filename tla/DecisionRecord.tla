--------------------------- MODULE DecisionRecord ---------------------------
(***************************************************************************)
(* What the system writes down (app/record/): each cycle's decisions, the   *)
(* dispatcher's overrides of them, each delivery's outcome, what being late *)
(* cost, and findings that link orders; and the explanation of an order     *)
(* read back from that record.                                              *)
(***************************************************************************)
EXTENDS Integers, FiniteSets, Sequences

CONSTANTS
  Orders, Shop,       \* Shop[o]: where the order goes
  Followed,           \* bound: the orders whose dispatch is followed; the others only arrive
  SCAN_LIMIT,         \* _DECISION_SCAN_LIMIT: snapshots one look at an order reads
  WINDOW,             \* days a late order's consequence may be reported
  MaxTime, MaxCycles, MaxNotes    \* bounds: days, cycles, overrides and consequences
None == 0

VARIABLES
  clock,
  order,      \* status and the times that matter
  snaps,      \* decision_snapshots, oldest first
  plan,       \* the snapshot whose plan the hub's cycle is carrying out
  overrides,  \* dispatcher_overrides
  ledger,     \* outcome_ledger
  flags,      \* linkage_flags
  hand,       \* an override in hand: what its request has read
  night       \* the late orders the nightly job has found unjudged

vars == <<clock, order, snaps, plan, overrides, ledger, flags, hand, night>>

Idle == [step |-> "idle"]
Statuses == {"absent", "held", "queued", "assigned", "delivered"}
OutcomeEntry == [subject : Orders, kind : {"delivered", "disputed"}, value : {"on_time", "late", "credit", "silence"},
                 at : Nat, snapshot : Nat]
DispatcherOverride == [order : Orders, action : {"release", "hold"}, before : Statuses, cited : Nat]

TypeOK ==
  /\ \A o \in Orders : order[o].status \in Statuses /\ order[o].placedBy \in 0..MaxCycles
  /\ plan \in 0..MaxCycles /\ \A i \in DOMAIN ledger : ledger[i] \in OutcomeEntry
  /\ \A i \in DOMAIN overrides : overrides[i] \in DispatcherOverride

Init ==
  /\ clock = 1 /\ snaps = <<>> /\ overrides = <<>> /\ ledger = <<>> /\ flags = {}
  /\ order = [o \in Orders |-> [status |-> "absent", at |-> 0, since |-> 1, placedBy |-> None]]
  /\ hand = Idle /\ night = {} /\ plan = None

Tick == clock < MaxTime /\ clock' = clock + 1 /\ UNCHANGED <<order, snaps, plan, overrides, ledger, flags, hand, night>>

\* The order arrives; cycles before it say nothing of it.
Arrive(o) ==
  /\ order[o].status = "absent"
  /\ order' = [order EXCEPT ![o].status = "held", ![o].at = clock, ![o].since = Len(snaps) + 1]
  /\ UNCHANGED <<clock, snaps, plan, overrides, ledger, flags, hand, night>>

-----------------------------------------------------------------------------
\* record_decision: what the hold queue said of each order, whom the solver
\* placed and whom it could not, committed before anything is done about it.
\* A dispatcher's release is carried out.  A hub's cycles run one at a time
\* (HubEventBus).
Cycle(release, placed) ==
  LET held == {o \in Followed : order[o].status = "held"}
      told == {o \in Followed : order[o].status = "queued"}
      out == told \cup release
  IN
  /\ plan = None /\ Len(snaps) < MaxCycles
  /\ held \cup told # {} /\ release \subseteq held /\ placed \subseteq out
  /\ snaps' = Append(snaps, [hold |-> {[order |-> o, action |-> IF o \in out THEN "release" ELSE "hold",
                                        reason |-> IF o \in told THEN "dispatcher_released" ELSE "queue"] : o \in held \cup told},
                             placed |-> placed, left |-> out \ placed])
  /\ plan' = Len(snaps) + 1
  /\ UNCHANGED <<clock, order, overrides, ledger, flags, hand, night>>

\* _insert_unassigned_into_active_routes: an order the plan left over joins a
\* van on the road, in a transaction of its own.
Plannable(o) == order[o].status \in {"held", "queued"}
Insert(o) ==
  /\ plan # None /\ o \in snaps[plan].left /\ Plannable(o)
  /\ order' = [order EXCEPT ![o].status = "assigned", ![o].placedBy = None]
  /\ UNCHANGED <<clock, snaps, plan, overrides, ledger, flags, hand, night>>

\* The status write moves what is still waiting, which may be nothing; a cycle
\* that fails before it has only its snapshot to show.
\* mutant: the cycle writes over whatever became of the order
Moved_All == snaps[plan].placed
Moved == {o \in snaps[plan].placed : Plannable(o)}
CarryOut ==
  /\ plan # None /\ plan' = None
  /\ order' = [o \in Orders |-> IF o \in Moved
                                THEN [order[o] EXCEPT !.status = "assigned", !.placedBy = plan] ELSE order[o]]
  /\ UNCHANGED <<clock, snaps, overrides, ledger, flags, hand, night>>
CycleFails ==
  /\ plan # None /\ plan' = None
  /\ UNCHANGED <<clock, order, snaps, overrides, ledger, flags, hand, night>>

\* A dispatcher builds the route: no snapshot put the order on it.
AssignByHand(o) ==
  /\ order[o].status \in {"held", "queued"}
  /\ order' = [order EXCEPT ![o].status = "assigned", ![o].placedBy = None]
  /\ UNCHANGED <<clock, snaps, plan, overrides, ledger, flags, hand, night>>

\* The order comes back from its driver (requeue).
ComesBack(o) ==
  /\ order[o].status = "assigned"
  /\ order' = [order EXCEPT ![o].status = "held", ![o].placedBy = None]
  /\ UNCHANGED <<clock, snaps, plan, overrides, ledger, flags, hand, night>>

\* latest_system_decision, snapshot_that_assigned: the newest SCAN_LIMIT
\* snapshots since the order arrived; a dispatcher's own release is skipped.
Newest(o) == {i \in DOMAIN snaps : i >= order[o].since /\ i > Len(snaps) - SCAN_LIMIT}
Latest(S) == IF S = {} THEN None ELSE CHOOSE i \in S : \A j \in S : j <= i
latest_system_decision(o) ==
  Latest({i \in Newest(o) : \E h \in snaps[i].hold : h.order = o /\ h.reason # "dispatcher_released"})
\* mutant: the newest cycle, whether or not it placed the order
snapshot_that_assigned_Nearest(o) == Latest(Newest(o))
snapshot_that_assigned(o) == Latest({i \in Newest(o) : o \in snaps[i].placed})

\* explain_order: the oldest SCAN_LIMIT snapshots since the order arrived.
Explained(o) ==
  {i \in DOMAIN snaps : /\ i >= order[o].since /\ i < order[o].since + SCAN_LIMIT
                        /\ \/ \E h \in snaps[i].hold : h.order = o
                           \/ o \in snaps[i].placed \cup snaps[i].left}

\* apply_override, in two steps: the status and the system's decision are read,
\* then the row is written with an update that demands the status read.
ApplicableFrom(action) == IF action = "release" THEN "held" ELSE "queued"
Result(action) == IF action = "release" THEN "queued" ELSE "held"
OverrideReads(o, action) ==
  /\ hand = Idle /\ order[o].status = ApplicableFrom(action) /\ Len(overrides) < MaxNotes
  /\ hand' = [step |-> "write", row |-> [order |-> o, action |-> action, before |-> order[o].status,
                                        cited |-> latest_system_decision(o)]]
  /\ UNCHANGED <<clock, order, snaps, plan, overrides, ledger, flags, night>>
\* mutant: UPDATE ... WHERE id
StillThere_Any(r) == TRUE
StillThere(r) == order[r.order].status = r.before
OverrideWrites ==
  /\ hand # Idle /\ hand' = Idle
  /\ IF StillThere(hand.row)
     THEN /\ overrides' = Append(overrides, hand.row)
          /\ order' = [order EXCEPT ![hand.row.order].status = Result(hand.row.action)]
     ELSE UNCHANGED <<overrides, order>>
  /\ UNCHANGED <<clock, snaps, plan, ledger, flags, night>>

-----------------------------------------------------------------------------
\* record_delivery_outcomes, in the transaction that delivers the order.
Entry(o, kind, value, snapshot) == [subject |-> o, kind |-> kind, value |-> value, at |-> clock, snapshot |-> snapshot]
Deliver(o, value) ==
  /\ order[o].status = "assigned"
  /\ order' = [order EXCEPT ![o].status = "delivered"]
  /\ ledger' = Append(ledger, Entry(o, "delivered", value, snapshot_that_assigned(o)))
  /\ UNCHANGED <<clock, snaps, plan, overrides, flags, hand, night>>

\* record_order_consequence: somebody hears of it.
Consequence(o) ==
  /\ order[o].status # "absent"
  /\ Cardinality({i \in DOMAIN ledger : ledger[i].value = "credit"}) < MaxNotes
  /\ ledger' = Append(ledger, Entry(o, "disputed", "credit", None))
  /\ UNCHANGED <<clock, order, snaps, plan, overrides, flags, hand, night>>

\* close_consequence_windows: late, out of its window, and nothing recorded;
\* what it read is written as silence at the end of its transaction.
Disputed(o) == {i \in DOMAIN ledger : ledger[i].subject = o /\ ledger[i].kind = "disputed"}
\* mutant: the window is not waited for
WindowClosed_Early(e) == TRUE
WindowClosed(e) == e.at <= clock - WINDOW
Unjudged == {o \in Orders : /\ Disputed(o) = {}
                            /\ \E i \in DOMAIN ledger : ledger[i].subject = o /\ ledger[i].value = "late" /\ WindowClosed(ledger[i])}
NightReads ==
  /\ night = {} /\ Unjudged # {} /\ night' = Unjudged
  /\ UNCHANGED <<clock, order, snaps, plan, overrides, ledger, flags, hand>>
NightWrites(q) ==
  /\ night # {} /\ night' = {}
  /\ Len(q) = Cardinality(night) /\ {q[i] : i \in DOMAIN q} = night
  /\ ledger' = ledger \o [i \in DOMAIN q |-> Entry(q[i], "disputed", "silence", None)]
  /\ UNCHANGED <<clock, order, snaps, plan, overrides, flags, hand>>

\* consequence_label: 1 some consequence, 0 silence, else not known.
Values(o) == {ledger[i].value : i \in Disputed(o)}
consequence_label(o) == IF "credit" \in Values(o) THEN "cost" ELSE IF "silence" \in Values(o) THEN "free" ELSE "unknown"

-----------------------------------------------------------------------------
\* flag_repeat_visits: one finding for the orders a shop had on one day; its
\* fingerprint, the orders themselves, is unique, resolved or not.
Group(o) == {p \in Orders : order[p].status # "absent" /\ Shop[p] = Shop[o] /\ order[p].at = order[o].at}
\* mutant: only an open flag stands in the way
Known_Open(S) == \E x \in flags : x.orders = S /\ ~x.resolved
Known(S) == \E x \in flags : x.orders = S
Detect(o) ==
  /\ order[o].status # "absent" /\ Cardinality(Group(o)) >= 2 /\ ~Known(Group(o))
  /\ flags' = flags \cup {[orders |-> Group(o), n |-> Cardinality(flags), resolved |-> FALSE]}
  /\ UNCHANGED <<clock, order, snaps, plan, overrides, ledger, hand, night>>
resolve_flag(x) ==
  /\ ~x.resolved
  /\ flags' = (flags \ {x}) \cup {[x EXCEPT !.resolved = TRUE]}
  /\ UNCHANGED <<clock, order, snaps, plan, overrides, ledger, hand, night>>

Next ==
  \/ Tick \/ OverrideWrites \/ NightReads
  \/ \E release, placed \in SUBSET Followed : Cycle(release, placed)
  \/ CarryOut \/ CycleFails
  \/ \E o \in Orders : Arrive(o) \/ Detect(o)
  \/ \E o \in Followed :
       \/ Insert(o) \/ AssignByHand(o) \/ ComesBack(o) \/ Consequence(o)
       \/ \E action \in {"release", "hold"} : OverrideReads(o, action)
       \/ \E value \in {"on_time", "late"} : Deliver(o, value)
  \/ \E q \in [1..Cardinality(night) -> night] : NightWrites(q)
  \/ \E x \in flags : resolve_flag(x)

Spec == Init /\ [][Next]_vars

-----------------------------------------------------------------------------
\* An override on record did what it says: it found the order in the status it
\* cites and left it in the one it asked for, whatever a cycle did meanwhile.
OverrideTakesEffect ==
  Len(overrides') > Len(overrides) =>
    LET r == overrides'[Len(overrides')]
    IN order[r.order].status = r.before /\ order'[r.order].status = (IF r.action = "release" THEN "queued" ELSE "held")
OverridesTookEffect == [][OverrideTakesEffect]_vars

\* A delivery of an order that a cycle placed is credited to that very cycle,
\* unless its snapshot is out of the scan's reach; a delivery of one that was
\* put on the road otherwise (inserted into a route, or by hand) is credited to
\* none, or to a plan made since it arrived that had listed it.
ProvenanceIsTrue ==
  \A i \in DOMAIN ledger : ledger[i].kind = "delivered" =>
    LET o == ledger[i].subject
        s == ledger[i].snapshot
    IN /\ s # None => /\ o \in snaps[s].placed /\ s >= order[o].since
                      /\ order[o].placedBy \in {None, s}
       /\ s = None => order[o].placedBy = None \/ order[o].placedBy <= Len(snaps) - SCAN_LIMIT

\* What snapshot_that_assigned says of itself ("Returns None when no recorded
\* cycle assigned it - a live-route insertion, a hand-built route"): only a plan
\* that was carried out is credited.  It does not hold (README, known gaps).
OnlyCarriedOut ==
  \A i \in DOMAIN ledger : ledger[i].kind = "delivered" /\ ledger[i].snapshot # None =>
    order[ledger[i].subject].placedBy = ledger[i].snapshot

\* Whatever is reported while the nightly job runs, an order is labelled free
\* only after its window, and never when a consequence was reported.
LabelsAreSound ==
  \A o \in Orders : consequence_label(o) = "free" =>
    /\ \A i \in DOMAIN ledger : ledger[i].subject = o => ledger[i].value # "credit"
    /\ \E i, j \in DOMAIN ledger : /\ ledger[i].subject = o /\ ledger[i].value = "late"
                                   /\ ledger[j].subject = o /\ ledger[j].value = "silence"
                                   /\ ledger[j].at - ledger[i].at >= WINDOW

\* A finding a person has dealt with does not come back for the same orders.
FindingsStayResolved == \A x, y \in flags : x.orders = y.orders => x = y

\* What the dispatcher is shown and what an override is recorded against are
\* the same decisions.  It does not hold (README, known gaps).
ExplanationsAgree ==
  \A o \in Orders : order[o].status # "absent" /\ latest_system_decision(o) # None =>
    latest_system_decision(o) \in Explained(o)
=============================================================================
