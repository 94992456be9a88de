# A verification project for LMX OS dispatch

LMX OS takes auto-parts orders from shops, holds them briefly so that they can
be batched, plans them onto drivers, and follows them to the door.  It is a
FastAPI application (`src/app/`) that runs as several processes over two stores
which share no transaction: Postgres (orders, offers, routes, drivers) and Redis
(the hold queue, the fleet's live state, the event bus, the hub lock).  A driver
app, a dispatcher's console and a client portal call it.

What makes it hard is stated all over its own comments: a dispatch cycle plans
from one reading and writes seconds later, a dispatcher assigns the same order
by hand, a driver answers or declines, an offer lapses, dispatch cancels, a
process dies between two commits, Redis is emptied, a lock's lease runs out.
This project models that core with its faults, and around it the parts that keep
state of their own: the route being driven, intake, the door, money, the record
the business is measured by, identity, accounts.  TLC checks all of it on small
instances; TLAPS proves the core's safety properties, and those of sixteen of the
components around it, for every size.

`PROJECT.json` lists components, runs, mutants, the map from definitions to
source lines, findings, hazards and theorems.  The map names the definitions that
stand for code of their own; steps of the environment (a clock, a crash, a row's
age) and small helpers whose lines lie within those of a definition that uses them
are left out of it.

## Running it

    tlc -workers 2 -config Dispatch.cfg Dispatch
    tlapm Dispatch_proofs.tla

Runs of components whose requests may simply stop coming (`route`, `desk`,
`record`) switch the deadlock check off; the others check it.  The longest runs,
`desk`, `record` and `dispatch_faults`, take two to four minutes.

## Inventory

State, operations, and what makes each part correct.  Sources are under
`src/app/` unless said otherwise.

| Part (source) | State and operations | What makes it correct | Modelled in |
|---|---|---|---|
| Order status machine (`orders/state_machine.py`) | 13 statuses, the table of legal moves | every writer's committed moves follow it | `OrderStateMachine`, `OrderLifecycle` |
| Status writer (`orders/status_service.py`, `db.py`) | unlocked read, conditional UPDATE per row in id order | no move reported twice or over a conflicting one; no deadlock | `AdvanceOrders` |
| Dispatch cycle (`optimizer/service.py`) | plan; insertion; dequeue; status write; locked re-read, claims, offers; give-back | no order to two drivers; no dead order on an offer; nothing lost | `Dispatch`, `FleetState` |
| Assign by hand, offers, requeue (`orders/`, `api/driver_routes.py`) | locks, claim, offer, answer, lapse, withdraw | same; one answer per offer | `Dispatch`, `FleetState` |
| Cancellation, override, resolution (`orders/cancellation.py`, `record/overrides.py`, `delivery/resolution.py`) | one order's status, stops, queue, driver | legal from where the order is, whatever runs beside it | `Dispatch`, `RouteExecution`, `DecisionRecord` |
| Stranded sweep, Redis rebuild (`orders/requeue.py`, `optimizer/redis_rebuild.py`) | return what nobody has; seed and correct Redis | everything stranded comes back, nothing in hand does | `Dispatch`, `FleetState` |
| Fleet state, duty switch, switch-off (`fleet_state/`, `api/`) | a hash per driver, Lua scripts, whole-hash writes | one job at a time; the driver's choice respected; a switched-off driver holds nothing | `FleetState` |
| Event bus, hub lock (`events/bus.py`) | dirty set, wake-ups, a lease | one run per hub; no event lost; every event served | `HubEventBus` |
| Route execution (`api/driver_routes.py`, `delivery/`) | stops, scans, load, payout, the next stop | a route ends with its stops; nothing delivered that was not collected; the commits' after-work catches up | `RouteExecution` |
| Door: proof and cash (`delivery/proof.py`, `delivery/cod.py`) | evidence, PIN attempts, collections, disputes | goods against money and the strictest proof asked for | `CashOnDelivery` |
| Returns (`api/driver_routes.py`, `api/admin_routes.py`) | expected and ad-hoc parts, collected, restocked | no part recorded that nobody handed over | `Returns` |
| Tracking (`tracking/`, `delivery/eta.py`) | forecasts, positions, the recipient's page | a forecast stands once reached; one driver shown to one recipient | `Tracking` |
| Intake, backfill, duplicates (`ingestion/`, portal and public API) | lookup, insert, price, commit, queue | one order per reference; history stays history; answers about duplicates leave a copy | `Intake` |
| Manifest upload (`ingestion/manifest.py`, `api/client_routes.py`) | parse, group, chunk, answer | every line answered once | `Manifest` |
| Hold decisions, SLA (`batch_queue/`, `sla/`) | classification, hold deadline, release questions | holding never costs the promise | `HoldQueue` |
| Planner and breaker (`optimizer/fallback.py`, route client) | breaker, local plan, repair of a remote plan | plans can be driven and say what made them; an outage is paid for once | `RouteClient` |
| Webhooks (`orders/sinks.py`, `webhooks/`) | rows, attempts, backoff, endpoint state | news of commits only; everything owed is settled | `StatusWebhooks` |
| Gig jobs (`gig_platform/`, `record/off_platform.py`) | quotes, gate, job life, payout | a job taken on breaks no pickup; records in order | `GigJobs` |
| Health, exceptions list (`health/checks.py`, `reporting/exceptions.py`) | three checks, a list with one kind per order | a stopped dispatch is heard whatever Redis lost; pager and list agree | `OpsWatch` |
| Linkage questions (`record/linkage.py`) | nightly detectors, fingerprints | asked, and asked once | `Measures` |
| Sign-in (`driver_auth/`) | codes, attempts, devices | a switched-off driver's phone is out | `SignIn` |
| Client accounts, terms, retention (`client_auth/`, `client_api/`, `legal/`) | account, users, keys, acceptance | every order has an approved account and accepted terms behind it | `ClientAccounts` |
| Driver papers (`compliance/`) | files, verdicts, expiry | a shift rests on papers somebody passed | `Documents` |
| Billing, credits (`billing/`) | rates, statements, credits | statements add up; nothing billed twice | `Billing` |
| Costs, settlement (`record/cost.py`, `settle/`) | cost entries, bases, signatures | final is what both agreed | `Settlement` |
| Driver day (`payroll/hours.py`, `record/cost.py`, geofence routes) | shift log, crossings, wage shares | hours are time on duty; uploads converge; shares sum to the wage | `DriverDay` |
| Experiment (`experiment/`) | blocks of arms, clauses, exclusions | arms balanced block by block | `Experiment` |
| Playbook (`playbook/`) | calls, veto windows, outcomes | a rule acts with the authority its record earned | `Playbook` |
| Shadow optimizer (`shadow/`) | cadence, lease, comparison | one cycle at a time; a fair report | `Shadow` |
| Decision record (`record/`) | snapshots, overrides, labels, findings | a decision credited to the plan that made it | `DecisionRecord` |
| Site identity (`identity/`) | docks, merges, aliases, facts, disputes, the desk's guesses | no answer lost but by a full list, none counted twice, aliases end | `SiteIdentity` |
| Dock profiles, surveys (`identity/`, `record/desk_prefill.py`) | dwell, class, answers, hand-off points | every dock has its turn; what is said somebody said | `DockProfiles`, `DockSurvey` |
| Learning loop (`learning_loop/`) | nightly job, proposals, rules | one process at a time; a night not missed; one step per review | `LearningLoop` |
| Golden record (`record/labelling.py`, `site_draws.py`, `visits.py`) | verdicts, draws, technician days | scorers compared with each other; a test site per block | `GoldenRecord` |
| Reporting (`reporting/`) | nothing; queries | screens and ledger agree; shares are shares; a shift's own deliveries | `Measures`, `Scorecards` |
| Customer baseline (`baseline/`) | an export's columns, hours, charges | read for what they are | `Baseline` |
| Driver app outbox (`src/driver-app/src/offline/`) | queued taps | a tap sent again is one | `Returns` (its taps); what else it may send is in `RouteExecution` |
| Rate limits, travel, schemas, migrations, messaging, storage, geocoding, front ends, `ml/` | | | not modelled |

How the parts meet: handlers publish hub events to the bus; the bus, the
five-minute sweep and a dispatcher's "run now" take the hub lock and run a
cycle; the assign by hand and the rebuild take the same lock.  Cycle and assign
write both stores.  Answers, cancels, flags, redeliveries and the duty switch
write both stores *without* the hub lock and rely on row locks, conditional
writes and the Lua scripts.

## Modules

    OrderStateMachine        the status table
      OrderLifecycle         abstract: what any watcher of orders may see
      AdvanceOrders          sessions calling advance_orders      implements OrderLifecycle
      Dispatch               one hub's orders, queue and offers   implements OrderLifecycle
      RouteExecution         one route being driven               implements OrderLifecycle
    FleetState               one driver's hash, offers and routes
    HubEventBus              the bus and the hub lock
    MCDesk composes          Intake, Manifest, HoldQueue, RouteClient, GigJobs,
                             CashOnDelivery, Returns, Tracking, StatusWebhooks,
                             OpsWatch, Measures (links)
    MCRecord composes        SignIn, ClientAccounts, Documents, Billing, Settlement,
                             DriverDay, Experiment, Playbook, Shadow, DecisionRecord,
                             SiteIdentity, DockProfiles, DockSurvey, LearningLoop,
                             Scorecards, Measures, GoldenRecord, Baseline
    *_proofs                 theorems about the module they extend: AdvanceOrders,
                             Dispatch, FleetState, HubEventBus, RouteExecution,
                             Intake, SignIn
    Components_proofs        theorems about fourteen components of the unions:
                             CashOnDelivery, StatusWebhooks, ClientAccounts,
                             Documents, Settlement, Shadow, SiteIdentity,
                             DockProfiles, HoldQueue, DockSurvey, DecisionRecord,
                             Tracking, Returns, Measures (links)
    MC*                      instances for TLC whose constants are not plain sets
                             (AdvanceOrders, Dispatch, FleetState and HubEventBus
                             need none)

`MCDesk` and `MCRecord` put components that share no state in the code side by
side: a behaviour picks a component (`part`) at the start and is a behaviour of
that component alone, its variables in the slots `s1`, `s2`, ...  An invariant of
such a run is a conjunction of `part = "x" => X!Property`, grouped by what the
properties are about (access, money, evidence, sites; work, promises, handing
over).  A component that does several independent things appears more than once,
each time sized for one of them: `Measures` for promises, offers, the fence,
arrivals and linkage, `Scorecards` for duty, yard and exposure.

A definition named `X_Something` with a comment "mutant:" is a plausible bug put
in place of `X`; TLC must then refute the property `PROJECT.json` pairs it with.
No mutant is part of any specification.

### OrderStateMachine, OrderLifecycle

The table of `state_machine.py`, and the promise made to everyone who watches an
order: each commit moves each order along the table, or from `assigned` back to
`held` when an offer was taken back.  That last move goes round the table in the
code too (`requeue.py` writes the row itself).

### AdvanceOrders

A session begins a call with a set of orders, takes the row first if its caller
does (assign, cancel), reads unlocked, and goes through the rows in id order:
`SkipRow` for the three early `continue`s, `UpdateRow` for the UPDATE, which waits
for the row's lock and evaluates its WHERE again on what it finds.  Postgres (READ
COMMITTED) is external.  `Commit` and `Rollback` end the transaction and free the
locks.  The jobs checked are those that race in the program.

### Dispatch

The orders of one hub.  Two stores: `status`, `offer`, `payload` are committed
Postgres state; `queue` and `hub` are Redis.  A handler is one action when it is
one transaction, several when something else can run between its steps:

* the cycle is `CyclePlan` (hub lock, reading, pruning), `CycleInsert` per
  inserted order, `CycleDequeue` per order, `CycleWrite` (first transaction),
  `CycleLockStillAssigned`, `CycleClaim` (the shares of drivers not claimed are
  queued again *before* the commit), `CycleCommit`;
* the assign is `AssignLock`, `AssignCommit`, and `AssignDequeue`, which comes
  after the hub lock is free;
* a decline, lapse or withdrawal is `TakeBack` (rows locked, queue written) and
  `TakeBackCommit`; a redelivery is `Redeliver` and `RedeliverCommit`; intake is
  `Ingest` and `IngestQueue`; the rebuild is `RebuildRead` and `RebuildWrite`.

`RowLocked` says which order rows a transaction holds; writers wait.  An offer
and the route an accept builds from it are one id, with the orders still to be
done on it.  Which plannable orders go to which driver, and which claims succeed,
is left open, so the result does not depend on the solver or on the fleet.

Abstractions.  Stops are not told apart (a flag removes an order's other stops,
so an order is either on a route or off it).  A cancel's commit and its later
removal from the queue are one step: `cancelled` is terminal, the entry left by a
crash between them is dropped by the next plan.  The stranded sweep's grace of
120 s is modelled as "not moved by a cycle still in flight", which is what
`config.py` says it is for.  The plan's reading of the queue and of the statuses is
one step: what changes between them is judged by the status write like any later
change.  So are the sweep's queue write and commit for one order, but for a commit
that fails (`ReturnStrandedFails`).  An order with no shop, which the sweep skips and
leaves for a person (`requeue.py:263`), is left out.

### FleetState

One driver: drivers share no state.  `choice` and `isActive` are their row,
`offer[f]` their offers and the routes these become, `st` and `route` the hash.
Cycle, assign and rebuild exclude each other by the hub lock, so one variable
says which of them is running and how far; that the lock does so is
`HubEventBus`'s `LiveRunHoldsLock`.  The row locks (a share lock by whoever
offers, an exclusive one by the duty switch and the switch-off) are `RowShared`
and `RowHeld`.

The requests that read the hash and write all of it back go through `owed` (the
commit is done), `reading` (the hash is read) and the write: the load after a
stop, the driver freed after the last stop or by a cancel, the switch-off, the
duty switch.  `HashWritesInterleave` says whether others may run in between.
`DutyToggledMidJob` says whether the driver uses the duty switch while holding
work.  A flagged pickup that ends a route skips the load write; that is the case
of a load written back at once, and is included.

Abstractions.  Position, load and capacity are left out.  The duty switch's
write to Redis and its commit are one step, because it holds the row; a commit
that fails is `DutyFails`.

### HubEventBus

Processes poll the dirty set; a run is known by the token it drew.  Taking a
wake-up and marking it, taking a lock and removing the mark, ending a cycle and
releasing are separate steps, because a process can die or a Redis call raise
between them.  `owed` is a history variable: hubs with an event no cycle has
started after.  `deposed` holds the tokens whose lock expired under them.

### RouteExecution

One accepted route: its stops in order, each with its orders, counts and status;
the orders' statuses; the load in the driver's hash; payouts.  Whatever runs under
the route's row lock is one action (accept, arrive, complete, flag, insert, cancel,
redeliver); what `complete_stop` and `flag_stop_issue` do after their commit
(payout, load, next stop en route) is split into steps that may be cut short, and
any tap may come again.  `MaxServed = 1`: the phone's outbox sends one request at
a time, so one request at a time is between its commit and its last step.

An accept builds the stops from the plan's visits: consecutive visits of one shop
share a pickup.  A plan visits every order's shop before its door; that is what the
optimizer (`RouteClient`) hands over, and what `DeliveredWasCollected` starts from.

### The components of the two unions

Each module opens with what it models and how time, places and files are
abstracted.  In short:

* **Intake** takes every request through lookup, flagging, insert under the
  unique index, commit and queueing, with replays, crashes at every step and
  backfill.  "Was this sent twice?" is answered on a screen of any age, and an
  order can be taken back at any time; neither looks at what became of its twin.
  **Manifest** is the upload around it: a line is answered as an error also where
  its order had committed, and an upload may be aborted on the way.  **HoldQueue**
  has places on a line, so that drive, radius and promise are comparable integers.
* **RouteClient** keeps the breaker and checks plans, remote or local, against
  capacity, order of stops and what was recorded of the engine.  The request to
  Google rounds loads and capacities to whole units, in the model as in the code,
  so that a plan fits the van up to half a unit per load and van.  **GigJobs** has
  two platform jobs and an accept gate over the pickups already owed; a log finds
  its job by id or reference, inserts it and locks it in separate steps.
* **CashOnDelivery**, **Returns**, **Tracking** and **StatusWebhooks** are what
  leaves the system: proof and money, parts coming back, forecasts, news.  In
  `Returns` the phone's outbox sends one tap at a time and sends it again when the
  answer was lost; in `Tracking` a driver may arrive at any stop of the route.
* **OpsWatch** reduces an order to what the pager and the list read of it.
* **SignIn**, **ClientAccounts** and **Documents** are who may do what; the row
  locks they take, or do not take, are modelled.
* **Billing**, **Settlement**, **DriverDay** are money and hours, in small integers
  with the code's own rounding.
* **Experiment**, **Playbook**, **Shadow**, **DecisionRecord**, **LearningLoop**,
  **GoldenRecord**, **DockProfiles**, **DockSurvey** and **SiteIdentity** are the
  record: nightly jobs under leases, requests that read and then write, and people
  deciding meanwhile.  Where the code reads a mark and then takes a lock
  (`LearningLoop`, `Shadow`), or commits a snapshot and then carries it out
  (`DecisionRecord`), the model has two steps.
* In **SiteIdentity** a fact keeps what it was told in lists with the code's caps
  (`MAX_DISPUTES`, `MAX_SETTLED`, `MAX_REMEMBERED`); `lost` is a history variable,
  the answers a full list let go.  A dispute is known by its stop and values, as
  `dispute_key` has it, and not by the dock a merge brought it from.  **DockProfiles**
  has docks merged while the nightly refresh goes round.  **GoldenRecord** grades by
  the tiers of migration 0080, in which a site the desk filled in is bronze.
* **Scorecards**, **Measures** and **Baseline** are computations over data that
  goes on changing, or over files nobody controls; a query is one step, a report
  of several queries several.

## Runs

| Run | Instance | Shows |
|---|---|---|
| `advance_orders` | 2 sessions, 2 orders, 5 calls | moves reported are real, waits ascend, statuses implement `OrderLifecycle` |
| `dispatch` | 2 orders, 2 ids, a cycle, an assign, insertion on, crashes | one home per order, statuses implement `OrderLifecycle` |
| `dispatch_faults` | 1 order, 2 ids, 2 cycles, an assign, insertion on; crashes, flushes, expiring leases | the same safety and no dead work without relying on the hub lock; stranded orders are returned, lost ones found |
| `dispatch_queue` | 2 orders, 2 ids, a cycle; no faults | queue and Postgres agree |
| `dispatch_assign` | as small as shows it | a violation, below |
| `fleet` | 2 ids; hash writes undisturbed, no faults | one job at a time, the choice respected |
| `fleet_faults` | 1 id; crashes, flushes | a switched-off driver holds nothing; `offered` to nobody and `en_route` on an ended route end |
| `bus` | 2 processes, 1 hub, 3 tokens; expiring leases | no event lost, one bus run per hub and process |
| `bus_faults` | 1 process, 1 hub, 2 tokens; all faults but expiry under a live run | one run per hub while its lease stands; every event served, every wake-up taken |
| `route` | 2 orders, up to 5 stops, one request being served | a route ends with its stops, nothing delivered uncollected, stops finish once, counts can be reached, after-commit work catches up, statuses implement `OrderLifecycle` |
| `desk` | the eleven components of `MCDesk` | work is taken once, promises are kept, things are handed over properly, owed notifications are settled (liveness), forecasts stand |
| `record` | the eighteen components of `MCRecord` | access, money, evidence, sites, and that changes change what their author saw |

### Bounds, and why they are enough

There is no numeric bound in the core models: sets are finite and ids are reused
when nothing names them, so every run explores its instance completely and
handlers run any number of times.  Two orders and two offer or route ids are what
a violation of `OneHome`, a partly refused plan, or an overlap of two writers'
locks needs; expiring leases need two cycles and one order for them to fight
over.  A driver needs two ids to hold two jobs.  The bus needs two processes, and
three tokens for a deposed run, its successor and a claim.  Safety on larger
instances is what the theorems are for.

`RouteExecution` stops inserting at `MaxStops = 5`: two orders from two shops make
four stops, and a fifth is an insertion after a redelivery.  The components of the
unions bound the clock (`MaxTime`, two to six ticks: enough to pass every window,
deadline and lease of the component once, and a day or week boundary where hours
are cut), the uploads, sweeps, nights and statements (`Max...`, two or three: one
to be disturbed, one to disturb it, one to see the result), and use two or three
orders, docks, drivers or scorers, the fewest for which the quantities compared
can differ.  Where a component's own sizes matter they are scaled down with their
ratios kept: a batch of two rows of a file of four, a block of two or three
orders, a hold window of one to three ticks.  The reduced case is said at the
part's constants when it leaves something out.

### Fairness

* Handlers that have started finish (weak fairness); those that wait for a row
  lock get their turn because Postgres queues waiters (strong fairness in
  `FleetState`, where others may take the row in between).
* The sweep and the rebuild *skip* a hub whose lock is taken and come back, every
  five minutes and thirty seconds after a flush; the lock is free between any two
  cycles, so they are not kept out for ever (strong fairness).  The code does not
  enforce it, so it is an assumption about load, listed as a hazard.
* The expiry sweep takes back an offer nobody answers.
* Processes that are up keep polling and are restarted when stopped; a lock
  nobody alive holds expires.  Faults may recur for ever, but do not hit every
  cycle before it starts.
* The webhook sweep is called by the scheduler for ever, and a row's backoff
  passes (weak fairness); an attempt or its record may be cut short by a crash,
  but not every time (strong fairness).
* Nothing obliges a driver, a dispatcher or a client to do anything.

## What the violation shows

`dispatch_assign`: the assign's dequeue runs after the hub lock is released.  A
decline in between has already put the order back, and the dequeue takes it out:
`held` and in no queue, which a comment of `assignment.py` rules out (quoted in
`PROJECT.json`).  `dispatch_faults` shows that the rebuild finds it, at the next
sweep.  `dispatch_queue` excludes exactly this cause: it has no assign.

## Theorems

All hold for every value of the constants under the named assumptions of each
module (`ConstantsAssumption`; for `AdvanceOrders`, that order ids are naturals
and that each call's precondition lies within the machine's legal sources, which
is what the call sites pass).

* **AdvanceOrders** (`AdvanceOrders_proofs`).  `MovesAreReal`, `NoLockCycle`, and
  the refinement `WritersFollowLifecycle`.  The invariant adds to the property
  that a session holds the row of every order it counts as moved, that the rows
  it holds lie behind its loop, and that an idle session holds none.  A conditional
  UPDATE then makes the precondition true, and the lock keeps it true; waits ascend
  because a session's next row is above every row it holds.
* **Dispatch** (`Dispatch_proofs`).  `TypeCorrect`, `NeverTwoDrivers`, `NoDeadWork`
  and the refinement `DispatchFollowsLifecycle` (from the same invariant: a writer
  finds an order where the table lets it go on), under every fault including leases
  that expire under a live cycle.  The hub lock is not part of the argument.  The
  invariant `IInv` adds what each writer may rely on: what a cycle has moved is on no
  offer and moved by no other cycle, and is `assigned` once the cycle has the rows
  locked; the order an assign holds is still waiting; a redelivered order is still
  failed; a planned id is not yet an offer.  `OneHome` alone is not inductive: it
  takes `OfferCarriesLiveOrders` to know that a waiting order is nowhere, so that
  putting it on an offer is safe.
  `AssignedHasAHolder` holds under `NothingStrands` (no crash, no in-flight
  insertion), with assigns, flushes and expired leases: `HolderInv` adds that a cycle
  moves once and only what its plan gives to a driver.
  `WaitingIsPlannable` holds under `QueueIsKept` (also no assign and no other fault):
  here the hub lock does carry the argument.  `QueueInv` adds that a cycle at work
  holds the lock, that until it writes, its plan's orders wait or were cancelled, and
  that orders coming back are queued before their commit.  TLC refutes each theorem
  when any one of its conditions is dropped; the counterexamples are the known gaps
  below, and what is left then is `StrandedIsReturned` and `LostIsFound`.
* **FleetState** (`FleetState_proofs`).  `TypeCorrect` and
  `SwitchedOffHoldsNothing`, with duty switches mid-job, interleaved hash writes and
  every fault.  The invariant adds that a driver whose row is share-locked for an
  offer is switched on.  `OneJobOfADriver` and `PoolIsByChoice` hold under `Calm` (the
  duty switch left alone mid-job, hash writes right after their commit, no faults):
  `CalmInv` adds that the hash tells of the job in hand (`offered`, or `en_route` on
  that very route), that a claimed driver has no job, that requests are served in
  turn, and that a rebuild which saw no open offer is not overtaken by one.  Each part
  of `Calm` is needed: TLC refutes the properties without it.
* **HubEventBus** (`HubEventBus_proofs`).  `TypeCorrect`, `OneRunPerHub` and
  `OneRunPerProcess` under every fault; `NoEventLost` when no fault but expiring
  leases happens.  `OneRunPerProcess` rests on the process's own record of its runs:
  a lease that expires under a run does not matter to it.
* **RouteExecution** (`RouteExecution_proofs`).  `RouteEnds`,
  `NothingUncollectedIsDelivered`, `FinishedStaysFinished` and the refinement
  `RouteFollowsLifecycle`, with no hypothesis beyond the constants' assumption.  The
  invariant `RouteInv` is `RouteEndsWithItsStops` and `Collected`: every drop-off that
  may still be made, or was, has an earlier pickup of its order on the route that is
  not given up, and is done when the drop-off is.  `DeliveredWasCollected` alone is not
  inductive: `complete_stop` only sees that no collection is pending, which says
  nothing unless a pickup that came off the route took its drop-off along.  Each
  request is shown `Good`: it
  moves statuses legally, ends stops once and keeps the invariant.
  `CountsCanBeScanned` and `ServedRoutesAreSettled` are about sums over the orders of a
  stop and of the van, for any finite set of orders (a hub's orders are the rows of a
  table).  What a sum does when an order joins or leaves its set is proved from the
  choice of a smallest set for which it would fail.  `AttemptInv` adds
  that an order's stops still to be done are those of its last attempt, that only
  pickups are shared and that what was collected is dropped next: the van holds what
  it should, and a flag or a cancel takes one order at a time off a shared pickup.  `ServedInv` says what a request between its commit and its last
  step still owes: the load, or what it read of it, is the weight before its stop, its
  payout is to come, and it will name the next stop.
* **Intake** (`Intake_proofs`).  `ReferenceIsOneOrder`, `ImportIsHistory` and
  `ACopyIsLeft`, for requests that are orders and a `Nobody` that is none of them
  (`WellAsked`).  `IntakeInv` adds that of the requests for one order at most one has
  a row, committed or not (the unique index, and an insert that waits for an open
  one); that how far a request got tells what became of its row, and only a stored
  order is queued or leaves `held`; that an answer names a stored row of the same
  order; that a flag names another stored order of the same client and door; that
  behind every order stands a first copy that repeats nothing (`Rooted`); and that
  only flagged orders are asked about (`AskedOfRepeats`).  The last two are why a
  copy survives the answers: nobody is ever asked about the first one, so it is gone
  only if the client took it back unasked.  A client who does that and then says of
  the other copy that it was sent twice has none left (known gaps).
* **SignIn** (`SignIn_proofs`).  `TypeCorrect` and `SwitchedOffForGood`, where codes
  are numbered from 1 and `NoCode` is none of them (`WellNamed`).  `SignInInv` adds that
  sign-ins under way hold different open codes, that a known phone spent a code of
  its own, that whatever can still be used, or is not revoked, dates from after the
  last switch-off, and that an administrator with the driver's row meets no sign-in
  past its check: so the phones a switch-off finds are all there are when it commits.

* **Components** (`Components_proofs`).  Each component is an `INSTANCE` under a name
  of its own, and each theorem is of the form `X!Spec => []X!Property`, or
  `X!Spec => X!Property` for an action property.

| Theorem | Of | What the inductive invariant adds |
|---|---|---|
| `GoodsAgainstMoneyAndProof` | `CashOnDelivery` | the columns of a cash record; a bound on photos makes the most demanding order exist (`StrictestIsAsked`) |
| `OnlyCommittedNews` | `StatusWebhooks` | the rows a session has in hand (`Reads`) had committed when it read them, and so had every row past `staged` |
| `OrdersRestOnTerms` | `ClientAccounts` | `Grounded`: before an account there are no orders, one that applied accepted some version of the terms and ordered only under published ones, and is active only with a rate |
| `ShiftsOnClearedPapers` | `Documents` | a screen has had every file its document held since it was opened; a verdict on record is answered for by the file on record, and by every file whose upload read the row before the verdict |
| `FinalPapersAreSigned` | `Settlement` | a basis keeps its definition and costs once issued, and a run's copy of its signatures is never ahead of the row |
| `OneShadowCycle` | `Shadow` | while nothing overran, a process that plans means a lock that stands, and no other plans |
| `DisputesAreSeenFirst` | `SiteIdentity` | the shape of the facts and of what the desk has in hand; the keys of the open disputes, read under the lock, must be among those on the screen |
| `AliasesAlwaysEnd`, `AnswersStayOnRecord` | `SiteIdentity` | `SiteInv`: the aliases descend some rank (`Forest`), so they have no cycle and, docks being finitely many, end within as many steps as `canonical_location` takes (pigeonhole); a merged dock has handed what it remembers to the dock it is merged into, under its own name (`HandedOn`), so undoing another merge takes none of it away; an answer taken is with the dock that took it (`Held`); both but for what a full list let go (`lost`) |
| `LabelsAreAnswers` | `DockProfiles` | the nightly job guesses a dock's class at most once (`Guessing`), so since a labeller read a guess only people have written that dock (`ReadFine`): a column left as it was read holds an answer |
| `WaitingKeepsThePromise` | `HoldQueue` | a promised order's hold ends in time to drive there or has ended, and an order just kept has a hold that has not ended |
| `EveryAnswerWasGiven`, `WalksJoinTheirEnds`, `DeskOnlyFillsGaps` | `DockSurvey` | what was said left its mark on the profile, a stranger's word is in a submission let in, and an import in hand saw no answer that has gone since; a walk on record has both ends on record |
| `CreditWhereItIsDue`, `FreeMeansNothingReported`, `FindingsAreRaisedOnce`, `OverridesDidWhatTheySay` | `DecisionRecord` | the cycle an order on a route says placed it did list it, since the order arrived, and no later plan lists it (`PlacementIsTrue`); the plan being carried out is the newest (`PlanIsNewest`); a recorded delivery is of a delivered order; the orders a nightly job has in hand were late a whole window before; an override in hand cites the status its action applies to |
| `ReachedForecastsStand`, `ArrivalsCanBeMet` | `Tracking` | along the stops not reached, whichever were reached first, each forecast leaves time for the stop before, in the rows and in the refresh a ping has in hand |
| `NoReturnIsInvented` | `Returns` | rows are numbered without gaps, so a new one is never taken for an old one; an unannounced part is in the van or back at the shop and is on record once per order and manifest; whatever names a manifest, a row or a tap on its way, names one that was handed over; the row the office has in hand exists, and the office reschedules none that was unannounced |
| `EveryQuestionOnce` | `Measures` (links) | a flag's fingerprint is that of its subjects and no two are alike, whatever became of the first; a night that has passed asked about every delivery by then that went past a waiting part |

  The hypotheses, beside the constants being of their kind (numbers where the code
  has numbers, functions over the component's sets): some bound on the photos an
  order may ask for; a lock that lives for some time; a driver's id is not the desk's;
  a missing value is not a value, and the nightly job not a labeller; docks are
  finitely many and none is a duplicate of itself; the orders of a hub are finitely many; the stops of
  a route, and the returns announced at intake, are numbered from 1.  The refresh of a route's forecasts walks the stops by a
  recursive function; that the function is defined for every stop, and what it leaves
  behind, is proved by the first stop at which it would fail.  `canonical_location` follows
  aliases by another, and is reasoned about in the same way.

  `MCDesk` and `MCRecord` check each of these on one instance, as a conjunct
  `part = "x" => ...` of an invariant that groups several components.  `ForecastsStand`
  is one component's and is settled by its theorem; so is every conjunct of
  `AccessIsGranted` (accounts, users, sign-in, papers) and of `SitesAreKept` (aliases,
  answers, labels, surveys, walks).

Only model-checked:

* everything about liveness (`StrandedIsReturned`, `LostIsFound`,
  `OfferedToNobodyEnds`, `EndedRouteLetsGo`, `EventIsServed`, `WakeupIsTaken`,
  `OwedIsSettled`), which needs fairness and is out of the prover's reach;
* of `WorkIsTakenOnce`, the conjuncts of `Manifest` and `GigJobs`; of
  `PromisesAreKept`, those of `RouteClient`, `GigJobs` and `OpsWatch`; of
  `HandedOverProperly`, what the recipient's page shows;
* of `MoneyAddsUp`, everything but `FinalIsAgreed`: statements, hours and charges are
  folds over sequences, and what such a fold computes for every input is an induction
  over data; of `EvidenceIsSound`, all but the shadow's lock and the decision record,
  for the same reason where figures are counted;
* of `ChangesWereSeen`, the grades of `GoldenRecord`; of `DockProfiles`, that every
  dock has its turn and that plans rest on enough, which count and take medians.

## Known gaps of the code, met while modelling

What the passing runs leave out of an instance, or a property takes as its
hypothesis, because the code does not promise it.  Where a comment or a docstring
does say so, the statement is kept as a definition next to the properties that hold,
named below and checked by no run: TLC refutes each on the instances of `desk` and
`record`.

Dispatch and fleet:

* An order the cycle inserted into a live route is dequeued and written a second
  time by the same cycle.  If the driver flags it and it is sent out again in
  between, the second write makes it `assigned` with no offer, so
  `AssignedIsSomebodys` is claimed with insertion off only.  The stranded sweep
  returns such an order: `StrandedIsReturned` is checked with insertion on.
* The duty switch writes `available` over `offered` (`driver_routes.py:896`): a
  driver who switches off and on with an offer open can be given a second.  `fleet`
  has no duty switch mid-job.
* A cancel that ends a route reads the hash and writes it back
  (`cancellation.py:225`); a break taken in between is lost.  `fleet` has hash
  writes undisturbed.  The load write of `complete_stop` is of the same kind.
* An accept writes `en_route` before its commit; if that fails the hash names a
  route with no row, which the rebuild leaves (`redis_rebuild.py:273`).
* A taken-back offer frees its driver before its commit; if that fails the driver
  is in the pool with an open offer.
* A Redis emptied *inside* a rebuild is seeded from a reading that may be old.
* The hub lock is a fixed lease with no renewal (`src/docs/ROADMAP_1.5.md` lists it
  as open): what still holds without it is what `dispatch_faults` and the theorems
  of `Dispatch` say; `FleetState` assumes the lock.

Driving and the door:

* A stop flagged before pickup subtracts a weight that was never loaded, and an
  order inserted in flight counts as one parcel; `QuietRouteIsSettled` speaks of
  routes where no such flag was raised (`clean`).
* Two taps that record a collection and a dispute at once both pass the unlocked
  read of `cod.py`; no constraint keeps one of them out (`OneRecordPerOrder`).
* Returns: a rescheduled return is on no later stop, and a part recorded by hand
  while an expected one is open is a second row.  `collect_return` looks for the part
  and inserts it without a lock (`driver_routes.py:2473`): one row per part rests on
  the outbox not sending a tap again while the server still works on it.

Intake and promises:

* Two orders without a reference that arrive at once are each other's duplicate and
  neither is flagged.  Two lines of a manifest with one reference count as two
  accepted rows and one order.
* The routes that cancel an order look at no duplicate question and at no twin
  (`client_routes.py:989`, `public_api_routes.py:177`): a client who takes the first
  copy back and then answers "sent twice" of the other, on a screen opened before,
  has no order left.
* A line of a manifest may be reported as an error although its order committed
  (`client_routes.py:1100`), and an upload that is aborted keeps the orders it had
  committed (`client_routes.py:1053`).
* Two logs that name one platform reference at once find no job and insert one each,
  so `off_platform.py:11`, one record per job, is broken; `RecordsAreSound` speaks of
  the record of a job.
* The rounding of loads for Google lets a van be overfull by half a unit for each
  stop and for itself (`google_routes_client.py:303`, `364`).
* The accept gate for platform jobs does not look at the drop-off windows of parts
  already picked up.  Two urgency rules that match are decided one way by
  `learning_loop/service.py` and the other way by `sla/engine.py`.
* The exceptions list keeps a flagged order that was cancelled afterwards, and shows
  imported history as past its promise.  A hub that opens with orders waiting is
  reported as stopped until its first cycle.
* Webhooks: two sweeps can send a row twice, and an immediate send does not look at
  the row's status.

People and money:

* Two reviewers can decide one application differently, so a declined applicant may
  sign in (`DeclinedCannotSignIn`); approval asks for one rate, and an order of
  another tier has no price (`ApprovedOrdersArePriced`, against
  `schemas/signup.py:128`); the last active
  administrator of a client can be removed by two requests at once; other password
  links stay valid after one is used.
* Two statements generated at once bill the same orders (`billing/service.py:89`);
  `record` has one clerk.  A payout is retried without an idempotency key.
* Cost entries: two costings at once leave two live rows; an order's share can
  exceed the wage where its own time exceeds the paid time.
* A review of a driver's document that races a new upload judges a file nobody
  looked at.

Record and measures:

* Leases deleted without a token (`shadow/scheduler.py`, `learning_loop/scheduler.py`):
  a run that outlives its lease deletes its successor's.  The instances keep a run
  within its lease but for the case the property speaks of.
* A process that read the night's mark before another set it, and takes the lock after
  the other released it, works the night again (`learning_loop/scheduler.py:148` and
  `151`; `OncePerNight`).  `NightsAreWorked` counts: no more often than processes had
  found it unworked.  Detection does not read the rule in force
  (`DetectionSeesTheRuleInForce`).
* A shadow cycle that committed and whose mark was lost, because the process died or
  Redis raised, is recorded again at the next poll.  The shadow's index counts orders
  and the operation's rank counts stops, though `divergence.py:204` calls them one
  quantity: orders that share a drop-off are reported as a different sequence.
* A plan is on record before it is carried out.  A delivery put on the road by hand or
  by insertion is credited to a plan that listed the order and moved nothing
  (`decisions.py:196`; `OnlyCarriedOut`); what holds is that a delivery a cycle did
  place is credited to that cycle.  What the dispatcher is shown and what an override
  is recorded against can be two decisions (`ExplanationsAgree`).
* Site facts past their caps (20 disputes, agreements and settlements, 100 answers
  remembered; `site_facts.py:35`) are dropped: the oldest go, and with them what tells
  a repeated request from a new one.  A stop may be asked again after a merge is undone.
  Confirming and rejecting a merge at once loses one audit row, and the merge cannot be
  reverted (`MergesCanBeReverted`).
* A dock merged into another stays first in the nightly refresh: the order goes by the
  figures of the dock visited, and those of the surviving dock are written
  (`profile.py:431`).  Each takes a place every night; with as many as the limit of 500
  no other dock of the hub is refreshed.  `EveryDockGetsItsTurn` counts the places left.
* A record graded silver becomes bronze when the desk's guess completes its site, by
  design (migration 0080); `GradesDoNotFall` names that case as its one exception.
* The balance test of the experiment is made over a window that need not begin with a
  block, and can report a breach of arms drawn as they should be (`WindowsAreFair`).
* Two overlapping playbook sweeps can leave two current calls; a public submission can
  overwrite a survey that left a field blank (`StrangersDoNotOverwrite`).  A survey's
  read, its cap and its write are one step in `DockSurvey`, and a stop that is no
  drop-off (a visit is always asked about, a pickup never) is left out.
* Reports of several queries are not a snapshot: a statement issued while the credit
  exposure is read takes a breach out of both sums, and reasons read after declines
  can exceed them (`OfferSharesAddUp` says "when none comes in between").
* The driver's scorecard counts colleagues by any time on duty but measures only
  shifts long enough, so a figure can rest on fewer colleagues than it says.
* A linkage group that shrinks as the window slides has a new fingerprint, so a
  resolved question can be asked again about its remainder.
* Baseline: a shift across midnight with drops on both days counts twice, and equal
  hours on each of a day's stops are taken for the day's total.

## Not modelled, and why

* The front ends and `ml/` are other programs.  Of the driver app's outbox `Returns`
  has the taps about returns; the other models take from it what the server may see:
  taps one at a time, late and repeated.
* Messaging, storage, geocoding and payroll clients are requests to outside
  services: one step that succeeds or fails where a component depends on it.
* Adapters of other systems' order formats, PDF statements and prose summaries are
  conversions and layout; no property is about them.
* Rate limits, travel times and the hub calendar are computations whose results the
  models take as inputs (distances, open or closed).
* Schemas, models and migrations are declarations; the columns a module uses are
  its variables.

## Plan

1. Proofs: the components whose argument is about locks and orders of steps rather
   than figures (`LearningLoop`'s nights, `GigJobs`).
2. The driver app's outbox, as `Returns` has it, composed with `RouteExecution`.
3. Larger instances of the union components whose bounds are tightest (playbook
   with two drivers, decisions over three cycles).
