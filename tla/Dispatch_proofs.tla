--------------------------- MODULE Dispatch_proofs ---------------------------
(***************************************************************************)
(* For any number of orders, offers, cycles and dispatchers, and under     *)
(* every fault: an order is never on the work of two drivers, and an offer *)
(* or a route carries only orders that are really on their way.  Neither   *)
(* rests on the hub lock; what it takes is who may write an order that     *)
(* somebody else has read.  The statuses implement OrderLifecycle.  Under  *)
(* named conditions, an `assigned` order is somebody's and a waiting one   *)
(* is in the hold queue.                                                   *)
(***************************************************************************)
EXTENDS Dispatch, TLAPS

(* What a cycle has moved is nobody's until it commits: `assigned` (or     *)
(* cancelled meanwhile, until the cycle has the rows locked), on no offer  *)
(* and no route, moved by no other cycle.                                  *)
MovedOrdersAreFree ==
  \A c \in Cycles :
    /\ back[c] \subseteq IF pc[c] = "commit" THEN moved[c] ELSE {}
    /\ \A o \in moved[c] :
         /\ ~ HasHome(o)
         /\ status[o] \in {"assigned", "cancelled"}
         /\ pc[c] \in {"offering", "commit"} => status[o] = "assigned"
         /\ \A d \in Cycles \ {c} : o \notin moved[d]

\* The order an assign holds is still waiting, and one assign holds it.
TargetsAreWaiting ==
  \A a \in Assigners : apc[a] = "holding" =>
    /\ status[target[a]] \in PLANNABLE
    /\ \A b \in Assigners \ {a} : apc[b] = "holding" => target[b] # target[a]

RedeliveredHaveFailed == \A o \in redelivering : status[o] = "delivery_failed"

\* An id a cycle plans for is not an offer yet, and is planned by it alone.
PlannedIdsAreFresh ==
  \A c \in Cycles, o \in Orders : plan[c][o] # NoOffer =>
    /\ offer[plan[c][o]] = "none"
    /\ \A d \in Cycles \ {c}, p \in Orders : plan[d][p] # plan[c][o]

IInv ==
  /\ TypeOK
  /\ OneHome
  /\ OfferCarriesLiveOrders
  /\ MovedOrdersAreFree
  /\ TargetsAreWaiting
  /\ RedeliveredHaveFailed
  /\ PlannedIdsAreFresh


USE DEF cycleVars, assignVars, rebuildVars, otherVars

(* An order that is not on its way is on no offer and no route, and no     *)
(* cycle has it, unless it was cancelled under the cycle.                  *)
LEMMA WaitingIsFree ==
  ASSUME IInv, NEW o \in Orders, status[o] \notin OnRouteStatus
  PROVE  /\ ~ HasHome(o)
         /\ \A c \in Cycles : o \in moved[c] => status[o] = "cancelled"
  BY DEF IInv, TypeOK, OfferCarriesLiveOrders, MovedOrdersAreFree, OnRouteStatus, HasHome

(* An order on an offer or a route is on no other, and neither a cycle, an *)
(* assign nor a redelivery has it.                                         *)
LEMMA HomedIsTaken ==
  ASSUME IInv, NEW f \in Offers, NEW o \in payload[f]
  PROVE  /\ o \in Orders
         /\ status[o] \in OnRouteStatus
         /\ \A g \in Offers \ {f} : o \notin payload[g]
         /\ \A c \in Cycles : o \notin moved[c]
         /\ \A a \in Assigners : apc[a] = "holding" => target[a] # o
         /\ o \notin redelivering
  <1>1. o \in Orders /\ status[o] \in OnRouteStatus
    BY DEF IInv, TypeOK, OfferCarriesLiveOrders, OnRouteStatus
  <1>2. \A g \in Offers \ {f} : o \notin payload[g]
    BY DEF IInv, TypeOK, OneHome
  <1>3. \A c \in Cycles : o \notin moved[c]
    BY <1>1 DEF IInv, MovedOrdersAreFree, HasHome
  <1>4. \A a \in Assigners : apc[a] = "holding" => target[a] # o
    BY <1>1 DEF IInv, TargetsAreWaiting, OnRouteStatus, PLANNABLE
  <1>5. o \notin redelivering
    BY <1>1 DEF IInv, RedeliveredHaveFailed, OnRouteStatus
  <1> QED
    BY <1>1, <1>2, <1>3, <1>4, <1>5

(* A step that leaves everything the other parts speak of.                 *)
LEMMA QuietStep ==
  ASSUME IInv, TypeOK',
         UNCHANGED <<status, offer, payload, pc, plan, moved, back, apc, target,
                     redelivering>>
  PROVE  IInv'
  BY DEF IInv, OneHome, OfferCarriesLiveOrders, MovedOrdersAreFree, HasHome,
         TargetsAreWaiting, RedeliveredHaveFailed, PlannedIdsAreFresh

-----------------------------------------------------------------------------
(* Intake.                                                                 *)

\* A received order has no home and nobody holds it.
LEMMA IngestStep ==
  ASSUME IInv, NEW o \in Orders, Ingest(o)
  PROVE  IInv'
  <1>1. TypeOK'
    BY DEF Ingest, IInv, TypeOK, OrderStatus
  <1>2. OfferCarriesLiveOrders'
    BY DEF Ingest, IInv, OfferCarriesLiveOrders, OnRouteStatus
  <1>3. MovedOrdersAreFree'
    BY DEF Ingest, IInv, MovedOrdersAreFree, HasHome
  <1>4. TargetsAreWaiting'
    BY DEF Ingest, IInv, TargetsAreWaiting, PLANNABLE
  <1>5. RedeliveredHaveFailed'
    BY DEF Ingest, IInv, RedeliveredHaveFailed
  <1>6. OneHome' /\ PlannedIdsAreFresh'
    BY DEF Ingest, IInv, OneHome, PlannedIdsAreFresh
  <1> QED
    BY <1>1, <1>2, <1>3, <1>4, <1>5, <1>6 DEF IInv

\* Only the queue changes.
LEMMA IngestQueueStep ==
  ASSUME IInv, NEW o \in Orders, IngestQueue(o)
  PROVE  IInv'
  <1>1. TypeOK'
    BY DEF IngestQueue, IInv, TypeOK
  <1> QED
    BY <1>1, QuietStep DEF IngestQueue

\* Nothing but the intake's own note changes.
LEMMA IngestDiesStep ==
  ASSUME IInv, NEW o \in Orders, IngestDies(o)
  PROVE  IInv'
  <1>1. TypeOK'
    BY DEF IngestDies, IInv, TypeOK
  <1> QED
    BY <1>1, QuietStep DEF IngestDies

-----------------------------------------------------------------------------
(* The dispatch cycle.                                                     *)

\* The plan uses only ids that no offer and no other plan uses.
LEMMA CyclePlanStep ==
  ASSUME IInv, NEW c \in Cycles, CyclePlan(c)
  PROVE  IInv'
  <1>1. TypeOK'
    BY DEF CyclePlan, Unused, IInv, TypeOK
  <1>2. MovedOrdersAreFree'
    BY DEF CyclePlan, IInv, MovedOrdersAreFree, HasHome
  <1>3. PlannedIdsAreFresh'
    BY DEF CyclePlan, Unused, IInv, PlannedIdsAreFresh
  <1>4. /\ OneHome' /\ OfferCarriesLiveOrders' /\ TargetsAreWaiting'
        /\ RedeliveredHaveFailed'
    BY DEF CyclePlan, IInv, OneHome, OfferCarriesLiveOrders, TargetsAreWaiting,
       RedeliveredHaveFailed
  <1> QED
    BY <1>1, <1>2, <1>3, <1>4 DEF IInv

\* A plannable order has no home, so the route becomes its only one.
LEMMA CycleInsertStep ==
  ASSUME IInv, NEW c \in Cycles, NEW o \in Orders, NEW f \in Offers,
         CycleInsert(c, o, f)
  PROVE  IInv'
  <1>1. TypeOK'
    BY DEF CycleInsert, RowLocked, IInv, TypeOK, OrderStatus
  <1>2. OneHome'
    <2>1. \A g \in Offers : o \notin payload[g]
      BY WaitingIsFree DEF CycleInsert, PLANNABLE, OnRouteStatus, HasHome
    <2>2. /\ payload'[f] = payload[f] \cup {o}
          /\ \A g \in Offers \ {f} : payload'[g] = payload[g]
      BY DEF CycleInsert, IInv, TypeOK
    <2> QED
      BY <2>1, <2>2 DEF IInv, OneHome
  <1>3. OfferCarriesLiveOrders'
    BY DEF CycleInsert, RowLocked, IInv, TypeOK, OfferCarriesLiveOrders,
       OnRouteStatus
  <1>4. MovedOrdersAreFree'
    BY DEF CycleInsert, RowLocked, IInv, TypeOK, MovedOrdersAreFree, PLANNABLE,
       OnRouteStatus, HasHome
  <1>5. TargetsAreWaiting'
    BY DEF CycleInsert, RowLocked, IInv, TargetsAreWaiting, PLANNABLE
  <1>6. RedeliveredHaveFailed'
    BY DEF CycleInsert, RowLocked, IInv, RedeliveredHaveFailed
  <1>7. PlannedIdsAreFresh'
    BY DEF CycleInsert, IInv, PlannedIdsAreFresh
  <1> QED
    BY <1>1, <1>2, <1>3, <1>4, <1>5, <1>6, <1>7 DEF IInv

\* Only the cycle's list changes.
LEMMA CycleSkipInsertStep ==
  ASSUME IInv, NEW c \in Cycles, NEW o \in Orders, CycleSkipInsert(c, o)
  PROVE  IInv'
  <1>1. TypeOK'
    BY DEF CycleSkipInsert, IInv, TypeOK
  <1> QED
    BY <1>1, QuietStep DEF CycleSkipInsert

\* Only the cycle's list and place change.
LEMMA CycleInsertedStep ==
  ASSUME IInv, NEW c \in Cycles, CycleInserted(c)
  PROVE  IInv'
  <1>1. TypeOK'
    BY DEF CycleInserted, AssignedStopIds, IInv, TypeOK
  <1>2. MovedOrdersAreFree'
    BY DEF CycleInserted, IInv, MovedOrdersAreFree, HasHome
  <1>3. /\ OneHome' /\ OfferCarriesLiveOrders' /\ TargetsAreWaiting'
        /\ RedeliveredHaveFailed' /\ PlannedIdsAreFresh'
    BY DEF CycleInserted, IInv, OneHome, OfferCarriesLiveOrders,
       TargetsAreWaiting, RedeliveredHaveFailed, PlannedIdsAreFresh
  <1> QED
    BY <1>1, <1>2, <1>3 DEF IInv

\* Only the queue and the cycle's list change.
LEMMA CycleDequeueStep ==
  ASSUME IInv, NEW c \in Cycles, NEW o \in Orders, CycleDequeue(c, o)
  PROVE  IInv'
  <1>1. TypeOK'
    BY DEF CycleDequeue, IInv, TypeOK
  <1> QED
    BY <1>1, QuietStep DEF CycleDequeue

\* What the conditional write moves was waiting, so it is nobody else's.
LEMMA CycleWriteStep ==
  ASSUME IInv, NEW c \in Cycles, CycleWrite(c)
  PROVE  IInv'
  <1>1. TypeOK'
    BY DEF CycleWrite, MovedByWrite, AssignedStopIds, RowLocked, IInv, TypeOK,
       OrderStatus
  <1>2. OfferCarriesLiveOrders'
    BY DEF CycleWrite, MovedByWrite, AssignedStopIds, RowLocked, IInv, TypeOK,
       OfferCarriesLiveOrders, OnRouteStatus
  <1>3. MovedOrdersAreFree'
    <2>1. \A o \in MovedByWrite(c) : ~ HasHome(o) /\ \A d \in Cycles : o \notin moved[d]
      BY WaitingIsFree
      DEF MovedByWrite, AssignedStopIds, PLANNABLE, OnRouteStatus, IInv, TypeOK
    <2>2. /\ moved'[c] = MovedByWrite(c) /\ pc'[c] = "written" /\ pc[c] = "dequeue"
          /\ \A d \in Cycles \ {c} : moved'[d] = moved[d] /\ pc'[d] = pc[d]
          /\ MovedByWrite(c) \subseteq Orders
          /\ UNCHANGED <<back, payload>>
      BY DEF CycleWrite, MovedByWrite, AssignedStopIds, IInv, TypeOK
    <2>3. \A o \in Orders :
            status'[o] = IF o \in MovedByWrite(c) THEN "assigned" ELSE status[o]
      BY DEF CycleWrite
    <2>4. \A d \in Cycles : moved[d] \subseteq Orders
      BY DEF IInv, TypeOK
    <2> QED
      BY <2>1, <2>2, <2>3, <2>4 DEF IInv, MovedOrdersAreFree, HasHome
  <1>4. TargetsAreWaiting'
    BY DEF CycleWrite, MovedByWrite, AssignedStopIds, RowLocked, IInv, TypeOK,
       TargetsAreWaiting, PLANNABLE
  <1>5. RedeliveredHaveFailed'
    BY DEF CycleWrite, MovedByWrite, AssignedStopIds, RowLocked, IInv, TypeOK,
       RedeliveredHaveFailed
  <1>6. OneHome' /\ PlannedIdsAreFresh'
    BY DEF CycleWrite, IInv, OneHome, PlannedIdsAreFresh
  <1> QED
    BY <1>1, <1>2, <1>3, <1>4, <1>5, <1>6 DEF IInv

\* What is still assigned stays so: the rows are now locked.
LEMMA CycleLockStillAssignedStep ==
  ASSUME IInv, NEW c \in Cycles, CycleLockStillAssigned(c)
  PROVE  IInv'
  <1>1. TypeOK'
    BY DEF CycleLockStillAssigned, StillAssigned, RowLocked, IInv, TypeOK
  <1>2. MovedOrdersAreFree'
    <2>1. /\ moved'[c] = StillAssigned(c) /\ pc'[c] = "offering" /\ pc[c] = "written"
          /\ \A d \in Cycles \ {c} : moved'[d] = moved[d] /\ pc'[d] = pc[d]
          /\ UNCHANGED <<back, payload, status>>
      BY DEF CycleLockStillAssigned, IInv, TypeOK
    <2>2. StillAssigned(c) \subseteq moved[c] /\ \A o \in StillAssigned(c) : status[o] = "assigned"
      BY DEF StillAssigned
    <2> QED
      BY <2>1, <2>2 DEF IInv, MovedOrdersAreFree, HasHome
  <1>3. /\ OneHome' /\ OfferCarriesLiveOrders' /\ TargetsAreWaiting'
        /\ RedeliveredHaveFailed' /\ PlannedIdsAreFresh'
    BY DEF CycleLockStillAssigned, IInv, OneHome, OfferCarriesLiveOrders,
       TargetsAreWaiting, RedeliveredHaveFailed, PlannedIdsAreFresh
  <1> QED
    BY <1>1, <1>2, <1>3 DEF IInv

\* What goes back is part of what was moved.
LEMMA CycleClaimStep ==
  ASSUME IInv, NEW c \in Cycles, CycleClaim(c)
  PROVE  IInv'
  <1>1. TypeOK'
    BY DEF CycleClaim, IInv, TypeOK
  <1>2. MovedOrdersAreFree'
    BY DEF CycleClaim, IInv, TypeOK, MovedOrdersAreFree, HasHome
  <1>3. /\ OneHome' /\ OfferCarriesLiveOrders' /\ TargetsAreWaiting'
        /\ RedeliveredHaveFailed' /\ PlannedIdsAreFresh'
    BY DEF CycleClaim, IInv, OneHome, OfferCarriesLiveOrders, TargetsAreWaiting,
       RedeliveredHaveFailed, PlannedIdsAreFresh
  <1> QED
    BY <1>1, <1>2, <1>3 DEF IInv

\* The moved orders had no home and the ids were fresh: one home each.
LEMMA CycleCommitStep ==
  ASSUME IInv, NEW c \in Cycles, CycleCommit(c)
  PROVE  IInv'
  <1>0. /\ back[c] \subseteq moved[c] /\ moved[c] \subseteq Orders
        /\ \A o \in moved[c] : ~ HasHome(o) /\ status[o] = "assigned"
    BY DEF CycleCommit, IInv, TypeOK, MovedOrdersAreFree
  <1>1. TypeOK'
    BY DEF CycleCommit, OfferStops, CycleReset, Release, IInv, TypeOK,
       OrderStatus, NoPlan
  <1>2. OneHome'
    BY WaitingIsFree, <1>0 DEF CycleCommit, OfferStops, CycleReset, Release,
       IInv, TypeOK, OneHome, PLANNABLE, OnRouteStatus, HasHome
  <1>3. OfferCarriesLiveOrders'
    <2> SUFFICES ASSUME NEW f \in Offers, NEW o \in payload'[f]
                 PROVE  status'[o] \in IF offer'[f] = "offered" THEN {"assigned"}
                                       ELSE OnRouteStatus
      BY DEF OfferCarriesLiveOrders
    <2>1. CASE OfferStops(c, f) \ back[c] # {}
      BY <1>0, <2>1 DEF CycleCommit, OfferStops
    <2>2. CASE OfferStops(c, f) \ back[c] = {}
      <3>1. o \in payload[f] /\ offer'[f] = offer[f]
        BY <2>2 DEF CycleCommit
      <3>2. o \in Orders /\ o \notin back[c]
        BY <1>0, <3>1 DEF HasHome, IInv, TypeOK
      <3> QED
        BY <3>1, <3>2 DEF CycleCommit, IInv, OfferCarriesLiveOrders
    <2> QED
      BY <2>1, <2>2
  <1>4. MovedOrdersAreFree'
    BY <1>0 DEF CycleCommit, OfferStops, CycleReset, Release, IInv, TypeOK,
       MovedOrdersAreFree, HasHome
  <1>5. TargetsAreWaiting'
    BY <1>0 DEF CycleCommit, OfferStops, CycleReset, Release, IInv, TypeOK,
       TargetsAreWaiting, PLANNABLE
  <1>6. RedeliveredHaveFailed'
    <2>1. \A o \in back[c] : o \notin redelivering
      BY <1>0 DEF IInv, RedeliveredHaveFailed
    <2> QED
      BY <2>1 DEF CycleCommit, IInv, TypeOK, RedeliveredHaveFailed
  <1>7. PlannedIdsAreFresh'
    <2>1. plan'[c] = NoPlan /\ \A d \in Cycles \ {c} : plan'[d] = plan[d]
      BY DEF CycleCommit, CycleReset, IInv, TypeOK
    <2>2. \A d \in Cycles \ {c}, p \in Orders : plan[d][p] # NoOffer =>
            OfferStops(c, plan[d][p]) = {}
      BY DEF OfferStops, IInv, TypeOK, PlannedIdsAreFresh
    <2>3. \A f \in Offers : OfferStops(c, f) = {} => offer'[f] = offer[f]
      BY DEF CycleCommit
    <2>4. \A d \in Cycles, p \in Orders : plan[d][p] \in Offers \cup {NoOffer}
      BY DEF IInv, TypeOK
    <2> QED
      BY <2>1, <2>2, <2>3, <2>4 DEF IInv, PlannedIdsAreFresh, NoPlan
  <1> QED
    BY <1>1, <1>2, <1>3, <1>4, <1>5, <1>6, <1>7 DEF IInv

\* The cycle lets go of its plan.
LEMMA CycleNothingToOfferStep ==
  ASSUME IInv, NEW c \in Cycles, CycleNothingToOffer(c)
  PROVE  IInv'
  <1>1. TypeOK'
    BY DEF CycleNothingToOffer, CycleReset, Release, IInv, TypeOK
  <1>2. MovedOrdersAreFree'
    BY DEF CycleNothingToOffer, CycleReset, Release, IInv, TypeOK,
       MovedOrdersAreFree, HasHome
  <1>3. PlannedIdsAreFresh'
    BY DEF CycleNothingToOffer, CycleReset, Release, IInv, PlannedIdsAreFresh
  <1>4. /\ OneHome' /\ OfferCarriesLiveOrders' /\ TargetsAreWaiting'
        /\ RedeliveredHaveFailed'
    BY DEF CycleNothingToOffer, IInv, OneHome, OfferCarriesLiveOrders,
       TargetsAreWaiting, RedeliveredHaveFailed
  <1> QED
    BY <1>1, <1>2, <1>3, <1>4 DEF IInv

\* The cycle lets go of its plan; what it committed stays.
LEMMA CycleFailsStep ==
  ASSUME IInv, NEW c \in Cycles, CycleFails(c)
  PROVE  IInv'
  <1>1. TypeOK'
    BY DEF CycleFails, CycleReset, Release, IInv, TypeOK, NoPlan
  <1>2. MovedOrdersAreFree'
    BY DEF CycleFails, CycleReset, Release, IInv, TypeOK, MovedOrdersAreFree,
       HasHome
  <1>3. PlannedIdsAreFresh'
    <2>1. /\ plan'[c] = NoPlan /\ \A d \in Cycles \ {c} : plan'[d] = plan[d]
          /\ UNCHANGED offer
      BY DEF CycleFails, CycleReset, IInv, TypeOK
    <2> QED
      BY <2>1 DEF IInv, PlannedIdsAreFresh, NoPlan
  <1>4. /\ OneHome' /\ OfferCarriesLiveOrders' /\ TargetsAreWaiting'
        /\ RedeliveredHaveFailed'
    BY DEF CycleFails, IInv, OneHome, OfferCarriesLiveOrders, TargetsAreWaiting,
       RedeliveredHaveFailed
  <1> QED
    BY <1>1, <1>2, <1>3, <1>4 DEF IInv

-----------------------------------------------------------------------------
(* The assign by hand.                                                     *)

\* The order is waiting, and no other assign holds its row.
LEMMA AssignLockStep ==
  ASSUME IInv, NEW a \in Assigners, NEW o \in Orders, AssignLock(a, o)
  PROVE  IInv'
  <1>1. TypeOK'
    BY DEF AssignLock, RowLocked, IInv, TypeOK
  <1>2. TargetsAreWaiting'
    BY DEF AssignLock, RowLocked, IInv, TypeOK, TargetsAreWaiting, PLANNABLE
  <1>3. /\ OneHome' /\ OfferCarriesLiveOrders' /\ MovedOrdersAreFree'
        /\ RedeliveredHaveFailed' /\ PlannedIdsAreFresh'
    BY DEF AssignLock, IInv, OneHome, OfferCarriesLiveOrders,
       MovedOrdersAreFree, RedeliveredHaveFailed, PlannedIdsAreFresh, HasHome
  <1> QED
    BY <1>1, <1>2, <1>3 DEF IInv

\* The held order was waiting: the new offer is its only home.
LEMMA AssignCommitStep ==
  ASSUME IInv, NEW a \in Assigners, NEW f \in Offers, AssignCommit(a, f)
  PROVE  IInv'
  <1>0. target[a] \in Orders /\ status[target[a]] \in PLANNABLE
    BY DEF AssignCommit, IInv, TypeOK, TargetsAreWaiting
  <1>1. TypeOK'
    BY DEF AssignCommit, Unused, Release, IInv, TypeOK, OrderStatus
  <1>2. OneHome'
    <2>1. \A g \in Offers : target[a] \notin payload[g]
      BY <1>0, WaitingIsFree DEF PLANNABLE, OnRouteStatus, HasHome
    <2>2. payload'[f] = {target[a]} /\ \A g \in Offers \ {f} : payload'[g] = payload[g]
      BY DEF AssignCommit, IInv, TypeOK
    <2> QED
      BY <2>1, <2>2 DEF IInv, OneHome
  <1>3. OfferCarriesLiveOrders'
    BY DEF AssignCommit, Unused, Release, IInv, TypeOK, OfferCarriesLiveOrders,
       OnRouteStatus
  <1>4. MovedOrdersAreFree'
    <2>1. \A c \in Cycles : target[a] \notin moved[c]
      BY <1>0, WaitingIsFree DEF PLANNABLE, OnRouteStatus
    <2>2. /\ \A o \in Orders \ {target[a]} : status'[o] = status[o]
          /\ payload'[f] = {target[a]} /\ \A g \in Offers \ {f} : payload'[g] = payload[g]
          /\ UNCHANGED <<moved, back, pc>>
      BY DEF AssignCommit, IInv, TypeOK
    <2>3. \A c \in Cycles : moved[c] \subseteq Orders
      BY DEF IInv, TypeOK
    <2> QED
      BY <2>1, <2>2, <2>3 DEF IInv, MovedOrdersAreFree, HasHome
  <1>5. TargetsAreWaiting'
    BY DEF AssignCommit, Unused, Release, IInv, TypeOK, TargetsAreWaiting,
       PLANNABLE
  <1>6. RedeliveredHaveFailed'
    <2>1. target[a] \notin redelivering
      BY <1>0 DEF PLANNABLE, IInv, RedeliveredHaveFailed
    <2> QED
      BY <2>1 DEF AssignCommit, IInv, TypeOK, RedeliveredHaveFailed
  <1>7. PlannedIdsAreFresh'
    BY DEF AssignCommit, Unused, Release, IInv, PlannedIdsAreFresh
  <1> QED
    BY <1>1, <1>2, <1>3, <1>4, <1>5, <1>6, <1>7 DEF IInv

\* The assign lets go of the order.
LEMMA AssignRefusedStep ==
  ASSUME IInv, NEW a \in Assigners, AssignRefused(a)
  PROVE  IInv'
  <1>1. TypeOK'
    BY DEF AssignRefused, Release, IInv, TypeOK
  <1>2. TargetsAreWaiting'
    BY DEF AssignRefused, Release, IInv, TypeOK, TargetsAreWaiting, PLANNABLE
  <1>3. /\ OneHome' /\ OfferCarriesLiveOrders' /\ MovedOrdersAreFree'
        /\ RedeliveredHaveFailed' /\ PlannedIdsAreFresh'
    BY DEF AssignRefused, IInv, OneHome, OfferCarriesLiveOrders,
       MovedOrdersAreFree, RedeliveredHaveFailed, PlannedIdsAreFresh, HasHome
  <1> QED
    BY <1>1, <1>2, <1>3 DEF IInv

\* The assign is over; only the queue changes.
LEMMA AssignDequeueStep ==
  ASSUME IInv, NEW a \in Assigners, AssignDequeue(a)
  PROVE  IInv'
  <1>1. TypeOK'
    BY DEF AssignDequeue, IInv, TypeOK
  <1>2. TargetsAreWaiting'
    BY DEF AssignDequeue, IInv, TargetsAreWaiting, PLANNABLE
  <1>3. /\ OneHome' /\ OfferCarriesLiveOrders' /\ MovedOrdersAreFree'
        /\ RedeliveredHaveFailed' /\ PlannedIdsAreFresh'
    BY DEF AssignDequeue, IInv, OneHome, OfferCarriesLiveOrders,
       MovedOrdersAreFree, RedeliveredHaveFailed, PlannedIdsAreFresh, HasHome
  <1> QED
    BY <1>1, <1>2, <1>3 DEF IInv

\* The assign is over.
LEMMA AssignDiesStep ==
  ASSUME IInv, NEW a \in Assigners, AssignDies(a)
  PROVE  IInv'
  <1>1. TypeOK'
    BY DEF AssignDies, IInv, TypeOK
  <1>2. TargetsAreWaiting'
    BY DEF AssignDies, IInv, TargetsAreWaiting, PLANNABLE
  <1>3. /\ OneHome' /\ OfferCarriesLiveOrders' /\ MovedOrdersAreFree'
        /\ RedeliveredHaveFailed' /\ PlannedIdsAreFresh'
    BY DEF AssignDies, IInv, OneHome, OfferCarriesLiveOrders,
       MovedOrdersAreFree, RedeliveredHaveFailed, PlannedIdsAreFresh, HasHome
  <1> QED
    BY <1>1, <1>2, <1>3 DEF IInv

-----------------------------------------------------------------------------
(* Offers answered, and the route.                                         *)

\* The orders of the offer move on together, on the same id.
LEMMA AcceptStep ==
  ASSUME IInv, NEW f \in Offers, Accept(f)
  PROVE  IInv'
  <1>1. TypeOK'
    BY DEF Accept, RowLocked, IInv, TypeOK, OrderStatus
  <1>2. OfferCarriesLiveOrders'
    BY HomedIsTaken DEF Accept, RowLocked, IInv, TypeOK, OfferCarriesLiveOrders,
       PLANNABLE, OnRouteStatus, HasHome
  <1>3. MovedOrdersAreFree'
    BY DEF Accept, RowLocked, IInv, TypeOK, MovedOrdersAreFree, HasHome
  <1>4. TargetsAreWaiting'
    BY DEF Accept, RowLocked, IInv, TypeOK, TargetsAreWaiting, PLANNABLE
  <1>5. RedeliveredHaveFailed'
    BY DEF Accept, RowLocked, IInv, TypeOK, RedeliveredHaveFailed
  <1>6. PlannedIdsAreFresh'
    BY DEF Accept, IInv, PlannedIdsAreFresh
  <1>7. OneHome'
    BY DEF Accept, IInv, OneHome
  <1> QED
    BY <1>1, <1>2, <1>3, <1>4, <1>5, <1>6, <1>7 DEF IInv

\* Only the queue and the note of the withdrawal change.
LEMMA TakeBackStep ==
  ASSUME IInv, NEW f \in Offers, NEW x \in Orders \cup {NoOrder},
         TakeBack(f, x)
  PROVE  IInv'
  <1>1. TypeOK'
    BY DEF TakeBack, RowLocked, Requeued, IInv, TypeOK
  <1> QED
    BY <1>1, QuietStep DEF TakeBack

\* Every order of the offer leaves it.
LEMMA TakeBackCommitStep ==
  ASSUME IInv, NEW f \in Offers, TakeBackCommit(f)
  PROVE  IInv'
  <1>1. TypeOK'
    BY DEF TakeBackCommit, IInv, TypeOK, OrderStatus
  <1>2. OneHome'
    BY DEF TakeBackCommit, IInv, OneHome
  <1>3. OfferCarriesLiveOrders'
    BY HomedIsTaken DEF TakeBackCommit, IInv, TypeOK, OfferCarriesLiveOrders,
       PLANNABLE, OnRouteStatus, HasHome
  <1>4. MovedOrdersAreFree'
    BY DEF TakeBackCommit, IInv, TypeOK, MovedOrdersAreFree, HasHome
  <1>5. TargetsAreWaiting'
    BY DEF TakeBackCommit, IInv, TypeOK, TargetsAreWaiting, PLANNABLE
  <1>6. RedeliveredHaveFailed'
    BY DEF TakeBackCommit, IInv, TypeOK, RedeliveredHaveFailed
  <1>7. PlannedIdsAreFresh'
    BY DEF TakeBackCommit, IInv, PlannedIdsAreFresh
  <1> QED
    BY <1>1, <1>2, <1>3, <1>4, <1>5, <1>6, <1>7 DEF IInv

\* Only the note of the withdrawal changes.
LEMMA TakeBackFailsStep ==
  ASSUME IInv, NEW f \in Offers, TakeBackFails(f)
  PROVE  IInv'
  <1>1. TypeOK'
    BY DEF TakeBackFails, IInv, TypeOK
  <1> QED
    BY <1>1, QuietStep DEF TakeBackFails

\* Orders on a route are held by nobody else.
LEMMA CollectStep ==
  ASSUME IInv, NEW f \in Offers, NEW S \in SUBSET Orders, Collect(f, S)
  PROVE  IInv'
  <1>1. TypeOK'
    BY DEF Collect, IInv, TypeOK, OrderStatus
  <1>2. OfferCarriesLiveOrders'
    BY HomedIsTaken DEF Collect, IInv, TypeOK, OfferCarriesLiveOrders,
       PLANNABLE, OnRouteStatus, HasHome
  <1>3. MovedOrdersAreFree'
    BY DEF Collect, IInv, TypeOK, MovedOrdersAreFree, HasHome
  <1>4. TargetsAreWaiting'
    BY HomedIsTaken DEF Collect, IInv, TypeOK, TargetsAreWaiting, PLANNABLE,
       OnRouteStatus, HasHome
  <1>5. RedeliveredHaveFailed'
    BY DEF Collect, IInv, TypeOK, RedeliveredHaveFailed
  <1>6. OneHome' /\ PlannedIdsAreFresh'
    BY DEF Collect, IInv, OneHome, PlannedIdsAreFresh
  <1> QED
    BY <1>1, <1>2, <1>3, <1>4, <1>5, <1>6 DEF IInv

\* Orders on a route are held by nobody else.
LEMMA DriveToDropStep ==
  ASSUME IInv, NEW f \in Offers, NEW S \in SUBSET Orders, DriveToDrop(f, S)
  PROVE  IInv'
  <1>1. TypeOK'
    BY DEF DriveToDrop, IInv, TypeOK, OrderStatus
  <1>2. OfferCarriesLiveOrders'
    BY DEF DriveToDrop, IInv, TypeOK, OfferCarriesLiveOrders, OnRouteStatus
  <1>3. MovedOrdersAreFree'
    BY DEF DriveToDrop, IInv, TypeOK, MovedOrdersAreFree, HasHome
  <1>4. TargetsAreWaiting'
    BY DEF DriveToDrop, IInv, TypeOK, TargetsAreWaiting, PLANNABLE
  <1>5. RedeliveredHaveFailed'
    BY DEF DriveToDrop, IInv, TypeOK, RedeliveredHaveFailed
  <1>6. OneHome' /\ PlannedIdsAreFresh'
    BY DEF DriveToDrop, IInv, OneHome, PlannedIdsAreFresh
  <1> QED
    BY <1>1, <1>2, <1>3, <1>4, <1>5, <1>6 DEF IInv

\* What is delivered leaves the route.
LEMMA DeliverStep ==
  ASSUME IInv, NEW f \in Offers, NEW S \in SUBSET Orders, Deliver(f, S)
  PROVE  IInv'
  <1>1. TypeOK'
    BY DEF Deliver, LeaveRoute, IInv, TypeOK, OrderStatus
  <1>2. OneHome'
    BY DEF Deliver, LeaveRoute, IInv, OneHome
  <1>3. OfferCarriesLiveOrders'
    BY HomedIsTaken DEF Deliver, LeaveRoute, IInv, TypeOK,
       OfferCarriesLiveOrders, PLANNABLE, OnRouteStatus, HasHome
  <1>4. MovedOrdersAreFree'
    BY DEF Deliver, LeaveRoute, IInv, TypeOK, MovedOrdersAreFree, HasHome
  <1>5. TargetsAreWaiting'
    BY HomedIsTaken DEF Deliver, LeaveRoute, IInv, TypeOK, TargetsAreWaiting,
       PLANNABLE, OnRouteStatus, HasHome
  <1>6. RedeliveredHaveFailed'
    BY HomedIsTaken DEF Deliver, LeaveRoute, IInv, TypeOK,
       RedeliveredHaveFailed, PLANNABLE, OnRouteStatus, HasHome
  <1>7. PlannedIdsAreFresh'
    BY DEF Deliver, LeaveRoute, IInv, PlannedIdsAreFresh
  <1> QED
    BY <1>1, <1>2, <1>3, <1>4, <1>5, <1>6, <1>7 DEF IInv

\* What failed leaves the route.
LEMMA FlagStep ==
  ASSUME IInv, NEW f \in Offers, NEW S \in SUBSET Orders, Flag(f, S)
  PROVE  IInv'
  <1>1. TypeOK'
    BY DEF Flag, LeaveRoute, IInv, TypeOK, OrderStatus
  <1>2. OneHome'
    BY DEF Flag, LeaveRoute, IInv, OneHome
  <1>3. OfferCarriesLiveOrders'
    BY HomedIsTaken DEF Flag, LeaveRoute, IInv, TypeOK, OfferCarriesLiveOrders,
       PLANNABLE, OnRouteStatus, HasHome
  <1>4. MovedOrdersAreFree'
    BY DEF Flag, LeaveRoute, IInv, TypeOK, MovedOrdersAreFree, HasHome
  <1>5. TargetsAreWaiting'
    BY HomedIsTaken DEF Flag, LeaveRoute, IInv, TypeOK, TargetsAreWaiting,
       PLANNABLE, OnRouteStatus, HasHome
  <1>6. RedeliveredHaveFailed'
    BY DEF Flag, LeaveRoute, IInv, TypeOK, RedeliveredHaveFailed
  <1>7. PlannedIdsAreFresh'
    BY DEF Flag, LeaveRoute, IInv, PlannedIdsAreFresh
  <1> QED
    BY <1>1, <1>2, <1>3, <1>4, <1>5, <1>6, <1>7 DEF IInv

-----------------------------------------------------------------------------
(* What a dispatcher and the client do to one order.                       *)

\* A waiting order stays waiting.
LEMMA OverrideStep ==
  ASSUME IInv, NEW o \in Orders, NEW p \in {"held", "queued"}, NEW q \in {"held", "queued"},
         Override(o, p, q)
  PROVE  IInv'
  <1>1. TypeOK'
    BY DEF Override, RowLocked, IInv, TypeOK, OrderStatus
  <1>2. OfferCarriesLiveOrders'
    BY DEF Override, IInv, OfferCarriesLiveOrders, OnRouteStatus
  <1>3. MovedOrdersAreFree'
    BY DEF Override, IInv, MovedOrdersAreFree, HasHome
  <1>4. TargetsAreWaiting'
    BY DEF Override, IInv, TargetsAreWaiting, PLANNABLE
  <1>5. RedeliveredHaveFailed'
    BY DEF Override, IInv, RedeliveredHaveFailed
  <1>6. OneHome' /\ PlannedIdsAreFresh'
    BY DEF Override, IInv, OneHome, PlannedIdsAreFresh
  <1> QED
    BY <1>1, <1>2, <1>3, <1>4, <1>5, <1>6 DEF IInv

\* A waiting order has no home to leave.
LEMMA CancelWaitingStep ==
  ASSUME IInv, NEW o \in Orders, CancelWaiting(o)
  PROVE  IInv'
  <1>1. TypeOK'
    BY DEF CancelWaiting, RowLocked, IInv, TypeOK, OrderStatus
  <1>2. OfferCarriesLiveOrders'
    <2>1. \A f \in Offers : o \notin payload[f]
      BY WaitingIsFree DEF CancelWaiting, PLANNABLE, OnRouteStatus, HasHome
    <2> QED
      BY <2>1 DEF CancelWaiting, IInv, TypeOK, OfferCarriesLiveOrders
  <1>3. MovedOrdersAreFree'
    BY DEF CancelWaiting, RowLocked, IInv, MovedOrdersAreFree, HasHome
  <1>4. TargetsAreWaiting'
    BY DEF CancelWaiting, RowLocked, IInv, TargetsAreWaiting, PLANNABLE
  <1>5. RedeliveredHaveFailed'
    BY DEF CancelWaiting, RowLocked, IInv, RedeliveredHaveFailed
  <1>6. OneHome' /\ PlannedIdsAreFresh'
    BY DEF CancelWaiting, IInv, OneHome, PlannedIdsAreFresh
  <1> QED
    BY <1>1, <1>2, <1>3, <1>4, <1>5, <1>6 DEF IInv

\* The order leaves its route, its only home.
LEMMA CancelOnRouteStep ==
  ASSUME IInv, NEW o \in Orders, NEW f \in Offers, CancelOnRoute(o, f)
  PROVE  IInv'
  <1>1. TypeOK'
    BY DEF CancelOnRoute, LeaveRoute, IInv, TypeOK, OrderStatus
  <1>2. OneHome'
    BY DEF CancelOnRoute, LeaveRoute, IInv, OneHome
  <1>3. OfferCarriesLiveOrders'
    BY HomedIsTaken DEF CancelOnRoute, LeaveRoute, IInv, TypeOK,
       OfferCarriesLiveOrders, PLANNABLE, OnRouteStatus, HasHome
  <1>4. MovedOrdersAreFree'
    BY DEF CancelOnRoute, LeaveRoute, IInv, MovedOrdersAreFree, HasHome
  <1>5. TargetsAreWaiting'
    BY HomedIsTaken DEF CancelOnRoute, LeaveRoute, IInv, TypeOK,
       TargetsAreWaiting, PLANNABLE, OnRouteStatus, HasHome
  <1>6. RedeliveredHaveFailed'
    BY HomedIsTaken DEF CancelOnRoute, LeaveRoute, IInv, TypeOK,
       RedeliveredHaveFailed, PLANNABLE, OnRouteStatus, HasHome
  <1>7. PlannedIdsAreFresh'
    BY DEF CancelOnRoute, LeaveRoute, IInv, PlannedIdsAreFresh
  <1> QED
    BY <1>1, <1>2, <1>3, <1>4, <1>5, <1>6, <1>7 DEF IInv

\* The order has no home, and no cycle has its row.
LEMMA CancelNowhereStep ==
  ASSUME IInv, NEW o \in Orders, CancelNowhere(o)
  PROVE  IInv'
  <1>1. TypeOK'
    BY DEF CancelNowhere, RowLocked, IInv, TypeOK, OrderStatus
  <1>2. OfferCarriesLiveOrders'
    BY DEF CancelNowhere, RowLocked, IInv, TypeOK, OfferCarriesLiveOrders,
       PLANNABLE, OnRouteStatus, HasHome
  <1>3. MovedOrdersAreFree'
    BY DEF CancelNowhere, RowLocked, IInv, MovedOrdersAreFree, HasHome
  <1>4. TargetsAreWaiting'
    BY DEF CancelNowhere, IInv, TargetsAreWaiting, PLANNABLE
  <1>5. RedeliveredHaveFailed'
    BY DEF CancelNowhere, IInv, RedeliveredHaveFailed
  <1>6. OneHome' /\ PlannedIdsAreFresh'
    BY DEF CancelNowhere, IInv, OneHome, PlannedIdsAreFresh
  <1> QED
    BY <1>1, <1>2, <1>3, <1>4, <1>5, <1>6 DEF IInv

\* The order has failed, and its row is held from now on.
LEMMA RedeliverStep ==
  ASSUME IInv, NEW o \in Orders, Redeliver(o)
  PROVE  IInv'
  <1>1. TypeOK'
    BY DEF Redeliver, RowLocked, IInv, TypeOK
  <1>2. RedeliveredHaveFailed'
    BY DEF Redeliver, IInv, RedeliveredHaveFailed
  <1>3. /\ OneHome' /\ OfferCarriesLiveOrders' /\ MovedOrdersAreFree'
        /\ TargetsAreWaiting' /\ PlannedIdsAreFresh'
    BY DEF Redeliver, IInv, OneHome, OfferCarriesLiveOrders, MovedOrdersAreFree,
       TargetsAreWaiting, PlannedIdsAreFresh, HasHome
  <1> QED
    BY <1>1, <1>2, <1>3 DEF IInv

\* A failed order has no home and no cycle has it.
LEMMA RedeliverCommitStep ==
  ASSUME IInv, NEW o \in Orders, RedeliverCommit(o)
  PROVE  IInv'
  <1>1. TypeOK'
    BY DEF RedeliverCommit, IInv, TypeOK, OrderStatus
  <1>2. OfferCarriesLiveOrders'
    <2>1. \A f \in Offers : o \notin payload[f]
      BY WaitingIsFree
      DEF RedeliverCommit, IInv, RedeliveredHaveFailed, OnRouteStatus, HasHome, TypeOK
    <2> QED
      BY <2>1 DEF RedeliverCommit, IInv, TypeOK, OfferCarriesLiveOrders
  <1>3. MovedOrdersAreFree'
    <2>1. \A c \in Cycles : o \notin moved[c]
      BY WaitingIsFree DEF RedeliverCommit, IInv, RedeliveredHaveFailed, OnRouteStatus
    <2> QED
      BY <2>1 DEF RedeliverCommit, IInv, TypeOK, MovedOrdersAreFree, HasHome
  <1>4. TargetsAreWaiting'
    BY DEF RedeliverCommit, IInv, TargetsAreWaiting, PLANNABLE
  <1>5. RedeliveredHaveFailed'
    BY DEF RedeliverCommit, IInv, RedeliveredHaveFailed
  <1>6. OneHome' /\ PlannedIdsAreFresh'
    BY DEF RedeliverCommit, IInv, OneHome, PlannedIdsAreFresh
  <1> QED
    BY <1>1, <1>2, <1>3, <1>4, <1>5, <1>6 DEF IInv

\* The redelivery lets go of the row.
LEMMA RedeliverFailsStep ==
  ASSUME IInv, NEW o \in Orders, RedeliverFails(o)
  PROVE  IInv'
  <1>1. TypeOK'
    BY DEF RedeliverFails, IInv, TypeOK
  <1>2. RedeliveredHaveFailed'
    BY DEF RedeliverFails, IInv, RedeliveredHaveFailed
  <1>3. /\ OneHome' /\ OfferCarriesLiveOrders' /\ MovedOrdersAreFree'
        /\ TargetsAreWaiting' /\ PlannedIdsAreFresh'
    BY DEF RedeliverFails, IInv, OneHome, OfferCarriesLiveOrders,
       MovedOrdersAreFree, TargetsAreWaiting, PlannedIdsAreFresh, HasHome
  <1> QED
    BY <1>1, <1>2, <1>3 DEF IInv

\* A failed order has no home.
LEMMA CloseFailedStep ==
  ASSUME IInv, NEW o \in Orders, NEW r \in {"returned", "cancelled"},
         CloseFailed(o, r)
  PROVE  IInv'
  <1>1. TypeOK'
    BY DEF CloseFailed, RowLocked, IInv, TypeOK, OrderStatus
  <1>2. OfferCarriesLiveOrders'
    BY DEF CloseFailed, IInv, OfferCarriesLiveOrders, OnRouteStatus
  <1>3. MovedOrdersAreFree'
    BY DEF CloseFailed, IInv, MovedOrdersAreFree, HasHome
  <1>4. TargetsAreWaiting'
    BY DEF CloseFailed, IInv, TargetsAreWaiting, PLANNABLE
  <1>5. RedeliveredHaveFailed'
    BY DEF CloseFailed, RowLocked, IInv, RedeliveredHaveFailed
  <1>6. OneHome' /\ PlannedIdsAreFresh'
    BY DEF CloseFailed, IInv, OneHome, PlannedIdsAreFresh
  <1> QED
    BY <1>1, <1>2, <1>3, <1>4, <1>5, <1>6 DEF IInv

-----------------------------------------------------------------------------
(* The sweep, the rebuild and the faults.                                  *)

\* A stranded order has no home, and no cycle has it.
LEMMA ReturnStrandedStep ==
  ASSUME IInv, NEW S \in SUBSET Orders, ReturnStranded(S)
  PROVE  IInv'
  <1>1. TypeOK'
    BY DEF ReturnStranded, Stranded, RowLocked, IInv, TypeOK, OrderStatus
  <1>2. OfferCarriesLiveOrders'
    BY DEF ReturnStranded, Stranded, RowLocked, IInv, TypeOK,
       OfferCarriesLiveOrders, PLANNABLE, OnRouteStatus, HasHome
  <1>3. MovedOrdersAreFree'
    BY DEF ReturnStranded, Stranded, RowLocked, IInv, TypeOK,
       MovedOrdersAreFree, HasHome
  <1>4. TargetsAreWaiting'
    BY DEF ReturnStranded, Stranded, RowLocked, IInv, TypeOK, TargetsAreWaiting,
       PLANNABLE
  <1>5. RedeliveredHaveFailed'
    BY DEF ReturnStranded, Stranded, RowLocked, IInv, TypeOK,
       RedeliveredHaveFailed
  <1>6. OneHome' /\ PlannedIdsAreFresh'
    BY DEF ReturnStranded, IInv, OneHome, PlannedIdsAreFresh
  <1> QED
    BY <1>1, <1>2, <1>3, <1>4, <1>5, <1>6 DEF IInv

\* Only the queue changes.
LEMMA ReturnStrandedFailsStep ==
  ASSUME IInv, NEW S \in SUBSET Orders, ReturnStrandedFails(S)
  PROVE  IInv'
  <1>1. TypeOK'
    BY DEF ReturnStrandedFails, Stranded, IInv, TypeOK
  <1> QED
    BY <1>1, QuietStep DEF ReturnStrandedFails

\* Only the rebuild's reading and the lock change.
LEMMA RebuildReadStep ==
  ASSUME IInv, RebuildRead
  PROVE  IInv'
  <1>1. TypeOK'
    BY DEF RebuildRead, Missing, IInv, TypeOK
  <1> QED
    BY <1>1, QuietStep DEF RebuildRead

\* Only the queue and the lock change.
LEMMA RebuildWriteStep ==
  ASSUME IInv, RebuildWrite
  PROVE  IInv'
  <1>1. TypeOK'
    BY DEF RebuildWrite, Release, IInv, TypeOK
  <1> QED
    BY <1>1, QuietStep DEF RebuildWrite

\* Only the queue and the lock change.
LEMMA FlushStep ==
  ASSUME IInv, Flush
  PROVE  IInv'
  <1>1. TypeOK'
    BY DEF Flush, IInv, TypeOK
  <1> QED
    BY <1>1, QuietStep DEF Flush

\* Only the lock changes.
LEMMA LeaseExpiresStep ==
  ASSUME IInv, LeaseExpires
  PROVE  IInv'
  <1>1. TypeOK'
    BY DEF LeaseExpires, IInv, TypeOK
  <1> QED
    BY <1>1, QuietStep DEF LeaseExpires

(* The invariant holds at the start.                                       *)
LEMMA InvInit == Init => IInv
  <1> SUFFICES ASSUME Init PROVE IInv
    OBVIOUS
  <1>1. TypeOK
    BY DEF Init, TypeOK, NoPlan, OrderStatus
  <1>2. OneHome /\ OfferCarriesLiveOrders /\ MovedOrdersAreFree
    BY DEF Init, OneHome, OfferCarriesLiveOrders, MovedOrdersAreFree
  <1>3. TargetsAreWaiting /\ RedeliveredHaveFailed /\ PlannedIdsAreFresh
    BY DEF Init, TargetsAreWaiting, RedeliveredHaveFailed, PlannedIdsAreFresh, NoPlan
  <1> QED
    BY <1>1, <1>2, <1>3 DEF IInv

(* Every step keeps the invariant.                                         *)
LEMMA InvStep ==
  ASSUME IInv, [Next]_vars
  PROVE  IInv'
  <1>1. ASSUME NEW c \in Cycles, CycleStep(c)
        PROVE  IInv'
    BY <1>1, CyclePlanStep, CycleInsertStep, CycleSkipInsertStep, CycleInsertedStep,
       CycleDequeueStep, CycleWriteStep, CycleLockStillAssignedStep, CycleClaimStep,
       CycleCommitStep, CycleNothingToOfferStep, CycleFailsStep
    DEF CycleStep
  <1>2. ASSUME NEW a \in Assigners, AssignStep(a)
        PROVE  IInv'
    BY <1>2, AssignLockStep, AssignCommitStep, AssignRefusedStep, AssignDequeueStep,
       AssignDiesStep
    DEF AssignStep
  <1>3. ASSUME NEW f \in Offers, OfferStep(f)
        PROVE  IInv'
    BY <1>3, AcceptStep, TakeBackStep, TakeBackCommitStep, TakeBackFailsStep,
       CollectStep, DriveToDropStep, DeliverStep, FlagStep
    DEF OfferStep
  <1>4. ASSUME NEW o \in Orders, OrderStep(o)
        PROVE  IInv'
    BY <1>4, IngestStep, IngestQueueStep, IngestDiesStep, OverrideStep,
       CancelWaitingStep, CancelOnRouteStep, CancelNowhereStep, RedeliverStep,
       RedeliverCommitStep, RedeliverFailsStep, CloseFailedStep
    DEF OrderStep
  <1>5. CASE SystemStep
    BY <1>5, ReturnStrandedStep, ReturnStrandedFailsStep, RebuildReadStep,
       RebuildWriteStep, FlushStep, LeaseExpiresStep
    DEF SystemStep
  <1>6. CASE UNCHANGED vars
    <2>1. TypeOK'
      BY <1>6 DEF vars, IInv, TypeOK
    <2> QED
      BY <1>6, <2>1, QuietStep DEF vars
  <1> QED
    BY <1>1, <1>2, <1>3, <1>4, <1>5, <1>6 DEF Next

(* ... and so always.                                                      *)
LEMMA InvHolds == Spec => []IInv
  BY InvInit, InvStep, PTL DEF Spec

(* Type correctness.                                                       *)
THEOREM TypeCorrect == Spec => []TypeOK
  <1>1. IInv => TypeOK
    BY DEF IInv
  <1> QED
    BY <1>1, InvHolds, PTL

(* No order is ever given to two drivers: it is on at most one open offer  *)
(* or live route, with any number of cycles at once (expired leases), any  *)
(* crash and any flush.                                                    *)
THEOREM NeverTwoDrivers == Spec => []OneHome
  <1>1. IInv => OneHome
    BY DEF IInv
  <1> QED
    BY <1>1, InvHolds, PTL

(* Nothing cancelled, sent back or finished stays on the work of a driver. *)
THEOREM NoDeadWork == Spec => []OfferCarriesLiveOrders
  <1>1. IInv => OfferCarriesLiveOrders
    BY DEF IInv
  <1> QED
    BY <1>1, InvHolds, PTL

(* The moves of the lifecycle that the writers of this module make.        *)
LEMMA TableMoves ==
  /\ Lifecycle!LegalMove("received", "held")
  /\ \A s \in PLANNABLE : /\ Lifecycle!LegalMove(s, "assigned")
                          /\ Lifecycle!LegalMove(s, "cancelled")
  /\ Lifecycle!LegalMove("held", "queued") /\ Lifecycle!LegalMove("queued", "held")
  /\ Lifecycle!LegalMove("assigned", "held")
  /\ Lifecycle!LegalMove("assigned", "en_route_pickup")
  /\ \A s \in LIVE_CANCELLABLE : /\ Lifecycle!LegalMove(s, "picked_up")
                                 /\ Lifecycle!LegalMove(s, "cancelled")
  /\ Lifecycle!LegalMove("picked_up", "en_route_drop")
  /\ \A s \in {"picked_up", "en_route_drop"} : Lifecycle!LegalMove(s, "delivered")
  /\ \A s \in OnRouteStatus : Lifecycle!LegalMove(s, "delivery_failed")
  /\ \A s \in {"held", "returned", "cancelled"} :
       Lifecycle!LegalMove("delivery_failed", s)
  BY DEF Lifecycle!LegalMove, Lifecycle!Requeued, Lifecycle!allowed_next,
     Lifecycle!TERMINAL, Lifecycle!Forward, Lifecycle!AlwaysAvailable,
     PLANNABLE, LIVE_CANCELLABLE, OnRouteStatus

\* Every order keeps its status, or makes a move of the lifecycle.
MovesLegally ==
  \A o \in Orders : status'[o] = status[o] \/ Lifecycle!LegalMove(status[o], status'[o])

(* A cycle writes `assigned` over waiting orders and `held` over what it   *)
(* has locked.                                                             *)
LEMMA CycleMovesLegally ==
  ASSUME IInv, NEW c \in Cycles, CycleStep(c)
  PROVE  MovesLegally
  <1>1. ASSUME NEW o \in Orders, NEW f \in Offers, CycleInsert(c, o, f)
        PROVE  MovesLegally
    BY <1>1, TableMoves DEF CycleInsert, IInv, TypeOK, MovesLegally
  <1>2. CASE CycleWrite(c)
    BY <1>2, TableMoves DEF CycleWrite, MovedByWrite, MovesLegally
  <1>3. CASE CycleCommit(c)
    <2>1. \A o \in back[c] : status[o] = "assigned"
      BY <1>3 DEF CycleCommit, IInv, MovedOrdersAreFree
    <2> QED
      BY <1>3, <2>1, TableMoves DEF CycleCommit, MovesLegally
  <1>4. CASE UNCHANGED status
    BY <1>4 DEF MovesLegally
  <1> QED
    BY <1>1, <1>2, <1>3, <1>4 DEF CycleStep, CyclePlan, CycleSkipInsert, CycleInserted,
       CycleDequeue, CycleLockStillAssigned, CycleClaim, CycleNothingToOffer, CycleFails

\* The order an assign holds has not moved since it was locked.
LEMMA AssignMovesLegally ==
  ASSUME IInv, NEW a \in Assigners, AssignStep(a)
  PROVE  MovesLegally
  <1>1. ASSUME NEW f \in Offers, AssignCommit(a, f)
        PROVE  MovesLegally
    <2>1. target[a] \in Orders /\ status[target[a]] \in PLANNABLE
      BY <1>1 DEF AssignCommit, IInv, TypeOK, TargetsAreWaiting
    <2> QED
      BY <1>1, <2>1, TableMoves DEF AssignCommit, IInv, TypeOK, MovesLegally
  <1>2. CASE UNCHANGED status
    BY <1>2 DEF MovesLegally
  <1> QED
    BY <1>1, <1>2 DEF AssignStep, AssignLock, AssignRefused, AssignDequeue, AssignDies

(* What is on an offer or a route is live, so an answer or a tap finds it  *)
(* where the table lets it go on.                                          *)
LEMMA OfferMovesLegally ==
  ASSUME IInv, NEW f \in Offers, OfferStep(f)
  PROVE  MovesLegally
  <1>1. CASE Accept(f)
    BY <1>1, TableMoves DEF Accept, MovesLegally
  <1>2. CASE TakeBackCommit(f)
    BY <1>2, TableMoves DEF TakeBackCommit, MovesLegally, LIVE_CANCELLABLE
  <1>3. ASSUME NEW S \in SUBSET Orders, Collect(f, S)
        PROVE  MovesLegally
    BY <1>3, TableMoves DEF Collect, MovesLegally, LIVE_CANCELLABLE
  <1>4. ASSUME NEW S \in SUBSET Orders, DriveToDrop(f, S)
        PROVE  MovesLegally
    BY <1>4, TableMoves DEF DriveToDrop, MovesLegally
  <1>5. ASSUME NEW S \in SUBSET Orders, Deliver(f, S)
        PROVE  MovesLegally
    BY <1>5, TableMoves DEF Deliver, MovesLegally
  <1>6. ASSUME NEW S \in SUBSET Orders, Flag(f, S)
        PROVE  MovesLegally
    <2>1. \A o \in S : status[o] \in OnRouteStatus
      BY <1>6 DEF Flag, IInv, OfferCarriesLiveOrders
    <2> QED
      BY <1>6, <2>1, TableMoves DEF Flag, MovesLegally
  <1>7. CASE UNCHANGED status
    BY <1>7 DEF MovesLegally
  <1> QED
    BY <1>1, <1>2, <1>3, <1>4, <1>5, <1>6, <1>7 DEF OfferStep, TakeBack, TakeBackFails

\* A person's write to one order, from the status the handler checked.
LEMMA OrderMovesLegally ==
  ASSUME IInv, NEW o \in Orders, OrderStep(o)
  PROVE  MovesLegally
  <1>1. CASE status' = [status EXCEPT ![o] = "held"] /\ status[o] \in {"received", "queued"}
    BY <1>1, TableMoves DEF MovesLegally, IInv, TypeOK
  <1>2. CASE Override(o, "held", "queued")
    BY <1>2, TableMoves DEF Override, MovesLegally, IInv, TypeOK
  <1>3. CASE CancelWaiting(o) \/ CancelNowhere(o) \/ \E f \in Offers : CancelOnRoute(o, f)
    BY <1>3, TableMoves DEF CancelWaiting, CancelNowhere, CancelOnRoute, MovesLegally,
       IInv, TypeOK, LIVE_CANCELLABLE
  <1>4. CASE RedeliverCommit(o)
    BY <1>4, TableMoves
    DEF RedeliverCommit, MovesLegally, IInv, TypeOK, RedeliveredHaveFailed
  <1>5. CASE CloseFailed(o, "returned") \/ CloseFailed(o, "cancelled")
    BY <1>5, TableMoves DEF CloseFailed, MovesLegally, IInv, TypeOK
  <1>6. CASE UNCHANGED status
    BY <1>6 DEF MovesLegally
  <1> QED
    BY <1>1, <1>2, <1>3, <1>4, <1>5, <1>6 DEF OrderStep, Ingest, IngestQueue, IngestDies,
       Override, Redeliver, RedeliverFails

\* The sweep writes only what it found `assigned`; the rebuild writes no row.
LEMMA SystemMovesLegally ==
  ASSUME SystemStep
  PROVE  MovesLegally
  <1>1. ASSUME NEW S \in SUBSET Orders, ReturnStranded(S)
        PROVE  MovesLegally
    BY <1>1, TableMoves DEF ReturnStranded, Stranded, MovesLegally
  <1>2. CASE UNCHANGED status
    BY <1>2 DEF MovesLegally
  <1> QED
    BY <1>1, <1>2 DEF SystemStep, ReturnStrandedFails, RebuildRead, RebuildWrite,
       Flush, LeaseExpires

(* Dispatch implements the order lifecycle: whatever cycles, hand assigns, *)
(* answers, cancels, redeliveries, sweeps, crashes and expired leases      *)
(* interleave, a committed status only moves along the state machine's     *)
(* table, or back from `assigned` to `held` with the offer taken back.     *)
THEOREM DispatchFollowsLifecycle == Spec => FollowsLifecycle
  <1>1. Init => Lifecycle!Init
    BY DEF Init, Lifecycle!Init, Lifecycle!OrderStatus
  <1>2. IInv /\ IInv' /\ [Next]_vars => [Lifecycle!Next]_status
    <2> SUFFICES ASSUME IInv, IInv', Next
                 PROVE  Lifecycle!Next
      BY DEF vars
    <2>1. status' \in [Orders -> Lifecycle!OrderStatus]
      BY DEF IInv, TypeOK, OrderStatus, Lifecycle!OrderStatus
    <2>2. MovesLegally
      BY CycleMovesLegally, AssignMovesLegally, OfferMovesLegally,
         OrderMovesLegally, SystemMovesLegally DEF Next
    <2> QED
      BY <2>1, <2>2 DEF Lifecycle!Next, MovesLegally
  <1> QED
    BY <1>1, <1>2, InvHolds, PTL DEF Spec, FollowsLifecycle, Lifecycle!Spec

-----------------------------------------------------------------------------
(***************************************************************************)
(* An `assigned` order is somebody's.  A crashed cycle leaves orders       *)
(* behind, and so does one that moves again an order it inserted into a    *)
(* route before (both are the sweep's to find); without these, every move  *)
(* to `assigned` ends on an offer, with any number of cycles, dispatchers, *)
(* flushes and expired leases.                                             *)
(***************************************************************************)
NothingStrands == ~ InFlightInsertion /\ "crash" \notin Faults

\* A cycle moves, once, only what its plan gives to a driver.
MovedWerePlanned ==
  \A c \in Cycles :
    /\ inserted[c] = {}
    /\ \A o \in moved[c] : plan[c][o] # NoOffer
    /\ pc[c] \in {"insert", "dequeue"} => moved[c] = {}

HolderInv == MovedWerePlanned /\ AssignedIsSomebodys

\* A step that writes neither offers nor what cycles moved, and assigns nothing.
LEMMA HolderKept ==
  ASSUME HolderInv, UNCHANGED <<payload, pc, plan, inserted, moved>>,
         \A o \in Orders : status'[o] = status[o] \/ status'[o] # "assigned"
  PROVE  HolderInv'
  BY DEF HolderInv, MovedWerePlanned, AssignedIsSomebodys, HasHome

(* A cycle: the write's orders are moved, the commit's offered or sent     *)
(* back.                                                                   *)
LEMMA CycleHolder ==
  ASSUME NothingStrands, IInv, HolderInv, NEW c \in Cycles, CycleStep(c)
  PROVE  HolderInv'
  <1>1. CASE CyclePlan(c)
    BY <1>1 DEF CyclePlan, IInv, TypeOK, HolderInv, MovedWerePlanned,
                AssignedIsSomebodys, HasHome
  <1>2. CASE \/ \E o \in Orders : CycleSkipInsert(c, o) \/ CycleDequeue(c, o)
             \/ CycleInserted(c) \/ CycleClaim(c)
    <2>1. UNCHANGED <<payload, status, plan, inserted, moved>>
      BY <1>2 DEF CycleSkipInsert, CycleDequeue, CycleInserted, CycleClaim
    <2>2. \A d \in Cycles : pc'[d] \in {"insert", "dequeue"} => pc[d] \in {"insert", "dequeue"}
      BY <1>2 DEF CycleSkipInsert, CycleDequeue, CycleInserted, CycleClaim, IInv, TypeOK
    <2> QED
      BY <2>1, <2>2 DEF HolderInv, MovedWerePlanned, AssignedIsSomebodys, HasHome
  <1>3. CASE CycleWrite(c)
    <2>1. /\ moved'[c] = MovedByWrite(c) /\ moved[c] = {}
          /\ \A d \in Cycles \ {c} : moved'[d] = moved[d]
          /\ UNCHANGED <<payload, plan, inserted>>
      BY <1>3 DEF CycleWrite, IInv, TypeOK, HolderInv, MovedWerePlanned
    <2>2. \A o \in MovedByWrite(c) : plan[c][o] # NoOffer
      BY DEF MovedByWrite, AssignedStopIds, HolderInv, MovedWerePlanned
    <2>3. MovedWerePlanned'
      BY <1>3, <2>1, <2>2 DEF CycleWrite, IInv, TypeOK, HolderInv, MovedWerePlanned
    <2>4. AssignedIsSomebodys'
      BY <1>3, <2>1 DEF CycleWrite, HolderInv, AssignedIsSomebodys, HasHome
    <2> QED
      BY <2>3, <2>4 DEF HolderInv
  <1>4. CASE CycleLockStillAssigned(c)
    BY <1>4 DEF CycleLockStillAssigned, StillAssigned, IInv, TypeOK, HolderInv,
                MovedWerePlanned, AssignedIsSomebodys, HasHome
  <1>5. CASE CycleNothingToOffer(c)
    <2>1. moved[c] = {}
      BY <1>5 DEF CycleNothingToOffer, NoPlan, IInv, TypeOK, HolderInv, MovedWerePlanned
    <2> QED
      BY <1>5, <2>1 DEF CycleNothingToOffer, CycleReset, IInv, TypeOK, HolderInv,
                        MovedWerePlanned, AssignedIsSomebodys, HasHome
  <1>6. CASE CycleCommit(c)
    <2>1. /\ moved'[c] = {} /\ inserted'[c] = {}
          /\ \A d \in Cycles \ {c} : /\ moved'[d] = moved[d] /\ plan'[d] = plan[d]
                                     /\ inserted'[d] = inserted[d] /\ pc'[d] = pc[d]
      BY <1>6 DEF CycleCommit, CycleReset, IInv, TypeOK
    <2>2. MovedWerePlanned'
      BY <2>1 DEF HolderInv, MovedWerePlanned
    <2>3. ASSUME NEW o \in Orders, status'[o] = "assigned"
          PROVE  (HasHome(o) \/ \E d \in Cycles : o \in moved[d])'
      <3>1. o \notin back[c] /\ status[o] = "assigned"
        BY <1>6, <2>3 DEF CycleCommit
      <3>2. CASE o \in moved[c]
        <4>1. plan[c][o] \in Offers
          BY <3>2 DEF IInv, TypeOK, HolderInv, MovedWerePlanned
        <4>2. o \in payload'[plan[c][o]]
          BY <1>6, <3>1, <3>2, <4>1 DEF CycleCommit, OfferStops
        <4> QED
          BY <4>1, <4>2 DEF HasHome
      <3>3. CASE \E d \in Cycles : d # c /\ o \in moved[d]
        BY <2>1, <3>3
      <3>4. CASE HasHome(o)
        <4>1. PICK f \in Offers : o \in payload[f]
          BY <3>4 DEF HasHome
        <4>2. OfferStops(c, f) = {}
          BY <4>1 DEF OfferStops, IInv, TypeOK, PlannedIdsAreFresh, HolderInv,
                      MovedWerePlanned
        <4>3. payload'[f] = payload[f]
          BY <1>6, <4>2 DEF CycleCommit
        <4> QED
          BY <4>1, <4>3 DEF HasHome
      <3> QED
        BY <3>1, <3>2, <3>3, <3>4 DEF HolderInv, AssignedIsSomebodys
    <2> QED
      BY <2>2, <2>3 DEF HolderInv, AssignedIsSomebodys
  <1> QED
    BY <1>1, <1>2, <1>3, <1>4, <1>5, <1>6
    DEF CycleStep, CycleInsert, CycleFails, NothingStrands

\* An assign by hand commits the status and the offer together.
LEMMA AssignHolder ==
  ASSUME NothingStrands, IInv, HolderInv, NEW a \in Assigners, AssignStep(a)
  PROVE  HolderInv'
  <1>1. ASSUME NEW f \in Offers, AssignCommit(a, f)
        PROVE  HolderInv'
    <2>1. target[a] \in Orders /\ payload[f] = {} /\ payload'[f] = {target[a]}
      BY <1>1 DEF AssignCommit, Unused, IInv, TypeOK
    <2>2. \A g \in Offers \ {f} : payload'[g] = payload[g]
      BY <1>1 DEF AssignCommit, IInv, TypeOK
    <2>3. \A o \in Orders \ {target[a]} : status'[o] = status[o]
      BY <1>1 DEF AssignCommit, IInv, TypeOK
    <2>4. UNCHANGED <<pc, plan, inserted, moved>>
      BY <1>1 DEF AssignCommit
    <2> QED
      BY <2>1, <2>2, <2>3, <2>4 DEF HolderInv, MovedWerePlanned, AssignedIsSomebodys,
                                    HasHome
  <1>2. CASE UNCHANGED <<payload, pc, plan, inserted, moved, status>>
    BY <1>2, HolderKept
  <1> QED
    BY <1>1, <1>2 DEF AssignStep, AssignLock, AssignRefused, AssignDequeue, AssignDies

\* What leaves an offer or a route is no longer `assigned`.
LEMMA HolderLeaves ==
  ASSUME IInv, HolderInv, UNCHANGED <<pc, plan, inserted, moved>>, NEW f \in Offers,
         NEW S \in SUBSET Orders, payload' = [payload EXCEPT ![f] = @ \ S],
         \A o \in Orders : status'[o] = status[o] \/ status'[o] # "assigned",
         \A o \in S : status'[o] # "assigned"
  PROVE  HolderInv'
  <1>1. ASSUME NEW o \in Orders, status'[o] = "assigned"
        PROVE  (HasHome(o) \/ \E d \in Cycles : o \in moved[d])'
    <2>1. o \notin S /\ status[o] = "assigned"
      BY <1>1
    <2>2. HasHome(o) => HasHome(o)'
      BY <2>1 DEF HasHome, IInv, TypeOK
    <2> QED
      BY <2>1, <2>2 DEF HolderInv, AssignedIsSomebodys
  <1> QED
    BY <1>1 DEF HolderInv, MovedWerePlanned, AssignedIsSomebodys

\* Answers and taps.
LEMMA OfferHolder ==
  ASSUME NothingStrands, IInv, HolderInv, NEW f \in Offers, OfferStep(f)
  PROVE  HolderInv'
  <1>1. CASE Accept(f) \/ \E S \in SUBSET Orders : Collect(f, S) \/ DriveToDrop(f, S)
    BY <1>1, HolderKept DEF Accept, Collect, DriveToDrop
  <1>2. CASE TakeBackCommit(f)
    <2>1. payload' = [payload EXCEPT ![f] = @ \ payload[f]] /\ payload[f] \in SUBSET Orders
      BY <1>2 DEF TakeBackCommit, IInv, TypeOK
    <2>2. /\ \A o \in Orders : status'[o] = status[o] \/ status'[o] # "assigned"
          /\ \A o \in payload[f] : status'[o] # "assigned"
          /\ UNCHANGED <<pc, plan, inserted, moved>>
      BY <1>2, <2>1 DEF TakeBackCommit
    <2> QED
      BY <2>1, <2>2, HolderLeaves
  <1>3. ASSUME NEW S \in SUBSET Orders, Deliver(f, S) \/ Flag(f, S)
        PROVE  HolderInv'
    BY <1>3, HolderLeaves DEF Deliver, Flag, LeaveRoute
  <1>4. CASE UNCHANGED <<payload, pc, plan, inserted, moved, status>>
    BY <1>4, HolderKept
  <1> QED
    BY <1>1, <1>2, <1>3, <1>4 DEF OfferStep, TakeBack, TakeBackFails

\* Single orders, the sweep and the rebuild assign nothing.
LEMMA OtherHolder ==
  ASSUME NothingStrands, IInv, HolderInv, (\E o \in Orders : OrderStep(o)) \/ SystemStep
  PROVE  HolderInv'
  <1>1. ASSUME NEW o \in Orders, NEW f \in Offers, CancelOnRoute(o, f)
        PROVE  HolderInv'
    <2>1. {o} \in SUBSET Orders /\ status'[o] # "assigned"
      BY <1>1 DEF CancelOnRoute, IInv, TypeOK
    <2>2. \A p \in Orders : status'[p] = status[p] \/ status'[p] # "assigned"
      BY <1>1 DEF CancelOnRoute, IInv, TypeOK
    <2> QED
      BY <1>1, <2>1, <2>2, HolderLeaves DEF CancelOnRoute, LeaveRoute
  <1>2. ASSUME NEW o \in Orders, OrderStep(o), UNCHANGED payload
        PROVE  HolderInv'
    <2>1. \A p \in Orders : status'[p] = status[p] \/ status'[p] # "assigned"
      BY <1>1, <1>2
      DEF IInv, TypeOK, OrderStep, Ingest, IngestQueue, IngestDies, Override,
          CancelWaiting, CancelOnRoute, CancelNowhere, Redeliver, RedeliverCommit,
          RedeliverFails, CloseFailed
    <2>2. UNCHANGED <<pc, plan, inserted, moved>>
      BY <1>2
      DEF OrderStep, Ingest, IngestQueue, IngestDies, Override, CancelWaiting,
          CancelOnRoute, CancelNowhere, Redeliver, RedeliverCommit, RedeliverFails,
          CloseFailed
    <2> QED
      BY <1>2, <2>1, <2>2, HolderKept
  <1>3. ASSUME NEW o \in Orders, OrderStep(o)
        PROVE  HolderInv'
    BY <1>1, <1>2, <1>3
    DEF OrderStep, Ingest, IngestQueue, IngestDies, Override, CancelWaiting,
        CancelNowhere, Redeliver, RedeliverCommit, RedeliverFails, CloseFailed
  <1>4. CASE SystemStep
    BY <1>4, HolderKept
    DEF SystemStep, ReturnStranded, ReturnStrandedFails, RebuildRead, RebuildWrite,
        Flush, LeaseExpires
  <1> QED
    BY <1>3, <1>4

(* An order is never left `assigned` to nobody by anything but a crash or  *)
(* an insertion: while a cycle has it in hand, or on an offer or a route.  *)
(* The window the stranded grace is for (app/config.py) is the only one,   *)
(* for any number of cycles, dispatchers, flushes and expired leases.      *)
THEOREM AssignedHasAHolder ==
  ASSUME NothingStrands
  PROVE  Spec => []AssignedIsSomebodys
  <1>1. Init => HolderInv
    BY DEF Init, HolderInv, MovedWerePlanned, AssignedIsSomebodys
  <1>2. IInv /\ HolderInv /\ [Next]_vars => HolderInv'
    <2> SUFFICES ASSUME IInv, HolderInv, [Next]_vars PROVE HolderInv'
      OBVIOUS
    <2>1. CASE UNCHANGED vars
      BY <2>1, HolderKept DEF vars
    <2> QED
      BY <2>1, CycleHolder, AssignHolder, OfferHolder, OtherHolder DEF Next
  <1>3. HolderInv => AssignedIsSomebodys
    BY DEF HolderInv
  <1> QED
    BY <1>1, <1>2, <1>3, InvHolds, PTL DEF Spec

-----------------------------------------------------------------------------
(***************************************************************************)
(* A waiting order is in the hold queue.  Redis is written ahead of the    *)
(* commit when an order comes back and after it when an order leaves, so   *)
(* this takes the hub lock between cycles, and it is lost to a late        *)
(* dequeue of an assign by hand, to an expired lease and to every crash    *)
(* and flush (what the rebuild is for).                                    *)
(***************************************************************************)
QueueIsKept == ~ InFlightInsertion /\ Assigners = {} /\ Faults = {}

\* A cycle at work holds the hub's lock, so there is one.
CyclesHoldTheHub == \A c \in Cycles : pc[c] # "idle" => hub = c

\* Until the cycle writes, its plan's orders wait or have been cancelled.
PlannedStillWaiting ==
  \A c \in Cycles :
    /\ pc[c] = "dequeue" => \A o \in todo[c] : plan[c][o] # NoOffer
    /\ pc[c] \in {"insert", "dequeue"} =>
         \A o \in Orders : plan[c][o] # NoOffer =>
           status[o] \in PLANNABLE \cup {"cancelled"}

\* What is about to be written back to `held` is in the queue already.
OnTheirWayBack ==
  /\ \A c \in Cycles : back[c] \subseteq queue
  /\ \A f \in giving : \A o \in payload[f] : o # cancelling[f] => o \in queue
  /\ redelivering \subseteq queue

\* Only a withdrawal under way has an order to cancel, one of the offer's.
CancellingIsWithdrawn ==
  \A f \in Offers : cancelling[f] # NoOrder => f \in giving /\ cancelling[f] \in payload[f]

QueueInv ==
  /\ CyclesHoldTheHub /\ PlannedStillWaiting
  /\ OnTheirWayBack /\ CancellingIsWithdrawn
  /\ WaitingOrderIsQueued

\* What holds of all of Dispatch when nothing strands an order.
SafeInv == IInv /\ HolderInv /\ QueueInv

(* An order on its way back is locked by whoever sends it back, so nobody  *)
(* dequeues it: it is not waiting, and it is on no other offer.            *)
LEMMA OnTheirWayAreLocked ==
  ASSUME SafeInv, NEW o \in Orders
  PROVE  /\ \A c \in Cycles : o \in back[c] =>
              /\ pc[c] = "commit" /\ o \in moved[c] /\ status[o] = "assigned"
              /\ ~ HasHome(o) /\ RowLocked(o)
         /\ \A f \in giving : o \in payload[f] =>
              offer[f] = "offered" /\ status[o] = "assigned" /\ RowLocked(o)
         /\ o \in redelivering => status[o] = "delivery_failed" /\ RowLocked(o)
  <1>1. ASSUME NEW c \in Cycles, o \in back[c]
        PROVE  /\ pc[c] = "commit" /\ o \in moved[c] /\ status[o] = "assigned"
               /\ ~ HasHome(o)
    BY <1>1 DEF SafeInv, IInv, MovedOrdersAreFree
  <1>2. ASSUME NEW f \in giving, o \in payload[f]
        PROVE  offer[f] = "offered" /\ status[o] = "assigned"
    BY <1>2 DEF SafeInv, IInv, TypeOK, OfferCarriesLiveOrders
  <1>3. o \in redelivering => status[o] = "delivery_failed"
    BY DEF SafeInv, IInv, RedeliveredHaveFailed
  <1> QED
    BY <1>1, <1>2, <1>3 DEF RowLocked

\* Planning: nobody else is at work, and what is dropped has finished.
LEMMA PlanQueue ==
  ASSUME QueueIsKept, SafeInv, NEW c \in Cycles, CyclePlan(c)
  PROVE  QueueInv'
  <1>1. /\ \A d \in Cycles : pc[d] = "idle"
        /\ hub' = c /\ pc' = [pc EXCEPT ![c] = "insert"]
    BY ConstantsAssumption DEF CyclePlan, SafeInv, QueueInv, CyclesHoldTheHub
  <1>2. CyclesHoldTheHub'
    BY <1>1 DEF CyclesHoldTheHub, SafeInv, IInv, TypeOK
  <1>3. PlannedStillWaiting'
    BY <1>1 DEF PlannedStillWaiting, CyclePlan, SafeInv, IInv, TypeOK
  <1>4. \A o \in queue : status[o] \notin FINISHED => o \in queue'
    BY DEF CyclePlan
  <1>5. OnTheirWayBack'
    <2>1. UNCHANGED <<back, giving, payload, cancelling, redelivering, status>>
      BY DEF CyclePlan
    <2>2. \A d \in Cycles : back[d] = {}
      BY <1>1 DEF SafeInv, IInv, MovedOrdersAreFree
    <2>3. \A f \in giving : \A o \in payload[f] : o \in Orders /\ status[o] \notin FINISHED
      BY OnTheirWayAreLocked DEF FINISHED, SafeInv, IInv, TypeOK
    <2>4. \A o \in redelivering : status[o] \notin FINISHED
      BY DEF FINISHED, SafeInv, IInv, TypeOK, RedeliveredHaveFailed
    <2> QED
      BY <1>4, <2>1, <2>2, <2>3, <2>4 DEF SafeInv, QueueInv, OnTheirWayBack
  <1>6. CancellingIsWithdrawn'
    BY DEF CyclePlan, SafeInv, QueueInv, CancellingIsWithdrawn
  <1>7. WaitingOrderIsQueued'
    <2>1. \A o \in Orders : status[o] \in PLANNABLE => o \in queue \/ o \in ingesting
      BY <1>1 DEF SafeInv, QueueInv, WaitingOrderIsQueued
    <2> QED
      BY <1>4, <2>1 DEF CyclePlan, WaitingOrderIsQueued, FINISHED, PLANNABLE
  <1> QED
    BY <1>2, <1>3, <1>5, <1>6, <1>7 DEF QueueInv

\* A cycle that is not idle is the only one.
LEMMA OneCycle ==
  ASSUME SafeInv, NEW c \in Cycles, pc[c] # "idle"
  PROVE  /\ hub = c
         /\ \A d \in Cycles \ {c} : pc[d] = "idle" /\ back[d] = {}
  BY DEF SafeInv, QueueInv, CyclesHoldTheHub, IInv, MovedOrdersAreFree

\* The orders a cycle takes are those of its plan, when it inserts none.
LEMMA TakenArePlanned ==
  ASSUME HolderInv, NEW c \in Cycles
  PROVE  AssignedStopIds(c) = {o \in Orders : plan[c][o] # NoOffer}
  BY DEF HolderInv, MovedWerePlanned, AssignedStopIds

\* The cycle's own bookkeeping, and the orders it takes out of the queue.
LEMMA LoopQueue ==
  ASSUME QueueIsKept, SafeInv, NEW c \in Cycles,
         \/ \E o \in Orders : CycleSkipInsert(c, o) \/ CycleDequeue(c, o)
         \/ CycleInserted(c) \/ CycleLockStillAssigned(c)
  PROVE  QueueInv'
  <1>1. CASE (\E o \in Orders : CycleSkipInsert(c, o)) \/ CycleInserted(c)
    <2>1. CyclesHoldTheHub' /\ OnTheirWayBack' /\ CancellingIsWithdrawn'
      BY <1>1 DEF CycleSkipInsert, CycleInserted, SafeInv, IInv, TypeOK, QueueInv,
                  CyclesHoldTheHub, OnTheirWayBack, CancellingIsWithdrawn
    <2>2. PlannedStillWaiting'
      BY <1>1, TakenArePlanned DEF CycleSkipInsert, CycleInserted, SafeInv, IInv, TypeOK,
                  QueueInv, PlannedStillWaiting
    <2>3. WaitingOrderIsQueued'
      BY <1>1 DEF CycleSkipInsert, CycleInserted, SafeInv, IInv, TypeOK, QueueInv,
                  WaitingOrderIsQueued, AssignedStopIds
    <2> QED
      BY <2>1, <2>2, <2>3 DEF QueueInv
  <1>2. ASSUME NEW o \in Orders, CycleDequeue(c, o)
        PROVE  QueueInv'
    <2>1. /\ pc[c] = "dequeue" /\ o \in todo[c] /\ queue' = queue \ {o}
          /\ todo' = [todo EXCEPT ![c] = @ \ {o}]
          /\ UNCHANGED <<status, payload, hub, pc, plan, inserted, back, giving, cancelling,
                         redelivering, ingesting>>
      BY <1>2 DEF CycleDequeue
    <2>2. plan[c][o] # NoOffer /\ status[o] \in PLANNABLE \cup {"cancelled"}
      BY <2>1 DEF SafeInv, QueueInv, PlannedStillWaiting
    <2>3. OnTheirWayBack'
      <3>1. /\ \A d \in Cycles : o \notin back[d]
            /\ \A f \in giving : o \notin payload[f]
            /\ o \notin redelivering
        BY <2>2, OnTheirWayAreLocked DEF PLANNABLE
      <3> QED
        BY <2>1, <3>1 DEF SafeInv, QueueInv, OnTheirWayBack
    <2>4. WaitingOrderIsQueued'
      BY <2>1, <2>2 DEF SafeInv, QueueInv, WaitingOrderIsQueued, AssignedStopIds
    <2>5. CyclesHoldTheHub' /\ PlannedStillWaiting' /\ CancellingIsWithdrawn'
      BY <2>1 DEF SafeInv, IInv, TypeOK, QueueInv, CyclesHoldTheHub, PlannedStillWaiting,
                  CancellingIsWithdrawn
    <2> QED
      BY <2>3, <2>4, <2>5 DEF QueueInv
  <1>3. CASE CycleLockStillAssigned(c)
    BY <1>3 DEF CycleLockStillAssigned, SafeInv, IInv, TypeOK, QueueInv, CyclesHoldTheHub,
                PlannedStillWaiting, OnTheirWayBack, CancellingIsWithdrawn,
                WaitingOrderIsQueued, AssignedStopIds
  <1> QED
    BY <1>1, <1>2, <1>3

(* The write moves all that is still waiting of what was dequeued; what    *)
(* does not get a driver is queued ahead of the commit that sends it back. *)
LEMMA WriteQueue ==
  ASSUME QueueIsKept, SafeInv, NEW c \in Cycles,
         \/ CycleWrite(c) \/ CycleClaim(c) \/ CycleCommit(c) \/ CycleNothingToOffer(c)
  PROVE  QueueInv'
  <1>0. /\ hub = c
        /\ \A d \in Cycles \ {c} : pc[d] = "idle" /\ back[d] = {}
    BY OneCycle DEF CycleWrite, CycleClaim, CycleCommit, CycleNothingToOffer
  <1>1. CASE CycleWrite(c)
    <2>1. /\ pc[c] = "dequeue" /\ pc' = [pc EXCEPT ![c] = "written"]
          /\ \A o \in Orders :
               status'[o] = IF o \in MovedByWrite(c) THEN "assigned" ELSE status[o]
          /\ UNCHANGED <<payload, queue, hub, plan, inserted, todo, back, giving,
                         cancelling, redelivering, ingesting>>
      BY <1>1 DEF CycleWrite
    <2>2. WaitingOrderIsQueued'
      <3>1. ASSUME NEW o \in Orders, status'[o] \in PLANNABLE
            PROVE  o \in queue \/ o \in ingesting
        <4>1. o \notin MovedByWrite(c) /\ status[o] \in PLANNABLE
          BY <2>1, <3>1 DEF PLANNABLE
        <4>2. o \notin AssignedStopIds(c)
          BY <4>1 DEF MovedByWrite
        <4> QED
          BY <1>0, <4>1, <4>2 DEF SafeInv, QueueInv, WaitingOrderIsQueued
      <3> QED
        BY <2>1, <3>1 DEF WaitingOrderIsQueued
    <2>3. PlannedStillWaiting'
      BY <1>0, <2>1 DEF PlannedStillWaiting, SafeInv, IInv, TypeOK
    <2>4. CyclesHoldTheHub' /\ OnTheirWayBack' /\ CancellingIsWithdrawn'
      BY <1>0, <2>1 DEF SafeInv, IInv, TypeOK, QueueInv, CyclesHoldTheHub, OnTheirWayBack,
                        CancellingIsWithdrawn
    <2> QED
      BY <2>2, <2>3, <2>4 DEF QueueInv
  <1>2. CASE CycleClaim(c)
    <2>1. /\ pc[c] = "offering" /\ pc' = [pc EXCEPT ![c] = "commit"]
          /\ queue \subseteq queue' /\ back'[c] \subseteq queue'
          /\ \A d \in Cycles \ {c} : back'[d] = back[d]
          /\ UNCHANGED <<status, payload, hub, plan, inserted, todo, giving,
                         cancelling, redelivering, ingesting>>
      BY <1>2 DEF CycleClaim, SafeInv, IInv, TypeOK
    <2>2. OnTheirWayBack' /\ CancellingIsWithdrawn'
      BY <2>1 DEF SafeInv, QueueInv, OnTheirWayBack, CancellingIsWithdrawn
    <2>3. WaitingOrderIsQueued'
      BY <1>0, <2>1 DEF SafeInv, QueueInv, WaitingOrderIsQueued
    <2>4. CyclesHoldTheHub' /\ PlannedStillWaiting'
      BY <1>0, <2>1 DEF SafeInv, IInv, TypeOK, QueueInv, CyclesHoldTheHub,
                        PlannedStillWaiting
    <2> QED
      BY <2>2, <2>3, <2>4 DEF QueueInv
  <1>3. ASSUME CycleReset(c), UNCHANGED <<queue, giving, cancelling, redelivering, ingesting>>,
               pc[c] \in {"written", "commit"},
               \A o \in Orders : status'[o] = IF o \in back[c] THEN "held" ELSE status[o],
               \A f \in giving : payload'[f] = payload[f]
        PROVE  QueueInv'
    <2>1. \A d \in Cycles : pc'[d] = "idle" /\ back'[d] = {}
      BY <1>0, <1>3 DEF CycleReset, SafeInv, IInv, TypeOK
    <2>2. CyclesHoldTheHub' /\ PlannedStillWaiting'
      BY <2>1 DEF CyclesHoldTheHub, PlannedStillWaiting
    <2>3. OnTheirWayBack' /\ CancellingIsWithdrawn'
      BY <1>3, <2>1 DEF SafeInv, IInv, TypeOK, QueueInv, OnTheirWayBack, CancellingIsWithdrawn
    <2>4. WaitingOrderIsQueued'
      BY <1>0, <1>3 DEF SafeInv, QueueInv, WaitingOrderIsQueued, OnTheirWayBack
    <2> QED
      BY <2>2, <2>3, <2>4 DEF QueueInv
  <1>4. CASE CycleCommit(c)
    <2>1. ASSUME NEW f \in giving
          PROVE  payload'[f] = payload[f]
      <3>1. offer[f] = "offered" /\ f \in Offers
        BY DEF SafeInv, IInv, TypeOK
      <3>2. OfferStops(c, f) = {}
        BY <3>1 DEF OfferStops, SafeInv, IInv, TypeOK, PlannedIdsAreFresh, HolderInv,
                    MovedWerePlanned
      <3> QED
        BY <1>4, <3>1, <3>2 DEF CycleCommit
    <2> QED
      BY <1>3, <1>4, <2>1 DEF CycleCommit
  <1>5. CASE CycleNothingToOffer(c)
    <2>1. back[c] = {}
      BY <1>5 DEF CycleNothingToOffer, SafeInv, IInv, MovedOrdersAreFree
    <2> QED
      BY <1>3, <1>5, <2>1 DEF CycleNothingToOffer
  <1> QED
    BY <1>1, <1>2, <1>4, <1>5

(* What any other step must do to keep the queue right: leave the cycles   *)
(* and the lock alone, keep waiting orders waiting or cancel them, queue   *)
(* what starts to wait or is to come back, and dequeue only what is not    *)
(* going to wait again.                                                    *)
LEMMA QueueKept ==
  ASSUME SafeInv, IInv', UNCHANGED <<hub, pc, plan, inserted, todo, back>>,
         CancellingIsWithdrawn',
         \A o \in Orders : status[o] \in PLANNABLE \cup {"cancelled"} =>
           status'[o] \in PLANNABLE \cup {"cancelled"},
         \A o \in queue \ queue' : status'[o] \notin PLANNABLE \cup {"assigned", "delivery_failed"},
         \A o \in Orders : status'[o] \in PLANNABLE =>
           status[o] \in PLANNABLE \/ o \in queue' \cup ingesting',
         ingesting \subseteq ingesting' \cup queue',
         redelivering' \subseteq redelivering \cup queue',
         \A f \in giving' : \A o \in payload'[f] : o # cancelling'[f] =>
           o \in queue' \/ (f \in giving /\ o \in payload[f] /\ o # cancelling[f])
  PROVE  QueueInv'
  <1>1. CyclesHoldTheHub'
    BY DEF SafeInv, QueueInv, CyclesHoldTheHub
  <1>2. PlannedStillWaiting'
    BY DEF SafeInv, QueueInv, PlannedStillWaiting
  <1>3. OnTheirWayBack'
    <2>1. \A o \in queue : status'[o] \in {"assigned", "delivery_failed"} => o \in queue'
      OBVIOUS
    <2>2. \A c \in Cycles : \A o \in back'[c] : status'[o] = "assigned"
      BY DEF IInv, MovedOrdersAreFree
    <2>3. \A f \in giving' : \A o \in payload'[f] : status'[o] = "assigned"
      BY DEF IInv, TypeOK, OfferCarriesLiveOrders
    <2>4. \A o \in redelivering' : status'[o] = "delivery_failed"
      BY DEF IInv, RedeliveredHaveFailed
    <2>5. \A c \in Cycles : back'[c] \subseteq queue'
      BY <2>1, <2>2 DEF SafeInv, QueueInv, OnTheirWayBack
    <2>6. \A f \in giving' : \A o \in payload'[f] : o # cancelling'[f] => o \in queue'
      BY <2>1, <2>3 DEF SafeInv, QueueInv, OnTheirWayBack
    <2>7. redelivering' \subseteq queue'
      BY <2>1, <2>4 DEF SafeInv, QueueInv, OnTheirWayBack
    <2> QED
      BY <2>5, <2>6, <2>7 DEF OnTheirWayBack
  <1>4. WaitingOrderIsQueued'
    BY DEF SafeInv, QueueInv, WaitingOrderIsQueued, AssignedStopIds
  <1> QED
    BY <1>1, <1>2, <1>3, <1>4 DEF QueueInv

\* Answers and taps: an offer's orders are queued again before it is gone.
LEMMA OfferQueue ==
  ASSUME QueueIsKept, SafeInv, IInv', NEW f \in Offers, OfferStep(f)
  PROVE  QueueInv'
  <1>0. UNCHANGED <<hub, pc, plan, inserted, todo, back>>
    BY DEF OfferStep, Accept, TakeBack, TakeBackCommit, TakeBackFails, Collect,
           DriveToDrop, Deliver, Flag
  <1>1. CASE Accept(f) \/ \E S \in SUBSET Orders : Collect(f, S) \/ DriveToDrop(f, S)
    <2>1. CancellingIsWithdrawn'
      BY <1>1 DEF Accept, Collect, DriveToDrop, SafeInv, QueueInv, CancellingIsWithdrawn
    <2>2. \A o \in Orders : status'[o] = status[o] \/
             (status[o] \notin PLANNABLE \cup {"cancelled"} /\ status'[o] \notin PLANNABLE)
      BY <1>1 DEF Accept, Collect, DriveToDrop, PLANNABLE
    <2>3. UNCHANGED <<payload, queue, giving, cancelling, redelivering, ingesting>>
      BY <1>1 DEF Accept, Collect, DriveToDrop
    <2> QED
      BY <1>0, <2>1, <2>2, <2>3, QueueKept
  <1>2. ASSUME NEW S \in SUBSET Orders, Deliver(f, S) \/ Flag(f, S)
        PROVE  QueueInv'
    <2>1. /\ offer[f] = "active" /\ S \subseteq payload[f] /\ f \notin giving
          /\ payload' = [payload EXCEPT ![f] = @ \ S]
          /\ UNCHANGED <<queue, giving, cancelling, redelivering, ingesting>>
      BY <1>2 DEF Deliver, Flag, LeaveRoute, SafeInv, IInv, TypeOK
    <2>2. \A o \in S : status[o] \in OnRouteStatus
      BY <2>1 DEF SafeInv, IInv, OfferCarriesLiveOrders
    <2>3. \A o \in Orders : status'[o] = status[o] \/
             (status[o] \notin PLANNABLE \cup {"cancelled"} /\ status'[o] \notin PLANNABLE)
      BY <1>2, <2>2 DEF Deliver, Flag, PLANNABLE, OnRouteStatus
    <2>4. CancellingIsWithdrawn' /\ \A g \in giving : payload'[g] = payload[g]
      BY <2>1 DEF SafeInv, IInv, TypeOK, QueueInv, CancellingIsWithdrawn
    <2> QED
      BY <1>0, <2>1, <2>3, <2>4, QueueKept
  <1>3. ASSUME NEW x \in Orders \cup {NoOrder}, TakeBack(f, x)
        PROVE  QueueInv'
    <2>1. /\ x \in payload[f] \cup {NoOrder} /\ offer[f] = "offered"
          /\ giving' = giving \cup {f} /\ cancelling' = [cancelling EXCEPT ![f] = x]
          /\ queue' = queue \cup Requeued(f)
          /\ UNCHANGED <<status, payload, redelivering, ingesting>>
      BY <1>3 DEF TakeBack
    <2>2. CancellingIsWithdrawn'
      BY <2>1 DEF SafeInv, IInv, TypeOK, QueueInv, CancellingIsWithdrawn
    <2>3. \A o \in payload[f] : o # cancelling'[f] => o \in queue'
      BY <2>1 DEF Requeued, SafeInv, IInv, OfferCarriesLiveOrders
    <2>4. \A g \in giving \ {f} : cancelling'[g] = cancelling[g]
      BY <2>1 DEF SafeInv, IInv, TypeOK
    <2> QED
      BY <1>0, <2>1, <2>2, <2>3, <2>4, QueueKept
  <1>4. CASE TakeBackCommit(f)
    <2>1. /\ f \in giving /\ giving' = giving \ {f}
          /\ cancelling' = [cancelling EXCEPT ![f] = NoOrder]
          /\ payload' = [payload EXCEPT ![f] = {}]
          /\ queue' = queue \ {cancelling[f]}
          /\ UNCHANGED <<redelivering, ingesting>>
      BY <1>4 DEF TakeBackCommit
    <2>2. CancellingIsWithdrawn'
      BY <2>1 DEF SafeInv, IInv, TypeOK, QueueInv, CancellingIsWithdrawn
    <2>3. \A o \in payload[f] : o \in Orders /\ status[o] = "assigned"
      BY <2>1, OnTheirWayAreLocked DEF SafeInv, IInv, TypeOK
    <2>4. ASSUME NEW o \in queue \ queue'
          PROVE  status'[o] = "cancelled"
      <3>1. o = cancelling[f] /\ o \in payload[f]
        BY <2>1, <2>4, ConstantsAssumption
        DEF SafeInv, IInv, TypeOK, QueueInv, CancellingIsWithdrawn
      <3> QED
        BY <1>4, <2>3, <3>1 DEF TakeBackCommit
    <2>5. ASSUME NEW o \in Orders
          PROVE  /\ o \notin payload[f] => status'[o] = status[o]
                 /\ o \in payload[f] /\ o = cancelling[f] => status'[o] = "cancelled"
                 /\ o \in payload[f] /\ o # cancelling[f] =>
                      status'[o] = "held" /\ o \in queue'
      <3>1. o \in payload[f] /\ o # cancelling[f] => o \in queue'
        BY <2>1 DEF SafeInv, QueueInv, OnTheirWayBack
      <3> QED
        BY <1>4, <2>3, <3>1 DEF TakeBackCommit
    <2>6. /\ \A o \in Orders : status[o] \in PLANNABLE \cup {"cancelled"} =>
               status'[o] \in PLANNABLE \cup {"cancelled"}
          /\ \A o \in Orders : status'[o] \in PLANNABLE =>
               status[o] \in PLANNABLE \/ o \in queue' \cup ingesting'
      BY <2>3, <2>5 DEF PLANNABLE
    <2>7. \A g \in giving' : payload'[g] = payload[g] /\ cancelling'[g] = cancelling[g]
      BY <2>1 DEF SafeInv, IInv, TypeOK
    <2>8. \A o \in queue \ queue' :
            status'[o] \notin PLANNABLE \cup {"assigned", "delivery_failed"}
      BY <2>4 DEF PLANNABLE
    <2> QED
      BY <1>0, <2>1, <2>2, <2>6, <2>7, <2>8, QueueKept
  <1> QED
    BY <1>1, <1>2, <1>3, <1>4 DEF OfferStep, TakeBackFails, QueueIsKept

\* Single orders: intake, overrides, cancels, redeliveries.
LEMMA OrderQueue ==
  ASSUME QueueIsKept, SafeInv, IInv', NEW o \in Orders, OrderStep(o)
  PROVE  QueueInv'
  <1>0. /\ UNCHANGED <<hub, pc, plan, inserted, todo, back, giving, cancelling>>
        /\ \A p \in Orders \ {o} : status'[p] = status[p]
    BY DEF OrderStep, Ingest, IngestQueue, IngestDies, Override, CancelWaiting,
           CancelOnRoute, CancelNowhere, Redeliver, RedeliverCommit, RedeliverFails,
           CloseFailed, SafeInv, IInv, TypeOK
  <1>1. \A f \in giving : payload'[f] = payload[f]
    BY DEF OrderStep, Ingest, IngestQueue, IngestDies, Override, CancelWaiting,
           CancelOnRoute, LeaveRoute, CancelNowhere, Redeliver, RedeliverCommit,
           RedeliverFails, CloseFailed, SafeInv, IInv, TypeOK
  <1>2. CancellingIsWithdrawn'
    BY <1>0, <1>1 DEF SafeInv, QueueInv, CancellingIsWithdrawn
  <1>3. CASE Ingest(o)
    BY <1>0, <1>1, <1>2, <1>3, QueueKept DEF Ingest, SafeInv, IInv, TypeOK, PLANNABLE
  <1>4. CASE IngestQueue(o)
    BY <1>0, <1>1, <1>2, <1>4, QueueKept DEF IngestQueue
  <1>5. CASE Override(o, "held", "queued") \/ Override(o, "queued", "held")
    BY <1>0, <1>1, <1>2, <1>5, QueueKept DEF Override, SafeInv, IInv, TypeOK, PLANNABLE
  <1>6. CASE CancelWaiting(o) \/ CancelNowhere(o) \/ \E f \in Offers : CancelOnRoute(o, f)
    <2>1. status'[o] = "cancelled" /\ queue' = queue \ {o} /\ UNCHANGED <<redelivering, ingesting>>
      BY <1>6 DEF CancelWaiting, CancelNowhere, CancelOnRoute, SafeInv, IInv, TypeOK
    <2> QED
      BY <1>0, <1>1, <1>2, <2>1, QueueKept DEF PLANNABLE
  <1>7. CASE Redeliver(o)
    BY <1>0, <1>1, <1>2, <1>7, QueueKept DEF Redeliver
  <1>8. CASE RedeliverCommit(o)
    <2>1. /\ o \in queue /\ status[o] = "delivery_failed" /\ status'[o] = "held"
          /\ redelivering' \subseteq redelivering /\ UNCHANGED <<queue, ingesting>>
      BY <1>8 DEF RedeliverCommit, SafeInv, IInv, TypeOK, RedeliveredHaveFailed, QueueInv,
                  OnTheirWayBack
    <2> QED
      BY <1>0, <1>1, <1>2, <2>1, QueueKept DEF PLANNABLE
  <1>9. CASE CloseFailed(o, "returned") \/ CloseFailed(o, "cancelled")
    BY <1>0, <1>1, <1>2, <1>9, QueueKept DEF CloseFailed, SafeInv, IInv, TypeOK, PLANNABLE
  <1> QED
    BY <1>3, <1>4, <1>5, <1>6, <1>7, <1>8, <1>9
    DEF OrderStep, IngestDies, RedeliverFails, QueueIsKept

\* The sweep and the rebuild add to the queue and drop what has finished.
LEMMA SystemQueue ==
  ASSUME QueueIsKept, SafeInv, IInv', SystemStep
  PROVE  QueueInv'
  <1>1. ASSUME NEW S \in SUBSET Orders, ReturnStranded(S)
        PROVE  QueueInv'
    <2>1. \A o \in S : status[o] = "assigned"
      BY <1>1 DEF ReturnStranded, Stranded
    <2>2. CancellingIsWithdrawn'
      BY <1>1 DEF ReturnStranded, SafeInv, QueueInv, CancellingIsWithdrawn
    <2> QED
      BY <1>1, <2>1, <2>2, QueueKept DEF ReturnStranded, PLANNABLE
  <1>2. CASE RebuildRead
    <2>1. \A c \in Cycles : pc[c] = "idle"
      BY <1>2, ConstantsAssumption DEF RebuildRead, SafeInv, QueueInv, CyclesHoldTheHub
    <2> QED
      BY <1>2, <2>1
      DEF RebuildRead, SafeInv, QueueInv, CyclesHoldTheHub, PlannedStillWaiting,
          OnTheirWayBack, CancellingIsWithdrawn, WaitingOrderIsQueued, AssignedStopIds
  <1>3. CASE RebuildWrite
    <2>1. CyclesHoldTheHub'
      BY <1>3, ConstantsAssumption
      DEF RebuildWrite, Release, SafeInv, QueueInv, CyclesHoldTheHub
    <2>2. \A o \in queue : status[o] \notin FINISHED => o \in queue'
      BY <1>3 DEF RebuildWrite
    <2>3. UNCHANGED <<status, payload, pc, plan, inserted, todo, back, giving, cancelling,
                      redelivering, ingesting>>
      BY <1>3 DEF RebuildWrite
    <2>4. OnTheirWayBack'
      <3>1. \A c \in Cycles : \A o \in back[c] : status[o] = "assigned"
        BY DEF SafeInv, IInv, MovedOrdersAreFree
      <3>2. \A f \in giving : \A o \in payload[f] : status[o] = "assigned"
        BY DEF SafeInv, IInv, TypeOK, OfferCarriesLiveOrders
      <3>3. \A o \in redelivering : status[o] = "delivery_failed"
        BY DEF SafeInv, IInv, RedeliveredHaveFailed
      <3> QED
        BY <2>2, <2>3, <3>1, <3>2, <3>3 DEF SafeInv, QueueInv, OnTheirWayBack, FINISHED
    <2>5. WaitingOrderIsQueued'
      BY <2>2, <2>3 DEF SafeInv, QueueInv, WaitingOrderIsQueued, AssignedStopIds, PLANNABLE,
                        FINISHED
    <2>6. PlannedStillWaiting' /\ CancellingIsWithdrawn'
      BY <2>3 DEF SafeInv, QueueInv, PlannedStillWaiting, CancellingIsWithdrawn
    <2> QED
      BY <2>1, <2>4, <2>5, <2>6 DEF QueueInv
  <1> QED
    BY <1>1, <1>2, <1>3 DEF SystemStep, ReturnStrandedFails, Flush, LeaseExpires, QueueIsKept

\* A step of nothing.
LEMMA QueueStutter ==
  ASSUME SafeInv, UNCHANGED vars
  PROVE  QueueInv'
  BY DEF vars, SafeInv, QueueInv, CyclesHoldTheHub, PlannedStillWaiting, OnTheirWayBack,
         CancellingIsWithdrawn, WaitingOrderIsQueued, AssignedStopIds

(* A waiting order can be planned: it is in the hold queue, or intake is   *)
(* about to put it there, or the one cycle at work has taken it out to     *)
(* assign it.  For any number of orders, offers and cycles, as long as     *)
(* nobody assigns by hand, nothing is inserted into routes and nothing     *)
(* fails.                                                                  *)
THEOREM WaitingIsPlannable ==
  ASSUME QueueIsKept
  PROVE  Spec => []WaitingOrderIsQueued
  <1>1. Init => HolderInv /\ QueueInv
    BY DEF Init, HolderInv, MovedWerePlanned, AssignedIsSomebodys, QueueInv,
           CyclesHoldTheHub, PlannedStillWaiting, OnTheirWayBack, CancellingIsWithdrawn,
           WaitingOrderIsQueued, PLANNABLE
  <1>2. IInv /\ IInv' /\ HolderInv /\ QueueInv /\ [Next]_vars => HolderInv' /\ QueueInv'
    <2> SUFFICES ASSUME IInv, IInv', HolderInv, QueueInv, [Next]_vars
                 PROVE  HolderInv' /\ QueueInv'
      OBVIOUS
    <2>0. SafeInv /\ NothingStrands
      BY DEF SafeInv, NothingStrands, QueueIsKept
    <2>1. HolderInv'
      <3>1. CASE UNCHANGED vars
        BY <3>1, HolderKept DEF vars
      <3> QED
        BY <2>0, <3>1, CycleHolder, AssignHolder, OfferHolder, OtherHolder DEF Next
    <2>2. ASSUME NEW c \in Cycles, CycleStep(c)
          PROVE  QueueInv'
      BY <2>0, <2>2, PlanQueue, LoopQueue, WriteQueue
      DEF CycleStep, CycleInsert, CycleFails, QueueIsKept
    <2>3. QueueInv'
      BY <2>0, <2>2, OfferQueue, OrderQueue, SystemQueue, QueueStutter
      DEF Next, QueueIsKept
    <2> QED
      BY <2>1, <2>3
  <1>3. QueueInv => WaitingOrderIsQueued
    BY DEF QueueInv
  <1> QED
    BY <1>1, <1>2, <1>3, InvHolds, PTL DEF Spec

=============================================================================
