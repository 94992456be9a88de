-------------------------- MODULE FleetState_proofs --------------------------
(***************************************************************************)
(* A switched-off driver holds no work, whatever the driver, dispatch, the *)
(* rebuild and every fault do to the hash in Redis meanwhile: it rests on  *)
(* the driver's row in Postgres alone, which an offer's transaction share- *)
(* locks and a switch-off locks.                                           *)
(***************************************************************************)
EXTENDS FleetState, TLAPS, FiniteSetTheorems

\* While an offer's transaction holds the row, the driver is switched on.
OfferedOnlyToActive == RowShared => isActive

\* A duty switch reads the hash as it takes the row, and brings its own status.
DutyBringsAChoice ==
  "duty" \notin owed /\ ("duty" \in reading => copy["duty"].st \in Choices)

Inv == TypeOK /\ NoWorkForSwitchedOff /\ OfferedOnlyToActive /\ DutyBringsAChoice

USE DEF pgVars, redisVars, hubVars, answerVars, requestVars, IsOpen, IsRoute

\* The empty readings are readings.
LEMMA EmptyTyped == NothingSeen \in Reading /\ Absent \in Hash
  BY DEF NothingSeen, Reading, Choices, Absent, Hash

(* A step that writes no offer, no switch and takes no row keeps the parts *)
(* that speak of the row.                                                  *)
LEMMA RestKept ==
  ASSUME Inv, TypeOK', DutyBringsAChoice', UNCHANGED <<isActive, offer>>,
         RowShared' => RowShared
  PROVE  Inv'
  BY DEF Inv, NoWorkForSwitchedOff, OfferedOnlyToActive, HoldsWork

(* Offers made under the hub lock: the row is share-locked by CycleLock    *)
(* and AssignCheck, of an active driver, until the offer commits.          *)
LEMMA OfferingStep ==
  ASSUME Inv, Offering
  PROVE  Inv'
  <1>0. DutyBringsAChoice'
    BY DEF Inv, DutyBringsAChoice, Offering, CyclePlan, CycleLock, CycleSwitchedOff,
           AssignCheck, Claim, ClaimRefused, OfferCommit, OfferFails, OfferDies
  <1>1. TypeOK'
    <2>1. CASE CyclePlan
      <3>1. seen' \in Reading
        BY <2>1, EmptyTyped DEF Inv, TypeOK, CyclePlan, Hash, Reading
      <3> QED
        BY <2>1, <3>1 DEF Inv, TypeOK, CyclePlan
    <2>2. CASE CycleLock
      BY <2>2 DEF Inv, TypeOK, CycleLock
    <2>3. CASE AssignCheck
      BY <2>3, EmptyTyped DEF Inv, TypeOK, AssignCheck
    <2>4. CASE CycleSwitchedOff
      <3>1. [st |-> st', route |-> route'] \in Hash
        BY <2>4 DEF Inv, TypeOK, CycleSwitchedOff, SetHash, Hash, Reading, LiveStatus,
                    Choices
      <3> QED
        BY <2>4, <3>1, EmptyTyped DEF Inv, TypeOK, CycleSwitchedOff, Finish
    <2>5. CASE OfferFails
      <3>1. [st |-> st', route |-> route'] \in Hash
        BY <2>5 DEF Inv, TypeOK, OfferFails, SetStatusIf, Hash, LiveStatus, Choices
      <3> QED
        BY <2>5, <3>1, EmptyTyped DEF Inv, TypeOK, OfferFails, Finish
    <2>6. CASE OfferDies \/ ClaimRefused
      BY <2>6, EmptyTyped DEF Inv, TypeOK, OfferDies, ClaimRefused, Finish
    <2>7. CASE Claim
      <3>1. [st |-> st', route |-> route'] \in Hash
        BY <2>7 DEF Inv, TypeOK, Claim, SetHash, Hash, LiveStatus
      <3> QED
        BY <2>7, <3>1 DEF Inv, TypeOK, Claim
    <2>8. CASE OfferCommit
      BY <2>8, EmptyTyped DEF Inv, TypeOK, OfferCommit, Unused, Finish
    <2> QED
      BY <2>1, <2>2, <2>3, <2>4, <2>5, <2>6, <2>7, <2>8 DEF Offering
  <1>2. CASE CycleLock \/ AssignCheck
    BY <1>0, <1>1, <1>2 DEF Inv, CycleLock, AssignCheck, NoWorkForSwitchedOff,
                      OfferedOnlyToActive, HoldsWork
  <1>3. CASE OfferCommit
    <2>1. isActive /\ UNCHANGED isActive
      BY <1>3 DEF Inv, OfferCommit, OfferedOnlyToActive, RowShared
    <2> QED
      BY <1>0, <1>1, <2>1 DEF Inv, NoWorkForSwitchedOff, OfferedOnlyToActive
  <1>4. CASE CyclePlan \/ CycleSwitchedOff \/ Claim \/ ClaimRefused \/ OfferFails \/ OfferDies
    BY <1>0, <1>1, <1>4, RestKept
    DEF CyclePlan, CycleSwitchedOff, Claim, ClaimRefused, OfferFails, OfferDies, Finish,
        RowShared
  <1> QED
    BY <1>2, <1>3, <1>4 DEF Offering

(* Answers and the route: work only comes from an open offer.              *)
LEMMA AnsweringStep ==
  ASSUME Inv, NEW f \in Offers, Answering(f)
  PROVE  Inv'
  <1>1. TypeOK'
    <2>1. CASE TakeBack(f) \/ TakeBackCommit(f) \/ TakeBackFails(f)
      BY <2>1 DEF Inv, TypeOK, TakeBack, TakeBackCommit, TakeBackFails, Answerable,
                  SetStatusIf, Hash, Choices, LiveStatus
    <2>2. CASE Accept(f) \/ AcceptCommit(f) \/ AcceptFails(f)
      BY <2>2 DEF Inv, TypeOK, Accept, AcceptCommit, AcceptFails, Answerable, SetHash,
                  Hash, Choices, LiveStatus
    <2>3. CASE StopDone(f) \/ RouteEnds(f) \/ CancelEndsRoute(f)
      BY <2>3 DEF Inv, TypeOK, StopDone, RouteEnds, CancelEndsRoute, Requests
    <2> QED
      BY <2>1, <2>2, <2>3 DEF Answering
  <1>2. RowShared' = RowShared /\ UNCHANGED isActive /\ DutyBringsAChoice'
    BY DEF Inv, DutyBringsAChoice, Answering, TakeBack, TakeBackCommit, TakeBackFails, Accept, AcceptCommit,
           AcceptFails, StopDone, RouteEnds, CancelEndsRoute, RowShared
  <1>3. HoldsWork' => HoldsWork
    BY DEF Answering, TakeBack, TakeBackCommit, TakeBackFails, Accept, AcceptCommit,
           AcceptFails, StopDone, RouteEnds, CancelEndsRoute, HoldsWork, Inv, TypeOK
  <1> QED
    BY <1>1, <1>2, <1>3 DEF Inv, NoWorkForSwitchedOff, OfferedOnlyToActive

(* Switch-offs, switch-ons and duty switches.                              *)
LEMMA RequestingStep ==
  ASSUME Inv, Requesting
  PROVE  Inv'
  <1>1. CASE SwitchOff
    <2>1. TypeOK' /\ DutyBringsAChoice'
      BY <1>1 DEF Inv, TypeOK, DutyBringsAChoice, SwitchOff, Choices, Requests
    <2>2. ~ HoldsWork' /\ ~ RowShared'
      BY <1>1 DEF SwitchOff, HoldsWork, RowShared
    <2> QED
      BY <2>1, <2>2 DEF Inv, NoWorkForSwitchedOff, OfferedOnlyToActive
  <1>2. CASE SwitchOn
    <2>1. TypeOK' /\ DutyBringsAChoice' /\ isActive'
      BY <1>2 DEF Inv, TypeOK, DutyBringsAChoice, SwitchOn
    <2> QED
      BY <2>1 DEF Inv, NoWorkForSwitchedOff, OfferedOnlyToActive
  <1>3. CASE SwitchOffAgain
    <2>1. TypeOK' /\ DutyBringsAChoice'
      BY <1>3 DEF Inv, TypeOK, DutyBringsAChoice, SwitchOffAgain, Requests, Hash
    <2> QED
      BY <1>3, <2>1, RestKept DEF SwitchOffAgain, RowShared
  <1>4. ASSUME NEW s \in Choices, DutySwitch(s)
        PROVE  Inv'
    <2>1. TypeOK' /\ DutyBringsAChoice'
      BY <1>4 DEF Inv, TypeOK, DutyBringsAChoice, DutySwitch, Requests, Hash, LiveStatus
    <2> QED
      BY <1>4, <2>1, RestKept DEF DutySwitch, RowShared
  <1> QED
    BY <1>1, <1>2, <1>3, <1>4 DEF Requesting

(* The hash read and written back: Postgres' offers and switch are left.   *)
LEMMA RewritingStep ==
  ASSUME Inv, Rewriting
  PROVE  Inv'
  <1>1. ASSUME NEW k \in Requests, ReadHash(k)
        PROVE  TypeOK' /\ DutyBringsAChoice'
    <2>1. k # "duty"
      BY <1>1 DEF Inv, DutyBringsAChoice, ReadHash
    <2>2. copy' \in [Requests -> Hash]
      BY <1>1 DEF Inv, TypeOK, ReadHash
    <2> QED
      BY <1>1, <2>1, <2>2 DEF Inv, TypeOK, DutyBringsAChoice, ReadHash
  <1>2. ASSUME NEW k \in Requests, EndRequest(k), UNCHANGED owed \/ owed' = owed \ {k}
        PROVE  /\ copy' \in [Requests -> Hash] /\ reading' \subseteq Requests
               /\ owed' \subseteq Requests
               /\ cancelled' \in Offers \cup {NoRoute} /\ DutyBringsAChoice'
    BY <1>2, EmptyTyped DEF Inv, TypeOK, EndRequest, DutyBringsAChoice
  <1>3. ASSUME NEW k \in Requests, WriteHash(k)
        PROVE  TypeOK' /\ DutyBringsAChoice'
    <2> DEFINE h == Rewritten(k, copy[k])
    <2>1. copy[k] \in Hash /\ k \in {"duty", "load", "free", "cancel_free", "switch_off",
                                      "off_again"}
      BY DEF Inv, TypeOK, Requests
    <2>2. h \in Hash
      <3>1. CASE k \in {"duty", "load"}
        BY <2>1, <3>1 DEF Rewritten
      <3>2. CASE k = "free"
        BY <2>1, <3>2 DEF Rewritten, Hash, LiveStatus, Choices
      <3>3. CASE k = "cancel_free"
        BY <2>1, <3>3, EmptyTyped DEF Rewritten, Hash, LiveStatus, Choices
      <3>4. CASE k \in {"switch_off", "off_again"}
        BY <2>1, <3>4, EmptyTyped DEF Rewritten, Hash, LiveStatus, Choices
      <3> QED
        BY <2>1, <3>1, <3>2, <3>3, <3>4
    <2>3. st' = (IF h.st = "absent" THEN st ELSE h.st)
          /\ route' = (IF h.st = "absent" THEN route ELSE h.route)
      BY <1>3 DEF WriteHash, SetHash
    <2>4. [st |-> st', route |-> route'] \in Hash
      <3> HIDE DEF h
      <3> QED
        BY <2>2, <2>3 DEF Inv, TypeOK, Hash
    <2>5. choice' \in Choices
      BY <1>3 DEF Inv, TypeOK, DutyBringsAChoice, WriteHash
    <2>6. EndRequest(k) /\ UNCHANGED <<isActive, offer, hubVars, answerVars, owed>>
      BY <1>3 DEF WriteHash
    <2>7. /\ copy' \in [Requests -> Hash] /\ reading' \subseteq Requests
          /\ cancelled' \in Offers \cup {NoRoute} /\ DutyBringsAChoice'
      BY <1>2, <2>6
    <2> HIDE DEF h
    <2> QED
      BY <2>4, <2>5, <2>6, <2>7 DEF Inv, TypeOK
  <1>4. ASSUME NEW k \in Requests, RequestDies(k)
        PROVE  TypeOK' /\ DutyBringsAChoice'
    <2>1. EndRequest(k) /\ (UNCHANGED owed \/ owed' = owed \ {k})
      BY <1>4 DEF RequestDies
    <2> QED
      BY <1>2, <1>4, <2>1 DEF Inv, TypeOK, RequestDies
  <1>5. ASSUME DutyFails
        PROVE  TypeOK' /\ DutyBringsAChoice'
    <2>1. [st |-> st', route |-> route'] \in Hash
      BY <1>5 DEF Inv, TypeOK, DutyFails, SetHash, Hash, Requests
    <2>2. EndRequest("duty") /\ "duty" \in Requests /\ UNCHANGED owed
      BY <1>5 DEF DutyFails, Requests
    <2>3. /\ copy' \in [Requests -> Hash] /\ reading' \subseteq Requests
          /\ cancelled' \in Offers \cup {NoRoute} /\ DutyBringsAChoice'
      BY <1>2, <2>2
    <2>4. UNCHANGED <<choice, isActive, offer, hub, stage, seen, giving, accepting, owed>>
      BY <1>5 DEF DutyFails
    <2> QED
      BY <2>1, <2>3, <2>4 DEF Inv, TypeOK
  <1>6. UNCHANGED <<isActive, offer>> /\ RowShared' = RowShared
    BY DEF Rewriting, ReadHash, WriteHash, RequestDies, DutyFails, RowShared
  <1> QED
    BY <1>1, <1>3, <1>4, <1>5, <1>6, RestKept DEF Rewriting

(* The rebuild and an emptied Redis touch the hash and nothing else.       *)
LEMMA RebuildStep ==
  ASSUME Inv, RebuildRead \/ RebuildWrite \/ Flush
  PROVE  Inv'
  <1>1. CASE RebuildRead
    <2> DEFINE r == IF \E f \in Offers : IsRoute(f)
                    THEN CHOOSE f \in Offers : IsRoute(f) ELSE NoRoute
    <2>1. r \in Offers \cup {NoRoute}
      OBVIOUS
    <2>2. seen' = [choice |-> choice, isActive |-> isActive, route |-> r,
                   open |-> \E f \in Offers : IsOpen(f)]
      BY <1>1 DEF RebuildRead
    <2>3. seen' \in Reading
      <3> HIDE DEF r
      <3>1. (\E f \in Offers : IsOpen(f)) \in BOOLEAN
        OBVIOUS
      <3> QED
        BY <2>1, <2>2, <3>1 DEF Inv, TypeOK, Reading
    <2>4. TypeOK'
      BY <1>1, <2>3 DEF RebuildRead, Inv, TypeOK
    <2> QED
      BY <1>1, <2>4, RestKept DEF RebuildRead, RowShared, Inv, DutyBringsAChoice
  <1>2. CASE RebuildWrite
    <2>1. Seeded \in Hash
      BY DEF Inv, TypeOK, Seeded, Hash, Reading, LiveStatus, Choices
    <2>2. [st |-> st', route |-> route'] \in Hash
      <3>1. CASE st = "absent"
        BY <1>2, <2>1, <3>1 DEF RebuildWrite, SetHash, Hash
      <3>2. CASE st # "absent"
        BY <1>2, <3>2 DEF RebuildWrite, Corrected, CorrectStatusIf, SetHash, Inv, TypeOK,
                          Hash, Reading, LiveStatus
      <3> QED
        BY <3>1, <3>2
    <2>3. TypeOK'
      BY <1>2, <2>2, EmptyTyped DEF RebuildWrite, Finish, Inv, TypeOK
    <2> QED
      BY <1>2, <2>3, RestKept DEF RebuildWrite, Finish, RowShared, Inv, DutyBringsAChoice
  <1>3. CASE Flush
    <2>1. TypeOK'
      BY <1>3 DEF Flush, SetHash, Inv, TypeOK, Hash
    <2> QED
      BY <1>3, <2>1, RestKept DEF Flush, RowShared, Inv, DutyBringsAChoice
  <1> QED
    BY <1>1, <1>2, <1>3

\* The invariant holds at the start.
LEMMA InvInit ==
  ASSUME Init
  PROVE  Inv
  BY EmptyTyped
  DEF Init, Inv, TypeOK, NoWorkForSwitchedOff, OfferedOnlyToActive, DutyBringsAChoice,
      RowShared, HoldsWork, Choices, Hash, LiveStatus

\* And is kept by every step.
LEMMA InvStep ==
  ASSUME Inv, [Next]_vars
  PROVE  Inv'
  <1>1. CASE Next
    BY <1>1, OfferingStep, AnsweringStep, RequestingStep, RewritingStep, RebuildStep
    DEF Next, Others
  <1>2. CASE UNCHANGED vars
    BY <1>2 DEF vars, Inv, TypeOK, NoWorkForSwitchedOff, OfferedOnlyToActive,
                DutyBringsAChoice, RowShared, HoldsWork
  <1> QED
    BY <1>1, <1>2

\* The inductive invariant holds in every reachable state.
LEMMA InvHolds == Spec => []Inv
  BY InvInit, InvStep, PTL DEF Spec

(* Every variable has its type, and an offer is answered by one answer at  *)
(* a time: the row lock of decline, lapse, withdrawal and accept.          *)
THEOREM TypeCorrect == Spec => []TypeOK
  BY InvHolds, PTL DEF Inv

(* A switched-off driver holds no offer and no route: dispatch's check     *)
(* under the row's share lock, and the switch-off's refusal under the row  *)
(* lock, suffice, with requests interleaved anyhow and with every fault.   *)
THEOREM SwitchedOffHoldsNothing == Spec => []NoWorkForSwitchedOff
  BY InvHolds, PTL DEF Inv

-----------------------------------------------------------------------------
(***************************************************************************)
(* One job at a time, and the pool.  Both hold as long as the duty switch  *)
(* is left alone mid-job, a request's writes to the hash come right after  *)
(* its commit, and nothing fails: each of these is broken by a known gap   *)
(* of the code (README).                                                   *)
(***************************************************************************)
Calm == ~ DutyToggledMidJob /\ ~ HashWritesInterleave /\ Faults = {}

\* The work in the driver's hands; an offer being taken back has left them.
Jobs == {f \in Offers : IsOpen(f) \/ IsRoute(f)} \ giving

OneJob == \A f, g \in Jobs : f = g

\* The hash tells of the job: on its way to an answer, or on the road.
HashTellsTheJob ==
  /\ st # "absent"
  /\ \A f \in Jobs :
       IF IsRoute(f) \/ f \in accepting THEN st = "en_route" /\ route = f
       ELSE st = "offered"

\* A claimed driver has no job yet, and no request is in flight.
ClaimedIsIdle ==
  RowShared /\ stage = "claimed" =>
    st = "offered" /\ Jobs = {} /\ owed \cup reading = {}

InFlight == owed \cup reading

(* Only the load of a stop is written for a driver still at work, and a    *)
(* request that has read the hash still has it right: they come one at a   *)
(* time.                                                                   *)
RequestsInTurn ==
  /\ InFlight \subseteq {"load"} \/ Jobs = {}
  /\ owed \cap reading = {}
  /\ InFlight \subseteq {"load", "free"} \/ \E k \in Requests : InFlight \subseteq {k}
  /\ "free" \in reading => "load" \notin owed \cup reading
  /\ \A k \in reading \ {"duty"} : copy[k] = [st |-> st, route |-> route]

\* A driver in the pool or at work chose to be available, or is just leaving.
WorkingByChoice ==
  st \in {"available", "offered", "en_route"} =>
    choice = "available" \/ InFlight \cap {"duty", "switch_off"} # {}

\* No offer is made while the rebuild runs.
RebuildSawOffers ==
  hub = "rebuild" /\ ~ seen.open => \A f \in Offers : ~ IsOpen(f)

CalmInv ==
  /\ OneJob /\ HashTellsTheJob /\ ClaimedIsIdle
  /\ RequestsInTurn /\ WorkingByChoice /\ RebuildSawOffers

\* A step of the hub alone keeps what it does not speak of.
LEMMA HubStepKept ==
  ASSUME CalmInv, UNCHANGED <<pgVars, redisVars, answerVars, requestVars>>,
         ClaimedIsIdle', RebuildSawOffers'
  PROVE  CalmInv'
  BY DEF CalmInv, OneJob, HashTellsTheJob, RequestsInTurn, WorkingByChoice, InFlight, Jobs

\* With no job in hand and no request in flight only the status is at stake.
LEMMA IdleIsCalm ==
  ASSUME Jobs = {}, owed \cup reading = {}, st # "absent",
         st \in {"available", "offered", "en_route"} => choice = "available",
         ClaimedIsIdle, RebuildSawOffers
  PROVE  CalmInv
  BY DEF CalmInv, OneJob, HashTellsTheJob, RequestsInTurn, WorkingByChoice, InFlight,
         Requests

\* The same of the state a step leads to.
LEMMA IdleIsCalmNext ==
  ASSUME Jobs' = {}, (owed \cup reading)' = {}, st' # "absent",
         st' \in {"available", "offered", "en_route"} => choice' = "available",
         ClaimedIsIdle', RebuildSawOffers'
  PROVE  CalmInv'
  BY DEF CalmInv, OneJob, HashTellsTheJob, RequestsInTurn, WorkingByChoice, InFlight,
         Requests

\* The work in hand is open or a route, and a route is not being taken back.
LEMMA JobsAre ==
  ASSUME Inv
  PROVE  /\ Jobs = {f \in Offers : (IsOpen(f) /\ f \notin giving) \/ IsRoute(f)}
         /\ ~ HoldsWork => Jobs = {}
         /\ accepting \subseteq Jobs
  BY DEF Inv, TypeOK, Jobs, HoldsWork

(* Offers made: a driver is claimed from the pool, where nobody has a job, *)
(* and the offer committed to them is their only one.                      *)
LEMMA CalmOffering ==
  ASSUME Calm, Inv, CalmInv, owed \cup reading = {}, Offering
  PROVE  CalmInv'
  <1>1. CASE CyclePlan \/ CycleLock \/ AssignCheck \/ ClaimRefused \/ OfferDies
    BY <1>1, HubStepKept
    DEF CyclePlan, CycleLock, AssignCheck, ClaimRefused, OfferDies, Finish, Calm,
        ClaimedIsIdle, RebuildSawOffers, RowShared
  <1>2. st \in {"available", "offered", "en_route"} => choice = "available"
    BY DEF CalmInv, WorkingByChoice, InFlight
  <1>3. CASE CycleSwitchedOff
    <2>1. Jobs' = {}
      BY <1>3, JobsAre DEF CycleSwitchedOff, Inv, NoWorkForSwitchedOff, Jobs
    <2> QED
      BY <1>3, <2>1, IdleIsCalmNext
      DEF CycleSwitchedOff, Finish, SetHash, ClaimedIsIdle, RebuildSawOffers, RowShared
  <1>4. CASE Claim
    <2>1. Jobs = {} /\ Jobs' = Jobs
      BY <1>4 DEF Claim, Claimable, CalmInv, HashTellsTheJob, Jobs
    <2>2. /\ st' = "offered" /\ choice' = "available" /\ hub' # "rebuild"
          /\ (owed \cup reading)' = {}
      BY <1>2, <1>4 DEF Claim, Claimable, SetHash
    <2> QED
      BY <2>1, <2>2, IdleIsCalmNext DEF ClaimedIsIdle, RebuildSawOffers
  <1>5. CASE OfferFails
    <2>1. st = "offered" /\ Jobs = {} /\ Jobs' = Jobs
      BY <1>5 DEF OfferFails, CalmInv, ClaimedIsIdle, RowShared, Jobs
    <2> QED
      BY <1>2, <1>5, <2>1, IdleIsCalmNext
      DEF OfferFails, SetStatusIf, Finish, ClaimedIsIdle, RebuildSawOffers, RowShared
  <1>6. CASE OfferCommit
    <2>1. st = "offered" /\ Jobs = {}
      BY <1>6 DEF OfferCommit, CalmInv, ClaimedIsIdle, RowShared
    <2>2. PICK f \in Offers : Unused(f) /\ offer' = [offer EXCEPT ![f] = "offered"]
      BY <1>6 DEF OfferCommit
    <2>3. Jobs' = {f} /\ f \notin accepting /\ offer'[f] = "offered"
      BY <1>6, <2>1, <2>2 DEF OfferCommit, Unused, Inv, TypeOK, Jobs
    <2>4. OneJob' /\ HashTellsTheJob'
      BY <1>6, <2>1, <2>3 DEF OfferCommit, OneJob, HashTellsTheJob
    <2>5. hub' = "free" /\ stage' = "read"
          /\ UNCHANGED <<choice, st, route, owed, reading, copy>>
      BY <1>6 DEF OfferCommit, Finish
    <2> QED
      BY <2>4, <2>5 DEF CalmInv, ClaimedIsIdle, RebuildSawOffers, RowShared,
                        RequestsInTurn, WorkingByChoice, InFlight
  <1> QED
    BY <1>1, <1>3, <1>4, <1>5, <1>6 DEF Offering

(* Answers, and what becomes of the route: the one job there is goes from  *)
(* offer to route to nothing, and the hash with it.                        *)
LEMMA CalmAnswering ==
  ASSUME Calm, Inv, CalmInv, owed \cup reading = {}, NEW f \in Offers, Answering(f)
  PROVE  CalmInv'
  <1>0. /\ st \in {"available", "offered", "en_route"} => choice = "available"
        /\ \A g, h \in Jobs : g = h
        /\ st # "absent"
    BY DEF CalmInv, WorkingByChoice, InFlight, OneJob, HashTellsTheJob
  <1>1. CASE TakeBack(f)
    <2>1. f \in Jobs /\ f \notin accepting /\ ~ IsRoute(f)
      BY <1>1, JobsAre DEF TakeBack, Answerable
    <2>2. Jobs' = {}
      BY <1>0, <1>1, <2>1 DEF TakeBack, Jobs
    <2>3. st = "offered" /\ st' = "available"
      BY <1>1, <2>1 DEF CalmInv, HashTellsTheJob, TakeBack, SetStatusIf
    <2>4. ClaimedIsIdle' /\ RebuildSawOffers'
      BY <1>1, <2>1 DEF TakeBack, CalmInv, ClaimedIsIdle, RowShared, RebuildSawOffers
    <2> QED
      BY <1>0, <1>1, <2>2, <2>3, <2>4, IdleIsCalmNext DEF TakeBack
  <1>2. CASE TakeBackCommit(f)
    <2>1. Jobs' = Jobs /\ \A g \in Jobs : offer'[g] = offer[g]
      BY <1>2 DEF TakeBackCommit, Jobs, Inv, TypeOK
    <2>2. RebuildSawOffers'
      BY <1>2 DEF TakeBackCommit, CalmInv, RebuildSawOffers, Inv, TypeOK
    <2>3. UNCHANGED <<choice, st, route, hub, stage, accepting, owed, reading, copy>>
      BY <1>2 DEF TakeBackCommit
    <2> QED
      BY <2>1, <2>2, <2>3
      DEF CalmInv, OneJob, HashTellsTheJob, ClaimedIsIdle, RowShared, RequestsInTurn,
          WorkingByChoice, InFlight
  <1>3. CASE Accept(f) \/ AcceptCommit(f)
    <2>1. f \in Jobs
      BY <1>3, JobsAre DEF Accept, AcceptCommit, Answerable
    <2>2. Jobs' = Jobs /\ Jobs = {f}
      BY <1>0, <1>3, <2>1 DEF Accept, AcceptCommit, Jobs, Inv, TypeOK
    <2>3. st' = "en_route" /\ route' = f
      BY <1>3, <2>1 DEF Accept, AcceptCommit, SetHash, CalmInv, HashTellsTheJob
    <2>4. (IsRoute(f) \/ f \in accepting)'
      BY <1>3 DEF Accept, AcceptCommit, Inv, TypeOK
    <2>5. /\ UNCHANGED <<choice, hub, stage, seen, owed, reading, copy>>
          /\ choice = "available"
      <3>1. st \in {"offered", "en_route"}
        BY <2>1 DEF CalmInv, HashTellsTheJob
      <3> QED
        BY <1>0, <1>3, <3>1 DEF Accept, AcceptCommit
    <2>6. RebuildSawOffers'
      BY <1>3 DEF Accept, AcceptCommit, CalmInv, RebuildSawOffers, Inv, TypeOK
    <2>7. ~ (RowShared /\ stage = "claimed")
      BY <2>1 DEF CalmInv, ClaimedIsIdle
    <2> QED
      BY <2>2, <2>3, <2>4, <2>5, <2>6, <2>7
      DEF CalmInv, OneJob, HashTellsTheJob, ClaimedIsIdle, RowShared, RequestsInTurn,
          WorkingByChoice, InFlight
  <1>4. CASE StopDone(f)
    <2>1. f \in Jobs
      BY <1>4, JobsAre DEF StopDone
    <2>2. owed' = {"load"} /\ reading' = {} /\ Jobs' = Jobs
          /\ UNCHANGED <<pgVars, redisVars, hubVars, answerVars, copy>>
      BY <1>4 DEF StopDone, Jobs
    <2>3. ~ (RowShared /\ stage = "claimed")
      BY <2>1 DEF CalmInv, ClaimedIsIdle
    <2> QED
      BY <1>0, <2>2, <2>3
      DEF CalmInv, OneJob, HashTellsTheJob, ClaimedIsIdle, RowShared, RequestsInTurn,
          WorkingByChoice, RebuildSawOffers, InFlight
  <1>5. CASE RouteEnds(f) \/ CancelEndsRoute(f)
    <2>1. f \in Jobs
      BY <1>5, JobsAre DEF RouteEnds, CancelEndsRoute
    <2>2. Jobs' = {}
      BY <1>0, <1>5, <2>1 DEF RouteEnds, CancelEndsRoute, Jobs, Inv, TypeOK
    <2>3. /\ owed' \in {{"load", "free"}, {"cancel_free"}} /\ reading' = {}
          /\ UNCHANGED <<choice, redisVars, hubVars, answerVars, copy>>
      BY <1>5 DEF RouteEnds, CancelEndsRoute
    <2>4. ~ (RowShared /\ stage = "claimed")
      BY <2>1 DEF CalmInv, ClaimedIsIdle
    <2>5. RebuildSawOffers'
      BY <1>5 DEF RouteEnds, CancelEndsRoute, CalmInv, RebuildSawOffers, Inv, TypeOK
    <2> QED
      BY <1>0, <2>2, <2>3, <2>4, <2>5
      DEF CalmInv, OneJob, HashTellsTheJob, ClaimedIsIdle, RowShared, RequestsInTurn,
          WorkingByChoice, InFlight, Requests
  <1> QED
    BY <1>1, <1>2, <1>3, <1>4, <1>5
    DEF Answering, TakeBackFails, AcceptFails, Calm

(* Switch-offs and duty switches, of a driver without work.                *)
LEMMA CalmRequesting ==
  ASSUME Calm, Inv, CalmInv, owed \cup reading = {}, Requesting
  PROVE  CalmInv'
  <1>0. /\ st \in {"available", "offered", "en_route"} => choice = "available"
        /\ st # "absent"
    BY DEF CalmInv, WorkingByChoice, InFlight, HashTellsTheJob
  <1>1. CASE SwitchOn
    BY <1>1
    DEF SwitchOn, CalmInv, OneJob, Jobs, HashTellsTheJob, ClaimedIsIdle, RowShared,
        RequestsInTurn, WorkingByChoice, RebuildSawOffers, InFlight
  <1>2. ASSUME NEW k \in {"switch_off", "off_again", "duty"},
               owed' \cup reading' = {k}, owed' \cap reading' = {}, ~ HoldsWork, ~ RowShared,
               k = "off_again" => UNCHANGED choice,
               k \in reading' => k = "duty" \/ copy'[k] = [st |-> st, route |-> route],
               UNCHANGED <<offer, redisVars, hubVars, answerVars>>
        PROVE  CalmInv'
    <2>1. Jobs' = {}
      BY <1>2, JobsAre DEF Jobs
    <2> QED
      BY <1>0, <1>2, <2>1
      DEF CalmInv, OneJob, HashTellsTheJob, ClaimedIsIdle, RowShared, RequestsInTurn,
          WorkingByChoice, RebuildSawOffers, InFlight, Requests
  <1>3. CASE SwitchOff
    BY <1>2, <1>3 DEF SwitchOff
  <1>4. CASE SwitchOffAgain
    BY <1>2, <1>4 DEF SwitchOffAgain, Inv, NoWorkForSwitchedOff, OfferedOnlyToActive,
                      TypeOK, Requests
  <1>5. ASSUME NEW s \in Choices, DutySwitch(s)
        PROVE  CalmInv'
    BY <1>2, <1>5 DEF DutySwitch, Calm
  <1> QED
    BY <1>1, <1>3, <1>4, <1>5 DEF Requesting

\* A request that is being read for is the only one, but for a load before a free.
LEMMA ReadingAlone ==
  ASSUME CalmInv, NEW k \in reading
  PROVE  /\ k \notin owed
         /\ k # "load" => Jobs = {} /\ owed \cup reading = {k}
         /\ k = "load" => owed \cup reading \subseteq {"load", "free"} /\ reading = {"load"}
  BY DEF CalmInv, RequestsInTurn, InFlight

(* The hash read and written back: by a request that comes alone, so that  *)
(* what it read is what it writes over.                                    *)
LEMMA CalmRewriting ==
  ASSUME Calm, Inv, CalmInv, Rewriting
  PROVE  CalmInv'
  <1>1. ASSUME NEW k \in Requests, ReadHash(k)
        PROVE  CalmInv'
    <2>1. /\ owed' = owed \ {k} /\ reading' = reading \cup {k} /\ k \in owed
          /\ copy' = [copy EXCEPT ![k] = [st |-> st, route |-> route]]
          /\ UNCHANGED <<pgVars, redisVars, hubVars, answerVars>>
          /\ k = "free" => "load" \notin owed \cup reading
      BY <1>1 DEF ReadHash
    <2>2. Jobs' = Jobs /\ InFlight' = InFlight
      BY <2>1 DEF Jobs, InFlight
    <2>3. RequestsInTurn'
      <3>1. \A j \in reading' \ {"duty"} : copy'[j] = [st |-> st, route |-> route]
        BY <2>1 DEF CalmInv, RequestsInTurn, Inv, TypeOK
      <3>2. "free" \in reading' => "load" \notin owed' \cup reading'
        BY <2>1 DEF CalmInv, RequestsInTurn
      <3>3. owed' \cap reading' = {}
        BY <2>1 DEF CalmInv, RequestsInTurn
      <3> QED
        BY <2>1, <2>2, <3>1, <3>2, <3>3 DEF CalmInv, RequestsInTurn
    <2>4. ClaimedIsIdle'
      BY <2>1, <2>2 DEF CalmInv, ClaimedIsIdle, RowShared, InFlight
    <2> QED
      BY <2>1, <2>2, <2>3, <2>4
      DEF CalmInv, OneJob, HashTellsTheJob, WorkingByChoice, RebuildSawOffers
  <1>2. ASSUME NEW k \in Requests, WriteHash(k)
        PROVE  CalmInv'
    <2> DEFINE h == Rewritten(k, copy[k])
    <2>1. /\ k \in reading /\ reading' = reading \ {k}
          /\ copy' = [copy EXCEPT ![k] = Absent]
          /\ choice' = (IF k = "duty" THEN copy[k].st ELSE choice)
          /\ UNCHANGED <<isActive, offer, hubVars, answerVars, owed>>
      BY <1>2 DEF WriteHash, EndRequest
    <2>2. /\ st' = (IF h.st = "absent" THEN st ELSE h.st)
          /\ route' = (IF h.st = "absent" THEN route ELSE h.route)
      BY <1>2 DEF WriteHash, SetHash
    <2>3. Jobs' = Jobs
      BY <2>1 DEF Jobs
    <2>4. ~ (RowShared /\ stage = "claimed")
      BY <2>1 DEF CalmInv, ClaimedIsIdle
    <2>5. ClaimedIsIdle' /\ RebuildSawOffers'
      BY <2>1, <2>4 DEF CalmInv, ClaimedIsIdle, RowShared, RebuildSawOffers
    <2>6. st # "absent" /\ (k # "duty" => copy[k] = [st |-> st, route |-> route])
      BY <2>1 DEF CalmInv, HashTellsTheJob, RequestsInTurn
    <2>7. CASE k = "load"
      <3>1. h = copy[k]
        BY <2>7 DEF Rewritten
      <3>2. UNCHANGED <<st, route, choice>>
        BY <2>1, <2>2, <2>6, <2>7, <3>1
      <3>3. reading' = {} /\ owed \subseteq {"free"} /\ InFlight' = owed
            /\ owed \subseteq InFlight /\ InFlight \subseteq {"load", "free"}
        BY <2>1, <2>7, ReadingAlone DEF InFlight
      <3>4. RequestsInTurn' /\ WorkingByChoice'
        BY <2>1, <2>3, <3>2, <3>3 DEF CalmInv, RequestsInTurn, WorkingByChoice
      <3> QED
        BY <2>1, <2>3, <2>5, <3>2, <3>4 DEF CalmInv, OneJob, HashTellsTheJob
    <2>8. CASE k # "load"
      <3>1. Jobs' = {} /\ (owed \cup reading)' = {} /\ InFlight = {k}
        BY <2>1, <2>3, <2>8, ReadingAlone DEF InFlight
      <3>2. CASE k = "duty"
        <4>1. h = copy[k] /\ copy[k].st \in Choices
          BY <2>1, <3>2 DEF Rewritten, Inv, DutyBringsAChoice
        <4>2. st' \in Choices /\ choice' = st'
          BY <2>1, <2>2, <3>2, <4>1 DEF Choices
        <4> QED
          BY <2>5, <3>1, <4>2, IdleIsCalmNext DEF Choices
      <3>3. st' # "absent" /\ (k # "duty" => choice' = choice)
        BY <2>1, <2>2, <2>6
      <3>4. ASSUME k \in {"free", "cancel_free"}
            PROVE  /\ choice' = choice
                   /\ st' \in {"available", "offered", "en_route"} => choice = "available"
        <4>1. st \in {"available", "offered", "en_route"} => choice = "available"
          BY <3>1, <3>4 DEF CalmInv, WorkingByChoice
        <4>2. st \in LiveStatus
          BY <2>6 DEF Inv, TypeOK, Hash
        <4>3. st' \in {"available", "offered", "en_route"} =>
                st \in {"available", "offered", "en_route"}
          BY <2>2, <2>6, <3>4, <4>2 DEF Rewritten, Absent, LiveStatus, Choices
        <4> QED
          BY <3>3, <3>4, <4>1, <4>3
      <3>5. ASSUME k \in {"switch_off", "off_again"}
            PROVE  choice' = choice /\ st' = "off_shift"
        BY <2>2, <2>6, <3>3, <3>5 DEF Rewritten, Absent
      <3> QED
        BY <2>5, <2>8, <3>1, <3>2, <3>3, <3>4, <3>5, IdleIsCalmNext DEF Requests
    <2> QED
      BY <2>7, <2>8
  <1> QED
    BY <1>1, <1>2 DEF Rewriting, RequestDies, DutyFails, Calm

(* The rebuild corrects only a hash that tells of no job.                  *)
LEMMA CalmRebuild ==
  ASSUME Calm, Inv, CalmInv, owed \cup reading = {},
         RebuildRead \/ RebuildWrite \/ Flush
  PROVE  CalmInv'
  <1>1. CASE RebuildRead
    BY <1>1, HubStepKept
    DEF RebuildRead, ClaimedIsIdle, RowShared, RebuildSawOffers
  <1>2. CASE RebuildWrite
    <2>1. st # "absent" /\ (st \in {"offered", "en_route"} => choice = "available")
      BY DEF CalmInv, HashTellsTheJob, WorkingByChoice, InFlight
    <2>2. Corrected /\ hub = "rebuild" /\ hub' = "free" /\ stage' = "read"
          /\ UNCHANGED <<pgVars, answerVars, requestVars>>
      BY <1>2, <2>1 DEF RebuildWrite, Finish
    <2>3. ClaimedIsIdle' /\ RebuildSawOffers' /\ Jobs' = Jobs
      BY <2>2 DEF ClaimedIsIdle, RebuildSawOffers, RowShared, Jobs
    <2>4. CASE UNCHANGED redisVars
      BY <2>2, <2>3, <2>4
      DEF CalmInv, OneJob, HashTellsTheJob, RequestsInTurn, WorkingByChoice, InFlight
    <2>5. CASE st = "offered" /\ ~ seen.open /\ CorrectStatusIf("offered", seen.choice)
      <3>1. Jobs = {}
        BY <2>2, <2>5 DEF CalmInv, RebuildSawOffers, HashTellsTheJob, Jobs
      <3>2. st' \in Choices
        BY <2>5 DEF CorrectStatusIf, SetHash, Inv, TypeOK, Reading
      <3> QED
        BY <2>1, <2>2, <2>3, <2>5, <3>1, <3>2, IdleIsCalmNext DEF Choices
    <2>6. CASE /\ st = "en_route" /\ route \in Offers /\ offer[route] = "ended"
               /\ CorrectStatusIf("en_route", seen.choice)
      <3>1. Jobs = {}
        BY <2>6, JobsAre DEF CalmInv, HashTellsTheJob, Inv, TypeOK, Jobs
      <3>2. st' \in Choices
        BY <2>6 DEF CorrectStatusIf, SetHash, Inv, TypeOK, Reading
      <3> QED
        BY <2>1, <2>2, <2>3, <2>6, <3>1, <3>2, IdleIsCalmNext DEF Choices
    <2> QED
      BY <2>2, <2>4, <2>5, <2>6 DEF Corrected
  <1> QED
    BY <1>1, <1>2 DEF Flush, Calm

\* The calm invariant holds at the start.
LEMMA CalmInit ==
  ASSUME Init
  PROVE  CalmInv
  BY IdleIsCalm
  DEF Init, Jobs, ClaimedIsIdle, RebuildSawOffers, RowShared

\* And is kept by every step.
LEMMA CalmStep ==
  ASSUME Calm, Inv, CalmInv, [Next]_vars
  PROVE  CalmInv'
  <1>1. CASE Next
    BY <1>1, CalmOffering, CalmAnswering, CalmRequesting, CalmRewriting, CalmRebuild
    DEF Next, Others, Calm
  <1>2. CASE UNCHANGED vars
    BY <1>2
    DEF vars, CalmInv, OneJob, Jobs, HashTellsTheJob, ClaimedIsIdle, RowShared,
        RequestsInTurn, WorkingByChoice, RebuildSawOffers, InFlight
  <1> QED
    BY <1>1, <1>2

\* The calm invariant holds in every reachable state.
LEMMA CalmHolds ==
  ASSUME Calm
  PROVE  Spec => []CalmInv
  <1>1. Init => CalmInv
    BY CalmInit
  <1>2. Inv /\ CalmInv /\ [Next]_vars => CalmInv'
    BY CalmStep
  <1> QED
    BY <1>1, <1>2, InvHolds, PTL DEF Spec

(* One job at a time (app/fleet_state/manager.py): claim_for_offer takes   *)
(* only an available driver, the hash of a driver at work says so, and     *)
(* nothing but the end of the job puts them back.  For any number of       *)
(* offers, of a driver who leaves the duty switch alone mid-job.           *)
THEOREM OneJobOfADriver ==
  ASSUME Calm
  PROVE  Spec => []OneJobAtATime
  <1>1. CalmInv => OneJobAtATime
    <2> SUFFICES ASSUME CalmInv PROVE OneJobAtATime
      OBVIOUS
    <2>1. CASE Jobs = {}
      BY <2>1, FS_EmptySet DEF OneJobAtATime, Jobs
    <2>2. CASE Jobs # {}
      <3>1. PICK f \in Jobs : TRUE
        BY <2>2
      <3>2. Jobs = {f}
        BY <3>1 DEF CalmInv, OneJob
      <3>3. Cardinality(Jobs) = 1
        BY <3>2, FS_Singleton
      <3> QED
        BY <3>3 DEF OneJobAtATime, Jobs
    <2> QED
      BY <2>1, <2>2
  <1> QED
    BY <1>1, CalmHolds, PTL

(* Nothing of dispatch's puts a driver into the pool who chose to be away: *)
(* neither a route's end, nor a cancellation, nor an offer taken back, nor *)
(* the rebuild.  Under the same conditions.                                *)
THEOREM PoolIsByChoice ==
  ASSUME Calm
  PROVE  Spec => []PoolRespectsChoice
  <1>1. CalmInv => PoolRespectsChoice
    BY DEF CalmInv, WorkingByChoice, InFlight, PoolRespectsChoice
  <1> QED
    BY <1>1, CalmHolds, PTL

=============================================================================
