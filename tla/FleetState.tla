----------------------------- MODULE FleetState -----------------------------
(***************************************************************************)
(* One driver in dispatch's pool.  Their live state is a hash in Redis     *)
(* (app/fleet_state/manager.py): a status and the route they are on.  It   *)
(* is written by the dispatch cycle and a dispatcher's assign, which claim *)
(* the driver for an offer; by the driver's own app (going on and off      *)
(* duty, answering an offer, finishing stops); by dispatch's cancel; by a  *)
(* switch-off; and by the rebuild from Postgres.  Several of these read    *)
(* the hash and write the whole of it back.  Postgres keeps the driver's   *)
(* own choice, whether they are switched on, their offers and routes.      *)
(*                                                                         *)
(* Drivers do not share state, so one is modelled.  Cycle, assign and      *)
(* rebuild exclude each other by the hub lock (HubEventBus); one variable  *)
(* says which of them is running.  Load and capacity are left out.         *)
(***************************************************************************)
EXTENDS Naturals, FiniteSets

CONSTANTS
  Offers,            \* ids of the driver's offers and of the routes they become
  NoRoute,
  DutyToggledMidJob, \* the driver uses the duty switch with work in hand
  HashWritesInterleave, \* others run between a request's commit, its read of
                        \* the hash and its write, which are separate calls
  Faults             \* which of the faults below this instance may meet

\* "crash": a process dies or its commit fails; "flush": Redis is emptied.
FaultKinds == {"crash", "flush"}

ASSUME ConstantsAssumption ==
  /\ NoRoute \notin Offers
  /\ DutyToggledMidJob \in BOOLEAN
  /\ HashWritesInterleave \in BOOLEAN
  /\ Faults \subseteq FaultKinds

VARIABLES
  choice,     \* drivers.status: what the driver last chose
  isActive,   \* drivers.is_active
  offer,      \* offer[f]: "none", "offered", "active" (a route), "ended"
  st, route,  \* the Redis hash; st = "absent" when there is none
  hub,        \* who runs under the hub lock: "free", "cycle", "assign", "rebuild"
  stage,      \* how far that run is: "read", "locked" (driver row), "claimed"
  seen,       \* what it read at its start
  giving,     \* offers being taken back, Redis written and not committed
  accepting,  \* offers being accepted, Redis written and not committed
  owed,       \* Redis writes a committed request still has to make
  reading,    \* those between their read of the hash and their write
  copy,       \* copy[k]: the hash as request k read it
  cancelled   \* the route dispatch's cancel has ended, its driver not yet freed

pgVars == <<choice, isActive, offer>>
redisVars == <<st, route>>
hubVars == <<hub, stage, seen>>
answerVars == <<giving, accepting>>
requestVars == <<owed, reading, copy, cancelled>>
vars == <<pgVars, redisVars, hubVars, answerVars, requestVars>>

Choices == {"available", "on_break", "off_shift"}
LiveStatus == Choices \cup {"offered", "en_route"}
Hash == [st : LiveStatus \cup {"absent"}, route : Offers \cup {NoRoute}]
Absent == [st |-> "absent", route |-> NoRoute]

(* The requests that read the hash and write it back: a duty switch, the   *)
(* load after a stop, the driver freed after their last stop, freed by     *)
(* dispatch's cancel of that stop, taken off shift by a switch-off and by  *)
(* one of a driver already off.                                            *)
Requests == {"duty", "load", "free", "cancel_free", "switch_off", "off_again"}

Reading == [choice : Choices, isActive : BOOLEAN, route : Offers \cup {NoRoute},
            open : BOOLEAN]
NothingSeen == [choice |-> "off_shift", isActive |-> FALSE, route |-> NoRoute,
                open |-> FALSE]

IsOpen(f) == offer[f] = "offered"
IsRoute(f) == offer[f] = "active"
HoldsWork == \E f \in Offers : IsOpen(f) \/ IsRoute(f)

\* An id no row and no hash still names.
Unused(f) ==
  /\ offer[f] \in {"none", "ended"}
  /\ route # f
  /\ \A k \in reading : copy[k].route # f
  /\ f \notin {seen.route, cancelled}

SetHash(s, r) == st' = s /\ route' = r

\* The claim scripts, each one step in Redis.
SetStatusIf(expect, new) == st' = (IF st = expect THEN new ELSE st) /\ UNCHANGED route
CorrectStatusIf(expect, new) ==
  IF st = expect THEN SetHash(new, NoRoute) ELSE UNCHANGED redisVars

Init ==
  /\ choice = "available" /\ isActive = TRUE
  /\ offer = [f \in Offers |-> "none"]
  /\ st = "available" /\ route = NoRoute
  /\ hub = "free" /\ stage = "read" /\ seen = NothingSeen
  /\ giving = {} /\ accepting = {}
  /\ owed = {} /\ reading = {} /\ copy = [k \in Requests |-> Absent]
  /\ cancelled = NoRoute

-----------------------------------------------------------------------------
(* Offers, made under the hub lock.                                        *)

Finish == hub' = "free" /\ stage' = "read" /\ seen' = NothingSeen

\* The cycle's fleet snapshot holds every available driver.
CyclePlan ==
  /\ hub = "free"
  /\ st = "available"
  /\ hub' = "cycle" /\ stage' = "read"
  /\ seen' = [NothingSeen EXCEPT !.route = route]
  /\ UNCHANGED <<pgVars, redisVars, answerVars, requestVars>>

\* The driver's row is held by a duty switch until it commits, and by a
\* switch-off that finds the driver off already until it has written.
RowHeld == {"duty", "off_again"} \cap reading # {}

\* The cycle share-locks the row; a switched-on driver goes on to the claim.
CycleLock ==
  /\ hub = "cycle" /\ stage = "read"
  /\ ~ RowHeld
  /\ isActive
  /\ stage' = "locked"
  /\ UNCHANGED <<pgVars, redisVars, hub, seen, answerVars, requestVars>>

(* A switched-off driver's orders go back (which would free them from      *)
(* `offered`), and their hash is written off shift from the snapshot.      *)
CycleSwitchedOff ==
  /\ hub = "cycle" /\ stage = "read"
  /\ ~ RowHeld
  /\ ~ isActive
  /\ SetHash("off_shift", seen.route)
  /\ Finish
  /\ UNCHANGED <<pgVars, answerVars, requestVars>>

\* A dispatcher's assign: the row share-locked, an idle driver with no route.
AssignCheck ==
  /\ hub = "free"
  /\ ~ RowHeld
  /\ isActive
  /\ st = "available" /\ route = NoRoute
  /\ hub' = "assign" /\ stage' = "locked" /\ seen' = NothingSeen
  /\ UNCHANGED <<pgVars, redisVars, answerVars, requestVars>>

\* Mutant: the status is read, and `offered` written over whatever it is now.
Claimable_ReadEarlier == TRUE

\* claim_for_offer matches only an available driver.
Claimable == st = "available"

Claim ==
  /\ hub \in {"cycle", "assign"} /\ stage = "locked"
  /\ Claimable
  /\ ~ (hub = "assign" /\ route # NoRoute)
  /\ SetHash("offered", route)
  /\ stage' = "claimed"
  /\ UNCHANGED <<pgVars, hub, seen, answerVars, requestVars>>

\* Taken since; or claimed by an assign with a route named, and given back.
ClaimRefused ==
  /\ hub \in {"cycle", "assign"} /\ stage = "locked"
  /\ ~ Claimable \/ (hub = "assign" /\ route # NoRoute)
  /\ Finish
  /\ UNCHANGED <<pgVars, redisVars, answerVars, requestVars>>

OfferCommit ==
  /\ hub \in {"cycle", "assign"} /\ stage = "claimed"
  /\ \E f \in Offers : Unused(f) /\ offer' = [offer EXCEPT ![f] = "offered"]
  /\ Finish
  /\ UNCHANGED <<choice, isActive, redisVars, answerVars, requestVars>>

\* The offer does not commit: give_back_claim.
OfferFails ==
  /\ hub \in {"cycle", "assign"} /\ stage = "claimed"
  /\ SetStatusIf("offered", "available")
  /\ Finish
  /\ UNCHANGED <<pgVars, answerVars, requestVars>>

OfferDies ==
  /\ "crash" \in Faults
  /\ hub \in {"cycle", "assign"}
  /\ Finish
  /\ UNCHANGED <<pgVars, redisVars, answerVars, requestVars>>

-----------------------------------------------------------------------------
(* Offers answered.  Redis is written before the commit in both.           *)

\* Mutant: the offer's row is not locked by whoever answers it.
Answerable_Unlocked(f) == IsOpen(f)

\* An answer holds the offer's row from its check to its commit.
Answerable(f) == IsOpen(f) /\ f \notin giving \cup accepting

\* Declined, lapsed or withdrawn.
TakeBack(f) ==
  /\ Answerable(f)
  /\ giving' = giving \cup {f}
  /\ SetStatusIf("offered", "available")
  /\ UNCHANGED <<pgVars, hubVars, accepting, requestVars>>

TakeBackCommit(f) ==
  /\ f \in giving
  /\ giving' = giving \ {f}
  /\ offer' = [offer EXCEPT ![f] = "none"]
  /\ UNCHANGED <<choice, isActive, redisVars, hubVars, accepting, requestVars>>

TakeBackFails(f) ==
  /\ "crash" \in Faults
  /\ f \in giving
  /\ giving' = giving \ {f}
  /\ UNCHANGED <<pgVars, redisVars, hubVars, accepting, requestVars>>

Accept(f) ==
  /\ Answerable(f)
  /\ accepting' = accepting \cup {f}
  /\ SetHash("en_route", f)
  /\ UNCHANGED <<pgVars, hubVars, giving, requestVars>>

AcceptCommit(f) ==
  /\ f \in accepting
  /\ accepting' = accepting \ {f}
  /\ offer' = [offer EXCEPT ![f] = "active"]
  /\ UNCHANGED <<choice, isActive, redisVars, hubVars, giving, requestVars>>

AcceptFails(f) ==
  /\ "crash" \in Faults
  /\ f \in accepting
  /\ accepting' = accepting \ {f}
  /\ UNCHANGED <<pgVars, redisVars, hubVars, giving, requestVars>>

-----------------------------------------------------------------------------
(* The route, and the requests that write the hash after their commit.     *)

\* The app sends a driver's taps one at a time.
NoTapInFlight == {"load", "free"} \cap (owed \cup reading) = {}

StopDone(f) ==
  /\ IsRoute(f)
  /\ NoTapInFlight
  /\ owed' = owed \cup {"load"}
  /\ UNCHANGED <<pgVars, redisVars, hubVars, answerVars, reading, copy, cancelled>>

\* The driver's last stop: the route is completed, then the driver freed.
RouteEnds(f) ==
  /\ IsRoute(f)
  /\ NoTapInFlight
  /\ offer' = [offer EXCEPT ![f] = "ended"]
  /\ owed' = owed \cup {"load", "free"}
  /\ UNCHANGED <<choice, isActive, redisVars, hubVars, answerVars, reading, copy,
                 cancelled>>

\* Dispatch cancels the route's last order.
CancelEndsRoute(f) ==
  /\ IsRoute(f)
  /\ cancelled = NoRoute
  /\ offer' = [offer EXCEPT ![f] = "ended"]
  /\ owed' = owed \cup {"cancel_free"}
  /\ cancelled' = f
  /\ UNCHANGED <<choice, isActive, redisVars, hubVars, answerVars, reading, copy>>

\* Mutant: a switch-off does not wait for a cycle writing this driver an offer.
RowShared_Unlocked == FALSE

\* The row is share-locked by a cycle or an assign until its commit.
RowShared == hub \in {"cycle", "assign"} /\ stage \in {"locked", "claimed"}

SwitchOff ==
  /\ isActive
  /\ ~ RowHeld /\ ~ RowShared
  /\ ~ HoldsWork
  /\ isActive' = FALSE
  /\ choice' = "off_shift"
  /\ owed' = owed \cup {"switch_off"}
  /\ UNCHANGED <<offer, redisVars, hubVars, answerVars, reading, copy, cancelled>>

\* Already off: the fleet state is put right again, the row locked.
SwitchOffAgain ==
  /\ ~ isActive
  /\ ~ RowHeld
  /\ reading' = reading \cup {"off_again"}
  /\ copy' = [copy EXCEPT !["off_again"] = [st |-> st, route |-> route]]
  /\ UNCHANGED <<pgVars, redisVars, hubVars, answerVars, owed, cancelled>>

SwitchOn ==
  /\ ~ isActive
  /\ ~ RowHeld
  /\ isActive' = TRUE
  /\ UNCHANGED <<choice, offer, redisVars, hubVars, answerVars, requestVars>>

\* update_my_availability: the row locked, the hash read for its route.
DutySwitch(s) ==
  /\ isActive
  /\ ~ RowHeld /\ ~ RowShared
  /\ DutyToggledMidJob \/ ~ HoldsWork
  /\ reading' = reading \cup {"duty"}
  /\ copy' = [copy EXCEPT !["duty"] = [st |-> s, route |-> route]]
  /\ UNCHANGED <<pgVars, redisVars, hubVars, answerVars, owed, cancelled>>

\* The load is written before the driver is freed, by the same request.
ReadHash(k) ==
  /\ k \in owed \ reading
  /\ k = "free" => "load" \notin owed \cup reading
  /\ owed' = owed \ {k}
  /\ reading' = reading \cup {k}
  /\ copy' = [copy EXCEPT ![k] = [st |-> st, route |-> route]]
  /\ UNCHANGED <<pgVars, redisVars, hubVars, answerVars, cancelled>>

EndRequest(k) ==
  /\ reading' = reading \ {k}
  /\ copy' = [copy EXCEPT ![k] = Absent]
  /\ cancelled' = IF k = "cancel_free" THEN NoRoute ELSE cancelled

\* What each request makes of the hash it read; h.st = "absent" is no hash.
Rewritten(k, h) ==
  CASE k = "duty" -> h
    [] k = "load" -> h
    [] k = "free" ->
         [st |-> IF h.st \in {"on_break", "off_shift"} THEN h.st ELSE "available",
          route |-> NoRoute]
    [] k = "cancel_free" ->
         IF h.st # "absent" /\ h.route = cancelled
         THEN [st |-> IF h.st = "en_route" THEN "available" ELSE h.st,
               route |-> NoRoute]
         ELSE Absent
    [] k \in {"switch_off", "off_again"} ->
         IF h.st \in {"absent", "off_shift"} THEN Absent
         ELSE [st |-> "off_shift", route |-> h.route]

\* Written back whole; a request with nothing to write leaves the hash.
WriteHash(k) ==
  /\ k \in reading
  /\ LET h == Rewritten(k, copy[k])
     IN IF h.st = "absent" THEN UNCHANGED redisVars ELSE SetHash(h.st, h.route)
  /\ choice' = IF k = "duty" THEN copy[k].st ELSE choice
  /\ EndRequest(k)
  /\ UNCHANGED <<isActive, offer, hubVars, answerVars, owed>>

\* A duty switch whose commit fails after the hash was written.
DutyFails ==
  /\ "crash" \in Faults
  /\ "duty" \in reading
  /\ SetHash(copy["duty"].st, copy["duty"].route)
  /\ EndRequest("duty")
  /\ UNCHANGED <<pgVars, hubVars, answerVars, owed>>

RequestDies(k) ==
  /\ "crash" \in Faults
  /\ \/ k \in reading /\ EndRequest(k) /\ UNCHANGED owed
     \/ k \in owed \ reading /\ owed' = owed \ {k} /\ EndRequest(k)
  /\ UNCHANGED <<pgVars, redisVars, hubVars, answerVars>>

-----------------------------------------------------------------------------
(* The rebuild: Postgres read once, then the driver seeded or corrected.   *)

RebuildRead ==
  /\ hub = "free"
  /\ hub' = "rebuild" /\ stage' = "read"
  /\ seen' = [choice |-> choice, isActive |-> isActive,
              route |-> IF \E f \in Offers : IsRoute(f)
                        THEN CHOOSE f \in Offers : IsRoute(f) ELSE NoRoute,
              open |-> \E f \in Offers : IsOpen(f)]
  /\ UNCHANGED <<pgVars, redisVars, answerVars, requestVars>>

Seeded ==
  IF ~ seen.isActive THEN [st |-> "off_shift", route |-> NoRoute]
  ELSE IF seen.route # NoRoute THEN [st |-> "en_route", route |-> seen.route]
  ELSE IF seen.open /\ seen.choice = "available"
  THEN [st |-> "offered", route |-> NoRoute]
  ELSE [st |-> seen.choice, route |-> NoRoute]

\* Mutant: the rebuild only seeds what is missing.
Corrected_Never == UNCHANGED redisVars

\* Mutant: any `offered` driver is put back, their offer open or not.
Corrected_OpenOfferIgnored ==
  IF seen.isActive /\ st = "offered" THEN CorrectStatusIf("offered", seen.choice)
  ELSE UNCHANGED redisVars

(* `offered` with no open offer, and `en_route` on a route that has ended, *)
(* go back to the driver's choice; a route id with no row is left.         *)
Corrected ==
  IF seen.isActive /\ st = "offered" /\ ~ seen.open
  THEN CorrectStatusIf("offered", seen.choice)
  ELSE IF seen.isActive /\ st = "en_route" /\ route \in Offers /\ offer[route] = "ended"
  THEN CorrectStatusIf("en_route", seen.choice)
  ELSE UNCHANGED redisVars

RebuildWrite ==
  /\ hub = "rebuild"
  /\ IF st = "absent" THEN SetHash(Seeded.st, Seeded.route) ELSE Corrected
  /\ Finish
  /\ UNCHANGED <<pgVars, answerVars, requestVars>>

Flush ==
  /\ "flush" \in Faults
  /\ SetHash("absent", NoRoute)
  /\ UNCHANGED <<pgVars, hubVars, answerVars, requestVars>>

-----------------------------------------------------------------------------

Offering ==
  \/ CyclePlan \/ CycleLock \/ CycleSwitchedOff \/ AssignCheck
  \/ Claim \/ ClaimRefused \/ OfferCommit \/ OfferFails \/ OfferDies

Answering(f) ==
  \/ TakeBack(f) \/ TakeBackCommit(f) \/ TakeBackFails(f)
  \/ Accept(f) \/ AcceptCommit(f) \/ AcceptFails(f)
  \/ StopDone(f) \/ RouteEnds(f) \/ CancelEndsRoute(f)

Requesting ==
  \/ SwitchOff \/ SwitchOffAgain \/ SwitchOn
  \/ \E s \in Choices : DutySwitch(s)

Rewriting ==
  \/ \E k \in Requests : ReadHash(k) \/ WriteHash(k) \/ RequestDies(k)
  \/ DutyFails

Others ==
  \/ Offering
  \/ \E f \in Offers : Answering(f)
  \/ Requesting
  \/ RebuildRead \/ RebuildWrite
  \/ Flush

Next ==
  \/ Rewriting
  \/ (HashWritesInterleave \/ owed \cup reading = {}) /\ Others

Spec == Init /\ [][Next]_vars

\* A request that has started finishes; an answered offer's transaction too.
Proceeds ==
  \/ CycleLock \/ CycleSwitchedOff \/ Claim \/ ClaimRefused \/ OfferCommit \/ OfferFails

(***************************************************************************)
(* Handlers finish, and a handler waiting for a row lock gets its turn     *)
(* (Postgres queues the waiters).  The rebuild, which skips a hub whose    *)
(* lock is taken and comes back every five minutes, is not kept out for    *)
(* ever, and the sweep takes back an offer nobody answers.  Nothing        *)
(* obliges the driver or a dispatcher to do anything.                      *)
(***************************************************************************)
Fairness ==
  /\ SF_vars(Proceeds)
  /\ \A f \in Offers :
       /\ SF_vars(TakeBack(f)) /\ SF_vars(TakeBackCommit(f))
       /\ SF_vars(AcceptCommit(f))
  /\ \A k \in Requests : WF_vars(ReadHash(k)) /\ WF_vars(WriteHash(k))
  /\ SF_vars(RebuildRead)
  /\ SF_vars(RebuildWrite)

LiveSpec == Spec /\ Fairness

-----------------------------------------------------------------------------
(* Properties                                                              *)

(* Types, and: nothing is read or half done when nobody holds the hub      *)
(* lock, only an open offer is being answered, by one answer at a time,    *)
(* and a request still to come has not read the hash.                      *)
TypeOK ==
  /\ choice \in Choices /\ isActive \in BOOLEAN
  /\ offer \in [Offers -> {"none", "offered", "active", "ended"}]
  /\ [st |-> st, route |-> route] \in Hash
  /\ hub \in {"free", "cycle", "assign", "rebuild"}
  /\ stage \in {"read", "locked", "claimed"} /\ seen \in Reading
  /\ giving \subseteq Offers /\ accepting \subseteq Offers
  /\ owed \subseteq Requests /\ reading \subseteq Requests
  /\ copy \in [Requests -> Hash]
  /\ cancelled \in Offers \cup {NoRoute}
  /\ hub \in {"free", "rebuild"} => stage = "read"
  /\ \A f \in giving \cup accepting : IsOpen(f)
  /\ giving \cap accepting = {}

(* A switched-off driver has no open offer and no route: a switch-off is   *)
(* refused while they hold work, and no offer can be committed to them     *)
(* afterwards, because the cycle and the assign hold the driver's row.     *)
NoWorkForSwitchedOff == ~ isActive => ~ HoldsWork

(* "One open offer per driver" (app/fleet_state/manager.py), and the same  *)
(* of routes: a driver with an open offer or a route has no second of      *)
(* either, so an accept never builds a second route.  An offer being taken *)
(* back no longer counts: its driver is free before its row is.            *)
OneJobAtATime ==
  Cardinality({f \in Offers : IsOpen(f) \/ IsRoute(f)} \ giving) <= 1

(* A driver dispatch may plan for chose to be available: no write of       *)
(* dispatch's own puts back a driver who went on break or off shift        *)
(* (app/orders/cancellation.py: "Their status is theirs").  A duty switch  *)
(* or a switch-off still on its way to Redis is not yet seen.              *)
PoolRespectsChoice ==
  /\ st = "available"
  /\ {"duty", "switch_off"} \cap (owed \cup reading) = {}
  => choice = "available"

OfferedToNobody == isActive /\ st = "offered" /\ ~ \E f \in Offers : IsOpen(f)
OnEndedRoute ==
  isActive /\ st = "en_route" /\ route \in Offers /\ offer[route] = "ended"

(* A switched-on driver left `offered` with no offer, by a cycle that died *)
(* or an answer Redis missed, gets back into the pool: the rebuild sees to *)
(* it.                                                                     *)
OfferedToNobodyEnds == OfferedToNobody ~> ~ OfferedToNobody

(* A switched-on driver whose route has ended is not left `en_route`,      *)
(* whichever of the writes after the route's commit was lost.              *)
EndedRouteLetsGo == OnEndedRoute ~> ~ OnEndedRoute
=============================================================================
