------------------------------ MODULE Playbook ------------------------------
(***************************************************************************)
(* The playbook (app/playbook): a rule's calls on one order, made and       *)
(* acted on by the scheduled sweep, while people resolve, assign and        *)
(* cancel.  Both sides go through the call's row before the order's.        *)
(***************************************************************************)
EXTENDS Integers, FiniteSets, Sequences

CONSTANTS
  Failures,       \* what may go wrong: a reason, and the end it happened at
  Drivers,        \* drivers of the hub, nearest first as their ids go
  MAX_ATTEMPTS,   \* playbook_max_delivery_attempts
  VETO,           \* playbook_veto_minutes, in ticks
  MaxAttempt,     \* bound: deliveries attempted
  MaxCalls,       \* bound: calls on an unplaced order
  MaxSweeps       \* bound: sweeps
NoDue == 0 - 1
Nobody == 0     \* no driver, no resolution in flight, no due call

Modes == <<"recommend", "veto", "act">>
Rank(m) == CHOOSE i \in 1..3 : Modes[i] = m
Reasons == {"SHOP_CLOSED", "ACCESS_ISSUE", "COD_DISPUTE", "PARTS_MISSING", "REFUSED"}
Resolutions == {"redeliver", "return_to_shop", "cancel"}

VARIABLES
  order,     \* status, delivery_attempts, failure_reason, where it failed
  mode,      \* playbook_failed_delivery_mode
  calls,     \* the failed-delivery call of each attempt
  spots,     \* the calls made while the order was unplaced, oldest first
  pool,      \* the free drivers, whom the order is offered to and with a bonus
             \* or without, who turned it down and whether a bonus was
  sweep,     \* the step the sweep is at, and the due call it read
  person,    \* a resolution in flight: the attempt and status it read
  resolved   \* what resolved each failure

vars == <<order, mode, calls, spots, pool, sweep, person, resolved>>

Outcome == {"open", "acted", "agreed", "overruled", "escalated", "superseded"}
PlaybookDecision == [action : Resolutions \cup {"escalate"}, mode : {"recommend", "veto", "act"}, due : Int,
                     outcome : Outcome, human : Resolutions \cup {"none"}, under : {"recommend", "veto", "act", "none"}]
Uncalled == [outcome |-> "none"]
Spot == [action : {"offer", "offer_bonus", "escalate"}, target : Drivers \cup {Nobody}, outcome : Outcome,
         closed : BOOLEAN, did : {"none", "offer", "offer_bonus", "cancel", "hold", "release"}, whom : Drivers \cup {Nobody}]

TypeOK ==
  /\ order.attempt \in 1..MaxAttempt
  /\ \A n \in 1..MaxAttempt : calls[n] \in PlaybookDecision \cup {Uncalled}
  /\ spots \in Seq(Spot) /\ pool.free \subseteq Drivers /\ pool.turned \subseteq Drivers

Init ==
  /\ order = [status |-> "held", attempt |-> 1, reason |-> "none", at |-> "none"]
  /\ mode \in {"recommend", "veto", "act"}
  /\ calls = [n \in 1..MaxAttempt |-> Uncalled]
  /\ spots = <<>>
  /\ pool = [free |-> {}, to |-> Nobody, extra |-> FALSE, turned |-> {}, bonus |-> FALSE]
  /\ sweep = [step |-> "idle", due |-> Nobody, run |-> 0]
  /\ person = Nobody
  /\ resolved = {}

Unplaced == order.status = "late"
Closed(d) == [d EXCEPT !.closed = TRUE]
Current == {i \in DOMAIN spots : ~spots[i].closed}

-----------------------------------------------------------------------------
\* decide_failed_delivery
decide_failed_delivery(reason, at, attempt) ==
  LET again == attempt < MAX_ATTEMPTS
      pickup == at = "pickup"
  IN CASE reason \notin Reasons \/ reason = "COD_DISPUTE" -> "escalate"
       [] reason = "REFUSED" -> IF pickup THEN "escalate" ELSE "return_to_shop"
       [] reason = "PARTS_MISSING" -> IF pickup /\ again THEN "redeliver" ELSE "escalate"
       [] reason \in {"SHOP_CLOSED", "ACCESS_ISSUE"} ->
            IF again THEN "redeliver" ELSE IF pickup THEN "escalate" ELSE "return_to_shop"

\* decide_unplaced: nobody free (or the hub closed), or a bonus turned down
\* too, is a person's; an order turned down goes with a bonus, to somebody
\* else while there is somebody else.
First(S) == CHOOSE d \in S : \A e \in S : d <= e
decide_unplaced ==
  LET other == pool.free \ pool.turned
  IN IF pool.bonus \/ pool.free = {} THEN [action |-> "escalate", target |-> Nobody]
     ELSE IF pool.turned = {} THEN [action |-> "offer", target |-> First(pool.free)]
     ELSE [action |-> "offer_bonus", target |-> First(IF other # {} THEN other ELSE pool.free)]

-----------------------------------------------------------------------------
\* The world: the clock, the setting (read at start-up, so never within a
\* sweep), the drivers, the deliveries.
Tick ==
  /\ order' = IF order.status = "held" THEN [order EXCEPT !.status = "late"] ELSE order
  /\ calls' = [n \in 1..MaxAttempt |->
                IF calls[n] # Uncalled /\ calls[n].due > 0 THEN [calls[n] EXCEPT !.due = @ - 1] ELSE calls[n]]
  /\ <<order, calls>>' # <<order, calls>>
  /\ UNCHANGED <<mode, spots, pool, sweep, person, resolved>>

SetMode(m) ==
  /\ sweep.step = "idle" /\ m # mode
  /\ mode' = m
  /\ UNCHANGED <<order, calls, spots, pool, sweep, person, resolved>>

Free(S) ==
  /\ Unplaced   \* nobody looks at who is free otherwise
  /\ pool' = [pool EXCEPT !.free = S] /\ S # pool.free
  /\ UNCHANGED <<order, mode, calls, spots, sweep, person, resolved>>

\* A cycle, or a person (PersonActs), offers the order to a driver, who turns it
\* down, or lets the offer lapse, or drives it; the attempt fails.
Placed(d) ==
  /\ order.status \in {"held", "late"}
  /\ order' = [order EXCEPT !.status = "out"]
  /\ pool' = [pool EXCEPT !.to = d]
  /\ UNCHANGED <<mode, calls, spots, sweep, person, resolved>>

\* _offer_history counts the offers declined or expired, and their bonuses.
TurnedDown ==
  /\ order.status = "out"
  /\ order' = [order EXCEPT !.status = "late"]
  /\ pool' = [pool EXCEPT !.turned = @ \cup {pool.to}, !.bonus = @ \/ pool.extra,
                           !.to = Nobody, !.extra = FALSE]
  /\ UNCHANGED <<mode, calls, spots, sweep, person, resolved>>

Fails(reason, at) ==
  /\ order.status = "out"
  /\ order' = [order EXCEPT !.status = "failed", !.reason = reason, !.at = at]
  /\ pool' = [pool EXCEPT !.to = Nobody, !.extra = FALSE]
  /\ UNCHANGED <<mode, calls, spots, sweep, person, resolved>>

\* resolve_failed_order, its compare-and-set on the failed order.
\* delivery_attempts is written from the caller's reading of it.
Resolved(action, read) ==
  CASE action = "redeliver" -> [order EXCEPT !.status = "held", !.attempt = read + 1, !.reason = "none"]
    [] action = "return_to_shop" -> [order EXCEPT !.status = "returned"]
    [] action = "cancel" -> [order EXCEPT !.status = "cancelled"]
Noted(who, action, read) ==
  resolved \cup {[attempt |-> order.attempt, read |-> read, who |-> who, action |-> action,
                  called |-> calls[order.attempt] # Uncalled]}

-----------------------------------------------------------------------------
\* resolve_order: the order is read, then its call is locked and closed and the
\* order resolved in one transaction; a refusal undoes both.
PersonReads ==
  /\ person = Nobody /\ order.status = "failed"
  /\ person' = order.attempt
  /\ UNCHANGED <<order, mode, calls, spots, pool, sweep, resolved>>

\* mutant: a call already closed is closed again
Answered_Again(c, action) ==
  IF c = Uncalled THEN c
  ELSE [c EXCEPT !.outcome = IF c.action = action THEN "agreed" ELSE "overruled", !.human = action]

\* record_person_resolution: an open call is agreed with or overruled; an
\* escalated one only learns what the person did.
Answered(c, action) ==
  IF c = Uncalled THEN c
  ELSE LET o == IF c.outcome # "open" THEN c.outcome ELSE IF c.action = action THEN "agreed" ELSE "overruled"
       IN [c EXCEPT !.outcome = o,
                    !.human = IF o \in {"agreed", "overruled", "escalated"} /\ @ = "none" THEN action ELSE @]

PersonResolves(action) ==
  /\ person # Nobody
  /\ person' = Nobody
  /\ IF order.status = "failed" /\ ~(action = "redeliver" /\ person = MaxAttempt)
     THEN /\ calls' = [calls EXCEPT ![person] = Answered(@, action)]
          /\ order' = Resolved(action, person)
          /\ resolved' = Noted("person", action, person)
     ELSE UNCHANGED <<order, calls, resolved>>
  /\ UNCHANGED <<mode, spots, pool, sweep>>

\* record_person_action, with the assign, the cancel or the override it is part
\* of: the current call of an unplaced order is closed whatever it said.  An
\* override leaves the order waiting: a released one is no less late than it was,
\* one put back on hold is late or not as its hold's own deadline says.
Offers == {"offer", "offer_bonus"}
Overridden(action) == IF action = "release" /\ Unplaced THEN {"late"} ELSE {"held", "late"}
PersonActs(action, whom) ==
  /\ order.status \in {"held", "late"}
  /\ \E to \in CASE action = "cancel" -> {"cancelled"} [] action \in Offers -> {"out"}
                 [] OTHER -> Overridden(action) :
       order' = [order EXCEPT !.status = to]
  /\ spots' = [i \in DOMAIN spots |->
       IF spots[i].closed THEN spots[i]
       ELSE [spots[i] EXCEPT !.closed = TRUE, !.did = action, !.whom = whom,
               !.outcome = IF @ # "open" THEN @
                           ELSE IF action = spots[i].action /\ whom = spots[i].target /\ action \in Offers
                                THEN "agreed" ELSE "overruled"]]
  /\ pool' = IF action \in Offers THEN [pool EXCEPT !.to = whom, !.extra = action = "offer_bonus"] ELSE pool
  /\ UNCHANGED <<mode, calls, sweep, person, resolved>>

\* A client's cancel goes past both rules.
ClientCancels ==
  /\ order.status \in {"held", "late", "failed"}
  /\ order' = [order EXCEPT !.status = "cancelled"]
  /\ UNCHANGED <<mode, calls, spots, pool, sweep, person, resolved>>

-----------------------------------------------------------------------------
\* run_playbook, step by step; each step commits.
At(step, next) == sweep.step = step /\ sweep' = [sweep EXCEPT !.step = next]
OpenCalls == {n \in 1..MaxAttempt : calls[n].outcome = "open"}

\* mutant: a call made under a higher mode keeps it
Lowered_Never(c) == c

\* _follow_current_mode: an open call never outranks the setting.
Lowered(c) ==
  IF Rank(c.mode) <= Rank(mode) THEN c
  ELSE [c EXCEPT !.mode = mode, !.due = IF mode = "veto" THEN VETO ELSE NoDue]

\* _supersede_moved_on
SweepCloses ==
  /\ sweep.step = "idle" /\ sweep.run < MaxSweeps
  /\ sweep' = [sweep EXCEPT !.step = "call", !.run = @ + 1]
  /\ calls' = [n \in 1..MaxAttempt |->
       IF n \notin OpenCalls THEN calls[n]
       ELSE IF order.status # "failed" \/ order.attempt # n THEN [Lowered(calls[n]) EXCEPT !.outcome = "superseded"]
       ELSE Lowered(calls[n])]
  /\ UNCHANGED <<order, mode, spots, pool, person, resolved>>

\* _call_failed_deliveries: one call per attempt.
NewCall ==
  LET action == decide_failed_delivery(order.reason, order.at, order.attempt)
  IN [action |-> action, mode |-> mode, human |-> "none", under |-> "none",
      outcome |-> IF action = "escalate" THEN "escalated" ELSE "open",
      due |-> IF action = "escalate" \/ mode = "recommend" THEN NoDue ELSE IF mode = "act" THEN 0 ELSE VETO]
SweepCalls ==
  /\ At("call", "due")
  /\ calls' = IF order.status = "failed" /\ calls[order.attempt] = Uncalled
              THEN [calls EXCEPT ![order.attempt] = NewCall] ELSE calls
  /\ UNCHANGED <<order, mode, spots, pool, person, resolved>>

\* _act_on_due reads the due calls, none in recommend mode; ...
SweepReadsDue ==
  /\ sweep.step = "due"
  /\ LET due == {n \in OpenCalls : calls[n].due = 0 /\ mode # "recommend"}
     IN sweep' = IF due = {} THEN [sweep EXCEPT !.step = "spot", !.due = Nobody]
                 ELSE [sweep EXCEPT !.step = "act", !.due = CHOOSE n \in due : TRUE]
  /\ UNCHANGED <<order, mode, calls, spots, pool, person, resolved>>

\* ... and claims each one before it acts: a call closed meanwhile is let be,
\* an order moved on closes it as superseded, an order whose shop is gone makes it
\* a person's (a redelivery that cannot be queued), an error leaves it for next time.
SweepActs(how) ==
  LET n == sweep.due
      c == calls[n]
      can == order.status = "failed" /\ order.attempt = n
  IN
  /\ sweep.step = "act" /\ sweep' = [sweep EXCEPT !.step = "spot", !.due = Nobody]
  /\ (c.outcome = "open" /\ can /\ c.action = "redeliver") => n < MaxAttempt
  /\ how = "no_shop" => c.action = "redeliver"
  /\ IF c.outcome # "open" \/ (can /\ how = "error") THEN UNCHANGED <<order, calls, resolved>>
     ELSE IF can /\ how = "no_shop"
     THEN /\ calls' = [calls EXCEPT ![n].outcome = "escalated"]
          /\ UNCHANGED <<order, resolved>>
     ELSE IF can
     THEN /\ calls' = [calls EXCEPT ![n].outcome = "acted", ![n].under = mode]
          /\ order' = Resolved(c.action, n)
          /\ resolved' = Noted("rule", c.action, n)
     ELSE /\ calls' = [calls EXCEPT ![n].outcome = "superseded"]
          /\ UNCHANGED <<order, resolved>>
  /\ UNCHANGED <<mode, spots, pool, person>>

\* _close_unplaced_moved_on
SweepClosesSpots ==
  /\ At("spot", "offer")
  /\ spots' = [i \in DOMAIN spots |->
       IF spots[i].closed \/ Unplaced THEN spots[i]
       ELSE [spots[i] EXCEPT !.closed = TRUE, !.outcome = IF @ = "open" THEN "superseded" ELSE @]]
  /\ UNCHANGED <<order, mode, calls, pool, person, resolved>>

\* mutant: the call the new one replaces is left current
Replaced_Kept(s) == s
\* _call_unplaced: the call held is kept while it still says the same.
Replaced(s) == [s EXCEPT !.closed = TRUE, !.outcome = IF @ = "open" THEN "superseded" ELSE @]
Says(s, call) == s.action = call.action /\ s.target = call.target
SweepCallsSpots ==
  /\ At("offer", "idle")
  /\ spots' =
       IF ~Unplaced \/ \E i \in Current : Says(spots[i], decide_unplaced) THEN spots
       ELSE Append([i \in DOMAIN spots |-> IF i \in Current THEN Replaced(spots[i]) ELSE spots[i]],
                   [action |-> decide_unplaced.action, target |-> decide_unplaced.target, closed |-> FALSE,
                    outcome |-> IF decide_unplaced.action = "escalate" THEN "escalated" ELSE "open",
                    did |-> "none", whom |-> Nobody])
  /\ Len(spots') <= MaxCalls
  /\ UNCHANGED <<order, mode, calls, pool, person, resolved>>

Next ==
  \/ Tick \/ TurnedDown \/ PersonReads \/ ClientCancels
  \/ \E m \in {"recommend", "veto", "act"} : SetMode(m)
  \/ \E S \in SUBSET Drivers : Free(S)
  \/ \E d \in Drivers : Placed(d)
  \/ \E f \in Failures : Fails(f[1], f[2])
  \/ \E a \in Resolutions : PersonResolves(a)
  \/ \E a \in Offers, d \in Drivers : PersonActs(a, d)
  \/ \E a \in {"cancel", "hold", "release"} : PersonActs(a, Nobody)
  \/ SweepCloses \/ SweepCalls \/ SweepReadsDue \/ SweepClosesSpots \/ SweepCallsSpots
  \/ \E how \in {"done", "no_shop", "error"} : SweepActs(how)

Spec == Init /\ [][Next]_vars

-----------------------------------------------------------------------------
\* _rule_record: the evidence a rule is promoted on.
Yes == {n \in 1..MaxAttempt : calls[n].outcome \in {"agreed"} \cup IF mode = "veto" THEN {"acted"} ELSE {}}
No == {n \in 1..MaxAttempt : calls[n].outcome = "overruled"}

Did(n, who) == {r \in resolved : r.attempt = n /\ r.who = who}

\* The record a rule is promoted on is true: a call marked acted was carried
\* out by the rule, one marked agreed or overruled was answered by a person
\* with the same or another action on that very failure; a person who resolves
\* the failure a call is about is never left out of it (as long as nobody
\* resolved from a reading of an earlier attempt); an escalation is never
\* counted for or against the rule.
EvidenceIsTrue ==
  \A n \in 1..MaxAttempt :
    /\ calls[n].outcome = "acted" => \E r \in Did(n, "rule") : r.action = calls[n].action
    /\ calls[n].outcome = "agreed" => \E r \in Did(n, "person") : r.action = calls[n].action
    /\ calls[n].outcome = "overruled" => \E r \in Did(n, "person") : r.action # calls[n].action
    /\ calls[n] # Uncalled /\ calls[n].action = "escalate" => calls[n].outcome = "escalated"
    /\ (\A r \in resolved : r.read = r.attempt) =>
         \A r \in Did(n, "person") : r.called => calls[n].human # "none"

\* The rule acts with no more authority than the setting gives it: never in
\* recommend mode, and on a veto call only after its time is up.
ActsWithAuthority ==
  \A n \in 1..MaxAttempt : calls[n].outcome = "acted" =>
    Rank(calls[n].mode) <= Rank(calls[n].under) /\ calls[n].mode # "recommend" /\ calls[n].due = 0

\* An unplaced order has one current call, and a call a person is said to have
\* agreed with is what the person did.
OneCallStands ==
  /\ Cardinality(Current) <= 1
  /\ \A i \in DOMAIN spots : spots[i].outcome = "agreed" => spots[i].did = spots[i].action /\ spots[i].whom = spots[i].target
=============================================================================
