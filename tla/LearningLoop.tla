---------------------------- MODULE LearningLoop ----------------------------
(***************************************************************************)
(* The nightly job of one hub (app/learning_loop/): in the two o'clock hour *)
(* some process finds the night unworked, takes a lock and works it;        *)
(* detection turns repeated flags of a shop's pickups into a proposed hold  *)
(* window, and an administrator's approval turns the proposal into a rule   *)
(* that intake and redelivery apply.  Detection can also be run by hand,    *)
(* without the lock, and reviews read and write without one.                *)
(***************************************************************************)
EXTENDS Integers, FiniteSets, Sequences

CONSTANTS
  Procs,
  HOUR,       \* polls in NIGHTLY_RUN_LOCAL_HOUR
  LOCK_TTL, MaxRun,   \* in polls: the lock's life, the longest run
  Admins,
  MIN_OCCURRENCES, ADJUSTMENT, DEFAULT_T2,
  MaxNights, MaxFaults, MaxFlags, MaxRules    \* bounds

VARIABLES
  clock,      \* [night, poll]
  polled,     \* processes that have polled at this time
  run,        \* each process's run
  lock,       \* scheduler_running: until when
  lastRun,    \* last_run_date; history: how often that night was worked, and
              \* by how many it had been found unworked when it was first done
  faults,
  flags,      \* recent flags of the shop's pickups, by kind
  proposals,  \* proposed_rules, as rows are added
  rules,      \* active_rules, as rows are added
  open        \* each administrator's request

vars == <<clock, polled, run, lock, lastRun, faults, flags, proposals, rules, open>>

Idle == [step |-> "idle"]
FlagTypes == {"too_short", "too_long"}
ProposedRule == [status : {"pending_review", "approved", "rejected"}, t2 : Nat]
ActiveRule == [t2 : Nat, from : Nat]
Now == clock.night * 100 + clock.poll

TypeOK ==
  /\ clock.night \in 1..MaxNights /\ clock.poll \in 1..HOUR /\ polled \subseteq Procs
  /\ \A i \in DOMAIN proposals : proposals[i] \in ProposedRule
  /\ \A i \in DOMAIN rules : rules[i] \in ActiveRule
  /\ flags \in [FlagTypes -> 0..MaxFlags]

Init ==
  /\ clock = [night |-> 1, poll |-> 1] /\ polled = {} /\ run = [p \in Procs |-> Idle]
  /\ lock = 0 /\ lastRun = [night |-> 0, times |-> 0, late |-> 0] /\ faults = 0
  /\ flags = [k \in FlagTypes |-> 0] /\ proposals = <<>> /\ rules = <<>> /\ open = [a \in Admins |-> Idle]

-----------------------------------------------------------------------------
\* _resolve_current_minutes: later rows overwrite earlier ones.
LoopT2 == IF rules = <<>> THEN DEFAULT_T2 ELSE rules[Len(rules)].t2
\* resolve_hold_window_minutes over load_hold_window_overrides: the first row.
EngineT2 == IF rules = <<>> THEN DEFAULT_T2 ELSE rules[1].t2

\* detect_patterns: enough flags of exactly one kind.
Signals == {k \in FlagTypes : flags[k] >= MIN_OCCURRENCES}
Max2(a, b) == IF a >= b THEN a ELSE b
detect_patterns ==
  {[status |-> "pending_review", t2 |-> Max2(LoopT2 + (IF k = "too_short" THEN ADJUSTMENT ELSE -ADJUSTMENT), 0)] :
     k \in IF Cardinality(Signals) = 1 THEN Signals ELSE {}}
Pending == {i \in DOMAIN proposals : proposals[i].status = "pending_review"}
\* run_nightly_job, up to its commit.
Found == IF Pending = {} THEN detect_patterns ELSE {}
Proposed(found) == IF found = {} THEN proposals ELSE Append(proposals, CHOOSE f \in found : TRUE)

-----------------------------------------------------------------------------
\* maybe_run_for_hub, polled by every process: the night's mark is read, then
\* the lock is tried, and the mark is not read again under it.
\* mutant: a night already worked is worked again
Worked_Never == FALSE
Worked == lastRun.night = clock.night
Poll(p) ==
  /\ p \notin polled /\ run[p] = Idle /\ polled' = polled \cup {p}
  /\ run' = IF Worked THEN run ELSE [run EXCEPT ![p] = [step |-> "asked", left |-> MaxRun]]
  /\ UNCHANGED <<clock, lock, lastRun, faults, flags, proposals, rules, open>>
Until == Now + LOCK_TTL
\* mutant: nothing stands in the way of a second process
Held_Never == FALSE
Held == lock > Now
Take(p) ==
  /\ run[p].step = "asked"
  /\ IF Held THEN run' = [run EXCEPT ![p] = Idle] /\ UNCHANGED lock
     ELSE run' = [run EXCEPT ![p].step = "began", ![p].left = MaxRun] /\ lock' = Until
  /\ UNCHANGED <<clock, polled, lastRun, faults, flags, proposals, rules, open>>
\* Its steps fail one by one without failing the run; detection is skipped on
\* a day the hub is closed.
Detect(p, closed) ==
  /\ run[p].step = "began"
  /\ run' = [run EXCEPT ![p] = [step |-> "detected", left |-> @.left, found |-> IF closed THEN {} ELSE Found]]
  /\ UNCHANGED <<clock, polled, lock, lastRun, faults, flags, proposals, rules, open>>
Propose(p, raises) ==
  /\ run[p].step = "detected" /\ Len(proposals) < MaxRules
  /\ run' = [run EXCEPT ![p] = [step |-> "done", left |-> @.left]]
  /\ proposals' = IF raises THEN proposals ELSE Proposed(run[p].found)
  /\ UNCHANGED <<clock, polled, lock, lastRun, faults, flags, rules, open>>
\* The mark is set, then the lock deleted, whoever holds it by now.
Mark(p) ==
  /\ run[p].step = "done" /\ run' = [run EXCEPT ![p].step = "marked"]
  /\ lastRun' = IF lastRun.night = clock.night THEN [lastRun EXCEPT !.times = @ + 1]
                ELSE [night |-> clock.night, times |-> 1, late |-> Cardinality({q \in Procs : run[q].step = "asked"})]
  /\ UNCHANGED <<clock, polled, lock, faults, flags, proposals, rules, open>>
Unlock(p) ==
  /\ run[p].step = "marked" /\ run' = [run EXCEPT ![p] = Idle] /\ lock' = 0
  /\ UNCHANGED <<clock, polled, lastRun, faults, flags, proposals, rules, open>>
\* The run raises (the lock it holds is deleted), or its process dies (it is not).
Fails(p, dies) ==
  /\ run[p] # Idle /\ faults < MaxFaults /\ faults' = faults + 1
  /\ run' = [run EXCEPT ![p] = Idle] /\ lock' = IF dies \/ run[p].step = "asked" THEN lock ELSE 0
  /\ UNCHANGED <<clock, polled, lastRun, flags, proposals, rules, open>>

Tick ==
  /\ \A p \in Procs : IF run[p] = Idle THEN p \in polled ELSE run[p].left > 0
  /\ IF clock.poll < HOUR THEN clock' = [clock EXCEPT !.poll = @ + 1]
     ELSE /\ clock.night < MaxNights /\ \A p \in Procs : run[p] = Idle
          /\ clock' = [night |-> clock.night + 1, poll |-> 1]
  /\ polled' = {} /\ run' = [p \in Procs |-> IF run[p] = Idle THEN Idle ELSE [run[p] EXCEPT !.left = @ - 1]]
  /\ UNCHANGED <<lock, lastRun, faults, flags, proposals, rules, open>>

-----------------------------------------------------------------------------
\* flag_pickups_that_waited and the drivers' flags; they age out of the window.
Flag(k) ==
  /\ flags[k] < MaxFlags /\ flags' = [flags EXCEPT ![k] = @ + 1]
  /\ UNCHANGED <<clock, polled, run, lock, lastRun, faults, proposals, rules, open>>
Age ==
  /\ \E k \in FlagTypes : flags[k] > 0 /\ flags' = [flags EXCEPT ![k] = 0]
  /\ UNCHANGED <<clock, polled, run, lock, lastRun, faults, proposals, rules, open>>

\* run_learning_loop_nightly_job and run_learning_loop_for_all_hubs.
JobByHand(a) ==
  /\ open[a] = Idle /\ open' = [open EXCEPT ![a] = [step |-> "job", found |-> Found]]
  /\ UNCHANGED <<clock, polled, run, lock, lastRun, faults, flags, proposals, rules>>
JobEnds(a) ==
  /\ open[a].step = "job" /\ open' = [open EXCEPT ![a] = Idle]
  /\ Len(proposals) < MaxRules /\ proposals' = Proposed(open[a].found)
  /\ UNCHANGED <<clock, polled, run, lock, lastRun, faults, flags, rules>>

\* approve_proposed_rule and dismiss_proposed_rule: pending when read.
ReviewReads(a, i, verdict) ==
  /\ open[a] = Idle /\ i \in Pending
  /\ open' = [open EXCEPT ![a] = [step |-> verdict, rule |-> i]]
  /\ UNCHANGED <<clock, polled, run, lock, lastRun, faults, flags, proposals, rules>>
\* mutant: the rule shifts whatever is in force
Promoted_Shifts(i) == [t2 |-> proposals[i].t2 + LoopT2 - DEFAULT_T2, from |-> i]
Promoted(i) == [t2 |-> proposals[i].t2, from |-> i]
ReviewWrites(a) ==
  LET o == open[a] IN
  /\ o.step \in {"approved", "rejected"} /\ open' = [open EXCEPT ![a] = Idle]
  /\ proposals' = [proposals EXCEPT ![o.rule].status = o.step]
  /\ rules' = IF o.step = "approved" THEN Append(rules, Promoted(o.rule)) ELSE rules
  /\ Len(rules) < MaxRules
  /\ UNCHANGED <<clock, polled, run, lock, lastRun, faults, flags>>

Next ==
  \/ \E p \in Procs : Poll(p) \/ Take(p) \/ Mark(p) \/ Unlock(p)
  \/ \E p \in Procs, b \in BOOLEAN : Detect(p, b) \/ Propose(p, b) \/ Fails(p, b)
  \/ Tick \/ Age
  \/ \E k \in FlagTypes : Flag(k)
  \/ \E a \in Admins : JobByHand(a) \/ JobEnds(a) \/ ReviewWrites(a)
  \/ \E a \in Admins, i \in DOMAIN proposals, v \in {"approved", "rejected"} : ReviewReads(a, i, v)

Spec == Init /\ [][Next]_vars

-----------------------------------------------------------------------------
\* Every night is worked, by one process at a time, and again only by a process
\* that had found it unworked before it was done: by the time the hour is over
\* the run has been done, although a process died in it or it raised; while one
\* process works no other does; and a process that polls after the night is done
\* leaves it alone.  (MaxFaults faults fit into the hour, and a run is shorter
\* than the lock's life.)
Working(p) == run[p].step \notin {"idle", "asked"}
NightsAreWorked ==
  /\ \A p, q \in Procs : Working(p) /\ Working(q) => p = q
  /\ lastRun.times <= 1 + lastRun.late
  /\ clock.poll = HOUR /\ polled = Procs /\ (\A p \in Procs : run[p] = Idle) => lastRun.night = clock.night

\* What the scheduler says of itself ("actually runs it once a day, per hub"):
\* no night is worked twice.  It does not hold (README, known gaps).
OncePerNight == lastRun.times <= 1

\* A hold window moves only by review, one step per proposal reviewed: however
\* reviews, reruns by hand and the nightly job overlap, no rule in force is
\* further from the default than the proposals approved so far allow.
OneStepPerReview ==
  LET approved == {rules[i].from : i \in DOMAIN rules}
      reach == ADJUSTMENT * Cardinality(approved)
  IN \A i \in DOMAIN rules : rules[i].t2 <= DEFAULT_T2 + reach /\ rules[i].t2 >= DEFAULT_T2 - reach

\* What _resolve_current_minutes says of itself ("Same precedence as
\* app/sla/overrides.py's load_hold_window_overrides"): detection proposes from
\* the minutes that are applied to orders.  It does not hold (README, known gaps).
DetectionSeesTheRuleInForce == LoopT2 = EngineT2
=============================================================================
