------------------------------- MODULE Shadow -------------------------------
(***************************************************************************)
(* Shadow mode (app/shadow/): every few minutes a scheduler in each process *)
(* asks the optimizer what it would do, writes that down and changes        *)
(* nothing; the divergence report compares it with what the operation did.  *)
(***************************************************************************)
EXTENDS Integers, FiniteSets, Sequences, SequencesExt

CONSTANTS
  Procs, Drivers, Orders,
  CADENCE, LOCK_TTL,
  OpenFrom,      \* shadow_cycle_start_local_hour
  OpenUntil,     \* shadow_cycle_end_local_hour, no longer within the window
  MaxTime, MaxCycles     \* bounds
Never == 0
Nobody == 0

VARIABLES
  clock,
  lastRun,   \* shadow:last_run_at
  lock,      \* shadow:cycle_running: when it expires, or Never
  proc,      \* each process's scheduler
  log,       \* shadow_decisions with their shadow_order_decisions
  real,      \* the operation: each driver's drop-offs in order, and when each order was assigned
  overran    \* whether a cycle has ever outlived its lock

vars == <<clock, lastRun, lock, proc, log, real, overran>>

Idle == [step |-> "idle"]
\* Within the lock's try block.
Works(p) == proc[p].step \in {"planning", "marking", "unlocking"}
ShadowOrderDecision == [order : Orders, decision : {"assigned", "unassigned"}, driver : Drivers \cup {Nobody}, index : Nat]
Placed(d) == {real.drops[d][i] : i \in DOMAIN real.drops[d]}
DriverOf(o) == IF \E d \in Drivers : \E S \in Placed(d) : o \in S
               THEN CHOOSE d \in Drivers : \E S \in Placed(d) : o \in S ELSE Nobody

TypeOK ==
  /\ clock \in 1..MaxTime /\ lastRun \in 0..MaxTime /\ lock \in 0..(MaxTime + LOCK_TTL)
  /\ \A i \in DOMAIN log : log[i].rows \in SUBSET ShadowOrderDecision /\ log[i].at \in 1..MaxTime

Init ==
  /\ clock = 1 /\ lastRun = Never /\ lock = Never /\ log = <<>> /\ overran = FALSE
  /\ proc = [p \in Procs |-> Idle]
  /\ real = [drops |-> [d \in Drivers |-> <<>>], at |-> [o \in Orders |-> Never]]

Tick ==
  /\ clock < MaxTime /\ clock' = clock + 1
  /\ lock' = IF lock <= clock + 1 THEN Never ELSE lock
  /\ overran' = (overran \/ (lock = clock + 1 /\ \E p \in Procs : Works(p)))
  /\ UNCHANGED <<lastRun, proc, log, real>>

\* The operation's dispatcher places an order, at a drop-off of its own or at
\* the one visited last.
Dispatch(o, d, own) ==
  LET q == real.drops[d] IN
  /\ DriverOf(o) = Nobody /\ (own \/ q # <<>>)
  /\ real' = [drops |-> [real.drops EXCEPT ![d] = IF own THEN Append(q, {o}) ELSE [q EXCEPT ![Len(q)] = @ \cup {o}]],
              at |-> [real.at EXCEPT ![o] = clock]]
  /\ UNCHANGED <<clock, lastRun, lock, proc, log, overran>>

-----------------------------------------------------------------------------
\* maybe_run_for_hub: in operating hours and once the cadence has passed; the
\* time is read before the lock is asked for.
_within_operating_hours == OpenFrom <= clock /\ clock < OpenUntil
Due == _within_operating_hours /\ (lastRun = Never \/ clock - lastRun >= CADENCE)
Check(p) ==
  /\ proc[p] = Idle /\ Due /\ Len(log) < MaxCycles
  /\ proc' = [proc EXCEPT ![p] = [step |-> "due", now |-> clock]]
  /\ UNCHANGED <<clock, lastRun, lock, log, real, overran>>

\* mutant: SET without NX
LockFree_Always == TRUE
LockFree == lock = Never
Acquire(p) ==
  /\ proc[p].step = "due"
  /\ IF LockFree
     THEN /\ lock' = clock + LOCK_TTL
          /\ proc' = [proc EXCEPT ![p].step = "planning"]
     ELSE lock' = lock /\ proc' = [proc EXCEPT ![p] = Idle]
  /\ UNCHANGED <<clock, lastRun, log, real, overran>>

\* A hub closed today counts as run and records nothing.
Closed(p) ==
  /\ proc[p].step = "planning"
  /\ lastRun' = proc[p].now
  /\ proc' = [proc EXCEPT ![p].step = "unlocking"]
  /\ UNCHANGED <<clock, lock, log, real, overran>>

\* persist_plan: one row for each order released, assigned at its place among
\* the driver's orders (stop_ids) or left over.
RowsOf(plan, left) ==
  UNION {{[order |-> plan[d][i], decision |-> "assigned", driver |-> d, index |-> i - 1] : i \in DOMAIN plan[d]} :
           d \in Drivers}
  \cup {[order |-> o, decision |-> "unassigned", driver |-> Nobody, index |-> 0] : o \in left}
Record(p, plan, left) ==
  /\ proc[p].step = "planning" /\ Len(log) < MaxCycles
  /\ log' = Append(log, [at |-> proc[p].now, rows |-> RowsOf(plan, left)])
  /\ proc' = [proc EXCEPT ![p].step = "marking"]
  /\ UNCHANGED <<clock, lastRun, lock, real, overran>>

\* The cycle is committed; the hub counts as run once Redis has it.
Mark(p) ==
  /\ proc[p].step = "marking"
  /\ lastRun' = proc[p].now
  /\ proc' = [proc EXCEPT ![p].step = "unlocking"]
  /\ UNCHANGED <<clock, lock, log, real, overran>>

\* The plan, or the mark, raises: due again at the next poll, the cycle that
\* was committed notwithstanding.
Raises(p) ==
  /\ proc[p].step \in {"planning", "marking"}
  /\ proc' = [proc EXCEPT ![p].step = "unlocking"]
  /\ UNCHANGED <<clock, lastRun, lock, log, real, overran>>

\* The lock is deleted, whoever holds it.
Unlock(p) ==
  /\ proc[p].step = "unlocking"
  /\ lock' = Never /\ proc' = [proc EXCEPT ![p] = Idle]
  /\ UNCHANGED <<clock, lastRun, log, real, overran>>

\* The process dies holding the lock, which expires by itself.
Dies(p) ==
  /\ proc[p] # Idle /\ proc' = [proc EXCEPT ![p] = Idle]
  /\ UNCHANGED <<clock, lastRun, lock, log, real, overran>>

-----------------------------------------------------------------------------
\* compute_divergence: an order is judged by its first decision, or by its
\* first placement if some cycle placed it.
Rows == UNION {log[i].rows : i \in DOMAIN log}
Seen(o) == {i \in DOMAIN log : \E r \in log[i].rows : r.order = o}
RowIn(i, o) == CHOOSE r \in log[i].rows : r.order = o
ByTime(S) == CHOOSE i \in S : \A j \in S : log[i].at < log[j].at \/ (log[i].at = log[j].at /\ i <= j)
\* mutant: the first decision stands, placed or not
First_AsSeen(o) == RowIn(ByTime(Seen(o)), o)
First(o) ==
  LET placed == {i \in Seen(o) : RowIn(i, o).decision = "assigned"}
  IN RowIn(ByTime(IF placed # {} THEN placed ELSE Seen(o)), o)

\* _real_placements: the order's rank among its route's drop-offs.
Rank(o) == (CHOOSE i \in DOMAIN real.drops[DriverOf(o)] : o \in real.drops[DriverOf(o)][i]) - 1

_grade(r) ==
  CASE r.decision = "unassigned" -> IF DriverOf(r.order) # Nobody THEN "only_the_operation_placed" ELSE "neither_placed"
    [] DriverOf(r.order) = Nobody -> "shadow_would_have_placed"
    [] r.driver # DriverOf(r.order) -> "different_driver"
    [] r.index # Rank(r.order) -> "different_sequence"
    [] OTHER -> "agreed"
Judged == {o \in Orders : Seen(o) # {}}
Report == [o \in Judged |-> _grade(First(o))]
comparable == {o \in Judged : Report[o] \in {"agreed", "different_sequence", "different_driver"}}

Plans == {plan \in [Drivers -> BoundedSeq(Orders, Cardinality(Orders))] :
            /\ \A d \in Drivers : IsInjective(plan[d])
            /\ \A d, e \in Drivers : d # e => Range(plan[d]) \cap Range(plan[e]) = {}}
\* The plan comes from the optimizer (module RouteClient).
Next ==
  \/ Tick
  \/ \E o \in Orders, d \in Drivers, own \in BOOLEAN : Dispatch(o, d, own)
  \/ \E p \in Procs :
       \/ Check(p) \/ Acquire(p) \/ Closed(p) \/ Mark(p) \/ Raises(p) \/ Unlock(p) \/ Dies(p)
       \/ /\ proc[p].step = "planning"
          /\ \E plan \in Plans, left \in SUBSET Orders :
               left \cap UNION {Range(plan[d]) : d \in Drivers} = {} /\ Record(p, plan, left)

Spec == Init /\ [][Next]_vars

-----------------------------------------------------------------------------
\* Two processes never work on one hub at the same time, from the lock to its
\* deletion, as long as no cycle has outlived its lock: one that has deletes the
\* lock of its successor.
OneCycleAtATime ==
  ~overran => \A p, q \in Procs : Works(p) /\ Works(q) => p = q

\* An order the shadow plan placed in any cycle is never reported as one it
\* could not place, and each comparable order was placed by both sides.
ReportIsFair ==
  \A o \in Judged :
    /\ (\E r \in Rows : r.order = o /\ r.decision = "assigned")
         <=> Report[o] \notin {"only_the_operation_placed", "neither_placed"}
    /\ o \in comparable => DriverOf(o) # Nobody /\ real.at[o] # Never
=============================================================================
