----------------------------- MODULE Experiment -----------------------------
(***************************************************************************)
(* The control arm (app/experiment and intake's _assign_control_arm).  A   *)
(* client contracts a fraction; every live order to one of its docks takes *)
(* the next place in that dock's current block, and the place a hash of    *)
(* the block draws is the control order.  Intakes run concurrently, the    *)
(* place is a count of what is committed, and a savings statement is only  *)
(* issued when the integrity report finds nothing wrong with the rows.     *)
(***************************************************************************)
EXTENDS Integers, FiniteSets, SequencesExt

CONSTANTS
  Sessions,    \* intakes running at once
  Docks,       \* receivers with a key of their own
  NoDock,      \* STRATUM_UNKNOWN_RECEIVER
  Fractions,   \* the fractions on offer
  block_size,  \* orders to a block of each, one of them control; rounded, so two
               \* fractions may share a size
  GRAIN,       \* draws are multiples of 1/GRAIN
  MAX_ORDERS,  \* bound: orders taken in
  MAX_CLAUSES  \* bound: times a clause is signed
NoTerms == 0
Sizes == {block_size[f] : f \in Fractions}

VARIABLES
  terms,      \* the client's contracted fraction, or NoTerms
  clause,     \* how often the clause was dated
  excluded,   \* docks with a live exclusion
  work,       \* what each intake is doing
  rows,       \* committed assignments, in commit order
  abstained,  \* orders with a committed abstention
  draws,      \* the hash of each block drawn so far
  taken       \* orders taken in

vars == <<terms, clause, excluded, work, rows, abstained, draws, taken>>

Strata == Docks \cup {NoDock}
\* An assignment: everything needed to recompute it is stored with it.
Row == [order : Nat, dock : Strata, fraction : Fractions, size : Sizes, clause : Nat, block : Nat, place : Nat,
        draw : 0..(GRAIN - 1), arm : {"control", "treatment"}]
Idle == [at |-> "idle"]

TypeOK ==
  /\ terms \in Fractions \cup {NoTerms} /\ clause \in Nat
  /\ excluded \subseteq Docks
  /\ \A s \in Sessions : work[s].at \in {"idle", "checked", "written"}
  /\ \A i \in DOMAIN rows : rows[i] \in Row
  /\ abstained \subseteq 1..taken /\ taken \in 0..MAX_ORDERS

Init ==
  /\ terms = NoTerms /\ clause = 0 /\ excluded = {} /\ rows = <<>> /\ abstained = {} /\ taken = 0
  /\ work = [s \in Sessions |-> Idle]
  /\ draws = <<>>

\* enrol_control_arm, replacing a clause or not; withdraw_control_arm.
Enrol(f) ==
  /\ f # terms /\ clause < MAX_CLAUSES
  /\ terms' = f /\ clause' = clause + 1
  /\ UNCHANGED <<excluded, work, rows, abstained, draws, taken>>

Withdraw ==
  /\ terms # NoTerms
  /\ terms' = NoTerms
  /\ UNCHANGED <<clause, excluded, work, rows, abstained, draws, taken>>

\* exclude_receiver, revoke_exclusion.
Exclude(d) ==
  /\ excluded' = IF d \in excluded THEN excluded \ {d} ELSE excluded \cup {d}
  /\ UNCHANGED <<terms, clause, work, rows, abstained, draws, taken>>

\* An excluded dock takes no part, nor does an order without a dock once any
\* dock is excluded: it cannot be shown to be outside the exclusion.
TakesPart(d) == d \notin excluded /\ (d = NoDock => excluded = {})

\* _assign_control_arm up to the lock, for a client with an arm.
Check(s, d) ==
  /\ work[s] = Idle /\ taken < MAX_ORDERS
  /\ terms # NoTerms /\ TakesPart(d)
  /\ taken' = taken + 1
  /\ work' = [work EXCEPT ![s] = [at |-> "checked", order |-> taken + 1, dock |-> d,
                                  fraction |-> terms, size |-> block_size[terms], clause |-> clause]]
  /\ UNCHANGED <<terms, clause, excluded, rows, abstained, draws>>

\* mutant: the count is not serialised
LockFree_Always(d) == TRUE

\* The advisory lock of the client and the dock, held to the end of the
\* transaction.
LockFree(d) == \A s \in Sessions : work[s].at = "written" => work[s].row.dock # d

\* block_index, position, and the arm of that position.
Chosen(draw, size) == (draw * size) \div GRAIN

NewRow(w, n, draw) ==
  [order |-> w.order, dock |-> w.dock, fraction |-> w.fraction, size |-> w.size, clause |-> w.clause,
   block |-> n \div w.size, place |-> n % w.size, draw |-> draw,
   arm |-> IF n % w.size = Chosen(draw, w.size) THEN "control" ELSE "treatment"]

\* The hash of a dock's block, the same whenever it is asked for.
Drawn(key) == IF key \in DOMAIN draws THEN {draws[key]} ELSE 0..(GRAIN - 1)

\* assign_arm from the lock to the flush.
Assign(s) ==
  LET w == work[s]
      n == Len(SelectSeq(rows, LAMBDA r : r.dock = w.dock))
      key == <<w.dock, n \div w.size>>
  IN /\ w.at = "checked" /\ LockFree(w.dock)
     /\ \E d \in Drawn(key) :
          /\ draws' = [k \in DOMAIN draws \cup {key} |-> IF k = key THEN d ELSE draws[k]]
          /\ work' = [work EXCEPT ![s] = [at |-> "written", row |-> NewRow(w, n, d)]]
     /\ UNCHANGED <<terms, clause, excluded, rows, abstained, taken>>

\* The rest of the intake transaction: a control order's abstention is recorded
\* with it.  Or the transaction fails and its lock goes with it.
Commit(s) ==
  /\ work[s].at = "written"
  /\ rows' = Append(rows, work[s].row)
  /\ abstained' = IF work[s].row.arm = "control" THEN abstained \cup {work[s].row.order} ELSE abstained
  /\ work' = [work EXCEPT ![s] = Idle]
  /\ UNCHANGED <<terms, clause, excluded, draws, taken>>

Fail(s) ==
  /\ work[s].at # "idle"
  /\ work' = [work EXCEPT ![s] = Idle]
  /\ UNCHANGED <<terms, clause, excluded, rows, abstained, draws, taken>>

Next ==
  \/ \E f \in Fractions : Enrol(f)
  \/ Withdraw
  \/ \E d \in Docks : Exclude(d)
  \/ \E s \in Sessions : (\E d \in Strata : Check(s, d)) \/ Assign(s) \/ Commit(s) \/ Fail(s)

Spec == Init /\ [][Next]_vars

-----------------------------------------------------------------------------
\* The integrity report over the assignments of a window.

\* verify_assignment
Verifies(r) == r.arm = (IF r.place = Chosen(r.draw, r.size) THEN "control" ELSE "treatment")

Of(w, d) == SelectSeq(w, LAMBDA r : r.dock = d)
Controls(w) == SelectSeq(w, LAMBDA r : r.arm = "control")
Ceiling(n, size) == (n + size - 1) \div size

\* _check_per_dock_guarantee: the size is the first row's.
Breached(w) ==
  {d \in Strata : Of(w, d) # <<>> /\ Len(Controls(Of(w, d))) > Ceiling(Len(Of(w, d)), Of(w, d)[1].size)}

\* _check_position_collisions
Collides(w) ==
  \E i, j \in DOMAIN w : i # j /\ w[i].dock = w[j].dock /\ w[i].block = w[j].block /\ w[i].place = w[j].place

\* _check_terms_drift, _check_abstentions_recorded
Drifts(w) == \E i, j \in DOMAIN w : w[i].fraction # w[j].fraction
Unrecorded(w) == \E i \in DOMAIN w : w[i].arm = "control" /\ w[i].order \notin abstained

\* blocks_a_statement, without the two tests that need a hundred assignments
\* or twenty of each arm.
Blocks(w) ==
  \/ \E i \in DOMAIN w : ~Verifies(w[i])
  \/ Breached(w) # {}
  \/ Drifts(w)
  \/ Unrecorded(w)

\* While the clause is not changed, what concurrent intakes commit is a fair
\* experiment: no place of a dock's block is handed out twice, every whole
\* block has exactly one control order, and the integrity report over the
\* history does not block a statement.
ArmsAreFair ==
  ~Drifts(rows) =>
    /\ ~Collides(rows) /\ ~Blocks(rows)
    /\ \A d \in Strata : Of(rows, d) # <<>> =>
         Len(Controls(Of(rows, d))) >= Len(Of(rows, d)) \div Of(rows, d)[1].size

\* "no dock takes more than ceil(n / size)", as the report tests it: over the
\* orders of the statement's window, which need not begin with a block.  It does
\* not hold (README, known gaps).
WindowsAreFair ==
  \A i \in DOMAIN rows : \A j \in i..Len(rows) :
    ~Drifts(SubSeq(rows, i, j)) => Breached(SubSeq(rows, i, j)) = {}
=============================================================================
