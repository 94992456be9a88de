---------------------------- MODULE AdvanceOrders ----------------------------
(***************************************************************************)
(* advance_orders (app/orders/status_service.py) run by several database   *)
(* sessions at once.  A call reads its orders without a lock, skips the    *)
(* ones that cannot move, and then, in id order, issues one conditional    *)
(* UPDATE per order; the row locks those take are held until the caller    *)
(* commits or rolls back.  Postgres (READ COMMITTED) is external: a        *)
(* statement reads the committed rows, an UPDATE of a locked row waits and *)
(* then evaluates its WHERE clause again on the row it finds.              *)
(***************************************************************************)
EXTENDS Naturals, OrderStateMachine

CONSTANTS
  Orders,       \* order ids; their order is the order of `ORDER BY id`
  Sessions,     \* concurrent database sessions
  Jobs,         \* the calls the program makes: what they move orders to
  NoSession     \* an unlocked row

(***************************************************************************)
(* A job is one call site: the new status, the caller's only_from (or the  *)
(* state machine's own sources when it names none), and whether the caller *)
(* took the row FOR UPDATE before calling (manual assign and cancel do).   *)
(***************************************************************************)
Job == [new : OrderStatus, precondition : SUBSET OrderStatus, locks : BOOLEAN]

\* The call sites that race: the dispatch cycle's assignment, in-flight
\* insertions included ...
CycleAssign == [new |-> "assigned", precondition |-> {"held", "queued"}, locks |-> FALSE]
\* ... a dispatcher's, of one order by hand, from ASSIGNABLE_STATUSES under the
\* row's lock ...
ManualAssign == [CycleAssign EXCEPT !.locks = TRUE]
\* ... a driver's pickup and delivery ...
DriverReports ==
  {[new |-> s, precondition |-> legal_sources(s), locks |-> FALSE] : s \in {"picked_up", "delivered"}}
\* ... and a dispatcher's cancel.
CancelLive ==
  [new |-> "cancelled", precondition |-> {"assigned", "en_route_pickup"}, locks |-> TRUE]
CallSites == {CycleAssign, ManualAssign, CancelLive} \cup DriverReports

ASSUME OrdersAssumption == Orders \subseteq Nat
ASSUME JobsAssumption ==
  /\ Jobs \subseteq Job
  /\ \A j \in Jobs : j.precondition \subseteq legal_sources(j.new)
ASSUME NoSessionAssumption == NoSession \notin Sessions

VARIABLES
  status,       \* committed orders.status
  rowLock,      \* rowLock[o]: the session holding o's row, or NoSession
  pc,           \* where each session stands in its transaction
  job,          \* the call a session makes
  read,         \* statuses a session read, unlocked
  todo,         \* the rows of its loop still ahead
  moved         \* the orders it has written and will report as moved

vars == <<status, rowLock, pc, job, read, todo, moved>>

PC == {"idle", "lock", "select", "loop"}

\* What a session knows of the orders before its SELECT.
NothingRead == [o \in Orders |-> "received"]

\* Types, and: a session between transactions holds no row and owes no write.
TypeOK ==
  /\ status  \in [Orders -> OrderStatus]
  /\ rowLock \in [Orders -> Sessions \cup {NoSession}]
  /\ pc      \in [Sessions -> PC]
  /\ job     \in [Sessions -> Jobs]
  /\ read    \in [Sessions -> [Orders -> OrderStatus]]
  /\ todo    \in [Sessions -> SUBSET Orders]
  /\ moved   \in [Sessions -> SUBSET Orders]
  /\ \A s \in Sessions : pc[s] = "idle" =>
       todo[s] = {} /\ moved[s] = {} /\ \A o \in Orders : rowLock[o] # s

Init ==
  /\ status  \in [Orders -> {"received", "held"}]
  /\ rowLock = [o \in Orders |-> NoSession]
  /\ pc      = [s \in Sessions |-> "idle"]
  /\ job     \in [Sessions -> Jobs]
  /\ read    = [s \in Sessions |-> NothingRead]
  /\ todo    = [s \in Sessions |-> {}]
  /\ moved   = [s \in Sessions |-> {}]

-----------------------------------------------------------------------------

\* A handler starts a transaction that will advance `ids`.
Begin(s, j, ids) ==
  /\ pc[s] = "idle"
  /\ ids # {}
  /\ j.locks => \E o \in Orders : ids = {o}
  /\ pc'   = [pc EXCEPT ![s] = IF j.locks THEN "lock" ELSE "select"]
  /\ job'  = [job EXCEPT ![s] = j]
  /\ todo' = [todo EXCEPT ![s] = ids]
  /\ UNCHANGED <<status, rowLock, read, moved>>

\* SELECT ... FOR UPDATE of the one order a dispatcher acts on.
LockRow(s) ==
  /\ pc[s] = "lock"
  /\ \A o \in todo[s] : rowLock[o] = NoSession
  /\ rowLock' = [o \in Orders |-> IF o \in todo[s] THEN s ELSE rowLock[o]]
  /\ pc' = [pc EXCEPT ![s] = "select"]
  /\ UNCHANGED <<status, job, read, todo, moved>>

\* The unlocked SELECT of the call's orders.
Select(s) ==
  /\ pc[s] = "select"
  /\ read' = [read EXCEPT ![s] = status]
  /\ pc'   = [pc EXCEPT ![s] = "loop"]
  /\ UNCHANGED <<status, rowLock, job, todo, moved>>

\* Mutant: rows taken in whatever order the SELECT returned them.
IsNextRow_Unordered(s, o) == o \in todo[s]

\* The rows are taken in ascending id order.
IsNextRow(s, o) == o \in todo[s] /\ \A p \in todo[s] : o <= p

\* Whether the row as read is worth an UPDATE at all.
Eligible(s, o) ==
  /\ read[s][o] # job[s].new
  /\ can_transition(read[s][o], job[s].new)
  /\ read[s][o] \in job[s].precondition

SkipRow(s) ==
  /\ pc[s] = "loop"
  /\ \E o \in todo[s] :
       /\ IsNextRow(s, o)
       /\ ~ Eligible(s, o)
       /\ todo' = [todo EXCEPT ![s] = @ \ {o}]
  /\ UNCHANGED <<status, rowLock, pc, job, read, moved>>

\* Mutant: the UPDATE carries no WHERE on the status, as before CON-5.
Matches_Unconditional(s, o) == TRUE

\* What the UPDATE's WHERE clause finds when it gets the row.
Matches(s, o) == status[o] \in job[s].precondition

\* UPDATE orders SET status = new WHERE id = o AND status IN precondition.
UpdateRow(s) ==
  /\ pc[s] = "loop"
  /\ \E o \in todo[s] :
       /\ IsNextRow(s, o)
       /\ Eligible(s, o)
       /\ rowLock[o] \in {NoSession, s}
       /\ todo' = [todo EXCEPT ![s] = @ \ {o}]
       /\ IF Matches(s, o)
          THEN /\ rowLock' = [rowLock EXCEPT ![o] = s]
               /\ moved'   = [moved EXCEPT ![s] = @ \cup {o}]
          ELSE UNCHANGED <<rowLock, moved>>   \* changed underneath: not moved
  /\ UNCHANGED <<status, pc, job, read>>

\* Mutant: a rolled-back session goes back to the pool with its transaction open.
EndTransaction_KeepsLocks(s) ==
  /\ pc'      = [pc EXCEPT ![s] = "idle"]
  /\ todo'    = [todo EXCEPT ![s] = {}]
  /\ moved'   = [moved EXCEPT ![s] = {}]
  /\ read'    = [read EXCEPT ![s] = NothingRead]
  /\ UNCHANGED <<job, rowLock>>

EndTransaction(s) ==
  /\ rowLock' = [o \in Orders |-> IF rowLock[o] = s THEN NoSession ELSE rowLock[o]]
  /\ pc'      = [pc EXCEPT ![s] = "idle"]
  /\ todo'    = [todo EXCEPT ![s] = {}]
  /\ moved'   = [moved EXCEPT ![s] = {}]
  /\ read'    = [read EXCEPT ![s] = NothingRead]
  /\ UNCHANGED job

\* The caller commits once the call has returned.
Commit(s) ==
  /\ pc[s] = "loop"
  /\ todo[s] = {}
  /\ status' = [o \in Orders |-> IF o \in moved[s] THEN job[s].new ELSE status[o]]
  /\ EndTransaction(s)

\* The caller raises (or Postgres aborts it) anywhere in the transaction.
Rollback(s) ==
  /\ pc[s] # "idle"
  /\ EndTransaction(s)
  /\ UNCHANGED status

Next ==
  \E s \in Sessions :
    \/ \E j \in Jobs, ids \in SUBSET Orders : Begin(s, j, ids)
    \/ LockRow(s) \/ Select(s) \/ SkipRow(s) \/ UpdateRow(s)
    \/ Commit(s) \/ Rollback(s)

Spec == Init /\ [][Next]_vars

-----------------------------------------------------------------------------
\* Properties

(* An order a call has counted as moved still satisfies the call's         *)
(* precondition in the committed state until the call's transaction ends:  *)
(* no other session can slip a change between the conditional UPDATE and   *)
(* the commit, so no two calls report the same move (CON-5).               *)
ReportedMovesAreReal ==
  \A s \in Sessions : \A o \in moved[s] :
    status[o] \in job[s].precondition /\ status[o] # job[s].new

WaitsFor(s, t, o) ==
  /\ \/ pc[s] = "lock" /\ o \in todo[s]
     \/ pc[s] = "loop" /\ IsNextRow(s, o) /\ Eligible(s, o)
  /\ rowLock[o] = t
  /\ t # s

(* A session that waits for a row while another waits for one of its own   *)
(* waits further up the id order, so concurrent calls over overlapping     *)
(* sets of orders never deadlock: row order is lock order.                 *)
WaitChainsAscend ==
  \A s, t, u \in Sessions : \A o, p \in Orders :
    WaitsFor(s, t, o) /\ WaitsFor(t, u, p) => o < p

\* Whatever the interleaving, committed statuses follow the state machine.
Lifecycle == INSTANCE OrderLifecycle
FollowsLifecycle == Lifecycle!Spec

=============================================================================
