------------------------ MODULE AdvanceOrders_proofs ------------------------
(***************************************************************************)
(* Proofs about AdvanceOrders for every set of orders, sessions and jobs.  *)
(* The inductive invariant is IInv: what a session has counted as moved,   *)
(* it holds locked (LockedWhileMoved); what it holds locked lies at or     *)
(* below every row it still has to visit (LocksBehind); and a session that *)
(* has not started its loop holds nothing it could report (Quiescent).     *)
(***************************************************************************)
EXTENDS AdvanceOrders, TLAPS

LockedWhileMoved ==
  \A s \in Sessions : \A o \in moved[s] : rowLock[o] = s

LocksBehind ==
  \A s \in Sessions : \A o \in Orders : \A p \in todo[s] :
    rowLock[o] = s => o <= p

Quiescent ==
  \A s \in Sessions :
    /\ pc[s] # "loop" => moved[s] = {}
    /\ pc[s] \in {"idle", "lock"} => \A o \in Orders : rowLock[o] # s
    /\ pc[s] = "lock" => \E o \in Orders : todo[s] = {o}

IInv ==
  /\ TypeOK
  /\ LockedWhileMoved
  /\ LocksBehind
  /\ Quiescent
  /\ ReportedMovesAreReal

-----------------------------------------------------------------------------

\* legal_sources and allowed_next say the same thing from the two ends.
LEMMA SourcesAreLegal ==
  ASSUME NEW from, NEW to, from \in legal_sources(to)
  PROVE  from # to /\ to \in allowed_next(from)
BY DEF legal_sources

\* What a call of advance_orders asks for.
LEMMA JobFacts ==
  ASSUME NEW j \in Jobs
  PROVE  /\ j.new \in OrderStatus
         /\ j.precondition \subseteq OrderStatus
         /\ j.locks \in BOOLEAN
         /\ \A st \in j.precondition : st # j.new /\ j.new \in allowed_next(st)
BY JobsAssumption, SourcesAreLegal DEF Job

\* The invariant holds at the start.
LEMMA InitEstablishesIInv == Init => IInv
BY NoSessionAssumption
   DEF Init, IInv, TypeOK, LockedWhileMoved, LocksBehind, Quiescent,
       ReportedMovesAreReal, PC, OrderStatus, NothingRead

\* A call begins with no lock and nothing written.
LEMMA BeginKeepsIInv ==
  ASSUME IInv, NEW s \in Sessions, NEW j \in Jobs, NEW ids \in SUBSET Orders,
         Begin(s, j, ids)
  PROVE  IInv'
<1>1. TypeOK'
  BY DEF IInv, TypeOK, Begin, PC
<1>2. LockedWhileMoved' /\ LocksBehind'
  BY DEF IInv, TypeOK, LockedWhileMoved, LocksBehind, Quiescent, Begin
<1>3. Quiescent'
  BY DEF IInv, TypeOK, Quiescent, Begin, PC
<1>4. ReportedMovesAreReal'
  BY DEF IInv, TypeOK, Quiescent, ReportedMovesAreReal, Begin
<1> QED  BY <1>1, <1>2, <1>3, <1>4 DEF IInv

\* A row is locked only above every row the session holds.
LEMMA LockRowKeepsIInv ==
  ASSUME IInv, NEW s \in Sessions, LockRow(s)
  PROVE  IInv'
<1>1. TypeOK'
  BY DEF IInv, TypeOK, LockRow, PC
<1>2. LockedWhileMoved'
  BY NoSessionAssumption DEF IInv, TypeOK, LockedWhileMoved, LockRow
<1>3. LocksBehind'
  <2> SUFFICES ASSUME NEW t \in Sessions, NEW o \in Orders, NEW p \in todo[t],
                      rowLock'[o] = t
               PROVE  o <= p
    BY DEF LocksBehind, LockRow
  <2>1. CASE t = s
    BY <2>1, OrdersAssumption DEF IInv, TypeOK, Quiescent, LockRow
  <2>2. CASE t # s
    BY <2>2 DEF IInv, TypeOK, LocksBehind, LockRow
  <2> QED  BY <2>1, <2>2
<1>4. Quiescent'
  BY DEF IInv, TypeOK, Quiescent, LockRow, PC
<1>5. ReportedMovesAreReal'
  BY DEF IInv, ReportedMovesAreReal, LockRow
<1> QED  BY <1>1, <1>2, <1>3, <1>4, <1>5 DEF IInv

\* The unlocked SELECT takes no row and writes nothing.
LEMMA SelectKeepsIInv ==
  ASSUME IInv, NEW s \in Sessions, Select(s)
  PROVE  IInv'
<1>1. TypeOK'
  BY DEF IInv, TypeOK, Select, PC
<1>2. LockedWhileMoved' /\ LocksBehind' /\ ReportedMovesAreReal'
  BY DEF IInv, LockedWhileMoved, LocksBehind, ReportedMovesAreReal, Select
<1>3. Quiescent'
  BY DEF IInv, TypeOK, Quiescent, Select, PC
<1> QED  BY <1>1, <1>2, <1>3 DEF IInv

\* A row that does not match is left as it is.
LEMMA SkipRowKeepsIInv ==
  ASSUME IInv, NEW s \in Sessions, SkipRow(s)
  PROVE  IInv'
<1>1. TypeOK'
  BY DEF IInv, TypeOK, SkipRow
<1>2. LockedWhileMoved' /\ ReportedMovesAreReal'
  BY DEF IInv, LockedWhileMoved, ReportedMovesAreReal, SkipRow
<1>3. LocksBehind'
  BY DEF IInv, TypeOK, LocksBehind, SkipRow
<1>4. Quiescent'
  BY DEF IInv, TypeOK, Quiescent, SkipRow
<1> QED  BY <1>1, <1>2, <1>3, <1>4 DEF IInv

\* A row is written only from a status its precondition allows.
LEMMA UpdateRowKeepsIInv ==
  ASSUME IInv, NEW s \in Sessions, UpdateRow(s)
  PROVE  IInv'
<1>1. PICK o \in todo[s] :
        /\ IsNextRow(s, o)
        /\ rowLock[o] \in {NoSession, s}
        /\ todo' = [todo EXCEPT ![s] = @ \ {o}]
        /\ IF Matches(s, o)
           THEN /\ rowLock' = [rowLock EXCEPT ![o] = s]
                /\ moved'   = [moved EXCEPT ![s] = @ \cup {o}]
           ELSE UNCHANGED <<rowLock, moved>>
  BY DEF UpdateRow
<1>2. o \in Orders /\ pc[s] = "loop" /\ UNCHANGED <<status, pc, job, read>>
  BY DEF UpdateRow, IInv, TypeOK
<1>4. CASE ~ Matches(s, o)
  <2>0. TypeOK'
    BY <1>1, <1>2, <1>4 DEF IInv, TypeOK
  <2>1. LocksBehind'
    BY <1>1, <1>2, <1>4 DEF IInv, TypeOK, LocksBehind
  <2>2. LockedWhileMoved' /\ ReportedMovesAreReal'
    BY <1>1, <1>2, <1>4 DEF IInv, LockedWhileMoved, ReportedMovesAreReal
  <2>3. Quiescent'
    BY <1>1, <1>2, <1>4 DEF IInv, TypeOK, Quiescent
  <2> QED  BY <2>0, <2>1, <2>2, <2>3 DEF IInv
<1>5. CASE Matches(s, o)
  <2>a. moved[s] \cup {o} \in SUBSET Orders
    BY <1>2 DEF IInv, TypeOK
  <2>b. /\ rowLock' = [rowLock EXCEPT ![o] = s]
        /\ moved'   = [moved EXCEPT ![s] = moved[s] \cup {o}]
        /\ todo'    = [todo EXCEPT ![s] = todo[s] \ {o}]
    BY <1>1, <1>5 DEF IInv, TypeOK
  <2>0. TypeOK'
    BY <1>2, <2>a, <2>b DEF IInv, TypeOK
  <2>1. LocksBehind'
    BY <1>1, <1>2, <1>5, OrdersAssumption, NoSessionAssumption
       DEF IInv, TypeOK, LocksBehind, IsNextRow
  <2>2. LockedWhileMoved'
    BY <1>1, <1>2, <1>5, NoSessionAssumption DEF IInv, TypeOK, LockedWhileMoved
  <2>3. ReportedMovesAreReal'
    BY <1>1, <1>2, <1>5, JobFacts DEF IInv, TypeOK, ReportedMovesAreReal, Matches
  <2>4. Quiescent'
    BY <1>2, <2>b DEF IInv, TypeOK, Quiescent
  <2> QED  BY <2>0, <2>1, <2>2, <2>3, <2>4 DEF IInv
<1> QED  BY <1>4, <1>5

\* Ending a transaction, with or without its writes, keeps the invariant.
LEMMA EndKeepsIInv ==
  ASSUME IInv, NEW s \in Sessions, EndTransaction(s),
         status' \in [Orders -> OrderStatus],
         \A o \in Orders : rowLock[o] # s => status'[o] = status[o]
  PROVE  IInv'
<1>1. TypeOK'
  BY NoSessionAssumption DEF IInv, TypeOK, EndTransaction, PC, NothingRead, OrderStatus
<1>2. LockedWhileMoved'
  BY NoSessionAssumption DEF IInv, TypeOK, LockedWhileMoved, EndTransaction
<1>3. LocksBehind'
  BY NoSessionAssumption DEF IInv, TypeOK, LocksBehind, EndTransaction
<1>4. Quiescent'
  BY NoSessionAssumption DEF IInv, TypeOK, Quiescent, EndTransaction, PC
<1>5. ReportedMovesAreReal'
  <2> SUFFICES ASSUME NEW t \in Sessions, NEW o \in moved'[t]
               PROVE  status'[o] \in job'[t].precondition /\ status'[o] # job'[t].new
    BY DEF ReportedMovesAreReal
  <2>1. t # s /\ o \in moved[t] /\ o \in Orders
    BY DEF IInv, TypeOK, EndTransaction
  <2>2. rowLock[o] = t
    BY <2>1 DEF IInv, LockedWhileMoved
  <2>3. status'[o] = status[o] /\ job' = job
    BY <2>1, <2>2 DEF EndTransaction
  <2> QED  BY <2>1, <2>3 DEF IInv, ReportedMovesAreReal
<1> QED  BY <1>1, <1>2, <1>3, <1>4, <1>5 DEF IInv

\* A commit publishes the session's writes and drops its locks.
LEMMA CommitKeepsIInv ==
  ASSUME IInv, NEW s \in Sessions, Commit(s)
  PROVE  IInv'
<1>1. status' \in [Orders -> OrderStatus]
  BY JobFacts DEF IInv, TypeOK, Commit
<1>2. \A o \in Orders : rowLock[o] # s => status'[o] = status[o]
  BY DEF IInv, TypeOK, LockedWhileMoved, Commit
<1> QED  BY <1>1, <1>2, EndKeepsIInv DEF Commit

\* A rollback drops them.
LEMMA RollbackKeepsIInv ==
  ASSUME IInv, NEW s \in Sessions, Rollback(s)
  PROVE  IInv'
<1>1. status' \in [Orders -> OrderStatus]
  BY DEF IInv, TypeOK, Rollback
<1>2. \A o \in Orders : status'[o] = status[o]
  BY DEF Rollback
<1> QED  BY <1>1, <1>2, EndKeepsIInv DEF Rollback

\* Every step keeps the invariant.
LEMMA NextKeepsIInv == IInv /\ [Next]_vars => IInv'
<1> SUFFICES ASSUME IInv, [Next]_vars PROVE IInv'
  OBVIOUS
<1>1. CASE UNCHANGED vars
  BY <1>1 DEF IInv, TypeOK, LockedWhileMoved, LocksBehind, Quiescent,
              ReportedMovesAreReal, vars
<1>2. CASE Next
  BY <1>2, BeginKeepsIInv, LockRowKeepsIInv, SelectKeepsIInv, SkipRowKeepsIInv,
     UpdateRowKeepsIInv, CommitKeepsIInv, RollbackKeepsIInv DEF Next
<1> QED  BY <1>1, <1>2

\* ... and so it holds in every reachable state.
LEMMA Invariance == Spec => []IInv
BY InitEstablishesIInv, NextKeepsIInv, PTL DEF Spec

-----------------------------------------------------------------------------

(* However many sessions run advance_orders at once, every order a call    *)
(* reports as moved still meets its precondition when it commits.          *)
THEOREM MovesAreReal == Spec => []ReportedMovesAreReal
<1>1. IInv => ReportedMovesAreReal
  BY DEF IInv
<1> QED  BY <1>1, Invariance, PTL

\* Waiting follows the id order, so the calls of advance_orders cannot deadlock.
THEOREM NoLockCycle == Spec => []WaitChainsAscend
<1>1. IInv => WaitChainsAscend
  <2> SUFFICES ASSUME IInv, NEW s \in Sessions, NEW t \in Sessions, NEW u \in Sessions,
                      NEW o \in Orders, NEW p \in Orders,
                      WaitsFor(s, t, o), WaitsFor(t, u, p)
               PROVE  o < p
    BY DEF WaitChainsAscend
  <2>1. rowLock[o] = t /\ rowLock[p] # t /\ p \in todo[t]
    BY DEF WaitsFor, IsNextRow
  <2>2. o <= p /\ o # p
    BY <2>1 DEF IInv, LocksBehind
  <2> QED  BY <2>2, OrdersAssumption
<1> QED  BY <1>1, Invariance, PTL

(* The concurrent writers implement the order lifecycle: each commit moves *)
(* orders only along the state machine's table.                            *)
THEOREM WritersFollowLifecycle == Spec => FollowsLifecycle
<1>1. Init => Lifecycle!Init
  BY DEF Init, Lifecycle!Init, OrderStatus, Lifecycle!OrderStatus
<1>2. IInv /\ [Next]_vars => [Lifecycle!Next]_status
  <2> SUFFICES ASSUME IInv, Next, NEW s \in Sessions, Commit(s)
               PROVE  Lifecycle!Next
    BY DEF Next, vars, Begin, LockRow, Select, SkipRow, UpdateRow, Rollback
  <2>1. status' \in [Orders -> OrderStatus]
    BY JobFacts DEF IInv, TypeOK, Commit
  <2>2. ASSUME NEW o \in Orders
        PROVE  status'[o] = status[o] \/ status'[o] \in allowed_next(status[o])
    BY JobFacts DEF IInv, TypeOK, ReportedMovesAreReal, Commit
  <2> QED
    BY <2>1, <2>2 DEF Lifecycle!Next, Lifecycle!LegalMove, Lifecycle!allowed_next,
       allowed_next, Lifecycle!OrderStatus, OrderStatus, Lifecycle!TERMINAL, TERMINAL,
       Lifecycle!Forward, Forward, Lifecycle!AlwaysAvailable, AlwaysAvailable
<1> QED  BY <1>1, <1>2, Invariance, PTL DEF Spec, FollowsLifecycle, Lifecycle!Spec

=============================================================================
