-------------------------- MODULE HubEventBus_proofs --------------------------
(***************************************************************************)
(* For any number of processes and hubs, and under every fault: a live run *)
(* whose lease has not run out holds its hub's lock, so two such runs      *)
(* never share a hub.  Without faults other than expiry, no event is lost. *)
(***************************************************************************)
EXTENDS HubEventBus, TLAPS

\* The invariant: where a poll can be, and who holds which lock.
Inv == Types /\ OneThingAtATime /\ LiveRunHoldsLock

USE DEF redisVars, pollVars, runVars, Kinds, Stages, NoRun, Run, Live, LiveTokens, RunsOf

(* Taking a free lock: the new run is live and holds it, and no other run  *)
(* had it.                                                                 *)
LEMMA TakeLockStep ==
  ASSUME Types, LiveRunHoldsLock,
         NEW t \in Tokens, NEW h \in Hubs, NEW i \in Instances,
         NEW kind \in Kinds, NEW stage \in Stages,
         TakeLock(t, h, i, kind, stage), UNCHANGED deposed
  PROVE  /\ lock' \in [Hubs -> Tokens \cup {NoToken}]
         /\ run' \in [Tokens -> Run \cup {NoRun}]
         /\ deposed \subseteq LiveTokens'
         /\ LiveRunHoldsLock'
         /\ ~ Live(t)
         /\ \A u \in Tokens \ {t} : run'[u] = run[u]
         /\ run'[t] = [stage |-> stage, kind |-> kind, inst |-> i, hub |-> h]
  <1>1. ~ Live(t) /\ lock[h] = NoToken
    BY DEF TakeLock, Fresh, Acquirable
  <1>2. /\ lock' = [lock EXCEPT ![h] = t]
        /\ run' = [run EXCEPT ![t] = [stage |-> stage, kind |-> kind, inst |-> i, hub |-> h]]
    BY DEF TakeLock
  <1>3. /\ lock' \in [Hubs -> Tokens \cup {NoToken}]
        /\ run' \in [Tokens -> Run \cup {NoRun}]
    BY <1>2 DEF Types
  <1>4. \A u \in Tokens \ {t} : run'[u] = run[u]
    BY <1>2 DEF Types
  <1>5. run'[t] = [stage |-> stage, kind |-> kind, inst |-> i, hub |-> h]
    BY <1>2 DEF Types
  <1>6. LiveTokens' = LiveTokens \cup {t}
    BY <1>4, <1>5
  <1>7. LiveRunHoldsLock'
    <2> SUFFICES ASSUME NEW u \in (LiveTokens \ deposed)'
                 PROVE  lock'[run'[u].hub] = u
      BY DEF LiveRunHoldsLock
    <2>1. CASE u = t
      BY <2>1, <1>2, <1>5 DEF Types
    <2>2. CASE u # t
      <3>1. u \in LiveTokens \ deposed /\ run'[u] = run[u]
        BY <2>2, <1>4, <1>6
      <3>2. lock[run[u].hub] = u /\ run[u].hub \in Hubs
        BY <3>1 DEF LiveRunHoldsLock, Types
      <3>3. run[u].hub # h
        BY <3>2, <1>1, ConstantsAssumption
      <3> QED
        BY <3>1, <3>2, <3>3, <1>2 DEF Types
    <2> QED
      BY <2>1, <2>2
  <1> QED
    BY <1>1, <1>3, <1>4, <1>5, <1>6, <1>7 DEF Types

(* What every step that drops runs, and takes no lock, does to them.       *)
LEMMA DropRuns ==
  ASSUME Types, LiveRunHoldsLock, NEW D \in SUBSET Tokens,
         run' = [t \in Tokens |-> IF t \in D THEN NoRun ELSE run[t]],
         deposed' = deposed \ D, UNCHANGED lock
  PROVE  /\ run' \in [Tokens -> Run \cup {NoRun}]
         /\ deposed' \subseteq LiveTokens'
         /\ LiveTokens' = LiveTokens \ D
         /\ LiveRunHoldsLock'
  BY DEF Types, LiveRunHoldsLock

(* A stage of a run moves on: nothing else about the runs changes.         *)
LEMMA StageStep ==
  ASSUME Types, LiveRunHoldsLock, NEW t \in Tokens, Live(t),
         NEW s \in Stages, run' = [run EXCEPT ![t].stage = s],
         UNCHANGED <<lock, deposed>>
  PROVE  /\ run' \in [Tokens -> Run \cup {NoRun}]
         /\ LiveTokens' = LiveTokens
         /\ LiveRunHoldsLock'
         /\ \A u \in Tokens \ {t} : run'[u] = run[u]
         /\ run'[t] = [run[t] EXCEPT !.stage = s]
  <1>1. run[t] \in Run
    BY DEF Types
  <1>2. \A u \in Tokens \ {t} : run'[u] = run[u]
    BY DEF Types
  <1>3. run'[t] = [run[t] EXCEPT !.stage = s]
    BY DEF Types
  <1>4. run'[t] \in Run /\ run'[t].hub = run[t].hub
    BY <1>1, <1>3
  <1>5. run' \in [Tokens -> Run \cup {NoRun}]
    BY <1>2, <1>4 DEF Types
  <1>6. LiveTokens' = LiveTokens
    BY <1>2, <1>4
  <1> QED
    BY <1>2, <1>3, <1>4, <1>5, <1>6 DEF LiveRunHoldsLock

(* The invariant is kept by the steps of a poll.                           *)
LEMMA PollingStep ==
  ASSUME Inv, NEW i \in Instances, Polling(i)
  PROVE  Inv'
  <1>1. CASE PollStart(i)
    BY <1>1 DEF PollStart, Inv, Types, OneThingAtATime, LiveRunHoldsLock, Claiming
  <1>2. CASE WakeMark(i)
    BY <1>2 DEF WakeMark, Inv, Types, OneThingAtATime, LiveRunHoldsLock, Claiming
  <1>3. CASE ScanStart(i)
    BY <1>3 DEF ScanStart, Inv, Types, OneThingAtATime, LiveRunHoldsLock, Claiming
  <1>4. CASE PollEnd(i)
    BY <1>4 DEF PollEnd, Inv, Types, OneThingAtATime, LiveRunHoldsLock, Claiming
  <1>5. ASSUME NEW h \in Hubs, WakeClaim(i, h)
        PROVE  Inv'
    BY <1>5 DEF WakeClaim, Inv, Types, OneThingAtATime, LiveRunHoldsLock, Claiming
  <1>6. ASSUME NEW h \in Hubs, ScanSkip(i, h)
        PROVE  Inv'
    BY <1>6 DEF ScanSkip, Inv, Types, OneThingAtATime, LiveRunHoldsLock, Claiming
  <1>7. ASSUME NEW h \in Hubs, NEW t \in Tokens, ScanClaim(i, h, t)
        PROVE  Inv'
    <2>1. /\ TakeLock(t, h, i, "bus", "claimed") /\ UNCHANGED deposed
          /\ poll[i] = "scanning" /\ Claiming(i) = {}
          /\ todo' = [todo EXCEPT ![i] = @ \ {h}]
          /\ UNCHANGED <<dirty, due, poll, marking, owed>>
      BY <1>7 DEF ScanClaim
    <2>2. /\ lock' \in [Hubs -> Tokens \cup {NoToken}]
          /\ run' \in [Tokens -> Run \cup {NoRun}]
          /\ deposed \subseteq LiveTokens'
          /\ LiveRunHoldsLock'
          /\ ~ Live(t)
          /\ \A u \in Tokens \ {t} : run'[u] = run[u]
          /\ run'[t] = [stage |-> "claimed", kind |-> "bus", inst |-> i, hub |-> h]
      BY <2>1, TakeLockStep DEF Inv
    <2>3. Types'
      BY <2>1, <2>2 DEF Inv, Types
    <2>4. Claiming(i)' = {t} /\ \A j \in Instances \ {i} : Claiming(j)' = Claiming(j)
      BY <2>1, <2>2 DEF Claiming
    <2>5. OneThingAtATime'
      BY <2>1, <2>4 DEF Inv, OneThingAtATime
    <2> QED
      BY <2>2, <2>3, <2>5 DEF Inv
  <1> QED
    BY <1>1, <1>2, <1>3, <1>4, <1>5, <1>6, <1>7 DEF Polling

(* ... by the steps of a run, its release included.                        *)
LEMMA RunningStep ==
  ASSUME Inv, NEW t \in Tokens, Running(t)
  PROVE  Inv'
  <1>1. ASSUME NEW s \in {"ready", "running", "releasing"},
               Live(t), run' = [run EXCEPT ![t].stage = s],
               UNCHANGED <<lock, deposed, due, pollVars>>,
               dirty' \subseteq Hubs, owed' \subseteq Hubs
        PROVE  Inv'
    <2>1. /\ run' \in [Tokens -> Run \cup {NoRun}]
          /\ LiveTokens' = LiveTokens
          /\ LiveRunHoldsLock'
          /\ \A u \in Tokens \ {t} : run'[u] = run[u]
          /\ run'[t] = [run[t] EXCEPT !.stage = s]
      BY <1>1, StageStep DEF Inv
    <2>2. Types'
      BY <1>1, <2>1 DEF Inv, Types
    <2>3. run[t] \in Run
      BY <1>1 DEF Inv, Types
    <2>4. run'[t].stage # "claimed"
      BY <2>1, <2>3, <1>1
    <2>5. \A i \in Instances : Claiming(i)' \subseteq Claiming(i)
      BY <2>1, <2>4 DEF Claiming
    <2>6. OneThingAtATime'
      BY <1>1, <2>5 DEF Inv, OneThingAtATime
    <2> QED
      BY <2>1, <2>2, <2>6 DEF Inv
  <1>2. CASE Consume(t)
    BY <1>1, <1>2 DEF Consume, Inv, Types
  <1>3. Live(t) => run[t].hub \in Hubs
    BY DEF Inv, Types
  <1>4. CASE RunStart(t)
    BY <1>1, <1>4 DEF RunStart, Inv, Types
  <1>5. CASE RunEnd(t)
    BY <1>1, <1>5 DEF RunEnd, Inv, Types
  <1>6. CASE RunFails(t)
    <2>1. Live(t) /\ owed' \subseteq Hubs
      BY <1>3, <1>6 DEF RunFails, Inv, Types
    <2> QED
      BY <1>1, <1>6, <2>1 DEF RunFails, Inv, Types
  <1>7. CASE Release(t)
    <2>1. /\ run' = [run EXCEPT ![t] = NoRun]
          /\ lock' = [h \in Hubs |-> IF h = run[t].hub /\ lock[h] = t THEN NoToken
                                     ELSE lock[h]]
          /\ deposed' = deposed \ {t}
          /\ UNCHANGED <<dirty, due, pollVars, owed>>
      BY <1>7 DEF Release
    <2>2. /\ run' \in [Tokens -> Run \cup {NoRun}]
          /\ LiveTokens' = LiveTokens \ {t}
          /\ \A u \in Tokens \ {t} : run'[u] = run[u]
      BY <2>1 DEF Inv, Types
    <2>3. Types'
      BY <2>1, <2>2 DEF Inv, Types
    <2>4. \A i \in Instances : Claiming(i)' \subseteq Claiming(i)
      BY <2>2 DEF Claiming
    <2>5. OneThingAtATime'
      BY <2>1, <2>4 DEF Inv, OneThingAtATime
    <2>6. LiveRunHoldsLock'
      <3> SUFFICES ASSUME NEW u \in (LiveTokens \ deposed)'
                   PROVE  lock'[run'[u].hub] = u
        BY DEF LiveRunHoldsLock
      <3>1. u # t /\ u \in LiveTokens \ deposed /\ run'[u] = run[u]
        BY <2>1, <2>2
      <3>2. lock[run[u].hub] = u /\ run[u].hub \in Hubs
        BY <3>1 DEF Inv, LiveRunHoldsLock, Types
      <3> QED
        BY <2>1, <3>1, <3>2
    <2> QED
      BY <2>3, <2>5, <2>6 DEF Inv
  <1> QED
    BY <1>2, <1>4, <1>5, <1>6, <1>7 DEF Running

(* ... by a poll that is abandoned and by a process that stops, starts     *)
(* again or dies.                                                          *)
LEMMA BreakingStep ==
  ASSUME Inv, NEW i \in Instances, Breaking(i)
  PROVE  Inv'
  <1>1. ASSUME NEW D \in SUBSET Tokens, Claiming(i) \subseteq D,
               NEW p \in {"idle", "stopped"}, AbandonPoll(i, p),
               run' = [t \in Tokens |-> IF t \in D THEN NoRun ELSE run[t]],
               deposed' = deposed \ D, owed' \subseteq Hubs,
               UNCHANGED <<due, lock>>
        PROVE  Inv'
    <2>1. /\ run' \in [Tokens -> Run \cup {NoRun}]
          /\ deposed' \subseteq LiveTokens'
          /\ LiveTokens' = LiveTokens \ D
          /\ LiveRunHoldsLock'
      BY <1>1, DropRuns DEF Inv
    <2>2. /\ poll' = [poll EXCEPT ![i] = p]
          /\ todo' = [todo EXCEPT ![i] = {}]
          /\ marking' = [marking EXCEPT ![i] = NoHub]
          /\ dirty' \subseteq dirty
      BY <1>1 DEF AbandonPoll
    <2>3. Types'
      BY <1>1, <2>1, <2>2 DEF Inv, Types
    <2>4. \A j \in Instances : Claiming(j)' \subseteq Claiming(j) \ D
      BY <1>1, <2>1 DEF Claiming
    <2>5. Claiming(i)' = {}
      BY <1>1, <2>4
    <2>6. OneThingAtATime'
      BY <2>2, <2>4, <2>5 DEF Inv, Types, OneThingAtATime
    <2> QED
      BY <2>1, <2>3, <2>6 DEF Inv
  <1>2. Claiming(i) \subseteq Tokens /\ RunsOf(i) \subseteq Tokens
        /\ Claiming(i) \subseteq RunsOf(i)
    BY DEF Claiming
  <1>3. CASE PollFails(i)
    BY <1>1, <1>2, <1>3 DEF PollFails, Inv, Types
  <1>4. CASE StopPolling(i)
    BY <1>1, <1>2, <1>4 DEF StopPolling, Inv, Types
  <1>5. CASE Crash(i)
    <2>1. owed' \subseteq Hubs
      BY <1>5 DEF Crash, Inv, Types
    <2> QED
      BY <1>1, <1>2, <1>5, <2>1 DEF Crash
  <1>6. CASE StartAgain(i)
    BY <1>6 DEF StartAgain, Inv, Types, OneThingAtATime, LiveRunHoldsLock, Claiming
  <1> QED
    BY <1>3, <1>4, <1>5, <1>6 DEF Breaking

(* ... and by everything else: events, expiry, a flush, a lock taken       *)
(* directly.                                                               *)
LEMMA InvStep ==
  ASSUME Inv, [Next]_vars
  PROVE  Inv'
  <1>1. ASSUME NEW h \in Hubs, Signals(h)
        PROVE  Inv'
    BY <1>1 DEF Signals, Publish, WakeupComesDue, WakeupDropped, Inv, Types,
                OneThingAtATime, LiveRunHoldsLock, Claiming
  <1>2. ASSUME NEW h \in Hubs, LeaseExpires(h)
        PROVE  Inv'
    <2>1. /\ deposed' = deposed \cup ({lock[h]} \cap LiveTokens)
          /\ lock' = [lock EXCEPT ![h] = NoToken]
          /\ UNCHANGED <<dirty, due, pollVars, run, owed>>
      BY <1>2 DEF LeaseExpires
    <2>2. Types' /\ OneThingAtATime'
      BY <2>1 DEF Inv, Types, OneThingAtATime, Claiming
    <2>3. LiveRunHoldsLock'
      BY <2>1 DEF Inv, Types, LiveRunHoldsLock
    <2> QED
      BY <2>2, <2>3 DEF Inv
  <1>3. ASSUME NEW i \in Instances, NEW h \in Hubs, NEW t \in Tokens,
               NEW k \in {"cycle", "other"}, LockDirectly(i, h, t, k)
        PROVE  Inv'
    <2>1. /\ TakeLock(t, h, i, k, "ready") /\ UNCHANGED deposed
          /\ UNCHANGED <<dirty, due, pollVars, owed>>
      BY <1>3 DEF LockDirectly
    <2>2. /\ lock' \in [Hubs -> Tokens \cup {NoToken}]
          /\ run' \in [Tokens -> Run \cup {NoRun}]
          /\ deposed \subseteq LiveTokens'
          /\ LiveRunHoldsLock'
          /\ ~ Live(t)
          /\ \A u \in Tokens \ {t} : run'[u] = run[u]
          /\ run'[t] = [stage |-> "ready", kind |-> k, inst |-> i, hub |-> h]
      <3>1. k \in Kinds /\ "ready" \in Stages
        OBVIOUS
      <3>2. Types /\ LiveRunHoldsLock
        BY DEF Inv
      <3> HIDE DEF Kinds, Stages, Live, LiveTokens, Run
      <3> QED
        BY <2>1, <3>1, <3>2, TakeLockStep
    <2>3. Types'
      BY <2>1, <2>2 DEF Inv, Types
    <2>4. \A j \in Instances : Claiming(j)' \subseteq Claiming(j)
      BY <2>2 DEF Claiming
    <2>5. OneThingAtATime'
      BY <2>1, <2>4 DEF Inv, OneThingAtATime
    <2> QED
      BY <2>2, <2>3, <2>5 DEF Inv
  <1>4. CASE Flush
    <2>1. /\ dirty' = {} /\ due' = {}
          /\ lock' = [h \in Hubs |-> NoToken]
          /\ deposed' = deposed \cup ({lock[h] : h \in Hubs} \cap LiveTokens)
          /\ UNCHANGED <<pollVars, run, owed>>
      BY <1>4 DEF Flush
    <2>2. Types' /\ OneThingAtATime'
      BY <2>1 DEF Inv, Types, OneThingAtATime, Claiming
    <2>3. LiveTokens \subseteq deposed'
      BY <2>1 DEF Inv, Types, LiveRunHoldsLock
    <2>4. LiveRunHoldsLock'
      BY <2>1, <2>3 DEF LiveRunHoldsLock
    <2> QED
      BY <2>2, <2>4 DEF Inv
  <1>5. CASE UNCHANGED vars
    BY <1>5 DEF vars, Inv, Types, OneThingAtATime, LiveRunHoldsLock, Claiming
  <1> QED
    BY <1>1, <1>2, <1>3, <1>4, <1>5, PollingStep, RunningStep, BreakingStep DEF Next

\* The invariant holds at the start ...
LEMMA InvInit == Init => Inv
  BY DEF Init, Inv, Types, OneThingAtATime, LiveRunHoldsLock, Claiming

\* ... and in every reachable state.
LEMMA InvHolds == Spec => []Inv
  BY InvInit, InvStep, PTL DEF Spec

(* Types, and one thing at a time per poll loop, under every fault.        *)
THEOREM TypeCorrect == Spec => []TypeOK
  <1>1. Inv => TypeOK
    BY DEF Inv, TypeOK
  <1> QED
    BY <1>1, InvHolds, PTL

(* One run per hub: whatever expires, crashes, restarts or is flushed, a   *)
(* live run that has not been deposed holds its hub's lock.                *)
THEOREM OneRunPerHub == Spec => []LiveRunHoldsLock
  <1>1. Inv => LiveRunHoldsLock
    BY DEF Inv
  <1> QED
    BY <1>1, InvHolds, PTL

-----------------------------------------------------------------------------
(* Events.  With no fault but expiry, nothing drops a claimed or ready run *)
(* or a mark between its ZREM and its SADD.                                *)

\* The run that took the hub's mark and has not started yet.
Carries(t, h) ==
  /\ t \in LiveTokens /\ run[t].hub = h /\ run[t].kind = "bus"
  /\ run[t].stage \in {"claimed", "ready"}

Kept(h) ==
  \/ h \in dirty
  \/ \E i \in Instances : marking[i] = h
  \/ \E t \in Tokens : Carries(t, h)

(* A step that leaves the marks, the polls and the runs that carry h loses *)
(* nothing.                                                                *)
LEMMA StillKept ==
  ASSUME NEW h \in Hubs, Kept(h), dirty \subseteq dirty', UNCHANGED marking,
         \A t \in Tokens : Carries(t, h) => Carries(t, h)'
  PROVE  Kept(h)'
  BY DEF Kept

\* Only the bus goes through `claimed`.
ClaimsAreTheBus == \A t \in LiveTokens : run[t].stage = "claimed" => run[t].kind = "bus"

\* Every step keeps that: a run of another kind starts `ready`.
LEMMA ClaimStep ==
  ASSUME Inv, ClaimsAreTheBus, [Next]_vars
  PROVE  ClaimsAreTheBus'
  <1>1. CASE UNCHANGED run
    BY <1>1 DEF ClaimsAreTheBus
  <1>2. ASSUME NEW D \in SUBSET Tokens,
               run' = [t \in Tokens |-> IF t \in D THEN NoRun ELSE run[t]]
        PROVE  ClaimsAreTheBus'
    BY <1>2 DEF ClaimsAreTheBus
  <1>3. ASSUME NEW t \in Tokens, NEW h \in Hubs, NEW i \in Instances,
               NEW k \in Kinds, NEW s \in Stages, TakeLock(t, h, i, k, s),
               s = "claimed" => k = "bus"
        PROVE  ClaimsAreTheBus'
    BY <1>3 DEF TakeLock, Inv, Types, ClaimsAreTheBus
  <1>4. ASSUME NEW i \in Instances, Polling(i)
        PROVE  ClaimsAreTheBus'
    <2>1. CASE \E h \in Hubs, t \in Tokens : ScanClaim(i, h, t)
      BY <1>3, <2>1 DEF ScanClaim
    <2> QED
      BY <1>1, <1>4, <2>1 DEF Polling, PollStart, WakeMark, ScanStart, PollEnd,
                              WakeClaim, ScanSkip
  <1>5. ASSUME NEW t \in Tokens, Running(t)
        PROVE  ClaimsAreTheBus'
    BY <1>5 DEF Running, Consume, RunStart, RunEnd, RunFails, Release, Inv, Types,
                ClaimsAreTheBus
  <1>6. ASSUME NEW i \in Instances, Breaking(i)
        PROVE  ClaimsAreTheBus'
    <2>1. Claiming(i) \subseteq Tokens /\ RunsOf(i) \subseteq Tokens
      BY DEF Claiming
    <2> QED
      BY <1>1, <1>2, <1>6, <2>1 DEF Breaking, PollFails, StopPolling, Crash, StartAgain
  <1>7. ASSUME NEW i \in Instances, NEW h \in Hubs, NEW t \in Tokens,
               NEW k \in {"cycle", "other"}, LockDirectly(i, h, t, k)
        PROVE  ClaimsAreTheBus'
    BY <1>3, <1>7 DEF LockDirectly
  <1> QED
    BY <1>1, <1>4, <1>5, <1>6, <1>7 DEF Next, vars, Signals, Publish,
       WakeupComesDue, WakeupDropped, LeaseExpires, Flush

\* Every step keeps every event, when leases are all that fails.
LEMMA EventStep ==
  ASSUME Faults \subseteq {"lease"}, Inv, ClaimsAreTheBus, EventIsKept, [Next]_vars
  PROVE  EventIsKept'
  <1>0. EventIsKept <=> \A h \in owed : Kept(h)
    BY DEF EventIsKept, Kept, Carries
  <1>1. EventIsKept' <=> \A h \in owed' : Kept(h)'
    BY DEF EventIsKept, Kept, Carries
  <1> SUFFICES ASSUME NEW h \in owed' PROVE Kept(h)'
    BY <1>1
  <1>2. h \in owed => h \in Hubs /\ Kept(h)
    BY <1>0 DEF Inv, Types
  <1>3. ASSUME UNCHANGED <<marking, owed>>, dirty \subseteq dirty',
               \A t \in Tokens : Carries(t, h) => run'[t] = run[t]
        PROVE  Kept(h)'
    <2>1. \A t \in Tokens : Carries(t, h) => Carries(t, h)'
      BY <1>3 DEF Carries
    <2> QED
      BY <1>2, <1>3, <2>1, StillKept
  <1>4. ASSUME NEW g \in Hubs, Signals(g)
        PROVE  Kept(h)'
    BY <1>2, <1>3, <1>4 DEF Signals, Publish, WakeupComesDue, WakeupDropped, Kept, Carries
  <1>5. ASSUME NEW g \in Hubs, LeaseExpires(g)
        PROVE  Kept(h)'
    BY <1>3, <1>5 DEF LeaseExpires
  <1>6. ASSUME NEW i \in Instances, Polling(i)
        PROVE  Kept(h)'
    <2>1. CASE PollStart(i) \/ ScanStart(i) \/ PollEnd(i)
      BY <1>3, <2>1 DEF PollStart, ScanStart, PollEnd
    <2>2. CASE WakeMark(i)
      BY <1>2, <2>2 DEF WakeMark, Kept, Carries, Inv, Types
    <2>3. ASSUME NEW g \in Hubs, WakeClaim(i, g)
          PROVE  Kept(h)'
      <3>1. CASE g \notin due
        BY <1>3, <2>3, <3>1 DEF WakeClaim
      <3>2. CASE g \in due
        <4>1. /\ marking[i] = NoHub /\ owed' = owed \cup {g}
              /\ marking' = [marking EXCEPT ![i] = g]
              /\ UNCHANGED <<dirty, run>>
          BY <2>3, <3>2 DEF WakeClaim
        <4>2. marking'[i] = g /\ \A j \in Instances \ {i} : marking'[j] = marking[j]
          BY <4>1 DEF Inv, Types
        <4>3. CASE h = g
          BY <4>2, <4>3 DEF Kept
        <4>4. CASE h # g
          <5>1. h \in Hubs /\ Kept(h)
            BY <1>2, <4>1, <4>4
          <5>2. \A j \in Instances : marking[j] = h => marking'[j] = h
            BY <5>1, <4>1, <4>2, ConstantsAssumption
          <5> QED
            BY <4>1, <5>1, <5>2 DEF Kept, Carries
        <4> QED
          BY <4>3, <4>4
      <3> QED
        BY <3>1, <3>2
    <2>4. ASSUME NEW g \in Hubs, ScanSkip(i, g)
          PROVE  Kept(h)'
      BY <1>3, <2>4 DEF ScanSkip
    <2>5. ASSUME NEW g \in Hubs, NEW t \in Tokens, ScanClaim(i, g, t)
          PROVE  Kept(h)'
      BY <1>3, <2>5 DEF ScanClaim, TakeLock, Fresh, Carries, Inv, Types
    <2> QED
      BY <1>6, <2>1, <2>2, <2>3, <2>4, <2>5 DEF Polling
  <1>7. ASSUME NEW t \in Tokens, Running(t)
        PROVE  Kept(h)'
    <2>1. CASE Consume(t)
      <3>1. /\ run[t].stage = "claimed" /\ t \in LiveTokens
            /\ dirty' = dirty \ {run[t].hub}
            /\ run' = [run EXCEPT ![t].stage = "ready"]
            /\ UNCHANGED <<marking, owed, lock, deposed>>
        BY <2>1 DEF Consume
      <3>2. /\ \A u \in Tokens \ {t} : run'[u] = run[u]
            /\ run'[t] = [run[t] EXCEPT !.stage = "ready"]
            /\ run[t] \in Run
        BY <3>1 DEF Inv, Types
      <3>3. /\ run'[t].hub = run[t].hub /\ run'[t].kind = run[t].kind
            /\ run'[t].stage = "ready"
        BY <3>2
      <3>4. Carries(t, run[t].hub)'
        <4>1. run[t].kind = "bus"
          BY <3>1 DEF ClaimsAreTheBus
        <4> QED
          BY <3>3, <4>1 DEF Carries
      <3>5. CASE h = run[t].hub
        BY <3>3, <3>4, <3>5 DEF Kept
      <3>6. CASE h # run[t].hub
        <4>1. \A u \in Tokens : Carries(u, h) => Carries(u, h)'
          BY <3>2, <3>6 DEF Carries
        <4> QED
          BY <1>2, <3>1, <3>6, <4>1 DEF Kept
      <3> QED
        BY <3>5, <3>6
    <2>2. CASE RunStart(t)
      <3>1. /\ run[t].stage = "ready" /\ t \in LiveTokens
            /\ run' = [run EXCEPT ![t].stage = "running"]
            /\ owed' = IF run[t].kind = "other" THEN owed ELSE owed \ {run[t].hub}
            /\ UNCHANGED <<dirty, marking>>
        BY <2>2 DEF RunStart
      <3>2. \A u \in Tokens \ {t} : run'[u] = run[u]
        BY <3>1 DEF Inv, Types
      <3>3. h \in owed /\ ~ Carries(t, h)
        BY <3>1 DEF Carries
      <3>4. \A u \in Tokens : Carries(u, h) => Carries(u, h)'
        BY <3>2, <3>3 DEF Carries
      <3> QED
        BY <1>2, <3>1, <3>3, <3>4 DEF Kept
    <2>3. CASE RunEnd(t)
      BY <1>3, <2>3 DEF RunEnd, Carries, Inv, Types
    <2>4. CASE RunFails(t)
      BY <2>4 DEF RunFails
    <2>5. CASE Release(t)
      BY <1>3, <2>5 DEF Release, Carries, Inv, Types
    <2> QED
      BY <1>7, <2>1, <2>2, <2>3, <2>4, <2>5 DEF Running
  <1>8. ASSUME NEW i \in Instances, Breaking(i)
        PROVE  Kept(h)'
    BY <1>3, <1>8 DEF Breaking, PollFails, StopPolling, Crash, StartAgain
  <1>9. ASSUME NEW i \in Instances, NEW g \in Hubs, NEW t \in Tokens,
               NEW k \in {"cycle", "other"}, LockDirectly(i, g, t, k)
        PROVE  Kept(h)'
    BY <1>3, <1>9 DEF LockDirectly, TakeLock, Fresh, Carries, Inv, Types
  <1>10. CASE UNCHANGED vars
    BY <1>3, <1>10 DEF vars
  <1>11. ~ Flush
    BY DEF Flush
  <1> QED
    BY <1>4, <1>5, <1>6, <1>7, <1>8, <1>9, <1>10, <1>11 DEF Next

(* No event is lost, for any number of processes and hubs, as long as no   *)
(* process dies or stops, no cycle raises and Redis answers; locks may     *)
(* expire under live runs.                                                 *)
THEOREM NoEventLost ==
  ASSUME Faults \subseteq {"lease"}
  PROVE  Spec => []EventIsKept
  <1>1. Init => ClaimsAreTheBus /\ EventIsKept
    BY DEF Init, ClaimsAreTheBus, EventIsKept
  <1>2. Inv /\ ClaimsAreTheBus /\ EventIsKept /\ [Next]_vars
          => ClaimsAreTheBus' /\ EventIsKept'
    BY ClaimStep, EventStep
  <1> QED
    BY <1>1, <1>2, InvHolds, PTL DEF Spec

-----------------------------------------------------------------------------
(* One process's runs of one hub.                                          *)

\* A bus run between its claim and its handler's return.
AtWork(t) ==
  t \in LiveTokens /\ run[t].kind = "bus" /\ run[t].stage \in {"claimed", "ready", "running"}

(* A step that puts no bus run to work, and moves none to another process  *)
(* or hub, keeps them apart.                                               *)
LEMMA NoNewWork ==
  ASSUME OneBusRunPerProcess,
         \A t \in Tokens : AtWork(t)' =>
           /\ AtWork(t)
           /\ run'[t].inst = run[t].inst
           /\ run'[t].hub = run[t].hub
  PROVE  OneBusRunPerProcess'
  BY DEF OneBusRunPerProcess, AtWork

(* Every step keeps them apart: a claim finds none of the process's runs   *)
(* of that hub at work, in its memory or between claim and task.           *)
LEMMA OneBusRunStep ==
  ASSUME Inv, OneBusRunPerProcess, [Next]_vars
  PROVE  OneBusRunPerProcess'
  <1>1. CASE UNCHANGED run
    BY <1>1 DEF OneBusRunPerProcess
  <1>2. ASSUME NEW D \in SUBSET Tokens,
               run' = [t \in Tokens |-> IF t \in D THEN NoRun ELSE run[t]]
        PROVE  OneBusRunPerProcess'
    BY <1>2, NoNewWork DEF AtWork
  <1>3. ASSUME NEW i \in Instances, NEW h \in Hubs, NEW t \in Tokens, ScanClaim(i, h, t)
        PROVE  OneBusRunPerProcess'
    <2>1. /\ run' = [run EXCEPT ![t] = [stage |-> "claimed", kind |-> "bus", inst |-> i, hub |-> h]]
          /\ Claiming(i) = {} /\ h \notin LocalRunning(i)
      BY <1>3 DEF ScanClaim, TakeLock
    <2>2. /\ \A u \in Tokens \ {t} : run'[u] = run[u]
          /\ run'[t] = [stage |-> "claimed", kind |-> "bus", inst |-> i, hub |-> h]
      BY <2>1 DEF Inv, Types
    <2>3. \A u \in Tokens : AtWork(u) => run[u].inst # i \/ run[u].hub # h
      BY <2>1 DEF AtWork, Claiming, LocalRunning
    <2> QED
      BY <2>2, <2>3 DEF OneBusRunPerProcess, AtWork
  <1>4. ASSUME NEW i \in Instances, Polling(i)
        PROVE  OneBusRunPerProcess'
    BY <1>1, <1>3, <1>4 DEF Polling, PollStart, WakeMark, ScanStart, PollEnd,
                            WakeClaim, ScanSkip
  <1>5. ASSUME NEW t \in Tokens, Running(t)
        PROVE  OneBusRunPerProcess'
    <2>1. CASE Release(t)
      BY <2>1, NoNewWork DEF Release, AtWork, Inv, Types
    <2>2. ASSUME NEW s \in {"ready", "running", "releasing"},
                 run[t].stage \in {"claimed", "ready", "running"},
                 run' = [run EXCEPT ![t].stage = s]
          PROVE  OneBusRunPerProcess'
      <3>1. run[t] \in Run
        BY <2>2 DEF Inv, Types
      <3>2. \A u \in Tokens \ {t} : run'[u] = run[u]
        BY <2>2 DEF Inv, Types
      <3>3. run'[t].inst = run[t].inst /\ run'[t].hub = run[t].hub /\ run'[t].kind = run[t].kind
        BY <2>2, <3>1 DEF Inv, Types
      <3> QED
        BY <2>2, <3>2, <3>3, NoNewWork DEF AtWork
    <2> QED
      BY <1>5, <2>1, <2>2 DEF Running, Consume, RunStart, RunEnd, RunFails
  <1>6. ASSUME NEW i \in Instances, Breaking(i)
        PROVE  OneBusRunPerProcess'
    <2>1. Claiming(i) \subseteq Tokens /\ RunsOf(i) \subseteq Tokens
      BY DEF Claiming
    <2> QED
      BY <1>1, <1>2, <1>6, <2>1 DEF Breaking, PollFails, StopPolling, Crash, StartAgain
  <1>7. ASSUME NEW i \in Instances, NEW h \in Hubs, NEW t \in Tokens,
               NEW k \in {"cycle", "other"}, LockDirectly(i, h, t, k)
        PROVE  OneBusRunPerProcess'
    BY <1>7, NoNewWork DEF LockDirectly, TakeLock, AtWork, Inv, Types
  <1> QED
    BY <1>1, <1>4, <1>5, <1>6, <1>7 DEF Next, vars, Signals, Publish,
       WakeupComesDue, WakeupDropped, LeaseExpires, Flush

(* One process never has two bus runs of a hub at work, under every fault: *)
(* it rests on the process's memory of its runs, not on the lease.         *)
THEOREM OneRunPerProcess == Spec => []OneBusRunPerProcess
  <1>1. Init => OneBusRunPerProcess
    BY DEF Init, OneBusRunPerProcess
  <1>2. Inv /\ OneBusRunPerProcess /\ [Next]_vars => OneBusRunPerProcess'
    BY OneBusRunStep
  <1> QED
    BY <1>1, <1>2, InvHolds, PTL DEF Spec

=============================================================================
