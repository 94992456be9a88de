----------------------------- MODULE HubEventBus -----------------------------
(***************************************************************************)
(* The per-hub event bus and the hub lock (app/events/bus.py).  Events     *)
(* mark a hub dirty in Redis; every process polls the dirty set, takes the *)
(* hub's lock, and runs one dispatch cycle.  The lock is a key with an     *)
(* owner's token and an expiry.  The sweep, a dispatcher's forced cycle,   *)
(* a dispatcher's assign and the rebuild take the same lock directly.      *)
(*                                                                         *)
(* A run is known by its token; a token is used again once nothing, in     *)
(* Redis or in a process, still holds it (the code draws a fresh uuid).    *)
(* A hub has at most one wake-up here; the scores of the sorted set are    *)
(* left out, a wake-up enters `due` when its time has come.                *)
(***************************************************************************)
LOCAL INSTANCE TLC

CONSTANTS
  Instances,  \* processes of the API
  Hubs,
  Tokens,
  NoHub, NoToken,
  Faults      \* which of the faults below this instance may meet

(* "crash": a process dies; "redis": a call of the poll loop raises;       *)
(* "stop": a process shuts down; "handler": a cycle raises; "lease": a     *)
(* lock expires under a live run; "flush": Redis is emptied.               *)
FaultKinds == {"crash", "redis", "stop", "handler", "lease", "flush"}

ASSUME ConstantsAssumption ==
  /\ NoHub \notin Hubs
  /\ NoToken \notin Tokens
  /\ Faults \subseteq FaultKinds

VARIABLES
  dirty,    \* events:dirty_hubs
  due,      \* hubs whose wake-up in events:wakeups has come due
  lock,     \* lock[h]: the token in events:running:{h}, or NoToken
  poll,     \* poll[i]: where process i's poll is
  todo,     \* todo[i]: hubs of the list that poll is going through
  marking,  \* marking[i]: the hub whose wake-up it has removed, not yet marked
  run,      \* run[t]: the run that drew token t
  deposed,  \* tokens of live runs whose lock expired or was flushed
  owed      \* hubs with an event no cycle has started after

redisVars == <<dirty, due, lock>>
pollVars == <<poll, todo, marking>>
runVars == <<run, deposed>>
vars == <<redisVars, pollVars, runVars, owed>>

(* A run of the bus goes from `claimed` (the hub still dirty) to `ready`,  *)
(* `running` and `releasing`; one that takes the lock directly starts at   *)
(* `ready`.  An assign and a rebuild run no cycle.                         *)
Kinds == {"bus", "cycle", "other"}
Stages == {"claimed", "ready", "running", "releasing"}
NoRun == [stage |-> "none"]
Run == [stage : Stages, kind : Kinds, inst : Instances, hub : Hubs]

Live(t) == run[t].stage # "none"
LiveTokens == {t \in Tokens : Live(t)}
RunsOf(i) == {t \in LiveTokens : run[t].inst = i}

\* Mutant: the process does not remember what it is running.
LocalRunning_Forgotten(i) == {}

\* _local_running: from the task's creation until its handler returns.
LocalRunning(i) ==
  {run[t].hub : t \in {u \in RunsOf(i) : /\ run[u].kind = "bus"
                                         /\ run[u].stage \in {"ready", "running"}}}

\* The poll is between taking a lock and creating the task.
Claiming(i) == {t \in RunsOf(i) : run[t].stage = "claimed"}

Fresh(t) == ~ Live(t) /\ \A h \in Hubs : lock[h] # t

Init ==
  /\ dirty = {} /\ due = {}
  /\ lock = [h \in Hubs |-> NoToken]
  /\ poll = [i \in Instances |-> "idle"]
  /\ todo = [i \in Instances |-> {}]
  /\ marking = [i \in Instances |-> NoHub]
  /\ run = [t \in Tokens |-> NoRun]
  /\ deposed = {}
  /\ owed = {}

-----------------------------------------------------------------------------
(* Events and wake-ups.                                                    *)

Publish(h) ==
  /\ dirty' = dirty \cup {h}
  /\ owed' = owed \cup {h}
  /\ UNCHANGED <<due, lock, pollVars, runVars>>

WakeupComesDue(h) ==
  /\ due' = due \cup {h}
  /\ UNCHANGED <<dirty, lock, pollVars, runVars, owed>>

\* The hold queue drops the wake-up of an order that has left it.
WakeupDropped(h) ==
  /\ h \in due
  /\ due' = due \ {h}
  /\ UNCHANGED <<dirty, lock, pollVars, runVars, owed>>

-----------------------------------------------------------------------------
(* One process's poll.                                                     *)

\* Mutant: the poll looks at the dirty set only.
PollStart_DirtyOnly(i) ==
  /\ poll[i] = "idle"
  /\ poll' = [poll EXCEPT ![i] = "waking"]
  /\ todo' = [todo EXCEPT ![i] = {}]
  /\ UNCHANGED <<redisVars, marking, runVars, owed>>

\* Mutant: a second poll loop starts while the first is at work.
PollStart_Overlapping(i) ==
  /\ poll[i] # "stopped"
  /\ poll' = [poll EXCEPT ![i] = "waking"]
  /\ todo' = [todo EXCEPT ![i] = due]
  /\ UNCHANGED <<redisVars, marking, runVars, owed>>

PollStart(i) ==
  /\ poll[i] = "idle"
  /\ poll' = [poll EXCEPT ![i] = "waking"]
  /\ todo' = [todo EXCEPT ![i] = due]
  /\ UNCHANGED <<redisVars, marking, runVars, owed>>

\* ZREM's count says whether this process removed it.
WakeClaim(i, h) ==
  /\ poll[i] = "waking" /\ marking[i] = NoHub
  /\ h \in todo[i]
  /\ todo' = [todo EXCEPT ![i] = @ \ {h}]
  /\ IF h \in due
     THEN /\ due' = due \ {h}
          /\ marking' = [marking EXCEPT ![i] = h]
          /\ owed' = owed \cup {h}
     ELSE UNCHANGED <<due, marking, owed>>
  /\ UNCHANGED <<dirty, lock, poll, runVars>>

WakeMark(i) ==
  /\ marking[i] # NoHub
  /\ dirty' = dirty \cup {marking[i]}
  /\ marking' = [marking EXCEPT ![i] = NoHub]
  /\ UNCHANGED <<due, lock, poll, todo, runVars, owed>>

ScanStart(i) ==
  /\ poll[i] = "waking" /\ marking[i] = NoHub
  /\ todo[i] = {}
  /\ poll' = [poll EXCEPT ![i] = "scanning"]
  /\ todo' = [todo EXCEPT ![i] = dirty]
  /\ UNCHANGED <<redisVars, marking, runVars, owed>>

\* Running here already, or somebody holds the lock: left dirty.
ScanSkip(i, h) ==
  /\ poll[i] = "scanning" /\ Claiming(i) = {}
  /\ h \in todo[i]
  /\ h \in LocalRunning(i) \/ lock[h] # NoToken
  /\ todo' = [todo EXCEPT ![i] = @ \ {h}]
  /\ UNCHANGED <<redisVars, poll, marking, runVars, owed>>

\* try_acquire_hub_lock: SET NX.
Acquirable(h) == lock[h] = NoToken

TakeLock(t, h, i, kind, stage) ==
  /\ Acquirable(h)
  /\ Fresh(t)
  /\ lock' = [lock EXCEPT ![h] = t]
  /\ run' = [run EXCEPT ![t] = [stage |-> stage, kind |-> kind, inst |-> i, hub |-> h]]

ScanClaim(i, h, t) ==
  /\ poll[i] = "scanning" /\ Claiming(i) = {}
  /\ h \in todo[i] \ LocalRunning(i)
  /\ TakeLock(t, h, i, "bus", "claimed")
  /\ todo' = [todo EXCEPT ![i] = @ \ {h}]
  /\ UNCHANGED <<dirty, due, poll, marking, deposed, owed>>

\* SREM, then the task is created.
Consume(t) ==
  /\ run[t].stage = "claimed"
  /\ dirty' = dirty \ {run[t].hub}
  /\ run' = [run EXCEPT ![t].stage = "ready"]
  /\ UNCHANGED <<due, lock, pollVars, deposed, owed>>

PollEnd(i) ==
  /\ poll[i] = "scanning" /\ Claiming(i) = {}
  /\ todo[i] = {}
  /\ poll' = [poll EXCEPT ![i] = "idle"]
  /\ UNCHANGED <<redisVars, todo, marking, runVars, owed>>

(* The poll is abandoned part-way: a wake-up removed is not marked, a lock *)
(* taken has no task and no release, its mark perhaps already removed.     *)
AbandonPoll(i, then) ==
  /\ poll' = [poll EXCEPT ![i] = then]
  /\ todo' = [todo EXCEPT ![i] = {}]
  /\ marking' = [marking EXCEPT ![i] = NoHub]
  /\ \/ UNCHANGED dirty
     \/ dirty' = dirty \ {run[t].hub : t \in Claiming(i)}

\* A Redis call raises; the loop logs it and polls again.
PollFails(i) ==
  /\ "redis" \in Faults
  /\ poll[i] \in {"waking", "scanning"}
  /\ AbandonPoll(i, "idle")
  /\ run' = [t \in Tokens |-> IF t \in Claiming(i) THEN NoRun ELSE run[t]]
  /\ deposed' = deposed \ Claiming(i)
  /\ UNCHANGED <<due, lock, owed>>

\* wait_idle cancels the poll task, then waits for the tasks it created.
StopPolling(i) ==
  /\ "stop" \in Faults
  /\ poll[i] # "stopped"
  /\ AbandonPoll(i, "stopped")
  /\ run' = [t \in Tokens |-> IF t \in Claiming(i) THEN NoRun ELSE run[t]]
  /\ deposed' = deposed \ Claiming(i)
  /\ UNCHANGED <<due, lock, owed>>

StartAgain(i) ==
  /\ poll[i] = "stopped"
  /\ RunsOf(i) = {}
  /\ poll' = [poll EXCEPT ![i] = "idle"]
  /\ UNCHANGED <<redisVars, todo, marking, runVars, owed>>

-----------------------------------------------------------------------------
(* Runs.                                                                   *)

\* Mutant: the sweep leaves the hubs nobody marked to the bus.
LockDirectly_DirtyOnly(i, h, t, kind) ==
  /\ poll[i] # "stopped"
  /\ h \in dirty
  /\ TakeLock(t, h, i, kind, "ready")
  /\ UNCHANGED <<dirty, due, pollVars, deposed, owed>>

\* hub_lock and _hub_locked: a sweep or forced cycle, an assign or a rebuild.
LockDirectly(i, h, t, kind) ==
  /\ poll[i] # "stopped"
  /\ TakeLock(t, h, i, kind, "ready")
  /\ UNCHANGED <<dirty, due, pollVars, deposed, owed>>

\* A cycle serves every event published before it reads anything.
RunStart(t) ==
  /\ run[t].stage = "ready"
  /\ run' = [run EXCEPT ![t].stage = "running"]
  /\ owed' = IF run[t].kind = "other" THEN owed ELSE owed \ {run[t].hub}
  /\ UNCHANGED <<redisVars, pollVars, deposed>>

\* Mutant: the dirty mark is removed when the run ends, not before it starts.
RunEnd_ClearsMark(t) ==
  /\ run[t].stage = "running"
  /\ run' = [run EXCEPT ![t].stage = "releasing"]
  /\ dirty' = dirty \ {run[t].hub}
  /\ UNCHANGED <<due, lock, pollVars, deposed, owed>>

\* The bus forgets the hub here, before the release.
RunEnd(t) ==
  /\ run[t].stage = "running"
  /\ run' = [run EXCEPT ![t].stage = "releasing"]
  /\ UNCHANGED <<redisVars, pollVars, deposed, owed>>

\* A cycle that raised is logged, and its event is still owed a cycle.
RunFails(t) ==
  /\ "handler" \in Faults
  /\ run[t].stage = "running"
  /\ run' = [run EXCEPT ![t].stage = "releasing"]
  /\ owed' = IF run[t].kind = "other" THEN owed ELSE owed \cup {run[t].hub}
  /\ UNCHANGED <<redisVars, pollVars, deposed>>

\* Mutant: a plain DELETE.
Release_Unconditional(t) ==
  /\ run[t].stage = "releasing"
  /\ lock' = [lock EXCEPT ![run[t].hub] = NoToken]
  /\ run' = [run EXCEPT ![t] = NoRun]
  /\ deposed' = deposed \ {t}
  /\ UNCHANGED <<dirty, due, pollVars, owed>>

\* The lock is deleted only if it still holds this run's token.
Release(t) ==
  /\ run[t].stage = "releasing"
  /\ lock' = [h \in Hubs |-> IF h = run[t].hub /\ lock[h] = t THEN NoToken ELSE lock[h]]
  /\ run' = [run EXCEPT ![t] = NoRun]
  /\ deposed' = deposed \ {t}
  /\ UNCHANGED <<dirty, due, pollVars, owed>>

-----------------------------------------------------------------------------
(* Expiry, and what goes wrong.                                            *)

\* A lock nobody alive holds runs out; under a live run only as a fault.
LeaseExpires(h) ==
  /\ lock[h] # NoToken
  /\ Live(lock[h]) => "lease" \in Faults
  /\ deposed' = deposed \cup ({lock[h]} \cap LiveTokens)
  /\ lock' = [lock EXCEPT ![h] = NoToken]
  /\ UNCHANGED <<dirty, due, pollVars, run, owed>>

Crash(i) ==
  /\ "crash" \in Faults
  /\ AbandonPoll(i, "idle")
  /\ run' = [t \in Tokens |-> IF t \in RunsOf(i) THEN NoRun ELSE run[t]]
  /\ deposed' = deposed \ RunsOf(i)
  /\ owed' = owed \cup {run[t].hub : t \in {u \in RunsOf(i) : run[u].kind # "other"}}
  /\ UNCHANGED <<due, lock>>

Flush ==
  /\ "flush" \in Faults
  /\ dirty' = {} /\ due' = {}
  /\ lock' = [h \in Hubs |-> NoToken]
  /\ deposed' = deposed \cup ({lock[h] : h \in Hubs} \cap LiveTokens)
  /\ UNCHANGED <<pollVars, run, owed>>

-----------------------------------------------------------------------------

Signals(h) == Publish(h) \/ WakeupComesDue(h) \/ WakeupDropped(h)

Polling(i) ==
  \/ PollStart(i) \/ WakeMark(i) \/ ScanStart(i) \/ PollEnd(i)
  \/ \E h \in Hubs : WakeClaim(i, h) \/ ScanSkip(i, h)
  \/ \E h \in Hubs, t \in Tokens : ScanClaim(i, h, t)

Running(t) == Consume(t) \/ RunStart(t) \/ RunEnd(t) \/ RunFails(t) \/ Release(t)

Breaking(i) == PollFails(i) \/ StopPolling(i) \/ StartAgain(i) \/ Crash(i)

Next ==
  \/ \E h \in Hubs : Signals(h) \/ LeaseExpires(h)
  \/ \E i \in Instances : Polling(i) \/ Breaking(i)
  \/ \E t \in Tokens : Running(t)
  \/ \E i \in Instances, h \in Hubs, t \in Tokens, k \in {"cycle", "other"} :
       LockDirectly(i, h, t, k)
  \/ Flush

Spec == Init /\ [][Next]_vars

(***************************************************************************)
(* Processes that are up keep polling and their runs end; a lock left by a *)
(* dead process expires, and a stopped process is started again.  Faults   *)
(* may come again and again, but do not hit every poll before its first    *)
(* wake-up, nor every cycle before it starts.  The sweep comes every five  *)
(* minutes and skips a busy hub; that it is not kept out for ever is       *)
(* assumed too (strong fairness).                                          *)
(***************************************************************************)
CycleStart(h) ==
  \E t \in LiveTokens : run[t].hub = h /\ run[t].kind # "other" /\ RunStart(t)

Fairness ==
  /\ \A i \in Instances :
       /\ SF_vars(Polling(i)) /\ WF_vars(StartAgain(i))
       /\ \A h \in Hubs : SF_vars(WakeClaim(i, h))
  /\ \A t \in Tokens : WF_vars(Running(t))
  /\ \A h \in Hubs :
       /\ WF_vars(lock[h] # NoToken /\ ~ Live(lock[h]) /\ LeaseExpires(h))
       /\ SF_vars(CycleStart(h))
       /\ SF_vars(\E i \in Instances, t \in Tokens : LockDirectly(i, h, t, "cycle"))

LiveSpec == Spec /\ Fairness

-----------------------------------------------------------------------------
(* Properties                                                              *)

(* Types, and: a process is claiming at most one hub, only while it scans, *)
(* and removes a wake-up only while it goes through them.                  *)
Types ==
  /\ dirty \subseteq Hubs /\ due \subseteq Hubs /\ owed \subseteq Hubs
  /\ lock \in [Hubs -> Tokens \cup {NoToken}]
  /\ poll \in [Instances -> {"idle", "waking", "scanning", "stopped"}]
  /\ todo \in [Instances -> SUBSET Hubs]
  /\ marking \in [Instances -> Hubs \cup {NoHub}]
  /\ run \in [Tokens -> Run \cup {NoRun}]
  /\ deposed \subseteq LiveTokens

OneThingAtATime ==
  \A i \in Instances :
    /\ Claiming(i) # {} => poll[i] = "scanning"
    /\ \A t, u \in Claiming(i) : t = u
    /\ marking[i] # NoHub => poll[i] = "waking"

TypeOK == Types /\ OneThingAtATime

(* One run per hub: a live run whose lease has not run out holds its hub's *)
(* lock, so no two of them share a hub, whatever a deposed run's late      *)
(* release, a crash or a restart does ("two cycles for one hub could then  *)
(* run at once - the double dispatch the lock exists to stop").            *)
LiveRunHoldsLock ==
  \A t \in LiveTokens \ deposed : lock[run[t].hub] = t

(* No event is lost: one no cycle has started after is marked dirty, or in *)
(* the hands of a poll or of a run that is about to start.                 *)
EventIsKept ==
  \A h \in owed :
    \/ h \in dirty
    \/ \E i \in Instances : marking[i] = h
    \/ \E t \in LiveTokens : /\ run[t].hub = h /\ run[t].kind = "bus"
                             /\ run[t].stage \in {"claimed", "ready"}

(* Within one process the bus never has two runs of one hub at work, even  *)
(* when the lease of the first has expired.                                *)
OneBusRunPerProcess ==
  \A t, u \in LiveTokens :
    /\ run[t].kind = "bus" /\ run[u].kind = "bus"
    /\ run[t].inst = run[u].inst /\ run[t].hub = run[u].hub
    /\ {run[t].stage, run[u].stage} \subseteq {"claimed", "ready", "running"}
    => t = u

(* Every event gets a cycle, even one whose mark died with a process, a    *)
(* failed cycle or a flush: the sweep runs one anyway.                     *)
EventIsServed == \A h \in Hubs : h \in owed ~> h \notin owed

(* A wake-up that has come due is acted on.                                *)
WakeupIsTaken == \A h \in Hubs : h \in due ~> h \notin due

-----------------------------------------------------------------------------
\* Processes are interchangeable, and so are tokens.
Symmetry == Permutations(Instances) \cup Permutations(Tokens)

=============================================================================
