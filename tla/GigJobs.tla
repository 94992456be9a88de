------------------------------ MODULE GigJobs ------------------------------
(***************************************************************************)
(* A driver's jobs from other platforms (app/gig_platform,                 *)
(* app/record/off_platform.py): captured as an offer, judged by the accept *)
(* gate, moved along by the driver, and logged as a record.  One row per   *)
(* platform reference is a unique constraint; one record per job is the    *)
(* job's row lock.                                                         *)
(***************************************************************************)
EXTENDS Integers, FiniteSets, Sequences, FiniteSetsExt

CONSTANTS
  Refs,      \* platform references
  Intake,    \* Intake[ref]: what the phone captured of the offer
  Requests,  \* bound: the requests ever made
  Records,   \* record ids phones choose
  Times,     \* times a phone may claim
  NOW,       \* the server's clock, with the allowed lead
  HERE,      \* where the driver is, on a line
  BUFFER,    \* ARRIVAL_BUFFER_MINUTES
  CAPACITY,  \* vehicle_capacity_units
  COST       \* cost of a mile, time included
None == 0 - 1

GigJobStatus == {"offered", "accepted", "picked_up", "delivered", "declined", "cancelled"}
GigJob == [status : GigJobStatus, record : Records \cup {None},
           bonus : BOOLEAN, committed : BOOLEAN]
NoJob == [status |-> "none"]
Record == [ref : Refs, pickup : Int, dropoff : Int, found : {"id", "ref", "new"}]
NoRecord == [ref |-> None]
Idle == [step |-> "idle"]
Answered == [step |-> "answered"]

VARIABLES
  jobs,    \* gig_jobs, by platform reference
  book,    \* the records: an order, a pickup and a drop-off stop each
  req,     \* what each request has read and does next
  lock     \* who holds a job's row

vars == <<jobs, book, req, lock>>

TypeOK ==
  /\ \A f \in Refs : jobs[f] \in GigJob \cup {NoJob}
  /\ \A b \in Records : book[b] \in Record \cup {NoRecord}
  /\ lock \in [Refs -> Requests \cup {None}]

Init ==
  /\ jobs = [f \in Refs |-> NoJob]
  /\ book = [b \in Records |-> NoRecord]
  /\ req = [r \in Requests |-> Idle]
  /\ lock = [f \in Refs |-> None]

\* What a request other than the row's own sees.
Seen(f) == IF jobs[f] # NoJob /\ jobs[f].committed THEN jobs[f] ELSE NoJob
Fresh(status) == [status |-> status, record |-> None,
                  bonus |-> FALSE, committed |-> FALSE]
Done(r) == req' = [req EXCEPT ![r] = Answered]

-----------------------------------------------------------------------------
\* record_my_gig_job: look the reference up, then insert; the unique
\* constraint makes the insert wait for an insert in flight, and fail.
PostRead(r, f) ==
  /\ req[r] = Idle /\ Seen(f) = NoJob
  /\ req' = [req EXCEPT ![r] = [step |-> "post", ref |-> f]]
  /\ UNCHANGED <<jobs, book, lock>>

record_job(r) ==
  /\ req[r].step = "post" /\ lock[req[r].ref] = None
  /\ jobs' = IF jobs[req[r].ref] = NoJob
             THEN [jobs EXCEPT ![req[r].ref] = [Fresh("offered") EXCEPT !.committed = TRUE]]
             ELSE jobs
  /\ Done(r)
  /\ UNCHANGED <<book, lock>>

ALLOWED_TRANSITIONS == [offered |-> {"accepted", "declined", "cancelled"},
                        accepted |-> {"picked_up", "cancelled"},
                        picked_up |-> {"delivered", "cancelled"},
                        delivered |-> {}, declined |-> {}, cancelled |-> {}]

\* update_my_gig_job_status: the transition is judged on an unlocked reading,
\* and the status it allows is written whatever the row says by then.
PatchRead(r, f, new) ==
  /\ req[r] = Idle /\ Seen(f) # NoJob
  /\ new \in ALLOWED_TRANSITIONS[jobs[f].status]
  /\ req' = [req EXCEPT ![r] = [step |-> "patch", ref |-> f, new |-> new]]
  /\ UNCHANGED <<jobs, book, lock>>

transition(r) ==
  /\ req[r].step = "patch" /\ lock[req[r].ref] = None
  /\ jobs' = [jobs EXCEPT ![req[r].ref].status = req[r].new]
  /\ Done(r)
  /\ UNCHANGED <<book, lock>>

-----------------------------------------------------------------------------
\* log_off_platform_record.  The body names the job by id, or by its platform
\* reference; the reference is looked up first, and what that reading loaded
\* is what the session keeps, the later lock notwithstanding.  (A job with no
\* drop-off address is refused, after its lock, and nothing is written.)
LogById(r, f, b) ==
  /\ req[r] = Idle /\ Seen(f) # NoJob /\ Intake[f].drop # None
  /\ req' = [req EXCEPT ![r] = [step |-> "lock", ref |-> f, rec |-> b, by |-> "id", read |-> NoJob]]
  /\ UNCHANGED <<jobs, book, lock>>

LogByRef(r, f, b) ==
  /\ req[r] = Idle /\ Intake[f].drop # None
  /\ req' = [req EXCEPT ![r] = [step |-> IF Seen(f) = NoJob THEN "insert" ELSE "lock", ref |-> f, rec |-> b,
                                by |-> "ref", read |-> Seen(f)]]
  /\ UNCHANGED <<jobs, book, lock>>

\* The job typed on the form: inserted as accepted in a savepoint, or found
\* after all when another request got there first.
LogInsert(r) ==
  LET f == req[r].ref IN
  /\ req[r].step = "insert" /\ lock[f] = None
  /\ IF jobs[f] = NoJob
     THEN /\ jobs' = [jobs EXCEPT ![f] = Fresh("accepted")]
          /\ lock' = [lock EXCEPT ![f] = r]
          /\ req' = [req EXCEPT ![r].step = "write", ![r].by = "new", ![r].read = Fresh("accepted")]
     ELSE /\ req' = [req EXCEPT ![r].step = "lock", ![r].read = jobs[f]]
          /\ UNCHANGED <<jobs, lock>>
  /\ UNCHANGED book

\* mutant: the row is read without FOR UPDATE
LockJob_Unlocked(r) ==
  LET f == req[r].ref IN
  /\ req[r].step = "lock"
  /\ req' = [req EXCEPT ![r].step = "write", ![r].read = IF req[r].by = "id" THEN jobs[f] ELSE @]
  /\ UNCHANGED <<jobs, book, lock>>

\* SELECT ... FOR UPDATE: a row the session already holds is not re-read.
LockJob(r) ==
  LET f == req[r].ref IN
  /\ req[r].step = "lock" /\ lock[f] = None
  /\ lock' = [lock EXCEPT ![f] = r]
  /\ req' = [req EXCEPT ![r].step = "write", ![r].read = IF req[r].by = "id" THEN jobs[f] ELSE @]
  /\ UNCHANGED <<jobs, book>>

\* advance_to: forward only, and nothing at all once there.
Ladder == <<"offered", "accepted", "picked_up", "delivered">>
Rung(s) == CHOOSE i \in DOMAIN Ladder : Ladder[i] = s
advance_to(status, target) == IF Rung(status) >= Rung(target) THEN status ELSE target

\* mutant: either end may be dated without a look at the other
InOrder_Unchecked(pickup, dropoff) == TRUE

\* The pickup cannot be after the delivery.
InOrder(pickup, dropoff) == pickup = None \/ dropoff = None \/ pickup <= dropoff

\* The log itself, from the reading the session holds: the record is made, or
\* found again; each end is dated once; the bonus comes with the delivery.
Opened(r) == IF req[r].read.record = None
             THEN [ref |-> req[r].ref, pickup |-> None, dropoff |-> None, found |-> req[r].by]
             ELSE book[req[r].rec]
Ends(r, at, end) ==
  LET old == Opened(r)
  IN [old EXCEPT !.pickup = IF end = "pickup" /\ @ = None THEN at ELSE @,
                 !.dropoff = IF end = "dropoff" /\ @ = None THEN at ELSE @]
Refused(r, at, end) ==
  \/ req[r].read.status \in {"declined", "cancelled"}
  \/ req[r].read.record \notin {None, req[r].rec}
  \/ req[r].read.record = None /\ book[req[r].rec] # NoRecord
  \/ at > NOW
  \/ ~InOrder(Ends(r, at, end).pickup, Ends(r, at, end).dropoff)

LogWrite(r, at, end) ==
  LET f == req[r].ref
      read == req[r].read
      new == Ends(r, at, end)
      moved == Opened(r)[end] = None
  IN
  /\ req[r].step = "write" /\ ~Refused(r, at, end)
  /\ book' = [book EXCEPT ![req[r].rec] = new]
  /\ jobs' = [jobs EXCEPT
       ![f].committed = TRUE, ![f].record = req[r].rec,
       ![f].status = IF moved THEN advance_to(read.status, IF end = "pickup" THEN "picked_up" ELSE "delivered") ELSE @,
       ![f].bonus = @ \/ (moved /\ end = "dropoff")]
  /\ lock' = [lock EXCEPT ![f] = None]
  /\ Done(r)

\* Refused, or the process dies: the savepoint's row goes with the rest.
LogFails(r) ==
  /\ req[r].step = "write"
  /\ jobs' = IF jobs[req[r].ref].committed THEN jobs ELSE [jobs EXCEPT ![req[r].ref] = NoJob]
  /\ lock' = [lock EXCEPT ![req[r].ref] = None]
  /\ Done(r)
  /\ UNCHANGED book

Next ==
  \E r \in Requests :
    \/ record_job(r) \/ transition(r) \/ LogInsert(r) \/ LockJob(r) \/ LogFails(r)
    \/ \E at \in Times, end \in {"pickup", "dropoff"} : LogWrite(r, at, end)
    \/ \E f \in Refs :
         \/ PostRead(r, f)
         \/ \E new \in GigJobStatus : PatchRead(r, f, new)
         \/ \E b \in Records : LogById(r, f, b) \/ LogByRef(r, f, b)

Spec == Init /\ [][Next]_vars

-----------------------------------------------------------------------------
\* The accept gate, on the driver's jobs as they stand.  Places lie on a line.
Miles(a, b) == IF a < b THEN b - a ELSE a - b
Open == {f \in Refs : Seen(f) # NoJob /\ jobs[f].status \in {"offered", "accepted", "picked_up"}}
Arrival(o) == Miles(HERE, o.pickup) + BUFFER
Collected(o) == Max({Arrival(o), o.open})
Completion(o) == Collected(o) + Miles(o.pickup, o.drop)

\* mutant: a commitment whose window has been reached is no longer checked
BreaksCommitment_OpenOnly(o) ==
  \E f \in Open : LET c == Intake[f] IN
    /\ jobs[f].status \in {"accepted", "offered"} /\ c.pickup # None /\ c.open > Collected(o)
    /\ Completion(o) + Miles(o.drop, c.pickup) + BUFFER > c.close

\* _first_broken_commitment: driving straight through the offer, a pickup
\* promised elsewhere and still open would be reached too late.
BreaksCommitment(o) ==
  \E f \in Open : LET c == Intake[f] IN
    /\ jobs[f].status \in {"accepted", "offered"} /\ c.pickup # None /\ c.close > 0
    /\ Completion(o) + Miles(o.drop, c.pickup) + BUFFER > c.close

InPossession == {f \in Open : jobs[f].status \in {"accepted", "picked_up"}}

\* evaluate_marginal_economics: the deadhead, the leg, and half the way to the
\* next pickup, or back.  The next pickup opens after the offer's drop-off does,
\* or after the driver's arrival at its pickup when the offer does not say.
FreeFrom(o) == IF o.dropOpen = None THEN Arrival(o) ELSE o.dropOpen
After(o) == {f \in Open : Intake[f].open >= FreeFrom(o) /\ Intake[f].pickup # None}
NextPickup(o) ==
  IF After(o) = {} THEN HERE
  ELSE Intake[CHOOSE f \in After(o) : \A g \in After(o) : Intake[f].open <= Intake[g].open].pickup
Margin(o) == 2 * o.pay - COST * (2 * Miles(HERE, o.pickup) + 2 * Miles(o.pickup, o.drop) + Miles(o.drop, NextPickup(o)))

evaluate_offer(o) ==
  IF o.pickup = None \/ Arrival(o) > o.close THEN "unreachable"
  ELSE IF o.drop = None THEN "not_sequenceable"
  ELSE IF o.dropClose # None /\ Completion(o) > o.dropClose THEN "impossible_windows"
  ELSE IF BreaksCommitment(o) THEN "breaks_commitment"
  ELSE IF Cardinality(InPossession) + 1 > CAPACITY THEN "over_capacity"
  ELSE IF Margin(o) <= 0 THEN "unprofitable" ELSE "acceptable"

\* hub_density_report: what the week's rows add up to.
Committed == {f \in Refs : Seen(f) # NoJob /\ jobs[f].status \in {"accepted", "picked_up", "delivered"}}
Delivered == {f \in Committed : jobs[f].status = "delivered"}

-----------------------------------------------------------------------------
\* A job has two records only if one of them was logged by platform reference,
\* from a reading older than the lock (one logged by job id, or from the row it
\* inserted, is the only one when it commits); a record's pickup is never after
\* its delivery, and its job has its bonus exactly when it is delivered.
RecordsAreSound ==
  /\ \A a, b \in Records :
       a # b /\ book[a] # NoRecord /\ book[b] # NoRecord /\ book[a].ref = book[b].ref
         => "ref" \in {book[a].found, book[b].found}
  /\ \A b \in Records : book[b] # NoRecord /\ book[b].dropoff # None => book[b].pickup <= book[b].dropoff
  /\ \A f \in Refs : Seen(f) # NoJob =>
       (jobs[f].bonus <=> \E b \in Records : book[b] # NoRecord /\ book[b].ref = f /\ book[b].dropoff # None)

\* Whatever the driver holds, an offer the gate takes is collected and
\* delivered inside its windows, and each pickup still owed, taken next, is
\* reached before it closes.
Late(o, c) == Completion(o) + Miles(o.drop, c.pickup) + BUFFER > c.close
GateKeepsPickups ==
  \A f \in Refs : Seen(f) = NoJob /\ evaluate_offer(Intake[f]) = "acceptable" =>
    /\ Arrival(Intake[f]) <= Intake[f].close
    /\ \A g \in Open : jobs[g].status # "picked_up" /\ Intake[g].pickup # None => ~Late(Intake[f], Intake[g])
=============================================================================
