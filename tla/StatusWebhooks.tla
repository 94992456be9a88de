--------------------------- MODULE StatusWebhooks ---------------------------
(***************************************************************************)
(* Telling a client's endpoint about status changes (app/orders/sinks.py,  *)
(* app/webhooks).  The sink stages one delivery row in the transaction     *)
(* that moves the order; the session's end schedules one immediate attempt *)
(* (app/db.py), and the scheduled sweep attempts every row that is due.    *)
(* Both run attempt_delivery in a session of their own: rows and the       *)
(* endpoint are read once, and what the attempts decided is written when   *)
(* the session commits, over whatever the other wrote meanwhile.           *)
(***************************************************************************)
EXTENDS Naturals, FiniteSets, FiniteSetsExt

CONSTANTS
  Events,        \* status changes, numbered as webhook_deliveries.sequence is
  MAX_ATTEMPTS,  \* attempts before a delivery fails
  MAX_FAILURES   \* MAX_CONSECUTIVE_FAILURES

VARIABLES
  txn,        \* the transaction each event belongs to
  row,        \* committed webhook_deliveries rows
  endpoint,   \* the committed endpoint row
  owed,       \* ids handed to an immediate attempt that has not begun
  session,    \* what the immediate attempt and the sweep have read and decided
  told        \* events the client's server acknowledged

vars == <<txn, row, endpoint, owed, session, told>>

Sender == {"now", "sweep"}
Status == {"none", "staged", "pending", "delivered", "failed", "rejected"}
Row == [status : Status, attempts : Nat, due : BOOLEAN]
Endpoint == [active : BOOLEAN, failures : Nat]
NoRow == [status |-> "none", attempts |-> 0, due |-> FALSE]
Enabled == [active |-> TRUE, failures |-> 0]
Closed == [todo |-> {}, row |-> [e \in {} |-> NoRow], endpoint |-> Enabled, loaded |-> Enabled]

TypeOK ==
  /\ txn \in [Events -> {"none", "open", "committed", "rolledback"}]
  /\ row \in [Events -> Row]
  /\ endpoint \in Endpoint
  /\ owed \subseteq Events
  /\ \A s \in Sender : /\ session[s].todo \subseteq DOMAIN session[s].row
                        /\ \A e \in DOMAIN session[s].row : session[s].row[e] \in Row
                        /\ {session[s].endpoint, session[s].loaded} \subseteq Endpoint
  /\ told \subseteq Events

Init ==
  /\ txn = [e \in Events |-> "none"]
  /\ row = [e \in Events |-> NoRow]
  /\ endpoint = Enabled
  /\ owed = {}
  /\ session = [s \in Sender |-> Closed]
  /\ told = {}

\* WebhookStatusSink.emit: a row in the caller's session, due at once, when
\* the client has an active endpoint.
Emit(e) ==
  /\ txn[e] = "none"
  /\ txn' = [txn EXCEPT ![e] = "open"]
  /\ row' = IF endpoint.active
            THEN [row EXCEPT ![e] = [status |-> "staged", attempts |-> 0, due |-> TRUE]]
            ELSE row
  /\ UNCHANGED <<endpoint, owed, session, told>>

\* The caller commits; the session's end hands the ids to an immediate
\* attempt, unless the process goes away first.
Committed(e) ==
  /\ txn[e] = "open"
  /\ txn' = [txn EXCEPT ![e] = "committed"]
  /\ row' = IF row[e].status = "staged" THEN [row EXCEPT ![e].status = "pending"] ELSE row
  /\ \E scheduled \in BOOLEAN :
       owed' = IF scheduled /\ row[e].status = "staged" THEN owed \cup {e} ELSE owed
  /\ UNCHANGED <<endpoint, session, told>>

\* The caller rolls back: the ids are handed over all the same, and the
\* attempt finds no such row.
RolledBack(e) ==
  /\ txn[e] = "open"
  /\ txn' = [txn EXCEPT ![e] = "rolledback"]
  /\ owed' = IF row[e].status = "staged" THEN owed \cup {e} ELSE owed
  /\ row' = [row EXCEPT ![e] = NoRow]
  /\ UNCHANGED <<endpoint, session, told>>

Open(s, S) ==
  /\ session[s] = Closed
  /\ session' = [session EXCEPT ![s] =
       [todo |-> S, row |-> [e \in S |-> row[e]], endpoint |-> endpoint, loaded |-> endpoint]]

\* mutant: the attempt is started by the sink, before the caller commits
DeliverNow_Uncommitted(e) ==
  /\ row[e].status = "staged"
  /\ Open("now", {e})
  /\ owed' = owed \ {e}
  /\ UNCHANGED <<txn, row, endpoint, told>>

\* deliver_now reads its rows by id, whatever their status by then.
DeliverNow(e) ==
  /\ e \in owed
  /\ row[e].status \notin {"none", "staged"}
  /\ Open("now", {e})
  /\ owed' = owed \ {e}
  /\ UNCHANGED <<txn, row, endpoint, told>>

NothingToDeliver(e) ==
  /\ e \in owed
  /\ row[e].status = "none"
  /\ owed' = owed \ {e}
  /\ UNCHANGED <<txn, row, endpoint, session, told>>

\* mutant: the sweep takes only what was never attempted
Due_NewOnly == {e \in Events : row[e].status = "pending" /\ row[e].due /\ row[e].attempts = 0}

Due == {e \in Events : row[e].status = "pending" /\ row[e].due}

\* deliver_pending: every row that is pending and due.
Sweep ==
  /\ Due # {}
  /\ Open("sweep", Due)
  /\ UNCHANGED <<txn, row, endpoint, owed, told>>

\* _record_failure on the row: another attempt later, until they run out.
Failed(r) ==
  IF r.attempts >= MAX_ATTEMPTS
  THEN [r EXCEPT !.status = "failed", !.due = FALSE]
  ELSE [r EXCEPT !.status = "pending", !.due = FALSE]

\* ... and on the endpoint: switched off after too many in a row.
FailedEndpoint(p) ==
  [active |-> p.active /\ p.failures + 1 < MAX_FAILURES, failures |-> p.failures + 1]

\* attempt_delivery, from the row and the endpoint this session read.
Attempt(s, answer) ==
  LET here == session[s]
      e == Min(here.todo)
      r == [here.row[e] EXCEPT !.attempts = @ + 1]
      record(new, p) == session' = [session EXCEPT ![s] =
        [todo |-> here.todo \ {e}, row |-> [here.row EXCEPT ![e] = new],
         endpoint |-> p, loaded |-> here.loaded]]
  IN /\ here.todo # {}
     /\ IF ~here.endpoint.active
        THEN /\ record([here.row[e] EXCEPT !.status = "rejected", !.due = FALSE], here.endpoint)
             /\ told' = told
        ELSE \/ /\ answer = "2xx"
                /\ record([r EXCEPT !.status = "delivered", !.due = FALSE],
                          [here.endpoint EXCEPT !.failures = 0])
                /\ told' = told \cup {e}
             \/ /\ answer = "4xx"
                /\ record([r EXCEPT !.status = "rejected", !.due = FALSE], here.endpoint)
                /\ told' = told
             \/ /\ answer = "retryable"
                /\ record(Failed(r), FailedEndpoint(here.endpoint))
                /\ told' = told
  /\ UNCHANGED <<txn, row, endpoint, owed>>

\* The session writes the rows it decided on, and the endpoint's columns
\* where it changed them.
Settle(s) ==
  LET here == session[s]
      written(new, old, now) == IF new = old THEN now ELSE new
  IN /\ here # Closed /\ here.todo = {}
     /\ row' = [e \in Events |-> IF e \in DOMAIN here.row THEN here.row[e] ELSE row[e]]
     /\ endpoint' =
          [active |-> written(here.endpoint.active, here.loaded.active, endpoint.active),
           failures |-> written(here.endpoint.failures, here.loaded.failures, endpoint.failures)]
     /\ session' = [session EXCEPT ![s] = Closed]
     /\ UNCHANGED <<txn, owed, told>>

\* The process goes away mid-session: nothing of it is written.
SenderDies(s) ==
  /\ session[s] # Closed
  /\ session' = [session EXCEPT ![s] = Closed]
  /\ UNCHANGED <<txn, row, endpoint, owed, told>>

\* next_attempt_at passes.
ComesDue(e) ==
  /\ row[e].status = "pending" /\ ~row[e].due
  /\ row' = [row EXCEPT ![e].due = TRUE]
  /\ UNCHANGED <<txn, endpoint, owed, session, told>>

\* The client turns the endpoint off, or back on with a clean count.
SwitchEndpoint ==
  /\ endpoint' = IF endpoint.active THEN [endpoint EXCEPT !.active = FALSE]
                 ELSE Enabled
  /\ UNCHANGED <<txn, row, owed, session, told>>

Next ==
  \/ \E e \in Events : Emit(e) \/ Committed(e) \/ RolledBack(e)
  \/ \E e \in Events : DeliverNow(e) \/ NothingToDeliver(e) \/ ComesDue(e)
  \/ Sweep
  \/ \E s \in Sender, answer \in {"2xx", "4xx", "retryable"} : Attempt(s, answer)
  \/ \E s \in Sender : Settle(s) \/ SenderDies(s)
  \/ SwitchEndpoint

\* The scheduler keeps calling the sweep; one that is not cut short ends.
Fairness ==
  /\ WF_vars(Sweep)
  /\ SF_vars(\E answer \in {"2xx", "4xx", "retryable"} : Attempt("sweep", answer))
  /\ SF_vars(Settle("sweep"))
  /\ \A e \in Events : WF_vars(ComesDue(e))

Spec == Init /\ [][Next]_vars /\ Fairness

-----------------------------------------------------------------------------
\* No client is told of a change that did not commit: the row is staged with
\* the change, and an attempt is only ever made of a committed row.
NewsIsCommitted == \A e \in told : txn[e] = "committed"

\* An owed notification is settled one way or another: delivered, refused,
\* or given up after its attempts, although an immediate attempt and a sweep
\* may overwrite each other's record of it and processes die mid-way.
IsOwed(e) == row[e].status = "pending"
OwedIsSettled == \A e \in Events : IsOwed(e) ~> ~IsOwed(e)
=============================================================================
