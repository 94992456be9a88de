------------------------------- MODULE Intake -------------------------------
(***************************************************************************)
(* Taking orders in (app/ingestion, the client portal and the public API). *)
(* Every source ends in ingest_or_find: look for the order, resolve its    *)
(* places, insert under the unique index on (client, source, reference),   *)
(* price it, commit, and only then put it in the hold queue.  A request    *)
(* may be sent again while the first is still being served, a process may  *)
(* die between any two steps, and history is imported through the same     *)
(* path in a mode of its own.                                              *)
(***************************************************************************)
EXTENDS Naturals, FiniteSets

CONSTANTS
  Requests,    \* requests, each served once
  Ask,         \* Ask[r]: [client, ref, door, mode]
  NoRef,       \* a request without a reference of its own
  Nobody       \* no order, no twin

VARIABLES
  pc,        \* how far each request got
  row,       \* the order each request inserted
  answer,    \* the order each request was answered with
  twin,      \* the likely repeat each request's flag names
  settled,   \* orders whose flag the client answered "separate"
  asked,     \* questions that have been on the client's screen
  dropped,   \* orders the client took back without being asked
  queue,     \* the hub's hold queue
  billed     \* orders on an invoice

vars == <<pc, row, answer, twin, settled, asked, dropped, queue, billed>>

\* What intake tells apart in an order handed to it.
LMXOrder == [client : {Ask[r].client : r \in Requests}, ref : {Ask[r].ref : r \in Requests},
             door : {Ask[r].door : r \in Requests}, mode : {"live", "backfill"}]

\* An order row: where its transaction stands, its status, and what intake
\* gave it (a price, an arm of the experiment, news to the client).
Row == [txn : {"none", "open", "in"}, status : {"held", "delivered", "cancelled"},
        recent : BOOLEAN, given : SUBSET {"fee", "arm", "news"}]
NoRow == [txn |-> "none", status |-> "held", recent |-> TRUE, given |-> {}]

TypeOK ==
  /\ pc \in [Requests -> {"new", "fresh", "flagged", "inserted", "stored", "done", "gone"}]
  /\ row \in [Requests -> Row] /\ \A r \in Requests : Ask[r] \in LMXOrder
  /\ answer \in [Requests -> Requests \cup {Nobody}]
  /\ twin \in [Requests -> Requests \cup {Nobody}]
  /\ settled \subseteq Requests /\ asked \subseteq Requests /\ dropped \subseteq Requests
  /\ queue \subseteq Requests /\ billed \subseteq Requests

Init ==
  /\ pc = [r \in Requests |-> "new"]
  /\ row = [r \in Requests |-> NoRow]
  /\ answer = [r \in Requests |-> Nobody]
  /\ twin = [r \in Requests |-> Nobody]
  /\ settled = {} /\ asked = {} /\ dropped = {} /\ queue = {} /\ billed = {}

\* mutant: the reference alone, whoever sent it
SameOrder_AnyClient(r, q) ==
  r = q \/ (Ask[r].ref # NoRef /\ Ask[r].ref = Ask[q].ref)

\* uq_orders_source_ref: the client and its reference; a generated reference
\* (_generated_reference) is nobody else's.
SameOrder(r, q) ==
  r = q \/ (Ask[r].ref # NoRef /\ Ask[r].ref = Ask[q].ref /\ Ask[r].client = Ask[q].client)

\* The orders there are, for every reader.
Stored == {q \in Requests : row[q].txn = "in"}
Live(r) == Ask[r].mode = "live"

\* find_existing_order, and the answer a replay gets: the order, untouched.
Found(r) == {q \in Stored : SameOrder(r, q)}

AnswerWith(r, q) ==
  /\ pc' = [pc EXCEPT ![r] = "done"]
  /\ answer' = [answer EXCEPT ![r] = q]

Find(r) ==
  /\ pc[r] = "new"
  /\ IF Found(r) # {}
     THEN \E q \in Found(r) : AnswerWith(r, q)
     ELSE pc' = [pc EXCEPT ![r] = "fresh"] /\ UNCHANGED answer
  /\ UNCHANGED <<row, twin, settled, asked, dropped, queue, billed>>

\* The portal and the API refuse an account under review, a shop that is not
\* the client's, and a pickup or delivery address nobody can find; a backfill
\* counts the row as failed.  Nothing is stored.
Refuse(r) ==
  /\ pc[r] \in {"new", "fresh"}
  /\ pc' = [pc EXCEPT ![r] = "gone"]
  /\ UNCHANGED <<row, answer, twin, settled, asked, dropped, queue, billed>>

\* The shop and the door are resolved (_resolve_shop, _resolve_or_create_shop).
\* _intake_flags: an order without a reference of its own is compared with
\* the recent orders of its client to the same door, and one of them is named.
Repeats(r) == {q \in Stored : /\ Ask[q].client = Ask[r].client /\ Ask[q].door = Ask[r].door
                              /\ row[q].recent /\ row[q].status # "cancelled"}

\* mutant: both copies are flagged, each as a repeat of the other
Flag_Both(r) ==
  /\ pc[r] = "fresh"
  /\ pc' = [pc EXCEPT ![r] = "flagged"]
  /\ IF Ask[r].ref = NoRef /\ Repeats(r) # {}
     THEN \E q \in Repeats(r) : twin' = [twin EXCEPT ![r] = q, ![q] = r]
     ELSE UNCHANGED twin
  /\ UNCHANGED <<row, answer, settled, asked, dropped, queue, billed>>

Flag(r) ==
  /\ pc[r] = "fresh"
  /\ pc' = [pc EXCEPT ![r] = "flagged"]
  /\ IF Ask[r].ref = NoRef /\ Repeats(r) # {}
     THEN \E q \in Repeats(r) : twin' = [twin EXCEPT ![r] = q]
     ELSE UNCHANGED twin
  /\ UNCHANGED <<row, answer, settled, asked, dropped, queue, billed>>

\* The insert waits for another open insert of the same order; the one that
\* finds it stored answers with the winner's.
Insert(r) ==
  /\ pc[r] = "flagged"
  /\ \A q \in Requests : SameOrder(r, q) => row[q].txn # "open"
  /\ IF Found(r) # {}
     THEN (\E q \in Found(r) : AnswerWith(r, q)) /\ UNCHANGED row
     ELSE /\ row' = [row EXCEPT ![r].txn = "open"]
          /\ pc' = [pc EXCEPT ![r] = "inserted"]
          /\ UNCHANGED answer
  /\ UNCHANGED <<twin, settled, asked, dropped, queue, billed>>

\* No fee where no rate is in force (_price_order), no arm where the client
\* contracted no experiment (_assign_control_arm).
Given(r) ==
  IF Live(r) THEN {{"news"}, {"news", "fee", "arm"}} ELSE {{}}

\* Classified, priced, given an arm, announced and committed as held.  A
\* backfill ends here.
Commit(r) ==
  /\ pc[r] = "inserted"
  /\ \E g \in Given(r) : row' = [row EXCEPT ![r].txn = "in", ![r].given = g]
  /\ IF Live(r) THEN pc' = [pc EXCEPT ![r] = "stored"] /\ UNCHANGED answer ELSE AnswerWith(r, r)
  /\ UNCHANGED <<twin, settled, asked, dropped, queue, billed>>

Enqueue(r) ==
  /\ pc[r] = "stored"
  /\ queue' = queue \cup {r}
  /\ AnswerWith(r, r)
  /\ UNCHANGED <<row, twin, settled, asked, dropped, billed>>

\* The process dies, or a step raises: an open insert is undone, a committed
\* order stays and waits for the rebuild.
Dies(r) ==
  /\ pc[r] \in {"fresh", "flagged", "inserted", "stored"}
  /\ pc' = [pc EXCEPT ![r] = "gone"]
  /\ row' = IF row[r].txn = "open" THEN [row EXCEPT ![r].txn = "none"] ELSE row
  /\ UNCHANGED <<answer, twin, settled, asked, dropped, queue, billed>>

\* mutant: the rebuild takes every held order
Waiting_AnyMode == {q \in Stored : row[q].status = "held"}

Waiting == {q \in Stored : row[q].status = "held" /\ Live(q)}

\* reconcile_hold_queue
Rebuild ==
  /\ queue' = Waiting
  /\ queue # Waiting
  /\ UNCHANGED <<pc, row, answer, twin, settled, asked, dropped, billed>>

\* A driver collects and delivers an order taken from the queue.
Drive(q) ==
  /\ q \in queue /\ row[q].status = "held"
  /\ row' = [row EXCEPT ![q].status = "delivered"]
  /\ queue' = queue \ {q}
  /\ UNCHANGED <<pc, answer, twin, settled, asked, dropped, billed>>

\* generate_invoice: delivered, priced, live, and on no invoice yet.
Invoice(q) ==
  /\ row[q].status = "delivered" /\ "fee" \in row[q].given /\ Live(q) /\ q \notin billed
  /\ billed' = billed \cup {q}
  /\ UNCHANGED <<pc, row, answer, twin, settled, asked, dropped, queue>>

\* open_duplicate_questions: flagged, unanswered, not collected, and the
\* order it repeats not cancelled.
Question(q) ==
  /\ q \in Stored /\ row[q].status = "held" /\ twin[q] # Nobody /\ q \notin settled
  /\ row[twin[q]].status # "cancelled"

\* get_my_order and the list put the question on the client's screen, where
\* it stays whatever becomes of either order.
Shown(q) ==
  /\ Question(q) /\ q \notin asked
  /\ asked' = asked \cup {q}
  /\ UNCHANGED <<pc, row, answer, twin, settled, dropped, queue, billed>>

\* cancel_before_collection: nothing but the order's own status is looked at.
Cancelled(q) ==
  /\ q \in Stored /\ row[q].status = "held"
  /\ row' = [row EXCEPT ![q].status = "cancelled"]
  /\ queue' = queue \ {q}
  /\ UNCHANGED <<pc, answer, twin, settled, asked, billed>>

\* "Yes, sent twice", on a screen however old: the order asked about is
\* cancelled.  "No": both are real.
SentTwice(q) == q \in asked /\ Cancelled(q) /\ UNCHANGED dropped

NotADuplicate(q) ==
  /\ q \in Stored /\ row[q].status = "held" /\ twin[q] # Nobody /\ q \notin settled
  /\ settled' = settled \cup {q}
  /\ UNCHANGED <<pc, row, answer, twin, asked, dropped, queue, billed>>

\* The client takes an order back unasked, in the portal or by the API.
TakeBack(q) == Cancelled(q) /\ dropped' = dropped \cup {q}

\* DUPLICATE_WINDOW passes for an order.
Ages(q) ==
  /\ q \in Stored /\ row[q].recent
  /\ row' = [row EXCEPT ![q].recent = FALSE]
  /\ UNCHANGED <<pc, answer, twin, settled, asked, dropped, queue, billed>>

Next ==
  \/ \E r \in Requests : Find(r) \/ Refuse(r) \/ Flag(r) \/ Insert(r)
  \/ \E r \in Requests : Commit(r) \/ Enqueue(r) \/ Dies(r)
  \/ Rebuild
  \/ \E q \in Requests : Drive(q) \/ Invoice(q) \/ Ages(q)
  \/ \E q \in Requests : Shown(q) \/ SentTwice(q) \/ NotADuplicate(q) \/ TakeBack(q)

Spec == Init /\ [][Next]_vars

-----------------------------------------------------------------------------
\* A reference a client sends twice is one order: two requests answered for it
\* are answered with the same order, and nobody is answered with another
\* client's.
OneOrderPerReference ==
  \A r, q \in Requests :
    /\ answer[r] # Nobody => Ask[answer[r]].client = Ask[r].client /\ answer[r] \in Stored
    /\ answer[r] # Nobody /\ answer[q] # Nobody /\ SameOrder(r, q) => answer[r] = answer[q]

\* History stays history: an imported order is never dispatched, billed,
\* announced or put in the experiment, although it is stored as held.
HistoryStaysHistory ==
  \A q \in Stored : ~Live(q) => q \notin queue /\ q \notin billed /\ row[q].given = {}

\* Answers to "was this sent twice?" never cancel every copy, however old the
\* screen they are given on and in whatever order: what was sent to a door
\* still has an order, or the client took one back without being asked.
OneCopySurvives ==
  \A q \in Stored : row[q].status = "cancelled" =>
    \E p \in Stored : /\ Ask[p].client = Ask[q].client /\ Ask[p].door = Ask[q].door
                      /\ row[p].status # "cancelled" \/ p \in dropped
=============================================================================
