--------------------------- MODULE CashOnDelivery ---------------------------
(***************************************************************************)
(* A drop-off at the door (app/api/driver_routes.py, app/delivery/cod.py,  *)
(* app/delivery/proof.py): the money, the PIN and the proof that have to   *)
(* be in order before it completes.  The cash requests read the stop and   *)
(* the records without a lock; complete_stop holds the stop.  The app may  *)
(* send any request again, and a resent request may overlap the first.     *)
(***************************************************************************)
EXTENDS Naturals, FiniteSets, FiniteSetsExt

CONSTANTS
  Carried,      \* the orders the drop-off carries
  CodOrders,    \* those paid on delivery, with an amount on the order
  Proof,        \* Proof[o]: what the order asks for, [photos, signature]
  MAX_PIN       \* MAX_PIN_VERIFICATION_ATTEMPTS

VARIABLES
  door,         \* stops.status of the drop-off
  evidence,     \* what the completed stop stored as its proof
  wrongPins,    \* pin_verification_attempts
  records,      \* cod_collections rows; equal ones are one here
  asking        \* cash requests that have read and not yet written

vars == <<door, evidence, wrongPins, records, asking>>

Outcome == {"collected", "disputed"}
Request == [outcome : Outcome, found : SUBSET CodOrders]
Evidence == [method : {"photo", "signature", "pin"}, photos : 0..2, signed : BOOLEAN]
NoEvidence == [method |-> "photo", photos |-> 0, signed |-> FALSE]

TypeOK ==
  /\ door \in {"en_route", "arrived", "completed"}
  /\ evidence \in Evidence
  /\ wrongPins \in 0..MAX_PIN
  /\ records \subseteq [order : CodOrders, outcome : Outcome, told : BOOLEAN]
  /\ asking \subseteq Request

Init ==
  /\ door = "en_route" /\ evidence = NoEvidence /\ wrongPins = 0
  /\ records = {} /\ asking = {}

AtDoor ==
  /\ door = "en_route"
  /\ door' = "arrived"
  /\ UNCHANGED <<evidence, wrongPins, records, asking>>

\* record_collection and record_dispute look for a record of each order; one
\* with the other outcome refuses the request, one with the same is reused.
Ask(outcome) ==
  /\ door = "arrived"
  /\ CodOrders # {}
  /\ \A r \in records : r.outcome = outcome
  /\ asking' = asking \cup {[outcome |-> outcome, found |-> {r.order : r \in records}]}
  /\ UNCHANGED <<door, evidence, wrongPins, records>>

\* The rows of the orders it found none for; nothing in the table forbids a
\* second one.
Record(a) ==
  /\ a \in asking
  /\ records' = records \cup
       {[order |-> o, outcome |-> a.outcome, told |-> FALSE] : o \in CodOrders \ a.found}
  /\ asking' = asking \ {a}
  /\ UNCHANGED <<door, evidence, wrongPins>>

\* After the commit the client's admins are mailed; only a mail that went out
\* marks the dispute as escalated.
Escalate(r) ==
  /\ r \in records /\ r.outcome = "disputed" /\ ~r.told
  /\ records' = (records \ {r}) \cup {[r EXCEPT !.told = TRUE]}
  /\ UNCHANGED <<door, evidence, wrongPins, asking>>

\* assert_cod_settled
Settled == CodOrders \subseteq {r.order : r \in records}

\* mutant: the mildest of what the orders ask for
Required_Mildest == [photos |-> Min({Proof[o].photos : o \in Carried}),
                     signature |-> \A o \in Carried : Proof[o].signature]

\* resolve_stop_proof: the strictest of what the orders ask for.
Required == [photos |-> Max({Proof[o].photos : o \in Carried} \cup {0}),
             signature |-> \E o \in Carried : Proof[o].signature]

\* assert_proof_satisfied: the method carries its evidence; more than one
\* photo is owed whatever the method; a signature is owed on top, and a
\* verified PIN stands for it.
Satisfied(ev) ==
  /\ ev.method = "photo" => ev.photos > 0
  /\ ev.method = "signature" => ev.signed
  /\ Required.photos > 1 => ev.photos >= Required.photos
  /\ Required.signature => ev.signed \/ ev.method = "pin"

\* A wrong PIN is counted and committed; after MAX_PIN of them a PIN is no
\* longer looked at.
WrongPin ==
  /\ door = "arrived"
  /\ wrongPins < MAX_PIN
  /\ wrongPins' = wrongPins + 1
  /\ UNCHANGED <<door, evidence, records, asking>>

Finish(ev) ==
  /\ door = "arrived"
  /\ ev.method = "pin" => wrongPins < MAX_PIN
  /\ Settled
  /\ Satisfied(ev)
  /\ door' = "completed"
  /\ evidence' = ev
  /\ UNCHANGED <<wrongPins, records, asking>>

Next ==
  \/ AtDoor
  \/ \E outcome \in Outcome : Ask(outcome)
  \/ \E a \in asking : Record(a)
  \/ \E r \in records : Escalate(r)
  \/ WrongPin
  \/ \E ev \in Evidence : Finish(ev)

Spec == Init /\ [][Next]_vars

-----------------------------------------------------------------------------
\* A completed cash-on-delivery drop-off has its money accounted for, order by
\* order, and stores proof strong enough for the most demanding order aboard.
HandedOverProperly ==
  door = "completed" =>
    /\ \A o \in CodOrders : \E r \in records : r.order = o
    /\ \A o \in Carried :
         /\ Proof[o].photos > 1 => evidence.photos >= Proof[o].photos
         /\ Proof[o].signature => evidence.signed \/ evidence.method = "pin"
    /\ evidence.photos > 0 \/ evidence.signed \/ (evidence.method = "pin" /\ wrongPins < MAX_PIN)

\* "A retried tap on a bad connection records one collection, not two
\* payments", and collected and disputed cannot both be true of one sum.
\* It does not hold (README, known gaps).
OneRecordPerOrder ==
  \A o \in CodOrders : Cardinality({r \in records : r.order = o}) <= 1
=============================================================================
