----------------------------- MODULE Documents ------------------------------
(***************************************************************************)
(* A driver's licence and insurance (app/compliance/driver_documents.py).   *)
(* The driver uploads a file and claims an expiry date, an administrator    *)
(* reads the file off a list of pending ones and verifies or rejects it,    *)
(* and the driver goes on shift only with every document verified and not   *)
(* expired.  No row is locked, and a handler writes only the columns it     *)
(* changed from what it read, so an upload and a review can overlap.        *)
(***************************************************************************)
EXTENDS Integers, FiniteSets

CONSTANTS
  Required,   \* REQUIRED_DOC_TYPES
  Phones,     \* concurrent requests of the driver
  Admins,
  Dates,      \* expiry dates, from 1
  MaxFiles, MaxDay    \* bounds
Null == 0

DriverDocument == [file : 0..MaxFiles, claimed : Dates \cup {Null}, verified : Dates \cup {Null},
                   status : {"none", "pending", "verified", "rejected"}]
NoRow == [file |-> Null, claimed |-> Null, verified |-> Null, status |-> "none"]
Idle == [kind |-> "idle"]

VARIABLES
  day,
  docs,       \* driver_documents, by type
  files,      \* keys minted so far
  open,       \* each request: what it read and what it was asked
  screen,     \* each administrator: the document looked at and every file it has had since
  cleared     \* verdicts: <<type, file, date>> an administrator answers for

vars == <<day, docs, files, open, screen, cleared>>

TypeOK ==
  /\ docs \in [Required -> DriverDocument] /\ day \in 1..MaxDay /\ files \in 0..MaxFiles
  /\ cleared \subseteq Required \X (1..MaxFiles) \X Dates

Init ==
  /\ day = 1 /\ docs = [d \in Required |-> NoRow] /\ files = 0 /\ cleared = {}
  /\ open = [p \in Phones \cup Admins |-> Idle] /\ screen = [a \in Admins |-> Idle]

Tick == day < MaxDay /\ day' = day + 1 /\ UNCHANGED <<docs, files, open, screen, cleared>>

-----------------------------------------------------------------------------
\* A flush writes the columns whose value differs from the one read.
Flush(now, read, new) == [c \in DOMAIN now |-> IF new[c] # read[c] THEN new[c] ELSE now[c]]

\* Every screen showing the document is now showing a replaced file.
Shown(d, f) == [a \in Admins |-> IF screen[a] # Idle /\ screen[a].doc = d
                                 THEN [screen[a] EXCEPT !.files = @ \cup {f}] ELSE screen[a]]

\* create_document_upload_url: a new key per upload; whatever a review had
\* established is about another file.  A first upload is taken to be alone (two
\* at once would insert two rows, which no constraint refuses).
UploadReads(p, d, date) ==
  /\ open[p] = Idle /\ files < MaxFiles /\ files' = files + 1
  /\ docs[d] = NoRow => \A q \in Phones : open[q] = Idle
  /\ open' = [open EXCEPT ![p] = [kind |-> "upload", doc |-> d, read |-> docs[d], file |-> files + 1, date |-> date]]
  /\ UNCHANGED <<day, docs, screen, cleared>>
\* mutant: the old verdict stays with the new file
Replaced_KeepsVerdict(read, f, date) ==
  [read EXCEPT !.file = f, !.claimed = date, !.status = IF @ = "none" THEN "pending" ELSE @]
Replaced(read, f, date) == [file |-> f, claimed |-> date, verified |-> Null, status |-> "pending"]
UploadWrites(p) ==
  LET o == open[p] IN
  /\ o.kind = "upload" /\ open' = [open EXCEPT ![p] = Idle]
  /\ docs' = [docs EXCEPT ![o.doc] = Flush(@, o.read, Replaced(o.read, o.file, o.date))]
  /\ screen' = Shown(o.doc, o.file)
  /\ UNCHANGED <<day, files, cleared>>

\* update_my_document: another claim is another thing to review.
ClaimReads(p, d, date) ==
  /\ open[p] = Idle /\ docs[d] # NoRow
  /\ open' = [open EXCEPT ![p] = [kind |-> "claim", doc |-> d, read |-> docs[d], date |-> date]]
  /\ UNCHANGED <<day, docs, files, screen, cleared>>
ClaimWrites(p) ==
  LET o == open[p]
      new == IF o.read.claimed = o.date THEN o.read ELSE Replaced(o.read, o.read.file, o.date) IN
  /\ o.kind = "claim" /\ open' = [open EXCEPT ![p] = Idle]
  /\ docs' = [docs EXCEPT ![o.doc] = Flush(@, o.read, new)]
  /\ UNCHANGED <<day, files, screen, cleared>>

-----------------------------------------------------------------------------
\* list_pending_driver_documents: the file the administrator opens.
Look(a, d) ==
  /\ open[a] = Idle /\ docs[d].status = "pending" /\ docs[d].file # Null
  /\ screen' = [screen EXCEPT ![a] = [doc |-> d, files |-> {docs[d].file}]]
  /\ UNCHANGED <<day, docs, files, open, cleared>>

\* review_driver_document: of the row as it now is, if it is still pending.
ReviewReads(a) ==
  /\ open[a] = Idle /\ screen[a] # Idle
  /\ LET d == screen[a].doc IN
     /\ docs[d].status = "pending" /\ docs[d].file # Null
     /\ open' = [open EXCEPT ![a] = [kind |-> "review", doc |-> d, read |-> docs[d]]]
  /\ UNCHANGED <<day, docs, files, screen, cleared>>
Verdict(read, date) == [read EXCEPT !.status = IF date = Null THEN "rejected" ELSE "verified", !.verified = date]
\* Answered for: what the document has held since it was opened, and what was
\* being uploaded while the verdict was given.
Overlapping(a) == screen[a].files \cup
  {open[p].file : p \in {q \in Phones : open[q].kind = "upload" /\ open[q].doc = screen[a].doc}}
ReviewWrites(a, date) ==
  LET o == open[a] IN
  /\ o.kind = "review" /\ date \in Dates \cup {Null}
  /\ docs' = [docs EXCEPT ![o.doc] = Flush(@, o.read, Verdict(o.read, date))]
  /\ cleared' = IF date = Null THEN cleared ELSE cleared \cup ({o.doc} \X Overlapping(a) \X {date})
  /\ open' = [open EXCEPT ![a] = Idle] /\ screen' = [screen EXCEPT ![a] = Idle]
  /\ UNCHANGED <<day, files>>

-----------------------------------------------------------------------------
\* mutant: an expired document is still a verified one
Expired_Never(d) == FALSE
Expired(d) == docs[d].verified < day
\* evaluate_driver_documents, one reason per document.
Problem(d) ==
  CASE docs[d].file = Null -> "missing"
    [] docs[d].status = "rejected" -> "rejected"
    [] docs[d].status = "pending" \/ docs[d].verified = Null -> "awaiting_review"
    [] Expired(d) -> "expired"
    [] OTHER -> "none"
can_go_on_shift == \A d \in Required : Problem(d) = "none"

Next ==
  \/ Tick
  \/ \E p \in Phones : UploadWrites(p) \/ ClaimWrites(p)
  \/ \E p \in Phones, d \in Required, t \in Dates : UploadReads(p, d, t) \/ ClaimReads(p, d, t)
  \/ \E a \in Admins : ReviewReads(a)
  \/ \E a \in Admins, d \in Required : Look(a, d)
  \/ \E a \in Admins, t \in Dates \cup {Null} : ReviewWrites(a, t)

Spec == Init /\ [][Next]_vars

-----------------------------------------------------------------------------
\* update_my_availability lets the driver go on shift only with every required
\* document verified to a date not yet past, and that date is an
\* administrator's, read off the file then on record or off one that file
\* replaced while the review was under way: never the driver's claim, and
\* never a verdict on an earlier upload.
ShiftsAreCleared ==
  can_go_on_shift => \A d \in Required :
    /\ docs[d].verified >= day
    /\ <<d, docs[d].file, docs[d].verified>> \in cleared
=============================================================================
