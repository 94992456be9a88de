---------------------------- MODULE Intake_proofs ----------------------------
(***************************************************************************)
(* Intake, for any number of requests and whatever they ask: one order per *)
(* reference of a client, history kept apart from dispatch and billing,    *)
(* and a copy left of everything that was sent.                            *)
(***************************************************************************)
EXTENDS Intake, TLAPS

\* Every request asks for an order, and "nobody" is none of them.
WellAsked == Nobody \notin Requests /\ \A r \in Requests : Ask[r] \in LMXOrder

(* The unique index: of the requests for one order at most one has a row,   *)
(* committed or not.                                                        *)
OneRow ==
  \A r, q \in Requests :
    SameOrder(r, q) /\ row[r].txn # "none" /\ row[q].txn # "none" => r = q

(* How far a request got says what became of its row.  Only a stored order  *)
(* is queued, so only a stored order leaves `held`.                         *)
RowOfStep ==
  \A r \in Requests :
    /\ row[r].txn # "in" => row[r].status = "held" /\ r \notin queue
    /\ pc[r] \in {"new", "fresh", "flagged"} => row[r].txn = "none"
    /\ row[r].txn = "open" <=> pc[r] = "inserted"
    /\ pc[r] = "stored" => row[r].txn = "in" /\ Live(r)

AnsweredWithIt ==
  \A r \in Requests : answer[r] # Nobody => answer[r] \in Stored /\ SameOrder(r, answer[r])

History ==
  \A q \in Requests : ~Live(q) => q \notin queue /\ q \notin billed /\ row[q].given = {}

SameDoor(p, q) == Ask[p].client = Ask[q].client /\ Ask[p].door = Ask[q].door

(* A flag names another order that is stored, of the same client and door.  *)
TwinsAreStored ==
  \A q \in Requests :
    twin[q] # Nobody => twin[q] \in Stored /\ twin[q] # q /\ SameDoor(twin[q], q)

(* A first copy stands behind every order: one of its client to its door     *)
(* that repeats nothing, so that nobody is ever asked about it.             *)
Rooted == \A q \in Stored : \E p \in Stored : SameDoor(p, q) /\ twin[p] = Nobody

(* Only flagged orders are asked about; an order that repeats nothing is    *)
(* cancelled by nobody but a client who takes it back.                      *)
AskedOfRepeats ==
  /\ \A q \in asked : q \in Stored /\ twin[q] # Nobody
  /\ \A q \in Stored : twin[q] = Nobody /\ row[q].status = "cancelled" => q \in dropped

IntakeInv ==
  /\ TypeOK /\ OneRow /\ RowOfStep /\ AnsweredWithIt /\ History /\ TwinsAreStored
  /\ Rooted /\ AskedOfRepeats

-----------------------------------------------------------------------------
\* Being the same order is an equivalence.
LEMMA SameOrderIsEquivalence ==
  \A r, q, p \in Requests :
    /\ SameOrder(r, r)
    /\ SameOrder(r, q) => SameOrder(q, r)
    /\ SameOrder(r, q) => Ask[r].client = Ask[q].client
    /\ SameOrder(r, q) /\ SameOrder(q, p) => SameOrder(r, p)
  BY DEF SameOrder

LEMMA InitHolds == ASSUME WellAsked PROVE Init => IntakeInv
  BY DEF WellAsked, Init, IntakeInv, TypeOK, OneRow, RowOfStep, AnsweredWithIt, History,
     TwinsAreStored, Rooted, AskedOfRepeats, Stored, Row, NoRow

\* A request answered with an order that is stored.
LEMMA FoundKeeps ==
  ASSUME WellAsked, IntakeInv, NEW r \in Requests, pc[r] \in {"new", "flagged"},
         NEW q \in Found(r), AnswerWith(r, q),
         UNCHANGED <<row, twin, settled, asked, dropped, queue, billed>>
  PROVE  IntakeInv'
  <1>1. q \in Stored /\ SameOrder(r, q) /\ q \in Requests
    BY DEF Found, Stored
  <1>2. TypeOK'
    BY <1>1 DEF IntakeInv, TypeOK, AnswerWith
  <1>3. AnsweredWithIt'
    BY <1>1 DEF IntakeInv, TypeOK, AnsweredWithIt, AnswerWith, Stored
  <1>4. OneRow' /\ RowOfStep' /\ History' /\ TwinsAreStored' /\ Rooted' /\ AskedOfRepeats'
    BY DEF IntakeInv, TypeOK, OneRow, RowOfStep, History, TwinsAreStored, Rooted, AskedOfRepeats,
       AnswerWith, Stored
  <1> QED
    BY <1>2, <1>3, <1>4 DEF IntakeInv

LEMMA RequestSteps ==
  ASSUME WellAsked, IntakeInv, NEW r \in Requests, Find(r) \/ Refuse(r) \/ Flag(r) \/ Insert(r)
  PROVE  IntakeInv'
  <1>1. CASE Find(r)
    <2>1. CASE Found(r) # {}
      <3>1. PICK q \in Found(r) : AnswerWith(r, q)
        BY <1>1, <2>1 DEF Find
      <3> QED
        BY <1>1, <3>1, FoundKeeps DEF Find
    <2>2. CASE Found(r) = {}
      <3>1. pc' = [pc EXCEPT ![r] = "fresh"] /\ pc[r] = "new" /\
            UNCHANGED <<row, answer, twin, settled, asked, dropped, queue, billed>>
        BY <1>1, <2>2 DEF Find
      <3> QED
        BY <3>1 DEF IntakeInv, TypeOK, OneRow, RowOfStep, AnsweredWithIt, History, TwinsAreStored,
           Rooted, AskedOfRepeats, Stored
    <2> QED
      BY <2>1, <2>2
  <1>2. CASE Refuse(r)
    BY <1>2 DEF Refuse, IntakeInv, TypeOK, OneRow, RowOfStep, AnsweredWithIt, History,
       TwinsAreStored, Rooted, AskedOfRepeats, Stored
  <1>3. CASE Flag(r)
    <2>1. /\ pc[r] = "fresh" /\ pc' = [pc EXCEPT ![r] = "flagged"]
          /\ UNCHANGED <<row, answer, settled, asked, dropped, queue, billed>>
      BY <1>3 DEF Flag
    <2>2. \/ UNCHANGED twin
          \/ \E q \in Stored : SameDoor(q, r) /\ twin' = [twin EXCEPT ![r] = q]
      BY <1>3 DEF Flag, Repeats, SameDoor
    <2>3. r \notin Stored
      BY <2>1 DEF IntakeInv, RowOfStep, Stored
    <2>4. TwinsAreStored' /\ twin' \in [Requests -> Requests \cup {Nobody}]
      BY <2>1, <2>2, <2>3 DEF IntakeInv, TypeOK, TwinsAreStored, Stored, SameDoor
    <2>5. TypeOK' /\ RowOfStep'
      BY <2>1, <2>4 DEF IntakeInv, TypeOK, RowOfStep
    <2>6. OneRow' /\ AnsweredWithIt' /\ History'
      BY <2>1 DEF IntakeInv, OneRow, AnsweredWithIt, History, Stored
    <2>7. Stored' = Stored /\ \A q \in Stored : twin'[q] = twin[q]
      BY <2>1, <2>2, <2>3 DEF IntakeInv, TypeOK, Stored
    <2>8. Rooted' /\ AskedOfRepeats'
      BY <2>1, <2>7 DEF IntakeInv, Rooted, AskedOfRepeats
    <2> QED
      BY <2>4, <2>5, <2>6, <2>8 DEF IntakeInv
  <1>4. CASE Insert(r)
    <2>1. CASE Found(r) # {}
      <3>1. PICK q \in Found(r) : AnswerWith(r, q)
        BY <1>4, <2>1 DEF Insert
      <3>2. UNCHANGED <<row, twin, settled, asked, dropped, queue, billed>> /\ pc[r] = "flagged"
        BY <1>4, <2>1 DEF Insert
      <3> QED
        BY <3>1, <3>2, FoundKeeps
    <2>2. CASE Found(r) = {}
      <3>1. /\ pc[r] = "flagged" /\ pc' = [pc EXCEPT ![r] = "inserted"]
            /\ row' = [row EXCEPT ![r].txn = "open"]
            /\ UNCHANGED <<answer, twin, settled, asked, dropped, queue, billed>>
        BY <1>4, <2>2 DEF Insert
      <3>2. \A q \in Requests : SameOrder(r, q) => row[q].txn = "none"
        BY <1>4, <2>2 DEF Insert, Found, Stored, IntakeInv, TypeOK, Row
      <3>3. row' \in [Requests -> Row] /\ row[r].txn = "none"
        BY <3>1 DEF IntakeInv, TypeOK, Row, RowOfStep
      <3>4. /\ row'[r].txn = "open" /\ row'[r].given = row[r].given /\ row'[r].status = row[r].status
            /\ \A q \in Requests : q # r => row'[q] = row[q]
        BY <3>1 DEF IntakeInv, TypeOK, Row
      <3>5. Stored' = Stored
        BY <3>3, <3>4 DEF Stored
      <3>6. OneRow'
        BY <3>2, <3>4, SameOrderIsEquivalence DEF IntakeInv, OneRow
      <3>7. TypeOK' /\ RowOfStep'
        BY <3>1, <3>3, <3>4 DEF IntakeInv, TypeOK, RowOfStep
      <3>8. AnsweredWithIt' /\ TwinsAreStored'
        BY <3>1, <3>5 DEF IntakeInv, AnsweredWithIt, TwinsAreStored
      <3>9. History' /\ Rooted' /\ AskedOfRepeats'
        BY <3>1, <3>4, <3>5 DEF IntakeInv, TypeOK, History, Rooted, AskedOfRepeats, Stored
      <3> QED
        BY <3>6, <3>7, <3>8, <3>9 DEF IntakeInv
    <2> QED
      BY <2>1, <2>2
  <1> QED
    BY <1>1, <1>2, <1>3, <1>4

\* The status of a stored row changes; one that repeats nothing is cancelled
\* only by being taken back.
LEMMA StoredRowChanges ==
  ASSUME IntakeInv, NEW q \in Requests, row' \in [Requests -> Row],
         row[q].txn = "in", row'[q].txn = "in", row'[q].given = row[q].given,
         \A p \in Requests : p # q => row'[p] = row[p],
         UNCHANGED <<pc, answer, twin, settled, asked, billed>>, queue' \subseteq queue,
         dropped \subseteq dropped', dropped' \subseteq Requests,
         row'[q].status = "cancelled" /\ twin[q] = Nobody => q \in dropped'
  PROVE  IntakeInv'
  <1>1. Stored' = Stored
    BY DEF Stored
  <1>2. TypeOK' /\ OneRow' /\ RowOfStep'
    BY DEF IntakeInv, TypeOK, OneRow, RowOfStep
  <1>3. AnsweredWithIt' /\ TwinsAreStored' /\ History'
    BY <1>1 DEF IntakeInv, AnsweredWithIt, TwinsAreStored, History
  <1>4. Rooted' /\ AskedOfRepeats'
    BY <1>1 DEF IntakeInv, Rooted, AskedOfRepeats, Stored
  <1> QED
    BY <1>2, <1>3, <1>4 DEF IntakeInv

LEMMA CommitKeeps == ASSUME WellAsked, IntakeInv, NEW r \in Requests, Commit(r) PROVE IntakeInv'
  <1>1. PICK g \in Given(r) : row' = [row EXCEPT ![r].txn = "in", ![r].given = g]
    BY DEF Commit
  <1>2. /\ pc[r] = "inserted" /\ row[r].txn = "open"
        /\ UNCHANGED <<twin, settled, asked, dropped, queue, billed>>
    BY DEF Commit, IntakeInv, RowOfStep
  <1>3. g \subseteq {"fee", "arm", "news"} /\ (~Live(r) => g = {})
    BY DEF Given
  <1>4. /\ row' \in [Requests -> Row] /\ row'[r].txn = "in" /\ row'[r].given = g
        /\ row'[r].status = row[r].status
        /\ \A q \in Requests : q # r => row'[q] = row[q]
    <2>1. row \in [Requests -> Row] /\ row[r] \in Row
      BY DEF IntakeInv, TypeOK
    <2>2. [row[r] EXCEPT !.txn = "in", !.given = g] \in Row
      BY <1>3, <2>1 DEF Row
    <2>3. row' = [row EXCEPT ![r] = [row[r] EXCEPT !.txn = "in", !.given = g]]
      BY <1>1, <2>1 DEF Row
    <2>4. row'[r] = [row[r] EXCEPT !.txn = "in", !.given = g]
      BY <2>1, <2>3
    <2>5. /\ row'[r].txn = "in" /\ row'[r].given = g
          /\ row'[r].status = row[r].status
      BY <2>1, <2>4 DEF Row
    <2> QED
      BY <2>1, <2>2, <2>3, <2>5
  <1>5. Stored' = Stored \cup {r}
    BY <1>4 DEF Stored
  <1>6. \/ Live(r) /\ pc' = [pc EXCEPT ![r] = "stored"] /\ UNCHANGED answer
        \/ ~Live(r) /\ pc' = [pc EXCEPT ![r] = "done"] /\ answer' = [answer EXCEPT ![r] = r]
    BY DEF Commit, AnswerWith
  <1>7. TypeOK' /\ RowOfStep'
    BY <1>2, <1>4, <1>6 DEF IntakeInv, TypeOK, RowOfStep, Live
  <1>8. OneRow'
    BY <1>2, <1>4 DEF IntakeInv, OneRow
  <1>9. AnsweredWithIt'
    BY <1>5, <1>6, SameOrderIsEquivalence DEF IntakeInv, TypeOK, AnsweredWithIt
  <1>10. TwinsAreStored' /\ History'
    BY <1>2, <1>3, <1>4, <1>5 DEF IntakeInv, TypeOK, TwinsAreStored, History
  <1>11. Rooted'
    <2>1. ASSUME NEW q \in Stored
          PROVE  \E p \in Stored : SameDoor(p, q) /\ twin[p] = Nobody
      BY <2>1 DEF IntakeInv, Rooted
    <2>2. CASE twin[r] = Nobody
      <3>1. SameDoor(r, r)
        BY DEF SameDoor
      <3> QED
        BY <1>2, <1>5, <2>1, <2>2, <3>1 DEF Rooted
    <2>3. CASE twin[r] # Nobody
      <3>1. twin[r] \in Stored /\ SameDoor(twin[r], r)
        BY <2>3 DEF IntakeInv, TwinsAreStored
      <3>2. PICK p \in Stored : SameDoor(p, twin[r]) /\ twin[p] = Nobody
        BY <2>1, <3>1
      <3>3. SameDoor(p, r)
        BY <3>1, <3>2 DEF SameDoor
      <3> QED
        BY <1>2, <1>5, <2>1, <3>2, <3>3 DEF Rooted
    <2> QED
      BY <2>2, <2>3
  <1>12. AskedOfRepeats'
    <2>1. row'[r].status = "held"
      BY <1>2, <1>4 DEF IntakeInv, RowOfStep
    <2>2. \A q \in Stored : q # r /\ row'[q] = row[q]
      BY <1>2, <1>4 DEF Stored
    <2> QED
      BY <1>2, <1>5, <2>1, <2>2 DEF IntakeInv, AskedOfRepeats
  <1> QED
    BY <1>7, <1>8, <1>9, <1>10, <1>11, <1>12 DEF IntakeInv

LEMMA EnqueueKeeps == ASSUME WellAsked, IntakeInv, NEW r \in Requests, Enqueue(r) PROVE IntakeInv'
  <1>1. /\ pc[r] = "stored" /\ pc' = [pc EXCEPT ![r] = "done"]
        /\ answer' = [answer EXCEPT ![r] = r] /\ queue' = queue \cup {r}
        /\ UNCHANGED <<row, twin, settled, asked, dropped, billed>>
    BY DEF Enqueue, AnswerWith
  <1>2. r \in Stored /\ Live(r) /\ row[r].txn = "in"
    BY <1>1 DEF IntakeInv, RowOfStep, Stored
  <1>3. TypeOK' /\ RowOfStep'
    BY <1>1, <1>2 DEF IntakeInv, TypeOK, RowOfStep, Live
  <1>4. AnsweredWithIt'
    BY <1>1, <1>2, SameOrderIsEquivalence DEF IntakeInv, TypeOK, AnsweredWithIt, Stored
  <1>5. History'
    BY <1>1, <1>2 DEF IntakeInv, History, Live
  <1>6. OneRow' /\ TwinsAreStored' /\ Rooted' /\ AskedOfRepeats'
    BY <1>1 DEF IntakeInv, OneRow, TwinsAreStored, Rooted, AskedOfRepeats, Stored
  <1> QED
    BY <1>3, <1>4, <1>5, <1>6 DEF IntakeInv

LEMMA DiesKeeps == ASSUME IntakeInv, NEW r \in Requests, Dies(r) PROVE IntakeInv'
  <1>1. /\ pc[r] \in {"fresh", "flagged", "inserted", "stored"}
        /\ pc' = [pc EXCEPT ![r] = "gone"]
        /\ UNCHANGED <<answer, twin, settled, asked, dropped, queue, billed>>
    BY DEF Dies
  <1>2. /\ row' \in [Requests -> Row] /\ row'[r].given = row[r].given
        /\ row'[r].status = row[r].status /\ row'[r].txn # "open"
        /\ row[r].txn = "open" => row'[r].txn = "none"
        /\ row[r].txn # "open" => row'[r].txn = row[r].txn
        /\ \A q \in Requests : q # r => row'[q] = row[q]
    BY DEF Dies, IntakeInv, TypeOK, Row
  <1>3. Stored' = Stored
    BY <1>2 DEF Stored
  <1>4. TypeOK' /\ RowOfStep'
    BY <1>1, <1>2 DEF IntakeInv, TypeOK, RowOfStep
  <1>5. OneRow'
    BY <1>2 DEF IntakeInv, OneRow
  <1>6. AnsweredWithIt' /\ TwinsAreStored'
    BY <1>1, <1>3 DEF IntakeInv, AnsweredWithIt, TwinsAreStored
  <1>7. History' /\ Rooted' /\ AskedOfRepeats'
    BY <1>1, <1>2, <1>3 DEF IntakeInv, History, Rooted, AskedOfRepeats, Stored
  <1> QED
    BY <1>4, <1>5, <1>6, <1>7 DEF IntakeInv

\* The queue is rewritten from the stored live orders.
LEMMA RebuildKeeps == ASSUME IntakeInv, Rebuild PROVE IntakeInv'
  <1>1. UNCHANGED <<pc, row, answer, twin, settled, asked, dropped, billed>> /\ queue' = Waiting
    BY DEF Rebuild
  <1>2. \A r \in Requests : r \in queue' => row[r].txn = "in" /\ Live(r)
    BY <1>1 DEF Waiting, Stored
  <1>3. TypeOK' /\ RowOfStep' /\ History'
    BY <1>1, <1>2 DEF IntakeInv, TypeOK, RowOfStep, History, Waiting, Stored, Live
  <1>4. OneRow' /\ AnsweredWithIt' /\ TwinsAreStored' /\ Rooted' /\ AskedOfRepeats'
    BY <1>1 DEF IntakeInv, OneRow, AnsweredWithIt, TwinsAreStored, Rooted, AskedOfRepeats, Stored
  <1> QED
    BY <1>3, <1>4 DEF IntakeInv

LEMMA InvoiceKeeps == ASSUME IntakeInv, NEW q \in Requests, Invoice(q) PROVE IntakeInv'
  BY DEF Invoice, IntakeInv, TypeOK, OneRow, RowOfStep, AnsweredWithIt, History, TwinsAreStored,
     Rooted, AskedOfRepeats, Stored, Live

LEMMA DriveKeeps == ASSUME IntakeInv, NEW q \in Requests, Drive(q) PROVE IntakeInv'
  <1>1. /\ row[q].status = "held" /\ row' = [row EXCEPT ![q].status = "delivered"]
        /\ queue' = queue \ {q} /\ q \in queue
        /\ UNCHANGED <<pc, answer, twin, settled, asked, dropped, billed>>
    BY DEF Drive
  <1>2. row[q].txn = "in" /\ row \in [Requests -> Row] /\ dropped \subseteq Requests
    BY <1>1 DEF IntakeInv, RowOfStep, TypeOK
  <1>3. /\ row' \in [Requests -> Row] /\ row'[q].txn = row[q].txn /\ row'[q].given = row[q].given
        /\ row'[q].status = "delivered" /\ \A p \in Requests : p # q => row'[p] = row[p]
    BY <1>1, <1>2 DEF Row
  <1> QED
    BY <1>1, <1>2, <1>3, StoredRowChanges

LEMMA AgesKeeps == ASSUME IntakeInv, NEW q \in Requests, Ages(q) PROVE IntakeInv'
  <1>1. /\ q \in Stored /\ row' = [row EXCEPT ![q].recent = FALSE]
        /\ UNCHANGED <<pc, answer, twin, settled, asked, dropped, queue, billed>>
    BY DEF Ages
  <1>2. row \in [Requests -> Row]
    BY DEF IntakeInv, TypeOK
  <1>3. /\ row' \in [Requests -> Row] /\ row'[q].txn = row[q].txn /\ row'[q].given = row[q].given
        /\ row'[q].status = row[q].status /\ \A p \in Requests : p # q => row'[p] = row[p]
    BY <1>1, <1>2 DEF Row
  <1>4. Stored' = Stored
    BY <1>3 DEF Stored
  <1>5. TypeOK' /\ RowOfStep' /\ OneRow'
    BY <1>1, <1>3 DEF IntakeInv, TypeOK, RowOfStep, OneRow
  <1>6. AnsweredWithIt' /\ TwinsAreStored' /\ History' /\ Rooted' /\ AskedOfRepeats'
    BY <1>1, <1>3, <1>4 DEF IntakeInv, AnsweredWithIt, TwinsAreStored, History, Rooted, AskedOfRepeats,
       Stored
  <1> QED
    BY <1>5, <1>6 DEF IntakeInv

\* An answer cancels a repeat; anything else is cancelled by being taken back.
LEMMA CancelsKeep ==
  ASSUME IntakeInv, NEW q \in Requests, SentTwice(q) \/ TakeBack(q)
  PROVE  IntakeInv'
  <1>1. /\ q \in Stored /\ row[q].status = "held" /\ queue' = queue \ {q}
        /\ row' = [row EXCEPT ![q].status = "cancelled"]
        /\ UNCHANGED <<pc, answer, twin, settled, asked, billed>>
    BY DEF SentTwice, TakeBack, Cancelled
  <1>2. row[q].txn = "in" /\ row \in [Requests -> Row] /\ dropped \subseteq Requests
    BY <1>1 DEF IntakeInv, TypeOK, Stored
  <1>3. /\ row' \in [Requests -> Row] /\ row'[q].txn = row[q].txn /\ row'[q].given = row[q].given
        /\ row'[q].status = "cancelled" /\ \A p \in Requests : p # q => row'[p] = row[p]
    BY <1>1, <1>2 DEF Row
  <1>4. /\ dropped \subseteq dropped' /\ dropped' \subseteq Requests
        /\ twin[q] = Nobody => q \in dropped'
    BY <1>2 DEF SentTwice, TakeBack, IntakeInv, AskedOfRepeats
  <1> QED
    BY <1>1, <1>2, <1>3, <1>4, StoredRowChanges

LEMMA ShownKeeps == ASSUME IntakeInv, NEW q \in Requests, Shown(q) PROVE IntakeInv'
  BY DEF Shown, Question, IntakeInv, TypeOK, OneRow, RowOfStep, AnsweredWithIt, History,
     TwinsAreStored, Rooted, AskedOfRepeats, Stored

LEMMA NotADuplicateKeeps == ASSUME IntakeInv, NEW q \in Requests, NotADuplicate(q) PROVE IntakeInv'
  BY DEF NotADuplicate, IntakeInv, TypeOK, OneRow, RowOfStep, AnsweredWithIt, History,
     TwinsAreStored, Rooted, AskedOfRepeats, Stored

LEMMA StepKeeps == ASSUME WellAsked, IntakeInv, [Next]_vars PROVE IntakeInv'
  <1>1. ASSUME NEW r \in Requests, Find(r) \/ Refuse(r) \/ Flag(r) \/ Insert(r) PROVE IntakeInv'
    BY <1>1, RequestSteps
  <1>2. ASSUME NEW r \in Requests, Commit(r) \/ Enqueue(r) \/ Dies(r) PROVE IntakeInv'
    BY <1>2, CommitKeeps, EnqueueKeeps, DiesKeeps
  <1>3. CASE Rebuild
    BY <1>3, RebuildKeeps
  <1>4. ASSUME NEW q \in Requests, Drive(q) \/ Invoice(q) \/ Ages(q) PROVE IntakeInv'
    BY <1>4, DriveKeeps, InvoiceKeeps, AgesKeeps
  <1>5. ASSUME NEW q \in Requests, Shown(q) \/ SentTwice(q) \/ NotADuplicate(q) \/ TakeBack(q)
        PROVE  IntakeInv'
    BY <1>5, ShownKeeps, CancelsKeep, NotADuplicateKeeps
  <1>6. CASE UNCHANGED vars
    BY <1>6 DEF vars, IntakeInv, TypeOK, OneRow, RowOfStep, AnsweredWithIt, History,
       TwinsAreStored, Rooted, AskedOfRepeats, Stored
  <1> QED
    BY <1>1, <1>2, <1>3, <1>4, <1>5, <1>6 DEF Next

LEMMA IntakeInvariance == ASSUME WellAsked PROVE Spec => []IntakeInv
  <1>1. Init => IntakeInv
    BY InitHolds
  <1>2. IntakeInv /\ [Next]_vars => IntakeInv'
    BY StepKeeps
  <1> QED
    BY <1>1, <1>2, PTL DEF Spec

-----------------------------------------------------------------------------
(* A reference a client sends any number of times, before or after the      *)
(* first request is answered, is one order, and no request is answered with *)
(* another client's (ingest_or_find and uq_orders_source_ref).              *)
THEOREM ReferenceIsOneOrder == ASSUME WellAsked PROVE Spec => []OneOrderPerReference
  <1>1. IntakeInv => OneOrderPerReference
    <2> SUFFICES ASSUME IntakeInv, NEW r \in Requests, NEW q \in Requests
                 PROVE  /\ answer[r] # Nobody =>
                            Ask[answer[r]].client = Ask[r].client /\ answer[r] \in Stored
                        /\ answer[r] # Nobody /\ answer[q] # Nobody /\ SameOrder(r, q) =>
                            answer[r] = answer[q]
      BY DEF OneOrderPerReference
    <2>1. ASSUME NEW s \in Requests, answer[s] # Nobody
          PROVE  /\ answer[s] \in Stored /\ answer[s] \in Requests /\ SameOrder(s, answer[s])
                 /\ row[answer[s]].txn = "in"
      BY <2>1 DEF IntakeInv, AnsweredWithIt, Stored
    <2>2. answer[r] # Nobody => Ask[answer[r]].client = Ask[r].client /\ answer[r] \in Stored
      BY <2>1, SameOrderIsEquivalence
    <2>3. ASSUME answer[r] # Nobody, answer[q] # Nobody, SameOrder(r, q)
          PROVE  answer[r] = answer[q]
      <3>1. SameOrder(answer[r], r) /\ SameOrder(q, answer[q])
        BY <2>1, <2>3, SameOrderIsEquivalence
      <3>2. SameOrder(answer[r], answer[q])
        BY <2>1, <2>3, <3>1, SameOrderIsEquivalence
      <3> QED
        BY <2>1, <2>3, <3>2 DEF IntakeInv, OneRow
    <2> QED
      BY <2>2, <2>3
  <1> QED
    BY <1>1, IntakeInvariance, PTL

(* Imported history, stored as `held` like any other order, is never queued *)
(* for dispatch, by the intake or by the rebuild of an emptied queue, and   *)
(* never priced, invoiced or announced.                                     *)
THEOREM ImportIsHistory == ASSUME WellAsked PROVE Spec => []HistoryStaysHistory
  <1>1. IntakeInv => HistoryStaysHistory
    BY DEF IntakeInv, History, HistoryStaysHistory, Stored
  <1> QED
    BY <1>1, IntakeInvariance, PTL

(* However the client answers the questions about likely repeats, in        *)
(* whatever order and on screens however old, the answers alone never       *)
(* cancel every copy: what was sent to a door keeps an order, unless one    *)
(* was taken back without a question (cancel_before_collection looks at the *)
(* order alone, so nothing but the shape of the flags protects the last).   *)
THEOREM ACopyIsLeft == ASSUME WellAsked PROVE Spec => []OneCopySurvives
  <1>1. IntakeInv => OneCopySurvives
    <2> SUFFICES ASSUME IntakeInv, NEW q \in Stored
                 PROVE  \E p \in Stored : /\ SameDoor(p, q)
                                          /\ row[p].status # "cancelled" \/ p \in dropped
      BY DEF OneCopySurvives, SameDoor
    <2>1. PICK p \in Stored : SameDoor(p, q) /\ twin[p] = Nobody
      BY DEF IntakeInv, Rooted
    <2> QED
      BY <2>1 DEF IntakeInv, AskedOfRepeats
  <1> QED
    BY <1>1, IntakeInvariance, PTL

=============================================================================
