------------------------- MODULE Components_proofs --------------------------
(***************************************************************************)
(* Theorems about components that share no state with the rest: what goods *)
(* are handed over against, what a client's endpoint is told, what orders  *)
(* and shifts rest on, what is measured and settled, what waiting and      *)
(* forecasts promise, what is known of a dock, what a decision is credited *)
(* with, which parts go back and which questions are asked.  MCDesk and    *)
(* MCRecord check each of them on one small instance; here the constants   *)
(* are any that meet the hypotheses of the theorem.  Every component is an *)
(* INSTANCE under its own name, with the constants and variables below for *)
(* those it declares under the same names.                                 *)
(***************************************************************************)
EXTENDS Integers, FiniteSets, Sequences, TLAPS, WellFoundedInduction, FiniteSetTheorems

CONSTANTS
  Carried, CodOrders, Proof, MAX_PIN,     \* CashOnDelivery
  Events, MAX_ATTEMPTS, MAX_FAILURES,     \* StatusWebhooks
  Users, Applicant, Reviewers, MAX_VERSION,     \* ClientAccounts
  Required, Phones, Admins, Dates, MaxFiles, MaxDay,    \* Documents
  Runs, Worlds, DriverDays, Cost, MAX_ENTRIES, MAX_BASES,       \* Settlement
  Procs, Drivers, Orders, CADENCE, LOCK_TTL, OpenFrom, OpenUntil, MaxTime, MaxCycles,      \* Shadow
  Docks, Alike, Shops, Home, Stops, At, Values, Says, Guessed, Shared, Denial,      \* SiteIdentity
  MAX_DISPUTES, MAX_SETTLED, MAX_REMEMBERED, MaxMerges, MaxAnswers,
  Guess, Visits, Histories, Classes, Labellers, MIN_OWN_SAMPLES, THIN_SAMPLE_COUNT,     \* DockProfiles
  FLOOR, PLACEHOLDER, REFRESH_LIMIT, CLASSIFY_LIMIT, MaxVisits, MaxNights, MaxMerged,
  Spots, Rules, Window, Promises, NoPromise, RADIUS, BUFFER, RISK,      \* HoldQueue
  Fields, Submissions, Answers, Gold, Evidence, MAX_SURVEYS, RESURVEY_AFTER,    \* DockSurvey
  Shop, Followed, SCAN_LIMIT, WINDOW, MaxNotes, \* DecisionRecord
  Drops, Carries, Place, Located, SERVICE, GRACE, PING_REFRESH, PING_RETRY, MaxPings,    \* Tracking
  Expects, Manifests, MaxTakes, MaxTaps,        \* Returns
  Clients, Nobody, Who, Tier, Minutes, SINCE, Offers, Reasons, Requested, RouteAt, Planned,     \* Measures
  Ref, Root, Returns, ReturnShop, STALE, DAY, MaxTerms, MaxCrossings

VARIABLES
  door, evidence, wrongPins, records, asking,     \* CashOnDelivery
  txn, row, endpoint, owed, session, told,        \* StatusWebhooks
  account, user, review, edit, link, key, terms, ordered, unpriced,  \* ClientAccounts
  day, docs, files, open, screen, cleared,        \* Documents
  world, exclusions, ledger, bases, run, signing, papers,       \* Settlement
  clock, lastRun, lock, proc, log, real, overran, \* Shadow
  into, shop, merges, fact, adm, req, desk, given, lost,        \* SiteIdentity
  visits, profile, inherited, waited, class, canonical, answers,   \* DockProfiles
  order, waiting, queued, kept,   \* HoldQueue
  subs, point, asked, said,      \* DockSurvey
  snaps, plan, overrides, flags, hand, night,   \* DecisionRecord
  stops, ping, throttle, delivered, ratings,      \* Tracking
  items, taken, taps, serving,    \* Returns
  term, doing, edits, offer, stop, stored, visit, ret, nights        \* Measures

-----------------------------------------------------------------------------
(* The greatest of some bounded naturals.                                  *)

LEMMA HasLeast ==
  ASSUME NEW S \in SUBSET Nat, S # {}
  PROVE  \E x \in S : \A y \in S : x <= y
  <1>1. PICK x \in S : \A y \in S : ~ (<<y, x>> \in OpToRel(<, Nat))
    BY WFMin, NatLessThanWellFounded
  <1>2. \A y \in S : x <= y
    <2> SUFFICES ASSUME NEW y \in S, y < x PROVE FALSE
      OBVIOUS
    <2>1. <<y, x>> \in Nat \X Nat /\ <<y, x>>[1] < <<y, x>>[2]
      OBVIOUS
    <2>2. <<y, x>> \in {r \in Nat \X Nat : r[1] < r[2]}
      BY <2>1
    <2> QED
      BY <1>1, <2>2 DEF OpToRel
  <1> QED
    BY <1>2

LEMMA HasGreatest ==
  ASSUME NEW b \in Nat, NEW S \in SUBSET (0..b), S # {}
  PROVE  \E x \in S : \A y \in S : x >= y
  <1> DEFINE T == {b - x : x \in S}
  <1>0. \A x \in S : b - x \in Nat
    OBVIOUS
  <1>1. T \in SUBSET Nat /\ T # {}
    <2>1. T \subseteq Nat
      BY <1>0
    <2>2. PICK x : x \in S
      OBVIOUS
    <2>3. b - x \in T
      BY <2>2
    <2> HIDE DEF T
    <2> QED
      BY <2>1, <2>3
  <1>2. PICK t \in T : \A u \in T : t <= u
    <2> HIDE DEF T
    <2> QED
      BY <1>1, HasLeast
  <1>3. PICK x \in S : t = b - x
    BY <1>2
  <1>4. \A y \in S : b - y \in T
    OBVIOUS
  <1>5. \A y \in S : b - x <= b - y
    BY <1>2, <1>3, <1>4
  <1>6. \A y \in S : x >= y
    BY <1>5
  <1> QED
    BY <1>6

-----------------------------------------------------------------------------
(* Cash on delivery.                                                       *)

Cash == INSTANCE CashOnDelivery

CashInv ==
  /\ \A r \in records : r = [order |-> r.order, outcome |-> r.outcome, told |-> r.told]
  /\ Cash!HandedOverProperly

\* What a stop asks for is what the most demanding of its orders does.
LEMMA StrictestIsAsked ==
  ASSUME NEW b \in Nat, \A o \in Carried : Proof[o].photos \in 0..b, NEW o \in Carried
  PROVE  /\ Cash!Required.photos \in Nat /\ Cash!Required.photos >= Proof[o].photos
         /\ Proof[o].signature => Cash!Required.signature
  <1> DEFINE S == {Proof[p].photos : p \in Carried} \cup {0}
  <1>1. S \in SUBSET (0..b) /\ S # {} /\ Proof[o].photos \in S
    OBVIOUS
  <1> HIDE DEF S
  <1>2. PICK x \in S : \A y \in S : x >= y
    BY <1>1, HasGreatest
  <1>3. Cash!Max(S) \in S /\ \A y \in S : Cash!Max(S) >= y
    BY <1>2 DEF Cash!Max
  <1>4. Cash!Max(S) \in Nat /\ Cash!Max(S) >= Proof[o].photos
    <2> DEFINE m == Cash!Max(S)
               n == Proof[o].photos
    <2>1. S \subseteq Nat /\ n \in S
      BY <1>1
    <2>2. m \in S /\ \A y \in S : m >= y
      BY <1>3
    <2> HIDE DEF m, n
    <2>3. m \in Nat /\ m >= n
      BY <2>1, <2>2
    <2> QED
      BY <2>3 DEF m, n
  <1>5. Cash!Required.photos = Cash!Max(S)
    BY DEF Cash!Required, S
  <1>6. Cash!Required.signature = (\E p \in Carried : Proof[p].signature)
    BY DEF Cash!Required
  <1>7. Proof[o].signature => Cash!Required.signature
    BY <1>6
  <1>8. Cash!Required.photos \in Nat /\ Cash!Required.photos >= Proof[o].photos
    BY <1>4, <1>5
  <1> QED
    BY <1>7, <1>8

LEMMA WithTold ==
  ASSUME NEW r, NEW o, NEW c, NEW d, r = [order |-> o, outcome |-> c, told |-> d], NEW t
  PROVE  [r EXCEPT !.told = t] = [order |-> o, outcome |-> c, told |-> t]
  OBVIOUS

\* Telling the client changes nothing else of the record.
LEMMA ToldRecord ==
  ASSUME NEW r, r = [order |-> r.order, outcome |-> r.outcome, told |-> r.told], NEW t
  PROVE  LET q == [r EXCEPT !.told = t]
         IN  q.order = r.order /\ q = [order |-> q.order, outcome |-> q.outcome, told |-> q.told]
  <1>1. [r EXCEPT !.told = t] = [order |-> r.order, outcome |-> r.outcome, told |-> t]
    BY WithTold
  <1> QED
    BY <1>1

LEMMA CashStep ==
  ASSUME NEW b \in Nat, \A o \in Carried : Proof[o].photos \in 0..b,
         CashInv, [Cash!Next]_Cash!vars
  PROVE  CashInv'
  <1>1. CASE UNCHANGED Cash!vars
    BY <1>1 DEF CashInv, Cash!HandedOverProperly, Cash!vars
  <1>2. CASE Cash!AtDoor
    BY <1>2 DEF CashInv, Cash!HandedOverProperly, Cash!AtDoor
  <1>3. CASE \E outcome \in Cash!Outcome : Cash!Ask(outcome)
    BY <1>3 DEF CashInv, Cash!HandedOverProperly, Cash!Ask
  <1>4. CASE \E a \in asking : Cash!Record(a)
    <2>1. PICK a \in asking : Cash!Record(a)
      BY <1>4
    <2>2. /\ UNCHANGED <<door, evidence, wrongPins>>
          /\ records' = records \cup
               {[order |-> o, outcome |-> a.outcome, told |-> FALSE] : o \in CodOrders \ a.found}
      BY <2>1 DEF Cash!Record
    <2>3. \A r \in records' : r = [order |-> r.order, outcome |-> r.outcome, told |-> r.told]
      BY <2>2 DEF CashInv
    <2>4. Cash!HandedOverProperly'
      BY <2>2 DEF CashInv, Cash!HandedOverProperly
    <2> QED
      BY <2>3, <2>4 DEF CashInv
  <1>5. CASE \E r \in records : Cash!Escalate(r)
    <2>1. PICK r \in records : Cash!Escalate(r)
      BY <1>5
    <2> DEFINE q == [r EXCEPT !.told = TRUE]
    <2>2. UNCHANGED <<door, evidence, wrongPins>> /\ records' = (records \ {r}) \cup {q}
      BY <2>1 DEF Cash!Escalate
    <2>3. r = [order |-> r.order, outcome |-> r.outcome, told |-> r.told]
      BY DEF CashInv
    <2>4. q.order = r.order /\ q = [order |-> q.order, outcome |-> q.outcome, told |-> q.told]
      BY <2>3, ToldRecord
    <2> HIDE DEF q
    <2>5. \A o : (\E s \in records : s.order = o) => \E s \in records' : s.order = o
      BY <2>2, <2>4
    <2>6. \A s \in records' : s = [order |-> s.order, outcome |-> s.outcome, told |-> s.told]
      BY <2>2, <2>4 DEF CashInv
    <2>7. Cash!HandedOverProperly'
      BY <2>2, <2>5 DEF CashInv, Cash!HandedOverProperly
    <2> QED
      BY <2>6, <2>7 DEF CashInv
  <1>6. CASE Cash!WrongPin
    BY <1>6 DEF CashInv, Cash!HandedOverProperly, Cash!WrongPin
  <1>7. CASE \E ev \in Cash!Evidence : Cash!Finish(ev)
    <2>1. PICK ev \in Cash!Evidence : Cash!Finish(ev)
      BY <1>7
    <2>2. /\ evidence' = ev /\ UNCHANGED <<wrongPins, records>>
          /\ ev.method = "pin" => wrongPins < MAX_PIN
          /\ CodOrders \subseteq {r.order : r \in records} /\ Cash!Satisfied(ev)
          /\ ev.photos \in Nat /\ ev.method \in {"photo", "signature", "pin"}
      BY <2>1 DEF Cash!Finish, Cash!Settled, Cash!Evidence
    <2>3. ASSUME NEW o \in Carried
          PROVE  /\ Proof[o].photos > 1 => ev.photos >= Proof[o].photos
                 /\ Proof[o].signature => ev.signed \/ ev.method = "pin"
      <3>1. /\ Cash!Required.photos \in Nat /\ Cash!Required.photos >= Proof[o].photos
            /\ Proof[o].signature => Cash!Required.signature
        BY StrictestIsAsked
      <3>2. /\ Cash!Required.photos > 1 => ev.photos >= Cash!Required.photos
            /\ Cash!Required.signature => ev.signed \/ ev.method = "pin"
        BY <2>2 DEF Cash!Satisfied
      <3>3. Proof[o].photos \in Nat
        OBVIOUS
      <3> QED
        BY <2>2, <3>1, <3>2, <3>3
    <2>4. ev.photos > 0 \/ ev.signed \/ (ev.method = "pin" /\ wrongPins < MAX_PIN)
      BY <2>2 DEF Cash!Satisfied
    <2>5. Cash!HandedOverProperly'
      BY <2>2, <2>3, <2>4 DEF Cash!HandedOverProperly
    <2> QED
      BY <2>2, <2>5 DEF CashInv
  <1> QED
    BY <1>1, <1>2, <1>3, <1>4, <1>5, <1>6, <1>7 DEF Cash!Next

(* A completed drop-off has the money of each of its orders accounted for    *)
(* and proof strong enough for the most demanding of them (complete_stop,     *)
(* assert_cod_settled, assert_proof_satisfied), however cash requests and     *)
(* wrong PINs overlap; no order asks for more photos than some bound.         *)
THEOREM GoodsAgainstMoneyAndProof ==
  ASSUME NEW b \in Nat, \A o \in Carried : Proof[o].photos \in 0..b
  PROVE  Cash!Spec => []Cash!HandedOverProperly
  <1>1. Cash!Init => CashInv
    BY DEF Cash!Init, CashInv, Cash!HandedOverProperly
  <1>2. CashInv /\ [Cash!Next]_Cash!vars => CashInv'
    BY CashStep
  <1>3. CashInv => Cash!HandedOverProperly
    BY DEF CashInv
  <1> QED
    BY <1>1, <1>2, <1>3, PTL DEF Cash!Spec

-----------------------------------------------------------------------------
(* Status webhooks.                                                        *)

Webhooks == INSTANCE StatusWebhooks

SessionOf(h) == [todo |-> h.todo, row |-> h.row, endpoint |-> h.endpoint, loaded |-> h.loaded]

\* What a session has read is committed, and stays so.
Reads(h) ==
  /\ h = SessionOf(h)
  /\ h.todo \subseteq DOMAIN h.row /\ DOMAIN h.row \subseteq Events
  /\ \A e \in DOMAIN h.row : txn[e] = "committed"

NewsInv ==
  /\ DOMAIN txn = Events /\ txn = [e \in Events |-> txn[e]]
  /\ DOMAIN row = Events /\ row = [e \in Events |-> row[e]]
  /\ \A e \in Events : row[e].status \notin {"none", "staged"} => txn[e] = "committed"
  /\ DOMAIN session = Webhooks!Sender /\ session = [s \in Webhooks!Sender |-> session[s]]
  /\ \A s \in Webhooks!Sender : Reads(session[s])
  /\ told \subseteq Events /\ \A e \in told : txn[e] = "committed"

LEMMA ClosedReads == Reads(Webhooks!Closed)
  BY DEF Reads, SessionOf, Webhooks!Closed

\* An attempt goes on with a row its session read, and adds none.
LEMMA AttemptReads ==
  ASSUME Events \subseteq Nat, NewsInv, NEW s \in Webhooks!Sender, NEW answer,
         Webhooks!Attempt(s, answer)
  PROVE  \E e \in DOMAIN session[s].row : \E new, p :
           /\ session' = [session EXCEPT ![s] =
                [todo |-> session[s].todo \ {e}, row |-> [session[s].row EXCEPT ![e] = new],
                 endpoint |-> p, loaded |-> session[s].loaded]]
           /\ told' \in {told, told \cup {e}}
  <1> DEFINE h == session[s]
             e == Webhooks!Min(h.todo)
             went(new, p) == [todo |-> h.todo \ {e}, row |-> [h.row EXCEPT ![e] = new],
                              endpoint |-> p, loaded |-> h.loaded]
  <1>1. Reads(h)
    BY DEF NewsInv
  <1>2. e \in h.todo
    <2>1. h.todo \in SUBSET Nat /\ h.todo # {}
      BY <1>1 DEF Reads, Webhooks!Attempt
    <2>2. PICK x \in h.todo : \A y \in h.todo : x <= y
      BY <2>1, HasLeast
    <2> QED
      BY <2>2 DEF Webhooks!Min
  <1>3. e \in DOMAIN h.row
    BY <1>1, <1>2 DEF Reads
  <1>4. \E new, p : session' = [session EXCEPT ![s] = went(new, p)] /\ told' \in {told, told \cup {e}}
    BY DEF Webhooks!Attempt
  <1> HIDE DEF e
  <1> QED
    BY <1>3, <1>4

\* A step that neither takes back a commit nor opens a session leaves what the
\* sessions read committed.
LEMMA ReadsStay ==
  ASSUME NEW h, Reads(h), \A e \in Events : txn[e] = "committed" => txn'[e] = "committed"
  PROVE  /\ h = SessionOf(h) /\ h.todo \subseteq DOMAIN h.row /\ DOMAIN h.row \subseteq Events
         /\ \A e \in DOMAIN h.row : txn'[e] = "committed"
  BY DEF Reads

LEMMA NewsStep ==
  ASSUME Events \subseteq Nat, NewsInv, [Webhooks!Next]_Webhooks!vars
  PROVE  NewsInv'
  <1>0. ASSUME UNCHANGED session, UNCHANGED told,
               DOMAIN txn' = Events /\ txn' = [e \in Events |-> txn'[e]],
               DOMAIN row' = Events /\ row' = [e \in Events |-> row'[e]],
               \A e \in Events : txn[e] = "committed" => txn'[e] = "committed",
               \A e \in Events : row'[e].status \notin {"none", "staged"} => txn'[e] = "committed"
        PROVE  NewsInv'
    <2>1. ASSUME NEW s \in Webhooks!Sender PROVE Reads(session[s])'
      <3>1. Reads(session[s])
        BY DEF NewsInv
      <3>2. /\ session[s] = SessionOf(session[s])
            /\ session[s].todo \subseteq DOMAIN session[s].row
            /\ DOMAIN session[s].row \subseteq Events
            /\ \A e \in DOMAIN session[s].row : txn'[e] = "committed"
        BY <1>0, <3>1, ReadsStay
      <3>3. session'[s] = session[s]
        BY <1>0
      <3> QED
        BY <3>2, <3>3 DEF Reads, SessionOf
    <2> QED
      BY <1>0, <2>1 DEF NewsInv
  <1>1. CASE UNCHANGED Webhooks!vars
    BY <1>1 DEF NewsInv, Reads, SessionOf, Webhooks!vars
  <1>2. ASSUME NEW e \in Events, Webhooks!Emit(e) PROVE NewsInv'
    BY <1>0, <1>2 DEF NewsInv, Webhooks!Emit
  <1>3. ASSUME NEW e \in Events, Webhooks!Committed(e) PROVE NewsInv'
    BY <1>0, <1>3 DEF NewsInv, Webhooks!Committed
  <1>4. ASSUME NEW e \in Events, Webhooks!RolledBack(e) PROVE NewsInv'
    BY <1>0, <1>4 DEF NewsInv, Webhooks!RolledBack, Webhooks!NoRow
  <1>5. ASSUME NEW s \in Webhooks!Sender, NEW S \in SUBSET Events,
               \A e \in S : row[e].status \notin {"none", "staged"},
               Webhooks!Open(s, S), UNCHANGED <<txn, row, told>>
        PROVE  NewsInv'
    <2> DEFINE h == [todo |-> S, row |-> [e \in S |-> row[e]], endpoint |-> endpoint, loaded |-> endpoint]
    <2>1. session' = [session EXCEPT ![s] = h]
      BY <1>5 DEF Webhooks!Open
    <2>2. /\ h = SessionOf(h) /\ h.todo \subseteq DOMAIN h.row /\ DOMAIN h.row \subseteq Events
          /\ \A e \in DOMAIN h.row : txn[e] = "committed"
      BY <1>5 DEF NewsInv, SessionOf
    <2> HIDE DEF h
    <2>3. \A r \in Webhooks!Sender : session'[r] = IF r = s THEN h ELSE session[r]
      BY <2>1 DEF NewsInv
    <2>4. DOMAIN session' = Webhooks!Sender /\ session' = [r \in Webhooks!Sender |-> session'[r]]
      BY <2>1 DEF NewsInv
    <2>5. \A r \in Webhooks!Sender : Reads(session[r])'
      BY <2>2, <2>3, <1>5 DEF NewsInv, Reads, SessionOf
    <2> QED
      BY <1>5, <2>4, <2>5 DEF NewsInv
  <1>6. ASSUME NEW e \in Events, Webhooks!DeliverNow(e) PROVE NewsInv'
    BY <1>5, <1>6 DEF Webhooks!DeliverNow, Webhooks!Sender
  <1>7. ASSUME NEW e \in Events, Webhooks!NothingToDeliver(e) PROVE NewsInv'
    BY <1>0, <1>7 DEF NewsInv, Webhooks!NothingToDeliver
  <1>8. ASSUME NEW e \in Events, Webhooks!ComesDue(e) PROVE NewsInv'
    BY <1>0, <1>8 DEF NewsInv, Webhooks!ComesDue
  <1>9. CASE Webhooks!Sweep
    BY <1>5, <1>9 DEF Webhooks!Sweep, Webhooks!Sender, Webhooks!Due
  <1>10. ASSUME NEW s \in Webhooks!Sender, NEW answer, Webhooks!Attempt(s, answer)
         PROVE  NewsInv'
    <2>1. PICK e \in DOMAIN session[s].row : \E new, p :
           /\ session' = [session EXCEPT ![s] =
                [todo |-> session[s].todo \ {e}, row |-> [session[s].row EXCEPT ![e] = new],
                 endpoint |-> p, loaded |-> session[s].loaded]]
           /\ told' \in {told, told \cup {e}}
      BY <1>10, AttemptReads
    <2>2. PICK new : \E p :
           /\ session' = [session EXCEPT ![s] =
                [todo |-> session[s].todo \ {e}, row |-> [session[s].row EXCEPT ![e] = new],
                 endpoint |-> p, loaded |-> session[s].loaded]]
           /\ told' \in {told, told \cup {e}}
      BY <2>1
    <2>3. PICK p :
           /\ session' = [session EXCEPT ![s] =
                [todo |-> session[s].todo \ {e}, row |-> [session[s].row EXCEPT ![e] = new],
                 endpoint |-> p, loaded |-> session[s].loaded]]
           /\ told' \in {told, told \cup {e}}
      BY <2>2
    <2> DEFINE h == [todo |-> session[s].todo \ {e}, row |-> [session[s].row EXCEPT ![e] = new],
                     endpoint |-> p, loaded |-> session[s].loaded]
    <2>4. UNCHANGED <<txn, row>>
      BY <1>10 DEF Webhooks!Attempt
    <2>5. Reads(session[s])
      BY DEF NewsInv
    <2>6. /\ h = SessionOf(h) /\ h.todo \subseteq DOMAIN h.row /\ DOMAIN h.row \subseteq Events
          /\ \A f \in DOMAIN h.row : txn[f] = "committed"
      BY <2>5 DEF Reads, SessionOf
    <2>7. session' = [session EXCEPT ![s] = h]
      BY <2>3
    <2> HIDE DEF h
    <2>8. \A r \in Webhooks!Sender : session'[r] = IF r = s THEN h ELSE session[r]
      BY <2>7 DEF NewsInv
    <2>9. DOMAIN session' = Webhooks!Sender /\ session' = [r \in Webhooks!Sender |-> session'[r]]
      BY <2>7 DEF NewsInv
    <2>10. ASSUME NEW r \in Webhooks!Sender PROVE Reads(session[r])'
      <3>1. CASE r = s
        <4>1. session'[r] = h
          BY <2>8, <3>1
        <4> QED
          BY <4>1, <2>4, <2>6 DEF Reads, SessionOf
      <3>2. CASE r # s
        <4>1. session'[r] = session[r] /\ Reads(session[r])
          BY <2>8, <3>2 DEF NewsInv
        <4> QED
          BY <4>1, <2>4 DEF Reads, SessionOf
      <3> QED
        BY <3>1, <3>2
    <2>11. e \in Events /\ txn[e] = "committed"
      BY <2>5 DEF Reads
    <2>12. told' \subseteq Events /\ \A f \in told' : txn'[f] = "committed"
      BY <2>3, <2>4, <2>11 DEF NewsInv
    <2> QED
      BY <2>4, <2>9, <2>10, <2>12 DEF NewsInv
  <1>11. ASSUME NEW s \in Webhooks!Sender, session' = [session EXCEPT ![s] = Webhooks!Closed],
                UNCHANGED <<txn, told>>, DOMAIN row' = Events /\ row' = [e \in Events |-> row'[e]],
                \A e \in Events : row'[e].status \notin {"none", "staged"} => txn[e] = "committed"
         PROVE  NewsInv'
    <2>1. \A r \in Webhooks!Sender : session'[r] = IF r = s THEN Webhooks!Closed ELSE session[r]
      BY <1>11 DEF NewsInv
    <2>2. ASSUME NEW r \in Webhooks!Sender PROVE Reads(session[r])'
      <3>1. CASE r = s
        <4>1. session'[r] = Webhooks!Closed
          BY <2>1, <3>1
        <4> QED
          BY <4>1, <1>11, ClosedReads DEF Reads, SessionOf
      <3>2. CASE r # s
        <4>1. session'[r] = session[r] /\ Reads(session[r])
          BY <2>1, <3>2 DEF NewsInv
        <4> QED
          BY <4>1, <1>11 DEF Reads, SessionOf
      <3> QED
        BY <3>1, <3>2
    <2>3. DOMAIN session' = Webhooks!Sender /\ session' = [r \in Webhooks!Sender |-> session'[r]]
      BY <1>11 DEF NewsInv
    <2> QED
      BY <1>11, <2>2, <2>3 DEF NewsInv
  <1>12. ASSUME NEW s \in Webhooks!Sender, Webhooks!Settle(s) PROVE NewsInv'
    <2>1. row' = [e \in Events |-> IF e \in DOMAIN session[s].row THEN session[s].row[e] ELSE row[e]]
      BY <1>12 DEF Webhooks!Settle
    <2>2. \A e \in Events : row'[e].status \notin {"none", "staged"} => txn[e] = "committed"
      BY <2>1 DEF NewsInv, Reads
    <2> QED
      BY <1>11, <1>12, <2>1, <2>2 DEF Webhooks!Settle
  <1>13. ASSUME NEW s \in Webhooks!Sender, Webhooks!SenderDies(s) PROVE NewsInv'
    BY <1>11, <1>13 DEF NewsInv, Webhooks!SenderDies
  <1>14. CASE Webhooks!SwitchEndpoint
    BY <1>0, <1>14 DEF NewsInv, Webhooks!SwitchEndpoint
  <1> QED
    BY <1>1, <1>2, <1>3, <1>4, <1>6, <1>7, <1>8, <1>9, <1>10, <1>12, <1>13, <1>14 DEF Webhooks!Next

(* A client's server never acknowledges news of a change that did not        *)
(* commit: the sink stages the row in the caller's transaction, and the      *)
(* immediate attempt and the sweep, overlapping and dying anywhere, only     *)
(* ever attempt rows whose transaction had committed when they read them     *)
(* (WebhookStatusSink.emit, deliver_now, deliver_pending).                   *)
THEOREM OnlyCommittedNews ==
  ASSUME Events \subseteq Nat
  PROVE  Webhooks!Spec => []Webhooks!NewsIsCommitted
  <1>1. Webhooks!Init => NewsInv
    BY ClosedReads DEF Webhooks!Init, NewsInv, Webhooks!NoRow, Reads, SessionOf
  <1>2. NewsInv /\ [Webhooks!Next]_Webhooks!vars => NewsInv'
    BY NewsStep
  <1>3. NewsInv => Webhooks!NewsIsCommitted
    BY DEF NewsInv, Webhooks!NewsIsCommitted
  <1> QED
    BY <1>1, <1>2, <1>3, PTL DEF Webhooks!Spec

-----------------------------------------------------------------------------
(* Client accounts.                                                        *)

Accounts == INSTANCE ClientAccounts

\* What may be said of an account whose orders were taken under the versions
\* in V: applied is whether it came through the portal.
Grounded(status, rates, accepted, applied, V) ==
  /\ status = "none" => V = {} /\ ~applied
  /\ V # {} => status # "erased"
  /\ applied => accepted # 0 /\ 0 \notin V
  /\ applied /\ (status = "active" \/ V # {}) => rates # "none"

BasisInv ==
  /\ account = [status |-> account.status, rates |-> account.rates, accepted |-> account.accepted,
                ripe |-> account.ripe, applied |-> account.applied]
  /\ account.applied \in BOOLEAN
  /\ terms.version \in Nat \ {0}
  /\ Grounded(account.status, account.rates, account.accepted, account.applied, ordered)

LEMMA AccountsStep ==
  ASSUME BasisInv, [Accounts!Next]_Accounts!vars
  PROVE  BasisInv'
  <1> USE DEF BasisInv
  <1>1. CASE UNCHANGED Accounts!vars
    BY <1>1 DEF Accounts!vars
  <1>2. ASSUME UNCHANGED <<account, terms, ordered>> PROVE BasisInv'
    BY <1>2
  <1>3. CASE Accounts!SignUp
    BY <1>3 DEF Accounts!SignUp, Grounded
  <1>4. CASE Accounts!Onboard
    BY <1>4 DEF Accounts!Onboard, Accounts!Rates, Grounded
  <1>5. CASE Accounts!NewTerms
    BY <1>5 DEF Accounts!NewTerms
  <1>6. CASE Accounts!PlaceOrder
    BY <1>6 DEF Accounts!PlaceOrder, Grounded
  <1>7. CASE Accounts!SetRate
    BY <1>7 DEF Accounts!SetRate, Grounded
  <1>8. CASE Accounts!Ripens
    BY <1>8 DEF Accounts!Ripens, Grounded
  <1>9. CASE Accounts!Prune
    BY <1>9 DEF Accounts!Prune, Accounts!MustBeAbsent, Grounded
  <1>10. ASSUME NEW o \in Reviewers, Accounts!Decide(o) PROVE BasisInv'
    BY <1>10 DEF Accounts!Decide, Accounts!Decided, Grounded
  <1>11. ASSUME NEW a \in Users, Accounts!AcceptTerms(a) PROVE BasisInv'
    BY <1>11 DEF Accounts!AcceptTerms, Grounded
  <1>12. ASSUME NEW o \in Reviewers, NEW what, Accounts!Consider(o, what) PROVE BasisInv'
    BY <1>2, <1>12 DEF Accounts!Consider
  <1>13. ASSUME NEW a \in Users, NEW u \in Users, Accounts!CreateUser(a, u) PROVE BasisInv'
    BY <1>2, <1>13 DEF Accounts!CreateUser
  <1>14. ASSUME NEW a \in Users, NEW u \in Users, NEW role, NEW active,
                Accounts!ReadUser(a, u, role, active)
         PROVE  BasisInv'
    BY <1>2, <1>14 DEF Accounts!ReadUser
  <1>15. ASSUME NEW a \in Users, Accounts!WriteUser(a) \/ Accounts!SwitchKey(a) PROVE BasisInv'
    BY <1>2, <1>15 DEF Accounts!WriteUser, Accounts!SwitchKey
  <1>16. CASE Accounts!RequestReset(Applicant) \/ Accounts!ConfirmReset(Applicant)
    BY <1>2, <1>16 DEF Accounts!RequestReset, Accounts!ConfirmReset
  <1> HIDE DEF BasisInv
  <1> QED
    BY <1>1, <1>3, <1>4, <1>5, <1>6, <1>7, <1>8, <1>9, <1>10, <1>11, <1>12, <1>13, <1>14, <1>15, <1>16
       DEF Accounts!Next

(* What a client's orders rest on stays, whatever the two administrators     *)
(* with its application open decide and in which order: an account that has  *)
(* ordered is not erased by the retention sweep, and one that applied        *)
(* through the portal never ordered without a rate or under no terms         *)
(* (client_signup, approve_signup, reject_signup, place order,               *)
(* prune_declined_applications).                                             *)
THEOREM OrdersRestOnTerms == Accounts!Spec => []Accounts!OrdersHaveABasis
  <1>1. Accounts!Init => BasisInv
    BY DEF Accounts!Init, BasisInv, Grounded
  <1>2. BasisInv /\ [Accounts!Next]_Accounts!vars => BasisInv'
    BY AccountsStep
  <1>3. BasisInv => Accounts!OrdersHaveABasis
    BY DEF BasisInv, Grounded, Accounts!OrdersHaveABasis
  <1> QED
    BY <1>1, <1>2, <1>3, PTL DEF Accounts!Spec

-----------------------------------------------------------------------------
(* Driver documents.                                                       *)

Papers == INSTANCE Documents

Columns == {"file", "claimed", "verified", "status"}

\* Rows and what requests read of them have their columns.
PapersTypes ==
  /\ day \in Int /\ DOMAIN docs = Required
  /\ \A d \in Required : DOMAIN docs[d] = Columns /\ docs[d].verified \in Int
  /\ DOMAIN open = Phones \cup Admins /\ DOMAIN screen = Admins
  /\ \A p \in Phones \cup Admins : open[p].kind # "idle" =>
       /\ open[p].doc \in Required /\ DOMAIN open[p].read = Columns
       /\ open[p].read.verified \in Int

\* A screen has had every file its document has held since it was opened.
ScreensFollow ==
  \A a \in Admins :
    /\ screen[a] # Papers!Idle =>
         /\ DOMAIN screen[a] = {"doc", "files"} /\ screen[a].doc \in Required
         /\ docs[screen[a].doc].file \in screen[a].files
    /\ open[a].kind = "review" => screen[a] # Papers!Idle /\ screen[a].doc = open[a].doc

\* A verdict on record is answered for: of the file on record, and of every
\* file whose upload read the row before there was a verdict.
VerdictsAnswered ==
  \A d \in Required : docs[d].verified # 0 =>
    /\ <<d, docs[d].file, docs[d].verified>> \in cleared
    /\ \A p \in Phones : open[p].kind = "upload" /\ open[p].doc = d /\ open[p].read.verified = 0 =>
         <<d, open[p].file, docs[d].verified>> \in cleared

PapersInv == PapersTypes /\ ScreensFollow /\ VerdictsAnswered

LEMMA FlushWrites ==
  ASSUME NEW now, NEW read, NEW new, DOMAIN now = Columns
  PROVE  /\ DOMAIN Papers!Flush(now, read, new) = Columns
         /\ Papers!Flush(now, read, new).file = IF new.file # read.file THEN new.file ELSE now.file
         /\ Papers!Flush(now, read, new).verified =
              IF new.verified # read.verified THEN new.verified ELSE now.verified
  BY DEF Papers!Flush, Columns

LEMMA VerdictColumns ==
  ASSUME NEW read, NEW date, DOMAIN read = Columns
  PROVE  /\ Papers!Verdict(read, date).file = read.file
         /\ Papers!Verdict(read, date).verified = date
  BY DEF Papers!Verdict, Columns

LEMMA ReplacedColumns ==
  ASSUME NEW read, NEW f, NEW date
  PROVE  Papers!Replaced(read, f, date).file = f /\ Papers!Replaced(read, f, date).verified = 0
  BY DEF Papers!Replaced, Papers!Null

\* A request reads the row.
LEMMA PapersRead ==
  ASSUME PapersInv, NEW p \in Phones \cup Admins, NEW o, o.doc \in Required,
         o.read = docs[o.doc], open[p] = Papers!Idle, o.kind \in {"upload", "claim", "review"},
         o.kind = "review" => screen[p] # Papers!Idle /\ screen[p].doc = o.doc,
         open' = [open EXCEPT ![p] = o], UNCHANGED <<day, docs, screen, cleared>>
  PROVE  PapersInv'
  <1>1. \A q \in Phones \cup Admins : open'[q] = IF q = p THEN o ELSE open[q]
    BY DEF PapersInv, PapersTypes
  <1>2. PapersTypes'
    BY <1>1 DEF PapersInv, PapersTypes
  <1>3. ScreensFollow'
    BY <1>1 DEF PapersInv, ScreensFollow
  <1>4. VerdictsAnswered'
    BY <1>1 DEF PapersInv, VerdictsAnswered
  <1> QED
    BY <1>2, <1>3, <1>4 DEF PapersInv

\* A request of the driver's writes: the file is another one only if every
\* screen on the document has it and the verdict, if any is left, is answered for.
Rewrites(p, d, r) ==
  /\ docs' = [docs EXCEPT ![d] = r] /\ DOMAIN r = Columns
  /\ r.verified \in {0, docs[d].verified}
  /\ r.verified # 0 => <<d, r.file, r.verified>> \in cleared
  /\ open' = [open EXCEPT ![p] = Papers!Idle] /\ UNCHANGED <<day, cleared>>
  /\ DOMAIN screen' = Admins
  /\ \A a \in Admins : screen[a] = Papers!Idle => screen'[a] = Papers!Idle
  /\ \A a \in Admins : screen[a] # Papers!Idle =>
       /\ DOMAIN screen'[a] = {"doc", "files"} /\ screen'[a].doc = screen[a].doc
       /\ screen[a].files \subseteq screen'[a].files
       /\ screen[a].doc = d => r.file \in screen'[a].files

LEMMA PapersWritten ==
  ASSUME PapersInv, NEW p \in Phones, NEW d \in Required, NEW r, Rewrites(p, d, r)
  PROVE  PapersInv'
  <1> USE DEF Rewrites
  <1>1. \A q \in Phones \cup Admins : open'[q] = IF q = p THEN Papers!Idle ELSE open[q]
    BY DEF PapersInv, PapersTypes
  <1>2. \A c \in Required : docs'[c] = IF c = d THEN r ELSE docs[c]
    BY DEF PapersInv, PapersTypes
  <1>3. r.verified \in Int
    BY DEF PapersInv, PapersTypes
  <1>4. Papers!Idle.kind = "idle" /\ DOMAIN Papers!Idle = {"kind"}
    BY DEF Papers!Idle
  <1>5. PapersTypes'
    BY <1>1, <1>2, <1>3, <1>4 DEF PapersInv, PapersTypes
  <1>6. ScreensFollow'
    <2> SUFFICES ASSUME NEW a \in Admins
                 PROVE  /\ screen'[a] # Papers!Idle =>
                             /\ DOMAIN screen'[a] = {"doc", "files"} /\ screen'[a].doc \in Required
                             /\ docs'[screen'[a].doc].file \in screen'[a].files
                        /\ open'[a].kind = "review" =>
                             screen'[a] # Papers!Idle /\ screen'[a].doc = open'[a].doc
      BY DEF ScreensFollow
    <2>1. CASE screen[a] = Papers!Idle
      BY <1>1, <1>4, <2>1 DEF PapersInv, ScreensFollow
    <2>2. CASE screen[a] # Papers!Idle
      <3>1. /\ screen[a].doc \in Required /\ docs[screen[a].doc].file \in screen[a].files
            /\ open[a].kind = "review" => screen[a].doc = open[a].doc
        BY <2>2 DEF PapersInv, ScreensFollow
      <3>2. /\ DOMAIN screen'[a] = {"doc", "files"} /\ screen'[a].doc = screen[a].doc
            /\ screen[a].files \subseteq screen'[a].files
            /\ screen[a].doc = d => r.file \in screen'[a].files
        BY <2>2
      <3>3. screen'[a] # Papers!Idle
        <4>1. "doc" \in DOMAIN screen'[a] /\ "doc" \notin DOMAIN Papers!Idle
          BY <1>4, <3>2
        <4> QED
          BY <4>1
      <3>4. docs'[screen'[a].doc].file \in screen'[a].files
        BY <1>2, <3>1, <3>2
      <3>5. open'[a].kind = "review" => screen'[a].doc = open'[a].doc
        BY <1>1, <1>4, <3>1, <3>2
      <3> QED
        BY <3>1, <3>2, <3>3, <3>4, <3>5
    <2> QED
      BY <2>1, <2>2
  <1>7. VerdictsAnswered'
    <2> SUFFICES ASSUME NEW c \in Required, docs'[c].verified # 0
                 PROVE  /\ <<c, docs'[c].file, docs'[c].verified>> \in cleared'
                        /\ \A q \in Phones : open'[q].kind = "upload" /\ open'[q].doc = c
                                             /\ open'[q].read.verified = 0 =>
                             <<c, open'[q].file, docs'[c].verified>> \in cleared'
      BY DEF VerdictsAnswered
    <2>1. docs'[c].verified = docs[c].verified
      BY <1>2
    <2>2. <<c, docs'[c].file, docs'[c].verified>> \in cleared'
      BY <1>2, <2>1 DEF PapersInv, VerdictsAnswered
    <2>3. ASSUME NEW q \in Phones, open'[q].kind = "upload", open'[q].doc = c, open'[q].read.verified = 0
          PROVE  <<c, open'[q].file, docs'[c].verified>> \in cleared'
      <3>1. open'[q] = open[q]
        BY <1>1, <1>4, <2>3
      <3>2. open[q].kind = "upload" /\ open[q].doc = c /\ open[q].read.verified = 0
        BY <2>3, <3>1
      <3>3. docs[c].verified # 0
        BY <2>1
      <3>4. <<c, open[q].file, docs[c].verified>> \in cleared
        BY <3>2, <3>3 DEF PapersInv, VerdictsAnswered
      <3>5. cleared' = cleared
        OBVIOUS
      <3> QED
        BY <2>1, <3>1, <3>4, <3>5
    <2> QED
      BY <2>2, <2>3
  <1> QED
    BY <1>5, <1>6, <1>7 DEF PapersInv

LEMMA UploadWritten ==
  ASSUME PapersInv, NEW p \in Phones, Papers!UploadWrites(p)
  PROVE  PapersInv'
  <1> DEFINE o == open[p]
             r == Papers!Flush(docs[o.doc], o.read, Papers!Replaced(o.read, o.file, o.date))
  <1>1. o.kind = "upload" /\ o.doc \in Required
    BY DEF PapersInv, PapersTypes, Papers!UploadWrites
  <1>2. docs' = [docs EXCEPT ![o.doc] = r]
    BY <1>1 DEF Papers!UploadWrites, PapersInv, PapersTypes
  <1>3. /\ DOMAIN r = Columns
        /\ r.file = IF o.file # o.read.file THEN o.file ELSE docs[o.doc].file
        /\ r.verified = IF 0 # o.read.verified THEN 0 ELSE docs[o.doc].verified
    BY <1>1, FlushWrites, ReplacedColumns DEF PapersInv, PapersTypes
  <1>4. open' = [open EXCEPT ![p] = Papers!Idle] /\ UNCHANGED <<day, cleared>> /\ screen' = Papers!Shown(o.doc, o.file)
    BY DEF Papers!UploadWrites
  <1>5. r.verified # 0 => <<o.doc, r.file, r.verified>> \in cleared
    <2> HAVE r.verified # 0
    <2>1. o.read.verified = 0 /\ r.verified = docs[o.doc].verified /\ docs[o.doc].verified # 0
      BY <1>3
    <2>2. <<o.doc, docs[o.doc].file, docs[o.doc].verified>> \in cleared
      BY <1>1, <2>1 DEF PapersInv, VerdictsAnswered
    <2>3. <<o.doc, o.file, docs[o.doc].verified>> \in cleared
      BY <1>1, <2>1 DEF PapersInv, VerdictsAnswered
    <2> QED
      BY <1>3, <2>1, <2>2, <2>3
  <1>6. DOMAIN screen' = Admins
    BY <1>4 DEF Papers!Shown
  <1>7. \A a \in Admins : screen[a] = Papers!Idle => screen'[a] = Papers!Idle
    BY <1>4 DEF Papers!Shown
  <1>8. ASSUME NEW a \in Admins, screen[a] # Papers!Idle
        PROVE  /\ DOMAIN screen'[a] = {"doc", "files"} /\ screen'[a].doc = screen[a].doc
               /\ screen[a].files \subseteq screen'[a].files
               /\ screen[a].doc = o.doc => r.file \in screen'[a].files
    <2>1. DOMAIN screen[a] = {"doc", "files"} /\ docs[screen[a].doc].file \in screen[a].files
      BY <1>8 DEF PapersInv, ScreensFollow
    <2>2. CASE screen[a].doc = o.doc
      <3>1. screen'[a] = [screen[a] EXCEPT !.files = @ \cup {o.file}]
        BY <1>4, <1>8, <2>2 DEF Papers!Shown
      <3>2. /\ DOMAIN screen'[a] = {"doc", "files"} /\ screen'[a].doc = screen[a].doc
            /\ screen'[a].files = screen[a].files \cup {o.file}
        BY <2>1, <3>1
      <3> HIDE DEF r
      <3> QED
        BY <1>3, <2>1, <2>2, <3>2
    <2>3. CASE screen[a].doc # o.doc
      BY <1>4, <2>1, <2>3 DEF Papers!Shown
    <2> QED
      BY <2>2, <2>3
  <1> HIDE DEF o, r
  <1>9. r.verified \in {0, docs[o.doc].verified}
    BY <1>3
  <1>10. Rewrites(p, o.doc, r)
    BY <1>2, <1>3, <1>4, <1>5, <1>6, <1>7, <1>8, <1>9 DEF Rewrites
  <1> QED
    BY <1>1, <1>10, PapersWritten

LEMMA ClaimWritten ==
  ASSUME PapersInv, NEW p \in Phones, Papers!ClaimWrites(p)
  PROVE  PapersInv'
  <1> DEFINE o == open[p]
             new == IF o.read.claimed = o.date THEN o.read ELSE Papers!Replaced(o.read, o.read.file, o.date)
             r == Papers!Flush(docs[o.doc], o.read, new)
  <1>1. o.kind = "claim" /\ o.doc \in Required
    BY DEF PapersInv, PapersTypes, Papers!ClaimWrites
  <1>2. docs' = [docs EXCEPT ![o.doc] = r]
    BY <1>1 DEF Papers!ClaimWrites, PapersInv, PapersTypes
  <1>3. new.file = o.read.file /\ new.verified \in {0, o.read.verified}
    BY ReplacedColumns
  <1> HIDE DEF new
  <1>4. DOMAIN r = Columns /\ r.file = docs[o.doc].file /\ r.verified \in {0, docs[o.doc].verified}
    BY <1>1, <1>3, FlushWrites DEF PapersInv, PapersTypes
  <1>5. open' = [open EXCEPT ![p] = Papers!Idle] /\ UNCHANGED <<day, screen, cleared>>
    BY DEF Papers!ClaimWrites
  <1> HIDE DEF o, r
  <1>6. r.verified # 0 => <<o.doc, r.file, r.verified>> \in cleared
    BY <1>1, <1>4 DEF PapersInv, VerdictsAnswered
  <1>7. DOMAIN screen' = Admins
    BY <1>5 DEF PapersInv, PapersTypes
  <1>8. \A a \in Admins : screen[a] = Papers!Idle => screen'[a] = Papers!Idle
    BY <1>5
  <1>9. ASSUME NEW a \in Admins, screen[a] # Papers!Idle
        PROVE  /\ DOMAIN screen'[a] = {"doc", "files"} /\ screen'[a].doc = screen[a].doc
               /\ screen[a].files \subseteq screen'[a].files
               /\ screen[a].doc = o.doc => r.file \in screen'[a].files
    BY <1>4, <1>5, <1>9 DEF PapersInv, ScreensFollow
  <1>10. Rewrites(p, o.doc, r)
    BY <1>2, <1>4, <1>5, <1>6, <1>7, <1>8, <1>9 DEF Rewrites
  <1> QED
    BY <1>1, <1>10, PapersWritten

LEMMA ReviewWritten ==
  ASSUME PapersInv, Dates \subseteq Nat, NEW a \in Admins, NEW date \in Dates \cup {0},
         Papers!ReviewWrites(a, date)
  PROVE  PapersInv'
  <1> DEFINE o == open[a]
             d == o.doc
             r == Papers!Flush(docs[d], o.read, Papers!Verdict(o.read, date))
             S == screen[a].files \cup
                  {open[p].file : p \in {q \in Phones : open[q].kind = "upload" /\ open[q].doc = d}}
  <1>1. o.kind = "review" /\ d \in Required /\ DOMAIN o.read = Columns
    BY DEF PapersInv, PapersTypes, Papers!ReviewWrites
  <1>2. screen[a] # Papers!Idle /\ screen[a].doc = d /\ docs[d].file \in screen[a].files
    BY <1>1 DEF PapersInv, ScreensFollow
  <1>3. docs' = [docs EXCEPT ![d] = r]
    BY <1>1 DEF Papers!ReviewWrites, PapersInv, PapersTypes
  <1>4. /\ DOMAIN r = Columns /\ r.file = docs[d].file
        /\ r.verified = IF date # o.read.verified THEN date ELSE docs[d].verified
    BY <1>1, FlushWrites, VerdictColumns DEF PapersInv, PapersTypes
  <1>5. cleared' = IF date = 0 THEN cleared ELSE cleared \cup ({d} \X S \X {date})
    BY <1>2 DEF Papers!ReviewWrites, Papers!Overlapping, Papers!Null
  <1>6. /\ open' = [open EXCEPT ![a] = Papers!Idle] /\ screen' = [screen EXCEPT ![a] = Papers!Idle]
        /\ day' = day
    BY DEF Papers!ReviewWrites
  <1>7. date \in Int /\ docs[d].verified \in Int
    <2>1. date \in Nat
      OBVIOUS
    <2>2. docs[d].verified \in Int
      BY <1>1 DEF PapersInv, PapersTypes
    <2> QED
      BY <2>1, <2>2
  <1>8. docs[d].file \in S
    BY <1>2
  <1>9. \A q \in Phones : open[q].kind = "upload" /\ open[q].doc = d => open[q].file \in S
    OBVIOUS
  <1> HIDE DEF o, d, r, S
  <1>10. /\ \A q \in Phones \cup Admins : open'[q] = IF q = a THEN Papers!Idle ELSE open[q]
         /\ \A b \in Admins : screen'[b] = IF b = a THEN Papers!Idle ELSE screen[b]
         /\ \A c \in Required : docs'[c] = IF c = d THEN r ELSE docs[c]
    BY <1>3, <1>6 DEF PapersInv, PapersTypes
  <1>11. Papers!Idle.kind = "idle"
    BY DEF Papers!Idle
  <1>12. r.verified \in Int
    BY <1>4, <1>7
  <1>13. PapersTypes'
    BY <1>3, <1>4, <1>6, <1>10, <1>11, <1>12 DEF PapersInv, PapersTypes
  <1>14. ScreensFollow'
    BY <1>4, <1>10, <1>11, <1>1 DEF PapersInv, ScreensFollow
  <1>15. cleared \subseteq cleared'
    BY <1>5
  <1>16. ASSUME NEW c \in Required, docs'[c].verified # 0
         PROVE  /\ <<c, docs'[c].file, docs'[c].verified>> \in cleared'
                /\ \A q \in Phones : open'[q].kind = "upload" /\ open'[q].doc = c
                                     /\ open'[q].read.verified = 0 =>
                     <<c, open'[q].file, docs'[c].verified>> \in cleared'
    <2>1. \A q \in Phones : open'[q].kind = "upload" => open'[q] = open[q]
      BY <1>10, <1>11
    <2>2. CASE docs'[c].verified = docs[c].verified /\ docs'[c].file = docs[c].file
      <3>1. /\ <<c, docs[c].file, docs[c].verified>> \in cleared
            /\ \A q \in Phones : open[q].kind = "upload" /\ open[q].doc = c
                                 /\ open[q].read.verified = 0 =>
                 <<c, open[q].file, docs[c].verified>> \in cleared
        BY <1>16, <2>2 DEF PapersInv, VerdictsAnswered
      <3> QED
        BY <1>15, <2>1, <2>2, <3>1
    <2>3. CASE c = d /\ docs'[c].verified = date /\ docs'[c].file = docs[d].file
      <3>1. \A f \in S : <<d, f, date>> \in cleared'
        BY <1>5, <1>16, <2>3
      <3> QED
        BY <1>8, <1>9, <2>1, <2>3, <3>1
    <2> QED
      BY <1>4, <1>10, <2>2, <2>3
  <1>17. VerdictsAnswered'
    BY <1>16 DEF VerdictsAnswered
  <1> QED
    BY <1>13, <1>14, <1>17 DEF PapersInv

LEMMA PapersStep ==
  ASSUME Dates \subseteq Nat, PapersInv, [Papers!Next]_Papers!vars
  PROVE  PapersInv'
  <1>1. ASSUME UNCHANGED <<docs, open, screen, cleared>>, day' \in Int PROVE PapersInv'
    BY <1>1 DEF PapersInv, PapersTypes, ScreensFollow, VerdictsAnswered
  <1>2. CASE UNCHANGED Papers!vars
    BY <1>1, <1>2 DEF Papers!vars, PapersInv, PapersTypes
  <1>3. CASE Papers!Tick
    BY <1>1, <1>3 DEF Papers!Tick, PapersInv, PapersTypes
  <1>4. ASSUME NEW p \in Phones, NEW d \in Required, NEW date, Papers!UploadReads(p, d, date)
        PROVE  PapersInv'
    <2> DEFINE o == [kind |-> "upload", doc |-> d, read |-> docs[d], file |-> files + 1, date |-> date]
    <2>1. open[p] = Papers!Idle /\ open' = [open EXCEPT ![p] = o] /\ UNCHANGED <<day, docs, screen, cleared>>
      BY <1>4 DEF Papers!UploadReads
    <2>2. o.kind = "upload" /\ o.doc = d /\ o.read = docs[d]
      OBVIOUS
    <2> HIDE DEF o
    <2> QED
      BY <2>1, <2>2, PapersRead
  <1>5. ASSUME NEW p \in Phones, NEW d \in Required, NEW date, Papers!ClaimReads(p, d, date)
        PROVE  PapersInv'
    <2> DEFINE o == [kind |-> "claim", doc |-> d, read |-> docs[d], date |-> date]
    <2>1. open[p] = Papers!Idle /\ open' = [open EXCEPT ![p] = o] /\ UNCHANGED <<day, docs, screen, cleared>>
      BY <1>5 DEF Papers!ClaimReads
    <2>2. o.kind = "claim" /\ o.doc = d /\ o.read = docs[d]
      OBVIOUS
    <2> HIDE DEF o
    <2> QED
      BY <2>1, <2>2, PapersRead
  <1>6. ASSUME NEW a \in Admins, Papers!ReviewReads(a) PROVE PapersInv'
    <2> DEFINE d == screen[a].doc
               o == [kind |-> "review", doc |-> d, read |-> docs[d]]
    <2>1. open[a] = Papers!Idle /\ open' = [open EXCEPT ![a] = o] /\ UNCHANGED <<day, docs, screen, cleared>>
      BY <1>6 DEF Papers!ReviewReads
    <2>2. screen[a] # Papers!Idle /\ d \in Required
      BY <1>6 DEF Papers!ReviewReads, PapersInv, ScreensFollow
    <2>3. o.kind = "review" /\ o.doc = d /\ o.read = docs[d]
      OBVIOUS
    <2>4. o.doc = screen[a].doc
      BY <2>3
    <2> HIDE DEF o, d
    <2> QED
      BY <2>1, <2>2, <2>3, <2>4, PapersRead
  <1>7. ASSUME NEW a \in Admins, NEW d \in Required, Papers!Look(a, d) PROVE PapersInv'
    <2> DEFINE s == [doc |-> d, files |-> {docs[d].file}]
    <2>1. open[a] = Papers!Idle /\ screen' = [screen EXCEPT ![a] = s] /\ UNCHANGED <<day, docs, open, cleared>>
      BY <1>7 DEF Papers!Look
    <2>2. DOMAIN s = {"doc", "files"} /\ s.doc = d /\ docs[d].file \in s.files
      OBVIOUS
    <2> HIDE DEF s
    <2>3. Papers!Idle.kind = "idle"
      BY DEF Papers!Idle
    <2>4. \A b \in Admins : screen'[b] = IF b = a THEN s ELSE screen[b]
      BY <2>1 DEF PapersInv, PapersTypes
    <2>5. PapersTypes'
      BY <2>1 DEF PapersInv, PapersTypes
    <2>6. ScreensFollow'
      BY <2>1, <2>2, <2>3, <2>4 DEF PapersInv, ScreensFollow
    <2>7. VerdictsAnswered'
      BY <2>1 DEF PapersInv, VerdictsAnswered
    <2> QED
      BY <2>5, <2>6, <2>7 DEF PapersInv
  <1>8. ASSUME NEW a \in Admins, NEW date \in Dates \cup {Papers!Null}, Papers!ReviewWrites(a, date)
        PROVE  PapersInv'
    BY <1>8, ReviewWritten DEF Papers!Null
  <1>9. ASSUME NEW p \in Phones, Papers!UploadWrites(p) \/ Papers!ClaimWrites(p) PROVE PapersInv'
    BY <1>9, UploadWritten, ClaimWritten
  <1> QED
    BY <1>2, <1>3, <1>4, <1>5, <1>6, <1>7, <1>8, <1>9 DEF Papers!Next

(* A driver goes on shift (update_my_availability) only on documents whose   *)
(* expiry date is an administrator's and is not past, although uploads,      *)
(* claims and reviews each read a row and later write back only the columns  *)
(* they changed: the date on record was given for the file on record, or     *)
(* while that file was replacing the one reviewed.                           *)
THEOREM ShiftsOnClearedPapers ==
  ASSUME Dates \subseteq Nat
  PROVE  Papers!Spec => []Papers!ShiftsAreCleared
  <1>1. Papers!Init => PapersInv
    <2> SUFFICES ASSUME Papers!Init PROVE PapersInv
      OBVIOUS
    <2> USE DEF Papers!Init, Papers!NoRow, Papers!Null, Papers!Idle
    <2>1. PapersTypes
      BY DEF PapersTypes, Columns
    <2>2. ScreensFollow
      BY DEF ScreensFollow
    <2>3. VerdictsAnswered
      BY DEF VerdictsAnswered
    <2> QED
      BY <2>1, <2>2, <2>3 DEF PapersInv
  <1>2. PapersInv /\ [Papers!Next]_Papers!vars => PapersInv'
    BY PapersStep
  <1>3. PapersInv => Papers!ShiftsAreCleared
    <2> SUFFICES ASSUME PapersInv, Papers!can_go_on_shift, NEW d \in Required
                 PROVE  /\ docs[d].verified >= day
                        /\ <<d, docs[d].file, docs[d].verified>> \in cleared
      BY DEF Papers!ShiftsAreCleared
    <2>1. Papers!Problem(d) = "none"
      BY DEF Papers!can_go_on_shift
    <2>2. docs[d].verified # 0 /\ ~Papers!Expired(d)
      BY <2>1 DEF Papers!Problem, Papers!Null
    <2>3. docs[d].verified \in Int /\ day \in Int
      BY DEF PapersInv, PapersTypes
    <2>4. docs[d].verified >= day
      BY <2>2, <2>3 DEF Papers!Expired
    <2> QED
      BY <2>2, <2>4 DEF PapersInv, VerdictsAnswered
  <1> QED
    BY <1>1, <1>2, <1>3, PTL DEF Papers!Spec

-----------------------------------------------------------------------------
(* Settlement.                                                             *)

Settle == INSTANCE Settlement

BasesFine ==
  /\ Len(bases) \in Nat /\ DOMAIN bases = 1..Len(bases)
  /\ \A v \in DOMAIN bases : /\ DOMAIN bases[v] = {"inputs", "costs", "signed", "live"}
                             /\ bases[v].signed \subseteq Settle!Sides

\* A run that holds a basis read it among those in B, with signatures it still has.
RunFine(x, B) ==
  /\ "at" \in DOMAIN x
  /\ x.at \in {"read", "issuing", "issued"} =>
       /\ DOMAIN x = {"at", "wrote", "costs", "inputs", "basis", "signed"}
       /\ x.basis \in {0} \cup DOMAIN B
  /\ x.at \in {"read", "issued"} /\ x.basis # 0 => x.signed \subseteq B[x.basis].signed

PapersFine(P, B) ==
  \A p \in P : /\ p.version \in DOMAIN B /\ B[p.version].signed = Settle!Sides
               /\ B[p.version].costs = p.costs /\ B[p.version].inputs = p.inputs

SettleInv ==
  /\ BasesFine
  /\ DOMAIN run = Runs /\ \A r \in Runs : RunFine(run[r], bases)
  /\ DOMAIN signing = Settle!Sides /\ \A s \in Settle!Sides : signing[s] \in {0} \cup DOMAIN bases
  /\ PapersFine(papers, bases)

\* An issued basis keeps its definition and its costs, and only gains signatures.
Kept(B, C) ==
  \A v \in DOMAIN B :
    /\ v \in DOMAIN C /\ C[v].inputs = B[v].inputs /\ C[v].costs = B[v].costs
    /\ B[v].signed \subseteq C[v].signed /\ C[v].signed \subseteq Settle!Sides

LEMMA StillFine ==
  ASSUME NEW B, NEW C, Kept(B, C)
  PROVE  /\ \A x : RunFine(x, B) => RunFine(x, C)
         /\ \A P : PapersFine(P, B) => PapersFine(P, C)
  <1>1. ASSUME NEW x, RunFine(x, B) PROVE RunFine(x, C)
    BY <1>1 DEF RunFine, Kept
  <1>2. ASSUME NEW P, PapersFine(P, B) PROVE PapersFine(P, C)
    BY <1>2 DEF PapersFine, Kept
  <1> QED
    BY <1>1, <1>2

LEMMA SameKept ==
  ASSUME BasesFine PROVE Kept(bases, bases)
  BY DEF BasesFine, Kept

\* One run moves on and nothing is issued or signed.
LEMMA RunMoves ==
  ASSUME SettleInv, NEW r \in Runs, NEW x, RunFine(x, bases), run' = [run EXCEPT ![r] = x],
         UNCHANGED <<bases, signing>>, PapersFine(papers', bases)
  PROVE  SettleInv'
  <1>1. DOMAIN run' = Runs /\ \A q \in Runs : RunFine(run'[q], bases)
    BY DEF SettleInv
  <1> QED
    BY <1>1 DEF SettleInv, BasesFine

LEMMA IssueFine ==
  ASSUME SettleInv, NEW r \in Runs, Settle!IssueCommit(r)
  PROVE  SettleInv'
  <1> DEFINE n == Len(bases)
             old == [v \in DOMAIN bases |-> [bases[v] EXCEPT !.live = @ /\ v # run[r].basis]]
             b == [inputs |-> run[r].inputs, costs |-> run[r].costs, signed |-> {}, live |-> TRUE]
             S == {old[v] : v \in DOMAIN bases} \cup {b}
  <1>1. n \in Nat /\ DOMAIN bases = 1..n
    BY DEF SettleInv, BasesFine
  <1>2. bases' = Append(old, b)
    BY DEF Settle!IssueCommit
  <1>3. \A v \in 1..n : /\ DOMAIN old[v] = DOMAIN bases[v]
                        /\ old[v].inputs = bases[v].inputs /\ old[v].costs = bases[v].costs
                        /\ old[v].signed = bases[v].signed
    BY <1>1 DEF SettleInv, BasesFine
  <1>4. DOMAIN b = {"inputs", "costs", "signed", "live"} /\ b.signed = {}
    OBVIOUS
  <1>5. DOMAIN old = 1..n /\ \A v \in 1..n : old[v] \in S
    BY <1>1
  <1>6. old \in [1..n -> S] /\ b \in S
    BY <1>1
  <1> HIDE DEF old, b, S
  <1>7. old \in Seq(S) /\ Len(old) = n
    BY <1>1, <1>5, <1>6
  <1>8. /\ Len(bases') = n + 1 /\ DOMAIN bases' = 1..(n + 1) /\ bases'[n + 1] = b
        /\ \A v \in 1..n : bases'[v] = old[v]
    BY <1>1, <1>2, <1>6, <1>7
  <1>9. Kept(bases, bases')
    BY <1>1, <1>3, <1>8 DEF Kept, SettleInv, BasesFine
  <1>10. BasesFine'
    <2> HIDE DEF n
    <2>1. \A v \in 1..(n + 1) : v \in 1..n \/ v = n + 1
      BY <1>1
    <2>2. \A v \in 1..(n + 1) : /\ DOMAIN bases'[v] = {"inputs", "costs", "signed", "live"}
                                /\ bases'[v].signed \subseteq Settle!Sides
      BY <1>1, <1>3, <1>4, <1>8, <2>1 DEF SettleInv, BasesFine
    <2> QED
      BY <1>1, <1>8, <2>2 DEF BasesFine
  <1> DEFINE x == [run[r] EXCEPT !.at = "issued", !.basis = n + 1, !.signed = {}]
  <1>11. run[r].at = "issuing" /\ RunFine(run[r], bases)
    BY DEF Settle!IssueCommit, SettleInv
  <1>12. DOMAIN run[r] = {"at", "wrote", "costs", "inputs", "basis", "signed"}
    BY <1>11 DEF RunFine
  <1>13. DOMAIN x = DOMAIN run[r] /\ x.at = "issued" /\ x.basis = n + 1 /\ x.signed = {}
    BY <1>12
  <1>14. run' = [run EXCEPT ![r] = x]
    BY DEF Settle!IssueCommit, SettleInv
  <1> HIDE DEF x
  <1>15. RunFine(x, bases')
    BY <1>1, <1>8, <1>12, <1>13 DEF RunFine
  <1>16. DOMAIN run' = Runs /\ \A q \in Runs : RunFine(run'[q], bases')
    BY <1>9, <1>14, <1>15, StillFine DEF SettleInv
  <1>17. UNCHANGED <<signing, papers>>
    BY DEF Settle!IssueCommit
  <1>18. PapersFine(papers, bases')
    BY <1>9, StillFine DEF SettleInv
  <1>19. \A s \in Settle!Sides : signing[s] \in {0} \cup DOMAIN bases'
    BY <1>9 DEF SettleInv, Kept
  <1> QED
    BY <1>10, <1>16, <1>17, <1>18, <1>19 DEF SettleInv

LEMMA SignFine ==
  ASSUME SettleInv, NEW s \in Settle!Sides, Settle!SignCommit(s)
  PROVE  SettleInv'
  <1> DEFINE w == signing[s]
             b == [bases[w] EXCEPT !.signed = @ \cup {s}]
  <1>1. w \in DOMAIN bases /\ bases' = [bases EXCEPT ![w] = b]
    BY DEF Settle!SignCommit, SettleInv
  <1>2. /\ DOMAIN b = {"inputs", "costs", "signed", "live"} /\ b.inputs = bases[w].inputs
        /\ b.costs = bases[w].costs /\ b.signed = bases[w].signed \cup {s}
    BY <1>1 DEF SettleInv, BasesFine
  <1> HIDE DEF b
  <1>3. \A v \in DOMAIN bases : bases'[v] = IF v = w THEN b ELSE bases[v]
    BY <1>1
  <1>4. DOMAIN bases' = DOMAIN bases
    BY <1>1
  <1>5. bases[w].signed \cup {s} \subseteq Settle!Sides
    BY <1>1 DEF SettleInv, BasesFine
  <1>6. Kept(bases, bases')
    BY <1>2, <1>3, <1>4, <1>5 DEF Kept, SettleInv, BasesFine
  <1>7. Len(bases') = Len(bases)
    BY <1>1
  <1>8. BasesFine'
    BY <1>2, <1>3, <1>4, <1>5, <1>7 DEF SettleInv, BasesFine
  <1>9. UNCHANGED <<run, papers>> /\ signing' = [signing EXCEPT ![s] = 0]
    BY DEF Settle!SignCommit
  <1>10. (\A r \in Runs : RunFine(run[r], bases')) /\ PapersFine(papers, bases')
    BY <1>6, StillFine DEF SettleInv
  <1> QED
    BY <1>4, <1>8, <1>9, <1>10 DEF SettleInv

LEMMA SettleStep ==
  ASSUME SettleInv, [Settle!Next]_Settle!vars
  PROVE  SettleInv'
  <1>1. ASSUME UNCHANGED <<bases, run, signing, papers>> PROVE SettleInv'
    BY <1>1 DEF SettleInv, BasesFine
  <1>2. CASE UNCHANGED Settle!vars
    BY <1>1, <1>2 DEF Settle!vars
  <1>3. ASSUME NEW w \in Worlds, Settle!Correct(w) PROVE SettleInv'
    BY <1>1, <1>3 DEF Settle!Correct
  <1>4. CASE Settle!ChangeExclusions
    BY <1>1, <1>4 DEF Settle!ChangeExclusions
  <1>0. PapersFine(papers, bases)
    BY DEF SettleInv
  <1>5. ASSUME NEW r \in Runs, NEW c, Settle!Begin(r, c) PROVE SettleInv'
    <2> DEFINE x == [at |-> "costing", wrote |-> run[r].wrote, day |-> 1, new |-> {}, recompute |-> c]
    <2>1. RunFine(x, bases)
      BY DEF RunFine
    <2>2. run' = [run EXCEPT ![r] = x] /\ UNCHANGED <<bases, signing, papers>>
      BY <1>5 DEF Settle!Begin
    <2> HIDE DEF x
    <2> QED
      BY <1>0, <2>1, <2>2, RunMoves
  <1>6. ASSUME NEW r \in Runs, Settle!CostDay(r) PROVE SettleInv'
    <2>1. run[r].at = "costing" /\ UNCHANGED <<bases, signing, papers>>
      BY <1>6 DEF Settle!CostDay
    <2>2. \E a, c, d, e : run' = [run EXCEPT ![r] =
                             [at |-> "costing", wrote |-> a, day |-> c, new |-> d, recompute |-> e]]
      BY <1>6 DEF Settle!CostDay
    <2>3. PICK a, c, d, e : run' = [run EXCEPT ![r] =
                             [at |-> "costing", wrote |-> a, day |-> c, new |-> d, recompute |-> e]]
      BY <2>2
    <2> DEFINE x == [at |-> "costing", wrote |-> a, day |-> c, new |-> d, recompute |-> e]
    <2>4. RunFine(x, bases)
      BY DEF RunFine
    <2>5. run' = [run EXCEPT ![r] = x]
      BY <2>3
    <2> HIDE DEF x
    <2> QED
      BY <1>0, <2>1, <2>4, <2>5, RunMoves
  <1>7. ASSUME NEW r \in Runs, Settle!CommitCosts(r) PROVE SettleInv'
    <2> DEFINE x == [at |-> "costed", wrote |-> run[r].wrote]
    <2>1. RunFine(x, bases)
      BY DEF RunFine
    <2>2. run' = [run EXCEPT ![r] = x] /\ UNCHANGED <<bases, signing, papers>>
      BY <1>7 DEF Settle!CommitCosts
    <2> HIDE DEF x
    <2> QED
      BY <1>0, <2>1, <2>2, RunMoves
  <1>8. ASSUME NEW r \in Runs, Settle!Build(r) PROVE SettleInv'
    <2>1. PICK c : run' = [run EXCEPT ![r] = [at |-> "built", wrote |-> run[r].wrote,
                                              costs |-> c, inputs |-> Settle!Definition(c)]]
      BY <1>8 DEF Settle!Build
    <2> DEFINE x == [at |-> "built", wrote |-> run[r].wrote, costs |-> c, inputs |-> Settle!Definition(c)]
    <2>2. RunFine(x, bases)
      BY DEF RunFine
    <2>3. run' = [run EXCEPT ![r] = x] /\ UNCHANGED <<bases, signing, papers>>
      BY <1>8, <2>1 DEF Settle!Build
    <2> HIDE DEF x
    <2> QED
      BY <1>0, <2>2, <2>3, RunMoves
  <1>9. Settle!LiveOrNone \subseteq {0} \cup DOMAIN bases
    BY DEF Settle!LiveOrNone, Settle!LiveBases
  <1>10. ASSUME NEW r \in Runs, Settle!ReadBasis(r) PROVE SettleInv'
    <2> DEFINE x(v) == [at |-> "read", wrote |-> run[r].wrote, costs |-> run[r].costs, inputs |-> run[r].inputs,
                        basis |-> v, signed |-> IF v = 0 THEN {} ELSE bases[v].signed]
    <2>1. PICK v \in Settle!LiveOrNone : run' = [run EXCEPT ![r] = x(v)]
      BY <1>10 DEF Settle!ReadBasis
    <2>2. /\ DOMAIN x(v) = {"at", "wrote", "costs", "inputs", "basis", "signed"} /\ x(v).at = "read"
          /\ x(v).basis = v /\ (v # 0 => x(v).signed = bases[v].signed)
      OBVIOUS
    <2> HIDE DEF x
    <2>3. RunFine(x(v), bases)
      BY <1>9, <2>2 DEF RunFine
    <2>4. UNCHANGED <<bases, signing, papers>>
      BY <1>10 DEF Settle!ReadBasis
    <2> QED
      BY <1>0, <2>1, <2>3, <2>4, RunMoves
  <1>11. ASSUME NEW r \in Runs, Settle!IssueRead(r) PROVE SettleInv'
    <2>1. run[r].at = "read" /\ UNCHANGED <<bases, signing, papers>>
      BY <1>11 DEF Settle!IssueRead
    <2>2. /\ DOMAIN run[r] = {"at", "wrote", "costs", "inputs", "basis", "signed"}
          /\ run[r].basis # 0 => run[r].signed \subseteq bases[run[r].basis].signed
      BY <2>1 DEF SettleInv, RunFine
    <2> DEFINE x(v) == [run[r] EXCEPT !.at = "issued", !.basis = v,
                                      !.signed = IF v = run[r].basis THEN @ ELSE bases[v].signed]
               y(v) == [run[r] EXCEPT !.at = "issuing", !.basis = v]
    <2>3. PICK v \in Settle!LiveOrNone : \/ v # 0 /\ run' = [run EXCEPT ![r] = x(v)]
                                         \/ run' = [run EXCEPT ![r] = y(v)]
      BY <1>11 DEF Settle!IssueRead, SettleInv
    <2>4. /\ DOMAIN x(v) = {"at", "wrote", "costs", "inputs", "basis", "signed"} /\ x(v).at = "issued"
          /\ x(v).basis = v /\ x(v).signed = IF v = run[r].basis THEN run[r].signed ELSE bases[v].signed
      BY <2>2
    <2>5. /\ DOMAIN y(v) = {"at", "wrote", "costs", "inputs", "basis", "signed"} /\ y(v).at = "issuing"
          /\ y(v).basis = v
      BY <2>2
    <2> HIDE DEF x, y
    <2>6. RunFine(x(v), bases)
      BY <1>9, <2>2, <2>4 DEF RunFine
    <2>7. RunFine(y(v), bases)
      BY <1>9, <2>5 DEF RunFine
    <2> QED
      BY <1>0, <2>1, <2>3, <2>6, <2>7, RunMoves
  <1>12. ASSUME NEW r \in Runs, Settle!Write(r) PROVE SettleInv'
    <2> DEFINE x == [at |-> "idle", wrote |-> run[r].wrote]
               v == run[r].basis
               p == [version |-> v, inputs |-> run[r].inputs, costs |-> run[r].costs]
    <2>1. run' = [run EXCEPT ![r] = x] /\ UNCHANGED <<bases, signing>> /\ run[r].at \in {"read", "issued"}
      BY <1>12 DEF Settle!Write
    <2>2. RunFine(x, bases)
      BY DEF RunFine
    <2>3. \/ papers' = papers
          \/ /\ v # 0 /\ run[r].signed = Settle!Sides
             /\ bases[v].inputs = run[r].inputs /\ bases[v].costs = run[r].costs
             /\ papers' = papers \cup {p}
      BY <1>12 DEF Settle!Write, Settle!Agreed, Settle!Reproduces
    <2>4. RunFine(run[r], bases) /\ BasesFine
      BY DEF SettleInv
    <2>5. v # 0 /\ run[r].signed = Settle!Sides => v \in DOMAIN bases /\ bases[v].signed = Settle!Sides
      BY <2>1, <2>4 DEF RunFine, BasesFine
    <2>6. p.version = v /\ p.inputs = run[r].inputs /\ p.costs = run[r].costs
      OBVIOUS
    <2> HIDE DEF x, v, p
    <2>7. PapersFine(papers', bases)
      BY <1>0, <2>3, <2>5, <2>6 DEF PapersFine
    <2> QED
      BY <2>1, <2>2, <2>7, RunMoves
  <1>13. ASSUME NEW s \in Settle!Sides, Settle!SignRead(s) PROVE SettleInv'
    <2>1. PICK v \in DOMAIN bases : signing' = [signing EXCEPT ![s] = v]
      BY <1>13 DEF Settle!SignRead, Settle!LiveBases
    <2> QED
      BY <1>13, <2>1 DEF Settle!SignRead, SettleInv, BasesFine
  <1> QED
    BY <1>2, <1>3, <1>4, <1>5, <1>6, <1>7, <1>8, <1>10, <1>11, <1>12, <1>13, IssueFine, SignFine
       DEF Settle!Next

(* A figure on a final paper is one both sides signed: a basis once issued   *)
(* keeps its definition and its costs, a run's copy of its signatures is     *)
(* never ahead of the row, and require_agreed and reproduce are both asked,  *)
(* however runs, corrections and signatures overlap (app/settle).            *)
THEOREM FinalPapersAreSigned == Settle!Spec => []Settle!FinalIsAgreed
  <1>1. Settle!Init => SettleInv
    <2> SUFFICES ASSUME Settle!Init PROVE SettleInv
      OBVIOUS
    <2>1. bases = <<>> /\ papers = {} /\ run = [r \in Runs |-> Settle!Idle]
          /\ signing = [s \in Settle!Sides |-> 0]
      BY DEF Settle!Init
    <2>2. BasesFine
      BY <2>1 DEF BasesFine
    <2>3. \A r \in Runs : RunFine(run[r], bases)
      BY <2>1 DEF RunFine, Settle!Idle
    <2> QED
      BY <2>1, <2>2, <2>3 DEF SettleInv, PapersFine
  <1>2. SettleInv /\ [Settle!Next]_Settle!vars => SettleInv'
    BY SettleStep
  <1>3. SettleInv => Settle!FinalIsAgreed
    BY DEF SettleInv, PapersFine, Settle!FinalIsAgreed
  <1> QED
    BY <1>1, <1>2, <1>3, PTL DEF Settle!Spec

-----------------------------------------------------------------------------
(* Shadow mode.                                                            *)

Shade == INSTANCE Shadow

Plans(p) == Shade!Works(p)
Working == {"planning", "marking", "unlocking"}

\* The lock has not expired, and until a cycle has outlived it the one that
\* plans holds it.
ShadeInv ==
  /\ clock \in Nat /\ lock \in Nat /\ (lock = 0 \/ lock > clock)
  /\ DOMAIN proc = Procs /\ \A p \in Procs : "step" \in DOMAIN proc[p]
  /\ overran \in BOOLEAN
  /\ ~overran => \A p \in Procs : Plans(p) => lock # 0 /\ \A q \in Procs : Plans(q) => p = q

\* A process stops working, and may give the lock back.
LEMMA StopsPlanning ==
  ASSUME ShadeInv, NEW p \in Procs, NEW x, "step" \in DOMAIN x, x.step \notin Working,
         proc' = [proc EXCEPT ![p] = x], UNCHANGED <<clock, overran>>,
         lock' = lock \/ (Plans(p) /\ lock' = 0)
  PROVE  ShadeInv'
  <1>1. \A q \in Procs : proc'[q] = IF q = p THEN x ELSE proc[q]
    BY DEF ShadeInv
  <1>2. \A q \in Procs : Plans(q)' => q # p /\ Plans(q)
    BY <1>1 DEF Plans, Shade!Works, Working
  <1>3. ~overran => \A q \in Procs : Plans(q)' => lock' # 0 /\ \A o \in Procs : Plans(o)' => q = o
    BY <1>2 DEF ShadeInv
  <1>4. \A q \in Procs : "step" \in DOMAIN proc'[q]
    BY <1>1 DEF ShadeInv
  <1>5. DOMAIN proc' = Procs
    BY DEF ShadeInv
  <1>6. lock' \in Nat /\ (lock' = 0 \/ lock' > clock)
    BY DEF ShadeInv
  <1> QED
    BY <1>3, <1>4, <1>5, <1>6 DEF ShadeInv

\* A process gets on with its cycle.
LEMMA GetsOn ==
  ASSUME ShadeInv, NEW p \in Procs, NEW x, "step" \in DOMAIN x, Plans(p),
         proc' = [proc EXCEPT ![p] = x], UNCHANGED <<clock, overran, lock>>
  PROVE  ShadeInv'
  <1>1. \A q \in Procs : proc'[q] = IF q = p THEN x ELSE proc[q]
    BY DEF ShadeInv
  <1>2. \A q \in Procs : Plans(q)' => Plans(q)
    BY <1>1 DEF Plans, Shade!Works
  <1>3. ~overran => \A q \in Procs : Plans(q)' => lock' # 0 /\ \A o \in Procs : Plans(o)' => q = o
    BY <1>2 DEF ShadeInv
  <1>4. \A q \in Procs : "step" \in DOMAIN proc'[q]
    BY <1>1 DEF ShadeInv
  <1> QED
    BY <1>3, <1>4 DEF ShadeInv

LEMMA ShadeStep ==
  ASSUME LOCK_TTL \in Nat \ {0}, ShadeInv, [Shade!Next]_Shade!vars
  PROVE  ShadeInv'
  <1>0. Shade!Idle.step \notin Working /\ "step" \in DOMAIN Shade!Idle
    BY DEF Shade!Idle, Working
  <1>1. ASSUME UNCHANGED <<clock, lock, proc, overran>> PROVE ShadeInv'
    BY <1>1 DEF ShadeInv, Plans, Shade!Works
  <1>2. CASE UNCHANGED Shade!vars
    BY <1>1, <1>2 DEF Shade!vars
  <1>3. ASSUME NEW o, NEW d, NEW own, Shade!Dispatch(o, d, own) PROVE ShadeInv'
    BY <1>1, <1>3 DEF Shade!Dispatch
  <1>4. CASE Shade!Tick
    <2>1. clock' = clock + 1 /\ lock' = (IF lock <= clock + 1 THEN 0 ELSE lock) /\ UNCHANGED proc
      BY <1>4 DEF Shade!Tick, Shade!Never
    <2>2. overran' = (overran \/ (lock = clock + 1 /\ \E p \in Procs : Plans(p)))
      BY <1>4 DEF Shade!Tick, Plans
    <2>3. clock' \in Nat /\ lock' \in Nat /\ (lock' = 0 \/ lock' > clock')
      BY <2>1 DEF ShadeInv
    <2>4. overran' \in BOOLEAN /\ (~overran' => ~overran)
      BY <2>2 DEF ShadeInv
    <2>5. ASSUME ~overran', NEW p \in Procs, Plans(p)
          PROVE  lock' # 0 /\ \A q \in Procs : Plans(q) => p = q
      <3>1. ~overran /\ lock # clock + 1
        BY <2>2, <2>5, Zenon
      <3>2. lock # 0 /\ \A q \in Procs : Plans(q) => p = q
        BY <2>5, <3>1 DEF ShadeInv
      <3>3. lock' # 0
        BY <2>1, <3>1, <3>2 DEF ShadeInv
      <3> QED
        BY <3>2, <3>3
    <2>6. \A p : Plans(p)' <=> Plans(p)
      BY <2>1 DEF Plans, Shade!Works
    <2>7. ~overran' => \A p \in Procs : Plans(p)' => lock' # 0 /\ \A q \in Procs : Plans(q)' => p = q
      BY <2>5, <2>6
    <2> QED
      BY <2>1, <2>3, <2>4, <2>7 DEF ShadeInv
  <1>5. ASSUME NEW p \in Procs, Shade!Check(p) PROVE ShadeInv'
    <2> DEFINE x == [step |-> "due", now |-> clock]
    <2>1. "step" \in DOMAIN x /\ x.step \notin Working
      BY DEF Working
    <2>2. proc' = [proc EXCEPT ![p] = x] /\ UNCHANGED <<clock, overran, lock>>
      BY <1>5 DEF Shade!Check
    <2> HIDE DEF x
    <2> QED
      BY <2>1, <2>2, StopsPlanning
  <1>6. ASSUME NEW p \in Procs, Shade!Acquire(p) PROVE ShadeInv'
    <2>1. CASE lock # 0
      BY <1>0, <1>6, <2>1, StopsPlanning DEF Shade!Acquire, Shade!LockFree, Shade!Never
    <2>2. CASE lock = 0
      <3> DEFINE x == [proc[p] EXCEPT !.step = "planning"]
      <3>1. /\ lock' = clock + LOCK_TTL /\ UNCHANGED <<clock, overran>>
            /\ proc' = [proc EXCEPT ![p] = x]
        BY <1>6, <2>2 DEF Shade!Acquire, Shade!LockFree, Shade!Never, ShadeInv
      <3>2. "step" \in DOMAIN x
        BY DEF ShadeInv
      <3> HIDE DEF x
      <3>3. \A q \in Procs : proc'[q] = IF q = p THEN x ELSE proc[q]
        BY <3>1 DEF ShadeInv
      <3>4. ~overran => \A q \in Procs : ~Plans(q)
        BY <2>2 DEF ShadeInv
      <3>5. \A q \in Procs : q # p => (Plans(q)' <=> Plans(q))
        BY <3>3 DEF Plans, Shade!Works
      <3>6. lock' \in Nat /\ lock' > clock
        BY <3>1 DEF ShadeInv
      <3>7. ~overran => \A o \in Procs : Plans(o)' => lock' # 0 /\ \A q \in Procs : Plans(q)' => o = q
        BY <3>4, <3>5, <3>6 DEF ShadeInv
      <3>8. DOMAIN proc' = Procs /\ \A q \in Procs : "step" \in DOMAIN proc'[q]
        BY <3>1, <3>2, <3>3 DEF ShadeInv
      <3> QED
        BY <3>1, <3>6, <3>7, <3>8 DEF ShadeInv
    <2> QED
      BY <2>1, <2>2
  <1>7. ASSUME NEW p \in Procs, NEW step,
               proc' = [proc EXCEPT ![p].step = step], Plans(p), UNCHANGED <<clock, overran, lock>>
        PROVE  ShadeInv'
    <2> DEFINE x == [proc[p] EXCEPT !.step = step]
    <2>1. "step" \in DOMAIN x /\ proc' = [proc EXCEPT ![p] = x]
      BY <1>7 DEF ShadeInv
    <2> HIDE DEF x
    <2> QED
      BY <1>7, <2>1, GetsOn
  <1>8. ASSUME NEW p \in Procs, Shade!Closed(p) \/ Shade!Mark(p) \/ Shade!Raises(p) PROVE ShadeInv'
    BY <1>7, <1>8 DEF Shade!Closed, Shade!Mark, Shade!Raises, Plans, Shade!Works
  <1>10. ASSUME NEW p \in Procs, NEW fixed, NEW left, Shade!Record(p, fixed, left) PROVE ShadeInv'
    BY <1>7, <1>10 DEF Shade!Record, Plans, Shade!Works
  <1>11. ASSUME NEW p \in Procs, Shade!Unlock(p) PROVE ShadeInv'
    <2>1. Plans(p) /\ lock' = 0 /\ proc' = [proc EXCEPT ![p] = Shade!Idle] /\ UNCHANGED <<clock, overran>>
      BY <1>11 DEF Shade!Unlock, Plans, Shade!Works, Shade!Never
    <2> QED
      BY <1>0, <2>1, StopsPlanning
  <1>9. ASSUME NEW p \in Procs, Shade!Dies(p) PROVE ShadeInv'
    BY <1>0, <1>9, StopsPlanning DEF Shade!Dies
  <1> QED
    BY <1>2, <1>3, <1>4, <1>5, <1>6, <1>8, <1>9, <1>10, <1>11 DEF Shade!Next

(* Two processes never work on one hub at once while no cycle has outlived   *)
(* its lock (maybe_run_for_hub): SET NX gives the lock to one of them,       *)
(* whoever dies in between, and a cycle that deletes it without looking      *)
(* deletes its own.  Hypothesis: the lock lives for some time (LOCK_TTL).                *)
THEOREM OneShadowCycle ==
  ASSUME LOCK_TTL \in Nat \ {0}
  PROVE  Shade!Spec => []Shade!OneCycleAtATime
  <1>1. Shade!Init => ShadeInv
    <2> SUFFICES ASSUME Shade!Init PROVE ShadeInv
      OBVIOUS
    <2>1. clock = 1 /\ lock = 0 /\ overran = FALSE /\ proc = [p \in Procs |-> Shade!Idle]
      BY DEF Shade!Init, Shade!Never
    <2>2. overran \in BOOLEAN
      BY <2>1
    <2>3. DOMAIN proc = Procs /\ \A p \in Procs : "step" \in DOMAIN proc[p] /\ ~Plans(p)
      BY <2>1 DEF Plans, Shade!Works, Shade!Idle
    <2>4. clock \in Nat /\ lock \in Nat /\ lock = 0
      BY <2>1
    <2> QED
      BY <2>2, <2>3, <2>4 DEF ShadeInv
  <1>2. ShadeInv /\ [Shade!Next]_Shade!vars => ShadeInv'
    BY ShadeStep
  <1>3. ShadeInv => Shade!OneCycleAtATime
    BY DEF ShadeInv, Plans, Shade!OneCycleAtATime
  <1> QED
    BY <1>1, <1>2, <1>3, PTL DEF Shade!Spec

-----------------------------------------------------------------------------
(* Disputed answers about a site.                                          *)

Sites == INSTANCE SiteIdentity

FactFields == {"value", "source", "said", "disputes", "agreed", "overruled", "absorbed",
               "settled", "turned"}
FactTypes == DOMAIN fact = Docks /\ \A d \in Docks : DOMAIN fact[d] = FactFields

\* One fact is replaced by one whose settled answers are the same.
LEMMA FactReplaced ==
  ASSUME FactTypes, NEW c, NEW e, fact' = [fact EXCEPT ![c] = e],
         c \in Docks => DOMAIN e = FactFields /\ e.settled = fact[c].settled
  PROVE  FactTypes' /\ Sites!SettlesWhatWasSeen
  <1>1. \A d \in Docks : fact'[d] = IF d = c THEN e ELSE fact[d]
    BY DEF FactTypes
  <1>2. DOMAIN fact' = Docks
    BY DEF FactTypes
  <1>3. FactTypes'
    BY <1>1, <1>2 DEF FactTypes
  <1>4. \A d \in Docks : fact'[d].settled = fact[d].settled
    BY <1>1
  <1>5. Sites!SettlesWhatWasSeen
    BY <1>4 DEF Sites!SettlesWhatWasSeen
  <1> QED
    BY <1>3, <1>5

LEMMA SiteStep ==
  ASSUME FactTypes, Sites!Next
  PROVE  FactTypes' /\ Sites!SettlesWhatWasSeen
  <1>1. ASSUME UNCHANGED fact PROVE FactTypes' /\ Sites!SettlesWhatWasSeen
    BY <1>1 DEF FactTypes, Sites!SettlesWhatWasSeen
  <1>2. ASSUME NEW h \in Shops, Sites!LinkShop(h) PROVE UNCHANGED fact
    BY <1>2 DEF Sites!LinkShop
  <1>3. ASSUME NEW p \in Alike, Sites!Propose(p) PROVE UNCHANGED fact
    BY <1>3 DEF Sites!Propose
  <1>4. ASSUME NEW a \in Admins, Sites!reject_merge(a) \/ Sites!redo_merge(a) \/ Sites!Look(a) PROVE UNCHANGED fact
    BY <1>4 DEF Sites!reject_merge, Sites!redo_merge, Sites!Look
  <1>5. ASSUME NEW a \in Admins, NEW m, NEW what, Sites!Pick(a, m, what) PROVE UNCHANGED fact
    BY <1>5 DEF Sites!Pick
  <1>6. ASSUME NEW s \in Stops, NEW v, Sites!AnswerReads(s, v) PROVE UNCHANGED fact
    BY <1>6 DEF Sites!AnswerReads
  <1>7. ASSUME NEW d \in Docks, Sites!OpenDispute(d) PROVE UNCHANGED fact
    BY <1>7 DEF Sites!OpenDispute
  <1>8. ASSUME NEW a \in Admins, Sites!Apply(a) PROVE FactTypes' /\ Sites!SettlesWhatWasSeen
    <2> DEFINE c == adm[a].tgt
    <2>1. UNCHANGED fact \/ \E L, M : fact' = [fact EXCEPT ![c] = [fact[c] EXCEPT !.disputes = L, !.absorbed = M]]
      BY <1>8 DEF Sites!Apply, Sites!fold_answers, Sites!Write
    <2>2. CASE \E L, M : fact' = [fact EXCEPT ![c] = [fact[c] EXCEPT !.disputes = L, !.absorbed = M]]
      <3>1. PICK L, M : fact' = [fact EXCEPT ![c] = [fact[c] EXCEPT !.disputes = L, !.absorbed = M]]
        BY <2>2
      <3> DEFINE e == [fact[c] EXCEPT !.disputes = L, !.absorbed = M]
      <3>2. c \in Docks => DOMAIN e = FactFields /\ e.settled = fact[c].settled
        BY DEF FactTypes, FactFields
      <3> HIDE DEF c, e
      <3>3. fact' = [fact EXCEPT ![c] = e]
        BY <3>1 DEF e
      <3> QED
        BY <3>2, <3>3, FactReplaced
    <2> QED
      BY <1>1, <2>1, <2>2
  <1>9. ASSUME NEW a \in Admins, Sites!Revert(a) PROVE FactTypes' /\ Sites!SettlesWhatWasSeen
    <2> DEFINE m == merges[adm[a].row]
               c == m.tgt
               e == Sites!unfold_answers(m.src, c)
    <2>1. UNCHANGED fact \/ fact' = [fact EXCEPT ![c] = e]
      BY <1>9 DEF Sites!Revert
    <2>2. c \in Docks => DOMAIN e = FactFields /\ e.settled = fact[c].settled
      BY DEF FactTypes, FactFields, Sites!unfold_answers
    <2> HIDE DEF c, e
    <2> QED
      BY <1>1, <2>1, <2>2, FactReplaced
  <1>10. ASSUME NEW s \in Stops, Sites!AnswerWrites(s) PROVE FactTypes' /\ Sites!SettlesWhatWasSeen
    <2> DEFINE c == Sites!SiteUnderLock(s)
    <2>1. UNCHANGED fact \/ \E x : Sites!Take(c, x)
      BY <1>10 DEF Sites!AnswerWrites
    <2> HIDE DEF c
    <2>2. ASSUME NEW x, Sites!Take(c, x) PROVE FactTypes' /\ Sites!SettlesWhatWasSeen
      <3> DEFINE f == fact[c]
      <3>1. \/ fact' = [fact EXCEPT ![c] = [f EXCEPT !.value = x.said.value, !.source = "survey", !.said = x.said]]
            \/ \E L : fact' = [fact EXCEPT ![c] = [f EXCEPT !.overruled = L]]
            \/ \E L : fact' = [fact EXCEPT ![c] = [f EXCEPT !.disputes = L]]
            \/ \E L : fact' = [fact EXCEPT ![c] = [f EXCEPT !.agreed = L]]
        BY <2>2 DEF Sites!Take, Sites!Write
      <3> HIDE DEF f
      <3>2. ASSUME NEW e, fact' = [fact EXCEPT ![c] = e],
                   DOMAIN f = FactFields => DOMAIN e = FactFields /\ e.settled = f.settled
            PROVE  FactTypes' /\ Sites!SettlesWhatWasSeen
        <4>1. c \in Docks => DOMAIN e = FactFields /\ e.settled = fact[c].settled
          BY <3>2 DEF FactTypes, f
        <4> QED
          BY <3>2, <4>1, FactReplaced
      <3>3. ASSUME NEW L
            PROVE  LET Same(e) == DOMAIN f = FactFields => DOMAIN e = FactFields /\ e.settled = f.settled IN
                   /\ Same([f EXCEPT !.overruled = L]) /\ Same([f EXCEPT !.disputes = L]) /\ Same([f EXCEPT !.agreed = L])
                   /\ Same([f EXCEPT !.value = x.said.value, !.source = "survey", !.said = x.said])
        BY DEF FactFields
      <3> QED
        BY <3>1, <3>2, <3>3
    <2> QED
      BY <1>1, <2>1, <2>2
  <1>12. ASSUME NEW d \in Docks, Sites!Prefill(d) PROVE FactTypes' /\ Sites!SettlesWhatWasSeen
    <2> DEFINE e == [fact[d] EXCEPT !.value = Guessed[d], !.source = "desk"]
    <2>1. fact' = [fact EXCEPT ![d] = e]
      BY <1>12 DEF Sites!Prefill, FactTypes
    <2>2. DOMAIN e = FactFields /\ e.settled = fact[d].settled
      BY DEF FactTypes, FactFields
    <2> HIDE DEF e
    <2> QED
      BY <2>1, <2>2, FactReplaced
  <1>11. ASSUME NEW take, Sites!settle_dispute(take) PROVE FactTypes' /\ Sites!SettlesWhatWasSeen
    <2> DEFINE c == Sites!canonical_location(desk.dock)
               e == Sites!Settled(fact[c], take)
    <2>1. /\ desk # Sites!Idle
          /\ (UNCHANGED fact) \/ (~Sites!Refuses(fact[c], take) /\ fact' = [fact EXCEPT ![c] = e])
      BY <1>11, Zenon DEF Sites!settle_dispute, Sites!Write
    <2>2. CASE UNCHANGED fact
      BY <1>1, <2>2
    <2>3. CASE ~Sites!Refuses(fact[c], take) /\ fact' = [fact EXCEPT ![c] = e]
      <3>1. Sites!Keys(fact[c].disputes) = desk.seen
        BY <2>3, Zenon DEF Sites!Refuses, Sites!Unchanged
      <3>2. DOMAIN e = FactFields
        BY DEF FactFields, Sites!Settled
      <3> HIDE DEF c, e
      <3>4. \A d \in Docks : fact'[d] = IF d = c THEN e ELSE fact[d]
        BY <2>3 DEF FactTypes
      <3>5. FactTypes'
        BY <2>3, <3>2, <3>4 DEF FactTypes
      <3>6. Sites!SettlesWhatWasSeen
        BY <2>1, <3>1, <3>4 DEF Sites!SettlesWhatWasSeen
      <3> QED
        BY <3>5, <3>6
    <2> QED
      BY <2>1, <2>2, <2>3
  <1> QED
    BY <1>1, <1>2, <1>3, <1>4, <1>5, <1>6, <1>7, <1>8, <1>9, <1>10, <1>11, <1>12 DEF Sites!Next

(* No dispute about a site is closed by somebody who had not seen all of it  *)
(* (settle_dispute): whatever merges, reverts and answers come between the   *)
(* desk's reading and its verdict, only settling moves answers to settled,   *)
(* and it is refused when the disputes are no longer those on the screen.    *)
THEOREM DisputesAreSeenFirst == Sites!Spec => Sites!SettledWereSeen
  <1>1. Sites!Init => FactTypes
    BY DEF Sites!Init, FactTypes, FactFields, Sites!Blank
  <1>2. FactTypes /\ [Sites!Next]_Sites!vars => FactTypes' /\ [Sites!SettlesWhatWasSeen]_Sites!vars
    BY SiteStep DEF Sites!vars, FactTypes
  <1> QED
    BY <1>1, <1>2, PTL DEF Sites!Spec, Sites!SettledWereSeen

-----------------------------------------------------------------------------
(* Sites that are merged: following the aliases.                           *)

\* Docks and stops have numbers, the question has answers, and a dock is not
\* like itself.
SiteNames ==
  /\ IsFiniteSet(Docks) /\ Sites!Nil \notin Docks /\ Sites!Nil \notin Stops
  /\ At \in [Stops -> Docks] /\ Says \in [Stops -> SUBSET Values] /\ Sites!NoValue \notin Values
  /\ Guessed \in [Docks -> Values \cup {Sites!NoValue}]
  /\ \A p \in Alike : p[1] \in Docks /\ p[2] \in Docks /\ p[1] # p[2]

NextAlias(io, d) == IF io[d] = Sites!Nil THEN d ELSE io[d]
IsHop(f, d, n) == f = [k \in 0..n |-> IF k = 0 THEN d ELSE NextAlias(into, f[k - 1])]

LEMMA HopExists ==
  ASSUME NEW d, NEW n \in Nat
  PROVE  \E f : IsHop(f, d, n)
  <1> DEFINE Bad == {m \in Nat : ~(\E f : IsHop(f, d, m))}
  <1> SUFFICES ASSUME Bad # {} PROVE FALSE
    OBVIOUS
  <1>1. PICK m \in Bad : \A k \in Bad : m <= k
    BY HasLeast
  <1>2. CASE m = 0
    <2> DEFINE f == [k \in 0..m |-> d]
    <2>1. IsHop(f, d, m)
      BY <1>2 DEF IsHop
    <2> QED
      BY <1>1, <2>1
  <1>3. CASE m # 0
    <2>1. m \in Nat /\ m - 1 \in Nat /\ m - 1 \notin Bad
      BY <1>1, <1>3
    <2>2. PICK f : IsHop(f, d, m - 1)
      BY <2>1
    <2> DEFINE g == [k \in 0..m |-> IF k < m THEN f[k] ELSE NextAlias(into, f[m - 1])]
    <2>3. ASSUME NEW k \in 0..m PROVE g[k] = IF k = 0 THEN d ELSE NextAlias(into, g[k - 1])
      <3>1. CASE k = 0
        <4>1. g[k] = f[k] /\ k \in 0..(m - 1)
          BY <1>3, <2>1, <3>1
        <4> QED
          BY <2>2, <3>1, <4>1 DEF IsHop
      <3>2. CASE k # 0 /\ k < m
        <4>1. g[k] = f[k] /\ g[k - 1] = f[k - 1] /\ k \in 0..(m - 1)
          BY <2>1, <3>2
        <4> QED
          BY <2>2, <3>2, <4>1 DEF IsHop
      <3>3. CASE k # 0 /\ k = m
        <4>1. g[k] = NextAlias(into, f[m - 1]) /\ g[k - 1] = f[m - 1]
          BY <2>1, <3>3
        <4> QED
          BY <3>3, <4>1
      <3> QED
        BY <2>1, <3>1, <3>2, <3>3
    <2>4. g = [k \in 0..m |-> g[k]]
      OBVIOUS
    <2> HIDE DEF g
    <2>5. IsHop(g, d, m)
      BY <2>3, <2>4 DEF IsHop
    <2> QED
      BY <1>1, <2>5
  <1> QED
    BY <1>2, <1>3

DockCount == Cardinality(Docks)

LEMMA CanonicalIsHop ==
  ASSUME SiteNames, NEW d
  PROVE  DockCount \in Nat /\ \E f : IsHop(f, d, DockCount) /\ Sites!canonical_location(d) = f[DockCount]
  <1> DEFINE W == CHOOSE f : IsHop(f, d, DockCount)
  <1>1. Sites!Cardinality(Docks) = DockCount
    BY DEF Sites!Cardinality, Cardinality, DockCount
  <1>2. DockCount \in Nat
    BY FS_CardinalityType DEF SiteNames, DockCount
  <1>3. IsHop(W, d, DockCount)
    BY <1>2, HopExists
  <1>4. Sites!canonical_location(d) = W[DockCount]
    BY <1>1, Zenon DEF Sites!canonical_location, IsHop, NextAlias
  <1> HIDE DEF W
  <1> QED
    BY <1>2, <1>3, <1>4

\* What holds of a dock and, with every dock, of its alias, holds of where the
\* aliases lead.
LEMMA CanonicalKeeps ==
  ASSUME SiteNames, NEW S, \A c \in S : NextAlias(into, c) \in S, NEW d \in S
  PROVE  Sites!canonical_location(d) \in S
  <1>1. PICK f : IsHop(f, d, DockCount) /\ Sites!canonical_location(d) = f[DockCount]
    BY CanonicalIsHop
  <1>2. DockCount \in Nat
    BY CanonicalIsHop
  <1> DEFINE Bad == {k \in 0..DockCount : f[k] \notin S}
  <1>3. ASSUME Bad # {} PROVE FALSE
    <2>1. Bad \in SUBSET Nat
      BY <1>2
    <2>2. PICK k \in Bad : \A j \in Bad : k <= j
      BY <1>3, <2>1, HasLeast
    <2>3. CASE k = 0
      BY <1>1, <2>2, <2>3 DEF IsHop
    <2>4. CASE k # 0
      <3>1. k \in 0..DockCount /\ k - 1 \in 0..DockCount /\ k - 1 \notin Bad
        BY <1>2, <2>2, <2>4
      <3>2. f[k - 1] \in S
        BY <3>1
      <3>3. f[k] = NextAlias(into, f[k - 1])
        BY <1>1, <2>4, <3>1 DEF IsHop
      <3> QED
        BY <2>2, <3>2, <3>3
    <2> QED
      BY <2>3, <2>4
  <1>4. DockCount \in 0..DockCount
    BY <1>2
  <1> QED
    BY <1>1, <1>3, <1>4

\* The aliases descend: each leads to a dock of lower rank.
Descends(io, r) == \A d \in Docks : io[d] # Sites!Nil => r[io[d]] < r[d]
Forest(io) ==
  /\ io \in [Docks -> Docks \cup {Sites!Nil}]
  /\ \E r \in [Docks -> Nat] : Descends(io, r)

\* As many steps as there are docks are enough.
LEMMA CanonicalEnds ==
  ASSUME SiteNames, Forest(into), NEW d \in Docks
  PROVE  Sites!canonical_location(d) \in Docks /\ into[Sites!canonical_location(d)] = Sites!Nil
  <1>0. \A c \in Docks : NextAlias(into, c) \in Docks
    BY DEF Forest, NextAlias
  <1>1. PICK f : IsHop(f, d, DockCount) /\ Sites!canonical_location(d) = f[DockCount]
    BY CanonicalIsHop
  <1>2. DockCount \in Nat
    BY CanonicalIsHop
  <1>3. Sites!canonical_location(d) \in Docks
    BY <1>0, CanonicalKeeps
  <1>4. PICK r \in [Docks -> Nat] : Descends(into, r)
    BY DEF Forest
  <1>5. f \in [0..DockCount -> Docks]
    <2> DEFINE Bad == {k \in 0..DockCount : f[k] \notin Docks}
    <2>1. ASSUME Bad # {} PROVE FALSE
      <3>1. PICK k \in Bad : \A j \in Bad : k <= j
        <4>1. Bad \in SUBSET Nat
          BY <1>2
        <4> QED
          BY <2>1, <4>1, HasLeast
      <3>2. CASE k = 0
        BY <1>1, <3>1, <3>2 DEF IsHop
      <3>3. CASE k # 0
        <4>1. k \in 0..DockCount /\ k - 1 \in 0..DockCount /\ k - 1 \notin Bad
          BY <1>2, <3>1, <3>3
        <4>2. f[k] = NextAlias(into, f[k - 1]) /\ f[k - 1] \in Docks
          BY <1>1, <3>3, <4>1 DEF IsHop
        <4> QED
          BY <1>0, <3>1, <4>2
      <3> QED
        BY <3>2, <3>3
    <2> QED
      BY <1>1, <2>1 DEF IsHop
  <1>6. ASSUME into[f[DockCount]] # Sites!Nil PROVE FALSE
    <2>1. \A k \in 0..DockCount : into[f[k]] # Sites!Nil
      <3> DEFINE End == {k \in 0..DockCount : into[f[k]] = Sites!Nil}
      <3> SUFFICES ASSUME End # {} PROVE FALSE
        OBVIOUS
      <3>1. PICK k \in End : \A j \in End : k >= j
        BY <1>2, HasGreatest
      <3>2. k \in 0..DockCount /\ k # DockCount
        BY <1>6, <3>1
      <3>3. k + 1 \in 0..DockCount /\ (k + 1) - 1 = k /\ k + 1 # 0
        BY <1>2, <3>2
      <3>4. f[k + 1] = f[k]
        BY <1>1, <3>1, <3>3 DEF IsHop, NextAlias
      <3> QED
        BY <1>2, <3>1, <3>3, <3>4
    <2>2. \A k \in 0..DockCount : k # 0 => r[f[k]] < r[f[k - 1]]
      <3> SUFFICES ASSUME NEW k \in 0..DockCount, k # 0 PROVE r[f[k]] < r[f[k - 1]]
        OBVIOUS
      <3>1. k - 1 \in 0..DockCount
        BY <1>2
      <3>2. f[k] = into[f[k - 1]] /\ f[k - 1] \in Docks
        BY <1>1, <1>5, <2>1, <3>1 DEF IsHop, NextAlias
      <3> QED
        BY <1>4, <2>1, <3>1, <3>2 DEF Descends
    <2>3. \A x, y \in 0..DockCount : x < y => r[f[y]] < r[f[x]]
      <3> SUFFICES ASSUME NEW x \in 0..DockCount PROVE \A y \in 0..DockCount : x < y => r[f[y]] < r[f[x]]
        OBVIOUS
      <3> DEFINE Bad == {y \in 0..DockCount : x < y /\ ~(r[f[y]] < r[f[x]])}
      <3> SUFFICES ASSUME Bad # {} PROVE FALSE
        OBVIOUS
      <3>1. PICK y \in Bad : \A z \in Bad : y <= z
        <4>1. Bad \in SUBSET Nat
          BY <1>2
        <4> QED
          BY <4>1, HasLeast
      <3>2. y \in 0..DockCount /\ x < y /\ y # 0 /\ y - 1 \in 0..DockCount /\ y - 1 \notin Bad
        BY <1>2, <3>1
      <3>3. r[f[y]] \in Nat /\ r[f[y - 1]] \in Nat /\ r[f[x]] \in Nat
        BY <1>4, <1>5, <3>2
      <3>4. r[f[y]] < r[f[y - 1]]
        BY <2>2, <3>2
      <3>5. CASE x = y - 1
        BY <3>1, <3>4, <3>5
      <3>6. CASE x < y - 1
        <4>1. r[f[y - 1]] < r[f[x]]
          BY <3>2, <3>6
        <4> QED
          BY <3>1, <3>3, <3>4, <4>1
      <3> QED
        BY <1>2, <3>2, <3>5, <3>6
    <2>4. \E x, y \in 0..DockCount : x # y /\ f[x] = f[y]
      <3>1. IsFiniteSet(0..DockCount) /\ Cardinality(0..DockCount) = DockCount + 1
        BY <1>2, FS_Interval
      <3>2. IsFiniteSet(Docks) /\ Cardinality(Docks) < Cardinality(0..DockCount)
        BY <1>2, <3>1 DEF SiteNames, DockCount
      <3> QED
        BY <1>5, <3>1, <3>2, FS_PigeonHole
    <2>5. PICK x \in 0..DockCount, y \in 0..DockCount : x < y /\ f[x] = f[y]
      BY <1>2, <2>4
    <2>6. r[f[x]] \in Nat
      BY <1>4, <1>5
    <2> QED
      BY <2>3, <2>5, <2>6
  <1> QED
    BY <1>1, <1>3, <1>6

\* A merge of two docks that stand by themselves adds no cycle; taking an
\* alias away adds none.
LEMMA ForestGrows ==
  ASSUME Forest(into), NEW s \in Docks, NEW t \in Docks, s # t,
         into[s] = Sites!Nil, into[t] = Sites!Nil
  PROVE  Forest([into EXCEPT ![s] = t])
  <1> DEFINE io == [into EXCEPT ![s] = t]
  <1>1. PICK r \in [Docks -> Nat] : Descends(into, r)
    BY DEF Forest
  <1> DEFINE q == [d \in Docks |-> IF d = t THEN 0 ELSE r[d] + 1]
  <1>2. into \in [Docks -> Docks \cup {Sites!Nil}]
    BY DEF Forest
  <1>3. io \in [Docks -> Docks \cup {Sites!Nil}] /\ io[s] = t /\ \A d \in Docks : d # s => io[d] = into[d]
    BY <1>2
  <1>4. q \in [Docks -> Nat]
    BY <1>1
  <1>5. ASSUME NEW d \in Docks, io[d] # Sites!Nil PROVE q[io[d]] < q[d]
    <2>1. d # t
      BY <1>3, <1>5
    <2>2. io[d] \in Docks
      BY <1>3, <1>5
    <2>3. CASE d = s
      BY <1>1, <1>3, <2>1, <2>3
    <2>4. CASE d # s
      <3>1. io[d] = into[d] /\ r[into[d]] < r[d]
        BY <1>1, <1>3, <1>5, <2>4 DEF Descends
      <3> HIDE DEF io
      <3> QED
        BY <1>1, <2>1, <2>2, <3>1
    <2> QED
      BY <2>3, <2>4
  <1> HIDE DEF io, q
  <1>6. Forest(io)
    BY <1>3, <1>4, <1>5 DEF Forest, Descends
  <1> QED
    BY <1>6 DEF io

LEMMA ForestShrinks ==
  ASSUME Forest(into), NEW s \in Docks, Sites!Nil \notin Docks
  PROVE  Forest([into EXCEPT ![s] = Sites!Nil])
  <1> DEFINE io == [into EXCEPT ![s] = Sites!Nil]
  <1>1. PICK r \in [Docks -> Nat] : Descends(into, r)
    BY DEF Forest
  <1>2. io \in [Docks -> Docks \cup {Sites!Nil}]
    BY DEF Forest
  <1>3. \A d \in Docks : io[d] # Sites!Nil => io[d] = into[d]
    BY DEF Forest
  <1>4. Descends(io, r)
    BY <1>1, <1>3 DEF Descends
  <1> HIDE DEF io
  <1>5. Forest(io)
    BY <1>2, <1>4 DEF Forest
  <1> QED
    BY <1>5 DEF io

-----------------------------------------------------------------------------
(* Sites that are merged: what they remember.                              *)

Saying(k, c) == [said |-> k, from |-> c]

\* An entry of the right shape, which has a value somebody gave when it has an
\* answer of its own.
EntryFine(e) ==
  /\ e \in Sites!Entry
  /\ e.said # Sites!NoAnswer => e.value # Sites!NoValue /\ e.source # "desk"

Facts(fc) == DOMAIN fc = Docks /\ \A d \in Docks : EntryFine(fc[d])

\* Each dock has handed what it remembers to the dock it is merged into, but for
\* what was lost (lo).
HandedOn(io, fc, lo) ==
  \A c \in Docks : io[c] # Sites!Nil =>
    \A x \in Sites!Remembered(fc[c]) : x.said \notin lo => Saying(x.said, c) \in Sites!Remembered(fc[io[c]])

\* An answer that was taken is with the dock that took it.
Held(gv, fc, lo) ==
  \A s \in Stops : \A i \in DOMAIN gv[s] :
    gv[s][i].said \notin lo => Saying(gv[s][i].said, Sites!Nil) \in Sites!Remembered(fc[gv[s][i].site])

TakenAnswers == [site : Docks, said : Sites!Key]
MergeStates == {"proposed", "applied", "rejected", "reverted", "superseded"}
MergeRows == [src : Docks, tgt : Docks, moved : SUBSET Shops, status : MergeStates]
MergeRow(m) == m \in MergeRows /\ m.src # m.tgt
MergesFine(ms) == ms \in Seq(MergeRows) /\ \A i \in DOMAIN ms : ms[i].src # ms[i].tgt

ErrandFine(x, n) ==
  /\ x.step \in {"confirm", "reject", "revert", "redo"} => x.row \in 1..n
  /\ x.step = "lock" => x.row \in 0..n /\ x.src \in Docks /\ x.tgt \in Docks /\ x.src # x.tgt

SiteInv ==
  /\ Forest(into) /\ Facts(fact) /\ HandedOn(into, fact, lost)
  /\ given \in [Stops -> Seq(TakenAnswers)] /\ Held(given, fact, lost)
  /\ MergesFine(merges)
  /\ DOMAIN adm = Admins /\ \A a \in Admins : ErrandFine(adm[a], Len(merges))
  /\ DOMAIN req = Stops /\ \A s \in Stops : req[s] # Sites!Idle => req[s].site \in Docks /\ req[s].value \in Values
  /\ desk # Sites!Idle => desk.dock \in Docks

\* What the settlements of an entry hold.
Filed(q) == UNION {q[i] : i \in DOMAIN q}
LEMMA FiledGrows ==
  ASSUME NEW q \in Seq(SUBSET Sites!Answer), NEW X \in SUBSET Sites!Answer
  PROVE  LET all == Append(q, X) IN
         /\ all \in Seq(SUBSET Sites!Answer) /\ Tail(all) \in Seq(SUBSET Sites!Answer)
         /\ Filed(all) = Filed(q) \cup X /\ Filed(all) \subseteq Head(all) \cup Filed(Tail(all))
  <1> DEFINE all == Append(q, X)
             T == SUBSET Sites!Answer
  <1> HIDE DEF T
  <1>0. q \in Seq(T) /\ X \in T
    BY DEF T
  <1>1. /\ all \in Seq(T) /\ Len(q) \in Nat /\ Len(all) = Len(q) + 1 /\ all[Len(q) + 1] = X
        /\ \A i \in 1..Len(q) : all[i] = q[i]
    BY <1>0
  <1>2. DOMAIN q = 1..Len(q) /\ DOMAIN all = 1..Len(all)
    BY <1>0, <1>1
  <1> HIDE DEF all
  <1>3. /\ Tail(all) \in Seq(T) /\ DOMAIN Tail(all) = 1..(Len(all) - 1) /\ Head(all) = all[1]
        /\ \A i \in 1..(Len(all) - 1) : Tail(all)[i] = all[i + 1]
    BY <1>1
  <1>4. Filed(all) = Filed(q) \cup X
    <2>1. \A i \in DOMAIN all : i \in DOMAIN q \/ i = Len(q) + 1
      BY <1>1, <1>2
    <2>2. \A i \in DOMAIN q : i \in DOMAIN all /\ all[i] = q[i]
      BY <1>1, <1>2
    <2>3. Len(q) + 1 \in DOMAIN all
      BY <1>1, <1>2
    <2>4. Filed(all) \subseteq Filed(q) \cup X
      BY <1>1, <2>1, <2>2 DEF Filed
    <2>5. Filed(q) \subseteq Filed(all) /\ X \subseteq Filed(all)
      BY <1>1, <2>2, <2>3 DEF Filed
    <2> QED
      BY <2>4, <2>5
  <1>5. Filed(all) \subseteq Head(all) \cup Filed(Tail(all))
    <2> SUFFICES ASSUME NEW i \in DOMAIN all, NEW x \in all[i] PROVE x \in Head(all) \cup Filed(Tail(all))
      BY DEF Filed
    <2>1. CASE i = 1
      BY <1>3, <2>1
    <2>2. CASE i # 1
      <3>1. i - 1 \in DOMAIN Tail(all) /\ Tail(all)[i - 1] = all[i]
        BY <1>1, <1>2, <1>3, <2>2
      <3> QED
        BY <3>1 DEF Filed
    <2> QED
      BY <2>1, <2>2
  <1> QED
    BY <1>1, <1>3, <1>4, <1>5 DEF all, T

\* What an entry of the right shape remembers.
LEMMA EntryHolds ==
  ASSUME NEW e, EntryFine(e)
  PROVE  /\ DOMAIN e = FactFields
         /\ e.value \in Values \cup {Sites!NoValue} /\ e.source \in {"none", "survey", "desk", "ops"}
         /\ e.said \in Sites!Key \cup {Sites!NoAnswer} /\ e.turned \in SUBSET Values
         /\ e.disputes \in SUBSET Sites!Answer /\ e.agreed \in SUBSET Sites!Answer
         /\ e.overruled \in SUBSET Sites!Answer /\ e.absorbed \in SUBSET Sites!Answer
         /\ e.settled \in Seq(SUBSET Sites!Answer)
         /\ Sites!Own(e) \in SUBSET Sites!Answer /\ Sites!Remembered(e) \in SUBSET Sites!Answer
         /\ Sites!Remembered(e) = Sites!Own(e) \cup e.disputes \cup e.agreed \cup e.overruled \cup e.absorbed
                                  \cup Filed(e.settled)
  <1>1. /\ DOMAIN e = FactFields
        /\ e.value \in Values \cup {Sites!NoValue} /\ e.source \in {"none", "survey", "desk", "ops"}
        /\ e.said \in Sites!Key \cup {Sites!NoAnswer} /\ e.turned \in SUBSET Values
        /\ e.disputes \in SUBSET Sites!Answer /\ e.agreed \in SUBSET Sites!Answer
        /\ e.overruled \in SUBSET Sites!Answer /\ e.absorbed \in SUBSET Sites!Answer
        /\ e.settled \in Seq(SUBSET Sites!Answer)
    BY DEF EntryFine, Sites!Entry, FactFields
  <1>2. Sites!Own(e) \in SUBSET Sites!Answer
    BY <1>1 DEF Sites!Own, Sites!Answer
  <1>3. Sites!Remembered(e) = Sites!Own(e) \cup e.disputes \cup e.agreed \cup e.overruled \cup e.absorbed
                             \cup Filed(e.settled)
    BY DEF Sites!Remembered, Filed
  <1>4. Filed(e.settled) \in SUBSET Sites!Answer
    <2>1. \A i \in DOMAIN e.settled : e.settled[i] \in SUBSET Sites!Answer
      BY <1>1
    <2> QED
      BY <2>1 DEF Filed
  <1> QED
    BY <1>1, <1>2, <1>3, <1>4

\* An entry made of such parts.
LEMMA EntryMade ==
  ASSUME NEW n, DOMAIN n = FactFields, n = [f \in FactFields |-> n[f]],
         n.value \in Values \cup {Sites!NoValue}, n.source \in {"none", "survey", "desk", "ops"},
         n.said \in Sites!Key \cup {Sites!NoAnswer}, n.turned \in SUBSET Values,
         n.disputes \in SUBSET Sites!Answer, n.agreed \in SUBSET Sites!Answer,
         n.overruled \in SUBSET Sites!Answer, n.absorbed \in SUBSET Sites!Answer,
         n.settled \in Seq(SUBSET Sites!Answer),
         n.said # Sites!NoAnswer => n.value # Sites!NoValue /\ n.source # "desk"
  PROVE  EntryFine(n)
  BY DEF EntryFine, Sites!Entry, FactFields

LEMMA ListKeeps ==
  ASSUME NEW old, NEW new, NEW max, NEW L \in Sites!Listed(old, new, max)
  PROVE  L \subseteq old \cup new /\ old \cup new \subseteq L \cup ((old \cup new) \ L)
  BY DEF Sites!Listed

\* A dock's entry is replaced, and what it remembered and what is new is on it or lost.
KeptOn(c, new) ==
  /\ DOMAIN fact' = Docks /\ EntryFine(fact'[c]) /\ \A d \in Docks : d # c => fact'[d] = fact[d]
  /\ lost \subseteq lost'
  /\ \A x \in Sites!Remembered(fact[c]) \cup new : x \in Sites!Remembered(fact'[c]) \/ x.said \in lost'

LEMMA WriteKeeps ==
  ASSUME Facts(fact), NEW c \in Docks, NEW e, EntryFine(e), NEW gone, NEW new, Sites!Write(c, e, gone),
         Sites!Remembered(fact[c]) \cup new \subseteq Sites!Remembered(e) \cup gone
  PROVE  KeptOn(c, new)
  <1>1. fact' = [fact EXCEPT ![c] = e] /\ lost' = lost \cup {x.said : x \in gone \ Sites!Remembered(e)}
    BY DEF Sites!Write, Sites!Keys, Sites!dispute_key
  <1>2. DOMAIN fact' = Docks /\ fact'[c] = e /\ \A d \in Docks : d # c => fact'[d] = fact[d]
    BY <1>1 DEF Facts
  <1>3. \A x \in gone : x \in Sites!Remembered(e) \/ x.said \in lost'
    BY <1>1
  <1> QED
    BY <1>1, <1>2, <1>3 DEF KeptOn

\* A dock takes an answer and forgets none that it does not let go.
LEMMA TakeKeeps ==
  ASSUME SiteNames, Facts(fact), NEW c \in Docks, NEW x \in Sites!Answer, x = Saying(x.said, Sites!Nil), Sites!Take(c, x)
  PROVE  KeptOn(c, {x})
  <1> DEFINE e == fact[c]
             v == x.said.value
  <1>0. EntryFine(e)
    BY DEF Facts
  <1>1. x.said \in Sites!Key /\ v \in Values /\ x.said # Sites!NoAnswer /\ v # Sites!NoValue
    BY DEF Sites!Answer, Sites!Key, Sites!NoAnswer, SiteNames
  <1> DEFINE FE == /\ DOMAIN e = FactFields
         /\ e.value \in Values \cup {Sites!NoValue} /\ e.source \in {"none", "survey", "desk", "ops"}
         /\ e.said \in Sites!Key \cup {Sites!NoAnswer} /\ e.turned \in SUBSET Values
         /\ e.disputes \in SUBSET Sites!Answer /\ e.agreed \in SUBSET Sites!Answer
         /\ e.overruled \in SUBSET Sites!Answer /\ e.absorbed \in SUBSET Sites!Answer
         /\ e.settled \in Seq(SUBSET Sites!Answer)
  <1>2. FE /\ e = [f \in FactFields |-> e[f]]
    BY <1>0, EntryHolds DEF EntryFine, Sites!Entry, FactFields
  <1>3. Sites!Remembered(e) = Sites!Own(e) \cup e.disputes \cup e.agreed \cup e.overruled \cup e.absorbed \cup Filed(e.settled)
    BY <1>0, EntryHolds
  <1>4. e.said # Sites!NoAnswer => e.value # Sites!NoValue /\ e.source # "desk"
    BY <1>0 DEF EntryFine
  <1>5. \/ /\ Sites!fact_is_open(e)
           /\ Sites!Write(c, [e EXCEPT !.value = v, !.source = "survey", !.said = x.said], {})
        \/ \E L \in Sites!Listed(e.overruled, {x}, MAX_REMEMBERED) :
             Sites!Write(c, [e EXCEPT !.overruled = L], (e.overruled \cup {x}) \ L)
        \/ \E L \in Sites!Listed(e.disputes, {x}, MAX_DISPUTES) :
             Sites!Write(c, [e EXCEPT !.disputes = L], (e.disputes \cup {x}) \ L)
        \/ \E L \in Sites!Listed(e.agreed, {x}, MAX_DISPUTES) :
             Sites!Write(c, [e EXCEPT !.agreed = L], (e.agreed \cup {x}) \ L)
    BY Zenon DEF Sites!Take
  <1>10. e = fact[c]
    OBVIOUS
  <1> HIDE DEF e, v
  <1>6. CASE /\ Sites!fact_is_open(e)
             /\ Sites!Write(c, [e EXCEPT !.value = v, !.source = "survey", !.said = x.said], {})
    <2> DEFINE n == [e EXCEPT !.value = v, !.source = "survey", !.said = x.said]
    <2>1. e.said = Sites!NoAnswer /\ Sites!Own(e) = {}
      BY <1>4, <1>6 DEF Sites!fact_is_open, Sites!Own
    <2>2. /\ DOMAIN n = FactFields /\ n = [f \in FactFields |-> n[f]] /\ n.value = v /\ n.source = "survey" /\ n.said = x.said
          /\ n.disputes = e.disputes /\ n.agreed = e.agreed /\ n.overruled = e.overruled /\ n.absorbed = e.absorbed
          /\ n.settled = e.settled /\ n.turned = e.turned
      BY <1>2 DEF FactFields
    <2>3. Sites!Write(c, n, {})
      BY <1>6
    <2> HIDE DEF n
    <2>4. EntryFine(n)
      BY <1>1, <1>2, <2>2, EntryMade
    <2>5. Sites!Own(n) = {x}
      BY <1>1, <2>2 DEF Sites!Own, Saying
    <2>6. Sites!Remembered(n) = Sites!Own(n) \cup n.disputes \cup n.agreed \cup n.overruled \cup n.absorbed \cup Filed(n.settled)
      BY <2>4, EntryHolds
    <2>7. Sites!Remembered(e) \cup {x} \subseteq Sites!Remembered(n) \cup {}
      BY <1>3, <2>1, <2>2, <2>5, <2>6
    <2> QED
      BY <1>10, <2>3, <2>4, <2>7, WriteKeeps
  <1>7. ASSUME NEW n, DOMAIN n = FactFields, n = [f \in FactFields |-> n[f]], n.value = e.value, n.source = e.source, n.said = e.said,
               n.absorbed = e.absorbed, n.settled = e.settled, n.turned = e.turned,
               n.disputes \in SUBSET Sites!Answer, n.agreed \in SUBSET Sites!Answer, n.overruled \in SUBSET Sites!Answer,
               NEW gone, Sites!Write(c, n, gone),
               e.disputes \cup e.agreed \cup e.overruled \cup {x} \subseteq n.disputes \cup n.agreed \cup n.overruled \cup gone
        PROVE  KeptOn(c, {x})
    <2>1. EntryFine(n)
      BY <1>2, <1>4, <1>7, EntryMade
    <2>2. Sites!Own(n) = Sites!Own(e)
      BY <1>7 DEF Sites!Own
    <2>3. Sites!Remembered(n) = Sites!Own(n) \cup n.disputes \cup n.agreed \cup n.overruled \cup n.absorbed \cup Filed(n.settled)
      BY <2>1, EntryHolds
    <2>4. Sites!Remembered(e) \cup {x} \subseteq Sites!Remembered(n) \cup gone
      BY <1>3, <1>7, <2>2, <2>3
    <2> QED
      BY <1>7, <1>10, <2>1, <2>4, WriteKeeps
  <1>9. CASE \E L \in Sites!Listed(e.overruled, {x}, MAX_REMEMBERED) :
               Sites!Write(c, [e EXCEPT !.overruled = L], (e.overruled \cup {x}) \ L)
    <2>1. PICK L \in Sites!Listed(e.overruled, {x}, MAX_REMEMBERED) :
               Sites!Write(c, [e EXCEPT !.overruled = L], (e.overruled \cup {x}) \ L)
      BY <1>9
    <2>2. L \subseteq e.overruled \cup {x}
      BY ListKeeps
    <2> DEFINE n == [e EXCEPT !.overruled = L]
               gone == (e.overruled \cup {x}) \ L
    <2>3. /\ DOMAIN n = FactFields /\ n = [f \in FactFields |-> n[f]] /\ n.value = e.value /\ n.source = e.source /\ n.said = e.said
          /\ n.absorbed = e.absorbed /\ n.settled = e.settled /\ n.turned = e.turned
          /\ n.disputes = e.disputes /\ n.agreed = e.agreed /\ n.overruled = L
      BY <1>2 DEF FactFields
    <2>4. Sites!Write(c, n, gone)
      BY <2>1
    <2>5. L \in SUBSET Sites!Answer
      BY <1>2, <2>2
    <2> HIDE DEF n
    <2>6. e.disputes \cup e.agreed \cup e.overruled \cup {x} \subseteq n.disputes \cup n.agreed \cup n.overruled \cup gone
      BY <2>3
    <2> HIDE DEF gone
    <2> QED
      BY <1>2, <1>7, <2>3, <2>4, <2>5, <2>6
  <1>11. CASE \E L \in Sites!Listed(e.disputes, {x}, MAX_DISPUTES) :
               Sites!Write(c, [e EXCEPT !.disputes = L], (e.disputes \cup {x}) \ L)
    <2>1. PICK L \in Sites!Listed(e.disputes, {x}, MAX_DISPUTES) :
               Sites!Write(c, [e EXCEPT !.disputes = L], (e.disputes \cup {x}) \ L)
      BY <1>11
    <2>2. L \subseteq e.disputes \cup {x}
      BY ListKeeps
    <2> DEFINE n == [e EXCEPT !.disputes = L]
               gone == (e.disputes \cup {x}) \ L
    <2>3. /\ DOMAIN n = FactFields /\ n = [f \in FactFields |-> n[f]] /\ n.value = e.value /\ n.source = e.source /\ n.said = e.said
          /\ n.absorbed = e.absorbed /\ n.settled = e.settled /\ n.turned = e.turned
          /\ n.disputes = L /\ n.agreed = e.agreed /\ n.overruled = e.overruled
      BY <1>2 DEF FactFields
    <2>4. Sites!Write(c, n, gone)
      BY <2>1
    <2>5. L \in SUBSET Sites!Answer
      BY <1>2, <2>2
    <2> HIDE DEF n
    <2>6. e.disputes \cup e.agreed \cup e.overruled \cup {x} \subseteq n.disputes \cup n.agreed \cup n.overruled \cup gone
      BY <2>3
    <2> HIDE DEF gone
    <2> QED
      BY <1>2, <1>7, <2>3, <2>4, <2>5, <2>6
  <1>12. CASE \E L \in Sites!Listed(e.agreed, {x}, MAX_DISPUTES) :
               Sites!Write(c, [e EXCEPT !.agreed = L], (e.agreed \cup {x}) \ L)
    <2>1. PICK L \in Sites!Listed(e.agreed, {x}, MAX_DISPUTES) :
               Sites!Write(c, [e EXCEPT !.agreed = L], (e.agreed \cup {x}) \ L)
      BY <1>12
    <2>2. L \subseteq e.agreed \cup {x}
      BY ListKeeps
    <2> DEFINE n == [e EXCEPT !.agreed = L]
               gone == (e.agreed \cup {x}) \ L
    <2>3. /\ DOMAIN n = FactFields /\ n = [f \in FactFields |-> n[f]] /\ n.value = e.value /\ n.source = e.source /\ n.said = e.said
          /\ n.absorbed = e.absorbed /\ n.settled = e.settled /\ n.turned = e.turned
          /\ n.disputes = e.disputes /\ n.agreed = L /\ n.overruled = e.overruled
      BY <1>2 DEF FactFields
    <2>4. Sites!Write(c, n, gone)
      BY <2>1
    <2>5. L \in SUBSET Sites!Answer
      BY <1>2, <2>2
    <2> HIDE DEF n
    <2>6. e.disputes \cup e.agreed \cup e.overruled \cup {x} \subseteq n.disputes \cup n.agreed \cup n.overruled \cup gone
      BY <2>3
    <2> HIDE DEF gone
    <2> QED
      BY <1>2, <1>7, <2>3, <2>4, <2>5, <2>6
  <1> QED
    BY <1>5, <1>6, <1>9, <1>11, <1>12

\* The desk settles an entry's disputes, and files them.
LEMMA SettledKeeps ==
  ASSUME Facts(fact), NEW c \in Docks, NEW take \in Values \cup {Sites!NoValue}, NEW gone,
         gone = (IF Len(Sites!Settlements(fact[c], take)) > MAX_SETTLED
                 THEN Head(Sites!Settlements(fact[c], take)) ELSE {}),
         Sites!Write(c, Sites!Settled(fact[c], take), gone)
  PROVE  KeptOn(c, {})
  <1> DEFINE e == fact[c]
             n == Sites!Settled(e, take)
             X == e.disputes \cup (IF take = Sites!NoValue THEN {} ELSE Sites!Own(e))
             all == Append(e.settled, X)
             full == Len(all) > MAX_SETTLED
  <1>0. EntryFine(e)
    BY DEF Facts
  <1>1. /\ e.value \in Values \cup {Sites!NoValue} /\ e.said \in Sites!Key \cup {Sites!NoAnswer}
        /\ e.disputes \in SUBSET Sites!Answer /\ e.agreed \in SUBSET Sites!Answer
        /\ e.overruled \in SUBSET Sites!Answer /\ e.absorbed \in SUBSET Sites!Answer
        /\ e.settled \in Seq(SUBSET Sites!Answer) /\ Sites!Own(e) \in SUBSET Sites!Answer
        /\ Sites!Remembered(e) = Sites!Own(e) \cup e.disputes \cup e.agreed \cup e.overruled \cup e.absorbed
                                 \cup Filed(e.settled)
    BY <1>0, EntryHolds
  <1>2. e.said # Sites!NoAnswer => e.value # Sites!NoValue
    BY <1>0 DEF EntryFine
  <1>3. all = Sites!Settlements(e, take)
    BY DEF Sites!Settlements
  <1>4. X \in SUBSET Sites!Answer
    BY <1>1
  <1>5. /\ all \in Seq(SUBSET Sites!Answer) /\ Tail(all) \in Seq(SUBSET Sites!Answer)
        /\ Filed(all) = Filed(e.settled) \cup X /\ Filed(all) \subseteq Head(all) \cup Filed(Tail(all))
    BY <1>1, <1>4, FiledGrows
  <1>6. /\ DOMAIN n = FactFields /\ n = [f \in FactFields |-> n[f]]
        /\ n.value = (IF take = Sites!NoValue THEN e.value ELSE take) /\ n.source = "ops"
        /\ n.said = (IF take = Sites!NoValue THEN e.said ELSE Sites!NoAnswer)
        /\ n.disputes = {} /\ n.agreed = e.agreed /\ n.overruled = e.overruled /\ n.absorbed = e.absorbed
        /\ n.settled = (IF full THEN Tail(all) ELSE all)
        /\ n.turned = (IF take = Sites!NoValue THEN {x.said.value : x \in e.disputes} ELSE {})
    BY <1>3 DEF Sites!Settled, FactFields
  <1>7. n.turned \in SUBSET Values
    <2>1. \A x \in e.disputes : x.said.value \in Values
      BY <1>1 DEF Sites!Answer, Sites!Key
    <2> QED
      BY <1>6, <2>1
  <1>8. gone = (IF full THEN Head(all) ELSE {}) /\ Sites!Write(c, n, gone) /\ e = fact[c]
    BY <1>3
  <1> HIDE DEF n, e, all, full
  <1>9. EntryFine(n)
    BY <1>1, <1>2, <1>5, <1>6, <1>7, EntryMade
  <1>10. /\ Sites!Remembered(n) = Sites!Own(n) \cup n.disputes \cup n.agreed \cup n.overruled \cup n.absorbed
                                  \cup Filed(n.settled)
    BY <1>9, EntryHolds
  <1>11. Filed(e.settled) \cup X \subseteq Filed(n.settled) \cup gone
    BY <1>5, <1>6, <1>8
  <1>12. Sites!Own(e) \subseteq Sites!Own(n) \cup X
    BY <1>6 DEF Sites!Own
  <1>13. e.disputes \subseteq X
    OBVIOUS
  <1> HIDE DEF X
  <1>14. Sites!Remembered(e) \cup {} \subseteq Sites!Remembered(n) \cup gone
    BY <1>1, <1>6, <1>10, <1>11, <1>12, <1>13
  <1> QED
    BY <1>8, <1>9, <1>14, WriteKeeps

LEMMA Tagged ==
  ASSUME NEW X \in SUBSET Sites!Answer, NEW c \in Docks
  PROVE  /\ \A x \in X : Saying(x.said, c) \in Sites!Tag(X, c)
         /\ Sites!Tag(X, c) \in SUBSET Sites!Answer
  <1>1. ASSUME NEW x \in X PROVE [x EXCEPT !.from = c] = Saying(x.said, c) /\ Saying(x.said, c) \in Sites!Answer
    BY DEF Saying, Sites!Answer
  <1> QED
    BY <1>1 DEF Sites!Tag

\* A dock that absorbs another has all that one remembers, and forgets nothing it
\* does not let go.
LEMMA FoldKeeps ==
  ASSUME Facts(fact), NEW s \in Docks, NEW t \in Docks, Sites!fold_answers(s, t)
  PROVE  KeptOn(t, Sites!Tag(Sites!Remembered(fact[s]), s))
  <1> DEFINE e == fact[s]
             o == fact[t]
             R == Sites!Tag(Sites!Remembered(e), s)
             D == Sites!Tag({x \in e.disputes \cup Sites!Own(e) : x.said.value # o.value}, s)
  <1>1. PICK L \in Sites!Listed(o.disputes, D, MAX_DISPUTES), M \in Sites!Listed(o.absorbed, R, MAX_REMEMBERED) :
             Sites!Write(t, [o EXCEPT !.disputes = L, !.absorbed = M],
                         ((o.disputes \cup D) \ L) \cup ((o.absorbed \cup R) \ M))
    BY DEF Sites!fold_answers
  <1> DEFINE n == [o EXCEPT !.disputes = L, !.absorbed = M]
             gone == ((o.disputes \cup D) \ L) \cup ((o.absorbed \cup R) \ M)
  <1>2. EntryFine(e) /\ EntryFine(o)
    BY DEF Facts
  <1>3. R \in SUBSET Sites!Answer
    BY <1>2, EntryHolds, Tagged
  <1>4. D \in SUBSET Sites!Answer
    <2>1. {x \in e.disputes \cup Sites!Own(e) : x.said.value # o.value} \in SUBSET Sites!Answer
      BY <1>2, EntryHolds
    <2> QED
      BY <2>1, Tagged
  <1>5. o = fact[t] /\ R = Sites!Tag(Sites!Remembered(fact[s]), s) /\ Sites!Write(t, n, gone)
    BY <1>1
  <1> HIDE DEF e, o, R, D
  <1>6. L \subseteq o.disputes \cup D /\ M \subseteq o.absorbed \cup R
    <2>1. L \subseteq o.disputes \cup D
      BY ListKeeps
    <2>2. M \subseteq o.absorbed \cup R
      BY ListKeeps
    <2> QED
      BY <2>1, <2>2
  <1>7. /\ DOMAIN o = FactFields /\ o = [f \in FactFields |-> o[f]]
        /\ o.value \in Values \cup {Sites!NoValue} /\ o.source \in {"none", "survey", "desk", "ops"}
        /\ o.said \in Sites!Key \cup {Sites!NoAnswer} /\ o.turned \in SUBSET Values
        /\ o.disputes \in SUBSET Sites!Answer /\ o.agreed \in SUBSET Sites!Answer
        /\ o.overruled \in SUBSET Sites!Answer /\ o.absorbed \in SUBSET Sites!Answer
        /\ o.settled \in Seq(SUBSET Sites!Answer)
        /\ o.said # Sites!NoAnswer => o.value # Sites!NoValue /\ o.source # "desk"
    BY <1>2, EntryHolds DEF EntryFine, Sites!Entry, FactFields
  <1>8. /\ DOMAIN n = FactFields /\ n = [f \in FactFields |-> n[f]] /\ n.value = o.value /\ n.source = o.source
        /\ n.said = o.said /\ n.turned = o.turned /\ n.agreed = o.agreed
        /\ n.overruled = o.overruled /\ n.settled = o.settled /\ n.disputes = L /\ n.absorbed = M
    BY <1>7 DEF FactFields
  <1>9. L \in SUBSET Sites!Answer /\ M \in SUBSET Sites!Answer
    BY <1>3, <1>4, <1>6, <1>7
  <1> HIDE DEF n
  <1>10. EntryFine(n)
    BY <1>7, <1>8, <1>9, EntryMade
  <1>11. /\ Sites!Remembered(n) = Sites!Own(n) \cup n.disputes \cup n.agreed \cup n.overruled \cup n.absorbed
                                  \cup Filed(n.settled)
         /\ Sites!Remembered(o) = Sites!Own(o) \cup o.disputes \cup o.agreed \cup o.overruled \cup o.absorbed
                                  \cup Filed(o.settled)
    BY <1>2, <1>10, EntryHolds
  <1>12. Sites!Own(n) = Sites!Own(o)
    BY <1>8 DEF Sites!Own
  <1>13. Sites!Remembered(o) \cup R \subseteq Sites!Remembered(n) \cup gone
    BY <1>8, <1>11, <1>12
  <1> HIDE DEF gone
  <1>14. KeptOn(t, R)
    BY <1>5, <1>10, <1>13, WriteKeeps
  <1> QED
    BY <1>5, <1>14

\* Undoing it takes away only what came from there.
LEMMA UnfoldKeeps ==
  ASSUME NEW s, NEW t, EntryFine(fact[t])
  PROVE  LET n == Sites!unfold_answers(s, t) IN
         EntryFine(n) /\ \A x \in Sites!Remembered(fact[t]) : x.from # s => x \in Sites!Remembered(n)
  <1> DEFINE o == fact[t]
             n == Sites!unfold_answers(s, t)
  <1>0. EntryFine(o)
    OBVIOUS
  <1>1. n = [o EXCEPT !.disputes = {x \in o.disputes : x.from # s}, !.absorbed = {x \in o.absorbed : x.from # s}]
    BY DEF Sites!unfold_answers
  <1> HIDE DEF n, o
  <1>2. /\ DOMAIN o = FactFields /\ o = [f \in FactFields |-> o[f]]
        /\ o.value \in Values \cup {Sites!NoValue} /\ o.source \in {"none", "survey", "desk", "ops"}
        /\ o.said \in Sites!Key \cup {Sites!NoAnswer} /\ o.turned \in SUBSET Values
        /\ o.disputes \in SUBSET Sites!Answer /\ o.agreed \in SUBSET Sites!Answer
        /\ o.overruled \in SUBSET Sites!Answer /\ o.absorbed \in SUBSET Sites!Answer
        /\ o.settled \in Seq(SUBSET Sites!Answer)
        /\ o.said # Sites!NoAnswer => o.value # Sites!NoValue /\ o.source # "desk"
    BY <1>0, EntryHolds DEF EntryFine, Sites!Entry, FactFields
  <1>3. /\ DOMAIN n = FactFields /\ n = [f \in FactFields |-> n[f]] /\ n.value = o.value /\ n.source = o.source
        /\ n.said = o.said /\ n.turned = o.turned /\ n.agreed = o.agreed
        /\ n.overruled = o.overruled /\ n.settled = o.settled
        /\ n.disputes = {x \in o.disputes : x.from # s} /\ n.absorbed = {x \in o.absorbed : x.from # s}
    BY <1>1, <1>2 DEF FactFields
  <1>4. EntryFine(n)
    BY <1>2, <1>3, EntryMade
  <1>5. /\ Sites!Remembered(n) = Sites!Own(n) \cup n.disputes \cup n.agreed \cup n.overruled \cup n.absorbed
                                 \cup Filed(n.settled)
        /\ Sites!Remembered(o) = Sites!Own(o) \cup o.disputes \cup o.agreed \cup o.overruled \cup o.absorbed
                                 \cup Filed(o.settled)
    BY <1>0, <1>4, EntryHolds
  <1>6. Sites!Own(n) = Sites!Own(o)
    BY <1>3 DEF Sites!Own
  <1>7. \A x \in Sites!Remembered(o) : x.from # s => x \in Sites!Remembered(n)
    BY <1>3, <1>5, <1>6
  <1> QED
    BY <1>4, <1>7 DEF n, o

\* Rows of merges, added and replaced.
Longer(ns, ms) == MergesFine(ns) /\ Len(ns) \in Nat /\ Len(ms) \in Nat /\ Len(ns) >= Len(ms)
LEMMA RowsChange ==
  ASSUME NEW ms, MergesFine(ms)
  PROVE  /\ DOMAIN ms = 1..Len(ms) /\ Len(ms) \in Nat /\ \A i \in DOMAIN ms : MergeRow(ms[i])
         /\ \A m : MergeRow(m) => Longer(Append(ms, m), ms)
         /\ \A m, i : MergeRow(m) /\ i \in DOMAIN ms => Longer([ms EXCEPT ![i] = m], ms)
  <1>1. DOMAIN ms = 1..Len(ms) /\ Len(ms) \in Nat /\ \A i \in DOMAIN ms : MergeRow(ms[i])
    BY DEF MergesFine, MergeRow
  <1>2. ASSUME NEW m, MergeRow(m) PROVE Longer(Append(ms, m), ms)
    <2> DEFINE ns == Append(ms, m)
    <2>1. ns \in Seq(MergeRows) /\ Len(ns) = Len(ms) + 1 /\ ns[Len(ms) + 1] = m /\ \A i \in 1..Len(ms) : ns[i] = ms[i]
      BY <1>2 DEF MergesFine, MergeRow
    <2> HIDE DEF ns
    <2>2. \A i \in DOMAIN ns : ns[i].src # ns[i].tgt
      BY <1>1, <1>2, <2>1 DEF MergeRow
    <2>3. Longer(ns, ms)
      BY <1>1, <2>1, <2>2 DEF Longer, MergesFine
    <2> QED
      BY <2>3 DEF ns
  <1>3. ASSUME NEW m, NEW i, MergeRow(m), i \in DOMAIN ms PROVE Longer([ms EXCEPT ![i] = m], ms)
    <2> DEFINE ns == [ms EXCEPT ![i] = m]
    <2>1. ns \in Seq(MergeRows) /\ Len(ns) = Len(ms) /\ ns[i] = m /\ \A j \in 1..Len(ms) : j # i => ns[j] = ms[j]
      BY <1>3 DEF MergesFine, MergeRow
    <2> HIDE DEF ns
    <2>2. \A j \in DOMAIN ns : ns[j].src # ns[j].tgt
      BY <1>1, <1>3, <2>1 DEF MergeRow
    <2>3. Longer(ns, ms)
      BY <1>1, <2>1, <2>2 DEF Longer, MergesFine
    <2> QED
      BY <2>3 DEF ns
  <1> QED
    BY <1>1, <1>2, <1>3

LEMMA StatusChange ==
  ASSUME NEW ms, MergesFine(ms), NEW i \in DOMAIN ms, NEW st \in MergeStates
  PROVE  Longer([ms EXCEPT ![i].status = st], ms)
  <1>1. MergeRow(ms[i])
    BY RowsChange
  <1>2. MergeRow([ms[i] EXCEPT !.status = st])
    BY <1>1 DEF MergeRow, MergeRows
  <1> QED
    BY <1>2, RowsChange

\* Where a dock that stands by itself has its entry replaced so, what was handed
\* on and what was taken is still there or lost.
LEMMA RootRemembers ==
  ASSUME Forest(into), Facts(fact), HandedOn(into, fact, lost), NEW c \in Docks, into[c] = Sites!Nil, NEW new, KeptOn(c, new)
  PROVE  /\ Facts(fact') /\ HandedOn(into, fact', lost') /\ lost \subseteq lost'
         /\ \A d \in Docks : \A x \in Sites!Remembered(fact[d]) : x \in Sites!Remembered(fact'[d]) \/ x.said \in lost'
  <1>1. DOMAIN fact' = Docks /\ EntryFine(fact'[c]) /\ \A d \in Docks : d # c => fact'[d] = fact[d]
    BY DEF KeptOn
  <1>2. Facts(fact')
    BY <1>1 DEF Facts
  <1>3. \A d \in Docks : \A x \in Sites!Remembered(fact[d]) : x \in Sites!Remembered(fact'[d]) \/ x.said \in lost'
    BY <1>1 DEF KeptOn
  <1>4. HandedOn(into, fact', lost')
    <2> SUFFICES ASSUME NEW d \in Docks, into[d] # Sites!Nil, NEW x \in Sites!Remembered(fact'[d]), x.said \notin lost'
                 PROVE  Saying(x.said, d) \in Sites!Remembered(fact'[into[d]])
      BY DEF HandedOn
    <2>1. d # c /\ fact'[d] = fact[d] /\ into[d] \in Docks
      BY <1>1 DEF Forest
    <2>2. Saying(x.said, d) \in Sites!Remembered(fact[into[d]])
      BY <2>1 DEF HandedOn, KeptOn
    <2>3. Saying(x.said, d).said = x.said
      BY DEF Saying
    <2> QED
      BY <1>3, <2>1, <2>2, <2>3
  <1> QED
    BY <1>2, <1>3, <1>4 DEF KeptOn

LEMMA StillHeld ==
  ASSUME NEW gv \in [Stops -> Seq(TakenAnswers)], Held(gv, fact, lost), lost \subseteq lost',
         \A d \in Docks : \A x \in Sites!Remembered(fact[d]) : x \in Sites!Remembered(fact'[d]) \/ x.said \in lost'
  PROVE  Held(gv, fact', lost')
  <1> SUFFICES ASSUME NEW p \in Stops, NEW i \in DOMAIN gv[p], gv[p][i].said \notin lost'
               PROVE  Saying(gv[p][i].said, Sites!Nil) \in Sites!Remembered(fact'[gv[p][i].site])
    BY DEF Held
  <1>1. gv[p][i].site \in Docks
    <2>1. gv[p] \in Seq(TakenAnswers)
      OBVIOUS
    <2>2. gv[p][i] \in TakenAnswers
      BY <2>1
    <2> QED
      BY <2>2 DEF TakenAnswers
  <1>2. Saying(gv[p][i].said, Sites!Nil) \in Sites!Remembered(fact[gv[p][i].site])
    BY DEF Held
  <1>3. Saying(gv[p][i].said, Sites!Nil).said = gv[p][i].said
    BY DEF Saying
  <1> QED
    BY <1>1, <1>2, <1>3

LEMMA ApplyStep ==
  ASSUME SiteNames, SiteInv, NEW a \in Admins, Sites!Apply(a)
  PROVE  SiteInv'
  <1> DEFINE s == adm[a].src
             t == adm[a].tgt
             r == adm[a].row
  <1>1. /\ adm[a].step = "lock" /\ adm' = [adm EXCEPT ![a] = Sites!Done] /\ UNCHANGED <<req, desk, given>>
    BY DEF Sites!Apply, Sites!Back
  <1>2. s \in Docks /\ t \in Docks /\ s # t /\ r \in 0..Len(merges)
    BY <1>1 DEF SiteInv, ErrandFine
  <1>3. /\ DOMAIN adm' = Admins /\ adm'[a] = Sites!Done /\ \A b \in Admins : b # a => adm'[b] = adm[b]
    BY <1>1 DEF SiteInv
  <1>4. \A n : ErrandFine(Sites!Done, n)
    BY DEF ErrandFine, Sites!Done
  <1>5. CASE ~Sites!StillApart(s, t)
    <2>1. UNCHANGED <<into, shop, fact, merges, lost>>
      BY <1>5 DEF Sites!Apply
    <2> QED
      BY <1>1, <1>3, <1>4, <2>1 DEF SiteInv
  <1>6. CASE Sites!StillApart(s, t)
    <2> DEFINE mrow == [src |-> s, tgt |-> t, moved |-> {h \in Shops : shop[h] = s}, status |-> "applied"]
               R == Sites!Tag(Sites!Remembered(fact[s]), s)
    <2>1. /\ into' = [into EXCEPT ![s] = t] /\ Sites!fold_answers(s, t)
          /\ merges' = IF r = Sites!Nil THEN Append(merges, mrow) ELSE [merges EXCEPT ![r] = mrow]
      BY <1>6 DEF Sites!Apply
    <2>2. into[s] = Sites!Nil /\ into[t] = Sites!Nil
      BY <1>6 DEF Sites!StillApart
    <2>3. Forest(into')
      BY <1>2, <2>1, <2>2, ForestGrows DEF SiteInv
    <2>4. EntryFine(fact[s])
      BY <1>2 DEF SiteInv, Facts
    <2>5. KeptOn(t, R)
      BY <1>2, <2>1, FoldKeeps DEF SiteInv
    <2>6. MergeRow(mrow)
      BY <1>2 DEF MergeRow, MergeRows, MergeStates
    <2>13. \A x \in Sites!Remembered(fact[s]) : Saying(x.said, s) \in R
      BY <1>2, <2>4, EntryHolds, Tagged
    <2> HIDE DEF mrow, R, s, t, r
    <2>7. /\ Facts(fact') /\ HandedOn(into, fact', lost') /\ lost \subseteq lost'
          /\ \A d \in Docks : \A x \in Sites!Remembered(fact[d]) : x \in Sites!Remembered(fact'[d]) \/ x.said \in lost'
      BY <1>2, <2>2, <2>5, RootRemembers DEF SiteInv
    <2>8. fact'[s] = fact[s]
      BY <1>2, <2>5 DEF KeptOn
    <2>9. HandedOn(into', fact', lost')
      <3> SUFFICES ASSUME NEW d \in Docks, into'[d] # Sites!Nil, NEW x \in Sites!Remembered(fact'[d]), x.said \notin lost'
                   PROVE  Saying(x.said, d) \in Sites!Remembered(fact'[into'[d]])
        BY DEF HandedOn
      <3>1. CASE d = s
        <4>1. into'[d] = t
          BY <1>2, <2>1, <3>1 DEF SiteInv, Forest
        <4>2. Saying(x.said, s) \in R /\ Saying(x.said, s).said = x.said
          BY <2>8, <2>13, <3>1 DEF Saying
        <4> QED
          BY <2>5, <3>1, <4>1, <4>2 DEF KeptOn
      <3>2. CASE d # s
        <4>1. into'[d] = into[d]
          BY <2>1, <3>2 DEF SiteInv, Forest
        <4> QED
          BY <2>7, <4>1 DEF HandedOn
      <3> QED
        BY <3>1, <3>2
    <2>10. Held(given', fact', lost')
      BY <1>1, <2>7, StillHeld DEF SiteInv
    <2>11. MergesFine(merges') /\ Len(merges') \in Nat /\ Len(merges') >= Len(merges) /\ Len(merges) \in Nat
      <3>1. MergesFine(merges)
        BY DEF SiteInv
      <3>2. r # Sites!Nil => r \in DOMAIN merges
        BY <1>2, <3>1, RowsChange DEF Sites!Nil
      <3>3. Longer(merges', merges)
        BY <2>1, <2>6, <3>1, <3>2, RowsChange
      <3> QED
        BY <3>3 DEF Longer
    <2>12. \A b \in Admins : ErrandFine(adm'[b], Len(merges'))
      <3>1. \A b \in Admins : ErrandFine(adm[b], Len(merges))
        BY DEF SiteInv
      <3>2. ASSUME NEW x, ErrandFine(x, Len(merges)) PROVE ErrandFine(x, Len(merges'))
        BY <2>11, <3>2 DEF ErrandFine
      <3> QED
        BY <1>3, <1>4, <3>1, <3>2
    <2> QED
      BY <1>1, <1>3, <2>3, <2>7, <2>9, <2>10, <2>11, <2>12 DEF SiteInv
  <1> QED
    BY <1>5, <1>6

LEMMA RevertStep ==
  ASSUME SiteNames, SiteInv, NEW a \in Admins, Sites!Revert(a)
  PROVE  SiteInv'
  <1> DEFINE r == adm[a].row
             s == merges[r].src
             t == merges[r].tgt
  <1>1. /\ adm[a].step = "revert" /\ adm' = [adm EXCEPT ![a] = Sites!Done] /\ UNCHANGED <<req, desk, given>>
    BY DEF Sites!Revert, Sites!Back
  <1>2. r \in DOMAIN merges /\ MergeRow(merges[r])
    <2>1. r \in 1..Len(merges) /\ MergesFine(merges)
      BY <1>1 DEF SiteInv, ErrandFine
    <2> QED
      BY <2>1, RowsChange
  <1>20. s \in Docks /\ t \in Docks /\ s # t
    BY <1>2 DEF MergeRow, MergeRows
  <1>3. /\ DOMAIN adm' = Admins /\ adm'[a] = Sites!Done /\ \A b \in Admins : b # a => adm'[b] = adm[b]
    BY <1>1 DEF SiteInv
  <1>4. \A n : ErrandFine(Sites!Done, n)
    BY DEF ErrandFine, Sites!Done
  <1>5. CASE into[t] # Sites!Nil
    <2>1. UNCHANGED <<into, shop, fact, merges, lost>>
      BY <1>5 DEF Sites!Revert
    <2> QED
      BY <1>1, <1>3, <1>4, <2>1 DEF SiteInv
  <1>6. CASE into[t] = Sites!Nil
    <2> DEFINE e == Sites!unfold_answers(s, t)
    <2>1. /\ into' = [into EXCEPT ![s] = Sites!Nil] /\ fact' = [fact EXCEPT ![t] = e]
          /\ merges' = [merges EXCEPT ![r].status = "reverted"] /\ lost' = lost
      BY <1>6 DEF Sites!Revert
    <2>3. Forest(into')
      BY <1>20, <2>1, ForestShrinks DEF SiteInv, SiteNames
    <2>4. EntryFine(fact[t])
      BY <1>20 DEF SiteInv, Facts
    <2>5. EntryFine(e) /\ \A x \in Sites!Remembered(fact[t]) : x.from # s => x \in Sites!Remembered(e)
      BY <2>4, UnfoldKeeps
    <2> HIDE DEF e
    <2>6. DOMAIN fact' = Docks /\ fact'[t] = e /\ \A d \in Docks : d # t => fact'[d] = fact[d]
      BY <1>20, <2>1 DEF SiteInv, Facts
    <2>7. Facts(fact')
      BY <2>5, <2>6 DEF SiteInv, Facts
    <2>8. \A d \in Docks : into'[d] = IF d = s THEN Sites!Nil ELSE into[d]
      BY <2>1 DEF SiteInv, Forest
    <2>9. HandedOn(into', fact', lost')
      <3> SUFFICES ASSUME NEW d \in Docks, into'[d] # Sites!Nil, NEW x \in Sites!Remembered(fact'[d]), x.said \notin lost
                   PROVE  Saying(x.said, d) \in Sites!Remembered(fact'[into'[d]])
        BY <2>1 DEF HandedOn
      <3>1. d # s /\ into'[d] = into[d] /\ d # t /\ into[d] \in Docks
        BY <1>6, <2>8 DEF SiteInv, Forest
      <3>2. Saying(x.said, d) \in Sites!Remembered(fact[into[d]])
        BY <2>6, <3>1 DEF HandedOn, SiteInv
      <3>3. Saying(x.said, d).from # s
        BY <3>1 DEF Saying
      <3> QED
        BY <2>5, <2>6, <3>1, <3>2, <3>3
    <2>10. Held(given', fact', lost')
      <3> SUFFICES ASSUME NEW p \in Stops, NEW i \in DOMAIN given[p], given[p][i].said \notin lost
                   PROVE  Saying(given[p][i].said, Sites!Nil) \in Sites!Remembered(fact'[given[p][i].site])
        BY <1>1, <2>1 DEF Held
      <3>1. /\ given[p][i].site \in Docks
            /\ Saying(given[p][i].said, Sites!Nil) \in Sites!Remembered(fact[given[p][i].site])
        <4>1. given[p] \in Seq(TakenAnswers)
          BY DEF SiteInv
        <4>2. given[p][i] \in TakenAnswers
          BY <4>1
        <4> QED
          BY <4>2 DEF Held, SiteInv, TakenAnswers
      <3>2. Saying(given[p][i].said, Sites!Nil).from # s
        BY <1>20 DEF Saying, SiteNames
      <3> QED
        BY <2>5, <2>6, <3>1, <3>2
    <2>11. MergesFine(merges') /\ Len(merges') \in Nat /\ Len(merges') >= Len(merges) /\ Len(merges) \in Nat
      <3>1. MergesFine(merges)
        BY DEF SiteInv
      <3>2. Longer([merges EXCEPT ![r].status = "reverted"], merges)
        <4>1. "reverted" \in MergeStates
          BY DEF MergeStates
        <4> HIDE DEF r
        <4> QED
          BY <1>2, <3>1, <4>1, StatusChange
      <3> QED
        BY <2>1, <3>2 DEF Longer
    <2>12. \A b \in Admins : ErrandFine(adm'[b], Len(merges'))
      <3>1. \A b \in Admins : ErrandFine(adm[b], Len(merges))
        BY DEF SiteInv
      <3>2. ASSUME NEW x, ErrandFine(x, Len(merges)) PROVE ErrandFine(x, Len(merges'))
        BY <2>11, <3>2 DEF ErrandFine
      <3> QED
        BY <1>3, <1>4, <3>1, <3>2
    <2> QED
      BY <1>1, <1>3, <2>3, <2>7, <2>9, <2>10, <2>11, <2>12 DEF SiteInv
  <1> QED
    BY <1>5, <1>6

\* An answer is taken, and a dispute settled, at a dock that stands by itself.
LEMMA FactStep ==
  ASSUME SiteNames, SiteInv,
         (\E s \in Stops : Sites!AnswerWrites(s)) \/ (\E take \in Values \cup {Sites!NoValue} : Sites!settle_dispute(take))
  PROVE  SiteInv'
  <1>1. ASSUME NEW s \in Stops, Sites!AnswerWrites(s) PROVE SiteInv'
    <2> DEFINE c == Sites!canonical_location(req[s].site)
               k == [stop |-> s, value |-> req[s].value, at |-> Len(given[s])]
               g == [site |-> c, said |-> k]
    <2>1. /\ req[s] # Sites!Idle /\ req' = [req EXCEPT ![s] = Sites!Idle]
          /\ UNCHANGED <<into, shop, merges, adm, desk>>
          /\ \/ UNCHANGED <<fact, given, lost>>
             \/ Sites!Take(c, Saying(k, Sites!Nil)) /\ given' = [given EXCEPT ![s] = Append(@, g)]
      BY <1>1, Zenon DEF Sites!AnswerWrites, Sites!SiteUnderLock, Saying
    <2>2. req[s].site \in Docks /\ req[s].value \in Values
      BY <2>1 DEF SiteInv
    <2>3. c \in Docks /\ into[c] = Sites!Nil
      BY <2>2, CanonicalEnds DEF SiteInv
    <2>9. DOMAIN req' = Stops /\ \A p \in Stops : req'[p] # Sites!Idle => req'[p] = req[p]
      BY <2>1 DEF SiteInv
    <2>10. CASE UNCHANGED <<fact, given, lost>>
      BY <2>1, <2>9, <2>10 DEF SiteInv
    <2>11. CASE Sites!Take(c, Saying(k, Sites!Nil)) /\ given' = [given EXCEPT ![s] = Append(@, g)]
      <3> DEFINE x == Saying(k, Sites!Nil)
      <3>1. given[s] \in Seq(TakenAnswers) /\ Len(given[s]) \in Nat
        BY DEF SiteInv
      <3>2. k \in Sites!Key
        BY <2>2, <3>1 DEF Sites!Key
      <3> HIDE DEF c, k
      <3>3. x \in Sites!Answer /\ x = Saying(x.said, Sites!Nil) /\ x.said = k
        BY <3>2 DEF Saying, Sites!Answer
      <3>4. g \in TakenAnswers /\ g.said = k /\ g.site = c
        BY <2>3, <3>2 DEF TakenAnswers
      <3> HIDE DEF x, g
      <3>5. KeptOn(c, {x})
        BY <2>3, <2>11, <3>3, TakeKeeps DEF SiteInv, x
      <3>6. /\ Facts(fact') /\ HandedOn(into, fact', lost') /\ lost \subseteq lost'
            /\ \A d \in Docks : \A y \in Sites!Remembered(fact[d]) : y \in Sites!Remembered(fact'[d]) \/ y.said \in lost'
        BY <2>3, <3>5, RootRemembers DEF SiteInv
      <3>7. Held(given, fact', lost')
        BY <3>6, StillHeld DEF SiteInv
      <3>8. /\ given' \in [Stops -> Seq(TakenAnswers)] /\ given'[s] = Append(given[s], g)
            /\ \A p \in Stops : p # s => given'[p] = given[p]
        BY <2>11, <3>1, <3>4 DEF SiteInv
      <3>9. Held(given', fact', lost')
        <4> SUFFICES ASSUME NEW p \in Stops, NEW i \in DOMAIN given'[p], given'[p][i].said \notin lost'
                     PROVE  Saying(given'[p][i].said, Sites!Nil) \in Sites!Remembered(fact'[given'[p][i].site])
          BY DEF Held
        <4>1. CASE p = s /\ i = Len(given[s]) + 1
          <5>1. given'[p][i] = g
            BY <3>1, <3>4, <3>8, <4>1
          <5> QED
            BY <3>3, <3>4, <3>5, <5>1 DEF KeptOn, x
        <4>2. CASE p # s \/ i # Len(given[s]) + 1
          <5>1. i \in DOMAIN given[p] /\ given'[p][i] = given[p][i]
            BY <3>1, <3>4, <3>8, <4>2
          <5> QED
            BY <3>7, <5>1 DEF Held
        <4> QED
          BY <4>1, <4>2
      <3> QED
        BY <2>1, <2>9, <3>6, <3>8, <3>9 DEF SiteInv
    <2> QED
      BY <2>1, <2>10, <2>11
  <1>2. ASSUME NEW take \in Values \cup {Sites!NoValue}, Sites!settle_dispute(take) PROVE SiteInv'
    <2> DEFINE c == Sites!canonical_location(desk.dock)
               all == Sites!Settlements(fact[c], take)
               gone == IF Len(all) > MAX_SETTLED THEN Head(all) ELSE {}
    <2>1. /\ desk # Sites!Idle /\ desk' = Sites!Idle /\ UNCHANGED <<into, shop, merges, adm, req, given>>
          /\ (UNCHANGED <<fact, lost>>) \/ Sites!Write(c, Sites!Settled(fact[c], take), gone)
      BY <1>2, Zenon DEF Sites!settle_dispute
    <2>2. c \in Docks /\ into[c] = Sites!Nil
      BY <2>1, CanonicalEnds DEF SiteInv
    <2> HIDE DEF c
    <2>6. CASE UNCHANGED <<fact, lost>>
      BY <2>1, <2>6 DEF SiteInv
    <2>7. CASE Sites!Write(c, Sites!Settled(fact[c], take), gone)
      <3>1. KeptOn(c, {})
        BY <2>2, <2>7, SettledKeeps DEF SiteInv
      <3>2. /\ Facts(fact') /\ HandedOn(into, fact', lost') /\ lost \subseteq lost'
            /\ \A d \in Docks : \A x \in Sites!Remembered(fact[d]) : x \in Sites!Remembered(fact'[d]) \/ x.said \in lost'
        BY <2>2, <3>1, RootRemembers DEF SiteInv
      <3>3. Held(given', fact', lost')
        BY <2>1, <3>2, StillHeld DEF SiteInv
      <3> QED
        BY <2>1, <3>2, <3>3 DEF SiteInv
    <2> QED
      BY <2>1, <2>6, <2>7
  <1> QED
    BY <1>1, <1>2

\* What an admin's errand leaves as it is, but for the rows.
LEMMA RowStep ==
  ASSUME SiteNames, SiteInv, NEW x, NEW a \in Admins,
         adm' = [adm EXCEPT ![a] = x], UNCHANGED <<into, fact, req, desk, given, lost>>,
         ErrandFine(x, Len(merges)), Longer(merges', merges)
  PROVE  SiteInv'
  <1>1. /\ DOMAIN adm' = Admins /\ adm'[a] = x /\ \A b \in Admins : b # a => adm'[b] = adm[b]
    BY DEF SiteInv
  <1>2. MergesFine(merges') /\ Len(merges') \in Nat /\ Len(merges') >= Len(merges) /\ Len(merges) \in Nat
    BY DEF Longer
  <1>3. \A b \in Admins : ErrandFine(adm'[b], Len(merges))
    BY <1>1 DEF SiteInv
  <1>4. \A b \in Admins : ErrandFine(adm'[b], Len(merges'))
    BY <1>2, <1>3 DEF ErrandFine
  <1> QED
    BY <1>1, <1>2, <1>4 DEF SiteInv

LEMMA ErrandStep ==
  ASSUME SiteNames, SiteInv, NEW a \in Admins,
         \/ Sites!reject_merge(a) \/ Sites!redo_merge(a) \/ Sites!Look(a)
         \/ \E m \in DOMAIN merges, what \in {"confirm", "reject", "revert", "redo"} : Sites!Pick(a, m, what)
  PROVE  SiteInv'
  <1>0. /\ MergesFine(merges) /\ DOMAIN merges = 1..Len(merges) /\ Len(merges) \in Nat
        /\ \A i \in DOMAIN merges : MergeRow(merges[i])
    BY RowsChange DEF SiteInv
  <1>1. Longer(merges, merges)
    BY <1>0 DEF Longer
  <1>2. \A n : ErrandFine(Sites!Done, n)
    BY DEF ErrandFine, Sites!Done
  <1>3. \A i \in DOMAIN merges, st \in MergeStates : Longer([merges EXCEPT ![i].status = st], merges)
    BY <1>0, StatusChange
  <1>4. "rejected" \in MergeStates /\ "superseded" \in MergeStates
    BY DEF MergeStates
  <1>5. CASE Sites!reject_merge(a)
    <2>1. /\ adm[a].step = "reject" /\ adm' = [adm EXCEPT ![a] = Sites!Done]
          /\ merges' = [merges EXCEPT ![adm[a].row].status = "rejected"] /\ UNCHANGED <<into, fact, req, desk, given, lost>>
      BY <1>5 DEF Sites!reject_merge, Sites!Back
    <2>2. adm[a].row \in DOMAIN merges
      BY <1>0, <2>1 DEF SiteInv, ErrandFine
    <2>3. Longer(merges', merges)
      BY <1>3, <1>4, <2>1, <2>2
    <2> QED
      BY <1>2, <2>1, <2>3, RowStep
  <1>6. CASE Sites!redo_merge(a)
    <2> DEFINE m == merges[adm[a].row]
    <2>1. adm[a].step = "redo" /\ UNCHANGED <<into, fact, req, desk, given, merges, lost>>
      BY <1>6 DEF Sites!redo_merge
    <2>2. adm[a].row \in DOMAIN merges
      BY <1>0, <2>1 DEF SiteInv, ErrandFine
    <2>3. m.src \in Docks /\ m.tgt \in Docks /\ m.src # m.tgt
      BY <1>0, <2>2 DEF MergeRow, MergeRows
    <2>4. \/ adm' = [adm EXCEPT ![a] = [step |-> "lock", row |-> Sites!Nil, src |-> m.src, tgt |-> m.tgt]]
          \/ adm' = [adm EXCEPT ![a] = Sites!Done]
      BY <1>6 DEF Sites!redo_merge, Sites!Back
    <2> HIDE DEF m
    <2>5. ErrandFine([step |-> "lock", row |-> Sites!Nil, src |-> m.src, tgt |-> m.tgt], Len(merges))
      BY <1>0, <2>3 DEF ErrandFine, Sites!Nil
    <2> QED
      BY <1>1, <1>2, <2>1, <2>4, <2>5, RowStep
  <1>7. CASE Sites!Look(a)
    <2> DEFINE m == adm[a].row
               s == Sites!canonical_location(merges[m].src)
               t == Sites!canonical_location(merges[m].tgt)
    <2>1. adm[a].step = "confirm" /\ UNCHANGED <<into, fact, req, desk, given, lost>>
      BY <1>7 DEF Sites!Look
    <2>2. m \in DOMAIN merges
      BY <1>0, <2>1 DEF SiteInv, ErrandFine
    <2>3. merges[m].src \in Docks /\ merges[m].tgt \in Docks
      BY <1>0, <2>2 DEF MergeRow, MergeRows
    <2>4. s \in Docks /\ t \in Docks
      BY <2>3, CanonicalEnds DEF SiteInv
    <2>5. \/ merges' = [merges EXCEPT ![m].status = "superseded"] /\ adm' = [adm EXCEPT ![a] = Sites!Done]
          \/ s # t /\ adm' = [adm EXCEPT ![a] = [step |-> "lock", row |-> m, src |-> s, tgt |-> t]] /\ UNCHANGED merges
      BY <1>7 DEF Sites!Look, Sites!Back
    <2> HIDE DEF m, s, t
    <2>6. s # t => ErrandFine([step |-> "lock", row |-> m, src |-> s, tgt |-> t], Len(merges))
      BY <1>0, <2>2, <2>4 DEF ErrandFine
    <2>7. Longer([merges EXCEPT ![m].status = "superseded"], merges)
      BY <1>3, <1>4, <2>2
    <2> QED
      BY <1>1, <1>2, <2>1, <2>5, <2>6, <2>7, RowStep
  <1>8. ASSUME NEW m \in DOMAIN merges, NEW what \in {"confirm", "reject", "revert", "redo"}, Sites!Pick(a, m, what)
        PROVE  SiteInv'
    <2>1. adm' = [adm EXCEPT ![a] = [step |-> what, row |-> m]] /\ UNCHANGED <<into, fact, req, desk, given, merges, lost>>
      BY <1>8 DEF Sites!Pick
    <2>2. ErrandFine([step |-> what, row |-> m], Len(merges))
      BY <1>0, <1>8 DEF ErrandFine
    <2> QED
      BY <1>1, <2>1, <2>2, RowStep
  <1> QED
    BY <1>5, <1>6, <1>7, <1>8

\* The steps that touch neither answers nor aliases.
LEMMA PlainStep ==
  ASSUME SiteNames, SiteInv,
         \/ \E h \in Shops : Sites!LinkShop(h)
         \/ \E p \in Alike : Sites!Propose(p)
         \/ \E s \in Stops : \E v \in Says[s] : Sites!AnswerReads(s, v)
         \/ \E d \in Docks : Sites!OpenDispute(d) \/ Sites!Prefill(d)
         \/ UNCHANGED Sites!vars
  PROVE  SiteInv'
  <1>1. CASE (\E h \in Shops : Sites!LinkShop(h)) \/ UNCHANGED Sites!vars
    <2>1. UNCHANGED <<into, merges, fact, adm, req, desk, given, lost>>
      BY <1>1 DEF Sites!LinkShop, Sites!vars
    <2> QED
      BY <2>1 DEF SiteInv
  <1>2. ASSUME NEW p \in Alike, Sites!Propose(p) PROVE SiteInv'
    <2> DEFINE n == [src |-> p[1], tgt |-> p[2], moved |-> {}, status |-> "proposed"]
    <2>1. merges' = Append(merges, n) /\ UNCHANGED <<into, fact, adm, req, desk, given, lost>>
      BY <1>2 DEF Sites!Propose
    <2>2. p[1] \in Docks /\ p[2] \in Docks /\ p[1] # p[2]
      BY <1>2 DEF SiteNames
    <2>3. MergeRow(n)
      BY <2>2 DEF MergeRow, MergeRows, MergeStates
    <2> HIDE DEF n
    <2>4. MergesFine(merges)
      BY DEF SiteInv
    <2>5. Longer(merges', merges)
      BY <2>1, <2>3, <2>4, RowsChange
    <2>6. \A b \in Admins : ErrandFine(adm'[b], Len(merges'))
      BY <2>1, <2>5 DEF SiteInv, ErrandFine, Longer
    <2> QED
      BY <2>1, <2>5, <2>6 DEF SiteInv, Longer
  <1>3. ASSUME NEW s \in Stops, NEW v \in Says[s], Sites!AnswerReads(s, v) PROVE SiteInv'
    <2> DEFINE n == [step |-> "lock", site |-> Sites!canonical_location(At[s]), value |-> v]
    <2>1. req' = [req EXCEPT ![s] = n] /\ UNCHANGED <<into, merges, fact, adm, desk, given, lost>>
      BY <1>3 DEF Sites!AnswerReads
    <2>2. At[s] \in Docks /\ v \in Values
      BY DEF SiteNames
    <2>3. n.site \in Docks /\ n.value \in Values
      BY <2>2, CanonicalEnds DEF SiteInv
    <2> HIDE DEF n
    <2>4. DOMAIN req' = Stops /\ req'[s] = n /\ \A p \in Stops : p # s => req'[p] = req[p]
      BY <2>1 DEF SiteInv
    <2> QED
      BY <2>1, <2>3, <2>4 DEF SiteInv
  <1>4. ASSUME NEW d \in Docks, Sites!OpenDispute(d) PROVE SiteInv'
    <2>1. UNCHANGED <<into, merges, fact, adm, req, given, lost>> /\ desk'.dock = d
      BY <1>4 DEF Sites!OpenDispute
    <2> QED
      BY <2>1 DEF SiteInv
  <1>5. ASSUME NEW d \in Docks, Sites!Prefill(d) PROVE SiteInv'
    <2> DEFINE o == fact[d]
               n == [o EXCEPT !.value = Guessed[d], !.source = "desk"]
    <2>1. fact' = [fact EXCEPT ![d] = n] /\ UNCHANGED <<into, merges, adm, req, desk, given, lost>> /\ o.value = Sites!NoValue
      BY <1>5 DEF Sites!Prefill, SiteInv, Facts
    <2>2. EntryFine(o) /\ o = fact[d]
      BY DEF SiteInv, Facts
    <2>3. Guessed[d] \in Values \cup {Sites!NoValue}
      BY DEF SiteNames
    <2> HIDE DEF o
    <2>4. /\ DOMAIN o = FactFields /\ o = [f \in FactFields |-> o[f]] /\ o.said = Sites!NoAnswer
      BY <2>1, <2>2, EntryHolds DEF EntryFine, Sites!Entry, FactFields
    <2>5. /\ DOMAIN n = FactFields /\ n = [f \in FactFields |-> n[f]] /\ n.value = Guessed[d] /\ n.source = "desk"
          /\ n.said = o.said /\ n.turned = o.turned /\ n.agreed = o.agreed /\ n.disputes = o.disputes
          /\ n.overruled = o.overruled /\ n.settled = o.settled /\ n.absorbed = o.absorbed
      BY <2>4 DEF FactFields
    <2> HIDE DEF n
    <2>6. EntryFine(n)
      BY <2>2, <2>3, <2>4, <2>5, EntryHolds, EntryMade
    <2>7. Sites!Own(n) = Sites!Own(o)
      BY <2>5 DEF Sites!Own
    <2>8. Sites!Remembered(n) = Sites!Remembered(o)
      <3>1. /\ Sites!Remembered(n) = Sites!Own(n) \cup n.disputes \cup n.agreed \cup n.overruled \cup n.absorbed
                                     \cup Filed(n.settled)
            /\ Sites!Remembered(o) = Sites!Own(o) \cup o.disputes \cup o.agreed \cup o.overruled \cup o.absorbed
                                     \cup Filed(o.settled)
        BY <2>2, <2>6, EntryHolds
      <3> QED
        BY <2>5, <2>7, <3>1
    <2>9. DOMAIN fact' = Docks /\ fact'[d] = n /\ \A c \in Docks : c # d => fact'[c] = fact[c]
      BY <2>1 DEF SiteInv, Facts
    <2>10. Facts(fact') /\ \A c \in Docks : Sites!Remembered(fact'[c]) = Sites!Remembered(fact[c])
      BY <2>2, <2>6, <2>8, <2>9 DEF SiteInv, Facts
    <2>11. HandedOn(into, fact', lost)
      <3> SUFFICES ASSUME NEW c \in Docks, into[c] # Sites!Nil, NEW x \in Sites!Remembered(fact'[c]), x.said \notin lost
                   PROVE  Saying(x.said, c) \in Sites!Remembered(fact'[into[c]])
        BY DEF HandedOn
      <3>1. into[c] \in Docks
        BY DEF SiteInv, Forest
      <3> QED
        BY <2>10, <3>1 DEF SiteInv, HandedOn
    <2>12. Held(given, fact', lost)
      BY <2>1, <2>10, StillHeld DEF SiteInv
    <2> QED
      BY <2>1, <2>10, <2>11, <2>12 DEF SiteInv
  <1> QED
    BY <1>1, <1>2, <1>3, <1>4, <1>5

LEMMA SiteInvHolds ==
  ASSUME SiteNames
  PROVE  Sites!Spec => []SiteInv
  <1>1. Sites!Init => SiteInv
    <2> SUFFICES ASSUME Sites!Init PROVE SiteInv
      OBVIOUS
    <2>1. Forest(into)
      <3> DEFINE z == [d \in Docks |-> 0]
      <3>1. z \in [Docks -> Nat] /\ \A d \in Docks : into[d] = Sites!Nil
        BY DEF Sites!Init
      <3> HIDE DEF z
      <3>2. Descends(into, z)
        BY <3>1 DEF Descends
      <3>3. into \in [Docks -> Docks \cup {Sites!Nil}]
        BY DEF Sites!Init
      <3> QED
        BY <3>1, <3>2, <3>3 DEF Forest
    <2>3. EntryFine(Sites!Blank)
      BY DEF EntryFine, Sites!Entry, Sites!Blank
    <2>4. DOMAIN fact = Docks /\ \A d \in Docks : fact[d] = Sites!Blank
      BY DEF Sites!Init
    <2>5. Facts(fact)
      BY <2>3, <2>4 DEF Facts
    <2>6. HandedOn(into, fact, lost)
      BY DEF HandedOn, Sites!Init
    <2>7. given \in [Stops -> Seq(TakenAnswers)] /\ Held(given, fact, lost)
      BY DEF Held, Sites!Init
    <2>8. MergesFine(merges)
      BY DEF MergesFine, Sites!Init
    <2>9. DOMAIN adm = Admins /\ \A a \in Admins : ErrandFine(adm[a], Len(merges))
      BY DEF Sites!Init, Sites!Idle, ErrandFine
    <2> QED
      BY <2>1, <2>5, <2>6, <2>7, <2>8, <2>9 DEF SiteInv, Sites!Init
  <1>2. SiteInv /\ [Sites!Next]_Sites!vars => SiteInv'
    <2> SUFFICES ASSUME SiteInv, [Sites!Next]_Sites!vars PROVE SiteInv'
      OBVIOUS
    <2>1. ASSUME NEW a \in Admins,
                 \/ Sites!reject_merge(a) \/ Sites!redo_merge(a) \/ Sites!Look(a) \/ Sites!Apply(a) \/ Sites!Revert(a)
                 \/ \E m \in DOMAIN merges, what \in {"confirm", "reject", "revert", "redo"} : Sites!Pick(a, m, what)
          PROVE  SiteInv'
      BY <2>1, ErrandStep, ApplyStep, RevertStep
    <2>2. CASE \/ \E s \in Stops : Sites!AnswerWrites(s)
               \/ \E take \in Values \cup {Sites!NoValue} : Sites!settle_dispute(take)
      BY <2>2, FactStep
    <2>3. CASE \/ \E h \in Shops : Sites!LinkShop(h)
               \/ \E p \in Alike : Sites!Propose(p)
               \/ \E s \in Stops : \E v \in Says[s] : Sites!AnswerReads(s, v)
               \/ \E d \in Docks : Sites!OpenDispute(d) \/ Sites!Prefill(d)
               \/ UNCHANGED Sites!vars
      BY <2>3, PlainStep
    <2> QED
      BY <2>1, <2>2, <2>3 DEF Sites!Next
  <1> QED
    BY <1>1, <1>2, PTL DEF Sites!Spec

\* However merges race, following the aliases from any dock ends, within as
\* many steps as there are docks, at one that is not merged.
THEOREM AliasesAlwaysEnd ==
  ASSUME SiteNames
  PROVE  Sites!Spec => []Sites!AliasesEnd
  <1>1. SiteInv => Sites!AliasesEnd
    BY CanonicalEnds DEF SiteInv, Sites!AliasesEnd
  <1> QED
    BY <1>1, SiteInvHolds, PTL

\* However docks are merged, undone and redone while drivers answer and the
\* desk settles, every answer that record_site_facts took is on record at the
\* dock its site is now known as, unless a list it was on was full and let it
\* go: whatever the caps are, nothing but a full list loses an answer.
THEOREM AnswersStayOnRecord ==
  ASSUME SiteNames
  PROVE  Sites!Spec => []Sites!AnswersAreKept
  <1>1. SiteInv => Sites!AnswersAreKept
    <2> SUFFICES ASSUME SiteInv, NEW s \in Stops, NEW i \in DOMAIN given[s], given[s][i].said \notin lost
                 PROVE  given[s][i].said \in Sites!Keys(Sites!Remembered(fact[Sites!canonical_location(given[s][i].site)]))
      BY DEF Sites!AnswersAreKept
    <2> DEFINE k == given[s][i].said
               S == {d \in Docks : \E x \in Sites!Remembered(fact[d]) : x.said = k}
    <2>0. \A c : Saying(k, c).said = k
      BY DEF Saying
    <2>1. ASSUME NEW c \in S PROVE NextAlias(into, c) \in S
      <3>1. CASE into[c] = Sites!Nil
        BY <3>1 DEF NextAlias
      <3>2. CASE into[c] # Sites!Nil
        <4>1. PICK x \in Sites!Remembered(fact[c]) : x.said = k
          OBVIOUS
        <4>2. into[c] \in Docks
          BY <3>2 DEF SiteInv, Forest
        <4>3. Saying(k, c) \in Sites!Remembered(fact[into[c]])
          BY <3>2, <4>1 DEF SiteInv, HandedOn
        <4> QED
          BY <2>0, <3>2, <4>2, <4>3 DEF NextAlias
      <3> QED
        BY <3>1, <3>2
    <2>2. given[s][i].site \in S
      <3>1. given[s][i].site \in Docks
        <4>1. given[s] \in Seq(TakenAnswers)
          BY DEF SiteInv
        <4>2. given[s][i] \in TakenAnswers
          BY <4>1
        <4> QED
          BY <4>2 DEF TakenAnswers
      <3>2. Saying(k, Sites!Nil) \in Sites!Remembered(fact[given[s][i].site])
        BY DEF SiteInv, Held
      <3> QED
        BY <2>0, <3>1, <3>2
    <2> HIDE DEF S
    <2>3. Sites!canonical_location(given[s][i].site) \in S
      BY <2>1, <2>2, CanonicalKeeps
    <2> QED
      BY <2>3 DEF S, Sites!Keys, Sites!dispute_key
  <1> QED
    BY <1>1, SiteInvHolds, PTL

-----------------------------------------------------------------------------
(* What kind of place a dock is.                                           *)

Labels == INSTANCE DockProfiles

LabelNames == Labels!NoClass \notin Classes /\ Labels!Job \notin Labellers

\* The nightly job is about to write its guess over the dock's class.
Guessing(job, d) == job # Labels!Idle /\ d \in job.docks /\ Guess[d] # Labels!NoClass

LabelFine(c) ==
  /\ DOMAIN c = {"value", "source"} /\ c.source \in {"none", "inferred", "human"}
  /\ c.value = Labels!NoClass <=> c.source = "none"

\* The job writes a dock once: its guess is not on a dock it is about to write,
\* nor in what a labeller of one has read.  Since a guess was read, only people
\* have written.
ReadFine(o, cl, an, job) ==
  /\ o.dock \in Docks /\ o.value \in Classes /\ LabelFine(o.read)
  /\ o.read.source # "none" => cl[o.dock].value # Labels!NoClass
  /\ o.read.source = "inferred" =>
       ~Guessing(job, o.dock) /\ cl[o.dock].value \in an[o.dock] \cup {o.read.value}

LabelInv ==
  /\ DOMAIN class = Docks /\ (\A d \in Docks : LabelFine(class[d]))
  /\ DOMAIN answers = Docks /\ DOMAIN open = Labellers \cup {Labels!Job}
  /\ \A d \in Docks : class[d].source = "inferred" => ~Guessing(open[Labels!Job], d)
  /\ \A a \in Labellers : open[a] # Labels!Idle => ReadFine(open[a], class, answers, open[Labels!Job])
  /\ Labels!LabelsHaveAnAuthor

LEMMA ClassifyStep ==
  ASSUME LabelNames, LabelInv, Labels!ClassifyReads \/ Labels!ClassifyWrites
  PROVE  LabelInv'
  <1> DEFINE job == open[Labels!Job]
  <1>1. CASE Labels!ClassifyReads
    <2> DEFINE n == [kind |-> "classify",
                     docks |-> {d \in Labels!Unlabelled :
                                  Labels!Cardinality({c \in Labels!Unlabelled : c < d}) < CLASSIFY_LIMIT}]
    <2>1. open' = [open EXCEPT ![Labels!Job] = n] /\ UNCHANGED <<class, answers>>
      BY <1>1 DEF Labels!ClassifyReads
    <2>2. n.docks \subseteq {d \in Docks : class[d].value = Labels!NoClass}
      BY DEF Labels!Unlabelled, Labels!Standing
    <2> HIDE DEF n
    <2>3. /\ DOMAIN open' = Labellers \cup {Labels!Job} /\ open'[Labels!Job] = n
          /\ \A a \in Labellers : open'[a] = open[a]
      BY <2>1 DEF LabelInv, LabelNames
    <2>4. \A d \in Docks : class[d].value # Labels!NoClass => ~Guessing(n, d)
      BY <2>2 DEF Guessing
    <2>5. \A d \in Docks : class[d].source = "inferred" => ~Guessing(n, d)
      BY <2>4 DEF LabelInv, LabelFine
    <2>6. ASSUME NEW a \in Labellers, open[a] # Labels!Idle PROVE ReadFine(open[a], class, answers, n)
      <3>1. ReadFine(open[a], class, answers, open[Labels!Job])
        BY <2>6 DEF LabelInv
      <3> QED
        BY <2>4, <3>1 DEF ReadFine
    <2> QED
      BY <2>1, <2>3, <2>5, <2>6 DEF LabelInv, Labels!LabelsHaveAnAuthor
  <1>2. CASE Labels!ClassifyWrites
    <2>1. /\ job # Labels!Idle /\ open' = [open EXCEPT ![Labels!Job] = Labels!Idle] /\ UNCHANGED answers
          /\ class' = [d \in Docks |-> IF d \in job.docks /\ Guess[d] # Labels!NoClass
                                       THEN Labels!Guessed(d) ELSE class[d]]
      BY <1>2 DEF Labels!ClassifyWrites
    <2>2. /\ DOMAIN open' = Labellers \cup {Labels!Job} /\ open'[Labels!Job] = Labels!Idle
          /\ \A a \in Labellers : open'[a] = open[a]
      BY <2>1 DEF LabelInv, LabelNames
    <2>3. /\ DOMAIN class' = Docks
          /\ \A d \in Docks : class'[d] = IF Guessing(job, d) THEN Labels!Guessed(d) ELSE class[d]
      BY <2>1 DEF Guessing
    <2>4. \A d : /\ Guess[d] # Labels!NoClass => LabelFine(Labels!Guessed(d))
                 /\ Labels!Guessed(d).source = "inferred"
      BY DEF Labels!Guessed, LabelFine
    <2>5. \A d \in Docks : LabelFine(class'[d])
      BY <2>3, <2>4 DEF LabelInv, Guessing
    <2>6. \A d : ~Guessing(Labels!Idle, d)
      BY DEF Guessing
    <2>7. ASSUME NEW a \in Labellers, open[a] # Labels!Idle PROVE ReadFine(open[a], class', answers, Labels!Idle)
      <3>1. ReadFine(open[a], class, answers, job)
        BY <2>7 DEF LabelInv
      <3>2. ~Guessing(job, open[a].dock) => class'[open[a].dock] = class[open[a].dock]
        BY <2>3, <3>1 DEF ReadFine
      <3>3. class[open[a].dock].value # Labels!NoClass => class'[open[a].dock].value # Labels!NoClass
        BY <2>3, <3>1 DEF ReadFine, Guessing, Labels!Guessed
      <3> QED
        BY <2>6, <3>1, <3>2, <3>3 DEF ReadFine
    <2>8. Labels!LabelsHaveAnAuthor'
      BY <2>1, <2>3, <2>4 DEF LabelInv, Labels!LabelsHaveAnAuthor
    <2> QED
      BY <2>1, <2>2, <2>3, <2>5, <2>6, <2>7, <2>8 DEF LabelInv
  <1> QED
    BY <1>1, <1>2

LEMMA LabelStep ==
  ASSUME LabelNames, LabelInv, NEW a \in Labellers,
         Labels!LabelWrites(a) \/ \E d \in Docks, v \in Classes : Labels!LabelReads(a, d, v)
  PROVE  LabelInv'
  <1> DEFINE job == open[Labels!Job]
  <1>0. a # Labels!Job
    BY DEF LabelNames
  <1>1. ASSUME NEW d \in Docks, NEW v \in Classes, Labels!LabelReads(a, d, v) PROVE LabelInv'
    <2> DEFINE n == [kind |-> "label", dock |-> d, read |-> class[d], value |-> v]
    <2>1. open' = [open EXCEPT ![a] = n] /\ UNCHANGED <<class, answers>>
      BY <1>1 DEF Labels!LabelReads
    <2>2. n.dock = d /\ n.read = class[d] /\ n.value = v
      OBVIOUS
    <2> HIDE DEF n
    <2>3. /\ DOMAIN open' = Labellers \cup {Labels!Job} /\ open'[Labels!Job] = job /\ open'[a] = n
          /\ \A b \in Labellers : b # a => open'[b] = open[b]
      BY <1>0, <2>1 DEF LabelInv
    <2>4. ReadFine(n, class, answers, job)
      BY <2>2 DEF ReadFine, LabelInv, LabelFine
    <2> QED
      BY <2>1, <2>3, <2>4 DEF LabelInv, Labels!LabelsHaveAnAuthor
  <1>2. CASE Labels!LabelWrites(a)
    <2> DEFINE o == open[a]
               d == o.dock
               n == [c \in DOMAIN class[d] |->
                       IF Labels!set_node_class(o.value)[c] # o.read[c] THEN Labels!set_node_class(o.value)[c]
                       ELSE class[d][c]]
    <2>1. /\ o # Labels!Idle /\ open' = [open EXCEPT ![a] = Labels!Idle]
          /\ class' = [class EXCEPT ![d] = n] /\ answers' = [answers EXCEPT ![d] = @ \cup {o.value}]
      BY <1>2 DEF Labels!LabelWrites
    <2>2. ReadFine(o, class, answers, job)
      BY <2>1 DEF LabelInv
    <2>3. /\ d \in Docks /\ o.value \in Classes /\ o.value # Labels!NoClass
          /\ LabelFine(o.read) /\ LabelFine(class[d]) /\ d = o.dock
      BY <2>2 DEF ReadFine, LabelInv, LabelNames
    <2>4. /\ DOMAIN n = {"value", "source"}
          /\ n.value = IF o.value # o.read.value THEN o.value ELSE class[d].value
          /\ n.source = IF o.read.source # "human" THEN "human" ELSE class[d].source
      BY <2>3 DEF LabelFine, Labels!set_node_class
    <2> HIDE DEF n, o, d
    <2>5. /\ DOMAIN class' = Docks /\ class'[d] = n /\ \A c \in Docks : c # d => class'[c] = class[c]
      BY <2>1, <2>3 DEF LabelInv
    <2>6. /\ DOMAIN answers' = Docks /\ answers'[d] = answers[d] \cup {o.value}
          /\ \A c \in Docks : c # d => answers'[c] = answers[c]
      BY <2>1, <2>3 DEF LabelInv
    <2>7. /\ DOMAIN open' = Labellers \cup {Labels!Job} /\ open'[Labels!Job] = job /\ open'[a] = Labels!Idle
          /\ \A b \in Labellers : b # a => open'[b] = open[b]
      BY <1>0, <2>1 DEF LabelInv
    <2> HIDE DEF job
    <2>8. LabelFine(n) /\ n.source # "none"
      BY <2>2, <2>3, <2>4 DEF ReadFine, LabelFine
    <2>9. \A c \in Docks : LabelFine(class'[c])
      BY <2>5, <2>8 DEF LabelInv
    <2>10. n.value \in {o.value, class[d].value} /\ n.value # Labels!NoClass
      BY <2>4, <2>8 DEF LabelFine
    <2>11. n.source = "inferred" => class[d].source = "inferred"
      BY <2>4
    <2>12. n.source = "human" => n.value \in answers'[d]
      <3>1. class[d].source = "human" => class[d].value \in answers[d]
        BY <2>3 DEF LabelInv, Labels!LabelsHaveAnAuthor
      <3>2. CASE o.read.source = "none"
        BY <2>3, <2>4, <2>6, <3>2 DEF LabelFine
      <3>3. CASE o.read.source = "inferred"
        BY <2>2, <2>3, <2>4, <2>6, <3>3 DEF ReadFine
      <3>4. CASE o.read.source = "human"
        BY <2>4, <2>6, <3>1, <3>4
      <3> QED
        BY <2>3, <3>2, <3>3, <3>4 DEF LabelFine
    <2>13. Labels!LabelsHaveAnAuthor'
      BY <2>5, <2>6, <2>12 DEF LabelInv, Labels!LabelsHaveAnAuthor
    <2>14. \A c \in Docks : class'[c].source = "inferred" => ~Guessing(job, c)
      BY <2>5, <2>11 DEF LabelInv, job
    <2>15. ASSUME NEW b \in Labellers, b # a, open[b] # Labels!Idle PROVE ReadFine(open[b], class', answers', job)
      <3>1. ReadFine(open[b], class, answers, job)
        BY <2>15 DEF LabelInv, job
      <3>2. CASE open[b].dock = d
        <4>1. n.value \in answers'[d] \cup {class[d].value} /\ answers[d] \subseteq answers'[d]
          BY <2>6, <2>10
        <4> QED
          BY <2>5, <2>10, <3>1, <3>2, <4>1 DEF ReadFine
      <3>3. CASE open[b].dock # d
        BY <2>5, <2>6, <3>1, <3>3 DEF ReadFine
      <3> QED
        BY <3>2, <3>3
    <2> QED
      BY <2>5, <2>6, <2>7, <2>9, <2>13, <2>14, <2>15 DEF LabelInv
  <1> QED
    BY <1>1, <1>2

\* A class marked human is an answer some person gave of that dock (label_dock,
\* classify_unlabelled_locations), however many people and the nightly job,
\* each writing only the columns that differ from what it had read, interleave.
THEOREM LabelsAreAnswers ==
  ASSUME LabelNames
  PROVE  Labels!Spec => []Labels!LabelsHaveAnAuthor
  <1>1. Labels!Init => LabelInv
    <2> SUFFICES ASSUME Labels!Init PROVE LabelInv
      OBVIOUS
    <2>1. LabelFine([value |-> Labels!NoClass, source |-> "none"])
      BY DEF LabelFine
    <2>2. /\ DOMAIN class = Docks /\ DOMAIN answers = Docks /\ DOMAIN open = Labellers \cup {Labels!Job}
          /\ \A d \in Docks : class[d] = [value |-> Labels!NoClass, source |-> "none"]
          /\ \A a \in Labellers \cup {Labels!Job} : open[a] = Labels!Idle
      BY DEF Labels!Init
    <2> QED
      BY <2>1, <2>2 DEF LabelInv, Guessing, Labels!LabelsHaveAnAuthor
  <1>2. LabelInv /\ [Labels!Next]_Labels!vars => LabelInv'
    <2> SUFFICES ASSUME LabelInv, [Labels!Next]_Labels!vars PROVE LabelInv'
      OBVIOUS
    <2>1. CASE \/ UNCHANGED Labels!vars \/ \E turn \in SUBSET Docks : Labels!NightlyRefresh(turn)
               \/ \E d, c \in Docks : Labels!Merge(d, c)
               \/ \E d \in Docks, v \in Visits : Labels!Visit(d, v)
               \/ \E d \in Docks, h \in Histories : Labels!Import(d, h)
      <3>1. UNCHANGED <<class, open, answers>>
        BY <2>1, Zenon DEF Labels!NightlyRefresh, Labels!Merge, Labels!Visit, Labels!Import, Labels!vars
      <3> QED
        BY <3>1 DEF LabelInv, Labels!LabelsHaveAnAuthor
    <2>2. CASE Labels!ClassifyReads \/ Labels!ClassifyWrites
      BY <2>2, ClassifyStep
    <2>3. ASSUME NEW a \in Labellers,
                 Labels!LabelWrites(a) \/ \E d \in Docks, v \in Classes : Labels!LabelReads(a, d, v)
          PROVE  LabelInv'
      BY <2>3, LabelStep
    <2> QED
      BY <2>1, <2>2, <2>3, Zenon DEF Labels!Next
  <1>3. LabelInv => Labels!LabelsHaveAnAuthor
    BY DEF LabelInv
  <1> QED
    BY <1>1, <1>2, <1>3, PTL DEF Labels!Spec

-----------------------------------------------------------------------------
(* The hold queue.                                                         *)

Hold == INSTANCE HoldQueue

\* The numbers of a hub: places and promises are times and distances.
HoldNumbers ==
  /\ Spots \subseteq Int /\ Promises \subseteq Int /\ BUFFER \in Int /\ MaxTime \in Int
  /\ Rules \subseteq Hold!Tiers /\ Window \in [Hold!Tiers -> Int]

\* A promised order's hold ends in time to drive there, or has ended.
EndsInTime(r, now) ==
  /\ r = [tier |-> r.tier, spot |-> r.spot, promise |-> r.promise, deadline |-> r.deadline]
  /\ r.spot \in Int /\ r.deadline \in Int
  /\ r.promise # NoPromise =>
       r.promise \in Int /\ (r.deadline <= now \/ r.deadline <= r.promise - r.spot - BUFFER)

HoldInv ==
  /\ clock \in Int
  /\ \A o \in DOMAIN order : EndsInTime(order[o], clock)
  /\ waiting \subseteq DOMAIN order /\ kept \subseteq DOMAIN order
  /\ \A o \in kept : clock < order[o].deadline

LEMMA TwoNumbers ==
  ASSUME NEW a \in Int, NEW b \in Int
  PROVE  /\ Hold!Max({a, b}) = IF a >= b THEN a ELSE b
         /\ Hold!Min({a, b}) = IF a <= b THEN a ELSE b
  <1>1. Hold!Max({a, b}) \in {a, b} /\ \A y \in {a, b} : Hold!Max({a, b}) >= y
    <2>1. \E x \in {a, b} : \A y \in {a, b} : x >= y
      OBVIOUS
    <2> QED
      BY <2>1 DEF Hold!Max
  <1>2. Hold!Min({a, b}) \in {a, b} /\ \A y \in {a, b} : Hold!Min({a, b}) <= y
    <2>1. \E x \in {a, b} : \A y \in {a, b} : x <= y
      OBVIOUS
    <2> QED
      BY <2>1 DEF Hold!Min
  <1> QED
    BY <1>1, <1>2

LEMMA HoldStep ==
  ASSUME HoldNumbers, HoldInv, [Hold!Next]_Hold!vars
  PROVE  HoldInv'
  <1>1. CASE UNCHANGED Hold!vars
    BY <1>1 DEF HoldInv, Hold!vars, EndsInTime
  <1>2. ASSUME NEW o \in Orders, NEW fl \in SUBSET Hold!Flags, NEW forced \in Hold!Overrides,
               NEW spot \in Spots, NEW promise \in Promises \cup {NoPromise},
               Hold!ComeIn(o, fl, forced, spot, promise)
        PROVE  HoldInv'
    <2>1. PICK external \in {x \in BOOLEAN : x => promise # NoPromise}, control \in BOOLEAN :
            LET tier == IF external THEN "T2" ELSE Hold!Classified(fl, forced)
                until == IF control THEN clock ELSE Hold!HoldUntil(clock, tier, external, promise, spot)
            IN order' = [q \in DOMAIN order \cup {o} |-> IF q = o
                 THEN [tier |-> tier, spot |-> spot, promise |-> promise, deadline |-> until]
                 ELSE order[q]]
      BY <1>2 DEF Hold!ComeIn
    <2> DEFINE tier == IF external THEN "T2" ELSE Hold!Classified(fl, forced)
               window == IF external THEN promise ELSE clock + Window[tier]
               until == IF control THEN clock ELSE Hold!HoldUntil(clock, tier, external, promise, spot)
               new == [tier |-> tier, spot |-> spot, promise |-> promise, deadline |-> until]
    <2>2. clock \in Int /\ spot \in Int /\ BUFFER \in Int /\ (promise # NoPromise => promise \in Int)
      BY DEF HoldInv, HoldNumbers
    <2>3. window \in Int
      <3>1. tier \in Hold!Tiers
        BY DEF Hold!Classified, Hold!TierOf, Hold!Tiers
      <3>2. Window[tier] \in Int
        BY <3>1 DEF HoldNumbers
      <3> QED
        BY <2>2, <3>2
    <2>4. /\ until \in Int
          /\ promise # NoPromise => until <= clock \/ until <= promise - spot - BUFFER
      <3>1. CASE control
        BY <2>2, <3>1
      <3>2. CASE ~control /\ promise = NoPromise
        BY <2>3, <3>2 DEF Hold!HoldUntil
      <3>3. CASE ~control /\ promise # NoPromise
        <4> DEFINE safe == promise - spot - BUFFER
        <4>1. safe \in Int
          BY <2>2, <3>3
        <4>2. until = Hold!Max({clock, Hold!Min({window, safe})})
          BY <3>3 DEF Hold!HoldUntil
        <4> HIDE DEF window, safe, until
        <4> DEFINE least == Hold!Min({window, safe})
        <4>3. least = IF window <= safe THEN window ELSE safe
          BY <2>3, <4>1, TwoNumbers
        <4> HIDE DEF least
        <4>4. least \in Int /\ least <= safe
          BY <2>3, <4>1, <4>3
        <4>5. until = IF clock >= least THEN clock ELSE least
          BY <2>2, <4>2, <4>4, TwoNumbers DEF least
        <4>6. until \in Int /\ (until <= clock \/ until <= safe)
          BY <2>2, <4>1, <4>4, <4>5
        <4> QED
          BY <4>6 DEF safe
      <3> QED
        BY <3>1, <3>2, <3>3
    <2>5. EndsInTime(new, clock)
      <3> HIDE DEF tier, until
      <3> QED
        BY <2>2, <2>4 DEF EndsInTime
    <2>6. /\ order' = [q \in DOMAIN order \cup {o} |-> IF q = o THEN new ELSE order[q]]
          /\ o \notin DOMAIN order /\ waiting' = waiting \cup {o} /\ UNCHANGED <<clock, queued, kept>>
      BY <1>2, <2>1 DEF Hold!ComeIn
    <2> HIDE DEF new
    <2>7. DOMAIN order' = DOMAIN order \cup {o} /\ order'[o] = new /\ \A q \in DOMAIN order : order'[q] = order[q]
      BY <2>6
    <2>8. \A q \in DOMAIN order' : EndsInTime(order'[q], clock')
      BY <2>5, <2>6, <2>7 DEF HoldInv
    <2>9. \A q \in kept' : clock' < order'[q].deadline
      BY <2>6, <2>7 DEF HoldInv
    <2> QED
      BY <2>6, <2>7, <2>8, <2>9 DEF HoldInv, EndsInTime
  <1>3. ASSUME NEW o \in Orders, Hold!DispatcherReleases(o) PROVE HoldInv'
    BY <1>3 DEF HoldInv, EndsInTime, Hold!DispatcherReleases
  <1>4. ASSUME NEW drivers \in 0..2, NEW passing \in SUBSET Hold!Passable, Hold!Cycle(drivers, passing)
        PROVE  HoldInv'
    <2>1. /\ kept' = waiting \ {o \in waiting : Hold!Releases(o, drivers, passing)}
          /\ waiting' \subseteq waiting /\ UNCHANGED <<clock, order>>
      BY <1>4 DEF Hold!Cycle
    <2>2. ASSUME NEW o \in kept' PROVE clock < order[o].deadline
      <3>1. o \in waiting /\ ~Hold!Releases(o, drivers, passing)
        BY <2>1, <2>2
      <3>2. ~(clock >= order[o].deadline)
        BY <3>1 DEF Hold!Releases
      <3>3. clock \in Int /\ order[o].deadline \in Int
        BY <3>1 DEF HoldInv, EndsInTime
      <3> QED
        BY <3>2, <3>3
    <2> QED
      BY <2>1, <2>2 DEF HoldInv, EndsInTime
  <1>5. CASE Hold!Tick
    <2>1. clock' = clock + 1 /\ kept' = {} /\ UNCHANGED <<order, waiting, queued>>
      BY <1>5 DEF Hold!Tick
    <2>2. clock \in Int /\ clock' \in Int
      BY <2>1 DEF HoldInv
    <2>3. ASSUME NEW o \in DOMAIN order PROVE EndsInTime(order[o], clock')
      <3>1. EndsInTime(order[o], clock)
        BY DEF HoldInv
      <3> QED
        BY <2>1, <2>2, <3>1 DEF EndsInTime, HoldNumbers
    <2> QED
      BY <2>1, <2>2, <2>3 DEF HoldInv, EndsInTime
  <1> QED
    BY <1>1, <1>2, <1>3, <1>4, <1>5 DEF Hold!Next

(* An order the queue decides to keep waiting could still leave now and be   *)
(* there by its promise, buffer included (latest_safe_hold_deadline,         *)
(* evaluate_held_order), whatever its tier, the windows, the hub's urgency   *)
(* rules, who shares its spot and how many drivers there are.                *)
THEOREM WaitingKeepsThePromise ==
  ASSUME HoldNumbers
  PROVE  Hold!Spec => []Hold!HoldKeepsThePromise
  <1>1. Hold!Init => HoldInv
    BY DEF Hold!Init, HoldInv
  <1>2. HoldInv /\ [Hold!Next]_Hold!vars => HoldInv'
    BY HoldStep
  <1>3. HoldInv => Hold!HoldKeepsThePromise
    <2> SUFFICES ASSUME HoldInv, NEW o \in kept, order[o].promise # NoPromise
                 PROVE  clock + order[o].spot + BUFFER < order[o].promise
      BY DEF Hold!HoldKeepsThePromise
    <2>1. EndsInTime(order[o], clock) /\ clock < order[o].deadline /\ clock \in Int
      BY DEF HoldInv
    <2> QED
      BY <2>1 DEF EndsInTime, HoldNumbers
  <1> QED
    BY <1>1, <1>2, <1>3, PTL DEF Hold!Spec

-----------------------------------------------------------------------------
(* What is written down about a dock.                                      *)

Surveys == INSTANCE DockSurvey

ProfileOf(p) == [answers |-> p.answers, surveyed |-> p.surveyed, by |-> p.by, source |-> p.source]
SubOf(r) == [step |-> r.step, answers |-> r.answers]
PointOf(p) == [gold |-> p.gold, stop |-> p.stop, door |-> p.door, walk |-> p.walk, photos |-> p.photos]

\* What is on the profile was said; what was said left its mark on it.
Authored ==
  \A f \in Fields : /\ profile.answers[f] = Surveys!Null => said[f] = {}
                    /\ profile.answers[f] # Surveys!Null =>
                         \E who \in {"driver", "stranger"} : <<who, profile.answers[f]>> \in said[f]

\* What a stranger is on record with is in a submission that was let in.
LetIn ==
  \A f \in Fields : \A w : <<"stranger", w>> \in said[f] =>
    \E s \in Submissions : subs[s].answers[f] = w /\ subs[s].step = "imported"

\* An import in hand is of a submission that was sent, and what it read of the
\* profile was said before and is there still, or something later is.
ImportFine(o) ==
  o # Surveys!Idle =>
    /\ o.sub \in Submissions /\ subs[o.sub].step # "unsent"
    /\ \A f \in Fields : o.read.answers[f] # Surveys!Null => profile.answers[f] # Surveys!Null

SurveyInv ==
  /\ profile = ProfileOf(profile) /\ (profile.surveyed # 0 => profile.by \in Drivers)
  /\ subs = [s \in Submissions |-> subs[s]] /\ \A s \in Submissions : subs[s] = SubOf(subs[s])
  /\ said = [f \in Fields |-> said[f]]
  /\ open = [a \in Admins |-> open[a]] /\ \A a \in Admins : ImportFine(open[a])
  /\ Authored /\ LetIn

\* Answers put on the profile together with their author keep it authored.
LEMMA SayingIsAuthored ==
  ASSUME Authored, said = [f \in Fields |-> said[f]],
         NEW who \in {"driver", "stranger"}, NEW ans, said' = Surveys!Say(who, ans),
         \A f \in Fields : \/ ans[f] # Surveys!Null /\ profile'.answers[f] = ans[f]
                           \/ /\ profile'.answers[f] = profile.answers[f]
                              /\ ans[f] # Surveys!Null => profile.answers[f] # Surveys!Null
  PROVE  Authored'
  <1> SUFFICES ASSUME NEW f \in Fields
               PROVE  /\ profile'.answers[f] = Surveys!Null => said'[f] = {}
                      /\ profile'.answers[f] # Surveys!Null =>
                           \E w \in {"driver", "stranger"} : <<w, profile'.answers[f]>> \in said'[f]
    BY DEF Authored, Surveys!Null
  <1>1. said'[f] = IF ans[f] # Surveys!Null THEN said[f] \cup {<<who, ans[f]>>} ELSE said[f]
    BY DEF Surveys!Say
  <1>2. /\ profile.answers[f] = Surveys!Null => said[f] = {}
        /\ profile.answers[f] # Surveys!Null =>
             \E w \in {"driver", "stranger"} : <<w, profile.answers[f]>> \in said[f]
    BY DEF Authored
  <1>3. CASE ans[f] # Surveys!Null /\ profile'.answers[f] = ans[f]
    BY <1>1, <1>3
  <1>4. CASE /\ profile'.answers[f] = profile.answers[f]
             /\ ans[f] # Surveys!Null => profile.answers[f] # Surveys!Null
    BY <1>1, <1>2, <1>4
  <1> QED
    BY <1>3, <1>4

\* A row of a submission is its two columns.
LEMMA SubsAreRows ==
  ASSUME SurveyInv, NEW s \in Submissions, NEW step
  PROVE  [subs[s] EXCEPT !.step = step] = [step |-> step, answers |-> subs[s].answers]
  <1>1. subs[s] = [step |-> subs[s].step, answers |-> subs[s].answers]
    BY DEF SurveyInv, SubOf
  <1>2. DOMAIN subs[s] = {"step", "answers"}
    BY <1>1
  <1> QED
    BY <1>1, <1>2

LEMMA SurveyStep ==
  ASSUME SurveyInv, [Surveys!Next]_Surveys!vars
  PROVE  SurveyInv'
  <1> USE DEF Surveys!Null
  <1>1. ASSUME UNCHANGED <<profile, subs, open, said>> PROVE SurveyInv'
    BY <1>1 DEF SurveyInv, Authored, LetIn, ImportFine, ProfileOf, SubOf
  <1>2. CASE UNCHANGED Surveys!vars
    BY <1>1, <1>2 DEF Surveys!vars
  <1>3. CASE Surveys!Tick
    BY <1>1, <1>3 DEF Surveys!Tick
  <1>4. ASSUME NEW v \in Drivers, NEW ans, NEW g, NEW s, NEW d, Surveys!Survey(v, ans, g, s, d)
        PROVE  SurveyInv'
    <2> DEFINE new == Surveys!Answered(profile.answers, ans)
    <2>1. /\ profile' = [answers |-> new, surveyed |-> day, by |-> v, source |-> profile.source]
          /\ said' = Surveys!Say("driver", ans) /\ UNCHANGED <<subs, open>>
      BY <1>4 DEF Surveys!Survey, SurveyInv, ProfileOf
    <2>2. \A f \in Fields : new[f] = IF ans[f] # Surveys!Null THEN ans[f] ELSE profile.answers[f]
      BY DEF Surveys!Answered
    <2> HIDE DEF new
    <2>3. profile'.answers = new /\ profile' = ProfileOf(profile') /\ profile'.by = v
      BY <2>1 DEF ProfileOf
    <2>4. Authored'
      <3>1. Authored /\ said = [f \in Fields |-> said[f]]
        BY DEF SurveyInv
      <3>2. \A f \in Fields : \/ ans[f] # Surveys!Null /\ profile'.answers[f] = ans[f]
                              \/ /\ profile'.answers[f] = profile.answers[f]
                                 /\ ans[f] # Surveys!Null => profile.answers[f] # Surveys!Null
        BY <2>2, <2>3
      <3> QED
        BY <2>1, <3>1, <3>2, SayingIsAuthored
    <2>5. LetIn'
      <3>1. \A f \in Fields : \A w : <<"stranger", w>> \in said'[f] => <<"stranger", w>> \in said[f]
        BY <2>1 DEF Surveys!Say
      <3> QED
        BY <2>1, <3>1 DEF SurveyInv, LetIn
    <2>6. \A a \in Admins : ImportFine(open[a])'
      BY <2>1, <2>2, <2>3 DEF SurveyInv, ImportFine
    <2>7. said' = [f \in Fields |-> said'[f]]
      BY <2>1 DEF Surveys!Say
    <2> QED
      BY <2>1, <2>3, <2>4, <2>5, <2>6, <2>7 DEF SurveyInv, ProfileOf, SubOf
  <1>5. ASSUME NEW v \in Drivers, Surveys!LoadView(v) PROVE SurveyInv'
    BY <1>1, <1>5 DEF Surveys!LoadView
  <1>6. ASSUME NEW slot, Surveys!Photo(slot) PROVE SurveyInv'
    BY <1>1, <1>6 DEF Surveys!Photo
  <1>7. ASSUME NEW s \in Submissions, NEW now, now.answers = subs[s].answers \/ subs[s].step = "unsent",
               now = SubOf(now), now.step # "unsent", subs[s].step # "imported",
               subs' = [subs EXCEPT ![s] = now], UNCHANGED <<profile, open, said>>
        PROVE  SurveyInv'
    <2>1. /\ subs' = [x \in Submissions |-> subs'[x]]
          /\ subs'[s] = now /\ \A x \in Submissions : x # s => subs'[x] = subs[x]
      BY <1>7 DEF SurveyInv
    <2>2. \A x \in Submissions : subs'[x] = SubOf(subs'[x])
      BY <1>7, <2>1 DEF SurveyInv, SubOf
    <2>3. \A a \in Admins : ImportFine(open[a])'
      BY <1>7, <2>1 DEF SurveyInv, ImportFine
    <2>4. LetIn'
      <3> SUFFICES ASSUME NEW f \in Fields, NEW w, <<"stranger", w>> \in said'[f]
                   PROVE  \E x \in Submissions : subs'[x].answers[f] = w /\ subs'[x].step = "imported"
        BY DEF LetIn
      <3>1. PICK x \in Submissions : subs[x].answers[f] = w /\ subs[x].step = "imported"
        BY <1>7 DEF SurveyInv, LetIn
      <3>2. x # s
        BY <1>7, <3>1
      <3> QED
        BY <2>1, <3>1, <3>2
    <2> QED
      BY <1>7, <2>1, <2>2, <2>3, <2>4 DEF SurveyInv, Authored, ProfileOf, SubOf
  <1>8. ASSUME NEW s \in Submissions, NEW ans, Surveys!Submit(s, ans) PROVE SurveyInv'
    <2> DEFINE now == [step |-> "staged", answers |-> ans]
    <2>1. subs' = [subs EXCEPT ![s] = now] /\ subs[s].step = "unsent" /\ UNCHANGED <<profile, open, said>>
      BY <1>8 DEF Surveys!Submit
    <2>2. now = SubOf(now) /\ now.step # "unsent"
      BY DEF SubOf
    <2> QED
      BY <1>7, <2>1, <2>2
  <1>9. ASSUME NEW s \in Submissions, Surveys!Reject(s) PROVE SurveyInv'
    <2> DEFINE now == [step |-> "rejected", answers |-> subs[s].answers]
    <2>0. [subs[s] EXCEPT !.step = "rejected"] = now
      BY SubsAreRows
    <2>1. subs' = [subs EXCEPT ![s] = now] /\ subs[s].step = "staged" /\ UNCHANGED <<profile, open, said>>
      BY <1>9, <2>0 DEF Surveys!Reject
    <2>2. now = SubOf(now) /\ now.step # "unsent" /\ now.answers = subs[s].answers
      BY DEF SubOf
    <2> QED
      BY <1>7, <2>1, <2>2
  <1>10. ASSUME NEW a \in Admins, NEW s \in Submissions, Surveys!ImportReads(a, s) PROVE SurveyInv'
    <2>1. /\ open' = [open EXCEPT ![a] = [step |-> "import", sub |-> s, read |-> profile]]
          /\ subs[s].step # "unsent" /\ UNCHANGED <<profile, subs, said>>
      BY <1>10 DEF Surveys!ImportReads, Surveys!MayImport
    <2>2. \A b \in Admins : ImportFine(open[b])'
      BY <2>1 DEF SurveyInv, ImportFine
    <2> QED
      BY <2>1, <2>2 DEF SurveyInv, Authored, LetIn, ProfileOf, SubOf
  <1>11. ASSUME NEW a \in Admins, Surveys!ImportWrites(a) PROVE SurveyInv'
    <2> DEFINE o == open[a]
               sub == subs[o.sub]
               new == Surveys!Answered(o.read.answers, sub.answers)
               put == [f \in Fields |-> IF new[f] # o.read.answers[f] THEN new[f] ELSE profile.answers[f]]
    <2>1. ImportFine(o) /\ o # Surveys!Idle /\ o.sub \in Submissions /\ sub.step # "unsent" /\ sub = SubOf(sub)
      BY <1>11 DEF SurveyInv, ImportFine, Surveys!ImportWrites
    <2>2. /\ open' = [open EXCEPT ![a] = Surveys!Idle]
          /\ profile' = [answers |-> put, surveyed |-> profile.surveyed, by |-> profile.by, source |-> "stated"]
          /\ subs' = [subs EXCEPT ![o.sub] = [step |-> "imported", answers |-> sub.answers]]
          /\ said' = Surveys!Say("stranger", sub.answers)
      <3>1. DOMAIN profile = {"answers", "surveyed", "by", "source"}
        BY DEF SurveyInv, ProfileOf
      <3>0. profile = [answers |-> profile.answers, surveyed |-> profile.surveyed, by |-> profile.by,
                       source |-> profile.source]
        BY DEF SurveyInv, ProfileOf
      <3>2. [profile EXCEPT !.answers = put, !.source = "stated"]
              = [answers |-> put, surveyed |-> profile.surveyed, by |-> profile.by, source |-> "stated"]
        <4> HIDE DEF put
        <4> DEFINE q == [profile EXCEPT !.answers = put]
        <4>1. q = [answers |-> put, surveyed |-> profile.surveyed, by |-> profile.by, source |-> profile.source]
          BY <3>0, <3>1
        <4>2. [q EXCEPT !.source = "stated"] = [profile EXCEPT !.answers = put, !.source = "stated"]
          OBVIOUS
        <4> HIDE DEF q
        <4>3. [q EXCEPT !.source = "stated"]
                = [answers |-> put, surveyed |-> profile.surveyed, by |-> profile.by, source |-> "stated"]
          BY <4>1
        <4> QED
          BY <4>2, <4>3
      <3>3. [sub EXCEPT !.step = "imported"] = [step |-> "imported", answers |-> sub.answers]
        BY <2>1, SubsAreRows
      <3>4. /\ open' = [open EXCEPT ![a] = Surveys!Idle]
            /\ profile' = [profile EXCEPT !.answers = put, !.source = "stated"]
            /\ subs' = [subs EXCEPT ![o.sub] = [sub EXCEPT !.step = "imported"]]
            /\ said' = Surveys!Say("stranger", sub.answers)
        BY <1>11 DEF Surveys!ImportWrites
      <3> QED
        BY <3>2, <3>3, <3>4
    <2>3. \A f \in Fields : new[f] = IF sub.answers[f] # Surveys!Null THEN sub.answers[f] ELSE o.read.answers[f]
      BY DEF Surveys!Answered
    <2> HIDE DEF new
    <2>4. \A f \in Fields :
            \/ sub.answers[f] # Surveys!Null /\ put[f] = sub.answers[f]
            \/ /\ put[f] = profile.answers[f]
               /\ sub.answers[f] # Surveys!Null => profile.answers[f] # Surveys!Null
      BY <2>1, <2>3 DEF ImportFine
    <2> HIDE DEF put
    <2>5. profile'.answers = put /\ profile' = ProfileOf(profile') /\ (profile'.surveyed # 0 => profile'.by \in Drivers)
      BY <2>2 DEF ProfileOf, SurveyInv
    <2>6. Authored'
      BY <2>2, <2>4, <2>5, SayingIsAuthored DEF SurveyInv
    <2>7. /\ subs' = [x \in Submissions |-> subs'[x]]
          /\ subs'[o.sub] = [step |-> "imported", answers |-> sub.answers]
          /\ \A x \in Submissions : x # o.sub => subs'[x] = subs[x]
      BY <2>1, <2>2 DEF SurveyInv
    <2>8. \A x \in Submissions : subs'[x] = SubOf(subs'[x])
      BY <2>7 DEF SurveyInv, SubOf
    <2>9. LetIn'
      <3> SUFFICES ASSUME NEW f \in Fields, NEW w, <<"stranger", w>> \in said'[f]
                   PROVE  \E s \in Submissions : subs'[s].answers[f] = w /\ subs'[s].step = "imported"
        BY DEF LetIn
      <3>1. CASE <<"stranger", w>> \in said[f]
        BY <2>1, <2>7, <3>1 DEF SurveyInv, LetIn
      <3>2. CASE <<"stranger", w>> \notin said[f]
        <4>1. w = sub.answers[f]
          BY <2>2, <3>2 DEF Surveys!Say
        <4> QED
          BY <2>1, <2>7, <4>1
      <3> QED
        BY <3>1, <3>2
    <2>10. \A b \in Admins : ImportFine(open[b])'
      <3> SUFFICES ASSUME NEW b \in Admins, open'[b] # Surveys!Idle PROVE ImportFine(open[b])'
        BY DEF ImportFine
      <3>1. open'[b] = open[b] /\ ImportFine(open[b])
        BY <2>2 DEF SurveyInv
      <3>2. \A f \in Fields : profile.answers[f] # Surveys!Null => profile'.answers[f] # Surveys!Null
        BY <2>4, <2>5
      <3>3. \A x \in Submissions : subs[x].step # "unsent" => subs'[x].step # "unsent"
        BY <2>7
      <3> QED
        BY <3>1, <3>2, <3>3 DEF ImportFine
    <2>11. said' = [f \in Fields |-> said'[f]] /\ open' = [b \in Admins |-> open'[b]]
      BY <2>2 DEF Surveys!Say, SurveyInv
    <2> QED
      BY <2>5, <2>6, <2>7, <2>8, <2>9, <2>10, <2>11 DEF SurveyInv
  <1>12. ASSUME NEW places, Surveys!DeskFills(places) PROVE SurveyInv'
    BY <1>1, <1>12 DEF Surveys!DeskFills
  <1>13. ASSUME NEW v, Surveys!DriverSays(v) PROVE SurveyInv'
    BY <1>1, <1>13 DEF Surveys!DriverSays
  <1> QED
    BY <1>2, <1>3, <1>4, <1>5, <1>6, <1>8, <1>9, <1>10, <1>11, <1>12, <1>13 DEF Surveys!Next

(* Every answer on a dock's profile was given of it, by a driver of ours or  *)
(* in a submission an administrator let in (record_dock_survey,              *)
(* import_dock_log_submission), no answer is lost to a form that leaves it   *)
(* out, and a surveyed dock was surveyed by a driver, for any forms and any  *)
(* number of imports that overlap surveys.                                   *)
THEOREM EveryAnswerWasGiven ==
  ASSUME 0 \notin Drivers
  PROVE  Surveys!Spec => []Surveys!AnswersHaveAnAuthor
  <1>1. Surveys!Init => SurveyInv
    BY DEF Surveys!Init, Surveys!Blank, SurveyInv, Authored, LetIn, ImportFine, ProfileOf, SubOf
  <1>2. SurveyInv /\ [Surveys!Next]_Surveys!vars => SurveyInv'
    BY SurveyStep
  <1>3. SurveyInv => Surveys!AnswersHaveAnAuthor
    BY DEF SurveyInv, Authored, LetIn, Surveys!AnswersHaveAnAuthor, Surveys!is_surveyed
  <1> QED
    BY <1>1, <1>2, <1>3, PTL DEF Surveys!Spec

WalkInv ==
  /\ point = PointOf(point)
  /\ point.walk # Surveys!Nowhere =>
       /\ point.stop # Surveys!Nowhere /\ point.door # Surveys!Nowhere
       /\ point.walk = Surveys!Distance(point.stop, point.door)

(* A handoff point's walk joins the stop and the door it shows               *)
(* (capture_handoff measures it anew whenever both ends are known), however  *)
(* many surveys each move one of them.                                       *)
THEOREM WalksJoinTheirEnds == Surveys!Spec => []Surveys!WalkMatchesTheEnds
  <1>1. Surveys!Init => WalkInv
    BY DEF Surveys!Init, WalkInv, PointOf
  <1>2. WalkInv /\ [Surveys!Next]_Surveys!vars => WalkInv'
    <2> SUFFICES ASSUME WalkInv, [Surveys!Next]_Surveys!vars PROVE WalkInv'
      OBVIOUS
    <2>1. ASSUME UNCHANGED point PROVE WalkInv'
      BY <2>1 DEF WalkInv, PointOf
    <2>2. ASSUME NEW v \in Drivers, NEW ans, NEW g, NEW s, NEW d, Surveys!Survey(v, ans, g, s, d)
          PROVE  WalkInv'
      <3> DEFINE s1 == Surveys!Coalesce(s, point.stop)
                 d1 == Surveys!Coalesce(d, point.door)
                 w1 == Surveys!WalkOf(s1, d1, point.walk)
      <3>1. point' = [gold |-> point.gold \cup g, stop |-> s1, door |-> d1, walk |-> w1, photos |-> point.photos]
        BY <2>2 DEF Surveys!Survey, Surveys!capture_handoff, WalkInv, PointOf
      <3>2. w1 # Surveys!Nowhere => /\ s1 # Surveys!Nowhere /\ d1 # Surveys!Nowhere
                                    /\ w1 = Surveys!Distance(s1, d1)
        BY DEF Surveys!Coalesce, Surveys!WalkOf, WalkInv
      <3> HIDE DEF s1, d1, w1
      <3> QED
        BY <3>1, <3>2 DEF WalkInv, PointOf, Surveys!Distance, Surveys!Nowhere
    <2>3. ASSUME NEW slot, Surveys!Photo(slot) PROVE WalkInv'
      <3>1. point' = [gold |-> point.gold, stop |-> point.stop, door |-> point.door, walk |-> point.walk,
                      photos |-> point.photos \cup {slot}]
        BY <2>3 DEF Surveys!Photo, WalkInv, PointOf
      <3> QED
        BY <3>1 DEF WalkInv, PointOf, Surveys!Distance, Surveys!Nowhere
    <2>4. Surveys!Next \/ UNCHANGED Surveys!vars =>
            \/ UNCHANGED point
            \/ \E v \in Drivers : \E ans, g, s, d : Surveys!Survey(v, ans, g, s, d)
            \/ \E slot : Surveys!Photo(slot)
      BY DEF Surveys!Next, Surveys!vars, Surveys!Tick, Surveys!LoadView, Surveys!Submit, Surveys!Reject,
             Surveys!ImportReads, Surveys!ImportWrites, Surveys!DeskFills, Surveys!DriverSays
    <2> QED
      BY <2>1, <2>2, <2>3, <2>4
  <1>3. WalkInv => Surveys!WalkMatchesTheEnds
    BY DEF WalkInv, Surveys!WalkMatchesTheEnds
  <1> QED
    BY <1>1, <1>2, <1>3, PTL DEF Surveys!Spec

(* What a driver found at the door stands against public data                *)
(* (apply_desk_facts), for any public data.                                  *)
THEOREM DeskOnlyFillsGaps ==
  ASSUME Surveys!Null \notin Values
  PROVE  Surveys!Spec => Surveys!DriversFactStands
  <1> DEFINE Known == fact.source = "driver" => fact.value \in Values
  <1>1. Surveys!Init => Known
    BY DEF Surveys!Init
  <1>2. Known /\ [Surveys!Next]_Surveys!vars => Known' /\ Surveys!KeepsDriversFact
    <2> SUFFICES ASSUME Known, [Surveys!Next]_Surveys!vars PROVE Known' /\ Surveys!KeepsDriversFact
      OBVIOUS
    <2>1. ASSUME UNCHANGED fact PROVE Known' /\ Surveys!KeepsDriversFact
      BY <2>1 DEF Surveys!KeepsDriversFact
    <2>2. ASSUME NEW places, Surveys!DeskFills(places) PROVE Known' /\ Surveys!KeepsDriversFact
      BY <2>2 DEF Surveys!KeepsDriversFact, Surveys!DeskFills, Surveys!Unsaid
    <2>3. ASSUME NEW v \in Values, Surveys!DriverSays(v) PROVE Known' /\ Surveys!KeepsDriversFact
      BY <2>3 DEF Surveys!KeepsDriversFact, Surveys!DriverSays
    <2>4. Surveys!Next \/ UNCHANGED Surveys!vars =>
            \/ UNCHANGED fact
            \/ \E places : Surveys!DeskFills(places)
            \/ \E v \in Values : Surveys!DriverSays(v)
      BY DEF Surveys!Next, Surveys!vars, Surveys!Tick, Surveys!LoadView, Surveys!Submit, Surveys!Reject,
             Surveys!ImportReads, Surveys!ImportWrites, Surveys!Survey, Surveys!Photo
    <2> QED
      BY <2>1, <2>2, <2>3, <2>4
  <1> QED
    BY <1>1, <1>2, PTL DEF Surveys!Spec, Surveys!DriversFactStands

-----------------------------------------------------------------------------
(* The decision record.                                                    *)

Decided == INSTANCE DecisionRecord

OrderRow == [status : Decided!Statuses, at : Int, since : Int, placedBy : Nat]
HoldRow == [order : Orders, action : {"release", "hold"}, reason : {"dispatcher_released", "queue"}]
Snapshot == [hold : SUBSET HoldRow, placed : SUBSET Orders, left : SUBSET Orders]
OverrideRow == [order : Orders, action : {"release", "hold"}, before : Decided!Statuses, cited : Nat]
OutcomeRow == [subject : Orders, kind : {"delivered", "disputed"}, value : {"on_time", "late", "credit", "silence"},
               at : Int, snapshot : Nat]
Finding(x) == [orders |-> x.orders, n |-> x.n, resolved |-> x.resolved]

DecisionTypes ==
  /\ clock \in Int /\ plan \in Nat /\ snaps \in Seq(Snapshot) /\ overrides \in Seq(OverrideRow) /\ ledger \in Seq(OutcomeRow)
  /\ order \in [Orders -> OrderRow] /\ night \subseteq Orders
  /\ hand # Decided!Idle => hand.row \in OverrideRow /\ hand.row.before = Decided!ApplicableFrom(hand.row.action)
  /\ \A x \in flags : x = Finding(x)

\* The cycle an order on a route says placed it did, since the order arrived,
\* and no later plan lists the order.
PlacementIsTrue(o) ==
  LET r == order[o] IN
  r.placedBy # 0 =>
    /\ r.status \in {"assigned", "delivered"}
    /\ r.placedBy \in DOMAIN snaps /\ o \in snaps[r.placedBy].placed /\ r.placedBy >= r.since
    /\ \A m \in DOMAIN snaps : o \in snaps[m].placed => m <= r.placedBy

\* The plan being carried out is the newest, and of orders that had arrived.
PlanIsNewest ==
  plan # 0 => /\ plan = Len(snaps)
              /\ \A o \in snaps[plan].placed : order[o].status # "absent" /\ order[o].since <= plan

\* A recorded delivery is of a delivered order, and credited where it is due.
CreditIsTrue(e) ==
  e.kind = "delivered" =>
    /\ order[e.subject].status = "delivered"
    /\ e.snapshot # 0 => /\ e.snapshot \in DOMAIN snaps /\ e.subject \in snaps[e.snapshot].placed
                         /\ e.snapshot >= order[e.subject].since
                         /\ order[e.subject].placedBy \in {0, e.snapshot}
    /\ e.snapshot = 0 => \/ order[e.subject].placedBy = 0
                         \/ order[e.subject].placedBy <= Len(snaps) - SCAN_LIMIT

\* Order o was recorded late, WINDOW before time t.
LateLongBefore(o, t) ==
  \E i \in DOMAIN ledger : ledger[i].subject = o /\ ledger[i].value = "late" /\ t - ledger[i].at >= WINDOW

JudgedInTime(e) ==
  /\ e.value = "credit" => e.kind = "disputed"
  /\ e.value = "silence" => LateLongBefore(e.subject, e.at)

\* No order counts from a cycle still to come.
SinceIsPast(r, n) == r.since <= n + 1

DecisionInv ==
  /\ DecisionTypes
  /\ \A o \in Orders : SinceIsPast(order[o], Len(snaps))
  /\ \A o \in Orders : PlacementIsTrue(o)
  /\ PlanIsNewest
  /\ \A i \in DOMAIN ledger : CreditIsTrue(ledger[i]) /\ JudgedInTime(ledger[i])
  /\ \A o \in night : LateLongBefore(o, clock)
  /\ Decided!FindingsStayResolved

\* The table of orders is finite.
DecisionNumbers == IsFiniteSet(Orders) /\ WINDOW \in Int /\ SCAN_LIMIT \in Int /\ Followed \subseteq Orders

\* The ledger stays true while delivered orders keep their rows and the
\* snapshots are only added to.
LEMMA OrdersMove ==
  ASSUME DecisionInv, DecisionNumbers, snaps' \in Seq(Snapshot),
         Len(snaps') >= Len(snaps), \A i \in DOMAIN snaps : snaps'[i] = snaps[i],
         \A o \in Orders : order[o].status = "delivered" => order'[o] = order[o],
         UNCHANGED ledger
  PROVE  \A i \in DOMAIN ledger' : CreditIsTrue(ledger[i])' /\ JudgedInTime(ledger[i])'
  <1>1. /\ Len(snaps) \in Nat /\ Len(snaps') \in Nat
        /\ DOMAIN snaps = 1..Len(snaps) /\ DOMAIN snaps' = 1..Len(snaps')
    BY DEF DecisionInv, DecisionTypes
  <1>2. \A i \in DOMAIN snaps : i \in DOMAIN snaps'
    BY <1>1
  <1>4. ASSUME NEW i \in DOMAIN ledger PROVE CreditIsTrue(ledger[i])'
    <2>1. CreditIsTrue(ledger[i]) /\ ledger[i] \in OutcomeRow
      BY DEF DecisionInv, DecisionTypes
    <2> DEFINE e == ledger[i]
               p == order[e.subject].placedBy
    <2>2. CASE e.kind = "delivered"
      <3>1. e.subject \in Orders /\ order[e.subject].status = "delivered"
        BY <2>1, <2>2 DEF CreditIsTrue, OutcomeRow
      <3>2. order'[e.subject] = order[e.subject] /\ ledger'[i] = e
        BY <3>1
      <3>3. p \in Nat
        BY <3>1 DEF DecisionInv, DecisionTypes, OrderRow
      <3>4. p <= Len(snaps) - SCAN_LIMIT => p <= Len(snaps') - SCAN_LIMIT
        BY <1>1, <3>3 DEF DecisionNumbers
      <3> QED
        BY <1>2, <2>1, <2>2, <3>1, <3>2, <3>4 DEF CreditIsTrue
    <2> QED
      BY <2>2 DEF CreditIsTrue
  <1>5. \A i \in DOMAIN ledger : JudgedInTime(ledger[i])'
    BY DEF DecisionInv, JudgedInTime, LateLongBefore
  <1> QED
    BY <1>4, <1>5

\* An entry added to the ledger leaves what is there; a longer ledger says
\* all of what it said.
LEMMA LedgerGrows ==
  ASSUME DecisionInv, DecisionNumbers, ledger' \in Seq(OutcomeRow), UNCHANGED snaps,
         Len(ledger') >= Len(ledger), \A i \in DOMAIN ledger : ledger'[i] = ledger[i],
         \A o \in Orders : order[o].status = "delivered" => order'[o] = order[o]
  PROVE  /\ \A i \in DOMAIN ledger : /\ i \in DOMAIN ledger'
                                     /\ CreditIsTrue(ledger[i])' /\ JudgedInTime(ledger[i])'
         /\ \A o, t : LateLongBefore(o, t) => LateLongBefore(o, t)'
  <1>1. \A i \in DOMAIN ledger : i \in DOMAIN ledger'
    BY DEF DecisionInv, DecisionTypes
  <1>2. ASSUME NEW o, NEW t, LateLongBefore(o, t) PROVE LateLongBefore(o, t)'
    BY <1>1, <1>2 DEF LateLongBefore
  <1>3. ASSUME NEW i \in DOMAIN ledger PROVE JudgedInTime(ledger[i])'
    <2>1. JudgedInTime(ledger[i]) /\ ledger'[i] = ledger[i]
      BY DEF DecisionInv
    <2> QED
      BY <1>2, <2>1 DEF JudgedInTime
  <1>4. ASSUME NEW i \in DOMAIN ledger PROVE CreditIsTrue(ledger[i])'
    <2>1. CreditIsTrue(ledger[i]) /\ ledger[i] \in OutcomeRow /\ ledger'[i] = ledger[i]
      BY DEF DecisionInv, DecisionTypes
    <2>2. ledger[i].kind = "delivered" => order'[ledger[i].subject] = order[ledger[i].subject]
      BY <2>1 DEF CreditIsTrue, OutcomeRow
    <2> QED
      BY <2>1, <2>2 DEF CreditIsTrue
  <1> QED
    BY <1>1, <1>2, <1>3, <1>4

LEMMA LedgerRows ==
  ASSUME DecisionInv, NEW i \in DOMAIN ledger
  PROVE  ledger[i] \in OutcomeRow /\ ledger[i].at \in Int
  <1>1. ledger[i] \in OutcomeRow
    BY DEF DecisionInv, DecisionTypes
  <1> QED
    BY <1>1 DEF OutcomeRow

\* The newest of some snapshots is one of them.
LEMMA LatestIsOne ==
  ASSUME snaps \in Seq(Snapshot), NEW S \in SUBSET DOMAIN snaps
  PROVE  /\ Decided!Latest(S) \in Nat
         /\ S # {} => Decided!Latest(S) \in S /\ \A y \in S : y <= Decided!Latest(S)
         /\ S = {} => Decided!Latest(S) = 0
  <1>1. Len(snaps) \in Nat /\ S \in SUBSET (0..Len(snaps))
    OBVIOUS
  <1>2. S # {} => \E x \in S : \A y \in S : x >= y
    BY <1>1, HasGreatest
  <1>3. S # {} => \E x \in S : \A y \in S : y <= x
    BY <1>1, <1>2
  <1>4. S # {} => Decided!Latest(S) \in S /\ \A y \in S : y <= Decided!Latest(S)
    BY <1>3 DEF Decided!Latest
  <1>5. S = {} => Decided!Latest(S) = 0
    BY DEF Decided!Latest, Decided!None
  <1> QED
    BY <1>1, <1>4, <1>5

\* One order moves, not from `delivered`, and no cycle is credited with it.
LEMMA OneOrderMoves ==
  ASSUME DecisionInv, DecisionNumbers, NEW o \in Orders, NEW r \in OrderRow,
         order[o].status # "delivered", r.placedBy = 0, SinceIsPast(r, Len(snaps)),
         r.status # "absent", order[o].status = "absent" \/ r.since = order[o].since,
         order' = [order EXCEPT ![o] = r], UNCHANGED <<clock, snaps, plan, ledger, flags, night>>,
         overrides' \in Seq(OverrideRow), hand' \in {hand, Decided!Idle}
  PROVE  DecisionInv'
  <1>1. order' \in [Orders -> OrderRow]
    BY DEF DecisionInv, DecisionTypes
  <1>2. order'[o] = r /\ \A p \in Orders : p # o => order'[p] = order[p]
    BY DEF DecisionInv, DecisionTypes
  <1>3. \A p \in Orders : PlacementIsTrue(p)'
    BY <1>2 DEF DecisionInv, PlacementIsTrue
  <1>4. snaps' \in Seq(Snapshot) /\ Len(snaps') >= Len(snaps) /\ \A i \in DOMAIN snaps : snaps'[i] = snaps[i]
    BY DEF DecisionInv, DecisionTypes
  <1>5. \A p \in Orders : order[p].status = "delivered" => order'[p] = order[p]
    BY <1>2
  <1>6. \A i \in DOMAIN ledger' : CreditIsTrue(ledger[i])' /\ JudgedInTime(ledger[i])'
    BY <1>4, <1>5, OrdersMove
  <1>7. DecisionTypes'
    BY <1>1 DEF DecisionInv, DecisionTypes, Finding
  <1>8. (\A p \in night : LateLongBefore(p, clock))' /\ Decided!FindingsStayResolved'
    BY DEF DecisionInv, LateLongBefore, Decided!FindingsStayResolved
  <1>9. \A p \in Orders : SinceIsPast(order'[p], Len(snaps'))
    BY <1>2 DEF DecisionInv
  <1>10. PlanIsNewest'
    <2> SUFFICES ASSUME plan # 0, NEW p \in snaps[plan].placed
                 PROVE  order'[p].status # "absent" /\ order'[p].since <= plan
      BY DEF DecisionInv, PlanIsNewest
    <2>1. plan = Len(snaps) /\ order[p].status # "absent" /\ order[p].since <= plan
      BY DEF DecisionInv, PlanIsNewest
    <2>2. plan \in DOMAIN snaps /\ snaps[plan] \in Snapshot
      BY <2>1 DEF DecisionInv, DecisionTypes
    <2>3. p \in Orders
      BY <2>2 DEF Snapshot
    <2> QED
      BY <1>2, <2>1, <2>3
  <1> QED
    BY <1>3, <1>6, <1>7, <1>8, <1>9, <1>10 DEF DecisionInv, SinceIsPast

\* What is left of an order's row when one column changes.
LEMMA RowStatus ==
  ASSUME DecisionInv, NEW o \in Orders, NEW st \in Decided!Statuses
  PROVE  /\ [order[o] EXCEPT !.status = st] \in OrderRow
         /\ [order[o] EXCEPT !.status = st].status = st
         /\ [order[o] EXCEPT !.status = st].placedBy = order[o].placedBy
         /\ [order[o] EXCEPT !.status = st].since = order[o].since
  BY DEF DecisionInv, DecisionTypes, OrderRow

Placed(r, st, k) == [[r EXCEPT !.status = st] EXCEPT !.placedBy = k]

LEMMA RowPlaced ==
  ASSUME DecisionInv, NEW o \in Orders, NEW st \in Decided!Statuses, NEW k \in Nat
  PROVE  LET r == Placed(order[o], st, k)
         IN r \in OrderRow /\ r.status = st /\ r.placedBy = k /\ r.since = order[o].since
  <1> DEFINE q == [order[o] EXCEPT !.status = st]
  <1>1. q \in OrderRow /\ q.status = st /\ q.since = order[o].since
    BY DEF DecisionInv, DecisionTypes, OrderRow
  <1> HIDE DEF q
  <1>2. LET r == [q EXCEPT !.placedBy = k]
        IN r \in OrderRow /\ r.status = st /\ r.placedBy = k /\ r.since = order[o].since
    BY <1>1 DEF OrderRow
  <1> QED
    BY <1>2 DEF q, Placed

LEMMA RowArrived ==
  ASSUME DecisionInv, NEW o \in Orders
  PROVE  LET r == [[[order[o] EXCEPT !.status = "held"] EXCEPT !.at = clock] EXCEPT !.since = Len(snaps) + 1]
         IN r \in OrderRow /\ r.status = "held" /\ r.since = Len(snaps) + 1 /\ r.placedBy = order[o].placedBy
  <1> DEFINE q == [order[o] EXCEPT !.status = "held"]
             p == [q EXCEPT !.at = clock]
  <1>0. clock \in Int /\ Len(snaps) \in Nat
    BY DEF DecisionInv, DecisionTypes
  <1>1. q \in OrderRow /\ q.status = "held" /\ q.placedBy = order[o].placedBy
    BY DEF DecisionInv, DecisionTypes, OrderRow, Decided!Statuses
  <1> HIDE DEF q
  <1>2. p \in OrderRow /\ p.status = "held" /\ p.placedBy = order[o].placedBy
    BY <1>0, <1>1 DEF OrderRow
  <1> HIDE DEF p
  <1>3. LET r == [p EXCEPT !.since = Len(snaps) + 1]
        IN r \in OrderRow /\ r.status = "held" /\ r.since = Len(snaps) + 1 /\ r.placedBy = order[o].placedBy
    BY <1>0, <1>2 DEF OrderRow
  <1> QED
    BY <1>3 DEF p, q

\* A snapshot lists orders that wait, which no cycle has placed.
LEMMA CycleStep ==
  ASSUME DecisionInv, DecisionNumbers, NEW release \in SUBSET Followed, NEW placed \in SUBSET Followed,
         Decided!Cycle(release, placed)
  PROVE  DecisionInv'
  <1> DEFINE held == {o \in Followed : order[o].status = "held"}
             told_ == {o \in Followed : order[o].status = "queued"}
             out == told_ \cup release
             k == Len(snaps) + 1
             hold == {[order |-> o, action |-> IF o \in out THEN "release" ELSE "hold",
                       reason |-> IF o \in told_ THEN "dispatcher_released" ELSE "queue"] : o \in held \cup told_}
             snap == [hold |-> hold, placed |-> placed, left |-> out \ placed]
  <1>1. /\ snaps' = Append(snaps, snap) /\ release \subseteq held /\ placed \subseteq out /\ plan' = k
        /\ UNCHANGED <<clock, order, overrides, ledger, flags, hand, night>>
    BY DEF Decided!Cycle
  <1>2. snap \in Snapshot
    <2>1. Followed \subseteq Orders /\ out \subseteq Orders
      BY <1>1 DEF DecisionNumbers
    <2>2. hold \subseteq HoldRow
      BY <2>1 DEF HoldRow, DecisionNumbers
    <2> HIDE DEF hold, out
    <2> QED
      BY <2>1, <2>2 DEF Snapshot
  <1>3. snap.placed = placed
    OBVIOUS
  <1>4. \A o \in placed : o \in Orders /\ order[o].status \in {"held", "queued"}
    BY <1>1 DEF DecisionNumbers
  <1> HIDE DEF snap
  <1>5. /\ snaps' \in Seq(Snapshot) /\ Len(snaps') = Len(snaps) + 1 /\ snaps'[Len(snaps) + 1] = snap
        /\ \A i \in DOMAIN snaps : snaps'[i] = snaps[i] /\ i \in DOMAIN snaps'
        /\ Len(snaps) \in Nat /\ DOMAIN snaps' = DOMAIN snaps \cup {k}
    <2>1. snaps \in Seq(Snapshot) /\ snaps' = Append(snaps, snap)
      BY <1>1 DEF DecisionInv, DecisionTypes
    <2> QED
      BY <1>2, <2>1
  <1>6. \A o \in placed : order[o].placedBy = 0
    BY <1>4 DEF DecisionInv, PlacementIsTrue
  <1>7. ASSUME NEW o \in Orders PROVE PlacementIsTrue(o)'
    <2>1. PlacementIsTrue(o) /\ UNCHANGED order
      BY <1>1 DEF DecisionInv
    <2>2. order[o].placedBy # 0 => \A m \in DOMAIN snaps' : o \in snaps'[m].placed => m <= order[o].placedBy
      BY <1>3, <1>5, <1>6, <2>1 DEF PlacementIsTrue
    <2> QED
      BY <1>5, <2>1, <2>2 DEF PlacementIsTrue
  <1>8. PlanIsNewest'
    <2>1. \A o \in placed : order[o].since <= k
      BY <1>4 DEF DecisionInv, SinceIsPast
    <2> QED
      BY <1>1, <1>3, <1>4, <1>5, <2>1 DEF PlanIsNewest
  <1>9. \A i \in DOMAIN ledger' : CreditIsTrue(ledger[i])' /\ JudgedInTime(ledger[i])'
    <2>1. Len(snaps') >= Len(snaps) /\ UNCHANGED <<ledger, order>>
      BY <1>1, <1>5
    <2> QED
      BY <1>5, <2>1, OrdersMove
  <1>10. \A o \in Orders : SinceIsPast(order[o], Len(snaps'))
    <2> SUFFICES ASSUME NEW o \in Orders PROVE SinceIsPast(order[o], Len(snaps'))
      OBVIOUS
    <2>1. order[o].since <= Len(snaps) + 1 /\ order[o].since \in Int
      BY DEF DecisionInv, DecisionTypes, OrderRow, SinceIsPast
    <2> QED
      BY <1>5, <2>1 DEF SinceIsPast
  <1>11. DecisionTypes'
    BY <1>1, <1>5 DEF DecisionInv, DecisionTypes, Finding
  <1>12. (\A p \in night : LateLongBefore(p, clock))' /\ Decided!FindingsStayResolved'
    BY <1>1 DEF DecisionInv, LateLongBefore, Decided!FindingsStayResolved
  <1> QED
    BY <1>1, <1>7, <1>8, <1>9, <1>10, <1>11, <1>12 DEF DecisionInv, SinceIsPast

\* What the status write moves the newest plan lists.
LEMMA CarryOutStep ==
  ASSUME DecisionInv, DecisionNumbers, Decided!CarryOut
  PROVE  DecisionInv'
  <1> DEFINE M == {o \in snaps[plan].placed : order[o].status \in {"held", "queued"}}
             onto(o) == Placed(order[o], "assigned", plan)
  <1>1. /\ plan # 0 /\ plan' = 0
        /\ order' = [o \in Orders |-> IF o \in M THEN onto(o) ELSE order[o]]
        /\ UNCHANGED <<clock, snaps, overrides, ledger, flags, hand, night>>
    BY DEF Decided!CarryOut, Decided!Moved, Decided!Plannable, Decided!None, Placed
  <1>2. /\ plan = Len(snaps) /\ plan \in Nat /\ plan \in DOMAIN snaps /\ \A m \in DOMAIN snaps : m <= plan
        /\ \A o \in snaps[plan].placed : order[o].since <= plan
    BY <1>1 DEF DecisionInv, DecisionTypes, PlanIsNewest
  <1>3. \A o \in M : o \in snaps[plan].placed /\ order[o].status \in {"held", "queued"}
    OBVIOUS
  <1> HIDE DEF M
  <1>4. ASSUME NEW o \in Orders
        PROVE  /\ onto(o) \in OrderRow /\ onto(o).status = "assigned" /\ onto(o).placedBy = plan
               /\ onto(o).since = order[o].since
    <2>1. "assigned" \in Decided!Statuses
      BY DEF Decided!Statuses
    <2> QED
      BY <1>2, <2>1, RowPlaced
  <1> HIDE DEF onto
  <1>5. order' \in [Orders -> OrderRow]
    BY <1>1, <1>4 DEF DecisionInv, DecisionTypes
  <1>6. \A o \in Orders : order[o].status = "delivered" => order'[o] = order[o]
    BY <1>1, <1>3
  <1>7. ASSUME NEW o \in Orders PROVE PlacementIsTrue(o)'
    <2>1. CASE o \in M
      BY <1>1, <1>2, <1>3, <1>4, <2>1 DEF PlacementIsTrue
    <2>2. CASE o \notin M
      <3>1. order'[o] = order[o] /\ UNCHANGED snaps /\ PlacementIsTrue(o)
        BY <1>1, <2>2 DEF DecisionInv
      <3> QED
        BY <3>1 DEF PlacementIsTrue
    <2> QED
      BY <2>1, <2>2
  <1>8. \A i \in DOMAIN ledger' : CreditIsTrue(ledger[i])' /\ JudgedInTime(ledger[i])'
    <2>1. snaps' \in Seq(Snapshot) /\ Len(snaps') >= Len(snaps) /\ \A i \in DOMAIN snaps : snaps'[i] = snaps[i]
      BY <1>1 DEF DecisionInv, DecisionTypes
    <2> QED
      BY <1>1, <1>6, <2>1, OrdersMove
  <1>9. \A o \in Orders : SinceIsPast(order'[o], Len(snaps'))
    <2> SUFFICES ASSUME NEW o \in Orders PROVE SinceIsPast(order'[o], Len(snaps'))
      OBVIOUS
    <2>1. order'[o].since = order[o].since /\ UNCHANGED snaps
      BY <1>1, <1>4
    <2> QED
      BY <2>1 DEF DecisionInv, SinceIsPast
  <1>10. DecisionTypes'
    BY <1>1, <1>5 DEF DecisionInv, DecisionTypes, Finding
  <1>11. (\A p \in night : LateLongBefore(p, clock))' /\ Decided!FindingsStayResolved' /\ PlanIsNewest'
    BY <1>1 DEF DecisionInv, LateLongBefore, Decided!FindingsStayResolved, PlanIsNewest
  <1> QED
    BY <1>7, <1>8, <1>9, <1>10, <1>11 DEF DecisionInv, SinceIsPast

\* Entries added to the ledger that are true leave the invariant.
LEMMA LedgerStep ==
  ASSUME DecisionInv, DecisionNumbers, ledger' \in Seq(OutcomeRow), UNCHANGED <<clock, snaps, plan, overrides, flags, hand>>,
         Len(ledger') >= Len(ledger), \A i \in DOMAIN ledger : ledger'[i] = ledger[i],
         order' \in [Orders -> OrderRow], \A o \in Orders : order'[o].since = order[o].since,
         \A o \in Orders : order[o].status = "delivered" => order'[o] = order[o],
         \A o \in Orders : \/ order'[o] = order[o]
                            \/ /\ order'[o].status = "delivered" /\ order[o].status = "assigned"
                               /\ order'[o].placedBy = order[o].placedBy,
         \A i \in DOMAIN ledger' \ DOMAIN ledger : CreditIsTrue(ledger[i])' /\ JudgedInTime(ledger[i])',
         night' \subseteq night
  PROVE  DecisionInv'
  <1>1. /\ \A i \in DOMAIN ledger : /\ i \in DOMAIN ledger'
                                    /\ CreditIsTrue(ledger[i])' /\ JudgedInTime(ledger[i])'
        /\ \A o, t : LateLongBefore(o, t) => LateLongBefore(o, t)'
    BY LedgerGrows
  <1>2. \A i \in DOMAIN ledger' : CreditIsTrue(ledger[i])' /\ JudgedInTime(ledger[i])'
    BY <1>1
  <1>3. (\A p \in night : LateLongBefore(p, clock))'
    BY <1>1 DEF DecisionInv
  <1>4. DecisionTypes'
    BY DEF DecisionInv, DecisionTypes, Finding
  <1>5. (\A o \in Orders : PlacementIsTrue(o))'
    <2> SUFFICES ASSUME NEW o \in Orders PROVE PlacementIsTrue(o)'
      OBVIOUS
    <2>1. PlacementIsTrue(o)
      BY DEF DecisionInv
    <2> QED
      BY <2>1 DEF PlacementIsTrue
  <1>7. PlanIsNewest'
    <2> SUFFICES ASSUME plan # 0, NEW p \in snaps[plan].placed
                 PROVE  order'[p].status # "absent" /\ order'[p].since <= plan
      BY DEF DecisionInv, PlanIsNewest
    <2>1. plan = Len(snaps) /\ order[p].status # "absent" /\ order[p].since <= plan
      BY DEF DecisionInv, PlanIsNewest
    <2>2. plan \in DOMAIN snaps /\ snaps[plan] \in Snapshot
      BY <2>1 DEF DecisionInv, DecisionTypes
    <2>3. p \in Orders
      BY <2>2 DEF Snapshot
    <2> QED
      BY <2>1, <2>3
  <1>6. (\A o \in Orders : SinceIsPast(order[o], Len(snaps)))' /\ Decided!FindingsStayResolved'
    BY DEF DecisionInv, SinceIsPast, Decided!FindingsStayResolved
  <1> QED
    BY <1>2, <1>3, <1>4, <1>5, <1>6, <1>7 DEF DecisionInv

LEMMA DeliverStep ==
  ASSUME DecisionInv, DecisionNumbers, NEW o \in Followed, NEW value \in {"on_time", "late"},
         Decided!Deliver(o, value)
  PROVE  DecisionInv'
  <1> DEFINE S == {i \in Decided!Newest(o) : o \in snaps[i].placed}
             s == Decided!snapshot_that_assigned(o)
             e == [subject |-> o, kind |-> "delivered", value |-> value, at |-> clock, snapshot |-> s]
             r == [order[o] EXCEPT !.status = "delivered"]
  <1>0. o \in Orders /\ order[o].status = "assigned" /\ clock \in Int /\ "delivered" \in Decided!Statuses
    BY DEF DecisionNumbers, DecisionInv, DecisionTypes, Decided!Deliver, Decided!Statuses
  <1>1. ledger' = Append(ledger, e) /\ order' = [order EXCEPT ![o] = r] /\ UNCHANGED <<clock, snaps, plan, overrides, flags, hand, night>>
    BY DEF Decided!Deliver, Decided!Entry
  <1>2. s \in Nat /\ (S # {} => s \in S /\ \A y \in S : y <= s) /\ (S = {} => s = 0)
    <2>1. S \in SUBSET DOMAIN snaps
      BY DEF Decided!Newest
    <2>2. s = Decided!Latest(S)
      BY DEF Decided!snapshot_that_assigned
    <2> HIDE DEF S, s
    <2> QED
      BY <2>1, <2>2, LatestIsOne DEF DecisionInv, DecisionTypes
  <1>3. /\ s # 0 => /\ s \in DOMAIN snaps /\ o \in snaps[s].placed /\ s >= order[o].since
                     /\ order[o].placedBy \in {0, s}
        /\ s = 0 => order[o].placedBy = 0 \/ order[o].placedBy <= Len(snaps) - SCAN_LIMIT
    <2>1. s # 0 => s \in S /\ \A y \in S : y <= s
      BY <1>2
    <2>2. s = 0 => S = {}
      <3>1. 0 \notin DOMAIN snaps
        BY DEF DecisionInv, DecisionTypes
      <3>2. 0 \notin S
        BY <3>1 DEF Decided!Newest
      <3> HIDE DEF S, s
      <3> QED
        BY <1>2, <3>2
    <2>3. PlacementIsTrue(o)
      BY <1>0 DEF DecisionInv
    <2>4. ASSUME order[o].placedBy # 0, order[o].placedBy > Len(snaps) - SCAN_LIMIT
          PROVE  order[o].placedBy \in S
      BY <1>0, <2>3, <2>4 DEF PlacementIsTrue, Decided!Newest
    <2>5. order[o].placedBy \in Nat /\ Len(snaps) - SCAN_LIMIT \in Int
      BY <1>0 DEF DecisionInv, DecisionTypes, OrderRow, DecisionNumbers
    <2>6. s # 0 => s \in DOMAIN snaps /\ o \in snaps[s].placed /\ s >= order[o].since
      <3> HIDE DEF s
      <3> QED
        BY <2>1 DEF Decided!Newest
    <2>7. s # 0 => order[o].placedBy \in {0, s}
      <3> SUFFICES ASSUME s # 0, order[o].placedBy # 0 PROVE order[o].placedBy = s
        OBVIOUS
      <3>1. s \in DOMAIN snaps /\ s > Len(snaps) - SCAN_LIMIT /\ s \in Nat
        <4> HIDE DEF s
        <4> QED
          BY <1>2, <2>1 DEF Decided!Newest
      <3>2. s <= order[o].placedBy
        <4> HIDE DEF s, S
        <4> QED
          BY <2>3, <2>6, <3>1 DEF PlacementIsTrue
      <3>3. order[o].placedBy \in S
        <4> HIDE DEF s, S
        <4> QED
          BY <2>4, <2>5, <3>1, <3>2
      <3> HIDE DEF s, S
      <3> QED
        BY <2>1, <2>5, <3>1, <3>2, <3>3
    <2> HIDE DEF s, S
    <2> QED
      BY <2>2, <2>4, <2>5, <2>6, <2>7
  <1> HIDE DEF s
  <1>4. r \in OrderRow /\ r.status = "delivered" /\ r.placedBy = order[o].placedBy /\ r.since = order[o].since
    BY <1>0, RowStatus
  <1> HIDE DEF r
  <1>5. order' \in [Orders -> OrderRow] /\ order'[o] = r /\ \A p \in Orders : p # o => order'[p] = order[p]
    BY <1>0, <1>1, <1>4 DEF DecisionInv, DecisionTypes
  <1>6. e \in OutcomeRow /\ e.kind = "delivered" /\ e.subject = o /\ e.snapshot = s /\ e.value \in {"on_time", "late"}
    BY <1>0, <1>2 DEF OutcomeRow
  <1> HIDE DEF e
  <1>7. /\ ledger' \in Seq(OutcomeRow) /\ Len(ledger') >= Len(ledger)
        /\ \A i \in DOMAIN ledger : ledger'[i] = ledger[i]
        /\ \A i \in DOMAIN ledger' \ DOMAIN ledger : ledger'[i] = e
    BY <1>1, <1>6 DEF DecisionInv, DecisionTypes
  <1>8. ASSUME NEW i \in DOMAIN ledger' \ DOMAIN ledger
        PROVE  CreditIsTrue(ledger[i])' /\ JudgedInTime(ledger[i])'
    <2>1. ledger'[i] = e
      BY <1>7
    <2>2. CreditIsTrue(ledger[i])'
      BY <1>1, <1>3, <1>4, <1>5, <1>6, <2>1 DEF CreditIsTrue
    <2>3. JudgedInTime(ledger[i])'
      BY <1>6, <2>1 DEF JudgedInTime
    <2> QED
      BY <2>2, <2>3
  <1>9. /\ \A p \in Orders : order'[p].since = order[p].since
        /\ \A p \in Orders : order[p].status = "delivered" => order'[p] = order[p]
        /\ \A p \in Orders : \/ order'[p] = order[p]
                              \/ /\ order'[p].status = "delivered" /\ order[p].status = "assigned"
                                 /\ order'[p].placedBy = order[p].placedBy
    BY <1>0, <1>4, <1>5
  <1> QED
    BY <1>1, <1>5, <1>7, <1>8, <1>9, LedgerStep

LEMMA SameCardinality ==
  ASSUME NEW S PROVE Decided!Cardinality(S) = Cardinality(S)
  BY DEF Decided!Cardinality, Cardinality

LEMMA Joined ==
  ASSUME NEW T, NEW s \in Seq(T), NEW t \in Seq(T)
  PROVE  (s \o t) \in Seq(T) /\ Len(s \o t) = Len(s) + Len(t)
  <1>1. (s \o t) \in Seq(T)
    OBVIOUS
  <1>2. Len(s \o t) = Len(s) + Len(t)
    OBVIOUS
  <1> QED
    BY <1>1, <1>2

LEMMA NightStep ==
  ASSUME DecisionInv, DecisionNumbers, NEW q \in [1..Decided!Cardinality(night) -> night], Decided!NightWrites(q)
  PROVE  DecisionInv'
  <1> DEFINE n == Decided!Cardinality(night)
             e(o) == [subject |-> o, kind |-> "disputed", value |-> "silence", at |-> clock, snapshot |-> 0]
             more == [i \in DOMAIN q |-> e(q[i])]
  <1>1. /\ ledger' = ledger \o more /\ night' = {} /\ Len(q) = n
        /\ UNCHANGED <<clock, order, snaps, plan, overrides, flags, hand>>
    BY DEF Decided!NightWrites, Decided!Entry, Decided!None
  <1>2. n \in Nat
    <2>1. IsFiniteSet(night)
      BY FS_Subset DEF DecisionInv, DecisionTypes, DecisionNumbers
    <2> QED
      BY <2>1, FS_CardinalityType, SameCardinality
  <1>3. DOMAIN q = 1..n /\ \A i \in 1..n : q[i] \in night
    OBVIOUS
  <1>4. \A o \in night : e(o) \in OutcomeRow /\ o \in Orders
    BY DEF DecisionInv, DecisionTypes, OutcomeRow
  <1> HIDE DEF n
  <1>5. more \in Seq(OutcomeRow) /\ Len(more) = n /\ \A i \in 1..n : more[i] = e(q[i])
    <2>1. more \in [1..n -> OutcomeRow]
      BY <1>3, <1>4
    <2> QED
      BY <1>2, <1>3, <2>1
  <1>6. \A o \in night : e(o).subject = o /\ e(o).kind = "disputed" /\ e(o).value = "silence" /\ e(o).at = clock
    OBVIOUS
  <1> HIDE DEF e, more
  <1>7. ledger \in Seq(OutcomeRow) /\ Len(ledger) \in Nat
    BY DEF DecisionInv, DecisionTypes
  <1>8. /\ ledger' \in Seq(OutcomeRow) /\ Len(ledger') >= Len(ledger)
        /\ \A i \in DOMAIN ledger : ledger'[i] = ledger[i]
        /\ \A i \in DOMAIN ledger' \ DOMAIN ledger : \E o \in night : ledger'[i] = e(o)
    <2>1. /\ ledger' \in Seq(OutcomeRow) /\ Len(ledger') = Len(ledger) + n
          /\ \A i \in 1..(Len(ledger) + n) :
               ledger'[i] = IF i <= Len(ledger) THEN ledger[i] ELSE more[i - Len(ledger)]
      <3>1. ledger' = ledger \o more /\ more \in Seq(OutcomeRow) /\ Len(more) = n
        BY <1>1, <1>5
      <3>2. ledger' \in Seq(OutcomeRow) /\ Len(ledger') = Len(ledger) + n
        <4>1. (ledger \o more) \in Seq(OutcomeRow) /\ Len(ledger \o more) = Len(ledger) + Len(more)
          BY <1>7, <3>1, Joined
        <4> QED
          BY <3>1, <4>1
      <3>3. \A i \in 1..(Len(ledger) + Len(more)) :
              (ledger \o more)[i] = IF i <= Len(ledger) THEN ledger[i] ELSE more[i - Len(ledger)]
        BY <1>7, <3>1
      <3> QED
        BY <3>1, <3>2, <3>3
    <2>2. DOMAIN ledger = 1..Len(ledger) /\ DOMAIN ledger' = 1..(Len(ledger) + n)
      BY <1>2, <1>7, <2>1
    <2>3. ASSUME NEW i \in DOMAIN ledger' \ DOMAIN ledger PROVE \E o \in night : ledger'[i] = e(o)
      <3>1. i \in 1..(Len(ledger) + n) /\ ~(i <= Len(ledger)) /\ i - Len(ledger) \in 1..n
        BY <1>2, <1>7, <2>2
      <3> QED
        BY <1>3, <1>5, <2>1, <3>1
    <2> QED
      BY <1>2, <1>7, <2>1, <2>2, <2>3
  <1>9. ASSUME NEW i \in DOMAIN ledger' \ DOMAIN ledger
        PROVE  CreditIsTrue(ledger[i])' /\ JudgedInTime(ledger[i])'
    <2>1. PICK o \in night : ledger'[i] = e(o)
      BY <1>8
    <2>2. LateLongBefore(o, clock) /\ clock' = clock
      BY <1>1 DEF DecisionInv
    <2>3. LateLongBefore(o, clock)'
      <3>1. \A p \in Orders : order[p].status = "delivered" => order'[p] = order[p]
        BY <1>1
      <3>2. \A p, t : LateLongBefore(p, t) => LateLongBefore(p, t)'
        BY <1>1, <1>8, <3>1, LedgerGrows
      <3> QED
        BY <2>2, <3>2
    <2> QED
      BY <1>6, <2>1, <2>2, <2>3 DEF CreditIsTrue, JudgedInTime
  <1>10. order' \in [Orders -> OrderRow]
    BY <1>1 DEF DecisionInv, DecisionTypes
  <1> QED
    BY <1>1, <1>8, <1>9, <1>10, LedgerStep

LEMMA FindingResolved ==
  ASSUME NEW x, x = [orders |-> x.orders, n |-> x.n, resolved |-> x.resolved], NEW v
  PROVE  [x EXCEPT !.resolved = v] = [orders |-> x.orders, n |-> x.n, resolved |-> v]
  <1>1. DOMAIN x = {"orders", "n", "resolved"}
    OBVIOUS
  <1> QED
    BY <1>1

LEMMA DecisionStep ==
  ASSUME DecisionInv, DecisionNumbers, [Decided!Next]_Decided!vars
  PROVE  DecisionInv' /\ Decided!OverrideTakesEffect
  <1>0. Decided!Idle \in {Decided!Idle} /\ {"absent", "held", "queued", "assigned", "delivered"} = Decided!Statuses
    BY DEF Decided!Statuses
  <1>a. ASSUME UNCHANGED overrides PROVE Decided!OverrideTakesEffect
    <2>1. ~(Len(overrides') > Len(overrides))
      BY <1>a DEF DecisionInv, DecisionTypes
    <2> QED
      BY <2>1 DEF Decided!OverrideTakesEffect
  <1>b. overrides \in Seq(OverrideRow) /\ order \in [Orders -> OrderRow] /\ clock \in Int
    BY DEF DecisionInv, DecisionTypes
  <1>1. ASSUME UNCHANGED <<order, snaps, overrides, ledger, flags>>, plan' \in {plan, 0},
               clock' \in Int, clock' >= clock,
               hand' # Decided!Idle =>
                 hand'.row \in OverrideRow /\ hand'.row.before = Decided!ApplicableFrom(hand'.row.action),
               night' \subseteq Orders, \A o \in night' : LateLongBefore(o, clock)
        PROVE  DecisionInv'
    <2>1. DecisionTypes'
      BY <1>1 DEF DecisionInv, DecisionTypes, Finding
    <2>2. ASSUME NEW o \in night' PROVE LateLongBefore(o, clock)'
      <3>1. PICK i \in DOMAIN ledger : ledger[i].subject = o /\ ledger[i].value = "late" /\ clock - ledger[i].at >= WINDOW
        BY <1>1, <2>2 DEF LateLongBefore
      <3>2. ledger[i].at \in Int
        BY LedgerRows
      <3>3. clock' - ledger[i].at >= WINDOW
        BY <1>1, <1>b, <3>1, <3>2 DEF DecisionNumbers
      <3> QED
        BY <1>1, <3>1, <3>3 DEF LateLongBefore
    <2>3. \A i \in DOMAIN ledger' : CreditIsTrue(ledger[i])' /\ JudgedInTime(ledger[i])'
      BY <1>1 DEF DecisionInv, CreditIsTrue, JudgedInTime, LateLongBefore
    <2>4. (\A o \in Orders : PlacementIsTrue(o) /\ SinceIsPast(order[o], Len(snaps)))' /\ Decided!FindingsStayResolved'
      BY <1>1 DEF DecisionInv, PlacementIsTrue, SinceIsPast, Decided!FindingsStayResolved
    <2>5. PlanIsNewest'
      BY <1>1 DEF DecisionInv, PlanIsNewest
    <2> QED
      BY <2>1, <2>2, <2>3, <2>4, <2>5 DEF DecisionInv
  <1>2. CASE UNCHANGED Decided!vars
    <2>1. UNCHANGED <<clock, order, snaps, plan, overrides, ledger, flags, hand, night>>
      BY <1>2 DEF Decided!vars
    <2> QED
      BY <1>1, <1>a, <1>b, <2>1 DEF DecisionInv, DecisionTypes
  <1>3. CASE Decided!Tick
    <2>1. clock' = clock + 1 /\ UNCHANGED <<order, snaps, plan, overrides, ledger, flags, hand, night>>
      BY <1>3 DEF Decided!Tick
    <2> QED
      BY <1>1, <1>a, <1>b, <2>1 DEF DecisionInv, DecisionTypes
  <1>4. CASE Decided!OverrideWrites
    <2> DEFINE o == hand.row.order
               st == Decided!Result(hand.row.action)
               r == [order[o] EXCEPT !.status = st]
    <2>1. hand.row \in OverrideRow /\ hand.row.before = Decided!ApplicableFrom(hand.row.action) /\ hand' = Decided!Idle
      BY <1>4 DEF DecisionInv, DecisionTypes, Decided!OverrideWrites
    <2>2. /\ o \in Orders /\ st \in Decided!Statuses /\ st \notin {"absent", "assigned", "delivered"}
          /\ hand.row.before \in {"held", "queued"}
          /\ st = IF hand.row.action = "release" THEN "queued" ELSE "held"
      BY <2>1 DEF OverrideRow, Decided!Result, Decided!ApplicableFrom, Decided!Statuses
    <2>3. CASE Decided!StillThere(hand.row)
      <3>1. /\ overrides' = Append(overrides, hand.row) /\ order' = [order EXCEPT ![o] = r]
            /\ UNCHANGED <<clock, snaps, plan, ledger, flags, night>>
        BY <1>4, <2>3 DEF Decided!OverrideWrites
      <3>2. order[o].status = hand.row.before
        BY <2>3 DEF Decided!StillThere
      <3>9. order[o].placedBy = 0
        BY <2>2, <3>2 DEF DecisionInv, PlacementIsTrue
      <3>3. r \in OrderRow /\ r.status = st /\ r.since = order[o].since /\ r.placedBy = 0
        BY <2>2, <3>9, RowStatus
      <3>4. /\ overrides' \in Seq(OverrideRow) /\ Len(overrides') = Len(overrides) + 1
            /\ overrides'[Len(overrides')] = hand.row
        BY <1>b, <2>1, <3>1
      <3>5. SinceIsPast(r, Len(snaps))
        BY <2>2, <3>3 DEF DecisionInv, SinceIsPast
      <3> HIDE DEF r, st
      <3>6. DecisionInv'
        BY <2>1, <2>2, <3>1, <3>2, <3>3, <3>4, <3>5, OneOrderMoves
      <3>7. order'[o] = r
        BY <1>b, <2>2, <3>1
      <3>8. Decided!OverrideTakesEffect
        BY <2>2, <3>2, <3>3, <3>4, <3>7 DEF Decided!OverrideTakesEffect
      <3> QED
        BY <3>6, <3>8
    <2>4. CASE ~Decided!StillThere(hand.row)
      <3>1. UNCHANGED <<clock, order, snaps, plan, overrides, ledger, flags, night>>
        BY <1>4, <2>4 DEF Decided!OverrideWrites
      <3> QED
        BY <1>1, <1>a, <1>b, <2>1, <3>1 DEF DecisionInv, DecisionTypes
    <2> QED
      BY <2>3, <2>4
  <1>5. CASE Decided!NightReads
    <2>1. night' = Decided!Unjudged /\ UNCHANGED <<clock, order, snaps, plan, overrides, ledger, flags, hand>>
      BY <1>5 DEF Decided!NightReads
    <2>2. ASSUME NEW o \in Decided!Unjudged PROVE o \in Orders /\ LateLongBefore(o, clock)
      <3>1. PICK i \in DOMAIN ledger : ledger[i].subject = o /\ ledger[i].value = "late" /\ ledger[i].at <= clock - WINDOW
        BY <2>2 DEF Decided!Unjudged, Decided!WindowClosed
      <3>2. ledger[i].at \in Int
        BY LedgerRows
      <3>3. clock - ledger[i].at >= WINDOW
        BY <1>b, <3>1, <3>2 DEF DecisionNumbers
      <3> QED
        BY <2>2, <3>1, <3>3 DEF LateLongBefore, Decided!Unjudged
    <2> QED
      BY <1>1, <1>a, <1>b, <2>1, <2>2 DEF DecisionInv, DecisionTypes
  <1>6. ASSUME NEW release \in SUBSET Followed, NEW placed \in SUBSET Followed, Decided!Cycle(release, placed)
        PROVE  DecisionInv' /\ Decided!OverrideTakesEffect
    <2>1. UNCHANGED overrides
      BY <1>6 DEF Decided!Cycle
    <2> QED
      BY <1>6, <1>a, <2>1, CycleStep
  <1>7. ASSUME NEW o \in Orders, Decided!Arrive(o) PROVE DecisionInv' /\ Decided!OverrideTakesEffect
    <2> DEFINE r == [[[order[o] EXCEPT !.status = "held"] EXCEPT !.at = clock] EXCEPT !.since = Len(snaps) + 1]
    <2>1. order' = [order EXCEPT ![o] = r] /\ order[o].status = "absent"
          /\ UNCHANGED <<clock, snaps, plan, overrides, ledger, flags, hand, night>>
      BY <1>7, <1>b DEF Decided!Arrive
    <2>5. order[o].placedBy = 0
      BY <2>1 DEF DecisionInv, PlacementIsTrue
    <2>2. r \in OrderRow /\ r.status = "held" /\ r.since = Len(snaps) + 1 /\ r.placedBy = 0
      BY <2>5, RowArrived
    <2> HIDE DEF r
    <2>3. SinceIsPast(r, Len(snaps))
      BY <2>2 DEF SinceIsPast, DecisionInv, DecisionTypes
    <2>4. DecisionInv'
      BY <1>b, <2>1, <2>2, <2>3, OneOrderMoves
    <2> QED
      BY <1>a, <2>1, <2>4
  <1>8. ASSUME NEW o \in Orders, Decided!Detect(o) PROVE DecisionInv' /\ Decided!OverrideTakesEffect
    <2> DEFINE G == Decided!Group(o)
               x == [orders |-> G, n |-> Decided!Cardinality(flags), resolved |-> FALSE]
    <2>1. /\ flags' = flags \cup {x} /\ ~Decided!Known(G)
          /\ UNCHANGED <<clock, order, snaps, plan, overrides, ledger, hand, night>>
      BY <1>8 DEF Decided!Detect
    <2> HIDE DEF G
    <2>2. x = Finding(x) /\ x.orders = G
      BY DEF Finding
    <2> HIDE DEF x
    <2>3. Decided!FindingsStayResolved'
      BY <2>1, <2>2 DEF DecisionInv, Decided!FindingsStayResolved, Decided!Known
    <2>4. DecisionTypes'
      BY <2>1, <2>2 DEF DecisionInv, DecisionTypes, Finding
    <2> QED
      BY <1>a, <2>1, <2>3, <2>4 DEF DecisionInv, CreditIsTrue, JudgedInTime, LateLongBefore, PlacementIsTrue, SinceIsPast, PlanIsNewest
  <1>9. ASSUME NEW x \in flags, Decided!resolve_flag(x) PROVE DecisionInv' /\ Decided!OverrideTakesEffect
    <2> DEFINE y == [x EXCEPT !.resolved = TRUE]
    <2>1. /\ flags' = (flags \ {x}) \cup {y} /\ UNCHANGED <<clock, order, snaps, plan, overrides, ledger, hand, night>>
      BY <1>9 DEF Decided!resolve_flag
    <2>2. x = [orders |-> x.orders, n |-> x.n, resolved |-> x.resolved]
      BY DEF DecisionInv, DecisionTypes, Finding
    <2>3. y = [orders |-> x.orders, n |-> x.n, resolved |-> TRUE]
      BY <2>2, FindingResolved
    <2> HIDE DEF y
    <2>4. y = Finding(y) /\ y.orders = x.orders
      BY <2>3 DEF Finding
    <2>5. Decided!FindingsStayResolved'
      BY <2>1, <2>4 DEF DecisionInv, Decided!FindingsStayResolved
    <2>6. DecisionTypes'
      BY <2>1, <2>4 DEF DecisionInv, DecisionTypes, Finding
    <2> QED
      BY <1>a, <2>1, <2>5, <2>6 DEF DecisionInv, CreditIsTrue, JudgedInTime, LateLongBefore, PlacementIsTrue, SinceIsPast, PlanIsNewest
  <1>10. ASSUME NEW o \in Followed, NEW st \in {"assigned", "held"}, order[o].status \in {"held", "queued", "assigned"},
                order' = [order EXCEPT ![o] = Placed(order[o], st, 0)],
                UNCHANGED <<clock, snaps, plan, overrides, ledger, flags, hand, night>>
         PROVE  DecisionInv' /\ Decided!OverrideTakesEffect
    <2> DEFINE r == Placed(order[o], st, 0)
    <2>1. o \in Orders /\ st \in Decided!Statuses /\ 0 \in Nat
      BY <1>0 DEF DecisionNumbers
    <2>2. r \in OrderRow /\ r.status = st /\ r.placedBy = 0 /\ r.since = order[o].since
      BY <2>1, RowPlaced
    <2>3. order' = [order EXCEPT ![o] = r]
      BY <1>10
    <2> HIDE DEF r
    <2>4. SinceIsPast(r, Len(snaps))
      BY <2>1, <2>2 DEF DecisionInv, SinceIsPast
    <2>5. DecisionInv'
      BY <1>10, <1>b, <2>1, <2>2, <2>3, <2>4, OneOrderMoves
    <2> QED
      BY <1>10, <1>a, <2>5
  <1>11. ASSUME NEW o \in Followed, Decided!AssignByHand(o) PROVE DecisionInv' /\ Decided!OverrideTakesEffect
    BY <1>10, <1>11, <1>b DEF Decided!AssignByHand, Decided!None, Placed
  <1>12. ASSUME NEW o \in Followed, Decided!ComesBack(o) PROVE DecisionInv' /\ Decided!OverrideTakesEffect
    BY <1>10, <1>12, <1>b DEF Decided!ComesBack, Decided!None, Placed
  <1>13. ASSUME NEW o \in Followed, Decided!Consequence(o) PROVE DecisionInv' /\ Decided!OverrideTakesEffect
    <2> DEFINE e == [subject |-> o, kind |-> "disputed", value |-> "credit", at |-> clock, snapshot |-> 0]
    <2>1. ledger' = Append(ledger, e) /\ UNCHANGED <<clock, order, snaps, plan, overrides, flags, hand, night>>
      BY <1>13 DEF Decided!Consequence, Decided!Entry, Decided!None
    <2>2. e \in OutcomeRow /\ e.kind = "disputed" /\ e.value = "credit"
      BY <1>b DEF OutcomeRow, DecisionNumbers
    <2> HIDE DEF e
    <2>3. /\ ledger' \in Seq(OutcomeRow) /\ Len(ledger') >= Len(ledger)
          /\ \A i \in DOMAIN ledger : ledger'[i] = ledger[i]
          /\ \A i \in DOMAIN ledger' \ DOMAIN ledger : ledger'[i] = e
      BY <2>1, <2>2 DEF DecisionInv, DecisionTypes
    <2>4. \A i \in DOMAIN ledger' \ DOMAIN ledger : CreditIsTrue(ledger[i])' /\ JudgedInTime(ledger[i])'
      BY <2>2, <2>3 DEF CreditIsTrue, JudgedInTime
    <2>5. DecisionInv'
      BY <1>b, <2>1, <2>3, <2>4, LedgerStep
    <2> QED
      BY <1>a, <2>1, <2>5
  <1>14. ASSUME NEW o \in Followed, NEW action \in {"release", "hold"}, Decided!OverrideReads(o, action)
         PROVE  DecisionInv' /\ Decided!OverrideTakesEffect
    <2> DEFINE row_ == [order |-> o, action |-> action, before |-> order[o].status,
                        cited |-> Decided!latest_system_decision(o)]
    <2>1. /\ hand' = [step |-> "write", row |-> row_] /\ order[o].status = Decided!ApplicableFrom(action)
          /\ UNCHANGED <<clock, order, snaps, plan, overrides, ledger, flags, night>>
      BY <1>14 DEF Decided!OverrideReads
    <2>2. Decided!latest_system_decision(o) \in Nat
      <3> DEFINE S == {i \in Decided!Newest(o) : \E h \in snaps[i].hold : h.order = o /\ h.reason # "dispatcher_released"}
      <3>1. S \in SUBSET DOMAIN snaps
        BY DEF Decided!Newest
      <3>2. Decided!latest_system_decision(o) = Decided!Latest(S)
        BY DEF Decided!latest_system_decision
      <3> HIDE DEF S
      <3> QED
        BY <3>1, <3>2, LatestIsOne DEF DecisionInv, DecisionTypes
    <2>3. o \in Orders /\ order[o].status \in Decided!Statuses
      BY <1>b DEF DecisionNumbers, OrderRow
    <2>4. row_ \in OverrideRow /\ row_.before = Decided!ApplicableFrom(row_.action)
      BY <2>1, <2>2, <2>3 DEF OverrideRow
    <2> HIDE DEF row_
    <2>5. hand'.row = row_
      BY <2>1
    <2> QED
      BY <1>1, <1>a, <1>b, <2>1, <2>4, <2>5 DEF DecisionInv, DecisionTypes
  <1>15. ASSUME NEW o \in Followed, NEW value \in {"on_time", "late"}, Decided!Deliver(o, value)
         PROVE  DecisionInv' /\ Decided!OverrideTakesEffect
    <2>1. UNCHANGED overrides
      BY <1>15 DEF Decided!Deliver
    <2> QED
      BY <1>15, <1>a, <2>1, DeliverStep
  <1>16. ASSUME NEW q \in [1..Decided!Cardinality(night) -> night], Decided!NightWrites(q)
         PROVE  DecisionInv' /\ Decided!OverrideTakesEffect
    <2>1. UNCHANGED overrides
      BY <1>16 DEF Decided!NightWrites
    <2> QED
      BY <1>16, <1>a, <2>1, NightStep
  <1>17. CASE Decided!CarryOut
    <2>1. UNCHANGED overrides
      BY <1>17 DEF Decided!CarryOut
    <2> QED
      BY <1>17, <1>a, <2>1, CarryOutStep
  <1>18. CASE Decided!CycleFails
    <2>1. plan' = 0 /\ UNCHANGED <<clock, order, snaps, overrides, ledger, flags, hand, night>>
      BY <1>18 DEF Decided!CycleFails, Decided!None
    <2> QED
      BY <1>1, <1>a, <1>b, <2>1 DEF DecisionInv, DecisionTypes
  <1>19. ASSUME NEW o \in Followed, Decided!Insert(o) PROVE DecisionInv' /\ Decided!OverrideTakesEffect
    BY <1>10, <1>19, <1>b DEF Decided!Insert, Decided!Plannable, Decided!None, Placed
  <1> QED
    BY <1>2, <1>3, <1>4, <1>5, <1>6, <1>7, <1>8, <1>9, <1>11, <1>12, <1>13, <1>14, <1>15, <1>16, <1>17, <1>18, <1>19
       DEF Decided!Next

LEMMA DecisionStart == ASSUME DecisionNumbers, Decided!Init PROVE DecisionInv
  <1>1. /\ clock = 1 /\ snaps = <<>> /\ overrides = <<>> /\ ledger = <<>> /\ flags = {}
        /\ hand = Decided!Idle /\ night = {} /\ plan = 0
        /\ order = [o \in Orders |-> [status |-> "absent", at |-> 0, since |-> 1, placedBy |-> 0]]
    BY DEF Decided!Init, Decided!None
  <1>2. order \in [Orders -> OrderRow] /\ \A o \in Orders : order[o].since = 1 /\ order[o].placedBy = 0
    BY <1>1 DEF OrderRow, Decided!Statuses
  <1>3. DecisionTypes
    BY <1>1, <1>2 DEF DecisionTypes
  <1>4. Len(snaps) = 0 /\ DOMAIN ledger = {}
    BY <1>1
  <1> QED
    BY <1>1, <1>2, <1>3, <1>4 DEF DecisionInv, PlacementIsTrue, PlanIsNewest, SinceIsPast, Decided!FindingsStayResolved

(* A delivery of an order that a cycle placed is credited to that very cycle, *)
(* unless the scan no longer reaches its snapshot; one that was put on the    *)
(* road by hand or by an insertion is credited to none, or to a plan since    *)
(* its arrival that had listed it (record_delivery_outcomes,                  *)
(* snapshot_that_assigned), for any number of orders and cycles, plans that   *)
(* moved nothing and cycles that failed included.                             *)
THEOREM CreditWhereItIsDue ==
  ASSUME DecisionNumbers
  PROVE  Decided!Spec => []Decided!ProvenanceIsTrue
  <1>1. Decided!Init => DecisionInv
    BY DecisionStart
  <1>2. DecisionInv /\ [Decided!Next]_Decided!vars => DecisionInv'
    BY DecisionStep
  <1>3. DecisionInv => Decided!ProvenanceIsTrue
    BY DEF DecisionInv, CreditIsTrue, Decided!ProvenanceIsTrue, Decided!None
  <1> QED
    BY <1>1, <1>2, <1>3, PTL DEF Decided!Spec

(* An order is labelled free of consequence only after its window, and never  *)
(* when one was reported, whatever is reported while the nightly job has its  *)
(* list in hand (close_consequence_windows, consequence_label).               *)
THEOREM FreeMeansNothingReported ==
  ASSUME DecisionNumbers
  PROVE  Decided!Spec => []Decided!LabelsAreSound
  <1>1. Decided!Init => DecisionInv
    BY DecisionStart
  <1>2. DecisionInv /\ [Decided!Next]_Decided!vars => DecisionInv'
    BY DecisionStep
  <1>3. DecisionInv => Decided!LabelsAreSound
    <2> SUFFICES ASSUME DecisionInv, NEW o \in Orders, Decided!consequence_label(o) = "free"
                 PROVE  /\ \A i \in DOMAIN ledger : ledger[i].subject = o => ledger[i].value # "credit"
                        /\ \E i, j \in DOMAIN ledger : /\ ledger[i].subject = o /\ ledger[i].value = "late"
                                                       /\ ledger[j].subject = o /\ ledger[j].value = "silence"
                                                       /\ ledger[j].at - ledger[i].at >= WINDOW
      BY DEF Decided!LabelsAreSound
    <2>1. "credit" \notin Decided!Values(o) /\ "silence" \in Decided!Values(o)
      BY DEF Decided!consequence_label
    <2>2. \A i \in DOMAIN ledger : JudgedInTime(ledger[i])
      BY DEF DecisionInv
    <2>3. \A i \in DOMAIN ledger : ledger[i].subject = o => ledger[i].value # "credit"
      BY <2>1, <2>2 DEF JudgedInTime, Decided!Values, Decided!Disputed
    <2>4. PICK j \in DOMAIN ledger : ledger[j].subject = o /\ ledger[j].value = "silence"
      BY <2>1 DEF Decided!Values, Decided!Disputed
    <2>5. LateLongBefore(o, ledger[j].at)
      BY <2>2, <2>4 DEF JudgedInTime
    <2> QED
      BY <2>3, <2>4, <2>5 DEF LateLongBefore
  <1> QED
    BY <1>1, <1>2, <1>3, PTL DEF Decided!Spec

(* A finding a person resolved is not raised again for the same orders        *)
(* (flag_repeat_visits: the fingerprint is unique, resolved or not).          *)
THEOREM FindingsAreRaisedOnce ==
  ASSUME DecisionNumbers
  PROVE  Decided!Spec => []Decided!FindingsStayResolved
  <1>1. Decided!Init => DecisionInv
    BY DecisionStart
  <1>2. DecisionInv /\ [Decided!Next]_Decided!vars => DecisionInv'
    BY DecisionStep
  <1>3. DecisionInv => Decided!FindingsStayResolved
    BY DEF DecisionInv
  <1> QED
    BY <1>1, <1>2, <1>3, PTL DEF Decided!Spec

(* An override on record found the order in the status it cites and left it   *)
(* in the one it asked for (apply_override), whatever a cycle, another        *)
(* override or a hand assign did between its reading and its writing.         *)
THEOREM OverridesDidWhatTheySay ==
  ASSUME DecisionNumbers
  PROVE  Decided!Spec => Decided!OverridesTookEffect
  <1>1. Decided!Init => DecisionInv
    BY DecisionStart
  <1>2. DecisionInv /\ [Decided!Next]_Decided!vars => DecisionInv' /\ Decided!OverrideTakesEffect
    BY DecisionStep
  <1> QED
    BY <1>1, <1>2, PTL DEF Decided!Spec, Decided!OverridesTookEffect

-----------------------------------------------------------------------------
(* Arrival times.                                                          *)

Track == INSTANCE Tracking

\* refresh_route_etas, one stop at a time.
SetOff(st) == [st |-> st, at |-> Track!_anchor(st).place, cursor |-> Track!Departure(st), stalled |-> FALSE]
Visit(st, w, i) ==
  IF Track!Reached(st, i) \/ w.stalled THEN w
  ELSE IF ~Located[i] THEN [w EXCEPT !.stalled = TRUE]
  ELSE LET eta == w.cursor + Track!Miles(w.at, Place[i])
       IN [st |-> [w.st EXCEPT ![i].eta = eta], at |-> Place[i], cursor |-> Track!Leaves(eta), stalled |-> FALSE]
IsWalk(f, st, n) == f = [i \in 0..n |-> IF i = 0 THEN SetOff(st) ELSE Visit(st, f[i - 1], i)]

\* The recursion has a solution: there is no shortest route without one.
LEMMA WalkExists ==
  ASSUME NEW st, NEW n \in Nat
  PROVE  \E f : IsWalk(f, st, n)
  <1> DEFINE Bad == {m \in Nat : ~(\E f : IsWalk(f, st, m))}
  <1> SUFFICES ASSUME Bad # {} PROVE FALSE
    OBVIOUS
  <1>1. PICK m \in Bad : \A k \in Bad : m <= k
    BY HasLeast
  <1>2. CASE m = 0
    <2> DEFINE f == [i \in 0..m |-> SetOff(st)]
    <2>1. IsWalk(f, st, m)
      BY <1>2 DEF IsWalk
    <2> QED
      BY <1>1, <2>1
  <1>3. CASE m # 0
    <2>1. m \in Nat /\ m - 1 \in Nat /\ m - 1 \notin Bad
      BY <1>1, <1>3
    <2>2. PICK f : IsWalk(f, st, m - 1)
      BY <2>1
    <2> DEFINE g == [i \in 0..m |-> IF i < m THEN f[i] ELSE Visit(st, f[m - 1], m)]
    <2>3. ASSUME NEW i \in 0..m PROVE g[i] = IF i = 0 THEN SetOff(st) ELSE Visit(st, g[i - 1], i)
      <3>1. CASE i = 0
        <4>1. g[i] = f[i] /\ i \in 0..(m - 1)
          BY <1>3, <2>1, <3>1
        <4> QED
          BY <2>2, <3>1, <4>1 DEF IsWalk
      <3>2. CASE i # 0 /\ i < m
        <4>1. g[i] = f[i] /\ g[i - 1] = f[i - 1] /\ i \in 0..(m - 1)
          BY <2>1, <3>2
        <4> QED
          BY <2>2, <3>2, <4>1 DEF IsWalk
      <3>3. CASE i # 0 /\ i = m
        <4>1. g[i] = Visit(st, f[m - 1], m) /\ g[i - 1] = f[m - 1]
          BY <2>1, <3>3
        <4> QED
          BY <3>3, <4>1
      <3> QED
        BY <2>1, <3>1, <3>2, <3>3
    <2>4. g = [i \in 0..m |-> g[i]]
      OBVIOUS
    <2> HIDE DEF g
    <2>5. IsWalk(g, st, m)
      BY <2>3, <2>4 DEF IsWalk
    <2> QED
      BY <1>1, <2>5
  <1> QED
    BY <1>2, <1>3

LEMMA TrackCardinality == ASSUME NEW S PROVE Track!Cardinality(S) = Cardinality(S)
  BY DEF Track!Cardinality, Cardinality

LEMMA RefreshIsWalk ==
  ASSUME NEW n \in Nat, Stops = 1..n, NEW st
  PROVE  \E f : IsWalk(f, st, n) /\ Track!refresh_route_etas(st) = f[n].st
  <1> DEFINE W == CHOOSE f : IsWalk(f, st, n)
  <1>1. Track!Cardinality(Stops) = n
    <2>1. Cardinality(1..n) = n
      BY FS_Interval
    <2> QED
      BY <2>1, TrackCardinality
  <1>2. IsWalk(W, st, n)
    BY WalkExists
  <1>3. Track!refresh_route_etas(st) = W[n].st
    BY <1>1 DEF Track!refresh_route_etas, IsWalk, SetOff, Visit
  <1> QED
    BY <1>2, <1>3

StopRow(r) == [status |-> r.status, eta |-> r.eta, arrived |-> r.arrived, done |-> r.done]
Rows(st, t) ==
  /\ st = [i \in Stops |-> st[i]]
  /\ \A i \in Stops : /\ st[i] = StopRow(st[i]) /\ st[i].eta \in Int
                      /\ st[i].arrived \in 0..t /\ st[i].done \in 0..t

\* st2 is st with other forecasts for stops not reached.
Forecast(st2, st) ==
  \A i \in Stops : /\ st2[i].status = st[i].status /\ st2[i].arrived = st[i].arrived /\ st2[i].done = st[i].done
                   /\ Track!Reached(st, i) => st2[i].eta = st[i].eta

\* Every stop to be made up to i has coordinates; b is the next one after a;
\* and its arrival is that of a, the service there, and the way.
Clear(st, i) == \A k \in Stops : k <= i /\ ~Track!Reached(st, k) => Located[k]
NextTo(st, a, b) ==
  /\ a < b /\ ~Track!Reached(st, a) /\ ~Track!Reached(st, b)
  /\ \A k \in Stops : a < k /\ k < b => Track!Reached(st, k)
OnTheWay(st, a, b) == st[b].eta = st[a].eta + SERVICE + Track!Miles(Place[a], Place[b])

WalkAt(st, w, i, t) ==
  /\ w = [st |-> w.st, at |-> w.at, cursor |-> w.cursor, stalled |-> w.stalled]
  /\ w.at \in Int /\ w.cursor \in Int /\ w.stalled \in BOOLEAN
  /\ Rows(w.st, t) /\ Forecast(w.st, st)
  /\ Clear(st, i) => w.stalled = FALSE
  /\ Clear(st, i) => \A a \in Stops :
       a <= i /\ ~Track!Reached(st, a) /\ (\A k \in Stops : a < k /\ k <= i => Track!Reached(st, k)) =>
         w.at = Place[a] /\ w.cursor = w.st[a].eta + SERVICE
  /\ \A a, b \in Stops : b <= i /\ NextTo(st, a, b) /\ Clear(st, b) => OnTheWay(w.st, a, b)

TrackNumbers(n) == n \in Nat /\ Stops = 1..n /\ Place \in [Stops -> Int] /\ SERVICE \in Int /\ Spots \subseteq Int

\* What a stop adds to a walk that comes to it.
Made(v, st, w, i, t) ==
  /\ v = [st |-> v.st, at |-> v.at, cursor |-> v.cursor, stalled |-> v.stalled]
  /\ v.at = Place[i] /\ v.at \in Int /\ v.cursor = v.st[i].eta + SERVICE /\ v.cursor \in Int /\ v.stalled = FALSE
  /\ v.st[i].eta = w.cursor + Track!Miles(w.at, Place[i])
  /\ Rows(v.st, t) /\ Forecast(v.st, st) /\ \A k \in Stops : k # i => v.st[k] = w.st[k]

LEMMA VisitMakes ==
  ASSUME NEW n, TrackNumbers(n), NEW st, NEW w, NEW t \in Nat, NEW i \in Stops, WalkAt(st, w, i - 1, t),
         ~Track!Reached(st, i), w.stalled = FALSE, Located[i]
  PROVE  Made(Visit(st, w, i), st, w, i, t)
  <1> DEFINE eta == w.cursor + Track!Miles(w.at, Place[i])
             row_ == [status |-> w.st[i].status, eta |-> eta, arrived |-> w.st[i].arrived, done |-> w.st[i].done]
             st2 == [w.st EXCEPT ![i].eta = eta]
             v == Visit(st, w, i)
  <1>1. w.at \in Int /\ w.cursor \in Int /\ Place[i] \in Int /\ SERVICE \in Int
    BY DEF WalkAt, TrackNumbers
  <1>2. eta \in Int
    BY <1>1 DEF Track!Miles
  <1> HIDE DEF eta
  <1>3. Rows(w.st, t) /\ Forecast(w.st, st)
    BY DEF WalkAt
  <1>4. w.st[i] = StopRow(w.st[i]) /\ DOMAIN w.st = Stops
    BY <1>3 DEF Rows
  <1>5. [w.st[i] EXCEPT !.eta = eta] = row_
    <2>1. DOMAIN w.st[i] = {"status", "eta", "arrived", "done"}
      BY <1>4 DEF StopRow
    <2> QED
      BY <1>4, <2>1 DEF StopRow
  <1>6. st2[i] = row_ /\ (\A k \in Stops : k # i => st2[k] = w.st[k]) /\ st2 = [k \in Stops |-> st2[k]]
    <2>1. st2 = [w.st EXCEPT ![i] = row_]
      BY <1>5
    <2> HIDE DEF st2, row_
    <2> QED
      BY <1>3, <1>4, <2>1 DEF Rows
  <1>7. row_ = StopRow(row_) /\ row_.eta = eta /\ row_.status = w.st[i].status
        /\ row_.arrived = w.st[i].arrived /\ row_.done = w.st[i].done
    BY DEF StopRow
  <1>8. v = [st |-> st2, at |-> Place[i], cursor |-> eta + SERVICE, stalled |-> FALSE]
    BY DEF Visit, Track!Leaves, eta
  <1> HIDE DEF st2, row_
  <1>9. Rows(st2, t)
    BY <1>2, <1>3, <1>6, <1>7 DEF Rows
  <1>10. Forecast(st2, st)
    BY <1>3, <1>6, <1>7 DEF Forecast
  <1> HIDE DEF v
  <1>11. v.st = st2 /\ v.at = Place[i] /\ v.cursor = eta + SERVICE /\ v.stalled = FALSE
         /\ v = [st |-> v.st, at |-> v.at, cursor |-> v.cursor, stalled |-> v.stalled]
    BY <1>8
  <1>12. v.st[i].eta = eta /\ v.cursor \in Int
    BY <1>1, <1>2, <1>6, <1>7, <1>11
  <1> QED
    BY <1>1, <1>6, <1>9, <1>10, <1>11, <1>12 DEF eta, v, Made

LEMMA WalkStalled ==
  ASSUME NEW w, w = [st |-> w.st, at |-> w.at, cursor |-> w.cursor, stalled |-> w.stalled], NEW b
  PROVE  [w EXCEPT !.stalled = b] = [st |-> w.st, at |-> w.at, cursor |-> w.cursor, stalled |-> b]
  <1>1. DOMAIN w = {"st", "at", "cursor", "stalled"}
    OBVIOUS
  <1> QED
    BY <1>1

LEMMA VisitStep ==
  ASSUME NEW n, TrackNumbers(n), NEW st, NEW w, NEW t \in Nat, NEW i \in Stops, WalkAt(st, w, i - 1, t)
  PROVE  WalkAt(st, Visit(st, w, i), i, t)
  <1>0. i \in Int /\ Stops \subseteq Int
    BY DEF TrackNumbers
  <1>1. Clear(st, i) => Clear(st, i - 1)
    BY <1>0 DEF Clear
  <1>2. CASE Track!Reached(st, i)
    <2>1. Visit(st, w, i) = w
      BY <1>2 DEF Visit
    <2>2. \A a \in Stops : a <= i /\ ~Track!Reached(st, a) => a <= i - 1
      BY <1>0, <1>2
    <2>3. \A a \in Stops : (\A k \in Stops : a < k /\ k <= i => Track!Reached(st, k)) =>
                             (\A k \in Stops : a < k /\ k <= i - 1 => Track!Reached(st, k))
      BY <1>0
    <2>4. \A a, b \in Stops : b <= i /\ NextTo(st, a, b) => b <= i - 1
      BY <2>2 DEF NextTo
    <2> QED
      BY <1>1, <2>1, <2>2, <2>3, <2>4 DEF WalkAt
  <1>3. ASSUME ~Clear(st, i), NEW v, v = [st |-> v.st, at |-> v.at, cursor |-> v.cursor, stalled |-> v.stalled],
               v.st = w.st, v.at = w.at, v.cursor = w.cursor, v.stalled \in BOOLEAN
        PROVE  WalkAt(st, v, i, t)
    <2>1. \A b \in Stops : b <= i /\ Clear(st, b) => b <= i - 1
      <3> SUFFICES ASSUME NEW b \in Stops, b <= i, Clear(st, b), ~(b <= i - 1) PROVE FALSE
        OBVIOUS
      <3>1. b = i
        BY <1>0
      <3> QED
        BY <1>3, <3>1
    <2> QED
      BY <1>3, <2>1 DEF WalkAt
  <1>4. CASE ~Track!Reached(st, i) /\ w.stalled # FALSE
    <2>1. ~Clear(st, i)
      BY <1>1, <1>4 DEF WalkAt
    <2>2. w.stalled = TRUE
      BY <1>4 DEF WalkAt
    <2>3. Visit(st, w, i) = w
      BY <2>2 DEF Visit
    <2> QED
      BY <1>3, <2>1, <2>3 DEF WalkAt
  <1>5. CASE ~Track!Reached(st, i) /\ w.stalled = FALSE /\ ~Located[i]
    <2> DEFINE v == [w EXCEPT !.stalled = TRUE]
    <2>1. Visit(st, w, i) = v
      BY <1>5 DEF Visit
    <2>2. ~Clear(st, i)
      BY <1>0, <1>5 DEF Clear
    <2>3. v = [st |-> w.st, at |-> w.at, cursor |-> w.cursor, stalled |-> TRUE]
      <3>1. w = [st |-> w.st, at |-> w.at, cursor |-> w.cursor, stalled |-> w.stalled]
        BY DEF WalkAt
      <3> QED
        BY <3>1, WalkStalled
    <2> HIDE DEF v
    <2>4. v = [st |-> v.st, at |-> v.at, cursor |-> v.cursor, stalled |-> v.stalled]
          /\ v.st = w.st /\ v.at = w.at /\ v.cursor = w.cursor /\ v.stalled \in BOOLEAN
      BY <2>3
    <2> QED
      BY <1>3, <2>1, <2>2, <2>4
  <1>6. CASE ~Track!Reached(st, i) /\ w.stalled = FALSE /\ Located[i]
    <2> DEFINE v == Visit(st, w, i)
    <2>0. Made(v, st, w, i, t)
      BY <1>6, VisitMakes
    <2> HIDE DEF v
    <2>1. /\ v = [st |-> v.st, at |-> v.at, cursor |-> v.cursor, stalled |-> v.stalled]
          /\ v.at = Place[i] /\ v.at \in Int /\ v.cursor = v.st[i].eta + SERVICE /\ v.cursor \in Int /\ v.stalled = FALSE
          /\ v.st[i].eta = w.cursor + Track!Miles(w.at, Place[i])
          /\ Rows(v.st, t) /\ Forecast(v.st, st) /\ \A k \in Stops : k # i => v.st[k] = w.st[k]
      BY <2>0 DEF Made
    <2>2. \A a \in Stops : a <= i /\ ~Track!Reached(st, a) /\ (\A k \in Stops : a < k /\ k <= i => Track!Reached(st, k)) => a = i
      BY <1>0, <1>6
    <2>3. ASSUME NEW a \in Stops, NEW b \in Stops, b <= i, NextTo(st, a, b), Clear(st, b)
          PROVE  OnTheWay(v.st, a, b)
      <3>0. a \in Int /\ b \in Int /\ a < b
        BY <1>0, <2>3 DEF NextTo
      <3>1. CASE b = i
        <4>1. /\ a <= i - 1 /\ ~Track!Reached(st, a) /\ \A k \in Stops : a < k /\ k <= i - 1 => Track!Reached(st, k)
          BY <1>0, <2>3, <3>0, <3>1 DEF NextTo
        <4>2. w.at = Place[a] /\ w.cursor = w.st[a].eta + SERVICE
          BY <1>1, <2>3, <3>1, <4>1 DEF WalkAt
        <4>3. v.st[a] = w.st[a]
          BY <2>1, <3>0, <3>1
        <4> QED
          BY <2>1, <3>1, <4>2, <4>3 DEF OnTheWay
      <3>2. CASE b # i
        <4>1. b <= i - 1 /\ a # i
          BY <1>0, <2>3, <3>0, <3>2
        <4>2. OnTheWay(w.st, a, b)
          BY <2>3, <4>1 DEF WalkAt
        <4> QED
          BY <2>1, <3>2, <4>1, <4>2 DEF OnTheWay
      <3> QED
        BY <3>1, <3>2
    <2>4. WalkAt(st, v, i, t)
      BY <2>1, <2>2, <2>3 DEF WalkAt
    <2> QED
      BY <2>4 DEF v
  <1> QED
    BY <1>2, <1>4, <1>5, <1>6

\* The driver is somewhere, and sets off at some time.
LEMMA DepartsAtATime ==
  ASSUME NEW n, TrackNumbers(n), clock \in Nat, NEW st, Rows(st, clock), ping.at \in Int, ping.place \in Int
  PROVE  Track!_anchor(st).place \in Int /\ Track!Departure(st) \in Int
  <1> DEFINE at(i) == Track!ObservedAt(st, i)
             been == {i \in Stops : Track!Reached(st, i) /\ at(i) # Track!Never /\ Located[i]}
             last == CHOOSE i \in been : \A j \in been : j <= i
             seen == {i \in Stops : Track!Reached(st, i) /\ at(i) # Track!Never}
             c == CHOOSE i \in seen : \A j \in seen : at(j) < at(i) \/ (at(j) = at(i) /\ i <= j)
             anchor == Track!_anchor(st)
             now == Track!Max2(anchor.at, clock)
  <1>0. n \in Nat /\ Stops = 1..n /\ SERVICE \in Int
    BY DEF TrackNumbers
  <1>1. \A i \in Stops : at(i) \in 0..clock /\ st[i].arrived \in Int
    BY DEF Rows, Track!ObservedAt, Track!Never
  <1>2. been # {} => last \in Stops
    <2>1. been \in SUBSET (0..n)
      BY <1>0
    <2> HIDE DEF been
    <2>2. been # {} => \E i \in been : \A j \in been : i >= j
      BY <1>0, <2>1, HasGreatest
    <2>3. been # {} => \E i \in been : \A j \in been : j <= i
      BY <2>1, <2>2
    <2>4. been # {} => last \in been
      BY <2>3
    <2> QED
      BY <2>4 DEF been
  <1>3. anchor.place \in Int /\ anchor.at \in Int
    <2>1. /\ been # {} => Place[last] \in Int /\ at(last) \in Int
      <3> HIDE DEF been, last, at
      <3>1. ASSUME been # {} PROVE Place[last] \in Int /\ at(last) \in Int
        BY <1>1, <1>2, <3>1 DEF TrackNumbers
      <3> QED
        BY <3>1
    <2>2. anchor = IF been # {} /\ at(last) > ping.at THEN [place |-> Place[last], at |-> at(last)]
                   ELSE IF ping.at # Track!Never THEN [place |-> ping.place, at |-> ping.at]
                   ELSE [place |-> Track!Hub, at |-> clock]
      BY DEF Track!_anchor
    <2> HIDE DEF been, last, at, anchor
    <2> QED
      BY <2>1, <2>2 DEF Track!Hub
  <1>4. now \in Int
    <2> HIDE DEF anchor
    <2> QED
      BY <1>3 DEF Track!Max2
  <1>5. seen # {} => c \in Stops
    <2> SUFFICES ASSUME seen # {} PROVE c \in seen
      OBVIOUS
    <2> DEFINE Times == {at(i) : i \in seen}
    <2>1. Times \in SUBSET (0..clock) /\ Times # {}
      <3> HIDE DEF at
      <3> QED
        BY <1>1
    <2>2. PICK m \in Times : \A u \in Times : m >= u
      <3> HIDE DEF Times
      <3> QED
        BY <2>1, HasGreatest
    <2> DEFINE Firsts == {i \in seen : at(i) = m}
    <2>3. Firsts \in SUBSET Nat /\ Firsts # {}
      <3>1. Firsts \subseteq Nat
        BY <1>0
      <3>2. \E i \in seen : at(i) = m
        <4> HIDE DEF at, seen
        <4> QED
          BY <2>2
      <3> HIDE DEF at, seen
      <3> QED
        BY <3>1, <3>2
    <2>4. PICK x \in Firsts : \A y \in Firsts : x <= y
      <3> HIDE DEF Firsts
      <3> QED
        BY <2>3, HasLeast
    <2>5. ASSUME NEW j \in seen PROVE at(j) < at(x) \/ (at(j) = at(x) /\ x <= j)
      <3>1. at(j) \in Times /\ at(x) = m /\ j \in Stops
        BY <2>4
      <3>2. at(j) \in Int /\ m \in Int /\ m >= at(j)
        <4> HIDE DEF at, Times
        <4> QED
          BY <1>1, <2>1, <2>2, <3>1
      <3>3. at(j) = m => x <= j
        <4> HIDE DEF at
        <4> QED
          BY <2>4
      <3> HIDE DEF at
      <3> QED
        BY <3>1, <3>2, <3>3
    <2>6. x \in seen
      BY <2>4
    <2> HIDE DEF at, seen
    <2> QED
      BY <2>5, <2>6
  <1>6. Track!Departure(st) = IF seen = {} THEN now
          ELSE IF st[c].status = "arrived" THEN Track!Max2(now, st[c].arrived + SERVICE) ELSE now
    BY DEF Track!Departure
  <1>7. seen # {} => st[c].arrived \in Int
    <2> HIDE DEF seen, c
    <2> QED
      BY <1>1, <1>5
  <1> HIDE DEF seen, c, now, at
  <1>8. Track!Departure(st) \in Int
    BY <1>0, <1>4, <1>6, <1>7 DEF Track!Max2
  <1> QED
    BY <1>3, <1>8

\* What refresh_route_etas makes of a route.
Refreshed(st2, st) ==
  /\ Rows(st2, clock) /\ Forecast(st2, st)
  /\ \A a, b \in Stops : NextTo(st, a, b) /\ Clear(st, b) => OnTheWay(st2, a, b)

LEMMA RefreshGives ==
  ASSUME NEW n, TrackNumbers(n), clock \in Nat, NEW st, Rows(st, clock), ping.at \in Int, ping.place \in Int
  PROVE  Refreshed(Track!refresh_route_etas(st), st)
  <1>0. n \in Nat /\ Stops = 1..n
    BY DEF TrackNumbers
  <1>1. PICK f : IsWalk(f, st, n) /\ Track!refresh_route_etas(st) = f[n].st
    BY <1>0, RefreshIsWalk
  <1>2. /\ f[0] = SetOff(st)
        /\ \A i \in 1..n : f[i] = Visit(st, f[i - 1], i)
    BY <1>0, <1>1 DEF IsWalk
  <1>3. WalkAt(st, f[0], 0, clock)
    <2> DEFINE p == Track!_anchor(st).place
               d == Track!Departure(st)
    <2>1. p \in Int /\ d \in Int
      BY DepartsAtATime
    <2>2. f[0] = [st |-> st, at |-> p, cursor |-> d, stalled |-> FALSE]
      BY <1>2 DEF SetOff
    <2> HIDE DEF p, d
    <2>3. \A a \in Stops : ~(a <= 0)
      BY <1>0
    <2>4. Forecast(st, st)
      BY DEF Forecast
    <2>5. /\ f[0].st = st /\ f[0].at \in Int /\ f[0].cursor \in Int /\ f[0].stalled = FALSE
          /\ f[0] = [st |-> f[0].st, at |-> f[0].at, cursor |-> f[0].cursor, stalled |-> f[0].stalled]
      BY <2>1, <2>2
    <2> QED
      BY <2>3, <2>4, <2>5 DEF WalkAt
  <1> DEFINE Wrong == {i \in 0..n : ~WalkAt(st, f[i], i, clock)}
  <1>4. Wrong = {}
    <2> SUFFICES ASSUME Wrong # {} PROVE FALSE
      OBVIOUS
    <2>1. Wrong \in SUBSET Nat
      BY <1>0
    <2>2. PICK i \in Wrong : \A j \in Wrong : i <= j
      <3> HIDE DEF Wrong
      <3> QED
        BY <2>1, HasLeast
    <2>3. i # 0 /\ i \in 1..n /\ i - 1 \in 0..n /\ i - 1 \notin Wrong
      BY <1>0, <1>3, <2>2
    <2>4. WalkAt(st, f[i - 1], i - 1, clock)
      BY <2>3
    <2>5. WalkAt(st, f[i], i, clock)
      BY <1>0, <1>2, <2>3, <2>4, VisitStep
    <2> QED
      BY <2>2, <2>5
  <1>5. WalkAt(st, f[n], n, clock)
    BY <1>0, <1>4
  <1>6. \A b \in Stops : b <= n
    BY <1>0
  <1> QED
    BY <1>1, <1>5, <1>6 DEF WalkAt, Refreshed

\* The forecasts of a route follow each other, and so do those a ping's
\* refresh has in hand, which are of the route as it is.
TrackInv ==
  /\ clock \in Nat /\ ping.at \in Int /\ ping.place \in Int
  /\ throttle = [until |-> throttle.until, by |-> throttle.by]
  /\ Rows(stops, clock)
  /\ \A a, b \in Stops : NextTo(stops, a, b) /\ Clear(stops, b) /\ stops[a].eta # Track!Never /\ stops[b].eta # Track!Never
                         => OnTheWay(stops, a, b)
  /\ throttle.by # Track!Idle => Refreshed(throttle.by.st, stops)

\* Two routes whose stops are in the same states have the same stops to make.
LEMMA SameStops ==
  ASSUME NEW st, NEW st2, \A i \in Stops : st2[i].status = st[i].status
  PROVE  \A a, b \in Stops : /\ Track!Reached(st2, a) <=> Track!Reached(st, a)
                             /\ NextTo(st2, a, b) <=> NextTo(st, a, b)
                             /\ Clear(st2, b) <=> Clear(st, b)
  <1>1. \A a \in Stops : Track!Reached(st2, a) <=> Track!Reached(st, a)
    BY DEF Track!Reached
  <1> QED
    BY <1>1 DEF NextTo, Clear

LEMMA TapStep ==
  ASSUME NEW n, TrackNumbers(n), TrackInv, NEW st, Rows(st, clock), Track!Tap(st),
         \A i \in Stops : Track!Reached(stops, i) => Track!Reached(st, i) /\ st[i].eta = stops[i].eta
  PROVE  TrackInv' /\ Track!KeepsReachedEtas
  <1>1. /\ throttle.by = Track!Idle /\ stops' = Track!refresh_route_etas(st)
        /\ UNCHANGED <<clock, ping, throttle>>
    BY DEF Track!Tap, Track!RouteFree
  <1>2. Refreshed(stops', st)
    BY <1>1, RefreshGives DEF TrackInv
  <1>3. \A a, b \in Stops : NextTo(stops', a, b) /\ Clear(stops', b) => OnTheWay(stops', a, b)
    <2>1. \A i \in Stops : stops'[i].status = st[i].status
      BY <1>2 DEF Refreshed, Forecast
    <2>2. \A a, b \in Stops : (NextTo(stops', a, b) <=> NextTo(st, a, b)) /\ (Clear(stops', b) <=> Clear(st, b))
      BY <2>1, SameStops
    <2> QED
      BY <1>2, <2>2 DEF Refreshed
  <1>4. Track!KeepsReachedEtas
    BY <1>2 DEF Refreshed, Forecast, Track!KeepsReachedEtas
  <1>5. Rows(stops', clock')
    BY <1>1, <1>2 DEF Refreshed
  <1>6. TrackInv'
    BY <1>1, <1>3, <1>5 DEF TrackInv, NextTo, Clear, OnTheWay, Rows, StopRow, Track!Reached, Track!Miles, Track!Idle, Track!Never
  <1> QED
    BY <1>4, <1>6

\* A stop's row with another status and one more time.
Put(st, i, r) == [st EXCEPT ![i] = r]
WithStatus(st, i, s) == [st EXCEPT ![i].status = s]
WithArrival(st, i, s, t) == [[st EXCEPT ![i].status = s] EXCEPT ![i].arrived = t]
WithEnd(st, i, s, t) == [[st EXCEPT ![i].status = s] EXCEPT ![i].done = t]
RowAs(r, s, a, d) == [status |-> s, eta |-> r.eta, arrived |-> a, done |-> d]

TapRow(st2, st, i, t) ==
  \E s \in {"arrived", "completed", "failed", "cancelled"}, a \in 0..t, d \in 0..t :
    st2 = Put(st, i, RowAs(st[i], s, a, d))
StandsOn(st2, st) ==
  \A k \in Stops : Track!Reached(st, k) => Track!Reached(st2, k) /\ st2[k].eta = st[k].eta

LEMMA RowSet ==
  ASSUME NEW st, NEW st2, NEW t \in Nat, NEW i \in Stops, Rows(st, t), TapRow(st2, st, i, t)
  PROVE  Rows(st2, t) /\ StandsOn(st2, st)
  <1> PICK s \in {"arrived", "completed", "failed", "cancelled"}, a \in 0..t, d \in 0..t :
           st2 = Put(st, i, RowAs(st[i], s, a, d))
    BY DEF TapRow
  <1> DEFINE r == RowAs(st[i], s, a, d)
  <1>0. r = StopRow(r) /\ r.eta = st[i].eta /\ r.arrived = a /\ r.done = d /\ r.status = s
    BY DEF RowAs, StopRow
  <1> HIDE DEF r
  <1>1. st2[i] = r /\ (\A k \in Stops : k # i => st2[k] = st[k]) /\ st2 = [k \in Stops |-> st2[k]]
    BY DEF Rows, Put, r
  <1>2. Rows(st2, t)
    BY <1>0, <1>1 DEF Rows
  <1>3. \A k \in Stops : Track!Reached(st, k) => Track!Reached(st2, k) /\ st2[k].eta = st[k].eta
    BY <1>0, <1>1 DEF Track!Reached
  <1> QED
    BY <1>2, <1>3 DEF StandsOn

LEMMA RowOfStop ==
  ASSUME NEW st, NEW t, Rows(st, t), NEW i \in Stops, NEW s
  PROVE  WithStatus(st, i, s) = Put(st, i, RowAs(st[i], s, st[i].arrived, st[i].done))
  <1>1. st[i] = StopRow(st[i])
    BY DEF Rows
  <1>2. DOMAIN st[i] = {"status", "eta", "arrived", "done"}
    BY <1>1 DEF StopRow
  <1>3. [st[i] EXCEPT !.status = s] = RowAs(st[i], s, st[i].arrived, st[i].done)
    BY <1>1, <1>2 DEF StopRow, RowAs
  <1> QED
    BY <1>3 DEF WithStatus, Put

LEMMA RowTimed ==
  ASSUME NEW st, NEW u, Rows(st, u), NEW i \in Stops, NEW s, NEW t
  PROVE  /\ WithArrival(st, i, s, t) = Put(st, i, RowAs(st[i], s, t, st[i].done))
         /\ WithEnd(st, i, s, t) = Put(st, i, RowAs(st[i], s, st[i].arrived, t))
  <1> DEFINE r == RowAs(st[i], s, st[i].arrived, st[i].done)
             st1 == WithStatus(st, i, s)
  <1>1. st1 = [st EXCEPT ![i] = r]
    BY RowOfStop DEF Put
  <1>2. DOMAIN st = Stops
    BY DEF Rows
  <1>3. /\ WithArrival(st, i, s, t) = [st1 EXCEPT ![i].arrived = t]
        /\ WithEnd(st, i, s, t) = [st1 EXCEPT ![i].done = t]
    BY DEF WithArrival, WithEnd, WithStatus
  <1>4. [r EXCEPT !.arrived = t] = RowAs(st[i], s, t, st[i].done)
        /\ [r EXCEPT !.done = t] = RowAs(st[i], s, st[i].arrived, t)
    BY DEF RowAs
  <1> HIDE DEF r, st1
  <1>5. st1[i] = r /\ DOMAIN st1 = Stops
    BY <1>1, <1>2
  <1>6. \A q : [st1 EXCEPT ![i] = q] = [st EXCEPT ![i] = q]
    BY <1>1, <1>2
  <1>7. [st1 EXCEPT ![i].arrived = t] = [st1 EXCEPT ![i] = [r EXCEPT !.arrived = t]]
        /\ [st1 EXCEPT ![i].done = t] = [st1 EXCEPT ![i] = [r EXCEPT !.done = t]]
    BY <1>5
  <1> QED
    BY <1>3, <1>4, <1>6, <1>7 DEF Put


\* Stops that come off a route are reached, and keep what was forecast.
LEMMA OffRows ==
  ASSUME NEW st, NEW t \in Nat, NEW gone, Rows(st, t)
  PROVE  Rows(Track!TakenOff(st, gone), t) /\ StandsOn(Track!TakenOff(st, gone), st)
  <1> DEFINE off == Track!TakenOff(st, gone)
  <1>1. ASSUME NEW k \in Stops
        PROVE  \/ off[k] = st[k]
               \/ off[k] = RowAs(st[k], "cancelled", st[k].arrived, st[k].done)
    <2>1. st[k] = StopRow(st[k])
      BY DEF Rows
    <2>2. DOMAIN st[k] = {"status", "eta", "arrived", "done"}
      BY <2>1 DEF StopRow
    <2>3. [st[k] EXCEPT !.status = "cancelled"] = RowAs(st[k], "cancelled", st[k].arrived, st[k].done)
      BY <2>1, <2>2 DEF StopRow, RowAs
    <2> QED
      BY <2>3 DEF Track!TakenOff
  <1>2. off = [k \in Stops |-> off[k]]
    BY DEF Track!TakenOff
  <1> HIDE DEF off
  <1>3. ASSUME NEW k \in Stops
        PROVE  /\ off[k] = StopRow(off[k]) /\ off[k].eta = st[k].eta
               /\ off[k].arrived = st[k].arrived /\ off[k].done = st[k].done
               /\ off[k].status = st[k].status \/ off[k].status = "cancelled"
    <2>1. st[k] = StopRow(st[k])
      BY DEF Rows
    <2>2. CASE off[k] = st[k]
      BY <2>1, <2>2
    <2>3. CASE off[k] = RowAs(st[k], "cancelled", st[k].arrived, st[k].done)
      BY <2>3 DEF StopRow, RowAs
    <2> QED
      BY <1>1, <2>2, <2>3
  <1>4. Rows(off, t)
    BY <1>2, <1>3 DEF Rows
  <1>5. StandsOn(off, st)
    BY <1>3 DEF StandsOn, Track!Reached
  <1> QED
    BY <1>4, <1>5 DEF off

LEMMA CancelIsATap ==
  ASSUME NEW n, TrackNumbers(n), TrackInv, NEW o, Track!Cancel(o)
  PROVE  TrackInv' /\ Track!KeepsReachedEtas
  <1>1. clock \in Nat /\ Rows(stops, clock)
    BY DEF TrackInv
  <1>2. Track!Tap(Track!TakenOff(stops, {o}))
    BY DEF Track!Cancel
  <1>3. Rows(Track!TakenOff(stops, {o}), clock) /\ StandsOn(Track!TakenOff(stops, {o}), stops)
    BY <1>1, OffRows
  <1> QED
    BY <1>2, <1>3, TapStep DEF StandsOn

\* A tap gives a stop a status, and the time of it.
LEMMA TapsAreTaps ==
  ASSUME NEW n, TrackNumbers(n), TrackInv, NEW i \in Stops,
         Track!Arrive(i) \/ Track!Complete(i) \/ Track!Flag(i)
  PROVE  TrackInv' /\ Track!KeepsReachedEtas
  <1>0. clock \in Nat /\ Rows(stops, clock) /\ clock \in 0..clock
    BY DEF TrackInv
  <1>1. stops[i].arrived \in 0..clock /\ stops[i].done \in 0..clock
    BY <1>0 DEF Rows
  <1>2. ASSUME NEW s \in {"arrived", "completed", "failed", "cancelled"}, NEW a \in 0..clock, NEW d \in 0..clock,
               NEW st2, st2 = Put(stops, i, RowAs(stops[i], s, a, d)), Track!Tap(st2)
        PROVE  TrackInv' /\ Track!KeepsReachedEtas
    <2>1. TapRow(st2, stops, i, clock)
      BY <1>2 DEF TapRow
    <2>2. Rows(st2, clock) /\ StandsOn(st2, stops)
      BY <1>0, <2>1, RowSet
    <2> QED
      BY <1>2, <2>2, TapStep DEF StandsOn
  <1>3. CASE Track!Arrive(i)
    <2> DEFINE first == IF stops[i].arrived = Track!Never THEN clock ELSE stops[i].arrived
               st2 == WithArrival(stops, i, "arrived", first)
    <2>1. Track!Tap(st2)
      BY <1>3 DEF Track!Arrive, WithArrival
    <2>2. st2 = Put(stops, i, RowAs(stops[i], "arrived", first, stops[i].done))
      BY <1>0, RowTimed
    <2>3. first \in 0..clock
      BY <1>0, <1>1
    <2> HIDE DEF st2, first
    <2> QED
      BY <1>0, <1>1, <1>2, <2>1, <2>2, <2>3
  <1>4. CASE Track!Complete(i)
    <2> DEFINE st2 == WithEnd(stops, i, "completed", clock)
    <2>1. Track!Tap(st2)
      BY <1>4 DEF Track!Complete, WithEnd
    <2>2. st2 = Put(stops, i, RowAs(stops[i], "completed", stops[i].arrived, clock))
      BY <1>0, RowTimed
    <2> HIDE DEF st2
    <2> QED
      BY <1>0, <1>1, <1>2, <2>1, <2>2
  <1>5. CASE Track!Flag(i)
    <2> DEFINE st2 == WithEnd(stops, i, "failed", clock)
               st3 == Track!TakenOff(st2, Carries[i])
    <2>1. Track!Tap(st3)
      BY <1>5 DEF Track!Flag, WithEnd
    <2>2. st2 = Put(stops, i, RowAs(stops[i], "failed", stops[i].arrived, clock))
      BY <1>0, RowTimed
    <2> HIDE DEF st2
    <2>3. TapRow(st2, stops, i, clock)
      BY <1>0, <1>1, <2>2 DEF TapRow
    <2>4. Rows(st2, clock) /\ StandsOn(st2, stops)
      BY <1>0, <2>3, RowSet
    <2>5. Rows(st3, clock) /\ StandsOn(st3, st2)
      BY <1>0, <2>4, OffRows
    <2> HIDE DEF st3
    <2>6. StandsOn(st3, stops)
      BY <2>4, <2>5 DEF StandsOn
    <2> QED
      BY <2>1, <2>5, <2>6, TapStep DEF StandsOn
  <1> QED
    BY <1>3, <1>4, <1>5

\* A ping's refresh writes forecasts of the route as it is.
LEMMA RefreshWritesStep ==
  ASSUME NEW n, TrackNumbers(n), TrackInv, Track!RefreshWrites
  PROVE  TrackInv' /\ Track!KeepsReachedEtas
  <1> DEFINE by == throttle.by.st
  <1>1. /\ throttle.by # Track!Idle /\ throttle' = [throttle EXCEPT !.by = Track!Idle]
        /\ stops' = [i \in Stops |-> IF Track!Reached(by, i) THEN stops[i] ELSE [stops[i] EXCEPT !.eta = by[i].eta]]
        /\ UNCHANGED <<clock, ping>>
    BY DEF Track!RefreshWrites
  <1>2. Rows(stops, clock) /\ Refreshed(by, stops)
    BY <1>1 DEF TrackInv
  <1> HIDE DEF by
  <1>3. \A i \in Stops : (Track!Reached(by, i) <=> Track!Reached(stops, i)) /\ by[i].status = stops[i].status
    BY <1>2 DEF Refreshed, Forecast, Track!Reached
  <1>4. ASSUME NEW i \in Stops
        PROVE  stops'[i] = [status |-> stops[i].status, eta |-> by[i].eta, arrived |-> stops[i].arrived, done |-> stops[i].done]
    <2>1. stops[i] = StopRow(stops[i])
      BY <1>2 DEF Rows
    <2>2. DOMAIN stops[i] = {"status", "eta", "arrived", "done"}
      BY <2>1 DEF StopRow
    <2>3. CASE Track!Reached(by, i)
      <3>1. stops'[i] = stops[i] /\ by[i].eta = stops[i].eta
        BY <1>1, <1>2, <1>3, <2>3 DEF Refreshed, Forecast
      <3> QED
        BY <2>1, <3>1 DEF StopRow
    <2>4. CASE ~Track!Reached(by, i)
      <3>1. stops'[i] = [stops[i] EXCEPT !.eta = by[i].eta]
        BY <1>1, <2>4
      <3> QED
        BY <2>1, <2>2, <3>1 DEF StopRow
    <2> QED
      BY <2>3, <2>4
  <1>6. ASSUME NEW i \in Stops
        PROVE  /\ stops'[i].status = stops[i].status /\ stops'[i].eta = by[i].eta
               /\ stops'[i] = StopRow(stops'[i])
               /\ stops'[i].arrived = stops[i].arrived /\ stops'[i].done = stops[i].done
    <2>1. stops'[i] = [status |-> stops[i].status, eta |-> by[i].eta, arrived |-> stops[i].arrived, done |-> stops[i].done]
      BY <1>4
    <2> QED
      BY <2>1 DEF StopRow
  <1>5. Rows(stops', clock')
    <2>1. stops' = [i \in Stops |-> stops'[i]]
      BY <1>1
    <2>2. \A i \in Stops : by[i].eta \in Int /\ stops[i].arrived \in 0..clock /\ stops[i].done \in 0..clock
      BY <1>2 DEF Refreshed, Rows
    <2>3. \A i \in Stops : stops'[i] = StopRow(stops'[i]) /\ stops'[i].eta = by[i].eta
                           /\ stops'[i].arrived = stops[i].arrived /\ stops'[i].done = stops[i].done
      BY <1>6
    <2> QED
      BY <1>1, <2>1, <2>2, <2>3 DEF Rows
  <1>7. Track!KeepsReachedEtas
    BY <1>2, <1>6 DEF Refreshed, Forecast, Track!KeepsReachedEtas
  <1>8. \A a, b \in Stops : NextTo(stops', a, b) /\ Clear(stops', b) => OnTheWay(stops', a, b)
    <2>1. \A a, b \in Stops : (NextTo(stops', a, b) <=> NextTo(stops, a, b)) /\ (Clear(stops', b) <=> Clear(stops, b))
      BY <1>6, SameStops
    <2>2. \A a, b \in Stops : OnTheWay(by, a, b) => OnTheWay(stops', a, b)
      BY <1>6 DEF OnTheWay
    <2> QED
      BY <1>2, <2>1, <2>2 DEF Refreshed
  <1>9. throttle'.by = Track!Idle /\ throttle' = [until |-> throttle'.until, by |-> throttle'.by]
    <2>1. throttle = [until |-> throttle.until, by |-> throttle.by]
      BY DEF TrackInv
    <2>2. throttle' = [until |-> throttle.until, by |-> Track!Idle]
      BY <1>1, <2>1
    <2> QED
      BY <2>2
  <1>10. TrackInv'
    BY <1>1, <1>5, <1>8, <1>9 DEF TrackInv, NextTo, Clear, OnTheWay, Rows, StopRow, Track!Reached, Track!Miles, Track!Idle, Track!Never
  <1> QED
    BY <1>7, <1>10

\* A step that leaves the stops alone, and what a refresh has in hand.
LEMMA OtherTrackStep ==
  ASSUME TrackInv, UNCHANGED stops, clock' \in Nat, clock' >= clock, ping'.at \in Int, ping'.place \in Int,
         throttle' = [until |-> throttle'.until, by |-> throttle'.by],
         throttle'.by = throttle.by \/ throttle'.by = Track!Idle
  PROVE  TrackInv' /\ Track!KeepsReachedEtas
  <1>0. clock \in Nat
    BY DEF TrackInv
  <1>1. \A st : Rows(st, clock) => Rows(st, clock')
    <2>1. \A x : x \in 0..clock => x \in 0..clock'
      BY <1>0
    <2> QED
      BY <2>1 DEF Rows
  <1>2. Rows(stops', clock')
    BY <1>1 DEF TrackInv
  <1>3. throttle'.by # Track!Idle => throttle'.by = throttle.by /\ Refreshed(throttle.by.st, stops)
    BY DEF TrackInv
  <1>4. throttle'.by # Track!Idle => Refreshed(throttle.by.st, stops)'
    <2> SUFFICES ASSUME throttle'.by # Track!Idle PROVE Refreshed(throttle.by.st, stops)'
      OBVIOUS
    <2>1. throttle'.by = throttle.by /\ Refreshed(throttle.by.st, stops)
      BY <1>3
    <2> DEFINE by == throttle.by.st
    <2>2. Rows(by, clock') /\ Forecast(by, stops)
          /\ \A a, b \in Stops : NextTo(stops, a, b) /\ Clear(stops, b) => OnTheWay(by, a, b)
      BY <1>1, <2>1 DEF Refreshed
    <2>3. throttle'.by.st = by /\ stops' = stops
      BY <2>1
    <2> HIDE DEF by
    <2> QED
      BY <2>2, <2>3 DEF Refreshed
  <1>5. TrackInv'
    BY <1>2, <1>4 DEF TrackInv
  <1> QED
    BY <1>5 DEF Track!KeepsReachedEtas

LEMMA TrackStep ==
  ASSUME NEW n, TrackNumbers(n), TrackInv, [Track!Next]_Track!vars
  PROVE  TrackInv' /\ Track!KeepsReachedEtas
  <1>0. clock \in Nat /\ ping.at \in Int /\ ping.place \in Int /\ throttle = [until |-> throttle.until, by |-> throttle.by]
    BY DEF TrackInv
  <1>1. CASE UNCHANGED Track!vars
    BY <1>0, <1>1, OtherTrackStep DEF Track!vars
  <1>2. CASE Track!Tick
    BY <1>0, <1>2, OtherTrackStep DEF Track!Tick
  <1>3. CASE Track!RefreshLocks
    <2> DEFINE by == Track!refresh_route_etas(stops)
    <2>1. /\ throttle' = [until |-> clock + PING_REFRESH, by |-> [step |-> "held", st |-> by]]
          /\ UNCHANGED <<clock, stops, ping>>
      BY <1>3 DEF Track!RefreshLocks
    <2>2. Refreshed(by, stops)
      BY <1>0, RefreshGives DEF TrackInv
    <2> HIDE DEF by
    <2>3. throttle'.by.st = by /\ throttle' = [until |-> throttle'.until, by |-> throttle'.by]
      BY <2>1
    <2>4. Refreshed(throttle.by.st, stops)'
      BY <2>1, <2>2, <2>3 DEF Refreshed, Rows, StopRow, Forecast, NextTo, Clear, OnTheWay, Track!Reached, Track!Miles
    <2>5. TrackInv'
      BY <1>0, <2>1, <2>3, <2>4 DEF TrackInv, Rows, StopRow, NextTo, Clear, OnTheWay, Track!Reached, Track!Miles, Track!Never
    <2> QED
      BY <2>1, <2>5 DEF Track!KeepsReachedEtas
  <1>4. CASE Track!RefreshWrites
    BY <1>4, RefreshWritesStep
  <1>5. CASE Track!RefreshFails
    <2>1. throttle' = [until |-> clock + PING_RETRY, by |-> Track!Idle] /\ UNCHANGED <<clock, stops, ping>>
      BY <1>5 DEF Track!RefreshFails
    <2>2. throttle'.by = Track!Idle /\ throttle' = [until |-> throttle'.until, by |-> throttle'.by]
      BY <2>1
    <2> QED
      BY <1>0, <2>1, <2>2, OtherTrackStep
  <1>6. ASSUME NEW i \in Stops, Track!Arrive(i) \/ Track!Complete(i) \/ Track!Flag(i)
        PROVE  TrackInv' /\ Track!KeepsReachedEtas
    BY <1>6, TapsAreTaps
  <1>9. ASSUME NEW o, Track!Cancel(o) PROVE TrackInv' /\ Track!KeepsReachedEtas
    BY <1>9, CancelIsATap
  <1>7. ASSUME NEW x \in Spots, NEW t \in 1..MaxTime, Track!ReportLocation(x, t)
        PROVE  TrackInv' /\ Track!KeepsReachedEtas
    <2>1. /\ t \in {clock, clock - 1}
          /\ ping' = [place |-> IF t >= ping.at THEN x ELSE ping.place, at |-> Track!Max2(t, ping.at), shown |-> x, count |-> ping.count + 1]
          /\ UNCHANGED <<clock, stops, throttle>>
      BY <1>7 DEF Track!ReportLocation
    <2>2. t \in Int /\ x \in Int
      BY <1>0, <2>1 DEF TrackNumbers
    <2>3. ping'.place \in Int /\ ping'.at \in Int
      BY <1>0, <2>1, <2>2 DEF Track!Max2
    <2> QED
      BY <1>0, <2>1, <2>3, OtherTrackStep
  <1>8. ASSUME NEW o, NEW score, Track!submit_rating(o, score) PROVE TrackInv' /\ Track!KeepsReachedEtas
    BY <1>0, <1>8, OtherTrackStep DEF Track!submit_rating
  <1> QED
    BY <1>1, <1>2, <1>3, <1>4, <1>5, <1>6, <1>7, <1>8, <1>9 DEF Track!Next

LEMMA TrackStart == ASSUME NEW n, TrackNumbers(n), Track!Init PROVE TrackInv
  <1>1. \A i \in Stops : stops[i] = [status |-> "pending", eta |-> 0, arrived |-> 0, done |-> 0]
    BY DEF Track!Init, Track!Never
  <1>2. clock = 1 /\ stops = [i \in Stops |-> stops[i]]
    BY DEF Track!Init
  <1>3. Rows(stops, clock)
    BY <1>1, <1>2 DEF Rows, StopRow
  <1>4. \A i \in Stops : stops[i].eta = Track!Never
    BY <1>1 DEF Track!Never
  <1>5. ping.at \in Int /\ ping.place \in Int /\ throttle.by = Track!Idle /\ throttle = [until |-> throttle.until, by |-> throttle.by]
    BY DEF Track!Init, Track!Never, Track!Hub
  <1> QED
    BY <1>2, <1>3, <1>4, <1>5 DEF TrackInv

(* No forecast is written onto a stop the driver has reached                 *)
(* (refresh_route_etas, and its two callers), for any route, however a       *)
(* ping's refresh and the driver's taps interleave.                          *)
THEOREM ReachedForecastsStand ==
  ASSUME NEW n, TrackNumbers(n)
  PROVE  Track!Spec => Track!ForecastsStand
  <1>1. Track!Init => TrackInv
    BY TrackStart
  <1>2. TrackInv /\ [Track!Next]_Track!vars => TrackInv' /\ Track!KeepsReachedEtas
    BY TrackStep
  <1> QED
    BY <1>1, <1>2, PTL DEF Track!Spec, Track!ForecastsStand

(* Along what is left of a route each arrival leaves time to serve the stop  *)
(* before and drive on, whoever wrote the forecasts last.                    *)
THEOREM ArrivalsCanBeMet ==
  ASSUME NEW n, TrackNumbers(n)
  PROVE  Track!Spec => []Track!EtasAreReachable
  <1>1. Track!Init => TrackInv
    BY TrackStart
  <1>2. TrackInv /\ [Track!Next]_Track!vars => TrackInv'
    BY TrackStep
  <1>3. TrackInv => Track!EtasAreReachable
    <2> SUFFICES ASSUME TrackInv, NEW i \in Stops, NEW j \in Stops, NextTo(stops, i, j), Clear(stops, j),
                        stops[i].eta # Track!Never, stops[j].eta # Track!Never
                 PROVE  stops[j].eta >= stops[i].eta + SERVICE + Track!Miles(Place[i], Place[j])
      BY DEF Track!EtasAreReachable, NextTo, Clear
    <2>1. OnTheWay(stops, i, j)
      BY DEF TrackInv
    <2>2. stops[j].eta \in Int
      BY DEF TrackInv, Rows
    <2> QED
      BY <2>1, <2>2 DEF OnTheWay
  <1> QED
    BY <1>1, <1>2, <1>3, PTL DEF Track!Spec

-----------------------------------------------------------------------------
(* Parts that go back.                                                     *)

Cores == INSTANCE Returns

\* The rows made at intake are numbered as they were made.
ReturnNumbers == \E k \in Nat : Expects = 1..k

PartFields == {"id", "order", "shop", "manifest", "status", "collected", "adhoc"}
Numbered(S, k) == /\ \A i \in S : DOMAIN i = PartFields /\ i.id \in 1..k
                  /\ \A n \in 1..k : \E i \in S : i.id = n
                  /\ \A i, j \in S : i.id = j.id => i = j

\* What was handed over unannounced is still in the van or back at the shop, is
\* on record once, and was handed over.
PartFine(i, tk) ==
  i.adhoc => /\ i.status \in {"collected", "returned_to_shop"}
             /\ <<i.order, i.manifest>> \in Orders \X Manifests => tk[<<i.order, i.manifest>>] >= 1
PartsFine(S, tk) ==
  /\ \E k \in Nat : Numbered(S, k)
  /\ \A i \in S : PartFine(i, tk)
  /\ \A i, j \in S : i.adhoc /\ j.adhoc /\ i.order = j.order /\ i.manifest = j.manifest => i = j

Kinds == {"collect-return", "return-not-ready", "return-to-shop"}
Taps == [kind : Kinds, order : Orders, manifest : Manifests \cup {Cores!NoManifest}]
Typed(x, tk) == x.manifest # Cores!NoManifest => tk[<<x.order, x.manifest>>] >= 1

\* The row the office has in hand is there, and if it is to be rescheduled was
\* not handed over unannounced.
ServedFine(sv, S) == sv.id # 0 => \E i \in S : i.id = sv.id /\ (sv.act = "mark" \/ ~i.adhoc)

ReturnInv ==
  /\ taken \in [Orders \X Manifests -> Nat]
  /\ PartsFine(items, taken)
  /\ taps \in Seq(Taps) /\ \A n \in DOMAIN taps : Typed(taps[n], taken)
  /\ ServedFine(serving, items)

\* Rows that are numbered one by one are as many as the last number.
LEMMA NumbersCount ==
  ASSUME NEW S, NEW k \in Nat, Numbered(S, k)
  PROVE  Cores!Cardinality(S) = k
  <1> DEFINE f == [n \in 1..k |-> CHOOSE i \in S : i.id = n]
  <1>1. f \in Bijection(1..k, S)
    <2>1. \A n \in 1..k : f[n] \in S /\ f[n].id = n
      BY DEF Numbered
    <2>2. f \in [1..k -> S]
      BY <2>1
    <2> HIDE DEF f
    <2>3. \A i \in S : f[i.id] = i /\ i.id \in 1..k
      BY <2>1 DEF Numbered
    <2> QED
      BY <2>1, <2>2, <2>3 DEF Bijection, Injection, Surjection, IsInjective
  <1>2. IsFiniteSet(1..k) /\ Cardinality(1..k) = k
    BY FS_Interval
  <1>3. ExistsBijection(1..k, S)
    BY <1>1 DEF ExistsBijection
  <1>4. Cardinality(S) = k
    BY <1>2, <1>3, FS_Bijection
  <1>5. Cores!Cardinality(S) = Cardinality(S)
    BY DEF Cores!Cardinality, Cardinality
  <1> QED
    BY <1>4, <1>5

\* The same parts, in other states.
Restated(S, T) ==
  PartsFine(T, taken) /\ \A i \in S : \E j \in T : j.id = i.id /\ j.adhoc = i.adhoc

LEMMA MovedKeeps ==
  ASSUME PartsFine(items, taken), NEW rows \in SUBSET items, NEW st,
         \A i \in rows : i.adhoc => st \in {"collected", "returned_to_shop"}
  PROVE  Restated(items, Cores!Moved(rows, st))
  <1> DEFINE up(i) == [i EXCEPT !.status = st, !.collected = @ \/ st = "collected"]
             T == Cores!Moved(rows, st)
  <1>1. PICK k \in Nat : Numbered(items, k)
    BY DEF PartsFine
  <1>2. ASSUME NEW i \in items
        PROVE  /\ up(i).id = i.id /\ up(i).adhoc = i.adhoc /\ up(i).order = i.order /\ up(i).manifest = i.manifest
               /\ up(i).status = st /\ DOMAIN up(i) = PartFields
    BY <1>1 DEF Numbered, PartFields
  <1>3. T = (items \ rows) \cup {up(i) : i \in rows}
    BY DEF Cores!Moved
  <1> HIDE DEF up, T
  <1>4. ASSUME NEW j \in T
        PROVE  \E i \in items : /\ j = IF i \in rows THEN up(i) ELSE i
                                /\ j.id = i.id /\ j.adhoc = i.adhoc /\ j.order = i.order /\ j.manifest = i.manifest
    BY <1>2, <1>3
  <1>5. \A i \in items : \E j \in T : j.id = i.id /\ j.adhoc = i.adhoc
    BY <1>2, <1>3
  <1>6. \A j \in T : DOMAIN j = PartFields
    BY <1>1, <1>2, <1>4 DEF Numbered
  <1>7. Numbered(T, k)
    <2>1. \A x, y \in T : x.id = y.id => x = y
      <3> SUFFICES ASSUME NEW x \in T, NEW y \in T, x.id = y.id PROVE x = y
        OBVIOUS
      <3>1. PICK i \in items : (x = IF i \in rows THEN up(i) ELSE i) /\ x.id = i.id
        BY <1>4
      <3>2. PICK j \in items : (y = IF j \in rows THEN up(j) ELSE j) /\ y.id = j.id
        BY <1>4
      <3>3. i = j
        BY <1>1, <3>1, <3>2 DEF Numbered
      <3> QED
        BY <3>1, <3>2, <3>3
    <2> QED
      BY <1>1, <1>4, <1>5, <1>6, <2>1 DEF Numbered
  <1>8. \A j \in T : PartFine(j, taken)
    <2> SUFFICES ASSUME NEW j \in T PROVE PartFine(j, taken)
      OBVIOUS
    <2>1. PICK i \in items : /\ j = IF i \in rows THEN up(i) ELSE i
                             /\ j.id = i.id /\ j.adhoc = i.adhoc /\ j.order = i.order /\ j.manifest = i.manifest
      BY <1>4
    <2>2. PartFine(i, taken)
      BY DEF PartsFine
    <2>3. j.adhoc => j.status \in {"collected", "returned_to_shop"}
      BY <1>2, <2>1, <2>2 DEF PartFine
    <2> QED
      BY <2>1, <2>2, <2>3 DEF PartFine
  <1>9. \A x, y \in T : x.adhoc /\ y.adhoc /\ x.order = y.order /\ x.manifest = y.manifest => x = y
    <2> SUFFICES ASSUME NEW x \in T, NEW y \in T, x.adhoc, y.adhoc, x.order = y.order, x.manifest = y.manifest
                 PROVE  x = y
      OBVIOUS
    <2>1. PICK i \in items : /\ x = IF i \in rows THEN up(i) ELSE i
                             /\ x.adhoc = i.adhoc /\ x.order = i.order /\ x.manifest = i.manifest
      BY <1>4
    <2>2. PICK j \in items : /\ y = IF j \in rows THEN up(j) ELSE j
                             /\ y.adhoc = j.adhoc /\ y.order = j.order /\ y.manifest = j.manifest
      BY <1>4
    <2>3. i = j
      BY <2>1, <2>2 DEF PartsFine
    <2> QED
      BY <2>1, <2>2, <2>3
  <1>10. PartsFine(T, taken)
    BY <1>7, <1>8, <1>9 DEF PartsFine
  <1> QED
    BY <1>5, <1>10 DEF Restated, T

\* A row is added under the next number.
LEMMA RowAdded ==
  ASSUME PartsFine(items, taken), NEW o, NEW s, NEW m, NEW st,
         LET n == Cores!Row(o, s, m, st) IN
           /\ n.adhoc => \A i \in items : i.adhoc => i.order # o \/ i.manifest # m
           /\ PartFine(n, taken)
  PROVE  Restated(items, items \cup {Cores!Row(o, s, m, st)})
  <1> DEFINE n == Cores!Row(o, s, m, st)
             T == items \cup {n}
  <1>1. PICK k \in Nat : Numbered(items, k)
    BY DEF PartsFine
  <1>2. Cores!Fresh = k + 1
    BY <1>1, NumbersCount DEF Cores!Fresh
  <1>3. n.id = k + 1 /\ DOMAIN n = PartFields /\ n.order = o /\ n.manifest = m
    BY <1>2 DEF Cores!Row, PartFields
  <1>4. PartFine(n, taken) /\ (n.adhoc => \A i \in items : i.adhoc => i.order # o \/ i.manifest # m)
    OBVIOUS
  <1> HIDE DEF n
  <1>5. \A i \in items : i.id # n.id
    BY <1>1, <1>3 DEF Numbered
  <1>6. Numbered(T, k + 1)
    <2>1. \A i \in T : DOMAIN i = PartFields /\ i.id \in 1..(k + 1)
      BY <1>1, <1>3 DEF Numbered
    <2>2. \A x \in 1..(k + 1) : \E i \in T : i.id = x
      <3> SUFFICES ASSUME NEW x \in 1..(k + 1) PROVE \E i \in T : i.id = x
        OBVIOUS
      <3>1. x \in 1..k \/ x = k + 1
        BY <1>1
      <3> QED
        BY <1>1, <1>3, <3>1 DEF Numbered
    <2>3. \A i, j \in T : i.id = j.id => i = j
      BY <1>1, <1>5 DEF Numbered
    <2> QED
      BY <2>1, <2>2, <2>3 DEF Numbered
  <1>7. \A i \in T : PartFine(i, taken)
    BY <1>4 DEF PartsFine
  <1>8. \A i, j \in T : i.adhoc /\ j.adhoc /\ i.order = j.order /\ i.manifest = j.manifest => i = j
    BY <1>3, <1>4 DEF PartsFine
  <1>9. k + 1 \in Nat
    BY <1>1
  <1> HIDE DEF T
  <1>10. PartsFine(T, taken)
    BY <1>6, <1>7, <1>8, <1>9 DEF PartsFine
  <1> QED
    BY <1>10 DEF n, T, Restated

\* What a served tap makes of the rows.
LEMMA CollectFine ==
  ASSUME ReturnInv, NEW o \in Orders, NEW m \in Manifests \cup {Cores!NoManifest},
         m # Cores!NoManifest => taken[<<o, m>>] >= 1
  PROVE  Restated(items, Cores!collect_return(o, m))
  <1> DEFINE expected == Cores!_expected_returns_for_stop(o)
  <1>0. PartsFine(items, taken)
    BY DEF ReturnInv
  <1>1. expected \subseteq items /\ \A i \in expected : ~i.adhoc
    BY <1>0 DEF Cores!_expected_returns_for_stop, Cores!Of, PartsFine, PartFine
  <1>2. CASE expected # {}
    <2>1. Cores!collect_return(o, m) = Cores!Moved(expected, "collected")
      BY <1>2 DEF Cores!collect_return
    <2> HIDE DEF expected
    <2>2. Restated(items, Cores!Moved(expected, "collected"))
      BY <1>0, <1>1, MovedKeeps
    <2> QED
      BY <2>1, <2>2
  <1>3. CASE expected = {} /\ m # Cores!NoManifest /\ Cores!_adhoc_return_already_recorded(o, m) = {}
    <2> DEFINE n == Cores!Row(o, Shop[o], m, "collected")
    <2>1. Cores!collect_return(o, m) = items \cup {n}
      BY <1>3 DEF Cores!collect_return
    <2>2. n.status = "collected" /\ n.order = o /\ n.manifest = m
      BY DEF Cores!Row
    <2>3. \A i \in items : i.adhoc => i.order # o \/ i.manifest # m
      BY <1>0, <1>3 DEF PartsFine, PartFine, Cores!_adhoc_return_already_recorded, Cores!Of
    <2>4. PartFine(n, taken)
      BY <1>3, <2>2 DEF PartFine
    <2>5. Restated(items, items \cup {n})
      BY <1>0, <2>3, <2>4, RowAdded
    <2> QED
      BY <2>1, <2>5
  <1>4. CASE expected = {} /\ (m = Cores!NoManifest \/ Cores!_adhoc_return_already_recorded(o, m) # {})
    <2>1. Cores!collect_return(o, m) = items
      BY <1>4 DEF Cores!collect_return
    <2> QED
      BY <1>0, <2>1 DEF Restated
  <1> QED
    BY <1>2, <1>3, <1>4

LEMMA TapServed ==
  ASSUME ReturnInv, NEW x \in Taps, Typed(x, taken)
  PROVE  Restated(items, Cores!Effect(x))
  <1>0. PartsFine(items, taken)
    BY DEF ReturnInv
  <1>1. x.kind \in Kinds /\ x.order \in Orders /\ x.manifest \in Manifests \cup {Cores!NoManifest}
    BY DEF Taps
  <1>2. CASE x.kind = "collect-return"
    <2>1. Cores!Effect(x) = Cores!collect_return(x.order, x.manifest)
      BY <1>2 DEF Cores!Effect
    <2> QED
      BY <1>1, <2>1, CollectFine DEF Typed
  <1>3. CASE x.kind = "return-not-ready"
    <2> DEFINE rows == Cores!_expected_returns_for_stop(x.order)
    <2>1. Cores!Effect(x) = Cores!Moved(rows, "not_ready")
      BY <1>3 DEF Cores!Effect, Cores!return_not_ready
    <2>2. rows \subseteq items /\ \A i \in rows : ~i.adhoc
      BY <1>0 DEF Cores!_expected_returns_for_stop, Cores!Of, PartsFine, PartFine
    <2> HIDE DEF rows
    <2> QED
      BY <1>0, <2>1, <2>2, MovedKeeps
  <1>4. CASE x.kind = "return-to-shop"
    <2> DEFINE rows == {i \in items : i.shop = Shop[x.order] /\ i.status = "collected"}
    <2>1. Cores!Effect(x) = Cores!Moved(rows, "returned_to_shop")
      BY <1>4 DEF Cores!Effect, Cores!return_cores_to_shop
    <2>2. rows \subseteq items
      OBVIOUS
    <2> HIDE DEF rows
    <2> QED
      BY <1>0, <2>1, <2>2, MovedKeeps
  <1> QED
    BY <1>1, <1>2, <1>3, <1>4 DEF Kinds

LEMMA ReturnStep ==
  ASSUME ReturnNumbers, ReturnInv, [Cores!Next]_Cores!vars
  PROVE  ReturnInv'
  <1>0. /\ taken \in [Orders \X Manifests -> Nat] /\ PartsFine(items, taken) /\ ServedFine(serving, items)
        /\ taps \in Seq(Taps) /\ \A n \in DOMAIN taps : Typed(taps[n], taken)
    BY DEF ReturnInv
  <1>1. ASSUME NEW kind \in Kinds, NEW o \in Orders, NEW m \in Manifests \cup {Cores!NoManifest},
               Cores!Enqueue(kind, o, m), taken' \in [Orders \X Manifests -> Nat],
               \A k \in Orders \X Manifests : taken'[k] >= taken[k],
               m # Cores!NoManifest => taken'[<<o, m>>] >= 1
        PROVE  ReturnInv'
    <2> DEFINE x == [kind |-> kind, order |-> o, manifest |-> m]
    <2>1. taps' = Append(taps, x) /\ UNCHANGED <<items, serving>>
      BY <1>1 DEF Cores!Enqueue
    <2>2. x \in Taps /\ x.manifest = m /\ x.order = o
      BY <1>1 DEF Taps
    <2> HIDE DEF x
    <2>3. taps' \in Seq(Taps) /\ \A n \in DOMAIN taps' : taps'[n] = x \/ (n \in DOMAIN taps /\ taps'[n] = taps[n])
      BY <1>0, <2>1, <2>2
    <2>4. ASSUME NEW y \in Taps, Typed(y, taken) PROVE Typed(y, taken')
      <3>1. y.manifest # Cores!NoManifest => <<y.order, y.manifest>> \in Orders \X Manifests
        BY DEF Taps
      <3>2. y.manifest # Cores!NoManifest => /\ taken[<<y.order, y.manifest>>] \in Nat
                                             /\ taken'[<<y.order, y.manifest>>] \in Nat
        BY <1>0, <1>1, <3>1
      <3> QED
        BY <1>1, <2>4, <3>1, <3>2 DEF Typed
    <2>5. \A n \in DOMAIN taps : taps[n] \in Taps
      BY <1>0
    <2>6. \A n \in DOMAIN taps' : Typed(taps'[n], taken')
      <3>1. Typed(x, taken')
        BY <1>1, <2>2 DEF Typed
      <3> QED
        BY <1>0, <2>3, <2>4, <2>5, <3>1
    <2>7. \A i \in items : PartFine(i, taken) => PartFine(i, taken')
      <3> SUFFICES ASSUME NEW i \in items, PartFine(i, taken), i.adhoc, <<i.order, i.manifest>> \in Orders \X Manifests
                   PROVE  taken'[<<i.order, i.manifest>>] >= 1
        BY DEF PartFine
      <3>1. taken[<<i.order, i.manifest>>] >= 1 /\ taken[<<i.order, i.manifest>>] \in Nat
            /\ taken'[<<i.order, i.manifest>>] \in Nat
        BY <1>0, <1>1 DEF PartFine
      <3> QED
        BY <1>1, <3>1
    <2> QED
      BY <1>0, <1>1, <2>1, <2>3, <2>6, <2>7 DEF ReturnInv, PartsFine
  <1>2. ASSUME NEW o \in Orders, NEW kind \in Kinds, Cores!Tap(kind, o) PROVE ReturnInv'
    <2>1. Cores!Enqueue(kind, o, Cores!NoManifest) /\ taken' = taken
      BY <1>2 DEF Cores!Tap
    <2>2. \A k \in Orders \X Manifests : taken'[k] >= taken[k]
      BY <1>0, <2>1
    <2> QED
      BY <1>0, <1>1, <2>1, <2>2
  <1>3. ASSUME NEW o \in Orders, NEW m \in Manifests, Cores!TakeAdhoc(o, m) PROVE ReturnInv'
    <2> DEFINE k0 == <<o, m>>
    <2>1. Cores!Enqueue("collect-return", o, m) /\ taken' = [taken EXCEPT ![k0] = @ + 1]
      BY <1>3 DEF Cores!TakeAdhoc
    <2>2. k0 \in Orders \X Manifests
      OBVIOUS
    <2> HIDE DEF k0
    <2>3. /\ taken' \in [Orders \X Manifests -> Nat] /\ taken'[k0] >= 1
          /\ \A k \in Orders \X Manifests : taken'[k] >= taken[k]
      BY <1>0, <2>1, <2>2
    <2>4. "collect-return" \in Kinds
      BY DEF Kinds
    <2> QED
      BY <1>1, <2>1, <2>3, <2>4 DEF k0
  <1>4. ASSUME NEW gone \in BOOLEAN, Cores!Send(gone) PROVE ReturnInv'
    <2>1. /\ taps # <<>> /\ items' = Cores!Effect(Head(taps)) /\ UNCHANGED <<taken, serving>>
          /\ taps' = taps \/ taps' = Tail(taps)
      BY <1>4 DEF Cores!Send
    <2>2. Head(taps) \in Taps /\ Typed(Head(taps), taken)
      BY <1>0, <2>1
    <2>3. Restated(items, items')
      BY <2>1, <2>2, TapServed
    <2>4. ServedFine(serving, items')
      BY <1>0, <2>3 DEF ServedFine, Restated
    <2>5. taps' \in Seq(Taps) /\ \A n \in DOMAIN taps' : \E j \in DOMAIN taps : taps'[n] = taps[j]
      <3>1. CASE taps' = taps
        BY <1>0, <3>1
      <3>2. CASE taps' = Tail(taps)
        <4>1. taps' \in Seq(Taps) /\ \A n \in DOMAIN taps' : n + 1 \in DOMAIN taps /\ taps'[n] = taps[n + 1]
          BY <1>0, <2>1, <3>2
        <4> QED
          BY <4>1
      <3> QED
        BY <2>1, <3>1, <3>2
    <2> QED
      BY <1>0, <2>1, <2>3, <2>4, <2>5 DEF ReturnInv, Restated
  <1>5. ASSUME NEW o \in Orders, Cores!FlagReady(Shop[o]) PROVE ReturnInv'
    <2> DEFINE n == Cores!Row(0, Shop[o], Cores!Core, "ready_for_pickup")
    <2>1. items' = items \cup {n} /\ UNCHANGED <<taken, taps, serving>>
      BY <1>5 DEF Cores!FlagReady
    <2>2. ~n.adhoc
      BY DEF Cores!Row
    <2>3. Restated(items, items')
      BY <1>0, <2>1, <2>2, RowAdded DEF PartFine
    <2>4. ServedFine(serving, items')
      BY <1>0, <2>3 DEF ServedFine, Restated
    <2> QED
      BY <1>0, <2>1, <2>3, <2>4 DEF ReturnInv, Restated
  <1>6. ASSUME NEW i \in items, NEW act \in {"mark", "reschedule"}, Cores!Reads(i, act) PROVE ReturnInv'
    <2>1. serving' = [id |-> i.id, act |-> act] /\ Cores!May(i, act) /\ UNCHANGED <<items, taken, taps>>
      BY <1>6 DEF Cores!Reads
    <2>2. act = "mark" \/ ~i.adhoc
      BY <1>0, <1>6, <2>1 DEF Cores!May, PartsFine, PartFine
    <2>3. ServedFine(serving', items)
      BY <2>1, <2>2 DEF ServedFine
    <2> QED
      BY <1>0, <2>1, <2>3 DEF ReturnInv
  <1>7. CASE Cores!Writes
    <2> DEFINE rows == {i \in items : i.id = serving.id}
               st == IF serving.act = "mark" THEN "returned_to_shop" ELSE "ready_for_pickup"
    <2>1. serving.id # 0 /\ serving' = Cores!Nothing /\ items' = Cores!Moved(rows, st) /\ UNCHANGED <<taken, taps>>
      BY <1>7 DEF Cores!Writes
    <2>2. \A i \in rows : i.adhoc => st \in {"collected", "returned_to_shop"}
      BY <1>0, <2>1 DEF ServedFine, PartsFine, Numbered
    <2>3. rows \in SUBSET items
      OBVIOUS
    <2> HIDE DEF rows, st
    <2>4. Restated(items, items')
      BY <1>0, <2>1, <2>2, <2>3, MovedKeeps
    <2>5. ServedFine(serving', items')
      BY <2>1 DEF ServedFine, Cores!Nothing
    <2> QED
      BY <1>0, <2>1, <2>4, <2>5 DEF ReturnInv, Restated
  <1>8. CASE UNCHANGED Cores!vars
    BY <1>8 DEF Cores!vars, ReturnInv
  <1> QED
    BY <1>2, <1>3, <1>4, <1>5, <1>6, <1>7, <1>8 DEF Cores!Next, Kinds

\* No retry invents a part (collect_return): for any orders and manifests, what
\* is on record as handed over unannounced at a door never outnumbers what the
\* driver was handed there, however often a tap is sent again and whatever the
\* office and the shop did to the row in between.
THEOREM NoReturnIsInvented ==
  ASSUME ReturnNumbers
  PROVE  Cores!Spec => []Cores!NoPartIsInvented
  <1>1. Cores!Init => ReturnInv
    <2> SUFFICES ASSUME Cores!Init PROVE ReturnInv
      OBVIOUS
    <2> DEFINE at(o) == [id |-> o, order |-> o, shop |-> Shop[o], manifest |-> Cores!Core, status |-> "expected",
                         collected |-> FALSE, adhoc |-> FALSE]
    <2>1. PICK k \in Nat : Expects = 1..k
      BY DEF ReturnNumbers
    <2>2. items = {at(o) : o \in 1..k}
      BY <2>1 DEF Cores!Init
    <2>3. \A o : at(o).id = o /\ ~at(o).adhoc /\ DOMAIN at(o) = PartFields
      BY DEF PartFields
    <2> HIDE DEF at
    <2>4. Numbered(items, k)
      BY <2>2, <2>3 DEF Numbered
    <2>5. PartsFine(items, taken)
      BY <2>1, <2>2, <2>3, <2>4 DEF PartsFine, PartFine
    <2>6. taken \in [Orders \X Manifests -> Nat] /\ taps = <<>> /\ ServedFine(serving, items)
      BY DEF Cores!Init, Cores!Nothing, ServedFine
    <2> QED
      BY <2>5, <2>6 DEF ReturnInv
  <1>2. ReturnInv /\ [Cores!Next]_Cores!vars => ReturnInv'
    BY ReturnStep
  <1>3. ReturnInv => Cores!NoPartIsInvented
    <2> SUFFICES ASSUME ReturnInv, NEW o \in Orders, NEW m \in Manifests
                 PROVE  Cores!Cardinality({i \in items : i.adhoc /\ i.order = o /\ i.manifest = m}) <= taken[<<o, m>>]
      BY DEF Cores!NoPartIsInvented
    <2> DEFINE S == {i \in items : i.adhoc /\ i.order = o /\ i.manifest = m}
    <2>1. Cores!Cardinality(S) = Cardinality(S)
      BY DEF Cores!Cardinality, Cardinality
    <2>2. taken[<<o, m>>] \in Nat
      BY DEF ReturnInv
    <2>3. CASE S = {}
      <3>1. Cardinality(S) = 0
        BY <2>3, FS_EmptySet
      <3> QED
        BY <2>1, <2>2, <3>1
    <2>4. CASE S # {}
      <3>1. PICK x : x \in S
        BY <2>4
      <3>2. S = {x}
        BY <3>1 DEF ReturnInv, PartsFine
      <3>3. Cardinality(S) = 1
        BY <3>2, FS_Singleton
      <3>4. taken[<<o, m>>] >= 1
        BY <3>1 DEF ReturnInv, PartsFine, PartFine
      <3> QED
        BY <2>1, <2>2, <3>3, <3>4
    <2> QED
      BY <2>3, <2>4
  <1> QED
    BY <1>1, <1>2, <1>3, PTL DEF Cores!Spec

-----------------------------------------------------------------------------
(* Questions about work that could have gone together.                     *)

Asking == INSTANCE Measures WITH now <- clock

\* A flag's fingerprint is that of its subjects.
NewFlag(kind, subjects) == [kind |-> kind, fingerprint |-> subjects, subjects |-> subjects, resolved |-> FALSE]
FlagFine(f) == DOMAIN f = {"kind", "fingerprint", "subjects", "resolved"} /\ f.fingerprint = f.subjects
Once(S) == \A f, g \in S : f.kind = g.kind /\ f.subjects = g.subjects => f = g
FlagsFine(S) == (\A f \in S : FlagFine(f)) /\ Once(S)

\* Nothing has happened later than now, and an end follows its beginning.
Since(t) == {Asking!Never} \cup 0..t
VisitsFine(vs, t) ==
  /\ DOMAIN vs = DOMAIN Shop
  /\ \A o \in DOMAIN Shop :
       DOMAIN vs[o] = {"at", "delivered"} /\ vs[o].at \in Since(t) /\ vs[o].delivered \in Since(t)
RetsFine(rs, t) ==
  /\ DOMAIN rs = Returns
  /\ \A r \in Returns : DOMAIN rs[r] = {"at", "collected"} /\ rs[r].at \in Since(t) /\ rs[r].collected \in Since(t)

\* A delivery passed a waiting part over night n.
Passed(v, w, n) ==
  /\ v.at # Asking!Never /\ v.at < n /\ (v.delivered = Asking!Never \/ v.delivered > n)
  /\ w.at # Asking!Never /\ w.at < n /\ (w.collected = Asking!Never \/ w.collected > n)
  /\ n - w.at <= STALE
Question(o, r) == {<<"order", o>>, <<"return", r>>}
IsAsked(S, o, r) == \E f \in S : f.kind = "open_return" /\ f.subjects = Question(o, r)
AllAsked(vs, rs, ns, S) ==
  \A o \in DOMAIN Shop, r \in Returns, n \in ns :
    Passed(vs[o], rs[r], n) /\ ReturnShop[r] = Shop[o] => IsAsked(S, o, r)

AskInv ==
  /\ clock \in Nat /\ nights \subseteq 0..clock
  /\ VisitsFine(visit, clock) /\ RetsFine(ret, clock)
  /\ FlagsFine(flags) /\ AllAsked(visit, ret, nights, flags)

LEMMA AskedMeans == AskInv => Asking!QuestionsAskedOnce
  BY DEF AskInv, FlagsFine, Once, AllAsked, Passed, IsAsked, Question, Asking!QuestionsAskedOnce

\* What the detectors raise is new, and answers every question put to them.
LEMMA RaisedOnce ==
  ASSUME FlagsFine(flags), NEW Q
  PROVE  LET S == flags \cup Asking!Raised(Q) IN
         FlagsFine(S) /\ \A q \in Q : \E f \in S : f.kind = q.kind /\ f.subjects = {q.parts[i] : i \in DOMAIN q.parts}
  <1> DEFINE parts(q) == {q.parts[i] : i \in DOMAIN q.parts}
             S == flags \cup Asking!Raised(Q)
  <1>1. \A q : Asking!_raise_flag(q) = NewFlag(q.kind, parts(q))
    BY DEF Asking!_raise_flag, Asking!_fingerprint, NewFlag
  <1>2. \A kind, subjects : LET f == NewFlag(kind, subjects) IN
          f.kind = kind /\ f.subjects = subjects /\ FlagFine(f)
    BY DEF NewFlag, FlagFine
  <1>3. Asking!Raised(Q) = {f \in {Asking!_raise_flag(q) : q \in Q} :
                             \A g \in flags : g.kind # f.kind \/ g.fingerprint # f.fingerprint}
    BY DEF Asking!Raised
  <1> HIDE DEF parts
  <1>4. ASSUME NEW f \in Asking!Raised(Q)
        PROVE  \E q \in Q : f = NewFlag(q.kind, parts(q))
    BY <1>1, <1>3
  <1>5. \A f \in flags : FlagFine(f) /\ f.fingerprint = f.subjects
    BY DEF FlagsFine, FlagFine
  <1>6. \A f \in S : FlagFine(f)
    BY <1>2, <1>4, <1>5
  <1>7. \A f \in Asking!Raised(Q), g \in flags : ~(f.kind = g.kind /\ f.subjects = g.subjects)
    <2> SUFFICES ASSUME NEW f \in Asking!Raised(Q), NEW g \in flags, f.kind = g.kind, f.subjects = g.subjects
                 PROVE  FALSE
      OBVIOUS
    <2>1. f.fingerprint = f.subjects
      BY <1>2, <1>4 DEF FlagFine
    <2> QED
      BY <1>3, <1>5, <2>1
  <1>8. \A f, g \in Asking!Raised(Q) : f.kind = g.kind /\ f.subjects = g.subjects => f = g
    BY <1>2, <1>4
  <1>9. Once(S)
    BY <1>7, <1>8 DEF Once, FlagsFine
  <1>10. ASSUME NEW q \in Q PROVE \E f \in S : f.kind = q.kind /\ f.subjects = parts(q)
    <2> DEFINE n == NewFlag(q.kind, parts(q))
    <2>1. n.kind = q.kind /\ n.subjects = parts(q) /\ n.fingerprint = parts(q) /\ n = Asking!_raise_flag(q)
      BY <1>1, <1>2 DEF FlagFine
    <2> HIDE DEF n
    <2>2. CASE \A g \in flags : g.kind # n.kind \/ g.fingerprint # n.fingerprint
      <3>1. n \in Asking!Raised(Q)
        BY <1>3, <2>1, <2>2
      <3> QED
        BY <2>1, <3>1
    <2>3. CASE ~(\A g \in flags : g.kind # n.kind \/ g.fingerprint # n.fingerprint)
      <3>1. PICK g \in flags : g.kind = n.kind /\ g.fingerprint = n.fingerprint
        BY <2>3
      <3> QED
        BY <1>5, <2>1, <3>1
    <2> QED
      BY <2>2, <2>3
  <1> QED
    BY <1>6, <1>9, <1>10 DEF FlagsFine, parts

\* A night asks about every part that waits where an open delivery goes.
LEMMA NightAsks ==
  ASSUME AskInv, Asking!run_linkage_detectors
  PROVE  AskInv'
  <1>1. PICK rows : flags' = flags \cup Asking!Raised(Asking!flag_open_returns_on_visits
                              \cup Asking!flag_duplicates_across_branches(rows) \cup Asking!flag_repeat_visits(rows))
    BY DEF Asking!run_linkage_detectors
  <1>2. nights' = nights \cup {clock} /\ UNCHANGED <<clock, visit, ret>>
    BY DEF Asking!run_linkage_detectors
  <1> DEFINE Q == Asking!flag_open_returns_on_visits
                  \cup Asking!flag_duplicates_across_branches(rows) \cup Asking!flag_repeat_visits(rows)
  <1>3. flags' = flags \cup Asking!Raised(Q) /\ Asking!flag_open_returns_on_visits \subseteq Q
    BY <1>1
  <1> HIDE DEF Q
  <1>4. FlagsFine(flags)
    BY DEF AskInv
  <1>5. /\ FlagsFine(flags')
        /\ \A q \in Q : \E f \in flags' : f.kind = q.kind /\ f.subjects = {q.parts[i] : i \in DOMAIN q.parts}
    BY <1>3, <1>4, RaisedOnce
  <1>6. ASSUME NEW o \in DOMAIN Shop, NEW r \in Returns, NEW n \in nights',
               Passed(visit[o], ret[r], n), ReturnShop[r] = Shop[o]
        PROVE  IsAsked(flags', o, r)
    <2>1. CASE n \in nights
      <3>1. IsAsked(flags, o, r)
        BY <1>6, <2>1 DEF AskInv, AllAsked
      <3> QED
        BY <1>3, <3>1 DEF IsAsked
    <2>2. CASE n = clock
      <3>1. visit[o].delivered = Asking!Never /\ ret[r].collected = Asking!Never
        BY <1>6, <2>2 DEF AskInv, VisitsFine, RetsFine, Since, Passed, Asking!Never
      <3> DEFINE q == [kind |-> "open_return", parts |-> <<<<"order", o>>, <<"return", r>>>>]
      <3>2. /\ visit[o].at # Asking!Never /\ visit[o].delivered = Asking!Never /\ Asking!Waiting(r)
            /\ ReturnShop[r] = Shop[o]
        BY <1>6, <2>2, <3>1 DEF Passed, Asking!Waiting
      <3>3. q \in Asking!flag_open_returns_on_visits
        <4> DEFINE W == {w \in (DOMAIN Shop) \X Returns :
                           /\ visit[w[1]].at # Asking!Never /\ visit[w[1]].delivered = Asking!Never
                           /\ Asking!Waiting(w[2]) /\ ReturnShop[w[2]] = Shop[w[1]]}
                   ask(p) == [kind |-> "open_return", parts |-> <<<<"order", p[1]>>, <<"return", p[2]>>>>]
        <4>1. Asking!flag_open_returns_on_visits = {ask(p) : p \in W}
          BY DEF Asking!flag_open_returns_on_visits
        <4>2. <<o, r>> \in W
          BY <3>2
        <4>3. q = ask(<<o, r>>)
          OBVIOUS
        <4> HIDE DEF W, ask, q
        <4> QED
          BY <4>1, <4>2, <4>3
      <3>4. q.kind = "open_return" /\ {q.parts[i] : i \in DOMAIN q.parts} = Question(o, r)
        BY DEF Question
      <3> HIDE DEF q
      <3>5. PICK f \in flags' : f.kind = q.kind /\ f.subjects = {q.parts[i] : i \in DOMAIN q.parts}
        BY <1>3, <1>5, <3>3
      <3> QED
        BY <3>4, <3>5 DEF IsAsked
    <2> QED
      BY <1>2, <2>1, <2>2
  <1>7. AllAsked(visit', ret', nights', flags')
    BY <1>2, <1>6 DEF AllAsked
  <1>8. clock \in Nat /\ nights' \subseteq 0..clock
    BY <1>2 DEF AskInv
  <1> QED
    BY <1>2, <1>5, <1>7, <1>8 DEF AskInv

\* An order placed or handed over now, or a part expected or collected now,
\* passed no night that was not asked about already.
LEMMA VisitMoves ==
  ASSUME AskInv,
         (\E o \in DOMAIN Shop : Asking!Place(o) \/ Asking!HandOver(o))
         \/ (\E r \in Returns : Asking!Expect(r) \/ Asking!Collect(r))
  PROVE  AskInv'
  <1>0. UNCHANGED <<clock, flags, nights>>
    BY DEF Asking!Place, Asking!HandOver, Asking!Expect, Asking!Collect
  <1>1. clock \in Nat /\ nights \subseteq 0..clock /\ clock \in Since(clock)
    BY DEF AskInv, Since
  <1>2. ASSUME NEW o \in DOMAIN Shop, Asking!Place(o) \/ Asking!HandOver(o) PROVE AskInv'
    <2>1. UNCHANGED ret
      BY <1>2 DEF Asking!Place, Asking!HandOver
    <2>2. DOMAIN visit = DOMAIN Shop /\ DOMAIN visit[o] = {"at", "delivered"}
      BY DEF AskInv, VisitsFine
    <2>3. /\ DOMAIN visit' = DOMAIN Shop /\ \A p \in DOMAIN Shop : p # o => visit'[p] = visit[p]
          /\ DOMAIN visit'[o] = {"at", "delivered"}
          /\ \/ visit'[o].at = clock /\ visit'[o].delivered = visit[o].delivered
             \/ visit[o].delivered = Asking!Never /\ visit'[o].delivered = clock /\ visit'[o].at = visit[o].at
      BY <1>2, <2>2 DEF Asking!Place, Asking!HandOver
    <2>4. VisitsFine(visit', clock)
      BY <1>1, <2>3 DEF VisitsFine, AskInv
    <2>5. ASSUME NEW p \in DOMAIN Shop, NEW r \in Returns, NEW n \in nights, Passed(visit'[p], ret[r], n)
          PROVE  Passed(visit[p], ret[r], n)
      BY <1>1, <2>3, <2>5 DEF Passed
    <2>6. AllAsked(visit', ret, nights, flags)
      BY <2>5 DEF AllAsked, AskInv
    <2> QED
      BY <1>0, <2>1, <2>4, <2>6 DEF AskInv
  <1>3. ASSUME NEW r \in Returns, Asking!Expect(r) \/ Asking!Collect(r) PROVE AskInv'
    <2>1. UNCHANGED visit
      BY <1>3 DEF Asking!Expect, Asking!Collect
    <2>2. DOMAIN ret = Returns /\ DOMAIN ret[r] = {"at", "collected"}
      BY DEF AskInv, RetsFine
    <2>3. /\ DOMAIN ret' = Returns /\ \A p \in Returns : p # r => ret'[p] = ret[p]
          /\ DOMAIN ret'[r] = {"at", "collected"}
          /\ \/ ret'[r].at = clock /\ ret'[r].collected = ret[r].collected
             \/ ret[r].collected = Asking!Never /\ ret'[r].collected = clock /\ ret'[r].at = ret[r].at
      BY <1>3, <2>2 DEF Asking!Expect, Asking!Collect
    <2>4. RetsFine(ret', clock)
      BY <1>1, <2>3 DEF RetsFine, AskInv
    <2>5. ASSUME NEW o \in DOMAIN Shop, NEW p \in Returns, NEW n \in nights, Passed(visit[o], ret'[p], n)
          PROVE  Passed(visit[o], ret[p], n)
      BY <1>1, <2>3, <2>5 DEF Passed
    <2>6. AllAsked(visit, ret', nights, flags)
      BY <2>5 DEF AllAsked, AskInv
    <2> QED
      BY <1>0, <2>1, <2>4, <2>6 DEF AskInv
  <1> QED
    BY <1>2, <1>3

\* A flag that is resolved is the same question.
LEMMA ResolvedIsAsked ==
  ASSUME AskInv, NEW f \in flags, Asking!resolve_linkage_flag(f)
  PROVE  AskInv'
  <1> DEFINE n == [f EXCEPT !.resolved = TRUE]
  <1>1. flags' = (flags \ {f}) \cup {n} /\ UNCHANGED <<clock, visit, ret, nights>>
    BY DEF Asking!resolve_linkage_flag
  <1>2. FlagFine(f)
    BY DEF AskInv, FlagsFine
  <1>6. n.kind = f.kind /\ n.subjects = f.subjects /\ FlagFine(n)
    BY <1>2 DEF FlagFine
  <1> HIDE DEF n
  <1>7. FlagsFine(flags')
    BY <1>1, <1>6 DEF FlagsFine, Once, AskInv
  <1>8. AllAsked(visit, ret, nights, flags')
    BY <1>1, <1>6 DEF AllAsked, IsAsked, AskInv
  <1> QED
    BY <1>1, <1>7, <1>8 DEF AskInv

\* The same work is never asked about twice, resolved or not, and a delivery
\* that went past a part waiting over a night was asked about
\* (run_linkage_detectors, _raise_flag), for any orders, shops and parts.
THEOREM EveryQuestionOnce == Asking!Spec => []Asking!QuestionsAskedOnce
  <1>1. Asking!Init => AskInv
    <2> SUFFICES ASSUME Asking!Init PROVE AskInv
      OBVIOUS
    <2>1. clock = 0 /\ nights = {} /\ flags = {}
      BY DEF Asking!Init
    <2>2. VisitsFine(visit, clock)
      BY DEF Asking!Init, VisitsFine, Since
    <2>3. RetsFine(ret, clock)
      BY DEF Asking!Init, RetsFine, Since
    <2> QED
      BY <2>1, <2>2, <2>3 DEF AskInv, FlagsFine, Once, AllAsked
  <1>2. AskInv /\ [Asking!Next]_Asking!vars => AskInv'
    <2> SUFFICES ASSUME AskInv, [Asking!Next]_Asking!vars PROVE AskInv'
      OBVIOUS
    <2>1. CASE Asking!Tick
      <3>1. clock' = clock + 1 /\ UNCHANGED <<visit, ret, flags, nights>>
        BY <2>1 DEF Asking!Tick, Asking!links
      <3>2. clock' \in Nat /\ 0..clock \subseteq 0..clock' /\ Since(clock) \subseteq Since(clock')
        BY <3>1 DEF AskInv, Since
      <3>3. VisitsFine(visit', clock') /\ RetsFine(ret', clock')
        BY <3>1, <3>2 DEF AskInv, VisitsFine, RetsFine
      <3> QED
        BY <3>1, <3>2, <3>3 DEF AskInv
    <2>2. CASE Asking!run_linkage_detectors
      BY <2>2, NightAsks
    <2>3. CASE (\E o \in DOMAIN Shop : Asking!Place(o) \/ Asking!HandOver(o))
               \/ (\E r \in Returns : Asking!Expect(r) \/ Asking!Collect(r))
      BY <2>3, VisitMoves
    <2>4. CASE \E f \in Asking!linkage_flags : Asking!resolve_linkage_flag(f)
      BY <2>4, ResolvedIsAsked DEF Asking!linkage_flags
    <2>5. ASSUME UNCHANGED <<clock, visit, ret, flags, nights>> PROVE AskInv'
      BY <2>5 DEF AskInv
    <2>6. CASE \/ \E o \in Orders, p \in {Asking!Never, clock + 1} : \E c \in Who[o] : Asking!TakeIn(o, c, p)
               \/ \E k \in DOMAIN term, n \in Minutes : Asking!SetTerm(k[1], k[2], n)
               \/ \E o \in Orders : Asking!DropOff(o)
               \/ \E d \in doing : Asking!Commit(d)
      BY <2>5, <2>6, Zenon DEF Asking!TakeIn, Asking!SetTerm, Asking!DropOff, Asking!Commit, Asking!links
    <2>7. CASE \/ \E o \in Offers : \/ Asking!MakeOffer(o)
                                    \/ \E s \in {"accepted", "declined", "expired", "withdrawn"} : Asking!Answer(o, s)
               \/ \E o \in Offers, r \in Reasons : Asking!annotate_decline_reason(o, r)
               \/ Asking!ReadOutcomes \/ Asking!ReadReasons
      BY <2>5, <2>7, Zenon DEF Asking!MakeOffer, Asking!Answer, Asking!annotate_decline_reason, Asking!ReadOutcomes,
         Asking!ReadReasons, Asking!links
    <2>8. CASE \E s \in Stops : \/ Asking!Cross(s) \/ Asking!Arrive(s) \/ Asking!Complete(s)
                                \/ \E t \in stop[s].crossed : Asking!Store(s, t)
      BY <2>5, <2>8, Zenon DEF Asking!Cross, Asking!Arrive, Asking!Complete, Asking!Store, Asking!links
    <2>9. CASE UNCHANGED Asking!vars
      BY <2>5, <2>9 DEF Asking!vars
    <2> QED
      BY <2>1, <2>2, <2>3, <2>4, <2>6, <2>7, <2>8, <2>9, Zenon DEF Asking!Next
  <1> QED
    BY <1>1, <1>2, AskedMeans, PTL DEF Asking!Spec
=============================================================================
