---------------------------- MODULE DockProfiles ----------------------------
(***************************************************************************)
(* What is known of a receiving dock (receiver_profiles): how long stops    *)
(* there take, as observed by us, as inherited from a courier's history or  *)
(* as a placeholder, and what kind of place it is.  A nightly job refreshes *)
(* the docks with the oldest figures, up to a limit, and guesses the class  *)
(* of unlabelled ones; people label docks at any time, on rows no lock      *)
(* protects.  Planning takes its service minutes from here.                 *)
(*                                                                         *)
(* Two docks may be found to be one and merged (module SiteIdentity).  The  *)
(* visits here are drop-offs, whose order keeps the door it was taken for,  *)
(* so a merge moves no visit; a merge is not undone here.                   *)
(***************************************************************************)
EXTENDS Integers, FiniteSets, Sequences, SequencesExt

CONSTANTS
  Docks,      \* numbers, in order of creation; each has a shop
  Guess,      \* Guess[d]: what the names of its shops suggest, or NoClass
  Visits,     \* the visits that happen: enter, exit, arrived, completed, status
  Histories,  \* the observations a courier's file may hold for a dock
  Classes, Labellers,
  MIN_OWN_SAMPLES, THIN_SAMPLE_COUNT, FLOOR, PLACEHOLDER,
  REFRESH_LIMIT, CLASSIFY_LIMIT,
  MaxVisits, MaxNights, MaxMerged      \* bounds
NoClass == "none"
Null == -1

VARIABLES
  night,
  visits,     \* visits[d]: the stops made there
  profile,    \* receiver_profiles
  inherited,  \* inherited[d]: the history imported last
  waited,     \* waited[d]: nights since a visit there was last counted
  class,      \* locations.node_class and its source
  canonical,  \* canonical[d]: the dock that d is merged into in the end, or d
  open,       \* each labeller, and the nightly job: what it read
  answers     \* answers[d]: the classes people gave

vars == <<night, visits, profile, inherited, waited, class, canonical, open, answers>>

Job == 0
Idle == [kind |-> "idle"]
ReceiverProfile == [n : Nat, p50 : Int, observed : Nat, inheritedN : Nat, inheritedP50 : Int]

TypeOK ==
  /\ profile \in [Docks -> ReceiverProfile]
  /\ class \in [Docks -> [value : Classes \cup {NoClass}, source : {"none", "inferred", "human"}]]
  /\ night \in 0..MaxNights /\ answers \in [Docks -> SUBSET Classes] /\ canonical \in [Docks -> Docks]

Init ==
  /\ night = 0 /\ visits = [d \in Docks |-> <<>>] /\ inherited = [d \in Docks |-> <<>>]
  /\ profile = [d \in Docks |-> [n |-> 0, p50 |-> Null, observed |-> 0, inheritedN |-> 0, inheritedP50 |-> Null]]
  /\ canonical = [d \in Docks |-> d] /\ waited = [d \in Docks |-> 0] /\ answers = [d \in Docks |-> {}]
  /\ class = [d \in Docks |-> [value |-> NoClass, source |-> "none"]]
  /\ open = [a \in Labellers \cup {Job} |-> Idle]

-----------------------------------------------------------------------------
\* percentile_cont(0.5), as whole seconds; statistics.median in the import.
Kth(s, k) == CHOOSE v \in Range(s) :
  /\ Cardinality({i \in DOMAIN s : s[i] < v}) < k
  /\ Cardinality({i \in DOMAIN s : s[i] <= v}) >= k
Median(s) == IF Len(s) % 2 = 1 THEN Kth(s, Len(s) \div 2 + 1)
             ELSE (Kth(s, Len(s) \div 2) + Kth(s, Len(s) \div 2 + 1)) \div 2

\* completed_dwell_rows: the first crossing of the fence before the tap, at
\* either end; completed stops that do not end before they begin.
Coalesce(a, b) == IF a # Null THEN a ELSE b
Dwell(v) == Coalesce(v.exit, v.completed) - Coalesce(v.enter, v.arrived)
Counts(v) ==
  /\ v.status = "completed" /\ Coalesce(v.enter, v.arrived) # Null /\ Coalesce(v.exit, v.completed) # Null
  /\ Dwell(v) >= 0
Dwells(d) == LET kept == SelectSeq(visits[d], Counts) IN [i \in DOMAIN kept |-> Dwell(kept[i])]

Visit(d, v) ==
  /\ Len(visits[d]) < MaxVisits /\ visits' = [visits EXCEPT ![d] = Append(@, v)]
  /\ UNCHANGED <<night, profile, inherited, waited, class, open, answers, canonical>>

\* merge_locations: the docks known as d are known as c from now on.
Standing == {d \in Docks : canonical[d] = d}
Merge(d, c) ==
  /\ d \in Standing /\ c \in Standing /\ c # d /\ Cardinality(Docks \ Standing) < MaxMerged
  /\ canonical' = [x \in Docks |-> IF canonical[x] = d THEN c ELSE canonical[x]]
  /\ waited' = [waited EXCEPT ![d] = 0]
  /\ UNCHANGED <<night, visits, profile, inherited, class, open, answers>>

\* refresh_hub_dwell_statistics: docks with a completed stop, never observed
\* first, then by the oldest figures, up to the limit; ties fall either way.
\* The order goes by the profile of the dock visited, and the figures are
\* those of the dock it is known as: one that was merged keeps its place.
\* mutant: by the newest figures
Before_Newest(c, d) == profile[c].observed > profile[d].observed
Before(c, d) == profile[c].observed < profile[d].observed
Visited == {d \in Docks : \E i \in DOMAIN visits[d] : visits[d][i].status = "completed"}
Due(turn) ==
  /\ turn \subseteq Visited /\ Cardinality(turn) = Min({REFRESH_LIMIT, Cardinality(Visited)})
  /\ \A d \in turn, c \in Visited \ turn : ~Before(c, d)
refresh_dwell_statistics(d, turn) ==
  LET place(c) == Cardinality({b \in turn : Before(b, c) \/ (~Before(c, b) /\ b <= c)})
      done == {place(c) : c \in {x \in turn : canonical[x] = d}} IN
  [profile[d] EXCEPT !.n = Len(Dwells(d)), !.p50 = IF Dwells(d) = <<>> THEN Null ELSE Median(Dwells(d)),
                     !.observed = night * Cardinality(Docks) + Max(done)]
NightlyRefresh(turn) ==
  LET refreshed == {canonical[d] : d \in turn} IN
  /\ night < MaxNights /\ night' = night + 1 /\ Due(turn)
  /\ profile' = [d \in Docks |-> IF d \in refreshed THEN refresh_dwell_statistics(d, turn) ELSE profile[d]]
  /\ waited' = [d \in Docks |-> IF d \in (Visited \cap Standing) \ refreshed THEN waited[d] + 1 ELSE 0]
  /\ UNCHANGED <<visits, inherited, class, open, answers, canonical>>

\* import_inherited_dwell, keeping positive observations only.
Positive(x) == x > 0
Import(d, history) ==
  LET usable == SelectSeq(history, Positive)
      dock == canonical[d] IN
  /\ usable # <<>> /\ inherited' = [inherited EXCEPT ![dock] = usable]
  /\ profile' = [profile EXCEPT ![dock].inheritedN = Len(usable), ![dock].inheritedP50 = Median(usable)]
  /\ UNCHANGED <<night, visits, waited, class, open, answers, canonical>>

-----------------------------------------------------------------------------
\* dwell_estimate: enough of our own, else inherited, else our own few.
dwell_estimate(p) ==
  IF p.n >= MIN_OWN_SAMPLES /\ p.p50 # Null THEN [p50 |-> p.p50, n |-> p.n, source |-> "observed"]
  ELSE IF p.inheritedP50 # Null THEN [p50 |-> p.inheritedP50, n |-> p.inheritedN, source |-> "inherited"]
  ELSE IF p.n > 0 /\ p.p50 # Null THEN [p50 |-> p.p50, n |-> p.n, source |-> "observed"]
  ELSE [p50 |-> Null, n |-> 0, source |-> "none"]
\* mutant: a thin sample is as good as any
is_thin_Never(e) == FALSE
is_thin(e) == e.p50 # Null /\ e.n > 0 /\ e.n < THIN_SAMPLE_COUNT
Max2(a, b) == IF a >= b THEN a ELSE b
planning_service_minutes(p) ==
  LET e == dwell_estimate(p)
      own == IF p.n >= THIN_SAMPLE_COUNT THEN p.p50 ELSE Null
      seconds == IF ~is_thin(e) /\ e.p50 # Null THEN e.p50 ELSE own
  IN IF seconds = Null THEN PLACEHOLDER ELSE Max2(seconds, FLOOR)

-----------------------------------------------------------------------------
\* classify_unlabelled_locations: the oldest unlabelled docks, up to the
\* limit; what cannot be guessed stays for the next night.
Unlabelled == {d \in Standing : class[d].value = NoClass}
ClassifyReads ==
  /\ open[Job] = Idle /\ Unlabelled # {}
  /\ open' = [open EXCEPT ![Job] = [kind |-> "classify",
       docks |-> {d \in Unlabelled : Cardinality({c \in Unlabelled : c < d}) < CLASSIFY_LIMIT}]]
  /\ UNCHANGED <<night, visits, profile, inherited, waited, class, answers, canonical>>
\* mutant: a guess is signed like an answer
Guessed_Signed(d) == [value |-> Guess[d], source |-> "human"]
Guessed(d) == [value |-> Guess[d], source |-> "inferred"]
ClassifyWrites ==
  /\ open[Job] # Idle /\ open' = [open EXCEPT ![Job] = Idle]
  /\ class' = [d \in Docks |-> IF d \in open[Job].docks /\ Guess[d] # NoClass THEN Guessed(d) ELSE class[d]]
  /\ UNCHANGED <<night, visits, profile, inherited, waited, answers, canonical>>

\* label_dock: a person's answer; only columns that differ from what was read
\* are written.
set_node_class(v) == [value |-> v, source |-> "human"]
LabelReads(a, d, v) ==
  /\ open[a] = Idle /\ open' = [open EXCEPT ![a] = [kind |-> "label", dock |-> d, read |-> class[d], value |-> v]]
  /\ UNCHANGED <<night, visits, profile, inherited, waited, class, answers, canonical>>
LabelWrites(a) ==
  LET o == open[a]
      new == set_node_class(o.value) IN
  /\ o # Idle /\ open' = [open EXCEPT ![a] = Idle]
  /\ class' = [class EXCEPT ![o.dock] = [c \in DOMAIN @ |-> IF new[c] # o.read[c] THEN new[c] ELSE @[c]]]
  /\ answers' = [answers EXCEPT ![o.dock] = @ \cup {o.value}]
  /\ UNCHANGED <<night, visits, profile, inherited, waited, canonical>>

Next ==
  \/ \E turn \in SUBSET Docks : NightlyRefresh(turn)
  \/ \E d, c \in Docks : Merge(d, c)
  \/ ClassifyReads \/ ClassifyWrites
  \/ \E d \in Docks, v \in Visits : Visit(d, v)
  \/ \E d \in Docks, h \in Histories : Import(d, h)
  \/ \E a \in Labellers : LabelWrites(a)
  \/ \E a \in Labellers, d \in Docks, v \in Classes : LabelReads(a, d, v)

Spec == Init /\ [][Next]_vars

-----------------------------------------------------------------------------
\* The nightly refresh gets round: a dock that is visited waits no more nights
\* than it takes to go through all of them, however visits to other docks
\* fall (the limit in refresh_hub_dwell_statistics starves nobody), except
\* that each dock that was merged into another takes one place every night:
\* the order goes by its own figures, which are never written again.
EveryDockGetsItsTurn ==
  LET places == REFRESH_LIMIT - Cardinality(Docks \ Standing) IN
  places > 0 => \A d \in Standing : waited[d] * places < Cardinality(Docks)

\* Service minutes used in a plan are the placeholder, or the median of no
\* fewer observations than THIN_SAMPLE_COUNT, made by us up to the last
\* refresh or by the courier whose history was imported, and never below the
\* floor (planning_service_minutes); a dock that was merged is planned for as
\* the one it is known as (profiles_by_location).
PlansRestOnEnough ==
  \A x \in Docks :
    LET d == canonical[x]
        used == planning_service_minutes(profile[d])
        own == {SubSeq(Dwells(d), 1, k) : k \in THIN_SAMPLE_COUNT..Len(Dwells(d))}
        theirs == IF Len(inherited[d]) >= THIN_SAMPLE_COUNT THEN {inherited[d]} ELSE {}
    IN used = PLACEHOLDER \/ \E s \in own \cup theirs : used = Max2(Median(s), FLOOR)

\* A class marked human is an answer some person gave of that dock, whichever
\* of the job and two people, each writing only the columns that differ from
\* what it had read, wrote last.  (The converse fails: a relabelling that read
\* a person's answer before the job overwrote it leaves the new answer marked
\* inferred.)
LabelsHaveAnAuthor ==
  \A d \in Docks : class[d].source = "human" => class[d].value \in answers[d]
=============================================================================
