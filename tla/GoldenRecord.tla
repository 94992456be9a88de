---------------------------- MODULE GoldenRecord ----------------------------
(***************************************************************************)
(* The golden record (app/record): the evidence a machine's verdict is       *)
(* trained and judged on.  Ops users score records against versioned machine *)
(* limits, the second scorer blind (labelling.py, machine_limits.py); a view *)
(* grades each record (record_tiers); clerks draw a region's frozen test     *)
(* sites in blocks (site_draws.py); and planners send technicians to visit   *)
(* sites while dispatch offers the same drivers work (visits.py).  Nothing   *)
(* here takes a lock but the visit planner, so each statement of a request   *)
(* is a step of its own.                                                     *)
(***************************************************************************)
EXTENDS Integers, FiniteSets, FiniteSetsExt, Sequences

CONSTANTS
  Records, IsVisit,            \* drop-off and visit stops; which are visits
  Scorers, Machines, Given,    \* what a scorer may say of a machine
  Versions, Clerks,
  Sites, Groups, Sizes, Hash,  \* Hash[salt][group][block]: the digest of a block
  Drivers, Planners,
  MaxOffers

None == "none"
Nobody == 0
SCORERS_PER_RECORD == 2
Idle == [step |-> "idle"]

VARIABLES
  facts,     \* what has been captured about each record
  labels,    \* machine_labels, a row group per scorer and record
  saving,    \* a scorer's verdicts being saved
  limits,    \* machine_limits: the versions recorded
  adding,    \* a version being recorded
  group,     \* each site's kind and setting, once known
  draws,     \* test_site_draws
  drawing,   \* a clerk's draw
  held,      \* who has each driver's row locked
  work,      \* open offers and routes, with the order they were committed in
  pool,      \* each driver's status in dispatch's fleet state
  planning   \* a visit day being planned, or dispatch's cycle

vars == <<facts, labels, saving, limits, adding, group, draws, drawing, held, work, pool, planning>>
labelVars == <<facts, labels, saving, limits, adding>>
drawVars == <<group, draws, drawing>>
visitVars == <<held, work, pool, planning>>

Elements == {"pickup", "door", "place", "access", "item", "profile"}
\* site_fact_sources: the ends some of whose site facts are only the desk's.
Ends == {"pickup", "place"}
Guess(e) == CASE e = "pickup" -> "pickup by the desk" [] e = "place" -> "place by the desk"
MachineLabel == [stop : Records, scorer : Scorers, verdicts : [Machines -> Given], is_blind_second : BOOLEAN, version : Versions]
SiteDraw == [site : Sites, group : Groups, position : Nat, is_test : BOOLEAN, size : Sizes, salt : Clerks]

TypeOK ==
  /\ facts \in [Records -> SUBSET (Elements \cup {Guess(e) : e \in Ends})] /\ labels \subseteq MachineLabel /\ limits \subseteq Versions
  /\ group \in [Sites -> {None} \cup Groups] /\ draws \subseteq SiteDraw
  /\ pool \in [Drivers -> {"available", "offered", "en_route"}]

\* Version 1 is the seed of migration 0073.
Init ==
  /\ facts = [r \in Records |-> {}] /\ labels = {} /\ saving = [s \in Scorers |-> Idle]
  /\ limits = {1}
  /\ adding = [c \in Clerks |-> Nobody]
  /\ group = [s \in Sites |-> None] /\ draws = {} /\ drawing = [c \in Clerks |-> Idle]
  /\ held = [d \in Drivers |-> None] /\ work = {} /\ pool = [d \in Drivers |-> "available"]
  /\ planning = [p \in Planners \cup {"cycle"} |-> Idle]

-----------------------------------------------------------------------------
(* Labels and grades.                                                       *)

\* Surveys, photos and intake fill a record in; nothing is taken out.
\* A visit carries no order, and whoever hands nothing over learns no access.
Capture(r, e) ==
  /\ e \notin facts[r] /\ (r \in IsVisit => e \in {"door", "place"}) /\ facts' = [facts EXCEPT ![r] = @ \cup {e}]
  /\ UNCHANGED <<labels, saving, limits, adding, drawVars, visitVars>>

\* apply_desk_facts: the desk fills in site facts nobody knows, all that an end
\* is missing or only some of it.
DeskFills(r, e) ==
  /\ e \notin facts[r] /\ (r \in IsVisit => e = "place")
  /\ facts' \in {[facts EXCEPT ![r] = @ \cup {Guess(e)}], [facts EXCEPT ![r] = @ \cup {Guess(e), e}]}
  /\ UNCHANGED <<labels, saving, limits, adding, drawVars, visitVars>>

\* record_site_facts: a person's answer stands in place of the desk's.
Confirm(r, e) ==
  /\ Guess(e) \in facts[r] /\ facts' = [facts EXCEPT ![r] = @ \ {Guess(e)}]
  /\ UNCHANGED <<labels, saving, limits, adding, drawVars, visitVars>>

MISSING_DATA == {"missing"}
\* A verdict that is not a yes says why, and a no gives more than a missing fact.
Acceptable(g) ==
  /\ g.verdict \in {"no", "cant_tell"} => g.reasons # {}
  /\ g.verdict = "no" => ~g.reasons \subseteq MISSING_DATA

scorers(r) == {l.scorer : l \in {x \in labels : x.stop = r}}
\* mutant: the scorer's own earlier verdicts are not looked for
Refused_OnlyFull(s, r) == Cardinality(scorers(r)) >= SCORERS_PER_RECORD
Refused(s, r) == s \in scorers(r) \/ Cardinality(scorers(r)) >= SCORERS_PER_RECORD

\* save_verdicts: every machine at once, against a recorded version; whether
\* this is the second scorer is settled by one read, before the insert.
SaveReads(s, r, given, v) ==
  /\ saving[s] = Idle /\ ~Refused(s, r)
  /\ \A m \in Machines : Acceptable(given[m])
  /\ v \in limits
  /\ saving' = [saving EXCEPT ![s] = [step |-> "read", label |->
       [stop |-> r, scorer |-> s, verdicts |-> given, is_blind_second |-> scorers(r) # {}, version |-> v]]]
  /\ UNCHANGED <<facts, labels, limits, adding, drawVars, visitVars>>
SaveWrites(s) ==
  /\ saving[s] # Idle /\ labels' = labels \cup {saving[s].label} /\ saving' = [saving EXCEPT ![s] = Idle]
  /\ UNCHANGED <<facts, limits, adding, drawVars, visitVars>>

\* labelling_queue: what a scorer is shown, never with anybody's verdict.
Queue(s) == {r \in Records : ~Refused(s, r)}

\* A version is every machine's row, keyed by its name: the second of two
\* clerks who both found the name free fails on the key, and changes nothing.
AddReads(c, v) ==
  /\ adding[c] = Nobody /\ v \notin limits /\ adding' = [adding EXCEPT ![c] = v]
  /\ UNCHANGED <<facts, labels, saving, limits, drawVars, visitVars>>
AddWrites(c) ==
  /\ adding[c] # Nobody /\ adding' = [adding EXCEPT ![c] = Nobody]
  /\ limits' = limits \cup {adding[c]}
  /\ UNCHANGED <<facts, labels, saving, drawVars, visitVars>>

\* record_tiers: the end of a record is its door, the place and, for a
\* delivery, access; it is qualified by one first scorer's verdicts.
HasEnd(r) == {"door", "place"} \cup (IF r \in IsVisit THEN {} ELSE {"access"}) \subseteq facts[r]
\* mutant: three rows in all, whoever wrote them
Qualified_OneScorer(r) == Cardinality({l \in labels : l.stop = r}) = 1
Qualified(r) == \E l \in labels : l.stop = r /\ ~l.is_blind_second
Missing(r) ==
  Cardinality({e \in {"pickup", "item", "profile"} : r \notin IsVisit /\ e \notin facts[r]})
  + (IF HasEnd(r) THEN 0 ELSE 1) + (IF Qualified(r) THEN 0 ELSE 1)
\* An end that counts, and counts on a fact of the desk's.
desk_site(r) ==
  \/ {"pickup", Guess("pickup")} \subseteq facts[r]
  \/ HasEnd(r) /\ Guess("place") \in facts[r]
\* mutant: a guess caps no record, as before migration 0080
Capped_Never(r) == FALSE
\* Known only from the desk, a record is bronze at best.
Capped(r) == desk_site(r) /\ IF r \in IsVisit THEN HasEnd(r) ELSE Missing(r) <= 1
Tier(r) ==
  CASE Capped(r) -> "bronze"
    [] ~Capped(r) /\ r \in IsVisit /\ ~HasEnd(r) -> "reference"
    [] ~Capped(r) /\ r \in IsVisit /\ HasEnd(r) -> IF Qualified(r) THEN "gold" ELSE "silver"
    [] ~Capped(r) /\ r \notin IsVisit -> (<<"gold", "silver", "bronze">> \o [i \in 1..3 |-> "reference"])[Missing(r) + 1]

\* scorer_agreement: a first verdict against a blind second, as the rows come.
Compared == {<<a, b>> \in labels \X labels : a.stop = b.stop /\ ~a.is_blind_second /\ b.is_blind_second}

-----------------------------------------------------------------------------
(* Frozen test sites.                                                       *)

\* A site's kind and setting come from the desk, and may be corrected.
Learn(s, g) ==
  /\ group[s] # g /\ group' = [group EXCEPT ![s] = g]
  /\ UNCHANGED <<labelVars, draws, drawing, visitVars>>

_test_position(salt, g, block, size) == Hash[salt][g][block + 1] % size

\* draw_test_sites, one statement a step: an earlier row of the region ...
DrawEarlier(c, size) ==
  /\ drawing[c] = Idle
  /\ \E salt \in IF draws = {} THEN {c} ELSE {x.salt : x \in {y \in draws : y.size = size}} :
       drawing' = [drawing EXCEPT ![c] = [step |-> "earlier", size |-> size, salt |-> salt]]
  /\ UNCHANGED <<labelVars, group, draws, visitVars>>
\* ... the sites already drawn ...
DrawDrawn(c) ==
  /\ drawing[c].step = "earlier"
  /\ drawing' = [drawing EXCEPT ![c] = [step |-> "drawn", size |-> @.size, salt |-> @.salt, drawn |-> {x.site : x \in draws}]]
  /\ UNCHANGED <<labelVars, group, draws, visitVars>>
\* ... the region's sites, oldest first; one with no group waits ...
DrawSites(c) ==
  /\ drawing[c].step = "drawn"
  /\ drawing' = [drawing EXCEPT ![c] = [step |-> "sites", size |-> @.size, salt |-> @.salt,
       todo |-> {<<s, group[s]>> : s \in {x \in Sites \ drawing[c].drawn : group[x] # None}}]]
  /\ UNCHANGED <<labelVars, group, draws, visitVars>>
\* ... and how far each group's sequence of blocks has come.
Count(g) == Cardinality({x \in draws : x.group = g})
DrawCounts(c) ==
  /\ drawing[c].step = "sites"
  /\ drawing' = [drawing EXCEPT ![c] = [step |-> "counted", size |-> @.size, salt |-> @.salt, todo |-> @.todo,
       positions |-> [g \in Groups |-> Count(g)]]]
  /\ UNCHANGED <<labelVars, group, draws, visitVars>>
\* A site's place in its group: after the ones drawn before, then in order.
\* mutant: the position does not move on within a run
Place_Stands(d, t) == d.positions[t[2]]
Place(d, t) == d.positions[t[2]] + Cardinality({u \in d.todo : u[2] = t[2] /\ u[1] < t[1]})
\* The rows are keyed by site: a draw that meets another's row fails whole.
Rows(c) ==
  LET d == drawing[c] IN
  {[site |-> t[1], group |-> t[2], position |-> Place(d, t), size |-> d.size, salt |-> d.salt,
    is_test |-> Place(d, t) % d.size = _test_position(d.salt, t[2], Place(d, t) \div d.size, d.size)] : t \in d.todo}
DrawWrites(c) ==
  /\ drawing[c].step = "counted" /\ drawing' = [drawing EXCEPT ![c] = Idle]
  /\ draws' = IF {t[1] : t \in drawing[c].todo} \cap {x.site : x \in draws} = {} THEN draws \cup Rows(c) ELSE draws
  /\ UNCHANGED <<labelVars, group, visitVars>>

-----------------------------------------------------------------------------
(* Visit days.                                                              *)

Made == Cardinality(work) + 1
Open(d) == {w \in work : w.driver = d /\ w.open}
HandsOn(d, kind) == {w \in Open(d) : w.kind \in kind}

\* mutant: the driver's row is read without a lock
LockFree_Always(d) == TRUE
LockFree(d) == held[d] = None

\* plan_visit_day takes the driver's row, then reads routes and offers.
PlanLocks(p, d) ==
  /\ planning[p] = Idle /\ LockFree(d) /\ held' = [held EXCEPT ![d] = p]
  /\ HandsOn(d, {"visits", "route"}) = {} /\ HandsOn(d, {"offer"}) = {}
  /\ planning' = [planning EXCEPT ![p] = [step |-> "locked", driver |-> d]]
  /\ UNCHANGED <<labelVars, drawVars, work, pool>>
PlanCommits(p) ==
  LET d == planning[p].driver IN
  /\ planning[p].step = "locked" /\ Cardinality(work) < MaxOffers
  /\ work' = work \cup {[driver |-> d, kind |-> "visits", open |-> TRUE, made |-> Made]}
  /\ held' = [held EXCEPT ![d] = None]
  /\ planning' = [planning EXCEPT ![p].step = "committed"]
  /\ UNCHANGED <<labelVars, drawVars, pool>>
\* _put_on_route, or the script dies first and the rebuild does it later.
PutOnRoute(p) ==
  /\ planning[p].step = "committed" /\ planning' = [planning EXCEPT ![p] = Idle]
  /\ pool' \in {pool, [pool EXCEPT ![planning[p].driver] = "en_route"]}
  /\ UNCHANGED <<labelVars, drawVars, held, work>>
Rebuild(d) ==
  /\ HandsOn(d, {"visits", "route"}) # {} /\ pool' = [pool EXCEPT ![d] = "en_route"]
  /\ UNCHANGED <<labelVars, drawVars, held, work, planning>>

\* The cycle locks the row, claims the driver in Redis and commits an offer.
CycleLocks(d) ==
  /\ planning["cycle"] = Idle /\ LockFree(d) /\ held' = [held EXCEPT ![d] = "cycle"]
  /\ planning' = [planning EXCEPT !["cycle"] = [step |-> "locked", driver |-> d]]
  /\ UNCHANGED <<labelVars, drawVars, work, pool>>
CycleOffers ==
  LET d == planning["cycle"].driver IN
  /\ planning["cycle"].step = "locked" /\ Cardinality(work) < MaxOffers
  /\ IF pool[d] = "available"
     THEN /\ pool' = [pool EXCEPT ![d] = "offered"]
          /\ work' = work \cup {[driver |-> d, kind |-> "offer", open |-> TRUE, made |-> Made]}
     ELSE UNCHANGED <<pool, work>>
  /\ held' = [held EXCEPT ![d] = None] /\ planning' = [planning EXCEPT !["cycle"] = Idle]
  /\ UNCHANGED <<labelVars, drawVars>>
\* An offer becomes a route or lapses; a route ends.
Accept(w) ==
  /\ w \in work /\ w.open /\ w.kind = "offer"
  /\ work' = (work \ {w}) \cup {[w EXCEPT !.kind = "route"]} /\ pool' = [pool EXCEPT ![w.driver] = "en_route"]
  /\ UNCHANGED <<labelVars, drawVars, held, planning>>
Close(w) ==
  /\ w \in work /\ w.open
  /\ work' = (work \ {w}) \cup {[w EXCEPT !.open = FALSE]} /\ pool' = [pool EXCEPT ![w.driver] = "available"]
  /\ UNCHANGED <<labelVars, drawVars, held, planning>>

Next ==
  \/ \E r \in Records, e \in Elements : Capture(r, e)
  \/ \E r \in Records, e \in Ends : DeskFills(r, e) \/ Confirm(r, e)
  \/ \E s \in Scorers, r \in Records, given \in [Machines -> Given], v \in Versions : SaveReads(s, r, given, v)
  \/ \E s \in Scorers : SaveWrites(s)
  \/ \E c \in Clerks, v \in Versions : AddReads(c, v)
  \/ \E c \in Clerks : AddWrites(c) \/ DrawDrawn(c) \/ DrawSites(c) \/ DrawCounts(c) \/ DrawWrites(c)
  \/ \E s \in Sites, g \in Groups : Learn(s, g)
  \/ \E c \in Clerks, size \in Sizes : DrawEarlier(c, size)
  \/ \E p \in Planners, d \in Drivers : PlanLocks(p, d)
  \/ \E p \in Planners : PlanCommits(p) \/ PutOnRoute(p)
  \/ \E d \in Drivers : Rebuild(d) \/ CycleLocks(d)
  \/ CycleOffers
  \/ \E w \in work : Accept(w) \/ Close(w)

Spec == Init /\ [][Next]_vars

-----------------------------------------------------------------------------
\* Agreement is between two people: whoever scores at the same moment, a first
\* verdict is only ever compared with somebody else's, and both were given
\* against limits somebody recorded.  (Two people who score at once may both be
\* the first, and then nothing is compared.)
AgreementIsBetweenTwo ==
  \A pair \in Compared :
    /\ pair[1].scorer # pair[2].scorer
    /\ {pair[1].version, pair[2].version} \subseteq limits

\* More evidence never lowers a record's grade, not a capture and not a second
\* scorer's verdict, but for one case: a silver record whose missing end becomes
\* known from a guess of the desk's is bronze from then on, and a person's answer
\* lifts it again.  No gold record ever falls, and none rests on a guess
\* (record_tiers).
Grade(t) == CHOOSE i \in 1..4 : <<"reference", "bronze", "silver", "gold">>[i] = t
GradesDoNotFall ==
  \A r \in Records :
    /\ \/ Grade(Tier(r)') >= Grade(Tier(r))
       \/ Tier(r) = "silver" /\ Tier(r)' = "bronze" /\ ~desk_site(r) /\ desk_site(r)'
    /\ Grade(Tier(r)') > 2 => ~desk_site(r)'

\* Every full block of a group holds exactly one test site, however many draws
\* its sites came in over and whatever a site's group is corrected to later, as
\* long as the region's first two draws did not overlap and cut its blocks by
\* two salts (draw_test_sites reads the earlier row unlocked).
BlocksHoldOneTestSite ==
  (\A x, y \in draws : x.salt = y.salt /\ x.size = y.size) =>
    \A g \in Groups : LET inGroup == {x \in draws : x.group = g} IN
      /\ {x.position : x \in inGroup} = 0..Cardinality(inGroup) - 1
      /\ \A size \in Sizes, b \in 0..Cardinality(inGroup) :
           LET block == {x \in inGroup : x.size = size /\ x.position \div size = b} IN
           Cardinality(block) = size => Cardinality({x \in block : x.is_test}) = 1

\* A visit day is not planned over work: a technician has one visit day at a
\* time, and any other open work of theirs came after it.  (It can come after,
\* from a cycle between the planner's commit and its write to the fleet state.)
DaysAreNotPlannedOverWork ==
  \A w \in work : w.open /\ w.kind = "visits" =>
    \A o \in Open(w.driver) \ {w} : o.kind # "visits" /\ o.made > w.made
=============================================================================
