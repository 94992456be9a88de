----------------------------- MODULE DockSurvey -----------------------------
(***************************************************************************)
(* What is written down about one dock.  A driver taps answers at the door  *)
(* (record_dock_survey) and photographs the handoff point; a stranger       *)
(* answers the public dock log, which waits for an administrator to match   *)
(* it to a dock (app/identity/dock_log.py); and the desk fills in what      *)
(* public data says of the address (app/record/desk_prefill.py).  Only the  *)
(* desk and the site facts lock the dock; the other handlers write the      *)
(* columns that differ from what they read.                                 *)
(***************************************************************************)
EXTENDS Integers, FiniteSets, Sequences

CONSTANTS
  Fields,     \* answers of the survey; "landing" is among them
  Values,
  Submissions, Admins, Drivers,
  Answers,    \* the forms that are filled in
  Gold,       \* GOLD_FIELDS but the positions and photos
  Spots,      \* positions of a phone, on a line
  Evidence,   \* the places public data may hold for the address
  MAX_SURVEYS, RESURVEY_AFTER, MaxDay     \* bounds and limits
Null == "null"
Nowhere == -1

VARIABLES
  day,
  profile,    \* receiver_profiles: the answers, surveyed_at and by, access_source
  subs,       \* dock_log_submissions
  open,       \* each administrator's import: what it read
  point,      \* handoff_points
  fact,       \* the site's kind: value and source
  asked,      \* the drivers whose screen offers the survey
  said        \* said[f]: <<who, value>> answers ever given of the dock

vars == <<day, profile, subs, open, point, fact, asked, said>>

Idle == [step |-> "idle"]
ReceiverProfile == [answers : [Fields -> Values \cup {Null}], surveyed : 0..MaxDay, by : Drivers \cup {0},
                    source : {"none", "stated"}]
DockLogSubmission == [step : {"unsent", "staged", "rejected", "imported"}, answers : [Fields -> Values \cup {Null}]]
HandoffPoint == [gold : SUBSET Gold, stop : Spots \cup {Nowhere}, door : Spots \cup {Nowhere}, walk : Int, photos : SUBSET {"approach", "path"}]

TypeOK ==
  /\ profile \in ReceiverProfile /\ \A s \in Submissions : subs[s] \in DockLogSubmission
  /\ point \in HandoffPoint /\ day \in 1..MaxDay

Blank == [f \in Fields |-> Null]
Init ==
  /\ day = 1 /\ profile = [answers |-> Blank, surveyed |-> 0, by |-> 0, source |-> "none"]
  /\ subs = [s \in Submissions |-> [step |-> "unsent", answers |-> Blank]]
  /\ open = [a \in Admins |-> Idle] /\ asked = {} /\ said = [f \in Fields |-> {}]
  /\ point = [gold |-> {}, stop |-> Nowhere, door |-> Nowhere, walk |-> Nowhere, photos |-> {}]
  /\ fact = [value |-> Null, source |-> "none"]

Tick == day < MaxDay /\ day' = day + 1 /\ UNCHANGED <<profile, subs, open, point, fact, asked, said>>

-----------------------------------------------------------------------------
\* An answer left out leaves the column as it is.
\* mutant: it empties the column
Answered_Blanks(old, new) == new
Answered(old, new) == [f \in Fields |-> IF new[f] # Null THEN new[f] ELSE old[f]]
Say(who, answers) == [f \in Fields |-> IF answers[f] # Null THEN said[f] \cup {<<who, answers[f]>>} ELSE said[f]]
is_surveyed(p) == p.surveyed # 0 /\ p.answers["landing"] # Null

\* record_dock_survey: set_access and set_autonomy_fit, then capture_handoff.
\* The walk is measured anew whenever both ends are known.
Distance(a, b) == IF a >= b THEN a - b ELSE b - a
\* mutant: measured once
WalkOf_Kept(stop, door, was) == IF was = Nowhere /\ stop # Nowhere /\ door # Nowhere THEN Distance(stop, door) ELSE was
WalkOf(stop, door, was) == IF stop # Nowhere /\ door # Nowhere THEN Distance(stop, door) ELSE was
Coalesce(a, b) == IF a # Nowhere THEN a ELSE b
capture_handoff(gold, stop, door) ==
  LET s == Coalesce(stop, point.stop)
      d == Coalesce(door, point.door)
  IN [point EXCEPT !.gold = @ \cup gold, !.stop = s, !.door = d, !.walk = WalkOf(s, d, @)]
Survey(v, answers, gold, stop, door) ==
  /\ v \in asked /\ profile' = [profile EXCEPT !.answers = Answered(@, answers), !.surveyed = day, !.by = v]
  /\ point' = capture_handoff(gold, stop, door) /\ said' = Say("driver", answers)
  /\ UNCHANGED <<day, subs, open, fact, asked>>
Photo(slot) ==
  /\ point' = [point EXCEPT !.photos = @ \cup {slot}]
  /\ UNCHANGED <<day, profile, subs, open, fact, asked, said>>

\* is_captured, and dock_needs_survey for a drop-off that did not fail.
is_captured(p) == p.gold = Gold /\ p.stop # Nowhere /\ p.door # Nowhere /\ p.walk # Nowhere /\ p.photos = {"approach", "path"}
surveys_recorded_today(v) == IF profile.by = v /\ profile.surveyed = day THEN 1 ELSE 0
dock_needs_survey(v) ==
  \/ ~is_captured(point)
  \/ /\ surveys_recorded_today(v) < MAX_SURVEYS
     /\ ~is_surveyed(profile) \/ profile.surveyed < day - RESURVEY_AFTER
\* _survey_fields: the route's view says whether to ask; the app may act on an
\* old one.
LoadView(v) ==
  /\ asked' = IF dock_needs_survey(v) THEN asked \cup {v} ELSE asked \ {v}
  /\ UNCHANGED <<day, profile, subs, open, point, fact, said>>

-----------------------------------------------------------------------------
\* submit_dock_log and stage_submission: at least one answer, all of them in
\* the vocabulary.
Submit(s, answers) ==
  /\ subs[s].step = "unsent" /\ answers # Blank
  /\ subs' = [subs EXCEPT ![s] = [step |-> "staged", answers |-> answers]]
  /\ UNCHANGED <<day, profile, open, point, fact, asked, said>>
\* import_dock_log_submission: a reviewer names the dock; not twice, and not
\* over a survey of ours.  A rejected submission is not refused.
MayImport(s) == subs[s].step \in {"staged", "rejected"}
ImportReads(a, s) ==
  /\ open[a] = Idle /\ MayImport(s) /\ ~is_surveyed(profile)
  /\ open' = [open EXCEPT ![a] = [step |-> "import", sub |-> s, read |-> profile]]
  /\ UNCHANGED <<day, profile, subs, point, fact, asked, said>>
ImportWrites(a) ==
  LET o == open[a]
      new == Answered(o.read.answers, subs[o.sub].answers) IN
  /\ o # Idle /\ open' = [open EXCEPT ![a] = Idle]
  /\ profile' = [profile EXCEPT !.answers = [f \in Fields |-> IF new[f] # o.read.answers[f] THEN new[f] ELSE @[f]],
                                !.source = "stated"]
  /\ subs' = [subs EXCEPT ![o.sub].step = "imported"] /\ said' = Say("stranger", subs[o.sub].answers)
  /\ UNCHANGED <<day, point, fact, asked>>
Reject(s) ==
  /\ subs[s].step = "staged" /\ subs' = [subs EXCEPT ![s].step = "rejected"]
  /\ UNCHANGED <<day, profile, open, point, fact, asked, said>>

-----------------------------------------------------------------------------
\* evidence_for_site over places [kind, open, at]: those that count, one kind
\* or none, and two tenants that are not one place listed twice.
Counting(places) == {p \in places : p.open}
kind_from_places(places) ==
  LET kinds == {p.kind : p \in Counting(places)} \ {Null}
  IN IF Cardinality(kinds) = 1 THEN CHOOSE k \in kinds : TRUE ELSE Null
shares_address_from_places(places) ==
  \E p, q \in Counting(places) : p # q /\ ~(p.kind = q.kind /\ p.at = q.at)

\* apply_desk_facts: under the dock's lock, and only what nobody knows.
\* mutant: the desk knows better
Unsaid_Always == TRUE
Unsaid == fact.value = Null
DeskFills(places) ==
  /\ Unsaid /\ kind_from_places(places) # Null
  /\ fact' = [value |-> kind_from_places(places), source |-> "desk"]
  /\ UNCHANGED <<day, profile, subs, open, point, asked, said>>
\* record_site_facts (module SiteIdentity): a driver at the door replaces the
\* desk's value.
DriverSays(v) ==
  /\ fact.source # "driver" /\ fact' = [value |-> v, source |-> "driver"]
  /\ UNCHANGED <<day, profile, subs, open, point, asked, said>>

Next ==
  \/ Tick
  \/ \E v \in Drivers, ans \in Answers \cup {Blank}, g \in {{}, Gold}, s, d \in Spots \cup {Nowhere} : Survey(v, ans, g, s, d)
  \/ \E v \in Drivers : LoadView(v)
  \/ \E slot \in {"approach", "path"} : Photo(slot)
  \/ \E s \in Submissions, ans \in Answers : Submit(s, ans)
  \/ \E s \in Submissions : Reject(s)
  \/ \E a \in Admins, s \in Submissions : ImportReads(a, s)
  \/ \E a \in Admins : ImportWrites(a)
  \/ \E places \in Evidence : DeskFills(places)
  \/ \E v \in Values : DriverSays(v)

Spec == Init /\ [][Next]_vars

-----------------------------------------------------------------------------
\* Every answer on a dock's profile was given of that dock by a driver of ours
\* or in a submission an administrator let in, no answer once given is lost to
\* a later form that leaves it out, and a dock counts as surveyed only after a
\* driver stood there, whichever imports and surveys overlap.
AnswersHaveAnAuthor ==
  /\ \A f \in Fields : IF profile.answers[f] = Null THEN said[f] = {}
                       ELSE \E who \in {"driver", "stranger"} : <<who, profile.answers[f]>> \in said[f]
  /\ \A f \in Fields, w \in Values : <<"stranger", w>> \in said[f] =>
       \E s \in Submissions : subs[s].answers[f] = w /\ subs[s].step = "imported"
  /\ is_surveyed(profile) => profile.by # 0

\* The handoff card is coherent: a captured point's walking distance is the
\* distance between the stop and the door it shows, however many surveys, one
\* after another, each moved one of the two.
WalkMatchesTheEnds ==
  point.walk # Nowhere => point.walk = Distance(point.stop, point.door)

\* Public data never overrules a person: apply_desk_facts fills gaps only.
KeepsDriversFact == fact.source = "driver" => fact'.source = "driver"
DriversFactStands == [][KeepsDriversFact]_vars

\* What import_submission's refusal says ("One of our own drivers has surveyed
\* this dock - a public submission does not overwrite it"): an answer of a
\* driver is not replaced by a stranger's.  A survey without the landing
\* surface does not count, so it does not hold (README, known gaps).
StrangersDoNotOverwrite ==
  \A f \in Fields : (\E w \in Values : <<"driver", w>> \in said[f]) => <<"driver", profile.answers[f]>> \in said[f]
=============================================================================
