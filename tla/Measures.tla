------------------------------ MODULE Measures ------------------------------
(***************************************************************************)
(* How the business measures itself (app/reporting, app/record/linkage).    *)
(* On-time rates, computed afresh from orders and contract terms for two    *)
(* screens and once and for all in the ledger of outcomes; what became of   *)
(* offers, read in two queries; the distance between a phone's crossing and *)
(* the driver's tap; and the nightly questions about work that could have   *)
(* gone together.  A query is one step; times are whole numbers.            *)
(***************************************************************************)
EXTENDS Integers, FiniteSets, FiniteSetsExt, Sequences, SequencesExt

CONSTANTS
  Clients, Nobody,             \* clients; Nobody is an order's missing client
  Orders, Who, Tier, Minutes,  \* orders, whose they may be, their service level, delivery targets
  SINCE,                       \* start of the reporting window
  Offers, Reasons, WINDOW,     \* offers, why they are declined, days looked at
  Stops, Requested, RouteAt,   \* drop-offs, when their order came and their route was made
  Planned,                     \* planned_eta, or Never
  Shop, Ref, Root,             \* the shop and reference of an order; the account of a shop
  Returns, ReturnShop, STALE,  \* parts waiting at a shop; STALE_RETURN_AFTER
  DAY, MaxTime, MaxTerms, MaxCrossings, MaxNights

Never == -1

VARIABLES
  now,
  term,       \* client_sla_terms: delivery_target_minutes per client and tier
  order,      \* orders: client, requested_at, promised_at, delivered_at
  doing,      \* a drop-off being completed: its order and the promise read
  ledger,     \* outcome_entries of kind "delivered", in the order recorded
  edits,      \* history: for each change of a term, whose it was and how many
              \* entries had been judged
  offer,      \* route_offers: offered_at, status, decline_reason
  told,       \* the offers part of a scorecard being built
  stop,       \* drop-offs: arrived_at, completed, and the phone's crossings
  stored,     \* stop_geofence_events: <<stop, time>> of every "enter" received
  visit,      \* orders as visits to a shop: created_at, delivered_at
  ret,        \* return_items: created_at, collected_at
  flags,      \* linkage_flags
  nights      \* history: when the detectors ran

promises == <<term, order, doing, ledger, edits>>
offers == <<offer, told>>
fence == <<stop, stored>>
links == <<visit, ret, flags, nights>>
vars == <<now, term, order, doing, ledger, edits, offer, told, stop, stored, visit, ret, flags, nights>>

Order == [client : Clients \cup {Nobody}, requested : {Never} \cup Nat, promised : {Never} \cup Nat,
          delivered : {Never} \cup Nat]
OutcomeEntry == [order : Orders, at : Nat, on_time : {"yes", "no", "none"}]
RouteOffer == [at : {Never} \cup Nat, status : {"none", "offered", "accepted", "declined", "expired", "withdrawn"},
               reason : Reasons \cup {"none"}]
LinkageFlag == [kind : {"open_return", "duplicate_branch", "repeat_visit"}, subjects : SUBSET (STRING \X Nat),
                fingerprint : SUBSET (STRING \X Nat), resolved : BOOLEAN]

TypeOK ==
  /\ now \in 0..MaxTime /\ term \in [Clients \X {Tier[o] : o \in Orders} -> {Never} \cup Minutes]
  /\ order \in [Orders -> Order] /\ \A i \in DOMAIN ledger : ledger[i] \in OutcomeEntry
  /\ offer \in [Offers -> RouteOffer] /\ stored \subseteq Stops \X Nat
  /\ \A f \in flags : f.resolved \in BOOLEAN /\ f.kind \in {"open_return", "duplicate_branch", "repeat_visit"}

Init ==
  /\ now = 0 /\ doing = {} /\ ledger = <<>> /\ edits = {} /\ stored = {} /\ flags = {} /\ nights = {}
  /\ term = [k \in Clients \X {Tier[o] : o \in Orders} |-> Never]
  /\ order = [o \in Orders |-> [client |-> Nobody, requested |-> Never, promised |-> Never, delivered |-> Never]]
  /\ offer = [o \in Offers |-> [at |-> Never, status |-> "none", reason |-> "none"]]
  /\ told = [step |-> "idle", since |-> 0, declined |-> 0, total |-> 0, ended |-> 0, given |-> 0, calm |-> TRUE]
  /\ stop = [s \in Stops |-> [arrived |-> Never, completed |-> FALSE, crossed |-> {}]]
  /\ visit = [o \in DOMAIN Shop |-> [at |-> Never, delivered |-> Never]]
  /\ ret = [r \in Returns |-> [at |-> Never, collected |-> Never]]

Tick == now < MaxTime /\ now' = now + 1 /\ UNCHANGED <<promises, offers, fence, links>>

-----------------------------------------------------------------------------
(* On time, for two screens and for the ledger.                             *)

TakeIn(o, c, promised) ==
  /\ order[o].requested = Never
  /\ order' = [order EXCEPT ![o] = [@ EXCEPT !.client = c, !.requested = now, !.promised = promised]]
  /\ UNCHANGED <<now, term, doing, ledger, edits, offers, fence, links>>

\* upsert_client_sla_term; the terms of a tier are one row of the client's.
SetTerm(c, t, minutes) ==
  /\ Cardinality(edits) < MaxTerms /\ term[c, t] # minutes
  /\ term' = [term EXCEPT ![<<c, t>>] = minutes]
  /\ edits' = edits \cup {[whose |-> <<c, t>>, after |-> Len(ledger), nth |-> Cardinality(edits)]}
  /\ UNCHANGED <<now, order, doing, ledger, offers, fence, links>>

\* The explicit promise, else the client's term counted from receipt.
delivery_commitment(o) ==
  LET t == IF order[o].client = Nobody THEN Never ELSE term[order[o].client, Tier[o]]
  IN CASE order[o].promised # Never -> order[o].promised
       [] t # Never -> order[o].requested + t
       [] OTHER -> Never

\* complete_stop holds its route, so one completion at a time; the terms are
\* read before the commit.
DropOff(o) ==
  /\ doing = {} /\ order[o].requested # Never
  /\ doing' = {[order |-> o, at |-> now, promise |-> delivery_commitment(o)]}
  /\ UNCHANGED <<now, term, order, ledger, edits, offers, fence, links>>

\* advance_orders returns the orders that moved, none when the app sends the
\* same completion again.
\* mutant: every order of the stop
Moved_All(o) == {o}
Moved(o) == {o} \ {p \in Orders : order[p].delivered # Never}

\* No promise is nothing to be late against.
\* mutant: no promise is on time
Judged_Kindly(at, promise) == IF promise = Never \/ at <= promise THEN "yes" ELSE "no"
Judged(at, promise) == IF promise = Never THEN "none" ELSE IF at <= promise THEN "yes" ELSE "no"

record_delivery_outcomes(d) ==
  [i \in 1..Cardinality(Moved(d.order)) |-> [order |-> d.order, at |-> d.at, on_time |-> Judged(d.at, d.promise)]]

Commit(d) ==
  /\ d \in doing /\ doing' = {}
  /\ order' = [order EXCEPT ![d.order].delivered = IF @ = Never THEN d.at ELSE @]
  /\ ledger' = ledger \o record_delivery_outcomes(d)
  /\ UNCHANGED <<now, term, edits, offers, fence, links>>

\* _sla_hit_rates for the fleet, or narrowed to one client.
Delivered(scope) == {o \in Orders : order[o].delivered >= SINCE /\ order[o].client \in scope}
Assessable(scope) == {o \in Delivered(scope) : order[o].client # Nobody /\ delivery_commitment(o) # Never}
_sla_hit_rates(scope) ==
  [t \in {Tier[o] : o \in Assessable(scope)} |->
     LET of == {o \in Assessable(scope) : Tier[o] = t}
     IN [numerator |-> Cardinality({o \in of : order[o].delivered <= delivery_commitment(o)}),
         denominator |-> Cardinality(of)]]
build_client_performance(c) ==
  [delivered_count |-> Cardinality(Delivered({c})), hit_rates |-> _sla_hit_rates({c})]
\* The client's own screen; the client is the one of the token.
my_performance(token) == build_client_performance(token)

\* build_record_health: the same question, of the ledger.
Judgements == {i \in DOMAIN ledger : ledger[i].at >= SINCE /\ ledger[i].on_time # "none"}
on_time ==
  [numerator |-> Cardinality({i \in Judgements : ledger[i].on_time = "yes"}), denominator |-> Cardinality(Judgements)]
outcomes_recorded == Cardinality({i \in DOMAIN ledger : ledger[i].at >= SINCE})
record_health == [on_time |-> on_time, outcomes_recorded |-> outcomes_recorded]

-----------------------------------------------------------------------------
(* What became of offers.                                                   *)

MakeOffer(o) ==
  /\ offer[o].status = "none" /\ offer' = [offer EXCEPT ![o] = [@ EXCEPT !.at = now, !.status = "offered"]]
  /\ UNCHANGED <<now, promises, told, fence, links>>
\* One answer per offer (module FleetState).
Answer(o, status) ==
  /\ offer[o].status = "offered" /\ offer' = [offer EXCEPT ![o].status = status]
  /\ told' = [told EXCEPT !.calm = @ /\ (status # "declined" \/ told.step # "outcomes")]
  /\ UNCHANGED <<now, promises, fence, links>>
\* mutant: also on an offer that lapsed
MayAnnotate_Lapsed(o) == offer[o].status \in {"declined", "expired"}
MayAnnotate(o) == offer[o].status = "declined"
annotate_decline_reason(o, reason) ==
  /\ MayAnnotate(o) /\ offer' = [offer EXCEPT ![o].reason = reason]
  /\ UNCHANGED <<now, promises, told, fence, links>>

InWindow(o, since) == offer[o].status # "none" /\ offer[o].at >= since
\* _offer_outcomes: offers by status, then declines by reason.
ReadOutcomes ==
  /\ told.step = "idle"
  /\ LET since == now - WINDOW
         With(statuses) == Cardinality({o \in Offers : InWindow(o, since) /\ offer[o].status \in statuses})
     IN told' = [step |-> IF With({"declined"}) = 0 THEN "done" ELSE "outcomes", since |-> since, given |-> 0,
                 declined |-> With({"declined"}), ended |-> With({"accepted", "declined", "expired"}),
                 total |-> With({"offered", "accepted", "declined", "expired", "withdrawn"}), calm |-> TRUE]
  /\ UNCHANGED <<now, promises, offer, fence, links>>
\* mutant: every reason ever given
Reasoned_Ever(since) == {o \in Offers : offer[o].status = "declined" /\ offer[o].reason # "none"}
Reasoned(since) == {o \in Offers : InWindow(o, since) /\ offer[o].status = "declined" /\ offer[o].reason # "none"}
ReadReasons ==
  /\ told.step = "outcomes"
  /\ told' = [told EXCEPT !.step = "done", !.given = Cardinality(Reasoned(told.since))]
  /\ UNCHANGED <<now, promises, offer, fence, links>>

-----------------------------------------------------------------------------
(* Arrivals: the fence against the tap, the plan, and the order's age.      *)

Cross(s) ==
  /\ Cardinality(stop[s].crossed) < MaxCrossings /\ ~stop[s].completed
  /\ stop' = [stop EXCEPT ![s].crossed = @ \cup {now}]
  /\ UNCHANGED <<now, promises, offers, stored, links>>
Store(s, t) ==
  /\ t \in stop[s].crossed /\ <<s, t>> \notin stored /\ stored' = stored \cup {<<s, t>>}
  /\ UNCHANGED <<now, promises, offers, stop, links>>
Arrive(s) ==
  /\ stop[s].arrived = Never /\ stop' = [stop EXCEPT ![s].arrived = now]
  /\ UNCHANGED <<now, promises, offers, stored, links>>
\* A stop is completed after it is arrived at.
Complete(s) ==
  /\ stop[s].arrived # Never /\ ~stop[s].completed /\ stop' = [stop EXCEPT ![s].completed = TRUE]
  /\ UNCHANGED <<now, promises, offers, stored, links>>

\* The earliest entry received, whatever came first.
\* mutant: the latest
EnteredAt_Last(s) == Max({e[2] : e \in {x \in stored : x[1] = s}})
EnteredAt(s) == Min({e[2] : e \in {x \in stored : x[1] = s}})

Sorted(value, S) == SortSeq(SetToSeq({<<value[s], s>> : s \in S}), LAMBDA a, b : a[1] < b[1] \/ (a[1] = b[1] /\ a[2] < b[2]))
ValuesOf(value, S) == [i \in 1..Cardinality(S) |-> Sorted(value, S)[i][1]]

\* Linear interpolation between order statistics, in tenths, at tenths/10.
_percentile(v, tenths) ==
  LET position == tenths * (Len(v) - 1)
      lower == position \div 10
      upper == Min({lower + 1, Len(v) - 1})
      weight == position % 10
  IN v[lower + 1] * (10 - weight) + v[upper + 1] * weight

Entered == {s \in Stops : \E e \in stored : e[1] = s}
measure_geofence_calibration ==
  LET done == {s \in Stops : stop[s].completed}
      comparable == done \cap Entered
      lead == [s \in comparable |-> stop[s].arrived - EnteredAt(s)]
      leads == ValuesOf(lead, comparable)
  IN [completed_stops |-> Cardinality(done), stops_with_crossing |-> Cardinality(comparable), leads |-> leads,
      late_crossings |-> Cardinality({s \in comparable : lead[s] < 0}),
      lead_p50 |-> IF leads = <<>> THEN Never ELSE _percentile(leads, 5),
      lead_p90 |-> IF leads = <<>> THEN Never ELSE _percentile(leads, 9)]

\* app/reporting/insertion.py: twice the median, for a half may be left over.
\* mutant: the upper of the two in the middle
_median_Upper(v) == 2 * v[(Len(v) \div 2) + 1]
_median(v) ==
  LET middle == Len(v) \div 2
  IN IF Len(v) % 2 = 1 THEN 2 * v[middle + 1] ELSE v[middle] + v[middle + 1]

\* Drop-offs reached, by whether their order came after the route was made.
_delivered_dropoffs ==
  {s \in Stops : stop[s].arrived # Never /\ Requested[s] >= SINCE /\ stop[s].arrived > Requested[s]}
ToDoor == [s \in _delivered_dropoffs |-> stop[s].arrived - Requested[s]]
_split == [in_flight |-> {s \in _delivered_dropoffs : Requested[s] > RouteAt[s]},
           planned |-> {s \in _delivered_dropoffs : Requested[s] <= RouteAt[s]}]
in_flight_share == [numerator |-> Cardinality(_split.in_flight), denominator |-> Cardinality(_delivered_dropoffs)]

\* Against the plan of the day of acceptance, early negative.
_eta_accuracy ==
  LET seen == {s \in Stops : stop[s].arrived >= SINCE /\ Planned[s] # Never}
      error == ValuesOf([s \in seen |-> stop[s].arrived - Planned[s]], seen)
  IN [sample_size |-> Cardinality(seen), error |-> error,
      median |-> IF seen = {} THEN Never ELSE _percentile(error, 5)]

\* The parts of the scorecard this module works out.
build_operations_scorecard ==
  [eta |-> _eta_accuracy, hit_rates |-> _sla_hit_rates(Clients \cup {Nobody}), in_flight |-> in_flight_share]

-----------------------------------------------------------------------------
(* Work that could have gone together.                                      *)

Place(o) ==
  /\ visit[o].at = Never /\ visit' = [visit EXCEPT ![o].at = now]
  /\ UNCHANGED <<now, promises, offers, fence, ret, flags, nights>>
HandOver(o) ==
  /\ visit[o].at # Never /\ visit[o].delivered = Never /\ visit' = [visit EXCEPT ![o].delivered = now]
  /\ UNCHANGED <<now, promises, offers, fence, ret, flags, nights>>
Expect(r) ==
  /\ ret[r].at = Never /\ ret' = [ret EXCEPT ![r].at = now]
  /\ UNCHANGED <<now, promises, offers, fence, visit, flags, nights>>
Collect(r) ==
  /\ ret[r].at # Never /\ ret[r].collected = Never /\ ret' = [ret EXCEPT ![r].collected = now]
  /\ UNCHANGED <<now, promises, offers, fence, visit, flags, nights>>

\* The ids, sorted before hashing: their set.
\* mutant: hashed as the query returned them
_fingerprint_AsRead(parts) == parts
_fingerprint(parts) == {parts[i] : i \in DOMAIN parts}

\* mutant: a part waiting longer than the other detectors look back
Waiting_Window(r) == ret[r].at # Never /\ ret[r].collected = Never /\ now - ret[r].at <= WINDOW
Waiting(r) == ret[r].at # Never /\ ret[r].collected = Never /\ now - ret[r].at <= STALE
flag_open_returns_on_visits ==
  {[kind |-> "open_return", parts |-> <<<<"order", p[1]>>, <<"return", p[2]>>>>] :
     p \in {w \in (DOMAIN Shop) \X Returns : /\ visit[w[1]].at # Never /\ visit[w[1]].delivered = Never
                                             /\ Waiting(w[2]) /\ ReturnShop[w[2]] = Shop[w[1]]}}

\* rows is the order the query returned; a group's orders stand in that order.
Recent == {o \in DOMAIN Shop : visit[o].at # Never /\ visit[o].at >= now - WINDOW}
Of(rows, group) == LET ids == SelectSeq(rows, LAMBDA o : o \in group) IN [i \in DOMAIN ids |-> <<"order", ids[i]>>]
Account(o) == <<Ref[o], Root[Shop[o]]>>
flag_duplicates_across_branches(rows) ==
  {[kind |-> "duplicate_branch", parts |-> Of(rows, g)] :
     g \in {h \in {{o \in Recent : Account(o) = k} : k \in {Account(o) : o \in Recent}} :
              Cardinality({Shop[o] : o \in h}) >= 2}}
flag_repeat_visits(rows) ==
  {[kind |-> "repeat_visit", parts |-> Of(rows, g)] :
     g \in {h \in {{o \in Recent : Shop[o] = k[1] /\ visit[o].at \div DAY = k[2]} :
                     k \in {<<Shop[o], visit[o].at \div DAY>> : o \in Recent}} : Cardinality(h) >= 2}}

\* ON CONFLICT DO NOTHING on kind and fingerprint.
_raise_flag(question) == [kind |-> question.kind, fingerprint |-> _fingerprint(question.parts),
                          subjects |-> {question.parts[i] : i \in DOMAIN question.parts}, resolved |-> FALSE]
Raised(questions) ==
  {f \in {_raise_flag(q) : q \in questions} : \A g \in flags : g.kind # f.kind \/ g.fingerprint # f.fingerprint}

run_linkage_detectors ==
  /\ Cardinality(nights) < MaxNights /\ now \notin nights
  /\ \E rows \in {s \in [1..Cardinality(DOMAIN Shop) -> DOMAIN Shop] : \A i, j \in DOMAIN s : s[i] = s[j] => i = j} :
       flags' = flags \cup Raised(flag_open_returns_on_visits \cup flag_duplicates_across_branches(rows)
                                  \cup flag_repeat_visits(rows))
  /\ nights' = nights \cup {now}
  /\ UNCHANGED <<now, promises, offers, fence, visit, ret>>

\* What the dispatcher is shown.
linkage_flags == {f \in flags : ~f.resolved}

resolve_linkage_flag(f) ==
  /\ f \in flags /\ flags' = (flags \ {f}) \cup {[f EXCEPT !.resolved = TRUE]}
  /\ UNCHANGED <<now, promises, offers, fence, visit, ret, nights>>

-----------------------------------------------------------------------------
Next ==
  \/ Tick
  \/ \E o \in Orders, p \in {Never, now + 1} : \E c \in Who[o] : TakeIn(o, c, p)
  \/ \E k \in DOMAIN term, n \in Minutes : SetTerm(k[1], k[2], n)
  \/ \E o \in Orders : DropOff(o)
  \/ \E d \in doing : Commit(d)
  \/ \E o \in Offers : MakeOffer(o) \/ \E s \in {"accepted", "declined", "expired", "withdrawn"} : Answer(o, s)
  \/ \E o \in Offers, r \in Reasons : annotate_decline_reason(o, r)
  \/ ReadOutcomes \/ ReadReasons
  \/ \E s \in Stops : Cross(s) \/ Arrive(s) \/ Complete(s) \/ \E t \in stop[s].crossed : Store(s, t)
  \/ \E o \in DOMAIN Shop : Place(o) \/ HandOver(o)
  \/ \E r \in Returns : Expect(r) \/ Collect(r)
  \/ run_linkage_detectors
  \/ \E f \in linkage_flags : resolve_linkage_flag(f)

Spec == Init /\ [][Next]_vars

-----------------------------------------------------------------------------
\* The entry that judged an order; the order's terms have not been changed since.
EntryOf(o) == {i \in DOMAIN ledger : ledger[i].order = o}
TermsStand(o) ==
  \A e \in edits : e.whose # <<order[o].client, Tier[o]>> \/ \E i \in EntryOf(o) : e.after < i - 1

\* Every delivery has one outcome, whatever the app sends again; the client
\* screens add up to the fleet's; and while nobody has edited the terms since
\* the deliveries, the ledger and the screens give the same on-time figures
\* (an order with no client is on no screen).
ScreensAndLedgerAgree ==
  LET all == Clients \cup {Nobody}
      sum(f(_)) == MapThenSumSet(f, Clients)
      fleet == build_operations_scorecard.hit_rates
      mine(c, t) == IF t \in DOMAIN _sla_hit_rates({c}) THEN my_performance(c).hit_rates[t]
                    ELSE [numerator |-> 0, denominator |-> 0]
      nobodys == {i \in Judgements : order[ledger[i].order].client = Nobody}
  IN /\ \A o \in Orders : Cardinality(EntryOf(o)) = IF order[o].delivered = Never THEN 0 ELSE 1
     /\ record_health.outcomes_recorded = Cardinality(Delivered(all))
     /\ \A t \in DOMAIN fleet : /\ sum(LAMBDA c : mine(c, t).numerator) = fleet[t].numerator
                                /\ sum(LAMBDA c : mine(c, t).denominator) = fleet[t].denominator
     /\ (\A o \in Orders : EntryOf(o) # {} => TermsStand(o)) =>
          /\ record_health.on_time.denominator = MapThenSumSet(LAMBDA t : fleet[t].denominator, DOMAIN fleet) + Cardinality(nobodys)
          /\ record_health.on_time.numerator = MapThenSumSet(LAMBDA t : fleet[t].numerator, DOMAIN fleet)
                                 + Cardinality({i \in nobodys : ledger[i].on_time = "yes"})

\* The shares of a scorecard's offers are shares: the ways to end do not exceed
\* the offers, the reasons not the declines when none comes in between the two
\* queries, and a reason is only ever on an offer its driver turned down.
OfferSharesAddUp ==
  /\ told.step = "done" => told.ended <= told.total /\ (told.calm => told.given <= told.declined)
  /\ \A o \in Offers : offer[o].reason # "none" => offer[o].status = "declined"

\* The lead of a stop is from the phone's first crossing once its crossings are
\* in, whichever was received first; the two medians in use agree; the middle
\* lead is negative when most crossings came after the tap; and the pooled
\* order-to-door median lies between those of its two halves.
ArrivalsAreMeasured ==
  LET m == measure_geofence_calibration
      allIn == \A s \in Stops : \A t \in stop[s].crossed : <<s, t>> \in stored
      first(s) == Min(stop[s].crossed)
      both == {s \in Stops : stop[s].completed /\ stop[s].crossed # {}}
      med(S) == _median(ValuesOf(ToDoor, S))
      a == _split.in_flight
      b == _split.planned
      card == build_operations_scorecard
  IN /\ allIn => m.leads = ValuesOf([s \in both |-> stop[s].arrived - first(s)], both)
     /\ m.leads # <<>> => /\ m.lead_p50 = 5 * _median(m.leads) /\ m.lead_p50 <= m.lead_p90
                          /\ 2 * m.late_crossings > Len(m.leads) => m.lead_p50 < 0
     /\ a # {} /\ b # {} => Min({med(a), med(b)}) <= med(a \cup b) /\ med(a \cup b) <= Max({med(a), med(b)})
     /\ card.in_flight.numerator = card.in_flight.denominator - Cardinality(b)
     /\ card.eta.sample_size > 0 => card.eta.median = 5 * _median(card.eta.error)

\* The same work is never asked about twice, resolved or not, and a delivery
\* that went past a part waiting over a night was asked about.
QuestionsAskedOnce ==
  /\ \A f, g \in flags : f.kind = g.kind /\ f.subjects = g.subjects => f = g
  /\ \A o \in DOMAIN Shop, r \in Returns, n \in nights :
       (/\ visit[o].at # Never /\ visit[o].at < n /\ (visit[o].delivered = Never \/ visit[o].delivered > n)
        /\ ret[r].at # Never /\ ret[r].at < n /\ (ret[r].collected = Never \/ ret[r].collected > n)
        /\ n - ret[r].at <= STALE /\ ReturnShop[r] = Shop[o])
       => \E f \in flags : f.kind = "open_return" /\ f.subjects = {<<"order", o>>, <<"return", r>>}
=============================================================================
