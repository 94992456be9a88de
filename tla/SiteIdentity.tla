---------------------------- MODULE SiteIdentity ----------------------------
(***************************************************************************)
(* Docks that turn out to be one place (app/identity/merge.py,              *)
(* resolution.py) and what drivers say of a site (site_facts.py).  A merge  *)
(* aliases one dock to another, moves its shops and folds its answers in;   *)
(* it can be undone and redone.  Admins, drivers and the settling desk work *)
(* at once; dock rows are locked and read again before they are written.    *)
(***************************************************************************)
EXTENDS Integers, FiniteSets, Sequences, FiniteSetsExt

CONSTANTS
  Docks,      \* oldest first
  Alike,      \* pairs <<newer, older>> whose addresses or accounts look alike
  Shops, Home,   \* Home[h]: the dock a shop's address resolves to
  Stops, At,     \* At[s]: the dock a finished stop was at
  Values,     \* answers to the one question modelled
  Says,       \* Says[s]: what the driver of stop s may answer, and answer again
  Guessed,    \* Guessed[d]: what public data says of a dock, or NoValue
  Shared, Denial,   \* the docks the import recorded as sharing an address, and
                    \* the answer that they do not
  Admins,     \* the admins' errands, numbered as they are begun
  MAX_DISPUTES, MAX_SETTLED, MAX_REMEMBERED,   \* how long a fact's lists may grow
  MaxMerges,  \* bound: merge rows
  MaxAnswers  \* bound: answers taken of one stop
Nil == 0
NoValue == "none"
NoAnswer == [stop |-> Nil]

VARIABLES
  into,     \* locations.merged_into_id
  shop,     \* shops.location_id
  merges,   \* location_merges, oldest first
  fact,     \* a site's value, its source, and site_fact_answers
  adm,      \* what each admin has read and does next
  req,      \* what each answering driver has read
  desk,     \* the disputes the settling desk has on its screen
  given,    \* the answers taken of each stop, and where, oldest first
  lost      \* answers a full list has let go

vars == <<into, shop, merges, fact, adm, req, desk, given, lost>>

Idle == [step |-> "idle"]
Done == [step |-> "done"]
\* An answer by its fingerprint (the stop that gave it, what and when), and the
\* dock a merge carried it over from.
Key == [stop : Stops, value : Values, at : Nat]
Answer == [said : Key, from : Docks \cup {Nil}]
dispute_key(x) == x.said
Keys(S) == {dispute_key(x) : x \in S}
Entry == [value : Values \cup {NoValue}, source : {"none", "survey", "desk", "ops"}, said : Key \cup {NoAnswer},
          disputes : SUBSET Answer, agreed : SUBSET Answer, overruled : SUBSET Answer, absorbed : SUBSET Answer,
          settled : Seq(SUBSET Answer), turned : SUBSET Values]
Blank == [value |-> NoValue, source |-> "none", said |-> NoAnswer, disputes |-> {}, agreed |-> {}, overruled |-> {},
          absorbed |-> {}, settled |-> <<>>, turned |-> {}]
LocationMerge == [src : Docks, tgt : Docks, moved : SUBSET Shops,
                  status : {"proposed", "applied", "rejected", "reverted", "superseded"}]

TypeOK ==
  /\ into \in [Docks -> Docks \cup {Nil}] /\ shop \in [Shops -> Docks \cup {Nil}]
  /\ merges \in Seq(LocationMerge) /\ fact \in [Docks -> Entry]

Init ==
  /\ into = [d \in Docks |-> Nil] /\ shop = [h \in Shops |-> Nil]
  /\ merges = <<>> /\ fact = [d \in Docks |-> Blank]
  /\ adm = [a \in Admins |-> Idle] /\ req = [s \in Stops |-> Idle]
  /\ desk = Idle /\ given = [s \in Stops |-> <<>>] /\ lost = {}

\* canonical_location: follow the aliases, at most as many as there are docks.
canonical_location(d) ==
  LET hop[n \in 0..Cardinality(Docks)] == IF n = 0 THEN d ELSE IF into[hop[n - 1]] = Nil THEN hop[n - 1] ELSE into[hop[n - 1]]
  IN hop[Cardinality(Docks)]

-----------------------------------------------------------------------------
\* link_shop_to_dock: an address already known resolves to its canonical dock.
LinkShop(h) ==
  /\ shop[h] = Nil
  /\ shop' = [shop EXCEPT ![h] = canonical_location(Home[h])]
  /\ UNCHANGED <<into, merges, fact, adm, req, desk, given, lost>>

\* propose_duplicate_locations: a pair once proposed, either way round, is
\* never proposed again.
Considered == {{merges[i].src, merges[i].tgt} : i \in DOMAIN merges}
Propose(p) ==
  /\ p \in Alike /\ {p[1], p[2]} \notin Considered /\ Len(merges) < MaxMerges
  /\ into[p[1]] = Nil /\ into[p[2]] = Nil
  /\ merges' = Append(merges, [src |-> p[1], tgt |-> p[2], moved |-> {}, status |-> "proposed"])
  /\ UNCHANGED <<into, shop, fact, adm, req, desk, given, lost>>

\* An admin opens a row; what may be done depends on the status read here.
Wants(what) == CASE what \in {"confirm", "reject"} -> "proposed" [] what = "revert" -> "applied" [] what = "redo" -> "reverted"
Pick(a, m, what) ==
  /\ adm[a] = Idle /\ (\A b \in Admins : b < a => adm[b] # Idle)
  /\ merges[m].status = Wants(what)
  /\ adm' = [adm EXCEPT ![a] = [step |-> what, row |-> m]]
  /\ UNCHANGED <<into, shop, merges, fact, req, desk, given, lost>>

Back(a) == adm' = [adm EXCEPT ![a] = Done]

reject_merge(a) ==
  /\ adm[a].step = "reject"
  /\ merges' = [merges EXCEPT ![adm[a].row].status = "rejected"]
  /\ Back(a)
  /\ UNCHANGED <<into, shop, fact, req, desk, given, lost>>

\* redo_merge: a row of its own, unless one of the docks has been merged since.
redo_merge(a) ==
  LET m == merges[adm[a].row] IN
  /\ adm[a].step = "redo"
  /\ IF into[m.src] = Nil /\ into[m.tgt] = Nil /\ Len(merges) < MaxMerges
     THEN adm' = [adm EXCEPT ![a] = [step |-> "lock", row |-> Nil, src |-> m.src, tgt |-> m.tgt]]
     ELSE Back(a)
  /\ UNCHANGED <<into, shop, merges, fact, req, desk, given, lost>>

\* _apply, first part: the pair as it stands now, aliases followed; a pair that
\* has become one dock is closed as superseded.
Look(a) ==
  LET m == adm[a].row
      s == canonical_location(merges[m].src)
      t == canonical_location(merges[m].tgt)
  IN
  /\ adm[a].step = "confirm"
  /\ IF s = t
     THEN merges' = [merges EXCEPT ![m].status = "superseded"] /\ Back(a)
     ELSE adm' = [adm EXCEPT ![a] = [step |-> "lock", row |-> m, src |-> s, tgt |-> t]] /\ UNCHANGED merges
  /\ UNCHANGED <<into, shop, fact, req, desk, given, lost>>

\* What a fact's record holds, in all its lists.
Own(e) == IF e.said # NoAnswer THEN {[said |-> e.said, from |-> Nil]} ELSE {}
Remembered(e) ==
  Own(e) \cup e.disputes \cup e.agreed \cup e.overruled \cup e.absorbed
  \cup UNION {e.settled[i] : i \in DOMAIN e.settled}

\* [-max:]: a list keeps what was added to it last.  (Which of the older ones go
\* first is left open, and an answer listed twice is counted once.)
Listed(old, new, max) ==
  {L \in SUBSET (old \cup new) :
     /\ Cardinality(L) = Min({max, Cardinality(old \cup new)})
     /\ new \subseteq L \/ L \subseteq new}
\* A fact is written; what its lists have let go and no other list has is lost.
Write(d, e, gone) ==
  /\ fact' = [fact EXCEPT ![d] = e]
  /\ lost' = lost \cup Keys(gone \ Remembered(e))

\* fold_answers: what the source's stops said is remembered at the target, and
\* disputed there if it differs.
Tag(S, d) == {[x EXCEPT !.from = d] : x \in S}
fold_answers(s, t) ==
  LET e == fact[s]
      o == fact[t]
      raised == Tag({x \in e.disputes \cup Own(e) : x.said.value # o.value}, s)
      kept == Tag(Remembered(e), s)
  IN \E L \in Listed(o.disputes, raised, MAX_DISPUTES), M \in Listed(o.absorbed, kept, MAX_REMEMBERED) :
       Write(t, [o EXCEPT !.disputes = L, !.absorbed = M],
             ((o.disputes \cup raised) \ L) \cup ((o.absorbed \cup kept) \ M))
unfold_answers(s, t) ==
  [fact[t] EXCEPT !.disputes = {x \in @ : x.from # s}, !.absorbed = {x \in @ : x.from # s}]

\* mutant: the rows are not read again under the lock
StillApart_Assumed(s, t) == TRUE

StillApart(s, t) == into[s] = Nil /\ into[t] = Nil

\* _apply, second part, under both docks' locks.
Apply(a) ==
  LET s == adm[a].src
      t == adm[a].tgt
      moved == {h \in Shops : shop[h] = s}
      row == [src |-> s, tgt |-> t, moved |-> moved, status |-> "applied"]
  IN
  /\ adm[a].step = "lock" /\ Back(a)
  /\ IF StillApart(s, t)
     THEN /\ into' = [into EXCEPT ![s] = t]
          /\ shop' = [h \in Shops |-> IF h \in moved THEN t ELSE shop[h]]
          /\ fold_answers(s, t)
          /\ merges' = IF adm[a].row = Nil THEN Append(merges, row) ELSE [merges EXCEPT ![adm[a].row] = row]
     ELSE UNCHANGED <<into, shop, fact, merges, lost>>
  /\ UNCHANGED <<req, desk, given>>

\* revert_merge: under the locks too; refused while the target is itself merged.
Revert(a) ==
  LET m == merges[adm[a].row] IN
  /\ adm[a].step = "revert" /\ Back(a)
  /\ IF into[m.tgt] = Nil
     THEN /\ into' = [into EXCEPT ![m.src] = Nil]
          /\ shop' = [h \in Shops |-> IF h \in m.moved THEN m.src ELSE shop[h]]
          /\ fact' = [fact EXCEPT ![m.tgt] = unfold_answers(m.src, m.tgt)]
          /\ merges' = [merges EXCEPT ![adm[a].row].status = "reverted"]
     ELSE UNCHANGED <<into, shop, fact, merges>>
  /\ UNCHANGED <<req, desk, given, lost>>

-----------------------------------------------------------------------------
\* record_site_facts.  _lock_canonical follows the aliases, locks, and follows
\* again if the dock was merged meanwhile.
AnswerReads(s, v) ==
  /\ req[s] = Idle /\ Len(given[s]) < MaxAnswers
  /\ req' = [req EXCEPT ![s] = [step |-> "lock", site |-> canonical_location(At[s]), value |-> v]]
  /\ UNCHANGED <<into, shop, merges, fact, adm, desk, given, lost>>

\* mutant: the dock locked is written to, merged or not
SiteUnderLock_AsRead(s) == req[s].site
SiteUnderLock(s) == canonical_location(req[s].site)

\* apply_desk_facts: public data fills in what nobody knows, until somebody does.
Prefill(d) ==
  /\ fact[d].value = NoValue /\ Guessed[d] # NoValue
  /\ fact' = [fact EXCEPT ![d].value = Guessed[d], ![d].source = "desk"]
  /\ UNCHANGED <<into, shop, merges, adm, req, desk, given, lost>>
fact_is_open(e) == e.value = NoValue \/ e.source = "desk"

\* An open fact takes the answer, unless it denies what the import recorded; a
\* differing one raises a dispute, unless the desk has already kept the fact
\* against that very value; an equal one agrees.
contradicts_import(d, v) == d \in Shared /\ v = Denial
Take(d, x) ==
  LET e == fact[d]
      v == x.said.value
      open == fact_is_open(e) /\ ~contradicts_import(d, v)
  IN
  \/ /\ open
     /\ Write(d, [e EXCEPT !.value = v, !.source = "survey", !.said = x.said], {})
  \/ /\ ~open /\ e.value # v /\ v \in e.turned
     /\ \E L \in Listed(e.overruled, {x}, MAX_REMEMBERED) :
          Write(d, [e EXCEPT !.overruled = L], (e.overruled \cup {x}) \ L)
  \/ /\ ~open /\ e.value # v /\ v \notin e.turned
     /\ \E L \in Listed(e.disputes, {x}, MAX_DISPUTES) :
          Write(d, [e EXCEPT !.disputes = L], (e.disputes \cup {x}) \ L)
  \/ /\ ~open /\ e.value = v
     /\ \E L \in Listed(e.agreed, {x}, MAX_DISPUTES) :
          Write(d, [e EXCEPT !.agreed = L], (e.agreed \cup {x}) \ L)

\* mutant: a request sent again is taken again
AnsweredHere_Never(e, s) == FALSE
\* _answered_at: a repeat changes nothing, and another answer of the same stop is
\* refused.
AnsweredHere(e, s) == \E x \in Remembered(e) : x.said.stop = s

AnswerWrites(s) ==
  LET site == SiteUnderLock(s)
      said == [stop |-> s, value |-> req[s].value, at |-> Len(given[s])]
  IN
  /\ req[s] # Idle /\ req' = [req EXCEPT ![s] = Idle]
  /\ IF AnsweredHere(fact[site], s) THEN UNCHANGED <<fact, given, lost>>
     ELSE /\ Take(site, [said |-> said, from |-> Nil])
          /\ given' = [given EXCEPT ![s] = Append(@, [site |-> site, said |-> said])]
  /\ UNCHANGED <<into, shop, merges, adm, desk>>

\* The desk opens a dispute, and settles what it has on its screen: the fact
\* is kept, or takes a disputed answer.
OpenDispute(d) ==
  /\ desk = Idle /\ into[d] = Nil /\ fact[d].disputes # {}
  /\ desk' = [step |-> "open", dock |-> d, seen |-> Keys(fact[d].disputes)]
  /\ UNCHANGED <<into, shop, merges, fact, adm, req, given, lost>>

\* mutant: answers that arrived since are settled unseen
Unchanged_Any(e) == TRUE
Unchanged(e) == Keys(e.disputes) = desk.seen

Refuses(e, take) ==
  e.disputes = {} \/ ~Unchanged(e) \/ (take # NoValue /\ \A x \in e.disputes : x.said.value # take)
\* The last settlements are kept, each with the disputes and the answer replaced.
Settlements(e, take) == Append(e.settled, e.disputes \cup (IF take = NoValue THEN {} ELSE Own(e)))
Settled(e, take) ==
  LET all == Settlements(e, take)
  IN [value |-> IF take = NoValue THEN e.value ELSE take, source |-> "ops",
      said |-> IF take = NoValue THEN e.said ELSE NoAnswer, disputes |-> {},
      agreed |-> e.agreed, overruled |-> e.overruled, absorbed |-> e.absorbed,
      settled |-> IF Len(all) > MAX_SETTLED THEN Tail(all) ELSE all,
      turned |-> IF take = NoValue THEN {x.said.value : x \in e.disputes} ELSE {}]

settle_dispute(take) ==
  LET d == canonical_location(desk.dock)
      all == Settlements(fact[d], take)
  IN
  /\ desk # Idle /\ desk' = Idle
  /\ IF Refuses(fact[d], take) THEN UNCHANGED <<fact, lost>>
     ELSE Write(d, Settled(fact[d], take), IF Len(all) > MAX_SETTLED THEN Head(all) ELSE {})
  /\ UNCHANGED <<into, shop, merges, adm, req, given>>

Next ==
  \/ \E h \in Shops : LinkShop(h)
  \/ \E p \in Alike : Propose(p)
  \/ \E a \in Admins :
       \/ reject_merge(a) \/ redo_merge(a) \/ Look(a) \/ Apply(a) \/ Revert(a)
       \/ \E m \in DOMAIN merges, what \in {"confirm", "reject", "revert", "redo"} : Pick(a, m, what)
  \/ \E s \in Stops : AnswerWrites(s) \/ \E v \in Says[s] : AnswerReads(s, v)
  \/ \E d \in Docks : OpenDispute(d) \/ Prefill(d)
  \/ \E take \in Values \cup {NoValue} : settle_dispute(take)

Spec == Init /\ [][Next]_vars

-----------------------------------------------------------------------------
\* Whatever merges race, following the aliases from any dock ends at a dock
\* that is not merged.
AliasesEnd == \A d \in Docks : into[canonical_location(d)] = Nil

\* However docks are merged, undone and redone while drivers answer and the
\* desk settles, an answer once taken is still on record at the dock its site
\* is now known as, unless a list it was on was full and let it go: the caps are
\* the only way an answer is lost (record_site_facts, fold_answers,
\* settle_dispute).
AnswersAreKept ==
  \A s \in Stops : \A i \in DOMAIN given[s] :
    given[s][i].said \notin lost => given[s][i].said \in Keys(Remembered(fact[canonical_location(given[s][i].site)]))

\* A request sent again counts once: a dock has taken two answers of one stop
\* only where it had let one of them go (_answered_at, _UNANSWERED).
AnswersCountOnce ==
  \A d \in Docks : \A x, y \in {z \in Remembered(fact[d]) : z.from = Nil} :
    x.said.stop = y.said.stop => x = y \/ {x.said, y.said} \cap lost # {}

\* No dispute is ever closed by somebody who had not seen it: all that settling
\* files as decided was on the screen, wherever a merge has carried it since.
SettlesWhatWasSeen ==
  \A d \in Docks : fact[d].disputes # {} /\ fact'[d].disputes = {} /\ fact'[d].settled # fact[d].settled
    => desk # Idle /\ Keys(fact[d].disputes) \subseteq desk.seen
SettledWereSeen == [][SettlesWhatWasSeen]_vars

\* Every merge has a row it can be reverted by.  It does not hold (README,
\* known gaps).
MergesCanBeReverted ==
  \A d \in Docks : into[d] # Nil =>
    \E m \in DOMAIN merges : merges[m].src = d /\ merges[m].tgt = into[d] /\ merges[m].status = "applied"
=============================================================================
