------------------------------ MODULE Returns -------------------------------
(***************************************************************************)
(* Cores and other parts that go back (return_items).  An order may expect  *)
(* one, a client may announce one at a shop, and a driver may be handed one *)
(* nobody announced.  The driver's taps are sent by the app's outbox, one   *)
(* at a time and again until an answer arrives; a dispatcher changes the    *)
(* same rows from the office without locking them.                          *)
(***************************************************************************)
EXTENDS Integers, FiniteSets, Sequences

CONSTANTS
  Orders,     \* delivered on one route
  Shop,       \* Shop[o]: where an order's return goes
  Expects,    \* orders ingested with an expected return
  Manifests,  \* what a driver can type
  MaxTakes, MaxTaps   \* bounds
NoManifest == "none"
Core == "core"
Nothing == [id |-> 0]

VARIABLES
  items,      \* return_items rows
  taken,      \* parts the driver was handed unannounced: <<order, manifest>> -> how many
  taps,       \* the outbox
  serving     \* the dispatcher's request under way: the row it read

vars == <<items, taken, taps, serving>>

Statuses == {"expected", "ready_for_pickup", "collected", "not_ready", "returned_to_shop"}
\* Order 0: announced at the shop, for no order.
ReturnItem == [id : 1..10, order : Orders \cup {0}, shop : {Shop[o] : o \in Orders}, manifest : Manifests \cup {Core},
               status : Statuses, collected : BOOLEAN, adhoc : BOOLEAN]

TypeOK ==
  /\ items \subseteq ReturnItem /\ taken \in [Orders \X Manifests -> 0..MaxTakes] /\ Len(taps) <= MaxTaps
  /\ \A i, j \in items : i.id = j.id => i = j

Fresh == Cardinality(items) + 1
Row(o, s, m, st) == [id |-> Fresh, order |-> o, shop |-> s, manifest |-> m, status |-> st,
                     collected |-> st = "collected", adhoc |-> st = "collected"]

Init ==
  /\ items = {[id |-> o, order |-> o, shop |-> Shop[o], manifest |-> Core, status |-> "expected",
               collected |-> FALSE, adhoc |-> FALSE] : o \in Expects}
  /\ taken = [k \in Orders \X Manifests |-> 0] /\ taps = <<>> /\ serving = Nothing

-----------------------------------------------------------------------------
Moved(rows, st) == (items \ rows) \cup {[i EXCEPT !.status = st, !.collected = @ \/ st = "collected"] : i \in rows}
Of(o, sts) == {i \in items : i.order = o /\ i.status \in sts}
_expected_returns_for_stop(o) == Of(o, {"expected"})
\* mutant: a part already handed back is not recognised
_adhoc_return_already_recorded_Collected(o, m) == {i \in Of(o, {"collected"}) : i.manifest = m}
_adhoc_return_already_recorded(o, m) == {i \in Of(o, {"collected", "returned_to_shop"}) : i.manifest = m}

\* collect_return: whatever was expected is collected, manifest or not; an
\* unannounced part is recorded unless it already is.
collect_return(o, m) ==
  LET expected == _expected_returns_for_stop(o) IN
  IF expected # {} THEN Moved(expected, "collected")
  ELSE IF m # NoManifest /\ _adhoc_return_already_recorded(o, m) = {} THEN items \cup {Row(o, Shop[o], m, "collected")}
  ELSE items
return_not_ready(o) == Moved(_expected_returns_for_stop(o), "not_ready")
\* return_cores_to_shop: every collected part of the shop, whoever carries it.
return_cores_to_shop(s) == Moved({i \in items : i.shop = s /\ i.status = "collected"}, "returned_to_shop")

Effect(tap) ==
  CASE tap.kind = "collect-return" -> collect_return(tap.order, tap.manifest)
    [] tap.kind = "return-not-ready" -> return_not_ready(tap.order)
    [] tap.kind = "return-to-shop" -> return_cores_to_shop(Shop[tap.order])

\* The driver taps, or is handed a part and types what it is.
Enqueue(kind, o, m) ==
  /\ Len(taps) < MaxTaps /\ taps' = Append(taps, [kind |-> kind, order |-> o, manifest |-> m])
  /\ UNCHANGED <<items, serving>>
Tap(kind, o) == Enqueue(kind, o, NoManifest) /\ UNCHANGED taken
TakeAdhoc(o, m) ==
  /\ taken[<<o, m>>] < MaxTakes /\ taken' = [taken EXCEPT ![<<o, m>>] = @ + 1]
  /\ Enqueue("collect-return", o, m)
\* flush sends the head of the outbox, one item at a time, and it stays there
\* when the answer is lost.  Serving it is one step: the route reads and writes
\* without a lock, so this takes it that a call which lost its answer has ended
\* before it is sent again (README, known gaps).
Send(lost) ==
  /\ taps # <<>> /\ items' = Effect(Head(taps))
  /\ taps' = IF lost THEN taps ELSE Tail(taps)
  /\ UNCHANGED <<taken, serving>>

-----------------------------------------------------------------------------
\* flag_shop_returns_ready: a client announces one at its shop.
FlagReady(s) ==
  /\ ~\E i \in items : i.order = 0 /\ i.shop = s
  /\ items' = items \cup {Row(0, s, Core, "ready_for_pickup")}
  /\ UNCHANGED <<taken, taps, serving>>

\* mark_return_returned and reschedule_return read, decide and write.
May(i, act) == IF act = "mark" THEN i.status # "returned_to_shop" ELSE i.status = "not_ready"
Reads(i, act) ==
  /\ serving.id = 0 /\ May(i, act) /\ serving' = [id |-> i.id, act |-> act]
  /\ UNCHANGED <<items, taken, taps>>
Writes ==
  /\ serving.id # 0 /\ serving' = Nothing
  /\ items' = Moved({i \in items : i.id = serving.id}, IF serving.act = "mark" THEN "returned_to_shop" ELSE "ready_for_pickup")
  /\ UNCHANGED <<taken, taps>>

Next ==
  \/ \E o \in Orders, k \in {"collect-return", "return-not-ready", "return-to-shop"} : Tap(k, o)
  \/ \E o \in Orders, m \in Manifests : TakeAdhoc(o, m)
  \/ \E lost \in BOOLEAN : Send(lost)
  \/ \E o \in Orders : FlagReady(Shop[o])
  \/ \E i \in items, act \in {"mark", "reschedule"} : Reads(i, act)
  \/ Writes

Spec == Init /\ [][Next]_vars

-----------------------------------------------------------------------------
\* No retry invents a part that was never in the van: what is on record as
\* handed over unannounced at an order's door never outnumbers what the
\* driver was handed there, however often the tap is sent again and whatever
\* the office and the shop did to the row in between.
NoPartIsInvented ==
  \A o \in Orders, m \in Manifests :
    Cardinality({i \in items : i.adhoc /\ i.order = o /\ i.manifest = m}) <= taken[<<o, m>>]
=============================================================================
